---------------------------- MODULE BeforeSave ----------------------------
(***************************************************************************)
(* Writes that wait for `on-before-buffer-save` handlers                   *)
(* (hume-editor/src/editor/before_save.rs) and the commands that request   *)
(* them (commands/typed_file.rs): `:w`, `:wq` and the batch of `:wa`.  A   *)
(* write is parked until the event is raised, then until every handler     *)
(* that takes `done` has called it, the timeout fires, or a config reload  *)
(* releases it; then the live text is written.                             *)
(*                                                                         *)
(* The loop in which a command requests its writes is stepped: while       *)
(* `asking` is not Idle only its next step is enabled, as the loop runs    *)
(* inside one command.                                                     *)
(***************************************************************************)
EXTENDS Integers, Sequences, SequencesExt, FiniteSets, Collections

CONSTANTS
  BufferId,
  HandlerCounts, \* bound: how many handlers that take `done` there can be
  MaxRequests,   \* bound: write commands given
  Forces,        \* whether the commands given may be, or all are, forced (`!`)
  Shared,        \* bound: buffers whose files other programs may change
  NoHook,        \* no handler of the event is registered
  NoTimer,       \* no timeout is armed for the write
  Idle,          \* no command is requesting writes
  PluginCloses   \* a plugin activated by the event may close buffers

\* AfterWrite.
NothingAfter == [kind |-> "nothing"]
QuitAfter    == [kind |-> "quit"]
BatchAfter(id) == [kind |-> "batch", id |-> id]
After == {NothingAfter, QuitAfter} \cup {BatchAfter(id) : id \in 1 .. MaxRequests}

\* The writes a command has still to request.
Request == [todo : Seq(BufferId), force : Forces, after : After]

ASSUME BeforeSaveAssumption ==
  /\ HandlerCounts \subseteq Nat /\ MaxRequests \in Nat
  /\ NoTimer \notin Nat /\ NoHook \notin Nat /\ Idle \notin Request
  /\ PluginCloses \in BOOLEAN /\ Forces \subseteq BOOLEAN
  /\ Shared \subseteq BufferId /\ IsFiniteSet(BufferId)

VARIABLES
  open,        \* the buffers in the BufferStore
  dirty,       \* the buffers with unsaved changes, or closed with some
  stale,       \* those whose file another program changed
  handlers,    \* by buffer, the handlers its language brings that take
               \* `done`, NoHook when it brings no handler of the event at all
  lazy,        \* a plugin is still to be activated by the event
  parked,      \* PendingWrites.writes
  batches,     \* PendingWrites.batches
  asking,      \* the command requesting writes
  timers,      \* armed BeforeSaveTimeout timers
  next_token,  \* HostToken::mint and timer ids
  requests,    \* write commands given
  exited       \* the editor has quit

texts  == <<open, dirty, stale>>
config == <<handlers, lazy>>
vars   == <<texts, config, parked, batches, asking, timers, next_token,
            requests, exited>>

HandlersOf == [BufferId -> HandlerCounts \cup {NoHook}]

\* What a batch counts its members under.
BatchOutcome == {"written", "stale", "in_progress"}

Init ==
  /\ open = BufferId
  /\ dirty = {}
  /\ stale = {}
  /\ handlers \in HandlersOf
  /\ lazy \in BOOLEAN
  /\ parked = <<>>
  /\ batches = <<>>
  /\ asking = Idle
  /\ timers = {}
  /\ next_token = 1
  /\ requests = 0
  /\ exited = FALSE

-----------------------------------------------------------------------------
(* Parked writes *)

Without(writes, bs) == Retain(writes, {w \in ToSet(writes) : w.buffer \notin bs})

ParkedBuffers == {parked[i].buffer : i \in DOMAIN parked}
WriteOf(b)    == parked[CHOOSE i \in DOMAIN parked : parked[i].buffer = b]

InBatch(w, id) == w.after.kind = "batch" /\ w.after.id = id
Ready(w)       == w.raised /\ w.holds = {}

\* The parked writes whose event is not raised, and those no handler holds.
Unraised    == {i \in DOMAIN parked : ~parked[i].raised}
ReadyWrites == {i \in DOMAIN parked : Ready(parked[i])}

\* The first of some parked writes, in park order.
First(writes) == CHOOSE i \in writes : \A j \in writes : i <= j

\* Mutant of Disarm: a write's end leaves its timer armed.
DisarmNothing(ts) == timers

\* Timers::cancel of the timers named.
Disarm(ts) == {t \in timers : t.id \notin ts}

\* What write_file can end in: an I/O error may always come, and a changed
\* file is refused unless forced.
Outcomes(b, force) ==
  {"failed", IF b \in stale /\ ~force THEN "stale" ELSE "written"}

Unsaved == dirty \cap open

\* The buffers bs are closed: their writes are forgotten (forget_buffer) and
\* their timers are not.
Closing(bs, writes) ==
  /\ open' = open \ bs
  /\ parked' = Without(writes, bs)

\* A PendingWrite.  `minted` and `answered` are history: the holds opened for
\* it by handlers that still exist, and those `done` was called with.
Parked(b, force, after) ==
  [buffer |-> b, force |-> force, after |-> after, raised |-> FALSE,
   holds |-> {}, timer |-> NoTimer, minted |-> {}, answered |-> {}]

\* drop_batch: the timers of the writes of batch `id` still in `writes`.
BatchTimers(writes, id) == {w.timer : w \in {v \in ToSet(writes) : InBatch(v, id)}}

\* record_batch_write: a hard failure ends the batch and drops its writes
\* still in `writes`; anything else is counted.
RecordInBatch(id, b, outcome, writes, disarmed) ==
  IF outcome = "failed"
    THEN /\ batches' = [batches EXCEPT ![id].ended = TRUE]
         /\ parked' = Retain(writes, {w \in ToSet(writes) : ~InBatch(w, id)})
         /\ timers' = Disarm({disarmed} \cup BatchTimers(writes, id))
    ELSE /\ batches' = [batches EXCEPT ![id].outcomes[outcome] = @ \cup {b}]
         /\ parked' = writes
         /\ timers' = Disarm({disarmed})

\* Mutant of MayQuit: quitting checks no buffer.
MayQuitAlways(force) == TRUE

\* EditorState::quit's check of every buffer.
MayQuit(force) == dirty' \cap open = {} \/ force

\* typed_quit after a write that ended in `outcome`: the pane may have moved
\* on or be one of several; else the buffer is closed while another one stays,
\* or the editor exits.  Unsaved changes refuse both without force.
QuitAfterWrite(b, force, outcome, writes) ==
  \/ /\ parked' = writes
     /\ UNCHANGED <<open, exited>>
  \/ /\ outcome = "written" \/ force
     /\ \/ /\ open \ {b} # {}
           /\ b \in dirty' => force
           /\ Closing({b}, writes)
           /\ UNCHANGED exited
        \/ /\ open \ {b} = {}
           /\ MayQuit(force)
           /\ exited' = TRUE
           /\ parked' = writes
           /\ UNCHANGED open

\* write_and_continue of b, whose parked write (if any) was taken out of
\* `writes` and whose timer `disarmed` is cancelled.
WriteAndContinue(b, force, after, writes, disarmed) ==
  \E outcome \in Outcomes(b, force) :
    /\ dirty' = IF outcome = "written" THEN dirty \ {b} ELSE dirty
    /\ stale' = IF outcome = "written" THEN stale \ {b} ELSE stale
    /\ \/ /\ after = NothingAfter
          /\ parked' = writes
          /\ timers' = Disarm({disarmed})
          /\ UNCHANGED <<open, batches, exited>>
       \/ /\ after = QuitAfter
          /\ QuitAfterWrite(b, force, outcome, writes)
          /\ timers' = Disarm({disarmed})
          /\ UNCHANGED batches
       \/ /\ after.kind = "batch"
          /\ RecordInBatch(after.id, b, outcome, writes, disarmed)
          /\ UNCHANGED <<open, exited>>

-----------------------------------------------------------------------------
(* The commands *)

Free == asking = Idle /\ ~exited

Ask(todo, force, after) ==
  /\ Free
  /\ requests < MaxRequests
  /\ requests' = requests + 1
  /\ asking' = [todo |-> todo, force |-> force, after |-> after]

\* typed_write and typed_write_quit.
TypedWrite(b, force, after) ==
  /\ b \in open
  /\ Ask(<<b>>, force, after)
  /\ UNCHANGED <<texts, config, parked, batches, timers, next_token, exited>>

\* typed_write_all: the dirty buffers, in open order, make one batch.
TypedWriteAll(force) ==
  \E todo \in SetToSeqs(Unsaved) :
    /\ todo # <<>>
    /\ batches' = Append(batches,
         [members |-> Unsaved, sealed |-> FALSE, ended |-> FALSE, reported |-> FALSE,
          outcomes |-> [o \in BatchOutcome |-> {}]])
    /\ Ask(todo, force, BatchAfter(Len(batches) + 1))
    /\ UNCHANGED <<texts, config, parked, timers, next_token, exited>>

\* request_write is called for the next buffer: BufferStore::get panics for
\* one that is closed.
Asking == asking # Idle /\ asking.todo # <<>> /\ Head(asking.todo) \in open

\* request_write's first step: plugins waiting for the event are activated,
\* which can register handlers and close buffers.  When it closed the buffer
\* to write, the request is over.
ActivateLazy ==
  /\ Asking /\ lazy
  /\ lazy' = FALSE
  /\ handlers' \in HandlersOf
  /\ \E closed \in SUBSET open :
       /\ closed # {} => PluginCloses
       /\ Closing(closed, parked)
       /\ asking' = IF Head(asking.todo) \in closed
                      THEN [asking EXCEPT !.todo = Tail(@)] ELSE asking
  /\ UNCHANGED <<dirty, stale, batches, timers, next_token, requests, exited>>

NextAsked  == [asking EXCEPT !.todo = Tail(@)]
BatchAsked == asking.after.kind = "batch"

\* No handler: the buffer is written at once.  A hard failure leaves the loop.
WriteNow ==
  /\ Asking /\ ~lazy
  /\ handlers[Head(asking.todo)] = NoHook
  /\ WriteAndContinue(Head(asking.todo), asking.force, asking.after, parked, NoTimer)
  /\ asking' = IF BatchAsked /\ batches'[asking.after.id].ended THEN Idle ELSE NextAsked
  /\ UNCHANGED <<config, next_token, requests>>

\* The buffer's write is already parked: conclude_write of "in progress".
AlreadyParked ==
  /\ Asking /\ ~lazy
  /\ handlers[Head(asking.todo)] # NoHook
  /\ Head(asking.todo) \in ParkedBuffers
  /\ batches' = IF BatchAsked
                  THEN [batches EXCEPT ![asking.after.id].outcomes["in_progress"] =
                          @ \cup {Head(asking.todo)}]
                  ELSE batches
  /\ asking' = NextAsked
  /\ UNCHANGED <<texts, config, parked, timers, next_token, requests, exited>>

Park ==
  /\ Asking /\ ~lazy
  /\ handlers[Head(asking.todo)] # NoHook
  /\ Head(asking.todo) \notin ParkedBuffers
  /\ parked' = Append(parked, Parked(Head(asking.todo), asking.force, asking.after))
  /\ asking' = NextAsked
  /\ UNCHANGED <<texts, config, batches, timers, next_token, requests, exited>>

\* The end of the loop: typed_write_all seals its batch.
Requested ==
  /\ asking # Idle /\ asking.todo = <<>>
  /\ asking' = Idle
  /\ batches' = IF asking.after.kind = "batch"
                  THEN [batches EXCEPT ![asking.after.id].sealed = TRUE] ELSE batches
  /\ UNCHANGED <<texts, config, parked, timers, next_token, requests, exited>>

-----------------------------------------------------------------------------
(* The editor's loop *)

\* Mutant of NextToken: the timer's token is handed out again.
NextTokenShort(count) == next_token + count

\* Tokens are minted for `count` holds and for the timer any hold brings.
NextToken(count) == IF count = 0 THEN next_token ELSE next_token + count + 1

\* fire_before_save for the first write whose event is not raised: one hold
\* is minted per handler that takes `done`, and a timer when there is any.
Raise ==
  /\ Free
  /\ Unraised # {}
  /\ LET i     == First(Unraised)
         takers == handlers[parked[i].buffer]
         count == IF takers = NoHook THEN 0 ELSE takers
         holds == next_token .. (next_token + count - 1)
         timer == IF count = 0 THEN NoTimer ELSE next_token + count
     IN  /\ parked' = [parked EXCEPT ![i].raised = TRUE, ![i].holds = holds,
                                     ![i].minted = holds, ![i].timer = timer]
         /\ timers' = IF count = 0 THEN timers
                      ELSE timers \cup {[id |-> timer, buffer |-> parked[i].buffer]}
         /\ next_token' = NextToken(count)
  /\ UNCHANGED <<texts, config, batches, asking, requests, exited>>

\* commit_ready_writes: the first write no handler holds is written.
CommitReady ==
  /\ Free
  /\ ReadyWrites # {}
  /\ LET w == parked[First(ReadyWrites)]
     IN  WriteAndContinue(w.buffer, w.force, w.after, Without(parked, {w.buffer}), w.timer)
  /\ UNCHANGED <<config, asking, next_token, requests>>

\* Mutant of Finished: parked writes are not looked at.
FinishedOnceSealed(id) == batches[id].sealed

\* Mutant of Finished: it waits until every member has been counted.
FinishedOnceCounted(id) ==
  batches[id].members \subseteq UNION {batches[id].outcomes[o] : o \in BatchOutcome}

\* report_finished_write_batches: a sealed batch with no write left parked.
Finished(id) ==
  /\ batches[id].sealed
  /\ \A i \in DOMAIN parked : ~InBatch(parked[i], id)

ReportFinished(id) ==
  /\ Free
  /\ id \in DOMAIN batches
  /\ ~batches[id].ended /\ ~batches[id].reported
  /\ Finished(id)
  /\ batches' = [batches EXCEPT ![id].reported = TRUE]
  /\ UNCHANGED <<texts, config, parked, asking, timers, next_token, requests, exited>>

\* before_save_timed_out: the timer names only its buffer.
TimedOut(t) ==
  /\ Free
  /\ t \in timers
  /\ IF t.buffer \in ParkedBuffers
       THEN LET w == WriteOf(t.buffer)
            IN  /\ WriteAndContinue(w.buffer, w.force, w.after,
                                    Without(parked, {w.buffer}), t.id)
       ELSE /\ timers' = timers \ {t}
            /\ UNCHANGED <<texts, parked, batches, exited>>
  /\ UNCHANGED <<config, asking, next_token, requests>>

-----------------------------------------------------------------------------
(* Scripts, the user and other programs *)

\* Mutant of Answer: the first `done` ends the wait for all handlers.
AnswerForAll(w, hold) ==
  [w EXCEPT !.holds = IF hold \in @ THEN {} ELSE @,
            !.answered = @ \cup ({hold} \cap w.minted)]

\* PendingWrites::finish for one write.
Answer(w, hold) ==
  [w EXCEPT !.holds = @ \ {hold}, !.answered = @ \cup ({hold} \cap w.minted)]

\* A handler calls `done`, in time, again, or for a write long gone.
Done(hold) ==
  /\ Free
  /\ parked' = [i \in DOMAIN parked |-> Answer(parked[i], hold)]
  /\ UNCHANGED <<texts, config, batches, asking, timers, next_token, requests, exited>>

\* `:reload-config` drops the engine the handlers ran in: release_all, which
\* leaves the timers to the commits.
ReloadConfig ==
  /\ Free
  /\ parked' = [i \in DOMAIN parked |->
                  [parked[i] EXCEPT !.raised = TRUE, !.holds = {}, !.minted = {}]]
  /\ handlers' \in HandlersOf
  /\ lazy' \in BOOLEAN
  /\ UNCHANGED <<texts, batches, asking, timers, next_token, requests, exited>>

\* The buffer's language changes, and with it the handlers it has.
SetLanguage(b) ==
  /\ Free
  /\ b \in open
  /\ \E takers \in HandlerCounts \cup {NoHook} : handlers' = [handlers EXCEPT ![b] = takers]
  /\ UNCHANGED <<texts, lazy, parked, batches, asking, timers, next_token, requests, exited>>

\* close_buffer_and_notify.
Close(b, force) ==
  /\ Free
  /\ b \in open
  /\ b \in dirty => force
  /\ Closing({b}, parked)
  /\ UNCHANGED <<dirty, stale, config, batches, asking, timers, next_token, requests, exited>>

\* typed_quit_all: the writes still parked end with the editor.
QuitAll(force) ==
  /\ Free
  /\ UNCHANGED <<texts, config, parked, batches, asking, timers, next_token, requests>>
  /\ MayQuit(force)
  /\ exited' = TRUE

Edit(b) ==
  /\ Free
  /\ b \in open
  /\ dirty' = dirty \cup {b}
  /\ UNCHANGED <<open, stale, config, parked, batches, asking, timers, next_token,
                 requests, exited>>

ExternalWrite(b) ==
  /\ Free
  /\ b \in open \cap Shared
  /\ stale' = stale \cup {b}
  /\ UNCHANGED <<open, dirty, config, parked, batches, asking, timers, next_token,
                 requests, exited>>

Loop ==
  \/ ActivateLazy
  \/ WriteNow
  \/ AlreadyParked
  \/ Park
  \/ Requested
  \/ Raise
  \/ CommitReady
  \/ \E id \in 1 .. MaxRequests : ReportFinished(id)
  \/ \E t \in timers : TimedOut(t)

Next ==
  \/ Loop
  \/ \E b \in BufferId, force \in Forces, after \in {NothingAfter, QuitAfter} :
       TypedWrite(b, force, after)
  \/ \E force \in Forces : TypedWriteAll(force) \/ QuitAll(force)
  \/ \E hold \in 1 .. (next_token - 1) : Done(hold)
  \/ ReloadConfig
  \/ \E b \in BufferId, force \in Forces : Close(b, force)
  \/ \E b \in BufferId : SetLanguage(b) \/ Edit(b) \/ ExternalWrite(b)

Spec == Init /\ [][Next]_vars

\* A command's loop comes to its end, and the editor's loop drains parked
\* writes and reports batches until none is left, in every pass, and fires
\* every timer that is due; scripts and the user owe nothing.  This is weak
\* fairness of those steps, with their ENABLED written out: requests are
\* bounded, so none of them is taken for ever.
Reportable == {id \in DOMAIN batches :
                 ~batches[id].ended /\ ~batches[id].reported /\ Finished(id)}

LoopFairness ==
  /\ []<>(asking = Idle)
  /\ []<>(Free => Unraised = {} /\ ReadyWrites = {})
  /\ []<>(Free => Reportable = {})
  /\ []<>(Free => timers = {})

FairSpec == Spec /\ LoopFairness

-----------------------------------------------------------------------------
(* Properties *)

Token == 1 .. (next_token - 1)

Write ==
  [buffer : BufferId, force : Forces, after : After, raised : BOOLEAN,
   holds : SUBSET Token, timer : Token \cup {NoTimer},
   minted : SUBSET Token, answered : SUBSET Token]

Batch ==
  [members : SUBSET BufferId, sealed : BOOLEAN, ended : BOOLEAN, reported : BOOLEAN,
   outcomes : [BatchOutcome -> SUBSET BufferId]]

\* Every token in play has been minted, a write that belongs to a batch
\* belongs to one that exists, and the parked writes are PendingWrites: "at
\* most one per buffer" (the debug_assert of `park`), and only for buffers
\* that are open, since write_file panics on a closed one.
TypeOK ==
  /\ \A i, j \in DOMAIN parked : parked[i].buffer = parked[j].buffer => i = j
  /\ ParkedBuffers \subseteq open
  /\ open \subseteq BufferId /\ dirty \subseteq BufferId /\ stale \subseteq BufferId
  /\ handlers \in HandlersOf
  /\ lazy \in BOOLEAN /\ exited \in BOOLEAN
  /\ \A w \in ToSet(parked) :
       w \in Write /\ (w.after.kind = "batch" => w.after.id \in DOMAIN batches)
  /\ Len(batches) <= requests /\ requests <= MaxRequests
  /\ ToSet(batches) \subseteq Batch
  /\ asking # Idle => asking \in Request
  /\ timers \subseteq [id : Token, buffer : BufferId]

\* A write that waits for handlers has an armed timer that ends the wait: no
\* other write's commit, failure or batch cancels it.  And a timeout names
\* only a buffer, so it may not outlive the write it was armed for: it would
\* cut short a later write of the same buffer.
TimersMatchWrites ==
  /\ \A w \in ToSet(parked) :
       w.holds # {} => [id |-> w.timer, buffer |-> w.buffer] \in timers
  /\ \A t \in timers :
       t.buffer \in open => t.buffer \in ParkedBuffers /\ WriteOf(t.buffer).timer = t.id

\* A write goes ahead once each of its handlers has answered for this very
\* write, or a reload dropped the handlers.
ReadyWasAnswered ==
  \A w \in ToSet(parked) : Ready(w) => w.minted \subseteq w.answered

\* What `:wa` reports once is about all of its buffers: each that is still
\* open was written, was stale, or already had a write in progress.
ReportedBatchIsWhole ==
  \A id \in DOMAIN batches :
    batches[id].reported =>
      batches[id].members \cap open \subseteq UNION {batches[id].outcomes[o] : o \in BatchOutcome}

\* Commands without `!` never lose work, however late a `:wq` concludes: no
\* buffer is closed, and the editor does not exit, over unsaved changes.
WorkIsKept ==
  (TRUE \notin Forces /\ ~PluginCloses) =>
    /\ dirty \subseteq open
    /\ exited => dirty = {}

\* A command's loop asks only for open buffers (BufferStore::get panics for
\* one that is not), whatever the plugins its requests activate close.
RequestsOpenBuffers ==
  asking # Idle /\ asking.todo # <<>> => Head(asking.todo) \in open

\* Every write that was asked for ends, with or without its handlers, and
\* every `:wa` comes to an end: it is reported, or a failure ended it.
WritesEnd ==
  (requests > 0) ~>
    (exited \/ /\ parked = <<>>
               /\ \A id \in DOMAIN batches : batches[id].reported \/ batches[id].ended)
=============================================================================
