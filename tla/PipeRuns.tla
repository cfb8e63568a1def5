------------------------------ MODULE PipeRuns ------------------------------
(***************************************************************************)
(* Pipe runs: shell commands run over a pane's selections, whose output is *)
(* edited in when the processes end (hume-editor/src/editor/pipe_run.rs,   *)
(* hume-platform/src/process/batch.rs), with the code that waits for them: *)
(* the main loop (run.rs), the headless key runner (lib.rs, input.rs),     *)
(* macro replay (macros.rs) and `.` (replay/mod.rs).                       *)
(*                                                                         *)
(* The editor is one thread, and `pc` says where in its loop it is.  Only  *)
(* processes exit on their own.  The registry `runs` maps the id of every  *)
(* run in flight to the run; ids grow in start order.                      *)
(***************************************************************************)
EXTENDS Integers, Sequences, SequencesExt, FiniteSets, FiniteSetsExt, Functions,
        Collections

CONSTANTS
  BufferId, PaneId,
  Limit,       \* process slots all runs share
  MaxInputs,   \* bound: selections of a run
  MaxRuns,     \* bound: runs started
  MaxChanges,  \* bound: repeatable changes made
  MaxKeys      \* bound: keys of a macro

ASSUME PipeRunsAssumption ==
  /\ {Limit, MaxInputs} \subseteq Nat \ {0}
  /\ {MaxRuns, MaxChanges, MaxKeys} \subseteq Nat

VARIABLES
  runs,         \* PipeRuns.runs
  next,         \* PipeRuns.next
  open_buffers, \* buffers in the BufferStore
  open_panes,   \* panes in a layout
  mode,         \* whether an Insert session is open and whether a macro records
  pc,           \* where the editor's thread is
  waited,       \* the run wait_pipe_run waits for, NoRun outside a wait
  mark,         \* what the key's waits start at, NoRun in the main loop's
  dot,          \* a `.` is replaying
  queue,        \* keys of a macro still to replay
  replaying,    \* NoRun, or during a macro replay the mark at its start
  stopped,      \* history: a wait of this macro replay was cancelled
  recording,    \* the change `.` replays, and those held to put back
  kept,         \* history: the changes made and not withdrawn
  changes,      \* changes made
  should_quit,
  tui,          \* whether the driver is the terminal, or the key runner
  wake          \* a wake not read yet

registry == <<runs, next>>
layout   == <<open_buffers, open_panes>>
macro    == <<queue, replaying, stopped>>
record   == <<recording, kept, changes>>
control  == <<pc, waited, mark, dot>>
vars     == <<registry, layout, mode, control, macro, record, should_quit,
              tui, wake>>

RunId    == 1..MaxRuns
ChangeId == 1..MaxChanges
NoRun    == 0   \* no run id
NoChange == 0   \* no change to settle

\* A PipeRun: the inputs not started, the processes running, and those that
\* exited and are not collected.  A run that ended holds no process.
Run == [buffer : BufferId, pane : PaneId, settles : {NoChange} \cup ChangeId,
        foreground : BOOLEAN, state : {"running", "done", "failed"},
        waiting : 0..MaxInputs, running : 0..MaxInputs,
        ok : 0..MaxInputs, bad : 0..MaxInputs]

Init ==
  /\ runs = << >> /\ next = 1
  /\ open_buffers = BufferId /\ open_panes = PaneId
  /\ mode = {}
  /\ pc = "settle" /\ waited = NoRun /\ mark = NoRun /\ dot = FALSE
  /\ queue = 0 /\ replaying = NoRun /\ stopped = FALSE
  /\ recording = << >> /\ kept = {} /\ changes = 0
  /\ should_quit = FALSE /\ wake = FALSE
  /\ tui \in BOOLEAN

-----------------------------------------------------------------------------
(* The registry *)

Live        == DOMAIN runs
Background  == {i \in Live : ~runs[i].foreground}
Busy(b)     == \E i \in Live : runs[i].buffer = b

\* The runs started since the mark m.
From(m) == {i \in Live : i >= m}

LaunchedFrom(ps) == {i \in Live : runs[i].pane \in ps}

\* Mutant of Held: a process that exited gives its slot back by itself.
HeldByLive(r) == r.running

\* ShellBatch::running: the slots a run holds until its processes are
\* collected.
Held(r) == r.running + r.ok + r.bad

Emptied(r, state) ==
  [r EXCEPT !.state = state, !.waiting = 0, !.running = 0, !.ok = 0, !.bad = 0]

\* PipeRun::collect.  The first failure found ends the run and its batch.
Collected(r) == IF r.bad > 0 THEN Emptied(r, "failed") ELSE [r EXCEPT !.ok = 0]

\* The slots a collect gives back: those of a failed batch only up to its
\* first failure, after `early` of the processes that succeeded.
Freed(r, early) == IF r.bad > 0 THEN 1 + Min({early, r.ok}) ELSE r.ok

\* The processes a fill starts: one per free slot and waiting input.
Wanted(free, r) == Min({free, r.waiting})

\* PipeRun::fill on the poll so far, when `spawns` processes can be started.
Filled(poll, i, spawns) ==
  LET r     == poll.runs[i]
      wants == Wanted(poll.free, r)
      n     == Min({wants, spawns})
      grown == [r EXCEPT !.waiting = @ - n, !.running = @ + n]
  IN  [free |-> poll.free - n,
       runs |-> [poll.runs EXCEPT ![i] =
         IF r.state # "running"               THEN r
         ELSE IF n < wants                    THEN Emptied(r, "failed")
         ELSE IF grown.waiting + grown.running = 0 THEN Emptied(r, "done")
         ELSE grown]]

\* The runs a poll collects from, and those it fills after the waited one.
PolledIn(w) == Background \cup ({w} \cap Live)

\* Mutant of FilledAfter: a wait fills no background run.
FilledAfterNone(w) == {}

FilledAfter(w) == Background \ {w}

\* PipeRuns::poll of the background runs and run w: collects from each, then
\* fills the waited run and the background runs, oldest first.
Polled(w, early, spawns) ==
  LET held      == SumFunction([i \in Live |-> Held(runs[i])])
      freed     == SumFunction([i \in PolledIn(w) |-> Freed(runs[i], early)])
      collected == [free |-> Limit - held + freed,
                    runs |-> [i \in Live |-> IF i \in PolledIn(w)
                                             THEN Collected(runs[i]) ELSE runs[i]]]
      poll[i \in 0..MaxRuns] ==
        IF i = 0
        THEN IF w \in Live THEN Filled(collected, w, spawns[w]) ELSE collected
        ELSE IF i \in FilledAfter(w) THEN Filled(poll[i - 1], i, spawns[i])
        ELSE poll[i - 1]
  IN  poll[MaxRuns].runs

\* A poll while any of the processes it starts may fail to start.
Poll(w) ==
  \E early \in 0..Limit, spawns \in [Live -> 0..Limit] :
    runs' = Polled(w, early, spawns)

-----------------------------------------------------------------------------
(* The changes that runs settle (replay/mod.rs) *)

\* Recording::settle, Landed: what the change held to put back is forgotten.
AfterLanding(c) ==
  IF c \in ToSet(recording)
  THEN SubSeq(recording, 1, CHOOSE n \in DOMAIN recording : recording[n] = c)
  ELSE recording

\* Mutant of AfterWithdrawing: only the latest change is put back.
WithdrawLatest(cs) ==
  IF recording # << >> /\ Head(recording) \in cs THEN Tail(recording) ELSE recording

\* Recording::settle, Withdrawn: each change is replaced by the one it held.
AfterWithdrawing(cs) == Retain(recording, ChangeId \ cs)

\* settle_deferred finds no recording while `.` has it out.
Recorded(chain) == recording' = IF dot THEN recording ELSE chain

\* begin_change and end_change of a change its work decides, and of any other.
Defer(c)  == recording' = <<c>> \o recording
Replace(c) == recording' = <<c>>

FreshChange(c) ==
  /\ changes < MaxChanges /\ c = changes + 1
  /\ changes' = c /\ kept' = kept \cup {c}

\* finish_pipe_run of run i, taken out.
Finish(i, landed) ==
  LET c == runs[i].settles
  IN  /\ runs' = Restrict(runs, Live \ {i})
      /\ kept' = IF landed THEN kept ELSE kept \ {c}
      /\ Recorded(IF landed THEN AfterLanding(c) ELSE AfterWithdrawing({c}))
      /\ UNCHANGED <<next, changes>>

\* withdraw_pipe_run of the runs `is`, taken out.  Killing a process ends it.
Withdraw(is) ==
  LET cs == {runs[i].settles : i \in is}
  IN  /\ runs' = Restrict(runs, Live \ is)
      /\ kept' = kept \ cs
      /\ Recorded(AfterWithdrawing(cs))
      /\ wake' = (wake \/ \E i \in is : runs[i].running > 0)
      /\ UNCHANGED <<next, changes>>

InBuffers(is) == {i \in Live : \E j \in is : runs[i].buffer = runs[j].buffer}

-----------------------------------------------------------------------------
(* The loop: settle *)

\* Editor::settle polls the background runs first.
Settle ==
  /\ pc = "settle"
  /\ Poll(NoRun)
  /\ pc' = "landing"
  /\ UNCHANGED <<next, layout, mode, waited, mark, dot, macro, record,
                 should_quit, wake, tui>>

EndedBackground == {i \in Background : runs[i].state # "running"}

\* drain_pipe_runs: the oldest background run whose processes are done lands
\* or reports.  Output of a run that succeeded may fail to apply.
Land ==
  /\ pc = "landing" /\ EndedBackground # {}
  /\ \E landed \in BOOLEAN :
       /\ landed => runs[Min(EndedBackground)].state = "done"
       /\ Finish(Min(EndedBackground), landed)
  /\ UNCHANGED <<layout, mode, control, macro, should_quit, wake, tui>>

AllLanded ==
  /\ pc = "landing" /\ EndedBackground = {}
  /\ pc' = "hooks"
  /\ UNCHANGED <<registry, layout, mode, waited, mark, dot, macro, record,
                 should_quit, wake, tui>>

\* cancel_pipe_run, and what stops a run before it tries again.
Cancel(b) ==
  /\ Busy(b)
  /\ Withdraw({i \in Live : runs[i].buffer = b})

\* close_buffer_and_notify, refused while a pipe runs in the buffer.
Close(b, force) ==
  /\ b \in open_buffers /\ open_buffers # {b}
  /\ Busy(b) => force
  /\ Withdraw({i \in Live : runs[i].buffer = b})
  /\ open_buffers' = open_buffers \ {b}

\* Mutant of ClosePanes: a refused close is not asked again after the first
\* run stopped.
ClosePanesOnce(ps, force) ==
  /\ ps # {} /\ ps \subseteq open_panes /\ ps # open_panes
  /\ LaunchedFrom(ps) # {} => force
  /\ Withdraw(IF LaunchedFrom(ps) = {} THEN {} ELSE {Min(LaunchedFrom(ps))})
  /\ open_panes' = open_panes \ ps

\* close_focused_pane and close_tab under run_stopping_pipes: a close that
\* would stop a run is refused, or stops them one by one.
ClosePanes(ps, force) ==
  /\ ps # {} /\ ps \subseteq open_panes /\ ps # open_panes
  /\ LaunchedFrom(ps) # {} => force
  /\ Withdraw(InBuffers(LaunchedFrom(ps)))
  /\ open_panes' = open_panes \ ps

\* What a script may do: it forces no close, and starts no run, as `pipe`
\* runs only from a key.
ScriptStops ==
  \/ \E b \in BufferId : Cancel(b) /\ UNCHANGED layout
  \/ \E b \in BufferId : Close(b, FALSE) /\ UNCHANGED open_panes
  \/ \E ps \in SUBSET open_panes : ClosePanes(ps, FALSE) /\ UNCHANGED open_buffers

\* A script called in a settle's drain.
Hook ==
  /\ pc = "hooks" /\ ScriptStops
  /\ UNCHANGED <<mode, control, macro, should_quit, tui>>

\* A script called in the drain enters Insert or leaves it.
HookMode ==
  /\ pc = "hooks"
  /\ mode' \in {mode \cup {"insert"}, mode \ {"insert"}}
  /\ UNCHANGED <<registry, layout, control, macro, record, should_quit, wake,
                 tui>>

\* Mutant of AfterSettle: the main loop reads input past a foreground run.
AfterSettleReads ==
  IF should_quit THEN "exited" ELSE IF replaying # NoRun THEN "drain" ELSE "idle"

\* Where the loop goes once settled.  A quit ends it, a replay takes its next
\* key, and the main loop waits for a foreground run.
AfterSettle ==
  IF should_quit THEN "exited"
  ELSE IF replaying # NoRun THEN "drain"
  ELSE IF tui /\ Live # Background THEN "waiting"
  ELSE "idle"

Settled ==
  /\ pc = "hooks"
  /\ pc' = AfterSettle
  /\ mark' = NoRun
  /\ waited' = IF pc' = "waiting" THEN Min(Live \ Background) ELSE NoRun
  /\ UNCHANGED <<registry, layout, mode, dot, macro, record, should_quit,
                 wake, tui>>

-----------------------------------------------------------------------------
(* Waits *)

\* After a key: step and a macro replay wait for the runs it started.
AfterKey  == IF tui /\ replaying = NoRun THEN "drain" ELSE "waiting"

\* After the key's wait: each replayed key is settled.
AfterWait == IF replaying = NoRun THEN "drain" ELSE "settle"

\* wait_pipe_runs_from takes the oldest run started since the mark.
\* wait_pipe_run makes it a foreground run.
StartWait ==
  /\ pc = "waiting" /\ waited = NoRun /\ From(mark) # {}
  /\ waited' = Min(From(mark))
  /\ runs' = [runs EXCEPT ![waited'].foreground = TRUE]
  /\ UNCHANGED <<next, layout, mode, pc, mark, dot, macro, record,
                 should_quit, wake, tui>>

\* No run started since the mark is in flight: `.` goes on, or the key is
\* done.
WaitDone ==
  /\ pc = "waiting" /\ waited = NoRun /\ From(mark) = {}
  /\ pc' = IF dot THEN "dot" ELSE AfterWait
  /\ UNCHANGED <<registry, layout, mode, waited, mark, dot, macro, record,
                 should_quit, wake, tui>>

\* A turn of wait_until_ended.  The waited run may have been taken out.
WaitPoll ==
  /\ pc = "waiting" /\ waited # NoRun
  /\ Poll(waited)
  /\ pc' = IF waited \notin Live THEN "cancelled"
           ELSE IF runs'[waited].state = "running" THEN "blocked"
           ELSE "ended"
  /\ UNCHANGED <<next, layout, mode, waited, mark, dot, macro, record,
                 should_quit, wake, tui>>

\* PipeConsole::next returns for a process that exited.
Woken ==
  /\ pc = "blocked" /\ wake
  /\ pc' = "waiting" /\ wake' = FALSE
  /\ UNCHANGED <<registry, layout, mode, waited, mark, dot, macro, record,
                 should_quit, tui>>

\* Ctrl-c, a termination request or a console that failed.
Interrupt ==
  /\ tui
  /\ \/ pc = "blocked"
     \/ pc = "waiting" /\ waited # NoRun
  /\ pc' = "cancelled"
  /\ UNCHANGED <<registry, layout, mode, waited, mark, dot, macro, record,
                 should_quit, wake, tui>>

\* A render proc of the frame a main loop's wait draws calls cancel-pipe.
RenderCancels ==
  /\ pc = "blocked" /\ mark = NoRun
  /\ \E b \in BufferId : Cancel(b)
  /\ UNCHANGED <<layout, mode, control, macro, should_quit, tui>>

\* The waited run's processes are done.  A failure ends no replay.
FinishWait ==
  /\ pc = "ended"
  /\ \E landed \in BOOLEAN :
       /\ landed => runs[waited].state = "done"
       /\ Finish(waited, landed)
  /\ pc' = IF mark = NoRun THEN "settle" ELSE "waiting"
  /\ waited' = NoRun
  /\ UNCHANGED <<layout, mode, mark, dot, macro, should_quit, wake, tui>>

\* wait_runs_from, cancelled: the runs after it are withdrawn too, and
\* stop_replays ends the `.` and drops the macro's keys.
CancelWait ==
  /\ pc = "cancelled" /\ mark # NoRun
  /\ Withdraw(From(mark))
  /\ queue' = 0 /\ dot' = FALSE
  /\ pc' = AfterWait /\ waited' = NoRun
  /\ stopped' = (replaying # NoRun)
  /\ UNCHANGED <<layout, mode, mark, replaying, should_quit, tui>>

\* The main loop's wait, cancelled; a console that failed ends the loop.
CancelMainWait ==
  /\ pc = "cancelled" /\ mark = NoRun
  /\ Withdraw({waited} \cap Live)
  /\ pc' \in {"settle", "exited"} /\ waited' = NoRun
  /\ UNCHANGED <<layout, mode, mark, dot, macro, should_quit, tui>>

-----------------------------------------------------------------------------
(* Keys *)

\* The loop's blocking read: input, or a wake that carries it to settle.  The
\* input that arrives takes the wake with it.
ReadKey ==
  /\ pc = "idle"
  /\ pc' = "key" /\ mark' = next
  /\ wake' = (wake /\ ~tui)
  /\ UNCHANGED <<registry, layout, mode, waited, dot, macro, record,
                 should_quit, tui>>

ReadWake ==
  /\ pc = "idle" /\ tui /\ wake
  /\ pc' = "settle" /\ wake' = FALSE
  /\ UNCHANGED <<registry, layout, mode, waited, mark, dot, macro, record,
                 should_quit, tui>>

\* start_pipe_run in buffer b from pane p, settling change c.
StartRun(b, p, c, foreground) ==
  /\ next \in RunId
  /\ ~Busy(b) /\ b \in open_buffers /\ p \in open_panes
  /\ \E inputs \in 1..MaxInputs :
       runs' = [i \in Live \cup {next} |->
         IF i \in Live THEN runs[i]
         ELSE [buffer |-> b, pane |-> p, settles |-> c,
               foreground |-> foreground, state |-> "running",
               waiting |-> inputs, running |-> 0, ok |-> 0, bad |-> 0]]
  /\ next' = next + 1

\* `pipe`.  In an Insert session the session's change owns it.  Its output is
\* waited for there, and while a macro records.
PipeKey ==
  /\ pc = "key"
  /\ \E b \in BufferId, p \in PaneId, c \in {NoChange} \cup ChangeId :
       /\ StartRun(b, p, c, mode # {})
       /\ IF "insert" \in mode
          THEN c = NoChange /\ UNCHANGED record
          ELSE FreshChange(c) /\ Defer(c)
  /\ pc' = AfterKey
  /\ UNCHANGED <<layout, mode, waited, mark, dot, macro, should_quit, wake,
                 tui>>

\* Another repeatable command, which may open an Insert session.
ChangeKey ==
  /\ pc = "key" /\ "insert" \notin mode
  /\ \E c \in ChangeId : FreshChange(c) /\ Replace(c)
  /\ mode' \in {mode, mode \cup {"insert"}}
  /\ pc' = AfterKey
  /\ UNCHANGED <<registry, layout, waited, mark, dot, macro, should_quit,
                 wake, tui>>

\* Escape, and `Q` outside an Insert session, ignored in a replay.  Any other
\* key changes nothing here.
OtherKey ==
  /\ pc = "key"
  /\ \/ mode' = mode \ {"insert"}
     \/ mode' = mode
     \/ /\ "insert" \notin mode /\ replaying = NoRun
        /\ mode' = {"record"} \ mode
  /\ pc' = AfterKey
  /\ UNCHANGED <<registry, layout, waited, mark, dot, macro, record,
                 should_quit, wake, tui>>

\* cancel-pipe, closes, `:q`: each may be forced, and stops the runs in its
\* way.  A refused one changes nothing (OtherKey).
StopKey ==
  /\ pc = "key"
  /\ \E force \in BOOLEAN :
       \/ /\ \E b \in BufferId : Cancel(b)
          /\ UNCHANGED <<layout, should_quit>>
       \/ /\ \E b \in BufferId : Close(b, force)
          /\ UNCHANGED <<open_panes, should_quit>>
       \/ /\ \E ps \in SUBSET open_panes : ClosePanes(ps, force)
          /\ UNCHANGED <<open_buffers, should_quit>>
  /\ pc' = AfterKey
  /\ UNCHANGED <<mode, waited, mark, dot, macro, tui>>

\* EditorState::quit, forced or with no pipe running.  A refused one changes
\* nothing (OtherKey).
QuitKey ==
  /\ pc = "key"
  /\ should_quit' = TRUE
  /\ pc' = AfterKey
  /\ UNCHANGED <<registry, layout, mode, waited, mark, dot, macro, record,
                 wake, tui>>

-----------------------------------------------------------------------------
(* Replays *)

\* `q`: the macro's keys are queued.
MacroKey ==
  /\ pc = "key" /\ mode = {} /\ replaying = NoRun
  /\ queue' \in 1..MaxKeys
  /\ pc' = AfterKey
  /\ UNCHANGED <<registry, layout, mode, waited, mark, dot, replaying, stopped,
                 record, should_quit, wake, tui>>

\* drain_replay_queue: the next key, marking a replay, or its end.
ReplayKey ==
  /\ pc = "drain" /\ queue > 0 /\ ~should_quit
  /\ queue' = queue - 1
  /\ replaying' = IF replaying = NoRun THEN next ELSE replaying
  /\ pc' = "key" /\ mark' = next
  /\ UNCHANGED <<registry, layout, mode, waited, dot, stopped, record,
                 should_quit, wake, tui>>

EndReplay ==
  /\ pc = "drain" /\ (queue = 0 \/ should_quit)
  /\ replaying' = NoRun /\ stopped' = FALSE
  /\ pc' = "settle"
  /\ UNCHANGED <<registry, layout, mode, waited, mark, dot, queue, record,
                 should_quit, wake, tui>>

\* `.` takes the recording out and replays it.
DotKey ==
  /\ pc = "key" /\ recording # << >> /\ "insert" \notin mode
  /\ dot' = TRUE /\ pc' = "dot"
  /\ UNCHANGED <<registry, layout, mode, waited, mark, macro, record,
                 should_quit, wake, tui>>

\* A command or input it replays starts a run, for no change to settle.
DotPipe ==
  /\ pc = "dot"
  /\ \E b \in BufferId, p \in PaneId, foreground \in BOOLEAN :
       /\ "record" \in mode => foreground
       /\ StartRun(b, p, NoChange, foreground)
  /\ pc' = "waiting"
  /\ UNCHANGED <<layout, mode, waited, mark, dot, macro, record, should_quit,
                 wake, tui>>

\* A script command it replays.  While the change to repeat awaits its run,
\* it is a `pipe` and `.` replays nothing else.
DotStops ==
  /\ pc = "dot"
  /\ \A i \in Live : runs[i].settles # Head(recording)
  /\ ScriptStops
  /\ UNCHANGED <<mode, control, macro, should_quit, tui>>

DotDone ==
  /\ pc = "dot"
  /\ dot' = FALSE /\ pc' = AfterKey
  /\ UNCHANGED <<registry, layout, mode, waited, mark, macro, record,
                 should_quit, wake, tui>>

-----------------------------------------------------------------------------
(* The rest of the world *)

\* A process exits, with success or not, and wakes the editor.
ProcessExits(i) ==
  /\ pc # "exited"
  /\ i \in Live /\ runs[i].running > 0
  /\ \/ runs' = [runs EXCEPT ![i].running = @ - 1, ![i].ok = @ + 1]
     \/ runs' = [runs EXCEPT ![i].running = @ - 1, ![i].bad = @ + 1]
  /\ wake' = TRUE
  /\ UNCHANGED <<next, layout, mode, control, macro, record, should_quit, tui>>

\* A resize, a timer or another source's wake.
OtherWake ==
  /\ tui /\ pc \in {"idle", "blocked"}
  /\ wake' = TRUE
  /\ UNCHANGED <<registry, layout, mode, control, macro, record, should_quit,
                 tui>>

\* The keys are over, or a signal asks the main loop to end.
Exit ==
  /\ IF tui THEN pc = "settle" /\ replaying = NoRun ELSE pc = "idle"
  /\ pc' = "exited"
  /\ UNCHANGED <<registry, layout, mode, waited, mark, dot, macro, record,
                 should_quit, wake, tui>>

\* The editor's own steps, which wait for nobody.
Loop ==
  \/ Settle \/ Land \/ AllLanded \/ Settled
  \/ StartWait \/ WaitDone \/ WaitPoll \/ Woken
  \/ FinishWait \/ CancelWait \/ CancelMainWait
  \/ ReadWake \/ ReplayKey \/ EndReplay \/ DotDone
  \/ PipeKey \/ ChangeKey \/ OtherKey \/ StopKey \/ QuitKey \/ MacroKey \/ DotKey

Next ==
  \/ Loop
  \/ Hook \/ HookMode \/ Interrupt \/ RenderCancels \/ ReadKey \/ DotPipe \/ DotStops
  \/ OtherWake \/ Exit
  \/ \E i \in RunId : ProcessExits(i)

Spec == Init /\ [][Next]_vars

\* The editor's thread runs, and each process it started exits in the end.
LoopFairness     == WF_vars(Loop)
ProcessesExit    == \A i \in RunId : WF_vars(ProcessExits(i))
FairSpec == Spec /\ LoopFairness /\ ProcessesExit

-----------------------------------------------------------------------------
(* Properties *)

\* However runs are polled, waited for, failed and cancelled, no more
\* processes run than there are slots (PipeRuns::poll).
TypeOK ==
  /\ SumFunction([i \in Live |-> runs[i].running]) <= Limit
  /\ Live \subseteq RunId /\ \A i \in Live : runs[i] \in Run
  /\ next \in 1..(MaxRuns + 1)
  /\ open_buffers \subseteq BufferId /\ open_panes \subseteq PaneId
  /\ mode \subseteq {"insert", "record"}
  /\ pc \in {"settle", "landing", "hooks", "idle", "key", "dot", "drain",
             "waiting", "blocked", "ended", "cancelled", "exited"}
  /\ {waited, mark, replaying} \subseteq 0..(MaxRuns + 1)
  /\ queue \in 0..MaxKeys
  /\ kept \subseteq ChangeId /\ changes \in 0..MaxChanges
  /\ ToSet(recording) \subseteq ChangeId
  /\ {dot, stopped, should_quit, tui, wake} \subseteq BOOLEAN

\* No key is dispatched past a foreground run, typed or replayed, whatever
\* scripts did in between (the assertion of handle_key, input.rs:101); a
\* replayed key, an input of `.` and a key of the key runner see the output of
\* what was replayed before them, so no run started since the replay began is
\* in flight; and once a wait of a macro's replay is cancelled, no further key
\* of the macro runs (EditorState::stop_replays).
KeysSeeOutput ==
  /\ pc = "key" => Live = Background
  /\ pc = "key" /\ replaying # NoRun => From(replaying) = {} /\ ~stopped
  /\ pc = "dot" => From(mark) = {}
  /\ pc = "key" /\ ~tui => Live = {}

\* Where a run's output goes exists as long as the run: no close takes the
\* buffer, or the pane it was started from, whatever was forced.
RunsKeepTargets ==
  \A i \in Live : runs[i].buffer \in open_buffers /\ runs[i].pane \in open_panes

\* `.` repeats the latest change that was not withdrawn, in whatever order the
\* runs of several changes land, fail and are cancelled (Recording::settle).
RepeatsLatest ==
  IF kept = {} THEN recording = << >>
  ELSE recording # << >> /\ Head(recording) = Max(kept)

\* A wait ends, and with it the freeze of every key: the waited run's inputs
\* get their slots.  And a run does not stay in flight: it lands, fails or is
\* withdrawn, also one in the background that waits for the slots of others.
RunsEnd ==
  /\ pc = "waiting" ~> pc \notin {"waiting", "blocked", "ended", "cancelled"}
  /\ \A i \in RunId : i \in Live ~> (i \notin Live \/ pc = "exited")
=============================================================================
