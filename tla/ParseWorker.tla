---------------------------- MODULE ParseWorker ----------------------------
(***************************************************************************)
(* Syntax trees: the worker thread that parses (hume-treesitter/src/       *)
(* parse_worker.rs), the state each buffer keeps about its tree            *)
(* (hume-treesitter/src/syntax.rs), and the editor between them            *)
(* (hume-editor/src/editor/syntax/).                                       *)
(*                                                                         *)
(* The editor and the worker are two threads joined by two channels,       *)
(* `queue` and `done`.  A text is its generation, a tree the generation of *)
(* the text it describes, and a language's grammar the config_gen of its   *)
(* bundle.  Every text that is not empty names, in a language with an      *)
(* injections query, each language of Injects.                             *)
(***************************************************************************)
EXTENDS Integers, Sequences, SequencesExt, FiniteSets, FiniteSetsExt

CONSTANTS
  BufferId, LanguageId,
  Injects,      \* the languages a language's injections query finds
  NoLanguage,
  MaxGeneration,\* bound: generations of a text
  MaxCommands   \* bound: language changes, registrations, focus changes

ASSUME ParseWorkerAssumption ==
  /\ NoLanguage \notin LanguageId
  /\ IsFiniteSet(LanguageId) /\ IsFiniteSet(BufferId)
  /\ Injects \in [LanguageId -> SUBSET LanguageId]
  /\ {MaxGeneration, MaxCommands} \subseteq Nat /\ MaxGeneration # 0

VARIABLES
  ed,           \* the editor's part: buffers, grammars and what it posts
  queue,        \* requests sent and not received
  batch,        \* requests the worker holds
  done,         \* results sent and not drained
  alive,        \* the worker thread runs
  disconnected, \* the backend has seen that it does not
  shown,        \* the buffers panes show
  commands

vars == <<ed, queue, batch, done, alive, disconnected, shown, commands>>

-----------------------------------------------------------------------------
(* What the messages and the trees are.                                    *)

None == 0       \* no generation, no bundle
Garbage == -1   \* the generation of a tree that describes no text
Sizes == {"empty", "small", "large"}
Slots == {"none", "broken", "registered", "loaded"}

NoLayers == [at |-> "none", generation |-> None, snapshot |-> 0,
             describes |-> None, injected |-> {}]

Detached == [config |-> None, committed |-> NoLayers, parsed_gen |-> None,
             pending |-> <<>>, in_flight |-> None, min_snapshot |-> 0,
             failed |-> FALSE]  \* history: the last result taken failed

SyntaxOf(config) == [Detached EXCEPT !.config = config]

Attached(e, b) == e.buffers[b].syntax.config # None

NoGrammar == [slot |-> "none", config |-> None]

ParsedFor(committed, generation, snapshot) ==
  /\ committed.at = "parsed"
  /\ committed.generation = generation
  /\ committed.snapshot >= snapshot

IsCurrent(s, generation) == ParsedFor(s.committed, generation, s.min_snapshot)

(* do_parse.  A prior that does not describe the request's text spoils the *)
(* tree.                                                                   *)
Parsed(r, ok) ==
  [bid |-> r.bid, generation |-> r.generation, config |-> r.config,
   snapshot |-> r.snapshot, ok |-> ok,
   describes |-> IF r.prior \in {None, r.generation} THEN r.generation ELSE Garbage,
   injected |-> {<<l, r.langs[l].config>> :
                   l \in {n \in r.names : r.langs[n].slot = "loaded"}},
   unloaded |-> IF ok
                  THEN {l \in r.names : r.langs[l].slot \in {"registered", "broken"}}
                  ELSE {}]

-----------------------------------------------------------------------------
(* Syntax: one buffer's state.                                             *)

(* Applies the pending edits to a tree.                                    *)
AppliedTo(describes, pending) ==
  FoldLeft(LAMBDA text, edit : IF text = edit[1] THEN edit[2] ELSE Garbage,
           describes, pending)

(* A plausible bug: only the end of the chain is looked at.                *)
ChainEndOk(s, generation) == Last(s.pending)[2] = generation

ChainOk(s, generation) ==
  /\ s.pending[1][1] = s.committed.generation
  /\ Last(s.pending)[2] = generation
  /\ \A i \in 2..Len(s.pending) : s.pending[i][1] = s.pending[i - 1][2]

Bake(s, generation) ==
  IF s.committed.at = "none" \/ s.pending = <<>> THEN s
  ELSE IF ChainOk(s, generation)
    THEN [s EXCEPT !.committed.at = "baked", !.committed.generation = generation,
                   !.committed.describes = AppliedTo(@, s.pending),
                   !.pending = <<>>]
    ELSE [s EXCEPT !.pending = <<>>]

Request(e, b) ==
  LET buf == e.buffers[b]
      committed == buf.syntax.committed
  IN [bid |-> b, generation |-> buf.generation, config |-> buf.syntax.config,
      prior |-> IF committed.generation = buf.generation
                  THEN committed.describes ELSE None,
      names |-> IF buf.size = "empty" THEN {} ELSE Injects[buf.language],
      langs |-> e.grammars, snapshot |-> e.snapshot]

Post(e, r) == [e EXCEPT !.posts = Append(@, r)]

FrameTick(e, b) ==
  LET generation == e.buffers[b].generation
      s == Bake(e.buffers[b].syntax, generation)
      baked == [e EXCEPT !.buffers[b].syntax = s]
  IN IF e.buffers[b].syntax.parsed_gen = generation THEN e
     ELSE IF s.in_flight = generation THEN baked
     ELSE Post([baked EXCEPT !.buffers[b].syntax.in_flight = generation],
               Request(baked, b))

(* A plausible bug: a new snapshot asks for no new parse.                  *)
ReresolveLater(e, b) ==
  [e EXCEPT !.buffers[b].syntax.min_snapshot = Max({@, e.snapshot})]

(* reresolve_injections, with the newest snapshot.                         *)
Reresolve(e, b) ==
  LET s == e.buffers[b].syntax
  IN  [e EXCEPT !.buffers[b].syntax =
         [s EXCEPT !.min_snapshot = Max({@, e.snapshot}), !.parsed_gen = None]]

(* LanguageRegistry::load_grammar.                                         *)
Load(e, l) ==
  CASE e.grammars[l].slot = "registered" ->
         [e EXCEPT !.grammars[l] = [slot |-> "loaded", config |-> e.configs + 1],
                   !.configs = @ + 1, !.snapshot = @ + 1]
    [] e.grammars[l].slot = "broken" ->
         [e EXCEPT !.grammars[l] = NoGrammar, !.snapshot = @ + 1]
    [] OTHER -> e

LoadAll(e, ids) == FoldSet(LAMBDA l, acc : Load(acc, l), e, ids)

(* The part of Syntax::install that marks the request answered.            *)
Answered(s, d) == IF s.in_flight = d.generation
                    THEN [s EXCEPT !.in_flight = None] ELSE s

(* A plausible bug: a late result replaces what is installed.              *)
NeverInstalled(s, d) == FALSE

(* Whether Syntax::install already has layers as good as the result's.     *)
AlreadyInstalled(s, d) == ParsedFor(s.committed, d.generation, d.snapshot)

Taken(s, d) ==
  LET kept == IF d.ok
        THEN [s EXCEPT !.pending = <<>>, !.failed = FALSE,
                !.committed = [at |-> "parsed", generation |-> d.generation,
                  snapshot |-> d.snapshot, describes |-> d.describes,
                  injected |-> d.injected]]
        ELSE [s EXCEPT !.failed = TRUE]
  IN IF d.snapshot >= s.min_snapshot
       THEN [kept EXCEPT !.parsed_gen = d.generation] ELSE kept

(* Syntax::install, and whether it asks for another parse.                 *)
Install(e, d) ==
  LET buf == e.buffers[d.bid]
      s == Answered(buf.syntax, d)
      taken == [e EXCEPT !.buffers[d.bid].syntax = Taken(s, d)]
      loaded == LoadAll(taken, d.unloaded)
      again == \E l \in d.unloaded : loaded.grammars[l].slot = "loaded"
  IN IF d.config # buf.syntax.config THEN [ed |-> e, again |-> FALSE]
     ELSE IF d.generation # buf.generation \/ AlreadyInstalled(s, d)
       THEN [ed |-> [e EXCEPT !.buffers[d.bid].syntax = s], again |-> FALSE]
     ELSE [ed |-> IF again THEN Reresolve(loaded, d.bid) ELSE loaded, again |-> again]

(* parse_now: each round turns a registered grammar loaded or failed.      *)
ParseNow(e, b) ==
  FoldLeft(LAMBDA acc, n : IF acc.again
                             THEN Install(acc.ed, Parsed(Request(acc.ed, b), TRUE))
                             ELSE acc,
           [ed |-> e, again |-> TRUE],
           [n \in 1..Cardinality(LanguageId) + 1 |-> n]).ed

-----------------------------------------------------------------------------
(* The editor.                                                             *)

SizeOk(e, b) == e.buffers[b].size # "large"

(* setup_buffer_syntax, with Syntax::attach.                               *)
Attach(e, b) ==
  LET buf == e.buffers[b]
      fresh == [e EXCEPT !.buffers[b].syntax =
                  SyntaxOf(e.grammars[buf.language].config)]
  IN IF buf.size = "empty"
       THEN [fresh EXCEPT !.buffers[b].syntax.parsed_gen = buf.generation]
       ELSE Post([fresh EXCEPT !.buffers[b].syntax.in_flight = buf.generation],
                 Request(fresh, b))

Setup(e, b) ==
  LET buf == e.buffers[b]
      bare == [e EXCEPT !.buffers[b].syntax = Detached]
      loaded == Load(bare, buf.language)
  IN IF buf.language = NoLanguage \/ ~SizeOk(e, b) THEN bare
     ELSE IF loaded.grammars[buf.language].slot = "loaded" THEN Attach(loaded, b)
     ELSE loaded

(* install_parse_done: a closed buffer or one without syntax takes nothing.*)
InstallDone(e, d) ==
  IF e.buffers[d.bid].open /\ Attached(e, d.bid) THEN Install(e, d).ed ELSE e

Outgrown(s) == Detached

(* One buffer of post_stale_requests.                                      *)
PostStale(e, b) ==
  LET buf == e.buffers[b]
  IN CASE Attached(e, b) /\ ~SizeOk(e, b) ->
            [e EXCEPT !.buffers[b].syntax = Outgrown(@)]
       [] Attached(e, b) /\ SizeOk(e, b) -> FrameTick(e, b)
       [] OTHER ->
          IF SizeOk(e, b) /\ buf.language # NoLanguage
             /\ e.grammars[buf.language].slot # "none"
            THEN Setup(e, b) ELSE e

(* post_stale_requests.                                                    *)
PostAll(e, bids) == FoldSet(LAMBDA b, acc : PostStale(acc, b), e, bids)

ReresolveAll(e, bids) == FoldSet(LAMBDA b, acc : Reresolve(acc, b), e, bids)

SetupAll(e, bids) == FoldSet(LAMBDA b, acc : Setup(acc, b), e, bids)

(* sweep_buffers_for_grammars, for one language.                           *)
Sweep(e, l) ==
  LET rebuilt == {b \in BufferId : e.buffers[b].open /\ e.buffers[b].language = l}
      reresolved == {b \in BufferId \ rebuilt :
                       /\ e.buffers[b].open /\ Attached(e, b)
                       /\ Injects[e.buffers[b].language] # {}}
  IN SetupAll(ReresolveAll(e, reresolved), rebuilt)

(* What the posts of a step do: ThreadedParseBackend::post.                *)
Sent(e) ==
  /\ ed' = [e EXCEPT !.posts = <<>>]
  /\ queue' = IF alive /\ ~disconnected THEN queue \o e.posts ELSE queue

(* A post to a dead worker is how the backend may learn of it.             *)
Learnt(e) == disconnected \/ (~alive /\ e.posts # <<>>)

-----------------------------------------------------------------------------
Init ==
  /\ ed = [buffers |-> [b \in BufferId |->
             [open |-> TRUE, generation |-> 1, size |-> "small",
              language |-> NoLanguage, syntax |-> Detached]],
           grammars |-> [l \in LanguageId |-> NoGrammar],
           snapshot |-> 1, configs |-> 0, posts |-> <<>>]
  /\ queue = <<>>
  /\ batch = {}
  /\ done = <<>>
  /\ alive = TRUE
  /\ disconnected = FALSE
  /\ shown = BufferId
  /\ commands = 0

Command == commands < MaxCommands /\ commands' = commands + 1

(* Buffer::install of an edit.  A view's refresh records none.             *)
Edit(b, size, recorded) ==
  LET buf == ed.buffers[b]
      next == buf.generation + 1
      syntax == IF recorded /\ Attached(ed, b)
                  THEN [buf.syntax EXCEPT !.pending = Append(@, <<buf.generation, next>>)]
                  ELSE buf.syntax
  IN /\ buf.open
     /\ next <= MaxGeneration
     /\ ed' = [ed EXCEPT !.buffers[b] =
          [buf EXCEPT !.generation = next, !.size = size, !.syntax = syntax]]
     /\ UNCHANGED <<queue, batch, done, alive, disconnected, shown, commands>>

(* set_buffer_language_impl.                                               *)
SetLanguage(b, l) ==
  LET e == Setup([ed EXCEPT !.buffers[b].language = l], b)
  IN /\ Command
     /\ ed.buffers[b].open
     /\ ed.buffers[b].language # l
     /\ Sent(e)
     /\ disconnected' = Learnt(e)
     /\ UNCHANGED <<batch, done, alive, shown>>

(* register_grammar, or attach_grammar of one that loads, and the sweep.   *)
RegisterGrammar(l, slot) ==
  LET config == IF slot = "loaded" THEN ed.configs + 1 ELSE None
      set == [ed EXCEPT !.grammars[l] = [slot |-> slot, config |-> config],
                        !.configs = IF slot = "loaded" THEN @ + 1 ELSE @,
                        !.snapshot = @ + 1]
      e == Sweep(set, l)
  IN /\ Command
     /\ slot # "none"
     /\ Sent(e)
     /\ disconnected' = Learnt(e)
     /\ UNCHANGED <<batch, done, alive, shown>>

(* ensure_syntax_current, when a parse can change the reader's answer.  No *)
(* one can cancel this parse; the worker's has a flag another thread sets. *)
EnsureSyntaxCurrent(b) ==
  LET buf == ed.buffers[b]
      baked == [ed EXCEPT !.buffers[b].syntax = Bake(@, buf.generation)]
  IN /\ buf.open /\ Attached(ed, b)
     /\ ~IsCurrent(buf.syntax, buf.generation)
     /\ buf.syntax.committed.at # "none"
     /\ SizeOk(ed, b)
     /\ ed' = ParseNow(baked, b)
     /\ UNCHANGED <<queue, batch, done, alive, disconnected, shown, commands>>

(* The pane that showed a buffer shows another; Show(b) puts it back.      *)
Hide(b) ==
  /\ Command
  /\ shown' = shown \ {b}
  /\ b \in shown
  /\ UNCHANGED <<ed, queue, batch, done, alive, disconnected>>

Show(b) ==
  /\ ed.buffers[b].open
  /\ b \notin shown
  /\ shown' = shown \union {b}
  /\ UNCHANGED <<ed, queue, batch, done, alive, disconnected, commands>>

Close(b) ==
  /\ Command
  /\ ed.buffers[b].open
  /\ ed' = [ed EXCEPT !.buffers[b] = [@ EXCEPT !.open = FALSE, !.syntax = Detached]]
  /\ shown' = shown \ {b}
  /\ UNCHANGED <<queue, batch, done, alive, disconnected>>

Drained == FoldLeft(InstallDone, ed, done)

(* install_parse_results, before a key is dispatched: drain_done takes     *)
(* every result before it meets the end of a dead worker's channel.        *)
InstallParseResults ==
  /\ ed' = Drained
  /\ done' = <<>>
  /\ disconnected' = (disconnected \/ ~alive)
  /\ UNCHANGED <<queue, batch, alive, shown, commands>>

(* reparse_stale_buffers, at the end of settle.                            *)
ReparseStaleBuffers ==
  LET gone == disconnected \/ ~alive IN
  \E drained \in {Drained} :   \* evaluated once
  \E e \in {IF gone THEN drained ELSE PostAll(drained, shown)} :
     /\ Sent(e)
     /\ done' = <<>>
     /\ disconnected' = gone
     /\ UNCHANGED <<batch, alive, shown, commands>>

-----------------------------------------------------------------------------
(* The worker.                                                             *)

(* A plausible bug: equal generations are duplicates.                      *)
SupersedesByText(r, held) == r.generation > held.generation

(* Whether coalesce_one replaces the request it holds for a buffer.        *)
Supersedes(r, held) ==
  \/ r.generation > held.generation
  \/ /\ r.generation = held.generation
     /\ r.config # held.config \/ r.snapshot > held.snapshot

CoalesceOne(held, r) ==
  LET same == {h \in held : h.bid = r.bid}
  IN IF \A h \in same : Supersedes(r, h) THEN (held \ same) \union {r} ELSE held

Coalesced(requests) == FoldLeft(CoalesceOne, {}, requests)

(* recv, then try_recv until the channel is empty.                         *)
WorkerReceive ==
  /\ alive
  /\ batch = {}
  /\ queue # <<>>
  /\ batch' = Coalesced(queue)
  /\ queue' = <<>>
  /\ UNCHANGED <<ed, done, alive, disconnected, shown, commands>>

WorkerParse ==
  /\ alive
  /\ \E r \in batch, ok \in BOOLEAN :
       /\ done' = Append(done, Parsed(r, ok))
       /\ batch' = batch \ {r}
  /\ UNCHANGED <<ed, queue, alive, disconnected, shown, commands>>

(* The thread ends on a panic: what it holds and was sent is lost, what it *)
(* sent is not.                                                            *)
WorkerDies ==
  /\ alive
  /\ alive' = FALSE
  /\ queue' = <<>>
  /\ batch' = {}
  /\ UNCHANGED <<ed, done, disconnected, shown, commands>>

Next ==
  \/ \E b \in BufferId :
       \/ \E size \in Sizes, recorded \in BOOLEAN : Edit(b, size, recorded)
       \/ \E l \in LanguageId \union {NoLanguage} : SetLanguage(b, l)
       \/ EnsureSyntaxCurrent(b)
       \/ Hide(b) \/ Show(b) \/ Close(b)
  \/ \E l \in LanguageId, slot \in Slots : RegisterGrammar(l, slot)
  \/ InstallParseResults
  \/ ReparseStaleBuffers
  \/ WorkerReceive
  \/ WorkerParse
  \/ WorkerDies

(* The worker is a thread that runs while it has work, and every result it *)
(* sends wakes the main loop, which settles after every wake and every key.*)
Fairness ==
  /\ WF_vars(WorkerReceive)
  /\ WF_vars(WorkerParse)
  /\ WF_vars(ReparseStaleBuffers)

Spec == Init /\ [][Next]_vars

FairSpec == Spec /\ Fairness

-----------------------------------------------------------------------------
(* Properties.                                                             *)

Generations == 0..MaxGeneration

(* Besides the types: a request a buffer waits for is still on its way     *)
(* while the worker runs.  Coalescing and the results that are discarded   *)
(* never leave a buffer waiting for an answer that will not come, which    *)
(* frame_tick would wait for without asking again.                         *)
TypeOK ==
  /\ alive => \A b \in BufferId : LET s == ed.buffers[b].syntax IN
       s.in_flight # None =>
         \E m \in Range(queue) \union batch \union Range(done) :
           m.bid = b /\ m.config = s.config /\ m.generation = s.in_flight
  /\ \A b \in BufferId : LET s == ed.buffers[b].syntax IN
       /\ ed.buffers[b].size \in Sizes
       /\ ed.buffers[b].language \in LanguageId \union {NoLanguage}
       /\ {s.parsed_gen, s.in_flight, s.committed.generation} \subseteq Generations
       /\ s.committed.at \in {"none", "baked", "parsed"}
       /\ s.min_snapshot <= ed.snapshot
       /\ ~Attached(ed, b) => s = Detached
  /\ \A l \in LanguageId : ed.grammars[l].slot \in Slots
  /\ ed.posts = <<>>
  /\ shown \subseteq {b \in BufferId : ed.buffers[b].open}
  /\ disconnected => ~alive

(* The layers a buffer holds were parsed from, or carried by its edits to, *)
(* the text whose generation they claim: a chain with a gap, a late        *)
(* result or a prior of another text never makes them claim another, and   *)
(* a reader of current layers reads the buffer's own text.                 *)
LayersDescribeTheirText ==
  \A b \in BufferId : LET c == ed.buffers[b].syntax.committed IN
    c.at # "none" => /\ c.describes = c.generation
                     /\ c.generation <= ed.buffers[b].generation

(* A buffer's layers never go back: not to an older text, and, for one     *)
(* text, not from parsed to carried nor to fewer grammars, whether the     *)
(* worker or a command's own parse was first.                              *)
LayersMoveForward ==
  [][\A b \in BufferId :
       LET s == ed.buffers[b].syntax
           t == ed'.buffers[b].syntax
       IN (/\ s.config = t.config /\ s.committed.at # "none"
           /\ t.committed.at # "none") =>
            /\ t.committed.generation >= s.committed.generation
            /\ t.committed.snapshot >= s.committed.snapshot
            /\ (/\ t.committed.generation = s.committed.generation
                /\ s.committed.at = "parsed") => t.committed.at = "parsed"
    ]_vars

(* Every shown buffer's newest text is parsed or has failed to, every      *)
(* grammar that is loaded has its injected layer, and the worker is left   *)
(* idle: a failed parse or a grammar that fails to load is not asked for   *)
(* in every frame.                                                         *)
Injected(b) ==
  LET buf == ed.buffers[b] IN
  ~buf.syntax.failed /\ buf.syntax.committed.at # "none" /\ buf.size # "empty" =>
    \A l \in Injects[buf.language] :
      \/ ed.grammars[l].slot = "none"
      \/ <<l, ed.grammars[l].config>> \in buf.syntax.committed.injected

Quiet ==
  alive =>
    /\ queue = <<>> /\ batch = {} /\ done = <<>>
    /\ \A b \in shown : Attached(ed, b) =>
         /\ ed.buffers[b].syntax.parsed_gen = ed.buffers[b].generation
         /\ Injected(b)

ParsesSettle == <>[]Quiet

=============================================================================
