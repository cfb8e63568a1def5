# HUME in TLA+

HUME is a modal text editor written in Rust. This directory specifies the parts
of it whose correctness depends on the order of events rather than on one
function's arithmetic: the undo tree and the save point, edit sessions, writes
that wait for script handlers, pipe runs with the replays that wait for them,
files that other programs write, the parse worker, and language servers. One
module, of changes and the positions carried through them, is about an algorithm
whose arithmetic everything else rests on. Every module names the source it
translates, and `PROJECT.json` maps each definition to its lines.

Paths below are relative to the repository; `editor/` stands for
`hume-editor/src/editor/`.

## 1. The system

HUME is one process with one main loop (`editor/run.rs`). The loop waits for
input or a wake, dispatches, and calls `Editor::settle` (`editor/event/pump.rs`)
until nothing is left to do. Background threads (language servers, the parse
worker, pipe processes, file searches) only send results and wake the loop, so
state changes are serial. What interleaves is *whose turn is next*: a key, a
script call, a timer, a handler calling back, a worker's result, another
program writing the file.

| Component | State it keeps | Operations | Interacts with | What is hard, and what makes it correct |
|---|---|---|---|---|
| Undo tree (`hume-editing/src/history.rs`) | arena of revisions, current, redo children, undo-levels | record, undo, redo, goto, trim, snapshot, rebuild | Buffer | trimming two ways while protecting the current branch; it stays a tree, its changesets compose, redo retraces undo |
| Buffer (`editor/buffer/`) | text, line ending, save point, file identity | edit, walk, save, reload, restore, close | undo tree, file, undo file | the save point moves when the trim promotes; a clean buffer equals its file |
| Edit sessions (`editor/edit_session.rs`, `doc_ops.rs`, `focus.rs`) | the one open Insert, Paste or Replay session, its snapshot and composed edits | open, take over, compose, commit, conflict | Buffer, panes, replay, reload | edits are in the text but not in the history; anything may come between two of them |
| Deferred writes (`editor/before_save.rs`, `commands/typed_file.rs`) | parked writes, their holds and timers, batches of `:wa` | request, park, raise, `done`, time out, commit, drop, report | scripts, timers, buffer store, config reload | handlers answer late, twice or never; buffers close and engines go while writes wait |
| Pipe runs (`editor/pipe_run.rs`, `hume-platform/src/process/batch.rs`) | runs, shared process slots, text holds | start, poll, wait, cancel, land | main loop, sessions, replay, panes, processes | slots shared by waited and background runs; a cancel during a replay; runs that settle in any order |
| Disk state (`editor/buffer/disk.rs`) | InSync, Changed, Declined or Vanished, by buffer | ambient, enter and explicit checks, confirm, reload | confirm prompt, focus, Buffer | the prompt's answer is about an older file; each change is reported once |
| Recovery dumps (`editor/buffer/dump.rs`) | dump files | dump, restore | Buffer | restored text is unsaved |
| Parse worker (`hume-treesitter/src/parse_worker.rs`, `editor/syntax/parse.rs`) | request batch, generations | post, coalesce, parse, install | buffer edits, language changes | late results, newest text parsed eventually |
| LSP client (`hume-lsp/src/client.rs`, `transport.rs`) | phase, pending requests, queue while starting | send, answer, time out, cancel, die | server process, timers | an answer racing its timeout; end of stream racing death |
| LSP documents (`editor/lsp/`) | versions, queued changes, attachments | attach, change, flush, request, restart | LSP client, buffers | changes go out before the requests that rest on them |
| Event queue and pump (`editor/event/`) | queued work | queue, drain, observe focus and mode | everything | handlers that queue more work; the drain's cap |
| Timers (`editor/timers.rs`, `timer_bridge.rs`) | deadlines and payloads | schedule, cancel, fire | deferred writes, scripts | an id cancelled after it fired |
| Scripting host (`hume-scripting/`, `editor/scripting/`) | engine, hooks, lazy plugins, watchdog | load, activate, call, interrupt, reload | everything | plugins change the state under the command that ran them |
| Dot repeat, macros (`editor/replay/`, `macros.rs`) | recordings, the running replay | record, replay, stop | sessions, pipe runs | a replay that meets an open session |
| Panes, tabs, focus (`editor/focus.rs`, `tab/`) | layout, focus, shown buffers | focus, split, close, switch | sessions, jump list | every change ends the session |
| Changesets (`hume-editing/src/changeset/`, `edit/builder.rs`) | operations over a text | build, apply, invert, compose, carry a position, line or range | every edit | boundaries: empty texts, adjacent items, the final line break |
| Change log, jump list (`hume-editing/src/change_log.rs`, `editor/jump_list.rs`) | the last steps; entries and a cursor | record, compose since; push, back, forward, prune, carry | every change, focus | entries merge, are capped and pruned while the cursor stands among them |
| Registers, kill ring, selection history | sequential data | | commands | unit tested upstream |
| Completion, pickers, prompts | lists over asynchronous sources | | workers, input stack | a source's late results |
| Ropes, motions, rendering, terminal | pure functions and I/O | | | Unicode arithmetic; property tested upstream |

`PROJECT.json` lists every component with its sources and status, and under
`hazards` the code that is hard to test, at its line, with the properties that
cover it.

## 2. The modules

| Module | Models | Lines |
|---|---|---|
| `Collections` | what the data-type operators share: `Retain`, `Vec::retain` on a sequence | |
| `CollectionsProofs` | lemmas about `Retain`, sums over sets, folds, and induction on numbers and finite sets | |
| `UndoTree` | `History` as a data type: operators on the arena of revisions | `history.rs`, `history/children.rs`, `history/persist.rs` |
| `Buffer` | one file buffer, EXTENDS `UndoTree` | `editor/buffer/*` |
| `BufferProofs` | theorems about `Buffer`, with the refinement of `FileVersions` | |
| `EditSession` | the editor's session against several panes and buffers | `edit_session.rs`, `doc_ops.rs`, `focus.rs`, `commands/paste.rs`, `insert_session.rs`, `replay/mod.rs` |
| `EditSessionProofs` | theorems about `EditSession` | |
| `BeforeSave` | deferred writes and the commands that request them | `before_save.rs`, `commands/typed_file.rs`, `reload.rs`, `timer_bridge.rs` |
| `BeforeSaveProofs` | theorems about `BeforeSave` | |
| `PipeRuns` | pipe runs, and the loop, macro replay and `.` that wait for them | `pipe_run.rs`, `process/batch.rs`, `commands/pipe.rs`, `run.rs`, `input.rs`, `macros.rs`, `replay/mod.rs` |
| `PipeRunsProofs` | theorems about `PipeRuns` | |
| `FileVersions` | what buffers promise about their files, abstractly | implemented by `Buffer` and `EditSession` |
| `DiskState` | checks, prompts, saves and reloads against a file that others write | `buffer/disk.rs`, `buffer_file.rs`, `dump.rs`, `lifecycle.rs`, `input_stack/confirm.rs`, `event/pump.rs` |
| `DiskStateProofs` | theorems about `DiskState` | |
| `ParseWorker` | syntax trees, the worker thread and the editor's part | `hume-treesitter/src/parse_worker.rs`, `syntax.rs`, `editor/syntax/` |
| `ParseWorkerProofs` | theorems about `ParseWorker` | |
| `LspSession` | language servers, documents, requests | `hume-lsp/src/client.rs`, `editor/lsp/` |
| `LspSessionProofs` | theorems about `LspSession` | |
| `Changeset` | changes of a text as operators, and the edits that build them | `hume-editing/src/changeset/`, `edit/builder.rs` |
| `Positions` | the change log and the jump list through changes, EXTENDS `Changeset` | `hume-editing/src/change_log.rs`, `editor/jump_list.rs`, `position_stores.rs` |
| `MC*` | small instances for TLC | |

Modules share no variables. What they share is the code: a close of a buffer, say,
is an action of `BeforeSave`, `PipeRuns`, `DiskState` and `LspSession`, each with
the part that touches its state, and each module lets the other components do
whatever they may between its own steps.

### FileVersions

`here`, `clean`, `disk` and `foreign`, by file: the buffer's content, whether it
reads as saved, the file's content, and whether another program wrote it since
the buffer last did. A buffer changes (`Change`), saves, reads, or another
program writes; it may come to read as saved only over its file's content. What
histories, save points, trims and sessions are made of is left to the modules
that implement it. `Buffer` has one file with a text and a line ending, and
hides `clean` during a trim, which is one handler; `EditSession` has several and
no other program. `CleanIsSaved` follows for both.

### UndoTree and Buffer

`revisions` is the arena, `current`, `next_id` and `undo_levels` the rest of
`History`. A changeset is the pair of texts it maps between: `inverse` takes
`after` to `before`. A walk's composed transaction is therefore the text its
last step leaves (`WalkResult`), which is right only if every step starts where
the one before ended; that is what `HistoryFitsText` says, so the abstraction
carries its own proof obligation. Ids ascend and child lists only grow at their
end or move whole, so a child list is the set of its members and creation order
is id order.

`Edit` is `apply_edit` with `record_revision`; the loop of
`enforce_undo_levels` is stepped (`TrimDiscard`, `TrimPromote`, `TrimDone`).
While `trimming` is not "no" nothing else is enabled, since the code holds
`&mut Buffer`; the steps are one handler, split so that a property can be
stated of each iteration and so that a proof needs no induction over a loop.
`promoted` is the loop's `last_promoted`, and `TrimDone` does the remapping of
`saved_revision` and, after a reload, `mark_synced`.

`Write`, `ReloadChanged`, `ReloadSame`, `ExternalWrite` and `Reopen` are the
file side. `in_sync` stands for `BufferFile::describes`: whether the file is
the one last read or written. `MarkSynced` may leave `undo_file` alone, because
`undo-persist` may be off and the write of the history may fail. `Reopen` is a
close and open, or a crash and restart: all that survives is the file and the
undo file.

### EditSession

A session's edits are in `text[b]` and not in the history. `session.base` is
where its composed changes start (`NoText` is "no changes yet"),
`session.snapshot` what it opened on. The undo tree is abstracted to `held[b]`,
the texts of its revisions in the order they were recorded: `Buffer` shows
(`HistoryFitsText`) that a revision determines its text and that walks arrive
at it. No revision is evicted here; eviction is `Buffer`'s subject.

Edits come through `apply_doc_edit_on` (`EditGrouped`, `EditRecorded`) from any
pane, through `apply_changes` from none (`EditUnowned`: a language server
editing a buffer shown nowhere). `CommittedLogs` gives what a commit records:
a group whose changes compose to the identity records nothing, and changes that
end on the text they started from may or may not be the identity, so both are
allowed. Closing an Insert session may trim the indent of a blank line
(`tear_down_insert`); `Trimmed` is an arbitrary function of the text, and can
apply only when the session has changes since the trim is armed by an edit of
the session.

`Write` may come while a session is open, as a deferred write does; the constant
`WriteInSession` turns that off for the properties it breaks (finding 1), and
`TakeoverAfterEdit` does the same for a replayed script that edits before it
takes over the placeholder (section 5, known divergences).

A replayed command that manages its own session (the paste family) opens no
placeholder; its replay is a `Paste` or `PasteCycle`, as when it was typed.
`StartReplay` is the replay of any other command.

### BeforeSave

`parked` is `PendingWrites.writes` in park order, `batches` its batches,
`timers` the armed `BeforeSaveTimeout`s. Tokens and timer ids come from one
counter. `asking` is the loop of the command that requests writes; while it is
not `Idle` only its next step is enabled. `Raise`, `CommitReady`,
`ReportFinished` and `TimedOut` are the loop's drains, `Done`, `ReloadConfig`,
`SetLanguage`, `Close`, `QuitAll`, `Edit` and `ExternalWrite` the rest of the
world. Writes leave `parked` in one way, `Retain`, which keeps the others in
their order. There are finitely many buffers, since `:wa` asks for them one by
one. `minted` and `answered` are history variables of a write: the holds
opened for handlers that still exist, and those `done` was called with.

A write can fail for any reason, be refused because the file changed, or
succeed. After a `:wq` whose pane moved on, or is one of several, nothing more
happens; otherwise the buffer closes if another one stays, or the editor exits.
`exited` stops everything.

Not represented: `:w path` and `:saveas` (never deferred), buffers without a
file, pipe runs that refuse a close (`PipeRuns` has those), and a closed buffer's id being used again
(the code's ids never are).

### PipeRuns

`pc` is where the editor's one thread is: settling (`settle`, `landing`,
`hooks`), reading (`idle`), running a key (`key`), replaying a macro's keys
(`drain`) or a `.` (`dot`), and in a wait (`waiting`, `blocked`, `ended`,
`cancelled`). Only `ProcessExits` and `OtherWake` happen whatever `pc` is.
`tui` is the driver, chosen at the start: the terminal's `run_loop`, which waits for a
foreground run after it settled, or the key runner of `lib.rs`, which waits for
every run a key started (`Editor::step`).

`runs` is the registry by run id. A run counts its inputs: waiting, running,
and exited but not collected (`ok`, `bad`), the last of which hold their slots
until a poll collects them. `Polled` is `PipeRuns::poll`: collect from every
run polled, then fill the waited run and the background runs in order, which
`FilledAfter` says by what each finds free when its turn comes. Both go through
the registry as a function on run ids (`poll` in `Polled`), not as a RECURSIVE
operator, so that something can be proved of them.
`Collected` and `Freed` differ where a batch fails: the run ends at the first
failure found and gives back only the slots collected up to it, so `early`
chooses how many successes came before. `spawns` lets a process fail to start.

A wait is `StartWait` (the oldest run since `mark` becomes a foreground run),
turns of `WaitPoll` and `Woken`, then `FinishWait` or `CancelWait`. The main
loop's own wait has no mark. Keys, macros and `.` set the mark, and a cancelled
wait withdraws every run since it and stops the replay.

`recording` is the chain that starts at `EditorState::recording`: the change
`.` repeats, then the changes it holds to put back while its run is in flight.
`AfterLanding` and `AfterWithdrawing` (a `Retain`) are `Recording::settle`. `kept` is a
history variable, the changes made and not withdrawn, and `stopped` another,
that a wait of this replay was cancelled.

A script may cancel runs and close buffers and panes without force, in a hook,
in a render proc or under a replayed command; it starts none, as `pipe` runs
only from a key (`key_only`). A close that a run refuses changes nothing, and a
forced one stops the run and tries again (`run_stopping_pipes`), which
`ClosePanes` takes in one step.

Not represented: the text a run holds and replaces and how output fails to
apply (it may fail whenever it lands), the input a wait leaves to the loop, the
run's progress line, and the edits refused in a busy buffer.

### DiskState

A version of a file is a number, its signature and content in one: `base` is the
signature a buffer has of its file, `holds` the version its text came from, and
the two differ only if a stat and a read saw different versions. A file that is
put back from a backup is an old number again.

An input is dispatched whole, then the loop settles: `DrainAsync`, then passes
that take what is queued (`PassTakes`), run its calls, enter checks and
focus-gained checks (`RunCall`, `RunEnter`, `RunGained`) and drop the batch at
the cap (`PassDrops`). Saves and reloads are a step per access to the file
(`SaveStat`, `SaveRename`, `SaveRestat`; `StartReload`, `ReloadRead`), and only
other programs (`ExternalWrite`) and the end of the process come between them.
`Restart` is a clean exit or a crash that dumps unsaved buffers. `free` stands
for what else must hold for a prompt to open: no pending key, no other layer, no
replay.

`ghost` has history variables: the version the user was last told of (`told`),
and the crash whose text the user is owed (`owed`) or said to keep (`kept`).
`checked`, another, is the buffer whose enter check ran last.

Not represented: `:e` of the same path and hard links, dumps refused for their
owner, scratch buffers' dumps, and stats that fail for other reasons than a
missing file.

### ParseWorker

Two threads joined by `queue` and `done`. `ed` is the editor: buffers with their
text's generation and their `Syntax`, grammars by language, and the snapshot of
the registry. A tree is the generation of the text it describes, `Garbage` when
an edit was applied to a tree of another text or a prior did not fit. The worker
receives everything queued (coalescing it by buffer) and parses one request at a
time, which may fail; it may die at any time. A grammar may be registered,
replaced or broken at any time, as loading is asynchronous, and injected layers
need the grammars of the languages a text names.

Not represented: which ranges an injection covers, queries, highlights, and the
time limit of the editor's own parse (it may give up).

### LspSession

What the editor writes reaches a server in order, so a client carries what its
server has been told (`told`): the generation of each document, `Confused` once a
message makes no sense to it (a change of a closed document, a ranged change of
another text). `asked` holds the requests it has yet to answer, each with what it
knew of the document then. What a server writes waits in `events` until a drain.
`queued` is what is sent after the handshake, whose answer says how changes are
sent; what a server knows once it has read that too is `Knows`. `pending` and
`ended` are the client's requests in flight and those it has done with.

A handler that loops over servers is written server by server where the loop's
steps do not touch each other (`SendTo`, `DetachEach`, `StopInstances`,
`FillSlots`, `Drained`), and as a fold over buffers or names where they do
(`FlushPending`, `AttachAll`, `ReconcileAll`, `StopTargets`). A drain flushes
changes, reads every server's events, sweeps the deadlines that passed and fills
deliveries; the callbacks of those that ended wait in `calls` and ask again when
their turn comes whether their text is still current (`StillAdmitted`). In what
order one step queues callbacks is left open (`pending` is a hash map), and the
proofs hold for any.

Processes crash at any time, answers come late, after a cancel or never;
`:lsp-stop`, `:lsp-restart`, saves, closes, renames, changes of a buffer's list
of servers, and config reloads come between. A name that fails to start is
`broken`.

Not represented: diagnostics (pulled and pushed), progress, server-to-client
requests, feature filters, position encodings, and the exchange at shutdown.

### Changeset and Positions

A text is a sequence of characters with an id each, so that a property can say
*which* character a position is on. Operations, `Compose`, `Invert`, the three
cursors, edited regions and `EditBuilder` are translated one to one, at the
level of characters. `Positions` lets an edit record any two items (insertions,
deletions, replacements, replacements by the same text, anchors) anywhere, and
steps chains of edits, undo and replacement with a change log and a jump list
whose entries remember the character they were captured on.

The reference definitions are in the properties: `Asked` says what a set of
items asks for without building a change, `StepCarries` what carrying a line, a
range and a region means.

## 3. The runs

| Run | Instance | Shows |
|---|---|---|
| `buffer` | two texts, two line endings, 3 recorded revisions, undo-levels 1 and 2, the file actions | the undo tree stays a tree (`TypeOK`), its changesets compose and fit the buffer (`HistoryFitsText`), redo leads back to where undo came from (`RedoRetracesUndo`), every undo file restores (`SavedHistoryRestores`), a trim keeps the edit it follows and obeys the cap (`TrimKeepsEdit`), and a buffer that reads as saved holds its file's content (`ImplementsFileVersions`) |
| `session` | two panes, two buffers, two texts, short histories | the session is on the focused pane's buffer (`SessionIsFocused`), commits against the current revision (`SnapshotIsCurrent`), the live text is the current revision's outside a composing session (`TextIsCurrent`), session edits leave only into the history (`EditsAreRecorded`) and do not read as saved (`ImplementsFileVersions`) |
| `session_write_finding` | one buffer, writes inside sessions | violation: finding 1 |
| `saves` | two buffers, two commands without `!`, two handlers, under fairness | at most one write per open buffer (`TypeOK`), a write goes ahead only on its own handlers' answers (`ReadyWasAnswered`), no unsaved work is lost (`WorkIsKept`), each held write has its own timer and no timer outlives its write (`TimersMatchWrites`), a reported `:wa` accounts for all its buffers (`ReportedBatchIsWhole`), every write and every `:wa` ends (`WritesEnd`) |
| `saves_close_finding` | a lazy plugin may close buffers | violation: finding 2 |
| `pipes_safety` | either driver, two buffers, two panes, two slots, three runs of one or two inputs, three repeatable changes, macros of two keys | processes never exceed the slots (`TypeOK`), a key meets no foreground run and no run of the replay it is in, and none runs after a cancel (`KeysSeeOutput`), `.` repeats the latest change not withdrawn (`RepeatsLatest`), no close leaves a run without its buffer or pane (`RunsKeepTargets`) |
| `pipes_liveness` | one slot, two runs of up to two inputs, under fairness, no symmetry | every wait ends and every run does (`RunsEnd`) |
| `disk` | a file buffer and a scratch buffer, one pane, three versions, two script calls per settle, a cap of three events, two starts of the editor | no prompt is left about a buffer that is not focused (`TypeOK`), only a change the user was told of is declined (`NoUnseenDecline`), a foreign version is never taken for the buffer's own (`NoMissedChange`), no unforced save overwrites one (`SavesKnowTheirFile`), entered buffers are checked (`EnteredWasChecked`), dumped text survives until given up (`RecoveredTextIsKept`) |
| `disk_enter_finding` | the same with two panes | violation: finding 3 |
| `parse` | one buffer, a language that injects another, three generations, three commands, under fairness | no buffer waits for an answer that will not come (`TypeOK`), layers describe the text they claim to (`LayersDescribeTheirText`), never go back (`LayersMoveForward`), and the newest text is parsed and the worker idle in the end (`ParsesSettle`) |
| `lsp` | two buffers, one server name, two processes, two edits, a request, two commands, under fairness | processes and attachments match and a delivery waits only for who owes it an answer (`TypeOK`), a server's documents are the buffers' texts (`ServersFollowTheText`), a request reaches a server that knows its text (`RequestsFollowTheirText`), callbacks run on the text asked about (`CallbacksSeeTheirText`), every request ends (`RequestsEnd`) |
| `positions` | a text of three characters; edits of one item, of two, chains of two edits or undos with three items, and four jumps around an edit | built changes do what was asked, invert, compose and carry exactly (`ChangesAreExact`); jump lists name the characters they were captured on and jump-forward leads back (`JumpsLeadBack`) |

Larger instances that were checked once and passed: `session` with four
revisions (3.2 million states), `lsp` with two server names on one buffer (2.1
million), `positions` with chains of three edits.

### Bounds, and why they are enough

- *Revisions* (`MaxId`, `MaxRevisions`). The trim's two evictions, a branch off
  the current path, a promotion with grandchildren and a goto across branches
  need the root, three recorded revisions and undo-levels of 1 and 2. Sessions
  need the revision they open on, one recorded around them and one they commit.
- *Texts*: two. The properties compare texts for equality, and with two texts
  edits that return to an earlier text (where identity of revision and identity
  of text part) are common.
- *Buffers and panes*: two, so that one may be focused and the other not, or
  both show one buffer. A session is on one pane and one buffer.
- *Handlers*: two, so that one may have answered and the other not.
- *Commands* (`MaxRequests`): two, so that a `:wa` overlaps a `:w` or `:wq`, or
  another `:wa`, of the same buffers. With one command nothing overlaps.
- *Runs*: a buffer has at most one run, so two buffers give two runs in flight,
  one waited for and one in the background. A third run starts after one ended,
  before another's change has settled. With one slot the two contend for every
  process; with two, one run can hold both.
- *Inputs* (`MaxInputs`): two, so that a run can have one process exited and not
  collected, one running, or one waiting for a slot.
- *Changes* (`MaxChanges`): three, a settled one and two that await their runs,
  the shortest chain in which the middle one can be settled first.
- *Macro keys* (`MaxKeys`): two, a key whose wait is cancelled and one after it.
- *Versions* (`MaxVersion`): three, the one the buffer has, the one asked about
  and the one that is there when the answer comes. *Starts* (`MaxSessions`): two,
  a crash and the session that is offered its dump. *Cap* (`DrainCap`): three,
  with two calls in a settle, so that an enter check passes it when both calls
  came before, and does not when one did (the code's 1,000 needs a chain of
  handlers). With one call an enter check has only one place to be dropped from.
- *Generations* (`MaxGeneration`): three, the text parsed, the text in flight and
  a newer one. *Languages*: one that injects and one that is injected.
- *Servers* (`MaxServers`): two, one that ends and its successor. *Buffers*: two,
  so that one keeps a server alive that the other leaves. A request goes to one
  server here; the larger instance has two.
- *Edits* (`Budgets`): two items meet, overlap, nest or lie apart; chains of two
  compose. Line breaks and letters are the only kinds of character the code
  tells apart at this level.
- *Capacity* of the jump list: 1 and 3, below and above what four jumps record.
- *Symmetry*: panes, buffers, texts and line endings are interchangeable; the
  runs with liveness properties use none. `MCEditSession` treats `Trimmed` as fixed, so texts
  are not symmetric there.

Deadlock is checked for `Buffer`, `EditSession` and `DiskState`. It is off for
`BeforeSave` and `PipeRuns`, where the exited editor stops, and for
`ParseWorker`, `LspSession` and `Positions`, where the bounds on edits and
commands end a behaviour.

### Fairness

In `BeforeSave` only the editor's loop is fair (`LoopFairness`): each drain,
because `settle` runs all of them in every pass and the loop makes a pass after
every input or wake, and the firing of some due timer, because `take_due` fires
every timer that is due and the loop's wait ends at the next deadline. Nothing
is assumed of scripts calling `done`, of the user or of other programs, which is
the point of the timeout. Each conjunct is a weak fairness with its `ENABLED`
written out: a step of the drain makes the condition true, so `[]<>` of the
condition is what `WF` says, and TLC evaluates it far faster. `LspSession` does
the same for its `Drain`.

`PipeRuns` takes the loop's steps (`Loop`) as one fair action, since one thread
takes whichever of them is next. It assumes that a process exits in the end
(`ProcessesExit`), without which a wait lasts until the user cancels it. Nothing
is assumed of keys (`ReadKey`), cancels, scripts or other wakes, so `RunsEnd`
rests on the wakes of the processes alone.

`ParseWorker`: the worker's two steps, since its thread runs while it has work,
and the editor's pass over its buffers, since every result wakes the loop. No
edit, command or registration is fair, and the worker may die, after which
nothing is promised. `LspSession`: time passes (`Expire`), and the loop drains
and runs callbacks. Nothing is assumed of a server: `RequestsEnd` rests on
deadlines alone.

## 4. What is proved

TLAPS checks the theorems below, for every value of the constants that the
module's assumption allows: any number of buffers, panes, texts, revisions,
handlers, runs, slots, versions and events, where the runs have two or three.
Each rests on an inductive invariant, which TLC checked on the run's instance
before it was proved. "Assumes" names the hypotheses on constants that a theorem
has; they switch off what section 5 reports, or what the property is not true of.

### Buffer

| Theorem | States | Assumes |
|---|---|---|
| `TypeCorrect` | `Spec => []TypeOK` | nothing |
| `HistoryFitsTextAlways` | `Spec => []HistoryFitsText` | nothing |
| `RedoRetracesUndoAlways` | `Spec => []RedoRetracesUndo` | nothing |
| `SavedHistoryRestoresAlways` | `Spec => []SavedHistoryRestores` | nothing |
| `TrimKeepsEditAlways` | `Spec => TrimKeepsEdit`, an action property | nothing |
| `BufferImplementsFileVersions` | `Spec => ImplementsFileVersions`, the refinement | nothing |
| `CleanIsAlwaysSaved` | `Spec => []Promised!CleanIsSaved` | nothing |

What is inductive is a statement about a history alone (`Sound`): a tree whose
parents are older than their children, in which children and redo children agree
with parents, whose changesets compose, and whose current revision, reached from
the root, has the text given. Every operation of `UndoTree` takes a sound history
to a sound one, so the same lemmas serve the live tree and the one kept in the
undo file (`UndoFileIsSound`), which `Reopen` makes the live one. Ancestors are
reached through parents, which descend, so facts about a whole path are
well-founded inductions on revision ids.

A trim is many steps of one handler. `TrimIsRunning` says what holds between
them: the revision it makes room for is the current one and not the root, and
what was promoted has left the tree, so that an eviction can neither take that
revision nor stop before undo-levels are met (`TrimKeepsEdit`). `SavedIsDisk`
carries the refinement: the revision the save point names, after the promotion
that a trim has pending (`RemappedSave`), holds the file's text, if the tree
still has it and no other program wrote the file.

`CleanIsAlwaysSaved` is what the promises are worth: it is proved of the steps of
`FileVersions` alone (`PromisedStep`) and follows for the buffer from the
refinement.

### EditSession

| Theorem | States | Assumes |
|---|---|---|
| `SoundAlways` | `Spec => []Sound`, the inductive invariant | `~TakeoverAfterEdit` |
| `TypeCorrect` | `Spec => []TypeOK` | the same |
| `SessionFollowsFocus` | `Spec => []SessionIsFocused` | the same |
| `CommitsMeetHistory` | `Spec => []SnapshotIsCurrent` | the same |
| `WalksMeetHistory` | `Spec => []TextIsCurrent` | the same |
| `SessionsAreRecorded` | `Spec => EditsAreRecorded` | the same |
| `CleanIsDisk` | `Spec => []CleanMatchesDisk` | also `~WriteInSession` |
| `SessionsKeepPromises` | `Spec => ImplementsFileVersions`, the refinement | also `~WriteInSession` |

`Sound` is the conjunction of the checked invariants with `BaseIsSnapshot`: a
session that composes started from its snapshot. The argument: a commit is right
only if the snapshot is the current revision's text (`SnapshotIsCurrent`); that
survives edits from elsewhere only because `NoConflict` keeps other panes off the
session's buffer, and focus changes only because a session sits on the focused
pane (`SessionIsFocused`); outside a composing session the text is the current
revision's (`TextIsCurrent`), which is what a new session's snapshot and a walk
rest on. `CleanIsDisk` adds that the saved revision's text is the file's
(`SavedIsDisk`), which a write in an open session would break.

`EditsAreRecorded` is an action property: every step either goes on with the
session's group or records the text the session leaves, and is proved step by
step from `Sound`. `SessionsKeepPromises` maps every step to one of
`FileVersions` for each file at once: a write is a `Save`
(`WriteIsSave`), every other step is a `Change` (`ElseIsChange`), which needs
that a buffer reading as saved after the step holds its file's text
(`SoundIsClean`, from `Sound` and `SavedIsDisk`, in the next state).

### BeforeSave

| Theorem | States | Assumes |
|---|---|---|
| `TypeCorrect` | `Spec => []TypeOK` | nothing |
| `TimersMatchWritesAlways` | `Spec => []TimersMatchWrites` | nothing |
| `ReadyWasAnsweredAlways` | `Spec => []ReadyWasAnswered` | nothing |
| `ReportedBatchIsWholeAlways` | `Spec => []ReportedBatchIsWhole` | nothing |
| `WorkIsKeptAlways` | `Spec => []WorkIsKept` | nothing |
| `RequestsOpenBuffersAlways` | `Spec => []RequestsOpenBuffers` | `~PluginCloses` |

`IInv` has, beside the types, `TimersAreOwn` (timers and parked writes name each
other one to one, ids are never given twice, and a write that was not raised has
no timer, no holds and no handlers), `HoldsAreOpen` (a hold that was minted and is
no longer open was answered) and `BatchesAreWhole` (each open buffer of a batch
that runs is counted, parked under that batch, or still to be asked for). The last
is where a `:wa` could go wrong: a buffer whose write is parked for another
command must be counted at once, and a write that is taken out of the queue must
be counted or end its batch. `WorkIsKept` adds that what is unsaved is open and
that the editor left with nothing unsaved (`Kept`); it speaks of runs without `!`
and without plugins that close buffers, as the property itself says.
`RequestsOpenBuffers` is the property of finding 2, and holds once no plugin
closes buffers under a request.

### PipeRuns

| Theorem | States | Assumes |
|---|---|---|
| `TypeCorrect` | `Spec => []TypeOK`, with the bound on slots | nothing |
| `RunsKeepTargetsAlways` | `Spec => []RunsKeepTargets` | nothing |
| `KeysSeeOutputAlways` | `Spec => []KeysSeeOutput` | nothing |
| `RepeatsLatestAlways` | `Spec => []RepeatsLatest` | nothing |

The slots: each run has, waiting, running or uncollected, no more inputs than it
was started with, and the slots of all runs add up to at most the limit
(`RegistryFits`). A poll collects before it fills and fills run by run, so the
proof is an induction over run ids of what the runs polled so far hold, with the
sums of `CollectionsProofs`.

The changes (`ChainHolds`): those recorded fall from the newest; what a run
settles is settled by no other; each recorded change but the oldest awaits its
run; and any other change that is kept is older than a settled one that is
recorded. So the oldest recorded change that is kept is found last, whichever runs
land or are withdrawn, in whatever order, and `.` repeats the newest kept once
all have settled.

The waits: `ControlFits`, `RunnerWaits`, `ReplayWaits` and `QueueFits` say, for
each place of the thread, what its mark, its replay and its driver have yet to
wait for: a mark never lies beyond the runs started, the key runner's mark covers
all live runs, a replay's wait covers every run since the replay began, and a
replay that was stopped has no key left. `KeysSeeOutput` is read off them.

### DiskState

| Theorem | States | Assumes |
|---|---|---|
| `TypeCorrect` | `Spec => []TypeOK` | `OnePane` |
| `EnteredWasCheckedAlways` | `Spec => []EnteredWasChecked` | `OnePane` |
| `NoUnseenDeclineAlways` | `Spec => []NoUnseenDecline` | nothing |
| `RecoveredTextIsKeptAlways` | `Spec => []RecoveredTextIsKept` | nothing |
| `NoMissedChangeAlways` | `Spec => []NoMissedChange` | `~RestatRaces` |
| `SavesKnowTheirFileAlways` | `Spec => SavesKnowTheirFile`, an action property | `~RestatRaces` |
| `SoundAlways`, `ToldAlways`, `OwedAlways`, `EnteredAlways` | the inductive invariants of the above | as these |

There are four invariants, one for each question.

- *Versions* (`Sound`). `NoMissedChange` is not inductive: a reload that another
  program's write runs into leaves a text beside the signature of an older
  version, and the property survives only because that older version never comes
  back. `SignatureGone` says so: a signature that is not that of the text names a
  version the file is not, and every later write is either new or the text's own.
  It needs that neither file nor text is of a version not made yet (`Made`) and
  that a save or reload between two steps holds a version that exists, the very
  file for a save past its rename (`OpSound`, where `RestatRaces` would break it).
  A save then goes on only over its baseline, which `SignatureGone` turns into the
  text's version.
- *Reports* (`Told`). The change a buffer remembers, or the prompt asks about, is
  the one the user was last told of, so a decline declines that one even when the
  file has changed again.
- *Dumps* (`Owed`). What a crash owes the user is in its dump or, where the dump is
  gone, unsaved in an open buffer that was restored from it. A crash dumps only
  buffers that are unsaved, so one that loses the restored text takes it over, and
  the user gives the text up only by saving, closing, reloading or discarding.
- *Entering* (`Queued`, `Entered`). What the pump has queued (one focus-gained
  check, first; one enter check, last, for the buffer last entered) and, from
  that, that either the enter check is still queued or the buffer it was for is
  the one checked last. With a second pane it may be neither (finding 3).

### ParseWorker

| Theorem | States | Assumes |
|---|---|---|
| `TypeCorrect` | `Spec => []TypeOK`, with what is on its way | nothing |
| `LayersDescribeAlways` | `Spec => []LayersDescribeTheirText` | nothing |
| `LayersMoveForwardAlways` | `Spec => LayersMoveForward`, an action property | nothing |
| `IInvAlways` | `Spec => []IInv`, the inductive invariant of the above | nothing |

"Nothing" is besides `ParseWorkerAssumption`: finitely many buffers and
languages, and a first text within the bound.

None of the three is inductive. `IInv` has three parts.

- *What buffers claim* (`Claims`): layers claim no text and no registry that is
  not there yet, their pending edits ascend to the present text, and a buffer
  without a bundle, closed ones among them, has no syntax at all.
- *What messages may do* (`Known`, `FitPrior`): each message on its way is of a
  text its buffer has had, a prior handed to the worker is of the request's own
  text, so no tree is spoiled, and a result that `install` would take knows no
  fewer grammars than the layers it replaces (`Behind`). Parsed layers are
  protected for their own text by `AlreadyInstalled` and only need this of newer
  texts; carried ones need it of the text they were carried to as well.
- *What is waited for* (`Awaited`): while the worker runs, the *last* request
  queued for a waiting buffer is the one it waits for (`WaitedIn`), or nothing is
  queued for it and the one request held for it, or a result, is (`HeldIn`).
  "Last" is needed because coalescing keeps one: requests for a buffer are queued
  in the order of their texts (`InOrder`), so what is kept has the text and the
  bundle of the last (`CoalescedKeeps`), even where it is an earlier request.

Each step of the editor is a composition of operators (`Load`, `Bake`,
`FrameTick`, `Setup`, `Install`, `Reresolve`) on one buffer at a time. Each keeps
the editor `Fine` with what it posts added to the queue, and takes layers forward
(`Advances`) or drops them (`Renews`); both relations compose, so a handler needs
only the lemmas of its parts. The folds over buffers, requests, results and
parse rounds go through one lemma on the folds of the community modules
(`FoldStaysIn`): a fold whose steps stay in a set ends in it. Draining needs more
than that, since each result that is taken must also stop being waited for
(`Remaining`, `ResultIsDone`).

### LspSession

| Theorem | States | Assumes |
|---|---|---|
| `TypeCorrect` | `Spec => []TypeOK`, with processes, attachments and deliveries | nothing |
| `ServersFollowTheTextAlways` | `Spec => []ServersFollowTheText` | nothing |
| `RequestsFollowTheirTextAlways` | `Spec => []RequestsFollowTheirText` | nothing |
| `CallbacksSeeTheirTextAlways` | `Spec => CallbacksSeeTheirText`, an action property | nothing |
| `IInvAlways` | `Spec => []IInv`, the inductive invariant of the above | nothing |

"Nothing" is besides `LspSessionAssumption`: finitely many buffers, at least one,
finitely many server names, and bounds that are numbers.

`IInv` is `Sound(ed, {})` with the types of the events. `Sound` has, by part:

- *A client* (`SoundClient`): it queues only while it starts; until then it has
  been asked nothing, its way to sync is the one it began with, and no range is
  queued, so what is queued may be coalesced without a change of what the server
  ends up knowing (`Superseded` replaces the last change only).
- *A document* (`Chained`): its changes not yet sent lead from the text that was
  sent last to the buffer's, one by one. This is what makes ranged changes apply.
- *A client and a document* (`Follows`): what the server knows once it has read
  everything is the text the first of these changes starts from. Each message
  (`SendOrQueue`) keeps it in both states of the client, and the handshake writes
  what was queued (`BecomeRunning`) without a change of `Knows`.
- *Processes* (`Staffed`): a referenced server is live, a live one is referenced
  or is of `retired`, and no two live ones share a name. `retired` is what a
  handler has detached from and not yet stopped: `ReconcileOne` adds to it,
  `StopUnreferenced` empties it. Without it no part of a reconciliation keeps the
  invariant.
- *Deliveries* (`Owed`): each server a delivery waits for runs and has its request
  in flight, and what is in the queue of callbacks waits for nothing. A crash, a
  stop and a deadline take a request out of flight only into `ended`, which
  `FillSlots` reads in the same step.
- *Questions* (`Informed`): what a running server knew when it was asked is the
  version of the delivery.

A handler composes operators, and each has a lemma that takes `Sound(e, R)` to
`Sound(f, R')` together with `RunsNothing(e, f)`: no delivery is called. Both
compose, so a step's proof is the list of its parts, and `CallbacksSeeTheirText` is
left with `RunCall` alone. The folds over buffers and names go through
`SetFoldExists` and `SetFoldReaches` of `CollectionsProofs`: a `FoldSet` has the
value of a function on the subsets folded so far, and ends in whatever set its
steps lead to. `LeftHistoryReaches` does the same for the messages and events of
a sequence.

### Only model-checked

`Positions`; the liveness properties
(`WritesEnd`, `RunsEnd`, `ParsesSettle`, `RequestsEnd`), as liveness under
fairness and `ENABLED` are beyond the prover; and the properties that findings 1
to 3 show violated. `Changeset` and `Positions` use RECURSIVE operators
(composition consumes two sequences in lockstep), of which nothing can be proved;
no other module uses one. Theorems of the library that take an operator cannot be
used either, so induction is done with sets (`NatInductionSet`,
`FiniteInductionSet`), and a recursively defined function is used through a lemma
that it exists, by such an induction.

## 5. Findings

1. **A deferred write inside an Insert session** (`buffer/mod.rs:700`). The
   write serialises the live text, unrecorded edits included, and `mark_saved`
   takes the revision from before the session as the saved one. Type a
   character, let the deferred write land, delete the character: the composed
   edits are the identity, the buffer reads as saved, and the file has the
   character. The undo file written with it carries the digest of the live text
   too. Run `session_write_finding`.
2. **`:wa` and a plugin that closes a later buffer** (`before_save.rs:268`).
   `:wa` collects its buffers, and the first request may activate a lazy plugin
   that closes one of the others, which `BufferStore::get` then panics on. Run
   `saves_close_finding`; the passing run sets `PluginCloses` to FALSE. Such
   plugins are all that stands in the way: without them a request always finds its
   buffer open (`RequestsOpenBuffersAlways`, proved).
3. **A focused buffer that is not checked** (`event/pump.rs:329`). A call queued
   before the enter event closes the pane the event names, or shows another
   buffer there, while another pane with the same buffer takes the focus. The
   event is skipped as stale, and since `last_entered_buffer` names the buffer
   already, no other is raised. Run `disk_enter_finding`; the passing run has
   one pane.

### Known divergences without a run

Each is reproduced by changing a constant of a run:

- *Taking over a replay's placeholder after an edit* (`edit_session.rs:204`,
  `252`). A replayed command whose script edits the buffer and then enters
  Insert or pastes commits its session against the snapshot captured before the
  edit, though `edit_session.rs:231-234` says the snapshot "is what a fresh open
  right now would capture too". `session` with `TakeoverAfterEdit = TRUE`
  violates `SnapshotIsCurrent`.
- *A kept dump is overwritten* (`dump.rs`, `dump_one`). After `k`, a later crash
  in the same session dumps over the dump the user kept, where
  `user-manual/docs/files-and-buffers.md:185` says "the dump stays on disk".
  `disk` with `MaxSessions = 3` and the invariant `KeptDumpStays` violates it.
- *A write between a save's rename and its stat* is taken for the save's own
  (`hume-platform/src/io.rs:161-230`). `disk` with `RestatRaces = TRUE` violates
  `NoMissedChange`.

## 6. Not modelled, and what is left

- *Language servers*: pulled and pushed diagnostics (`lsp/pull.rs`), progress,
  server-to-client requests, shutdown. They would extend `LspSession`, whose
  instance is near what TLC can finish; a module of their own over an abstract
  client would be the way.
- *Events*: hooks other than the enter, save and callback ones, `:every` timers,
  the watchdog, loading of plugins and attribution.
- *Registers and the kill ring, the selection history, positions tracked for
  scripts*: sequential data without a protocol.
- *Completion, pickers, sessions on disk*: lists over asynchronous sources whose
  late results are discarded by an id, and serialisation.
- *Rendering, grid, decorations, UI, terminal, motions, text objects, ropes and
  Unicode*: functions of their input, or plain I/O. They are most of the code by
  lines, and no interleaving reaches them.

Every safety property of a passing run is proved, except those of `Positions`.
To go on, extend `LspSession` or `DiskState` (several panes, once finding 3 is
settled) and carry their invariants along.
