---------------------------- MODULE EditSession ----------------------------
(***************************************************************************)
(* The one Insert, Paste or dot-repeat session of the editor               *)
(* (hume-editor/src/editor/edit_session.rs) and everything that may run    *)
(* while it is open: edits through the focused pane and through others     *)
(* (doc_ops.rs), edits no pane owns, history walks, pastes and paste       *)
(* cycles, a replayed change, focus and buffer switches (focus.rs),        *)
(* reloads, and writes.                                                    *)
(*                                                                         *)
(* A session's edits are in the text and not yet in the history: closing   *)
(* the session records them as one revision.  The undo tree is abstracted  *)
(* to the texts of its revisions in the order they were recorded, which is *)
(* what module Buffer shows a tree to be worth; no revision is evicted.    *)
(***************************************************************************)
EXTENDS Integers, Sequences, FiniteSets

CONSTANTS
  Pane, BufferId, Text,
  NoSession,
  NoText,             \* EditGroup.cs is None
  Trimmed,            \* each text without the indent of its blank line
  MaxRevisions,       \* bound: revisions of a buffer, the root included
  WriteInSession,     \* a write may land while its buffer has a session
  TakeoverAfterEdit   \* a replayed body may edit, then enter Insert or paste

ASSUME EditSessionAssumption ==
  /\ MaxRevisions \in Nat \ {0}
  /\ {WriteInSession, TakeoverAfterEdit} \subseteq BOOLEAN
  /\ NoText \notin Text
  /\ Trimmed \in [Text -> Text]

VARIABLES
  focus,      \* the focused pane
  shows,      \* the buffer each pane shows
  text,       \* each buffer's live text
  held,       \* the text each revision holds, by buffer
  current,    \* the history's current revision
  saved,      \* Buffer.saved_revision
  disk,       \* the file's text
  session,    \* the open session
  replaying   \* Editor::replay_dot is running

layout == <<focus, shows>>
files  == <<saved, disk>>
vars   == <<layout, text, held, current, files, session, replaying>>

\* An open session; `base` is the text its composed edits start from.
Session ==
  [kind : {"insert", "paste", "replay"}, pane : Pane, buffer : BufferId,
   snapshot : Text, base : Text \cup {NoText}]

ASSUME NoSessionAssumption == NoSession \notin Session

Focused == shows[focus]
Revisions(b) == 1 .. Len(held[b])

Init ==
  /\ focus \in Pane
  /\ shows \in [Pane -> BufferId]
  /\ text \in [BufferId -> Text]
  /\ held = [b \in BufferId |-> <<text[b]>>]
  /\ current = [b \in BufferId |-> 1]
  /\ saved = current
  /\ disk = text
  /\ session = NoSession
  /\ replaying = FALSE

-----------------------------------------------------------------------------
(* Sessions *)

SessionOn(b) == session # NoSession /\ session.buffer = b

\* EditSession::owned_by, with a kind.
OpenAt(kind, p, b) == SessionOn(b) /\ session.pane = p /\ session.kind = kind

\* check_can_open: nothing open, or the placeholder on this very spot.  A
\* paste session was committed before, by the command's step_paste_commit.
PasteOpen == session # NoSession /\ session.kind = "paste"
CanOpen(p, b) == session = NoSession \/ PasteOpen \/ OpenAt("replay", p, b)

\* Mutant of NoConflict: panes do not conflict.
NoConflictEver(p, b) == TRUE

\* check_no_conflicting_session for an edit through pane p.
NoConflict(p, b) == SessionOn(b) => session.pane = p

\* begin_edit_group, under the kind that opens it.
Fresh(kind, p, b) ==
  [kind |-> kind, pane |-> p, buffer |-> b, snapshot |-> text[b], base |-> NoText]

\* The session of `kind` an open at (p, b) makes: a takeover keeps the
\* placeholder's group.
Opened(kind, p, b) ==
  IF OpenAt("replay", p, b) THEN [session EXCEPT !.kind = kind] ELSE Fresh(kind, p, b)

\* The takeovers left out when TakeoverAfterEdit is FALSE.
TakeoverAllowed(b) ==
  TakeoverAfterEdit \/ (OpenAt("replay", focus, b) => session.snapshot = text[b])

\* Mutant of Recorded: recording drops the revisions ahead of the current one.
RecordedLinear(b, log, t) == Append(SubSeq(log, 1, current[b]), t)

\* History::record of t in the history `log` of b.
Recorded(b, log, t) == Append(log, t)

\* The history of b becomes `log`, at its last revision if it grew.
SetLog(b, log) ==
  /\ Len(log) <= MaxRevisions
  /\ held' = [held EXCEPT ![b] = log]
  /\ current' = [current EXCEPT ![b] = IF log = held[b] THEN @ ELSE Len(log)]

\* Mutant of MayBeIdentity: a session's changes are taken to be no changes.
MayBeIdentityAlways(s, t) == TRUE

\* EditGroup::edits, the composed changes of s from its base to t when they
\* are not the identity.  Changes that end where they started may be either.
HasEdits(s, t)      == s.base # NoText /\ t # s.base
MayBeIdentity(s, t) == ~HasEdits(s, t)

\* The texts closing b's session can leave: tear_down_insert may trim a line
\* that the session's edits indented and left blank.
LeftTexts(b) ==
  IF SessionOn(b) /\ session.kind = "insert" /\ session.base # NoText
    THEN {text[b], Trimmed[text[b]]} ELSE {text[b]}

\* commit_edit_group: the histories of b that committing its session, which
\* leaves the text t, can make: two when its changes may be the identity.
CommittedLogs(b, t) ==
  IF ~SessionOn(b) THEN {held[b]}
  ELSE {log \in {held[b], Recorded(b, held[b], t)} :
          IF log = held[b] THEN MayBeIdentity(session, t) ELSE session.base # NoText}

\* OpenSession::has_edits on b.
UnrecordedEdits(b) == SessionOn(b) /\ HasEdits(session, text[b])

\* Mutant of HasUnsavedChanges: the open session is not asked.
RevisionDirty(b) == saved[b] # current[b]

\* EditorState::has_unsaved_changes.
HasUnsavedChanges(b) == saved[b] # current[b] \/ UnrecordedEdits(b)

CommitOn(b, t) == \E log \in CommittedLogs(b, t) : SetLog(b, log)

\* commit_paste_group.
CommitPaste ==
  IF PasteOpen THEN CommitOn(session.buffer, text[session.buffer])
  ELSE UNCHANGED <<held, current>>

\* The open session ends: its last text is left and committed.
Close(b) ==
  \E t \in LeftTexts(b) :
    /\ text' = [text EXCEPT ![b] = t]
    /\ CommitOn(b, t)

\* Mutant of EndSessions: a paste session is left to its next command.
EndInsertOnly ==
  IF session = NoSession \/ PasteOpen
    THEN UNCHANGED <<session, text, held, current>>
    ELSE /\ session' = NoSession
         /\ Close(session.buffer)

\* end_focus_sessions: tears down and commits whatever is open.
EndSessions ==
  /\ session' = NoSession
  /\ IF session = NoSession
       THEN UNCHANGED <<text, held, current>>
       ELSE Close(session.buffer)

-----------------------------------------------------------------------------
(* Entering and leaving *)

\* begin_insert_session_preserving_register in the focused pane.
EnterInsert ==
  /\ CanOpen(focus, Focused)
  /\ TakeoverAllowed(Focused)
  /\ CommitPaste
  /\ session' = Opened("insert", focus, Focused)
  /\ UNCHANGED <<layout, text, files, replaying>>

\* end_insert_session: Esc, Ctrl-c, a click, a mode change from a script.
ExitInsert ==
  /\ session # NoSession /\ session.kind = "insert"
  /\ EndSessions
  /\ UNCHANGED <<layout, files, replaying>>

\* step_paste_commit, before a command that neither cycles a paste nor edits.
StepPasteCommit ==
  /\ PasteOpen
  /\ EndSessions
  /\ UNCHANGED <<layout, files, replaying>>

\* do_paste: t is what pasting at the group's snapshot makes.
Paste(t) ==
  /\ CanOpen(focus, Focused)
  /\ TakeoverAllowed(Focused)
  /\ CommitPaste
  /\ session' = LET opened == Opened("paste", focus, Focused)
                IN  [opened EXCEPT !.base = opened.snapshot]
  /\ text' = [text EXCEPT ![Focused] = t]
  /\ UNCHANGED <<layout, files, replaying>>

\* do_paste_cycle: pastes another register from the snapshot.
PasteCycle(t) ==
  /\ OpenAt("paste", focus, Focused)
  /\ session' = [session EXCEPT !.base = session.snapshot]
  /\ text' = [text EXCEPT ![Focused] = t]
  /\ UNCHANGED <<layout, held, current, files, replaying>>

\* replay_action's start: it opens the placeholder.
StartReplay ==
  /\ ~replaying
  /\ session = NoSession \/ PasteOpen
  /\ CommitPaste
  /\ session' = Fresh("replay", focus, Focused)
  /\ replaying' = TRUE
  /\ UNCHANGED <<layout, text, files>>

\* finish_replay_session: a paste stays open, anything else is committed.
FinishReplay ==
  /\ replaying
  /\ replaying' = FALSE
  /\ IF session # NoSession /\ session.kind # "paste"
       THEN EndSessions
       ELSE UNCHANGED <<session, text, held, current>>
  /\ UNCHANGED <<layout, files>>

-----------------------------------------------------------------------------
(* Edits and walks *)

\* apply_doc_edit in an open Insert session: the edit joins its group.
EditGrouped(p, b, t) ==
  /\ OpenAt("insert", p, b)
  /\ session' = [session EXCEPT !.base = IF @ = NoText THEN text[b] ELSE @]
  /\ text' = [text EXCEPT ![b] = t]
  /\ UNCHANGED <<layout, held, current, files, replaying>>

\* Mutant of LogsAfterPaste: the paste is not committed.
LogsDropPaste(p, b) == {held[b]}

\* What is left of the histories and the session once a paste session at
\* (p, b) has been committed.
LogsAfterPaste(p, b) ==
  IF OpenAt("paste", p, b) THEN CommittedLogs(b, text[b]) ELSE {held[b]}
SessionAfterPaste(p, b) == IF OpenAt("paste", p, b) THEN NoSession ELSE session

\* apply_doc_edit otherwise: a paste session here is committed first, any
\* other session that does not conflict stays open, and the edit is a
\* revision of its own.
EditRecorded(p, b, t) ==
  /\ NoConflict(p, b)
  /\ ~OpenAt("insert", p, b)
  /\ text' = [text EXCEPT ![b] = t]
  /\ \E log \in LogsAfterPaste(p, b) : SetLog(b, Recorded(b, log, t))
  /\ session' = SessionAfterPaste(p, b)
  /\ UNCHANGED <<layout, files, replaying>>

\* apply_changes through no pane, as a language server's edit of a buffer
\* shown nowhere: refused while any session is on the buffer.
EditUnowned(b, t) ==
  /\ ~SessionOn(b)
  /\ text' = [text EXCEPT ![b] = t]
  /\ SetLog(b, Recorded(b, held[b], t))
  /\ UNCHANGED <<layout, files, session, replaying>>

\* apply_doc_history_walk of b through p to revision r: a paste session here
\* is committed first, an Insert session or a placeholder refuses.
Walk(p, b, r) ==
  /\ NoConflict(p, b)
  /\ ~OpenAt("insert", p, b) /\ ~OpenAt("replay", p, b)
  /\ \E log \in LogsAfterPaste(p, b) :
       /\ r <= Len(log) /\ Len(log) <= MaxRevisions
       /\ held' = [held EXCEPT ![b] = log]
       /\ text' = [text EXCEPT ![b] = log[r]]
  /\ current' = [current EXCEPT ![b] = r]
  /\ session' = SessionAfterPaste(p, b)
  /\ UNCHANGED <<layout, files, replaying>>

-----------------------------------------------------------------------------
(* Focus, reloads and writes *)

\* focus_pane, and the focus side of closing a pane or a tab.
FocusPane(p) ==
  /\ p # focus
  /\ EndSessions
  /\ focus' = p
  /\ UNCHANGED <<shows, files, replaying>>

\* switch_pane_to_buffer: only the focused pane's switch ends the sessions.
SwitchBuffer(p, b) ==
  /\ shows[p] # b
  /\ IF p = focus THEN EndSessions ELSE UNCHANGED <<session, text, held, current>>
  /\ shows' = [shows EXCEPT ![p] = b]
  /\ UNCHANGED <<focus, files, replaying>>

\* reload_buffer_in_place of the focused buffer, t being read from disk or
\* from a dump: the session (which is on the focused buffer) ends, the
\* replacement is recorded when it differs, and a disk read marks the buffer
\* saved.
Reload(t, from_disk) ==
  /\ ~replaying
  /\ from_disk => t = disk[Focused]
  /\ session' = NoSession
  /\ \E left \in LeftTexts(Focused) : \E log \in CommittedLogs(Focused, left) :
       SetLog(Focused, IF t = left THEN log ELSE Recorded(Focused, log, t))
  /\ text' = [text EXCEPT ![Focused] = t]
  /\ saved' = IF from_disk THEN [saved EXCEPT ![Focused] = current'[Focused]] ELSE saved
  /\ UNCHANGED <<layout, disk, replaying>>

\* write_file to the buffer's own file, at once or when its parked write is
\* released (module BeforeSave), so with or without a session on it: the live
\* text is written and the current revision becomes the save point.
Write(b) ==
  /\ SessionOn(b) => WriteInSession
  /\ disk' = [disk EXCEPT ![b] = text[b]]
  /\ saved' = [saved EXCEPT ![b] = current[b]]
  /\ UNCHANGED <<layout, text, held, current, session, replaying>>

Next ==
  \/ EnterInsert
  \/ ExitInsert
  \/ StepPasteCommit
  \/ \E t \in Text : Paste(t) \/ PasteCycle(t)
  \/ StartReplay
  \/ FinishReplay
  \/ \E p \in Pane, t \in Text :
       EditGrouped(p, shows[p], t) \/ EditRecorded(p, shows[p], t)
  \/ \E b \in BufferId, t \in Text : EditUnowned(b, t)
  \/ \E p \in Pane, r \in 1 .. MaxRevisions : Walk(p, shows[p], r)
  \/ \E p \in Pane : FocusPane(p)
  \/ \E p \in Pane, b \in BufferId : SwitchBuffer(p, b)
  \/ \E t \in Text, from_disk \in BOOLEAN : Reload(t, from_disk)
  \/ \E b \in BufferId : Write(b)

Spec == Init /\ [][Next]_vars

-----------------------------------------------------------------------------
(* Properties *)

TypeOK ==
  /\ focus \in Pane
  /\ shows \in [Pane -> BufferId]
  /\ text \in [BufferId -> Text]
  /\ held \in [BufferId -> Seq(Text)]
  /\ current \in [BufferId -> Nat]
  /\ saved \in [BufferId -> Nat]
  /\ \A b \in BufferId :
       /\ Len(held[b]) \in 1 .. MaxRevisions
       /\ current[b] \in Revisions(b)
       /\ saved[b] \in Revisions(b)
  /\ disk \in [BufferId -> Text]
  /\ session \in Session \cup {NoSession}
  /\ replaying \in BOOLEAN

\* The session is always where the keys go: the focused pane, showing the
\* session's buffer, through focus changes, switches, replays and reloads.
SessionIsFocused ==
  session # NoSession => session.pane = focus /\ session.buffer = Focused

\* OpenSession::unrecorded_inverse, and the takeover rule of open_or_retarget:
\* a session that may commit opened on the text of the history's current
\* revision, so its commit records an edit of that revision.
SnapshotIsCurrent ==
  session # NoSession /\ session.kind # "replay" =>
    session.snapshot = held[session.buffer][current[session.buffer]]

\* What a walk composes its transactions on: unless a session is composing,
\* the live text is the current revision's.
TextIsCurrent ==
  \A b \in BufferId :
    (SessionOn(b) /\ session.base # NoText) \/ text[b] = held[b][current[b]]

\* The session's group goes on into the next state.
SameGroup ==
  /\ session' # NoSession
  /\ session'.buffer = session.buffer
  /\ session'.snapshot = session.snapshot

\* The step records, after b's revisions, the text its session leaves, unless
\* that is the text it started from.
Records(b) ==
  \E t \in LeftTexts(b) :
    \/ t = session.base
    \/ /\ Len(held'[b]) > Len(held[b])
       /\ held'[b][Len(held[b]) + 1] = t

\* A session's edits leave it only into the history: whatever ends the session
\* (Esc, another command, focus, a switch, a reload, a remote edit) records
\* the text it had made, as the revision after those there were.
EditsAreRecorded ==
  [][\A b \in BufferId : UnrecordedEdits(b) /\ ~SameGroup => Records(b)]_vars

\* A buffer that reads as saved holds what its file holds.
CleanMatchesDisk ==
  \A b \in BufferId : ~HasUnsavedChanges(b) => disk[b] = text[b]

\* Sessions keep the promises of FileVersions: what a session composes is
\* neither taken for saved nor lost to the file, unless a write lands while
\* it composes.
Promised == INSTANCE FileVersions WITH
  File <- BufferId, Content <- Text, here <- text,
  clean <- {b \in BufferId : ~HasUnsavedChanges(b)},
  disk <- disk, foreign <- {}

ImplementsFileVersions == Promised!Spec
=============================================================================
