----------------------------- MODULE DiskState -----------------------------
(***************************************************************************)
(* What the editor knows of the files behind its buffers                   *)
(* (hume-editor/src/editor/buffer/disk.rs, buffer_file.rs, dump.rs,        *)
(* input_stack/confirm.rs and the part of event/pump.rs that checks a      *)
(* buffer when it is entered): stat checks, the reload and restore         *)
(* prompts, saves and reloads with their steps on disk, crash dumps, and   *)
(* the other programs that write the same files meanwhile.                 *)
(*                                                                         *)
(* A version of a file is a number: its signature and the content that goes *)
(* with it.  Every write makes a new one; a restored backup is an old one. *)
(***************************************************************************)
EXTENDS Integers, Sequences, FiniteSets

CONSTANTS BufferId, PaneId,
          FileBuffer,     \* the buffers that have a file; the others are scratch
          AutoRead,       \* values of the `file-reload-prompt` setting
          NoBuffer, NoConfirm,
          MaxVersion,     \* bound: versions of files
          MaxCalls,       \* bound: queued Steel calls of one settle
          DrainCap,       \* MAX_EVENT_DRAIN
          MaxSessions,    \* bound: times the editor is started
          RestatRaces     \* other programs may write between a save's rename
                          \* and the stat that follows it

ASSUME DiskAssumption ==
  /\ MaxVersion \in Nat \ {0} /\ MaxCalls \in Nat /\ DrainCap \in Nat /\ MaxSessions \in Nat
  /\ RestatRaces \in BOOLEAN
  /\ Cardinality(BufferId) > 1
  /\ FileBuffer \subseteq BufferId /\ AutoRead \subseteq BOOLEAN
  /\ NoBuffer \notin BufferId

VARIABLES
  file,          \* the version at each buffer's path, 0 when there is none
  newest,        \* versions made so far
  dump,          \* the session whose crash wrote the dump beside it, or 0
  buf,           \* the buffers
  pane, focus,   \* the buffer each pane shows, the focused pane
  confirm,       \* the open ConfirmLayer
  auto_read,     \* `file-reload-prompt`
  op,            \* a save or reload between two of its steps on disk
  phase,         \* where the main loop is
  pending_work, batch, drained, calls,  \* the pump's queue and its drain
  last_entered, logged,  \* last_entered_buffer, message_logged_this_input
  checked,       \* history: the buffer whose enter check ran last
  session,       \* which start of the editor this is
  ghost          \* history: what the user was told of each buffer, answered
                 \* and is owed

files == <<file, newest, dump>>
panes == <<pane, focus>>
pump  == <<pending_work, batch, drained, calls, last_entered, checked>>
vars  == <<files, buf, panes, confirm, auto_read, op, phase, pump, logged, session, ghost>>

Version == 0 .. MaxVersion
NoOp    == [kind |-> "none", b |-> NoBuffer, sig |-> 0, force |-> FALSE]

InSync      == [kind |-> "in_sync", sig |-> 0]
Vanished    == [kind |-> "vanished", sig |-> 0]
Changed(s)  == [kind |-> "changed", sig |-> s]
Declined(s) == [kind |-> "declined", sig |-> s]

Reload(b)  == [about |-> "reload", b |-> b]
Restore(b) == [about |-> "restore", b |-> b]

Enter(b, p) == [what |-> "enter", b |-> b, p |-> p]
Gained      == [what |-> "gained"]
Call        == [what |-> "call"]

FocusedBuffer == pane[focus]
Open(b)       == buf[b].open

-----------------------------------------------------------------------------
(* Checks *)

\* Buffer::from_file: a missing file makes a new-file buffer, which has no
\* signature; a dump beside it is offered when the buffer is entered.
Opened(b) == [open |-> TRUE, base |-> file[b], holds |-> file[b], dirty |-> FALSE,
              state |-> InSync, pending_dump |-> dump[b] # 0, recovered |-> 0]

\* disk_change_for.
DiskChange(b) ==
  IF buf[b].base = 0 THEN "indeterminate"
  ELSE IF file[b] = 0 THEN "vanished"
  ELSE IF file[b] = buf[b].base THEN "unchanged"
  ELSE "changed"

\* Mutant of AlreadyReported: any earlier change counts as this one.
AnyChangeReported(b) == buf[b].state.kind = "changed"

\* The state on disk is the one reported already.
AlreadyReported(b) == buf[b].state = IF file[b] = 0 THEN Vanished ELSE Changed(file[b])

AlreadyDeclined(b) == buf[b].state = Declined(file[b])

\* check_buffer_disk_state: the state it leaves.
CheckedState(b) ==
  CASE DiskChange(b) = "indeterminate" -> buf[b].state
    [] DiskChange(b) = "vanished"      -> Vanished
    [] DiskChange(b) = "unchanged"     -> InSync
    [] DiskChange(b) = "changed"       ->
         IF AlreadyDeclined(b) THEN buf[b].state ELSE Changed(file[b])

\* confirm_permit, with the confirm that is open then; `free` is that nothing
\* else on the input stack, no pending key, replay or headless run forbids it.
Permit(b, trigger, open, free) ==
  free /\ b = FocusedBuffer /\ open = NoConfirm /\ (trigger = "enter" => ~logged)

\* check_buffer_disk_state: it opens the reload prompt.
Prompts(b, trigger, permit) ==
  /\ DiskChange(b) = "changed" /\ ~AlreadyDeclined(b)
  /\ b = FocusedBuffer /\ auto_read
  /\ trigger = "enter" \/ ~AlreadyReported(b)
  /\ permit

\* check_buffer_disk_state: it tells the user, by the prompt or a warning.
Tells(b, trigger, permit) ==
  \/ Prompts(b, trigger, permit)
  \/ DiskChange(b) = "vanished" /\ ~AlreadyReported(b)
  \/ /\ DiskChange(b) = "changed"
     /\ IF AlreadyDeclined(b)
          THEN trigger = "explicit"
          ELSE ~AlreadyReported(b) \/ (trigger = "enter" /\ b = FocusedBuffer /\ auto_read)

\* The checks of the buffers of S with the prompt `open` up.
Check(S, trigger, open, free) ==
  LET permit(b) == Permit(b, trigger, open, free)
  IN  /\ buf' = [b \in BufferId |-> IF b \in S THEN [buf[b] EXCEPT !.state = CheckedState(b)]
                                    ELSE buf[b]]
      /\ ghost' = [b \in BufferId |->
           IF b \in S
             THEN [ghost[b] EXCEPT !.told = IF Tells(b, trigger, permit(b)) THEN file[b] ELSE @]
             ELSE ghost[b]]

\* check_all_disk_state: only the focused buffer can be asked about.
CheckAll(trigger, open, free) ==
  /\ Check({b \in BufferId : Open(b)}, trigger, open, free)
  /\ confirm' = IF Prompts(FocusedBuffer, trigger, Permit(FocusedBuffer, trigger, open, free))
                  THEN Reload(FocusedBuffer) ELSE open

\* Mutant of RetireStale: the prompt of a buffer focus left stays.
RetireNothing(b) == confirm

\* retire_stale_confirm on entering b.
RetireStale(b) == IF confirm # NoConfirm /\ confirm.b # b THEN NoConfirm ELSE confirm

\* enter_buffer_disk_check: retire a prompt about another buffer, check b,
\* then offer its dump, which may be gone by now.
EnterCheck(b, free) ==
  LET kept   == RetireStale(b)
      asks   == Prompts(b, "enter", Permit(b, "enter", kept, free))
      asked  == IF asks THEN Reload(b) ELSE kept
      offers == buf[b].pending_dump /\ Permit(b, "enter", asked, free)
      telling == Tells(b, "enter", Permit(b, "enter", kept, free))
  IN  /\ confirm' = IF offers /\ dump[b] # 0 THEN Restore(b) ELSE asked
      /\ buf' = [buf EXCEPT ![b].state = CheckedState(b),
                            ![b].pending_dump = @ /\ ~(offers /\ dump[b] = 0)]
      /\ ghost' = [ghost EXCEPT ![b].told = IF telling THEN file[b] ELSE @]
      /\ checked' = b

-----------------------------------------------------------------------------
(* Panes and buffers *)

\* What focus_pane, switch_pane_to_buffer, split_pane_onto and
\* close_focused_pane make of the panes.
PaneMoves ==
  LET shown == {p \in PaneId : pane[p] # NoBuffer}
  IN  {<<pane, p>> : p \in shown}
      \cup {<<[pane EXCEPT ![p] = b], focus>> : p \in shown, b \in {c \in BufferId : Open(c)}}
      \cup {<<[pane EXCEPT ![p] = FocusedBuffer], p>> : p \in PaneId \ shown}
      \cup {<<[pane EXCEPT ![focus] = NoBuffer], p>> : p \in shown \ {focus}}

MovePanes ==
  \E m \in PaneMoves :
    /\ pane' = m[1]
    /\ focus' = m[2]

\* close_buffer: every pane showing b goes to the next buffer.
Redirected(b, next) == [p \in PaneId |-> IF pane[p] = b THEN next ELSE pane[p]]

\* close_buffer_and_notify for an OnUnsaved that consents when `force`; a
\* prompt about b is retired.
CloseBuffer(b, force) ==
  /\ Open(b)
  /\ buf[b].dirty => force
  /\ \E next \in BufferId \ {b} :
       /\ Open(next)
       /\ pane' = Redirected(b, next)
  /\ ghost' = [ghost EXCEPT ![b].owed = IF buf[b].recovered = @ THEN 0 ELSE @]
  /\ buf' = [buf EXCEPT ![b] = [Opened(b) EXCEPT !.open = FALSE]]
  /\ confirm' = IF confirm = NoConfirm \/ confirm.b # b THEN confirm ELSE NoConfirm
  /\ UNCHANGED focus

-----------------------------------------------------------------------------
(* Inputs: each is dispatched whole, then the loop settles *)

AtInput == phase = "input" /\ op = NoOp

\* The end of a dispatch that logged a warning or error when `logs`.
Dispatched(logs) == phase' = "settle" /\ logged' = logs

\* Any input that is not an answer dismisses the prompt and does its job.
Input(logs) == AtInput /\ confirm' = NoConfirm /\ Dispatched(logs)

\* A focus move or switch; a failing `:qa` logs the dirty buffer it lands on.
InputMove(logs) ==
  /\ Input(logs) /\ MovePanes
  /\ UNCHANGED <<files, buf, auto_read, op, pump, session, ghost>>

InputEdit ==
  /\ Input(FALSE)
  /\ buf' = [buf EXCEPT ![FocusedBuffer].dirty = TRUE]
  /\ UNCHANGED <<files, panes, auto_read, op, pump, session, ghost>>

InputClose(b, force) ==
  /\ AtInput /\ Dispatched(FALSE)
  /\ confirm = NoConfirm
  /\ CloseBuffer(b, force)
  /\ UNCHANGED <<files, auto_read, op, pump, session>>

\* `:e` of a file that is not open.
InputOpen(b) ==
  /\ Input(FALSE) /\ ~Open(b)
  /\ buf' = [buf EXCEPT ![b] = Opened(b)]
  /\ pane' = [pane EXCEPT ![focus] = b]
  /\ UNCHANGED <<files, focus, auto_read, op, pump, session, ghost>>

\* The terminal gains focus: the event is queued.
InputFocusGained ==
  /\ AtInput /\ Dispatched(FALSE)
  /\ pending_work' = Append(pending_work, Gained)
  /\ UNCHANGED <<files, buf, panes, confirm, auto_read, op, batch, drained, calls,
                 last_entered, checked, session, ghost>>

\* typed_checktime.
InputChecktime(free) ==
  /\ AtInput /\ Dispatched(FALSE)
  /\ CheckAll("explicit", NoConfirm, free)
  /\ UNCHANGED <<files, panes, auto_read, op, pump, session>>

\* A wake: asynchronous sources only.
Wake ==
  /\ AtInput /\ MaxCalls > 0
  /\ phase' = "settle"
  /\ UNCHANGED <<files, buf, panes, confirm, auto_read, op, pump, logged, session, ghost>>

-----------------------------------------------------------------------------
(* Saves and reloads, a step per access to the file *)

Synced(b, base, content) ==
  [buf[b] EXCEPT !.base = base, !.holds = content, !.dirty = FALSE, !.state = InSync]

\* Ghost: what the user was owed from a crash is in the file, or was given up.
Settled(b) == [ghost EXCEPT ![b].owed = IF buf[b].recovered = @ THEN 0 ELSE @]

\* Mutant of SaveAllowed: the cached state stands in for a fresh stat.
SaveAllowedByState(b, force) == force \/ buf[b].state = InSync

\* write_to's first stat: a file that is there must be the one the baseline
\* describes, unless forced.
SaveAllowed(b, force) == force \/ file[b] \in {0, buf[b].base}

\* `:w` begins: refused as stale, or on to the replacement.
SaveStat(force) ==
  LET b == FocusedBuffer
  IN  /\ AtInput
      /\ b \in FileBuffer
      /\ confirm' = NoConfirm
      /\ IF SaveAllowed(b, force)
           THEN /\ op' = [kind |-> "rename", b |-> b, sig |-> 0, force |-> force]
                /\ UNCHANGED <<phase, logged>>
           ELSE Dispatched(TRUE) /\ UNCHANGED op
      /\ UNCHANGED <<files, buf, panes, auto_read, pump, session, ghost>>

\* write_file_atomic or write_file_new: the temp file is renamed over the
\* target, or that fails and nothing changed.
SaveRename ==
  LET b == op.b
  IN  /\ op.kind = "rename"
      /\ \/ /\ newest < MaxVersion
            /\ newest' = newest + 1
            /\ file' = [file EXCEPT ![b] = newest + 1]
            /\ op' = [op EXCEPT !.kind = "restat", !.sig = newest + 1]
            /\ UNCHANGED <<phase, logged>>
         \/ /\ op' = NoOp
            /\ Dispatched(TRUE)
            /\ UNCHANGED <<file, newest>>
      /\ UNCHANGED <<dump, buf, panes, confirm, auto_read, pump, session, ghost>>

\* The stat after the rename, then mark_synced. A vanished file leaves the
\* old signature, or fails a new file's save.
SaveRestat ==
  LET b == op.b
  IN  /\ op.kind = "restat"
      /\ op' = NoOp
      /\ IF file[b] = 0 /\ buf[b].base = 0
           THEN Dispatched(TRUE) /\ UNCHANGED <<buf, ghost>>
           ELSE /\ buf' = [buf EXCEPT ![b] =
                     Synced(b, IF file[b] = 0 THEN buf[b].base ELSE file[b], op.sig)]
                /\ ghost' = Settled(b)
                /\ Dispatched(FALSE)
      /\ UNCHANGED <<files, panes, confirm, auto_read, pump, session>>

\* reload_from_file: the stat in read_file_meta. A busy buffer, one with no
\* file or a missing file changes nothing but the log.
StartReload(b) ==
  \/ /\ file[b] # 0
     /\ op' = [kind |-> "read", b |-> b, sig |-> file[b], force |-> FALSE]
     /\ UNCHANGED <<phase, logged>>
  \/ Dispatched(TRUE) /\ UNCHANGED op

\* Mutant of Reread: the content is read before the stat.
RereadFirst(b, stat, now) == Synced(b, now, stat)

\* read_file: the signature of the stat beside the content read after it.
Reread(b, stat, now) == Synced(b, stat, now)

\* The content is read, replaces the text and the buffer is in sync.
ReloadRead ==
  LET b == op.b
  IN  /\ op.kind = "read"
      /\ op' = NoOp
      /\ IF file[b] = 0
           THEN Dispatched(TRUE) /\ UNCHANGED <<buf, ghost>>
           ELSE /\ buf' = [buf EXCEPT ![b] = Reread(b, op.sig, file[b])]
                /\ ghost' = Settled(b)
                /\ Dispatched(FALSE)
      /\ UNCHANGED <<files, panes, confirm, auto_read, pump, session>>

\* `:e!` on the focused buffer.
InputReload ==
  /\ AtInput
  /\ confirm' = NoConfirm
  /\ StartReload(FocusedBuffer)
  /\ UNCHANGED <<files, buf, panes, auto_read, pump, session, ghost>>

-----------------------------------------------------------------------------
(* Answers to a prompt *)

\* focused_answer_target: focus moved off the buffer, which is only warned of.
AnswerUnfocused ==
  /\ AtInput /\ confirm # NoConfirm /\ confirm.b # FocusedBuffer
  /\ confirm' = NoConfirm
  /\ Dispatched(TRUE)
  /\ UNCHANGED <<files, buf, panes, auto_read, op, pump, session, ghost>>

\* `r` of a reload prompt: reload_buffer_from_disk.
AnswerReload ==
  /\ AtInput /\ confirm = Reload(FocusedBuffer)
  /\ confirm' = NoConfirm
  /\ StartReload(FocusedBuffer)
  /\ UNCHANGED <<files, buf, panes, auto_read, pump, session, ghost>>

\* decline_disk_change: whichever change is on record now.
DeclinedState(st) == IF st.kind = "changed" THEN Declined(st.sig) ELSE st

\* `k` of a reload prompt.
AnswerDecline ==
  /\ AtInput /\ confirm # NoConfirm /\ confirm.about = "reload"
  /\ confirm' = NoConfirm
  /\ Dispatched(FALSE)
  /\ buf' = [buf EXCEPT ![confirm.b].state = DeclinedState(@)]
  /\ UNCHANGED <<files, panes, auto_read, op, pump, session, ghost>>

\* `r` of a restore prompt: restore_dump, refused while a pipe runs; a dump
\* that is gone is not asked about again.
AnswerRestore ==
  LET b == FocusedBuffer
  IN  /\ AtInput /\ confirm = Restore(b)
      /\ confirm' = NoConfirm
      /\ \/ Dispatched(TRUE) /\ UNCHANGED <<buf, dump, ghost>>
         \/ /\ dump[b] = 0
            /\ Dispatched(TRUE)
            /\ buf' = [buf EXCEPT ![b].pending_dump = FALSE]
            /\ UNCHANGED <<dump, ghost>>
         \/ /\ dump[b] # 0
            /\ Dispatched(FALSE)
            /\ buf' = [buf EXCEPT ![b].dirty = TRUE, ![b].recovered = dump[b],
                                  ![b].pending_dump = FALSE]
            /\ dump' = [dump EXCEPT ![b] = 0]
            /\ ghost' = [ghost EXCEPT ![b].kept = 0]
      /\ UNCHANGED <<file, newest, panes, auto_read, op, pump, session>>

\* Mutant of DumpAfterClose: the dump is removed whatever became of the buffer.
DumpAfterCloseRemoved(b) == 0

\* What restore_dump leaves of the dump when a plugin closed the buffer.
DumpAfterClose(b) == dump[b]

\* restore_dump when a plugin the restored text's language activates closes
\* the buffer: the dump is the text's only copy.
AnswerRestoreCloses ==
  LET b == FocusedBuffer
  IN  /\ AtInput /\ confirm = Restore(b) /\ dump[b] # 0
      /\ CloseBuffer(b, TRUE)
      /\ dump' = [dump EXCEPT ![b] = DumpAfterClose(b)]
      /\ Dispatched(FALSE)
      /\ UNCHANGED <<file, newest, auto_read, op, pump, session>>

\* `d` of a restore prompt: discard_dump.
AnswerDiscard ==
  /\ AtInput /\ confirm # NoConfirm /\ confirm.about = "restore"
  /\ confirm' = NoConfirm
  /\ Dispatched(FALSE)
  /\ buf' = [buf EXCEPT ![confirm.b].pending_dump = FALSE]
  /\ dump' = [dump EXCEPT ![confirm.b] = 0]
  /\ ghost' = [ghost EXCEPT ![confirm.b].owed = 0, ![confirm.b].kept = 0]
  /\ UNCHANGED <<file, newest, panes, auto_read, op, pump, session>>

\* `k` or Esc of a restore prompt: keep_dump.
AnswerKeepDump ==
  /\ AtInput /\ confirm # NoConfirm /\ confirm.about = "restore"
  /\ confirm' = NoConfirm
  /\ Dispatched(FALSE)
  /\ buf' = [buf EXCEPT ![confirm.b].pending_dump = FALSE]
  /\ ghost' = [ghost EXCEPT ![confirm.b].kept = dump[confirm.b]]
  /\ UNCHANGED <<files, panes, auto_read, op, pump, session>>

-----------------------------------------------------------------------------
(* Editor::settle *)

\* drain_async_sources: timers and answers queue their calls; what is left of
\* the bound is for handlers.
DrainAsync ==
  /\ phase = "settle"
  /\ phase' = "drain"
  /\ \E n \in 0 .. MaxCalls :
       /\ pending_work' = pending_work \o [i \in 1 .. n |-> Call]
       /\ calls' = MaxCalls - n
  /\ UNCHANGED <<files, buf, panes, confirm, auto_read, op, batch, drained,
                 last_entered, checked, logged, session, ghost>>

\* detect_buffer_enter.
Detected ==
  IF FocusedBuffer = last_entered THEN pending_work
  ELSE Append(pending_work, Enter(FocusedBuffer, focus))

Entries(work) == {work[i].b : i \in {j \in DOMAIN work : work[j].what = "enter"}}

\* drain_pending_work, nothing left: the settle is over.
PassEnds ==
  /\ phase = "drain" /\ batch = << >> /\ Detected = << >>
  /\ phase' = "input"
  /\ logged' = FALSE
  /\ drained' = 0
  /\ UNCHANGED <<files, buf, panes, confirm, auto_read, op, pending_work, batch, calls,
                 last_entered, checked, session, ghost>>

\* drain_pending_work takes what is queued.
PassTakes ==
  /\ phase = "drain" /\ batch = << >> /\ Detected # << >>
  /\ drained + Len(Detected) <= DrainCap
  /\ drained' = drained + Len(Detected)
  /\ batch' = Detected
  /\ pending_work' = << >>
  /\ last_entered' = FocusedBuffer
  /\ UNCHANGED <<files, buf, panes, confirm, auto_read, op, phase, calls, checked, logged,
                 session, ghost>>

\* Mutant of EnteredAfterDrop: the dropped batch's enter counts as delivered.
EnteredAfterDropKept(work) == FocusedBuffer

\* last_entered_buffer after a dropped batch: the enter it held is raised again.
EnteredAfterDrop(work) == IF Entries(work) # {} THEN NoBuffer ELSE FocusedBuffer

\* The cap: the batch is dropped and the drain given up.
PassDrops ==
  /\ phase = "drain" /\ batch = << >> /\ Detected # << >>
  /\ drained + Len(Detected) > DrainCap
  /\ phase' = "input"
  /\ drained' = 0
  /\ logged' = FALSE
  /\ pending_work' = << >>
  /\ last_entered' = EnteredAfterDrop(Detected)
  /\ UNCHANGED <<files, buf, panes, confirm, auto_read, op, batch, calls, checked, session,
                 ghost>>

Running(what) == phase = "drain" /\ batch # << >> /\ Head(batch).what = what

\* A call or handler's effect: it moves panes, closes a buffer or does nothing
\* here, and may queue another.
RunCall ==
  /\ Running("call")
  /\ batch' = Tail(batch)
  /\ \/ MovePanes /\ UNCHANGED <<buf, confirm, ghost>>
     \/ \E b \in BufferId : CloseBuffer(b, FALSE)
  /\ \/ UNCHANGED <<pending_work, calls>>
     \/ /\ calls > 0
        /\ calls' = calls - 1
        /\ pending_work' = Append(pending_work, Call)
  /\ UNCHANGED <<files, auto_read, op, phase, drained, last_entered, checked, logged, session>>

\* react_to_event OnFocusGained.
RunGained(free) ==
  /\ Running("gained")
  /\ batch' = Tail(batch)
  /\ CheckAll("ambient", confirm, free)
  /\ UNCHANGED <<files, panes, auto_read, op, phase, pending_work, drained, calls,
                 last_entered, checked, logged, session>>

\* event_is_live: the pane still shows the buffer.
EventIsLive(e) == pane[e.p] = e.b

\* react_to_event OnBufferEnter, then its handlers, whose effect is that of a
\* call; an event whose pane is gone or shows something else is skipped.
RunEnter(free) ==
  LET e == Head(batch)
  IN  /\ Running("enter")
      /\ IF EventIsLive(e)
           THEN /\ EnterCheck(e.b, free)
                /\ \/ batch' = Tail(batch) /\ UNCHANGED calls
                   \/ /\ calls > 0
                      /\ calls' = calls - 1
                      /\ batch' = <<Call>> \o Tail(batch)
           ELSE batch' = Tail(batch) /\ UNCHANGED <<buf, confirm, ghost, checked, calls>>
      /\ UNCHANGED <<files, panes, auto_read, op, phase, pending_work, drained,
                     last_entered, logged, session>>

-----------------------------------------------------------------------------
(* Other programs, and the end of the process *)

Replaced(b, v) == file' = [file EXCEPT ![b] = v]

\* Another program writes the file, puts back the version the buffer's text
\* came from, or removes it.
ExternalWrite(b) ==
  /\ b \in FileBuffer
  /\ op.kind = "restat" => RestatRaces
  /\ \/ newest < MaxVersion /\ newest' = newest + 1 /\ Replaced(b, newest + 1)
     \/ file[b] # buf[b].holds /\ Replaced(b, buf[b].holds) /\ UNCHANGED newest
     \/ file[b] # 0 /\ Replaced(b, 0) /\ UNCHANGED newest
  /\ UNCHANGED <<dump, buf, panes, confirm, auto_read, op, phase, pump, logged, session, ghost>>

\* Dumped beside its file: a scratch buffer's dump goes elsewhere and is not
\* offered.
Unsaved(b) == b \in FileBuffer /\ Open(b) /\ buf[b].dirty

\* The editor ends, by a panic, a signal or a lost terminal, which dump every
\* buffer with unsaved changes, or by a quit that discards them; it starts
\* again with the same files.
Restart(abnormal) ==
  /\ session < MaxSessions
  /\ session' = session + 1
  /\ dump' = [b \in BufferId |-> IF abnormal /\ Unsaved(b) THEN session ELSE dump[b]]
  /\ buf' = [b \in BufferId |-> [Opened(b) EXCEPT !.pending_dump = dump'[b] # 0]]
  /\ ghost' = [b \in BufferId |->
       [ghost[b] EXCEPT !.told = -1,
                        !.owed = IF abnormal /\ Unsaved(b) THEN session
                                 ELSE IF dump[b] = @ THEN @ ELSE 0]]
  /\ \E b \in BufferId, p \in PaneId :
       /\ pane' = [[q \in PaneId |-> NoBuffer] EXCEPT ![p] = b]
       /\ focus' = p
  /\ confirm' = NoConfirm
  /\ op' = NoOp
  /\ phase' = "settle"
  /\ pending_work' = << >> /\ batch' = << >> /\ drained' = 0 /\ calls' = 0
  /\ last_entered' = NoBuffer /\ checked' = NoBuffer
  /\ logged' = FALSE
  /\ UNCHANGED <<file, newest, auto_read>>

Init ==
  /\ file \in {[b \in BufferId |-> IF b \in F THEN 1 ELSE 0] : F \in SUBSET FileBuffer}
  /\ newest = 1
  /\ dump = [b \in BufferId |-> 0]
  /\ buf = [b \in BufferId |-> Opened(b)]
  /\ auto_read \in AutoRead
  /\ \E b \in BufferId, p \in PaneId :
       /\ pane = [[q \in PaneId |-> NoBuffer] EXCEPT ![p] = b]
       /\ focus = p
  /\ ghost = [b \in BufferId |-> [told |-> -1, kept |-> 0, owed |-> 0]]
  /\ confirm = NoConfirm
  /\ op = NoOp
  /\ phase = "settle"
  /\ pending_work = << >> /\ batch = << >> /\ drained = 0 /\ calls = 0
  /\ last_entered = NoBuffer /\ checked = NoBuffer
  /\ logged = FALSE
  /\ session = 1

Inputs ==
  \/ \E logs \in BOOLEAN : InputMove(logs)
  \/ InputEdit \/ InputFocusGained \/ InputReload \/ Wake
  \/ \E b \in BufferId : InputOpen(b) \/ \E force \in BOOLEAN : InputClose(b, force)
  \/ \E free \in BOOLEAN : InputChecktime(free)
  \/ \E force \in BOOLEAN : SaveStat(force)

Answers ==
  \/ AnswerUnfocused \/ AnswerReload \/ AnswerDecline
  \/ AnswerRestore \/ AnswerRestoreCloses \/ AnswerDiscard \/ AnswerKeepDump

FileSteps == SaveRename \/ SaveRestat \/ ReloadRead

Settle ==
  \/ DrainAsync \/ PassEnds \/ PassTakes \/ PassDrops \/ RunCall
  \/ \E free \in BOOLEAN : RunGained(free) \/ RunEnter(free)

Next ==
  \/ Inputs \/ Answers \/ FileSteps \/ Settle
  \/ \E b \in BufferId : ExternalWrite(b)
  \/ \E abnormal \in BOOLEAN : Restart(abnormal)

Spec == Init /\ [][Next]_vars

-----------------------------------------------------------------------------
(* Properties *)

\* The fields hold what the code's types allow, only open buffers are shown,
\* and a dump was written by an earlier session.  A prompt that waits for an
\* answer is about the focused buffer: "an unanswerable confirm blocks every
\* later prompt" (lifecycle.rs, forget_closed_buffer); after a dropped batch
\* the next settle retires it.
TypeOK ==
  /\ AtInput /\ confirm # NoConfirm /\ last_entered = FocusedBuffer =>
       confirm.b = FocusedBuffer
  /\ file \in [BufferId -> Version] /\ newest \in Version
  /\ \A b \in BufferId : buf[b].base \in Version /\ buf[b].holds \in Version
  /\ pane[focus] # NoBuffer
  /\ \A p \in PaneId : pane[p] = NoBuffer \/ Open(pane[p])
  /\ confirm = NoConfirm \/ confirm.b \in BufferId
  /\ drained \in 0 .. DrainCap
  /\ \A b \in BufferId : dump[b] < session

\* The user answers "keep" to what was shown: a declined version is one the
\* user was told of (disk.rs, decline_disk_change), though the prompt stays up
\* while later checks record other versions.
NoUnseenDecline ==
  \A b \in BufferId : buf[b].state.kind = "declined" => ghost[b].told = buf[b].state.sig

\* A version another program wrote is never taken for the buffer's own: the
\* file's signature is the baseline only while the buffer's text comes from
\* that very version, so no check and no save misses a change.
NoMissedChange ==
  \A b \in BufferId :
    Open(b) /\ file[b] # 0 /\ file[b] = buf[b].base => buf[b].holds = file[b]

\* An unforced save goes on only over the version the buffer's text came from,
\* or where there is no file: whatever changed the file since, however
\* reloads, checks and declines ran, it is refused (write_to).
SavesKnowTheirFile ==
  [][op.kind = "none" /\ op'.kind = "rename" /\ ~op'.force =>
       file[op'.b] \in {0, buf[op'.b].holds}]_vars

\* "Every focus-changing path reaches" the check of the buffer it lands on
\* (disk.rs, enter_buffer_disk_check), across calls, handlers, closes and the
\* cap that drops a batch: when the loop waits for input, the last enter check
\* was the focused buffer's, or the next settle raises it.
EnteredWasChecked ==
  AtInput /\ last_entered = FocusedBuffer => checked = FocusedBuffer

\* Unsaved text that a crash dumped is in the dump, or in the buffer it was
\* restored to, until the user discards it or saves or drops that buffer.
RecoveredTextIsKept ==
  \A b \in BufferId :
    ghost[b].owed # 0 =>
      dump[b] = ghost[b].owed \/ (Open(b) /\ buf[b].dirty /\ buf[b].recovered = ghost[b].owed)

\* "The dump stays on disk" once the user answered keep.
KeptDumpStays ==
  \A b \in BufferId : ghost[b].kept # 0 => dump[b] = ghost[b].kept
=============================================================================
