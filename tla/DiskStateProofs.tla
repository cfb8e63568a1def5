-------------------------- MODULE DiskStateProofs --------------------------
(***************************************************************************)
(* What the editor knows of the files behind its buffers, for any buffers, *)
(* panes, caps and bounds: no version of a file is taken for another, no   *)
(* change is declined unseen, no recovered text is lost and every buffer   *)
(* that is entered is checked.                                             *)
(***************************************************************************)
EXTENDS DiskState, SequenceTheorems, TLAPS

\* What a buffer knows of its file is of the right kinds.
KnownState == [kind : {"in_sync", "changed", "declined", "vanished"}, sig : Nat]

BufferState ==
  [open : BOOLEAN, base : Nat, holds : Nat, dirty : BOOLEAN,
   state : KnownState, pending_dump : BOOLEAN, recovered : Nat]

Typed ==
  /\ file \in [BufferId -> Nat]
  /\ newest \in Nat
  /\ dump \in [BufferId -> Nat]
  /\ session \in Nat
  /\ buf \in [BufferId -> BufferState]
  /\ pane \in [PaneId -> BufferId \cup {NoBuffer}]
  /\ focus \in PaneId
  /\ FocusedBuffer \in BufferId
  /\ op \in [kind : {"none", "rename", "restat", "read"},
             b : BufferId \cup {NoBuffer}, sig : Nat, force : BOOLEAN]
  /\ op.kind # "none" => op.b \in BufferId

\* Nothing is of a version that was not made yet.
Made ==
  /\ newest <= MaxVersion
  /\ op.sig <= newest
  /\ \A b \in BufferId :
       file[b] <= newest /\ buf[b].base <= newest /\ buf[b].holds <= newest

\* A text that did not come from the version its signature names comes from a
\* reload that a write ran into: that version is gone, and for good, since a
\* backup only puts back the version of the text.
SignatureGone(b) ==
  buf[b].base # buf[b].holds => buf[b].base # 0 /\ file[b] # buf[b].base

\* What a save or reload found in its first step on disk.
OpSound ==
  /\ op.kind = "read" => op.sig # 0
  /\ op.kind = "restat" => op.sig # 0 /\ file[op.b] = op.sig

Sound == Typed /\ Made /\ OpSound /\ \A b \in BufferId : SignatureGone(b)

-----------------------------------------------------------------------------
(* Steps that leave the files alone *)

\* The part of a buffer that Sound is about.
Same(b) == buf'[b].base = buf[b].base /\ buf'[b].holds = buf[b].holds

\* The text and its signature are of the file as it is.
Fresh(b) == buf'[b].base = file[b] /\ buf'[b].holds = file[b]

\* A step that touches no file keeps or rereads each buffer, and starts no save
\* or reload.
Quiet ==
  /\ UNCHANGED <<file, newest>>
  /\ op' = op \/ op' = NoOp
  /\ \A b \in BufferId : Same(b) \/ Fresh(b)

\* Panes show open buffers, or nothing, after any move.
LEMMA MovesKeepPanes ==
  ASSUME Typed, MovePanes
  PROVE  /\ pane' \in [PaneId -> BufferId \cup {NoBuffer}]
         /\ focus' \in PaneId
         /\ FocusedBuffer' \in BufferId
  <1>1. PICK m \in PaneMoves : pane' = m[1] /\ focus' = m[2]
    BY DEF MovePanes
  <1> DEFINE shown == {p \in PaneId : pane[p] # NoBuffer}
  <1>2. \A p \in shown : pane[p] \in BufferId
    BY DEF Typed
  <1>3. CASE m \in {<<pane, p>> : p \in shown}
    BY <1>1, <1>2, <1>3 DEF Typed, FocusedBuffer
  <1>4. CASE m \in {<<[pane EXCEPT ![p] = b], focus>> : p \in shown, b \in {c \in BufferId : Open(c)}}
    BY <1>1, <1>2, <1>4 DEF Typed, FocusedBuffer
  <1>5. CASE m \in {<<[pane EXCEPT ![p] = FocusedBuffer], p>> : p \in PaneId \ shown}
    BY <1>1, <1>2, <1>5 DEF Typed, FocusedBuffer
  <1>6. CASE m \in {<<[pane EXCEPT ![focus] = NoBuffer], p>> : p \in shown \ {focus}}
    BY <1>1, <1>2, <1>6 DEF Typed, FocusedBuffer
  <1> QED BY <1>1, <1>3, <1>4, <1>5, <1>6 DEF PaneMoves

\* What a check, an answer or an edit does to the buffers keeps their kinds.
LEMMA CheckedIsTyped ==
  ASSUME Typed, NEW b \in BufferId
  PROVE  CheckedState(b) \in KnownState
  <1>1. buf[b].state \in KnownState /\ file[b] \in Nat
    BY DEF Typed, BufferState
  <1>2. Vanished \in KnownState /\ InSync \in KnownState /\ Changed(file[b]) \in KnownState
    BY <1>1 DEF Vanished, InSync, Changed, KnownState
  <1>3. DiskChange(b) \in {"indeterminate", "vanished", "unchanged", "changed"}
    BY DEF DiskChange
  <1> QED BY <1>1, <1>2, <1>3 DEF CheckedState

\* A buffer read from its file is of the right kinds.
LEMMA OpenedIsTyped ==
  ASSUME Typed, NEW b \in BufferId
  PROVE  Opened(b) \in BufferState
  BY DEF Typed, BufferState, KnownState, Opened, InSync

\* The checks of several buffers.
LEMMA ChecksKeepBuffers ==
  ASSUME Typed, NEW S, NEW trigger, NEW open, NEW free, Check(S, trigger, open, free)
  PROVE  buf' \in [BufferId -> BufferState] /\ \A b \in BufferId : Same(b)
  <1>1. \A b \in BufferId : [buf[b] EXCEPT !.state = CheckedState(b)] \in BufferState
    BY CheckedIsTyped DEF Typed, BufferState
  <1>2. buf' = [b \in BufferId |-> IF b \in S THEN [buf[b] EXCEPT !.state = CheckedState(b)]
                                  ELSE buf[b]]
    BY DEF Check
  <1>3. buf' \in [BufferId -> BufferState]
    BY <1>1, <1>2 DEF Typed
  <1>4. ASSUME NEW b \in BufferId PROVE Same(b)
    BY <1>2 DEF Typed, BufferState, Same
  <1> QED BY <1>3, <1>4

\* The check of the buffer that was entered.
LEMMA EnterKeepsBuffers ==
  ASSUME Typed, NEW e, NEW free, EnterCheck(e, free)
  PROVE  buf' \in [BufferId -> BufferState] /\ \A b \in BufferId : Same(b)
  <1>1. CASE e \in BufferId
    <2>1. CheckedState(e) \in KnownState
      BY <1>1, CheckedIsTyped
    <2>2. PICK p \in BOOLEAN : buf' = [buf EXCEPT ![e].state = CheckedState(e), ![e].pending_dump = p]
      BY <1>1 DEF EnterCheck, Typed, BufferState
    <2> QED BY <1>1, <2>1, <2>2 DEF Typed, BufferState, Same
  <1>2. CASE e \notin BufferId
    <2>1. buf' = buf
      BY <1>2 DEF EnterCheck, Typed
    <2> QED BY <2>1 DEF Typed, Same
  <1> QED BY <1>1, <1>2

\* A close: the panes that showed the buffer show another, and the buffer is
\* as it would be opened.
LEMMA CloseKeepsPanes ==
  ASSUME Typed, NEW b \in BufferId, NEW force, CloseBuffer(b, force)
  PROVE  /\ pane' \in [PaneId -> BufferId \cup {NoBuffer}]
         /\ FocusedBuffer' \in BufferId
         /\ focus' = focus
  <1>1. PICK next \in BufferId : pane' = Redirected(b, next)
    BY DEF CloseBuffer
  <1>2. focus' = focus
    BY DEF CloseBuffer
  <1> QED BY <1>1, <1>2 DEF Typed, FocusedBuffer, Redirected

\* The buffers a close leaves.
LEMMA CloseKeepsBuffers ==
  ASSUME Typed, NEW b \in BufferId, NEW force, CloseBuffer(b, force)
  PROVE  /\ buf' \in [BufferId -> BufferState]
         /\ \A c \in BufferId \ {b} : Same(c)
         /\ Fresh(b)
  <1>1. buf' = [buf EXCEPT ![b] = [Opened(b) EXCEPT !.open = FALSE]]
    BY DEF CloseBuffer
  <1>2. [Opened(b) EXCEPT !.open = FALSE] \in BufferState
    BY OpenedIsTyped DEF BufferState
  <1>3. [Opened(b) EXCEPT !.open = FALSE].base = file[b]
        /\ [Opened(b) EXCEPT !.open = FALSE].holds = file[b]
    BY DEF Opened
  <1> QED BY <1>1, <1>2, <1>3 DEF Typed, Same, Fresh

\* Every buffer starts as its file is.
LEMMA InitIsTyped ==
  Init => Typed /\ \A b \in BufferId : buf[b].base = file[b] /\ buf[b].holds = file[b]
  <1> SUFFICES ASSUME Init
               PROVE  Typed /\ \A b \in BufferId : buf[b].base = file[b] /\ buf[b].holds = file[b]
    OBVIOUS
  <1>1. file \in [BufferId -> Nat] /\ newest \in Nat /\ dump \in [BufferId -> Nat]
    BY DEF Init
  <1>2. pane \in [PaneId -> BufferId \cup {NoBuffer}] /\ focus \in PaneId /\ FocusedBuffer \in BufferId
    BY DEF Init, FocusedBuffer
  <1>3. \A b \in BufferId : Opened(b) \in BufferState
    BY <1>1 DEF BufferState, KnownState, Opened, InSync
  <1>4. buf \in [BufferId -> BufferState]
    BY <1>3 DEF Init
  <1>5. op = NoOp /\ session = 1
    BY DEF Init
  <1>6. Typed
    BY <1>1, <1>2, <1>4, <1>5 DEF Typed, NoOp
  <1>7. \A b \in BufferId : buf[b].base = buf[b].holds /\ buf[b].holds = file[b]
    BY DEF Init, Opened
  <1> QED BY <1>6, <1>7

\* Inputs that touch no file and leave no save or reload behind.
LEMMA DispatchKeepsTyped ==
  ASSUME Typed,
         \/ \E logs \in BOOLEAN : InputMove(logs)
         \/ InputEdit \/ InputFocusGained \/ Wake
         \/ \E b \in BufferId : InputOpen(b) \/ \E force \in BOOLEAN : InputClose(b, force)
         \/ \E free \in BOOLEAN : InputChecktime(free)
  PROVE  Typed' /\ Quiet
  <1>1. ASSUME NEW logs \in BOOLEAN, InputMove(logs) PROVE Typed' /\ Quiet
    <2>1. UNCHANGED <<file, newest, dump, session, buf, op>>
      BY <1>1 DEF InputMove, files
    <2>2. Typed'
      BY <1>1, <2>1, MovesKeepPanes DEF InputMove, Typed
    <2> QED BY <2>1, <2>2 DEF Quiet, Same
  <1>2. ASSUME InputEdit PROVE Typed' /\ Quiet
    <2>1. UNCHANGED <<file, newest, dump, session, pane, focus, op>>
      BY <1>2 DEF InputEdit, files, panes
    <2>2. buf' = [buf EXCEPT ![FocusedBuffer].dirty = TRUE]
      BY <1>2 DEF InputEdit
    <2>3. Typed'
      BY <2>1, <2>2 DEF Typed, BufferState, FocusedBuffer
    <2>4. \A b \in BufferId : Same(b)
      BY <2>2 DEF Typed, BufferState, Same
    <2> QED BY <2>1, <2>3, <2>4 DEF Quiet
  <1>3. ASSUME InputFocusGained \/ Wake PROVE Typed' /\ Quiet
    <2>1. UNCHANGED <<file, newest, dump, session, buf, pane, focus, op>>
      BY <1>3 DEF InputFocusGained, Wake, files, panes
    <2>2. Typed'
      BY <2>1 DEF Typed, FocusedBuffer
    <2> QED BY <2>1, <2>2 DEF Quiet, Same
  <1>4. ASSUME NEW b \in BufferId, InputOpen(b) PROVE Typed' /\ Quiet
    <2>1. /\ UNCHANGED <<file, newest, dump, session, focus, op>>
          /\ buf' = [buf EXCEPT ![b] = Opened(b)]
          /\ pane' = [pane EXCEPT ![focus] = b]
      BY <1>4 DEF InputOpen, files
    <2>2. Typed'
      BY <2>1, OpenedIsTyped DEF Typed, FocusedBuffer
    <2>3. \A c \in BufferId : Same(c) \/ Fresh(c)
      BY <2>1 DEF Typed, Opened, Same, Fresh
    <2> QED BY <2>1, <2>2, <2>3 DEF Quiet
  <1>5. ASSUME NEW b \in BufferId, NEW force \in BOOLEAN, InputClose(b, force) PROVE Typed' /\ Quiet
    <2>1. UNCHANGED <<file, newest, dump, session, op>> /\ CloseBuffer(b, force)
      BY <1>5 DEF InputClose, files
    <2>2. Typed'
      BY <2>1, CloseKeepsPanes, CloseKeepsBuffers DEF Typed
    <2> QED BY <2>1, <2>2, CloseKeepsBuffers DEF Quiet
  <1>6. ASSUME NEW free \in BOOLEAN, InputChecktime(free) PROVE Typed' /\ Quiet
    <2>1. UNCHANGED <<file, newest, dump, session, pane, focus, op>>
      BY <1>6 DEF InputChecktime, files, panes
    <2>2. Check({b \in BufferId : Open(b)}, "explicit", NoConfirm, free)
      BY <1>6 DEF InputChecktime, CheckAll
    <2>3. Typed'
      BY <2>1, <2>2, ChecksKeepBuffers DEF Typed, FocusedBuffer
    <2> QED BY <2>1, <2>2, <2>3, ChecksKeepBuffers DEF Quiet
  <1> QED BY <1>1, <1>2, <1>3, <1>4, <1>5, <1>6

\* Answers to prompts that start no reload.
LEMMA AnswersKeepTyped ==
  ASSUME Typed,
         \/ AnswerUnfocused \/ AnswerDecline \/ AnswerRestore
         \/ AnswerRestoreCloses \/ AnswerDiscard \/ AnswerKeepDump
  PROVE  Typed' /\ Quiet
  <1>1. ASSUME AnswerUnfocused PROVE Typed' /\ Quiet
    <2>1. UNCHANGED <<file, newest, dump, session, buf, pane, focus, op>>
      BY <1>1 DEF AnswerUnfocused, files, panes
    <2>2. Typed'
      BY <2>1 DEF Typed, FocusedBuffer
    <2> QED BY <2>1, <2>2 DEF Quiet, Same
  <1>2. ASSUME AnswerDecline PROVE Typed' /\ Quiet
    <2>1. UNCHANGED <<file, newest, dump, session, pane, focus, op>>
      BY <1>2 DEF AnswerDecline, files, panes
    <2>2. buf' = [buf EXCEPT ![confirm.b].state = DeclinedState(@)]
      BY <1>2 DEF AnswerDecline
    <2>3. \A b \in BufferId : DeclinedState(buf[b].state) \in KnownState
      BY DEF Typed, BufferState, KnownState, DeclinedState, Declined
    <2>4. buf' \in [BufferId -> BufferState] /\ \A b \in BufferId : Same(b)
      BY <2>2, <2>3 DEF Typed, BufferState, Same
    <2>5. Typed'
      BY <2>1, <2>4 DEF Typed, FocusedBuffer
    <2> QED BY <2>1, <2>4, <2>5 DEF Quiet
  <1>3. ASSUME AnswerRestore PROVE Typed' /\ Quiet
    <2> DEFINE b == FocusedBuffer
    <2>1. UNCHANGED <<file, newest, session, pane, focus, op>>
      BY <1>3 DEF AnswerRestore, panes
    <2>2. \/ buf' = buf /\ dump' = dump
          \/ buf' = [buf EXCEPT ![b].pending_dump = FALSE] /\ dump' = dump
          \/ /\ buf' = [buf EXCEPT ![b].dirty = TRUE, ![b].recovered = dump[b],
                                    ![b].pending_dump = FALSE]
             /\ dump' = [dump EXCEPT ![b] = 0]
      BY <1>3 DEF AnswerRestore
    <2>3. dump' \in [BufferId -> Nat]
      BY <2>2 DEF Typed
    <2>4. buf' \in [BufferId -> BufferState] /\ \A c \in BufferId : Same(c)
      <3>1. dump[b] \in Nat /\ buf \in [BufferId -> BufferState]
        BY DEF Typed
      <3> HIDE DEF b
      <3>2. \A c \in BufferId :
              /\ [buf[c] EXCEPT !.pending_dump = FALSE] \in BufferState
              /\ [buf[c] EXCEPT !.dirty = TRUE, !.recovered = dump[b],
                                !.pending_dump = FALSE] \in BufferState
        BY <3>1 DEF BufferState
      <3>3. buf' \in [BufferId -> BufferState]
        <4>1. CASE buf' = buf
          BY <3>1, <4>1
        <4>2. CASE buf' = [buf EXCEPT ![b].pending_dump = FALSE]
          BY <3>1, <3>2, <4>2
        <4>3. CASE buf' = [buf EXCEPT ![b].dirty = TRUE, ![b].recovered = dump[b],
                                      ![b].pending_dump = FALSE]
          <5>1. \A c \in BufferId : buf'[c] \in BufferState
            BY <3>1, <4>3 DEF BufferState
          <5>2. buf' = [c \in BufferId |-> buf'[c]]
            BY <3>1, <4>3
          <5> QED BY <5>1, <5>2
        <4> QED BY <2>2, <4>1, <4>2, <4>3
      <3>4. \A c \in BufferId : Same(c)
        BY <2>2, <3>1 DEF BufferState, Same
      <3> QED BY <3>3, <3>4
    <2>5. Typed'
      BY <2>1, <2>3, <2>4 DEF Typed, FocusedBuffer
    <2> QED BY <2>1, <2>4, <2>5 DEF Quiet
  <1>4. ASSUME AnswerRestoreCloses PROVE Typed' /\ Quiet
    <2> DEFINE b == FocusedBuffer
    <2>1. UNCHANGED <<file, newest, session, op>> /\ CloseBuffer(b, TRUE) /\ b \in BufferId
      BY <1>4 DEF AnswerRestoreCloses, Typed
    <2>2. dump' = dump
      BY <1>4 DEF AnswerRestoreCloses, DumpAfterClose, Typed
    <2>3. Typed'
      BY <2>1, <2>2, CloseKeepsPanes, CloseKeepsBuffers DEF Typed
    <2> QED BY <2>1, <2>3, CloseKeepsBuffers DEF Quiet
  <1>5. ASSUME AnswerDiscard \/ AnswerKeepDump PROVE Typed' /\ Quiet
    <2>1. UNCHANGED <<file, newest, session, pane, focus, op>>
      BY <1>5 DEF AnswerDiscard, AnswerKeepDump, files, panes
    <2>2. buf' = [buf EXCEPT ![confirm.b].pending_dump = FALSE]
      BY <1>5 DEF AnswerDiscard, AnswerKeepDump
    <2>3. dump' = dump \/ dump' = [dump EXCEPT ![confirm.b] = 0]
      BY <1>5 DEF AnswerDiscard, AnswerKeepDump, files
    <2>4. buf' \in [BufferId -> BufferState] /\ \A c \in BufferId : Same(c)
      BY <2>2 DEF Typed, BufferState, Same
    <2>5. dump' \in [BufferId -> Nat]
      BY <2>3 DEF Typed
    <2>6. Typed'
      BY <2>1, <2>4, <2>5 DEF Typed, FocusedBuffer
    <2> QED BY <2>1, <2>4, <2>6 DEF Quiet
  <1> QED BY <1>1, <1>2, <1>3, <1>4, <1>5

\* The pump: checks, moves and closes.
LEMMA SettleKeepsTyped ==
  ASSUME Typed, Settle
  PROVE  Typed' /\ Quiet
  <1>1. ASSUME DrainAsync \/ PassEnds \/ PassTakes \/ PassDrops PROVE Typed' /\ Quiet
    <2>1. UNCHANGED <<file, newest, dump, session, buf, pane, focus, op>>
      BY <1>1 DEF DrainAsync, PassEnds, PassTakes, PassDrops, files, panes
    <2>2. Typed'
      BY <2>1 DEF Typed, FocusedBuffer
    <2> QED BY <2>1, <2>2 DEF Quiet, Same
  <1>2. ASSUME RunCall PROVE Typed' /\ Quiet
    <2>1. UNCHANGED <<file, newest, dump, session, op>>
      BY <1>2 DEF RunCall, files
    <2>2. CASE MovePanes /\ UNCHANGED <<buf, confirm>>
      <3>1. Typed'
        BY <2>1, <2>2, MovesKeepPanes DEF Typed
      <3> QED BY <2>1, <2>2, <3>1 DEF Quiet, Same
    <2>3. ASSUME NEW b \in BufferId, CloseBuffer(b, FALSE) PROVE Typed' /\ Quiet
      <3>1. Typed'
        BY <2>1, <2>3, CloseKeepsPanes, CloseKeepsBuffers DEF Typed
      <3> QED BY <2>1, <2>3, <3>1, CloseKeepsBuffers DEF Quiet
    <2> QED BY <1>2, <2>2, <2>3 DEF RunCall
  <1>3. ASSUME NEW free \in BOOLEAN, RunGained(free) PROVE Typed' /\ Quiet
    <2>1. UNCHANGED <<file, newest, dump, session, pane, focus, op>>
      BY <1>3 DEF RunGained, files, panes
    <2>2. Check({b \in BufferId : Open(b)}, "ambient", confirm, free)
      BY <1>3 DEF RunGained, CheckAll
    <2>3. Typed'
      BY <2>1, <2>2, ChecksKeepBuffers DEF Typed, FocusedBuffer
    <2> QED BY <2>1, <2>2, <2>3, ChecksKeepBuffers DEF Quiet
  <1>4. ASSUME NEW free \in BOOLEAN, RunEnter(free) PROVE Typed' /\ Quiet
    <2>1. UNCHANGED <<file, newest, dump, session, pane, focus, op>>
      BY <1>4 DEF RunEnter, files, panes
    <2>2. EnterCheck(Head(batch).b, free) \/ buf' = buf
      BY <1>4 DEF RunEnter
    <2>3. buf' \in [BufferId -> BufferState] /\ \A b \in BufferId : Same(b)
      BY <2>2, EnterKeepsBuffers DEF Typed, Same
    <2>4. Typed'
      BY <2>1, <2>3 DEF Typed, FocusedBuffer
    <2> QED BY <2>1, <2>3, <2>4 DEF Quiet
  <1> QED BY <1>1, <1>2, <1>3, <1>4 DEF Settle

\* The first steps of saves and reloads: what they found is remembered in op.
LEMMA StartsKeepTyped ==
  ASSUME Typed,
         \/ \E force \in BOOLEAN : SaveStat(force)
         \/ InputReload \/ AnswerReload
  PROVE  /\ Typed'
         /\ UNCHANGED <<file, newest, buf>>
         /\ \/ op' = op
            \/ op'.kind = "rename" /\ op'.sig = 0
            \/ op'.kind = "read" /\ op'.sig # 0 /\ \E b \in BufferId : op'.sig = file[b]
  <1> DEFINE Ops == [kind : {"none", "rename", "restat", "read"},
                     b : BufferId \cup {NoBuffer}, sig : Nat, force : BOOLEAN]
             Shape == \/ op' = op
                      \/ op'.kind = "rename" /\ op'.sig = 0
                      \/ op'.kind = "read" /\ op'.sig # 0 /\ \E b \in BufferId : op'.sig = file[b]
  <1>1. UNCHANGED <<file, newest, dump, session, buf, pane, focus>>
    BY DEF SaveStat, InputReload, AnswerReload, files, panes
  <1>2. \/ op' = op
        \/ \E force \in BOOLEAN : \E b \in BufferId :
              op' = [kind |-> "rename", b |-> b, sig |-> 0, force |-> force]
        \/ \E b \in BufferId :
              file[b] # 0 /\ op' = [kind |-> "read", b |-> b, sig |-> file[b], force |-> FALSE]
    BY DEF SaveStat, InputReload, AnswerReload, StartReload, Typed
  <1>3. op' \in Ops /\ (op'.kind # "none" => op'.b \in BufferId) /\ Shape
    <2>1. CASE op' = op
      BY <2>1 DEF Typed
    <2>2. ASSUME NEW force \in BOOLEAN, NEW b \in BufferId,
                 op' = [kind |-> "rename", b |-> b, sig |-> 0, force |-> force]
          PROVE  op' \in Ops /\ (op'.kind # "none" => op'.b \in BufferId) /\ Shape
      BY <2>2
    <2>3. ASSUME NEW b \in BufferId, file[b] # 0,
                 op' = [kind |-> "read", b |-> b, sig |-> file[b], force |-> FALSE]
          PROVE  op' \in Ops /\ (op'.kind # "none" => op'.b \in BufferId) /\ Shape
      BY <2>3 DEF Typed
    <2> QED BY <1>2, <2>1, <2>2, <2>3
  <1>4. Typed'
    BY <1>1, <1>3 DEF Typed, FocusedBuffer
  <1> QED BY <1>1, <1>3, <1>4

\* The rename of the new content over the target.
Replaces ==
  /\ newest < MaxVersion /\ newest' = newest + 1
  /\ file' = [file EXCEPT ![op.b] = newest + 1]
  /\ op'.kind = "restat" /\ op'.b = op.b /\ op'.sig = newest + 1

\* A save's rename makes a new version, or fails and changes nothing.
LEMMA RenameKeepsTyped ==
  ASSUME Typed, SaveRename
  PROVE  Typed' /\ UNCHANGED buf /\ op.b \in BufferId /\ (Replaces \/ Quiet)
  <1>1. UNCHANGED <<dump, session, buf, pane, focus>>
    BY DEF SaveRename, panes
  <1>2. op.b \in BufferId
    BY DEF SaveRename, Typed
  <1>3. CASE /\ newest < MaxVersion /\ newest' = newest + 1
             /\ file' = [file EXCEPT ![op.b] = newest + 1]
             /\ op' = [op EXCEPT !.kind = "restat", !.sig = newest + 1]
    <2>1. newest' \in Nat /\ file' \in [BufferId -> Nat]
      <3>1. newest + 1 \in Nat /\ file \in [BufferId -> Nat]
        BY DEF Typed
      <3>2. newest' = newest + 1 /\ file' = [file EXCEPT ![op.b] = newest + 1]
        BY <1>3
      <3> QED BY <3>1, <3>2
    <2>2. op' \in [kind : {"none", "rename", "restat", "read"},
                   b : BufferId \cup {NoBuffer}, sig : Nat, force : BOOLEAN]
          /\ op'.b \in BufferId
      BY <1>2, <1>3, <2>1 DEF Typed
    <2>3. Typed'
      BY <1>1, <2>1, <2>2 DEF Typed, FocusedBuffer
    <2>4. op'.kind = "restat" /\ op'.sig = newest + 1 /\ op'.b = op.b
      BY <1>3 DEF Typed
    <2> QED BY <1>1, <1>2, <1>3, <2>3, <2>4 DEF Replaces
  <1>4. CASE op' = NoOp /\ UNCHANGED <<file, newest>>
    <2>1. Typed'
      BY <1>1, <1>4 DEF Typed, FocusedBuffer, NoOp
    <2> QED BY <1>1, <1>2, <1>4, <2>1 DEF Quiet, Same
  <1> QED BY <1>3, <1>4 DEF SaveRename

\* The buffer a save or reload leaves.
LEMMA SyncedIsTyped ==
  ASSUME Typed, NEW b \in BufferId, NEW base \in Nat, NEW content \in Nat
  PROVE  /\ Synced(b, base, content) \in BufferState
         /\ Synced(b, base, content).base = base
         /\ Synced(b, base, content).holds = content
  <1>1. buf[b] \in BufferState
    BY DEF Typed
  <1> QED BY <1>1 DEF BufferState, KnownState, Synced, InSync

\* The last step of a save or reload of b: the buffer is in sync, with the
\* signature and content found, or the save or reload failed.
Syncs(b, base, content) ==
  /\ UNCHANGED <<file, newest>>
  /\ op' = NoOp
  /\ buf' = buf \/ buf' = [buf EXCEPT ![b] = Synced(b, base, content)]

\* The signature of the file after a save of b.
Restatted(b) == IF file[b] = 0 THEN buf[b].base ELSE file[b]

\* A buffer in sync is of the right kinds.
LEMMA SyncsKeepTyped ==
  ASSUME Typed, NEW b \in BufferId, NEW base \in Nat, NEW content \in Nat,
         Syncs(b, base, content), UNCHANGED <<dump, session, pane, focus>>
  PROVE  Typed'
  <1>1. buf' \in [BufferId -> BufferState]
    <2>1. Synced(b, base, content) \in BufferState
      BY SyncedIsTyped
    <2>2. buf' = buf \/ buf' = [buf EXCEPT ![b] = Synced(b, base, content)]
      BY DEF Syncs
    <2> QED BY <2>1, <2>2 DEF Typed
  <1> QED BY <1>1 DEF Typed, Syncs, NoOp, FocusedBuffer

\* The stat after a rename.
LEMMA RestatKeepsTyped ==
  ASSUME Typed, SaveRestat
  PROVE  /\ Typed'
         /\ op.b \in BufferId /\ op.sig \in Nat /\ Restatted(op.b) \in Nat
         /\ Syncs(op.b, Restatted(op.b), op.sig)
  <1>1. UNCHANGED <<dump, session, pane, focus>>
    BY DEF SaveRestat, files, panes
  <1>2. op.b \in BufferId /\ op.sig \in Nat /\ buf[op.b] \in BufferState
    BY DEF SaveRestat, Typed
  <1>3. Restatted(op.b) \in Nat
    BY <1>2 DEF Typed, BufferState, Restatted
  <1>4. Syncs(op.b, Restatted(op.b), op.sig)
    BY DEF SaveRestat, Syncs, Restatted, files
  <1> QED BY <1>1, <1>2, <1>3, <1>4, SyncsKeepTyped

\* The read of a reload's content.
LEMMA ReadKeepsTyped ==
  ASSUME Typed, ReloadRead
  PROVE  /\ Typed'
         /\ op.b \in BufferId /\ op.sig \in Nat /\ file[op.b] \in Nat
         /\ Syncs(op.b, op.sig, file[op.b])
  <1>1. UNCHANGED <<dump, session, pane, focus>>
    BY DEF ReloadRead, files, panes
  <1>2. op.b \in BufferId /\ op.sig \in Nat /\ file[op.b] \in Nat
    BY DEF ReloadRead, Typed
  <1>3. Syncs(op.b, op.sig, file[op.b])
    BY DEF ReloadRead, Syncs, Reread, files
  <1> QED BY <1>1, <1>2, <1>3, SyncsKeepTyped

\* Another program makes v the version of the file of b.
BecomesVersion(b, v) ==
  /\ file' = [file EXCEPT ![b] = v]
  /\ \/ newest < MaxVersion /\ newest' = newest + 1 /\ v = newest + 1
     \/ newest' = newest /\ v = buf[b].holds
     \/ newest' = newest /\ v = 0

\* Another program makes a new version, restores that of the buffer's text,
\* or removes the file.
LEMMA ExternalKeepsTyped ==
  ASSUME Typed, NEW b \in BufferId, ExternalWrite(b)
  PROVE  /\ Typed'
         /\ UNCHANGED <<buf, op>>
         /\ op.kind = "restat" => RestatRaces
         /\ \E v \in Nat : BecomesVersion(b, v)
  <1>1. UNCHANGED <<dump, session, buf, pane, focus, op>> /\ (op.kind = "restat" => RestatRaces)
    BY DEF ExternalWrite, panes
  <1>2. PICK v \in Nat : BecomesVersion(b, v)
    <2>1. buf[b].holds \in Nat /\ newest \in Nat
      BY DEF Typed, BufferState
    <2>2. CASE newest < MaxVersion /\ newest' = newest + 1 /\ Replaced(b, newest + 1)
      <3>1. newest + 1 \in Nat
        BY <2>1
      <3>2. BecomesVersion(b, newest + 1)
        BY <2>2 DEF Replaced, BecomesVersion
      <3> QED BY <3>1, <3>2
    <2>3. CASE Replaced(b, buf[b].holds) /\ UNCHANGED newest
      BY <2>1, <2>3 DEF Replaced, BecomesVersion
    <2>4. CASE Replaced(b, 0) /\ UNCHANGED newest
      BY <2>4 DEF Replaced, BecomesVersion
    <2> QED BY <2>2, <2>3, <2>4 DEF ExternalWrite
  <1>3. newest' \in Nat /\ file' \in [BufferId -> Nat]
    BY <1>2 DEF Typed, BecomesVersion
  <1>4. Typed'
    BY <1>1, <1>3 DEF Typed, FocusedBuffer
  <1> QED BY <1>1, <1>2, <1>4

\* The end of the process: every buffer is read anew.
LEMMA RestartKeepsTyped ==
  ASSUME Typed, NEW abnormal \in BOOLEAN, Restart(abnormal)
  PROVE  Typed' /\ Quiet
  <1>1. UNCHANGED <<file, newest>> /\ op' = NoOp /\ session' = session + 1
    BY DEF Restart
  <1>2. dump' \in [BufferId -> Nat]
    BY DEF Restart, Typed
  <1>3. PICK p \in PaneId, first \in BufferId :
          /\ pane' = [[q \in PaneId |-> NoBuffer] EXCEPT ![p] = first]
          /\ focus' = p
    BY DEF Restart
  <1>4. buf' = [b \in BufferId |-> [Opened(b) EXCEPT !.pending_dump = dump'[b] # 0]]
    BY DEF Restart
  <1>5. \A b \in BufferId :
          /\ [Opened(b) EXCEPT !.pending_dump = dump'[b] # 0] \in BufferState
          /\ [Opened(b) EXCEPT !.pending_dump = dump'[b] # 0].base = file[b]
          /\ [Opened(b) EXCEPT !.pending_dump = dump'[b] # 0].holds = file[b]
    <2>1. \A b \in BufferId : Opened(b) \in BufferState
      BY OpenedIsTyped
    <2> QED BY <2>1 DEF BufferState, Opened
  <1>6. buf' \in [BufferId -> BufferState] /\ \A b \in BufferId : Fresh(b)
    BY <1>4, <1>5 DEF Fresh
  <1>7. Typed'
    <2>1. pane' \in [PaneId -> BufferId \cup {NoBuffer}] /\ focus' \in PaneId
          /\ FocusedBuffer' \in BufferId
      BY <1>3 DEF FocusedBuffer
    <2> QED BY <1>1, <1>2, <1>6, <2>1 DEF Typed, NoOp
  <1> QED BY <1>1, <1>6, <1>7 DEF Quiet

\* What a step may do to the files, and to what the buffers know of them.
LEMMA NextKeepsTyped ==
  ASSUME Typed, [Next]_vars
  PROVE  /\ Typed'
         /\ \/ Quiet
            \/ /\ UNCHANGED <<file, newest, buf>>
               /\ \/ op'.kind = "rename" /\ op'.sig = 0
                  \/ op'.kind = "read" /\ op'.sig # 0 /\ \E b \in BufferId : op'.sig = file[b]
            \/ op.b \in BufferId /\ UNCHANGED buf /\ Replaces
            \/ /\ op.kind = "restat" /\ op.b \in BufferId /\ op.sig \in Nat
               /\ Restatted(op.b) \in Nat /\ Syncs(op.b, Restatted(op.b), op.sig)
            \/ /\ op.kind = "read" /\ op.b \in BufferId /\ op.sig \in Nat
               /\ file[op.b] \in Nat /\ Syncs(op.b, op.sig, file[op.b])
            \/ /\ UNCHANGED <<buf, op>> /\ (op.kind = "restat" => RestatRaces)
               /\ \E b \in BufferId, v \in Nat : BecomesVersion(b, v)
  <1> DEFINE Goal ==
         /\ Typed'
         /\ \/ Quiet
            \/ /\ UNCHANGED <<file, newest, buf>>
               /\ \/ op'.kind = "rename" /\ op'.sig = 0
                  \/ op'.kind = "read" /\ op'.sig # 0 /\ \E b \in BufferId : op'.sig = file[b]
            \/ op.b \in BufferId /\ UNCHANGED buf /\ Replaces
            \/ /\ op.kind = "restat" /\ op.b \in BufferId /\ op.sig \in Nat
               /\ Restatted(op.b) \in Nat /\ Syncs(op.b, Restatted(op.b), op.sig)
            \/ /\ op.kind = "read" /\ op.b \in BufferId /\ op.sig \in Nat
               /\ file[op.b] \in Nat /\ Syncs(op.b, op.sig, file[op.b])
            \/ /\ UNCHANGED <<buf, op>> /\ (op.kind = "restat" => RestatRaces)
               /\ \E b \in BufferId, v \in Nat : BecomesVersion(b, v)
  <1>0. ASSUME \/ \E force \in BOOLEAN : SaveStat(force)
               \/ InputReload \/ AnswerReload
        PROVE  Goal
    <2>1. CASE op' = op
      BY <1>0, <2>1, StartsKeepTyped DEF Quiet, Same
    <2> QED BY <1>0, <2>1, StartsKeepTyped
  <1>1. ASSUME Inputs PROVE Goal
    BY <1>0, <1>1, DispatchKeepsTyped DEF Inputs
  <1>2. ASSUME Answers PROVE Goal
    BY <1>0, <1>2, AnswersKeepTyped DEF Answers
  <1>3. ASSUME FileSteps PROVE Goal
    <2>1. CASE SaveRename
      BY <2>1, RenameKeepsTyped
    <2>2. CASE SaveRestat
      BY <2>2, RestatKeepsTyped DEF SaveRestat
    <2>3. CASE ReloadRead
      BY <2>3, ReadKeepsTyped DEF ReloadRead
    <2> QED BY <1>3, <2>1, <2>2, <2>3 DEF FileSteps
  <1>4. ASSUME NEW b \in BufferId, ExternalWrite(b) PROVE Goal
    BY <1>4, ExternalKeepsTyped
  <1>5. ASSUME NEW abnormal \in BOOLEAN, Restart(abnormal) PROVE Goal
    BY <1>5, RestartKeepsTyped
  <1>6. CASE UNCHANGED vars
    <2>1. UNCHANGED <<file, newest, dump, session, buf, pane, focus, op>>
      BY <1>6 DEF vars, files, panes
    <2>2. Typed'
      BY <2>1 DEF Typed, FocusedBuffer
    <2> QED BY <2>1, <2>2 DEF Quiet, Same
  <1>7. ASSUME Settle PROVE Goal
    BY <1>7, SettleKeepsTyped
  <1> QED BY <1>1, <1>2, <1>3, <1>4, <1>5, <1>6, <1>7 DEF Next

-----------------------------------------------------------------------------
(* No version is taken for another *)

LEMMA NextKeepsMade ==
  ASSUME Typed, Made, [Next]_vars
  PROVE  Made'
  <1>0. ASSUME NEW b \in BufferId, NEW base \in Nat, NEW content \in Nat,
               buf' = [buf EXCEPT ![b] = Synced(b, base, content)]
        PROVE  buf'[b].base = base /\ buf'[b].holds = content
    <2>1. Synced(b, base, content).base = base /\ Synced(b, base, content).holds = content
      BY SyncedIsTyped
    <2>2. buf'[b] = Synced(b, base, content)
      BY <1>0 DEF Typed
    <2> QED BY <2>1, <2>2
  <1> USE DEF Typed, BufferState
  <1>1. CASE Quiet
    BY <1>1 DEF Made, Quiet, Same, Fresh, NoOp
  <1>2. CASE /\ UNCHANGED <<file, newest, buf>>
             /\ op'.sig = 0 \/ \E b \in BufferId : op'.sig = file[b]
    BY <1>2 DEF Made
  <1>3. CASE op.b \in BufferId /\ UNCHANGED buf /\ Replaces
    BY <1>3, DiskAssumption DEF Made, Replaces, DiskAssumption
  <1>4. ASSUME NEW b \in BufferId, NEW base \in Nat, NEW content \in Nat,
               base <= newest, content <= newest, Syncs(b, base, content)
        PROVE  Made'
    <2>1. CASE buf' = buf
      <3>1. op'.sig = 0 /\ newest' = newest /\ file' = file
        BY <1>4 DEF Syncs, NoOp
      <3> QED BY <2>1, <3>1 DEF Made
    <2>2. CASE buf' = [buf EXCEPT ![b] = Synced(b, base, content)]
      <3>1. buf'[b].base = base /\ buf'[b].holds = content
        BY <1>4, <2>2, <1>0
      <3>2. \A c \in BufferId \ {b} : buf'[c] = buf[c]
        BY <2>2
      <3> QED BY <1>4, <3>1, <3>2 DEF Made, Syncs, NoOp
    <2> QED BY <1>4, <2>1, <2>2 DEF Syncs
  <1>5. ASSUME op.b \in BufferId, Restatted(op.b) \in Nat, op.sig \in Nat,
               Syncs(op.b, Restatted(op.b), op.sig)
        PROVE  Made'
    <2>1. Restatted(op.b) <= newest /\ op.sig <= newest
      BY <1>5 DEF Made, Restatted
    <2> QED BY <1>4, <1>5, <2>1
  <1>6. ASSUME op.b \in BufferId, file[op.b] \in Nat, op.sig \in Nat,
               Syncs(op.b, op.sig, file[op.b])
        PROVE  Made'
    <2>1. file[op.b] <= newest /\ op.sig <= newest
      BY <1>6 DEF Made
    <2> QED BY <1>4, <1>6, <2>1
  <1>7. ASSUME NEW b \in BufferId, NEW v \in Nat, BecomesVersion(b, v), UNCHANGED <<buf, op>>
        PROVE  Made'
    BY <1>7, DiskAssumption DEF Made, BecomesVersion, DiskAssumption
  <1> QED BY <1>1, <1>2, <1>3, <1>5, <1>6, <1>7, NextKeepsTyped

LEMMA NextKeepsSound ==
  ASSUME ~RestatRaces, Sound, [Next]_vars
  PROVE  Sound'
  <1>0. Typed' /\ Made'
    BY NextKeepsTyped, NextKeepsMade DEF Sound
  <1> DEFINE Gone == \A b \in BufferId : SignatureGone(b)
  <1>1. CASE Quiet
    <2>1. OpSound'
      BY <1>1 DEF Sound, OpSound, Quiet, NoOp
    <2>2. Gone'
      BY <1>1 DEF Sound, SignatureGone, Quiet, Same, Fresh
    <2> QED BY <1>0, <2>1, <2>2 DEF Sound
  <1>2. CASE /\ UNCHANGED <<file, newest, buf>>
             /\ op'.kind = "rename" \/ (op'.kind = "read" /\ op'.sig # 0)
    BY <1>0, <1>2 DEF Sound, OpSound, SignatureGone
  <1>3. CASE op.b \in BufferId /\ UNCHANGED buf /\ Replaces
    <2>1. OpSound'
      BY <1>3 DEF Sound, Typed, OpSound, Replaces
    <2>2. Gone'
      BY <1>3 DEF Sound, Typed, BufferState, Made, SignatureGone, Replaces
    <2> QED BY <1>0, <2>1, <2>2 DEF Sound
  <1>4. ASSUME op.kind = "restat", op.b \in BufferId, op.sig \in Nat,
               Syncs(op.b, Restatted(op.b), op.sig)
        PROVE  Sound'
    <2>1. file[op.b] = op.sig /\ Restatted(op.b) = op.sig
      BY <1>4 DEF Sound, OpSound, Restatted
    <2>2. \A b \in BufferId : Same(b) \/ Fresh(b)
      <3>1. CASE buf' = buf
        BY <3>1 DEF Same
      <3>2. CASE buf' = [buf EXCEPT ![op.b] = Synced(op.b, op.sig, op.sig)]
        BY <1>4, <2>1, <3>2, SyncedIsTyped DEF Sound, Typed, Same, Fresh
      <3> QED BY <1>4, <2>1, <3>1, <3>2 DEF Syncs
    <2> QED BY <1>1, <1>4, <2>2 DEF Quiet, Syncs
  <1>5. ASSUME op.kind = "read", op.b \in BufferId, op.sig \in Nat, file[op.b] \in Nat,
               Syncs(op.b, op.sig, file[op.b])
        PROVE  Sound'
    <2>1. OpSound'
      BY <1>5 DEF OpSound, Syncs, NoOp
    <2>2. CASE buf' = buf
      BY <1>0, <1>5, <2>1, <2>2 DEF Sound, SignatureGone, Syncs
    <2>3. CASE buf' = [buf EXCEPT ![op.b] = Synced(op.b, op.sig, file[op.b])]
      <3>1. buf'[op.b].base = op.sig /\ buf'[op.b].holds = file[op.b]
        BY <1>5, <2>3, SyncedIsTyped DEF Sound, Typed
      <3>2. \A b \in BufferId \ {op.b} : buf'[b] = buf[b]
        BY <1>5, <2>3 DEF Sound, Typed
      <3>3. Gone'
        BY <1>5, <3>1, <3>2 DEF Sound, OpSound, SignatureGone, Syncs
      <3> QED BY <1>0, <2>1, <3>3 DEF Sound
    <2> QED BY <1>5, <2>2, <2>3 DEF Syncs
  <1>6. ASSUME NEW b \in BufferId, NEW v \in Nat, BecomesVersion(b, v),
               UNCHANGED <<buf, op>>, op.kind # "restat"
        PROVE  Sound'
    <2>1. OpSound'
      BY <1>6 DEF Sound, OpSound
    <2>2. Gone'
      BY <1>6 DEF Sound, Typed, BufferState, Made, SignatureGone, BecomesVersion
    <2> QED BY <1>0, <2>1, <2>2 DEF Sound
  <1> QED BY <1>1, <1>2, <1>3, <1>4, <1>5, <1>6, NextKeepsTyped DEF Sound

\* The invariant holds in every run without a write inside a save.
THEOREM SoundAlways ==
  ASSUME ~RestatRaces
  PROVE  Spec => []Sound
  <1>1. Init => Sound
    <2> SUFFICES ASSUME Init PROVE Sound
      OBVIOUS
    <2>1. newest = 1 /\ op.sig = 0 /\ op.kind = "none"
      BY DEF Init, NoOp
    <2>2. \A b \in BufferId : file[b] \in {0, 1}
      BY DEF Init
    <2>3. Typed /\ \A b \in BufferId : buf[b].base = file[b] /\ buf[b].holds = file[b]
      BY InitIsTyped
    <2>4. Made
      BY <2>1, <2>2, <2>3, DiskAssumption DEF DiskAssumption, Made
    <2> QED BY <2>1, <2>3, <2>4 DEF Sound, OpSound, SignatureGone
  <1>2. Sound /\ [Next]_vars => Sound'
    BY NextKeepsSound
  <1> QED BY <1>1, <1>2, PTL DEF Spec

\* While a buffer's signature is the file's, its text came from that very
\* version: no check_buffer_disk_state takes another program's version for the
\* buffer's own.
THEOREM NoMissedChangeAlways ==
  ASSUME ~RestatRaces
  PROVE  Spec => []NoMissedChange
  <1>1. Sound => NoMissedChange
    BY DEF Sound, SignatureGone, NoMissedChange
  <1> QED BY <1>1, SoundAlways, PTL

\* Only a save's first step starts a replacement.
LEMMA OnlySaveStarts ==
  ASSUME Typed, Next, op.kind = "none", op'.kind = "rename"
  PROVE  \E force \in BOOLEAN : SaveStat(force)
  <1>1. ~ (InputReload \/ AnswerReload)
    <2>1. ~ StartReload(FocusedBuffer)
      <3>1. CASE op' = [kind |-> "read", b |-> FocusedBuffer, sig |-> file[FocusedBuffer],
                        force |-> FALSE]
        <4>1. op'.kind = "read"
          BY <3>1
        <4> QED BY <4>1
      <3>2. CASE op' = op
        BY <3>2
      <3> QED BY <3>1, <3>2 DEF StartReload
    <2> QED BY <2>1 DEF InputReload, AnswerReload
  <1>2. op' # op
    OBVIOUS
  <1>3. op' # NoOp
    BY DEF NoOp
  <1>4. ~ FileSteps
    BY <1>3 DEF FileSteps, SaveRename, SaveRestat, ReloadRead
  <1>5. ~ Settle
    BY <1>2 DEF Settle, DrainAsync, PassEnds, PassTakes, PassDrops, RunCall, RunGained, RunEnter
  <1>6. ~ (\/ AnswerUnfocused \/ AnswerDecline \/ AnswerRestore
           \/ AnswerRestoreCloses \/ AnswerDiscard \/ AnswerKeepDump)
    BY <1>2 DEF AnswerUnfocused, AnswerDecline, AnswerRestore, AnswerRestoreCloses,
                AnswerDiscard, AnswerKeepDump
  <1>7. ~ (\/ \E logs \in BOOLEAN : InputMove(logs)
           \/ InputEdit \/ InputFocusGained \/ Wake
           \/ \E b \in BufferId : InputOpen(b) \/ \E force \in BOOLEAN : InputClose(b, force)
           \/ \E free \in BOOLEAN : InputChecktime(free))
    BY <1>2 DEF InputMove, InputEdit, InputFocusGained, Wake, InputOpen, InputClose, InputChecktime
  <1>8. ~ (\/ \E b \in BufferId : ExternalWrite(b)
           \/ \E abnormal \in BOOLEAN : Restart(abnormal))
    BY <1>2, <1>3 DEF ExternalWrite, Restart
  <1> QED BY <1>1, <1>4, <1>5, <1>6, <1>7, <1>8 DEF Next, Inputs, Answers

\* An unforced save (write_to) replaces only the version the buffer's text came
\* from, or a file that is not there.
THEOREM SavesKnowTheirFileAlways ==
  ASSUME ~RestatRaces
  PROVE  Spec => SavesKnowTheirFile
  <1>1. ASSUME Sound, [Next]_vars
        PROVE  [op.kind = "none" /\ op'.kind = "rename" /\ ~op'.force =>
                  file[op'.b] \in {0, buf[op'.b].holds}]_vars
    <2> SUFFICES ASSUME Next, op.kind = "none", op'.kind = "rename", ~op'.force
                 PROVE  file[op'.b] \in {0, buf[op'.b].holds}
      BY <1>1
    <2>1. PICK force \in BOOLEAN : SaveStat(force)
      BY <1>1, OnlySaveStarts DEF Sound
    <2>2. /\ SaveAllowed(FocusedBuffer, force)
          /\ op' = [kind |-> "rename", b |-> FocusedBuffer, sig |-> 0, force |-> force]
      BY <2>1 DEF SaveStat
    <2>3. file[op'.b] \in {0, buf[op'.b].base} /\ op'.b \in BufferId
      BY <1>1, <2>2 DEF SaveAllowed, Sound, Typed
    <2> QED BY <1>1, <2>3 DEF Sound, SignatureGone
  <1> QED BY <1>1, SoundAlways, PTL DEF Spec, SavesKnowTheirFile
-----------------------------------------------------------------------------
(* What a step does to buffers, dumps, panes and the accounts of them *)

\* A save or reload leaves b with another signature and text.
SyncedSomehow(b) ==
  /\ \E base, content \in Nat : buf' = [buf EXCEPT ![b] = Synced(b, base, content)]
  /\ ghost' = Settled(b)

Effect ==
  \/ UNCHANGED <<buf, dump, ghost>> /\ (MovePanes \/ UNCHANGED panes)
  \/ InputEdit
  \/ \E b \in BufferId : InputOpen(b)
  \/ UNCHANGED dump /\ \E b \in BufferId, force \in BOOLEAN : CloseBuffer(b, force)
  \/ UNCHANGED <<dump, panes>> /\ \E S, trigger, open, free : Check(S, trigger, open, free)
  \/ UNCHANGED <<dump, panes>> /\ \E e, free : EnterCheck(e, free)
  \/ UNCHANGED <<dump, panes>> /\ \E b \in BufferId : SyncedSomehow(b)
  \/ AnswerDecline \/ AnswerRestore \/ AnswerDiscard \/ AnswerKeepDump
  \/ \E abnormal \in BOOLEAN : Restart(abnormal)

\* Every step has one of these effects.
LEMMA NextHasEffect ==
  ASSUME Typed, [Next]_vars
  PROVE  Effect
  <1>1. ASSUME Inputs PROVE Effect
    <2>1. ASSUME NEW logs \in BOOLEAN, InputMove(logs) PROVE Effect
      BY <2>1 DEF InputMove, Effect, files
    <2>2. ASSUME InputFocusGained \/ InputReload \/ Wake \/ \E force \in BOOLEAN : SaveStat(force)
          PROVE  Effect
      BY <2>2 DEF InputFocusGained, InputReload, Wake, SaveStat, Effect, files
    <2>3. ASSUME NEW b \in BufferId, NEW force \in BOOLEAN, InputClose(b, force) PROVE Effect
      BY <2>3 DEF InputClose, Effect, files
    <2>4. ASSUME NEW free \in BOOLEAN, InputChecktime(free) PROVE Effect
      BY <2>4 DEF InputChecktime, CheckAll, Effect, files
    <2> QED BY <1>1, <2>1, <2>2, <2>3, <2>4 DEF Inputs, Effect
  <1>2. ASSUME Answers PROVE Effect
    <2>1. ASSUME AnswerUnfocused \/ AnswerReload PROVE Effect
      BY <2>1 DEF AnswerUnfocused, AnswerReload, Effect, files
    <2>2. ASSUME AnswerRestoreCloses PROVE Effect
      <3>1. dump' = dump
        BY <2>2 DEF AnswerRestoreCloses, DumpAfterClose, Typed
      <3>2. FocusedBuffer \in BufferId /\ CloseBuffer(FocusedBuffer, TRUE)
        BY <2>2 DEF AnswerRestoreCloses, Typed
      <3> QED BY <3>1, <3>2 DEF Effect
    <2> QED BY <1>2, <2>1, <2>2 DEF Answers, Effect
  <1>3. ASSUME FileSteps PROVE Effect
    <2>1. ASSUME SaveRename PROVE Effect
      BY <2>1 DEF SaveRename, Effect
    <2>2. ASSUME SaveRestat PROVE Effect
      <3>1. UNCHANGED <<dump, panes>> /\ op.b \in BufferId
        BY <2>2 DEF SaveRestat, files, Typed
      <3>2. op.sig \in Nat /\ file[op.b] \in Nat /\ buf[op.b].base \in Nat
        BY <3>1 DEF Typed, BufferState
      <3>3. CASE UNCHANGED <<buf, ghost>>
        BY <3>1, <3>3 DEF Effect
      <3>4. CASE SyncedSomehow(op.b)
        BY <3>1, <3>4 DEF Effect
      <3> QED BY <2>2, <3>2, <3>3, <3>4 DEF SaveRestat, SyncedSomehow
    <2>3. ASSUME ReloadRead PROVE Effect
      <3>1. UNCHANGED <<dump, panes>> /\ op.b \in BufferId
        BY <2>3 DEF ReloadRead, files, Typed
      <3>2. op.sig \in Nat /\ file[op.b] \in Nat
        BY <3>1 DEF Typed
      <3>3. CASE UNCHANGED <<buf, ghost>>
        BY <3>1, <3>3 DEF Effect
      <3>4. CASE SyncedSomehow(op.b)
        BY <3>1, <3>4 DEF Effect
      <3> QED BY <2>3, <3>2, <3>3, <3>4 DEF ReloadRead, Reread, SyncedSomehow
    <2> QED BY <1>3, <2>1, <2>2, <2>3 DEF FileSteps
  <1>4. ASSUME Settle PROVE Effect
    <2>1. ASSUME DrainAsync \/ PassEnds \/ PassTakes \/ PassDrops PROVE Effect
      BY <2>1 DEF DrainAsync, PassEnds, PassTakes, PassDrops, Effect, files
    <2>2. ASSUME RunCall PROVE Effect
      BY <2>2 DEF RunCall, Effect, files
    <2>3. ASSUME NEW free \in BOOLEAN, RunGained(free) PROVE Effect
      BY <2>3 DEF RunGained, CheckAll, Effect, files
    <2>4. ASSUME NEW free \in BOOLEAN, RunEnter(free) PROVE Effect
      BY <2>4 DEF RunEnter, Effect, files
    <2> QED BY <1>4, <2>1, <2>2, <2>3, <2>4 DEF Settle
  <1>5. ASSUME NEW b \in BufferId, ExternalWrite(b) PROVE Effect
    BY <1>5 DEF ExternalWrite, Effect
  <1>6. CASE UNCHANGED vars
    BY <1>6 DEF vars, files, Effect
  <1> QED BY <1>1, <1>2, <1>3, <1>4, <1>5, <1>6 DEF Next, Effect
-----------------------------------------------------------------------------
(* What the user was told *)

Accounts == ghost \in [BufferId -> [told : Int, kept : Nat, owed : Nat]]

\* A change on record is one the user was told of.
ToldOf(b) ==
  buf[b].state.kind \in {"changed", "declined"} => ghost[b].told = buf[b].state.sig

Told == Accounts /\ \A b \in BufferId : ToldOf(b)

\* The ways a step may leave what is on record of b: nothing of a change, as it
\* was but for an answer, or as a check found it.
NoReport(b)   == buf'[b].state.kind \notin {"changed", "declined"}
SameReport(b) == /\ buf'[b].state \in {buf[b].state, DeclinedState(buf[b].state)}
                 /\ ghost'[b].told = ghost[b].told
CheckedBy(b, trigger, permit) ==
  /\ buf'[b].state = CheckedState(b)
  /\ ghost'[b].told = IF Tells(b, trigger, permit) THEN file[b] ELSE ghost[b].told

\* A check that records a change tells of it, or it is on record already.
LEMMA ChecksTell ==
  ASSUME Typed, Told, NEW b \in BufferId, NEW trigger, NEW permit, CheckedBy(b, trigger, permit)
  PROVE  ToldOf(b)'
  <1>1. file[b] \in Nat /\ buf[b].base \in Nat /\ buf[b].state \in KnownState /\ ToldOf(b)
    BY DEF Typed, BufferState, Told
  <1>2. CASE DiskChange(b) = "indeterminate"
    BY <1>1, <1>2 DEF CheckedBy, CheckedState, Tells, Prompts, ToldOf
  <1>3. CASE DiskChange(b) = "vanished"
    BY <1>3 DEF CheckedBy, CheckedState, Vanished, ToldOf
  <1>4. CASE DiskChange(b) = "unchanged"
    BY <1>4 DEF CheckedBy, CheckedState, InSync, ToldOf
  <1>5. CASE DiskChange(b) = "changed"
    <2>1. file[b] # 0
      BY <1>5 DEF DiskChange
    <2>2. CASE AlreadyDeclined(b)
      BY <1>1, <1>5, <2>2 DEF CheckedBy, CheckedState, AlreadyDeclined, Declined, ToldOf
    <2>3. CASE ~AlreadyDeclined(b) /\ AlreadyReported(b)
      BY <1>1, <1>5, <2>1, <2>3
         DEF CheckedBy, CheckedState, AlreadyReported, Changed, ToldOf
    <2>4. CASE ~AlreadyDeclined(b) /\ ~AlreadyReported(b)
      <3>1. Tells(b, trigger, permit)
        BY <1>5, <2>4 DEF Tells
      <3> QED BY <1>5, <2>4, <3>1 DEF CheckedBy, CheckedState, Changed, ToldOf
    <2> QED BY <2>2, <2>3, <2>4
  <1> QED BY <1>2, <1>3, <1>4, <1>5 DEF DiskChange

\* The three ways keep what the user was told.
LEMMA ReportsKeepTold ==
  ASSUME Typed, Told, Accounts',
         \A b \in BufferId : \/ NoReport(b) \/ SameReport(b)
                             \/ \E trigger, permit : CheckedBy(b, trigger, permit)
  PROVE  Told'
  <1> SUFFICES ASSUME NEW b \in BufferId PROVE ToldOf(b)'
    BY DEF Told
  <1>1. CASE NoReport(b)
    BY <1>1 DEF NoReport, ToldOf
  <1>2. CASE SameReport(b)
    <2>1. buf[b].state \in KnownState /\ ToldOf(b)
      BY DEF Typed, BufferState, Told
    <2> QED BY <1>2, <2>1 DEF SameReport, DeclinedState, Declined, ToldOf
  <1>3. CASE \E trigger, permit : CheckedBy(b, trigger, permit)
    BY <1>3, ChecksTell
  <1> QED BY <1>1, <1>2, <1>3

\* A step of one buffer at most, which leaves the account of what was told.
LEMMA OneReport ==
  ASSUME Typed, Told, Accounts', NEW b,
         \A c \in BufferId : ghost'[c].told = ghost[c].told,
         \A c \in BufferId \ {b} : buf'[c].state = buf[c].state,
         b \in BufferId => NoReport(b) \/ buf'[b].state \in {buf[b].state, DeclinedState(buf[b].state)}
  PROVE  Told'
  BY ReportsKeepTold DEF SameReport

\* Several buffers are checked.
LEMMA CheckKeepsTold ==
  ASSUME Typed, Told, NEW S, NEW trigger, NEW open, NEW free, Check(S, trigger, open, free)
  PROVE  Told'
  <1> DEFINE permit(b) == Permit(b, trigger, open, free)
  <1>1. /\ buf' = [b \in BufferId |-> IF b \in S THEN [buf[b] EXCEPT !.state = CheckedState(b)]
                                      ELSE buf[b]]
        /\ ghost' = [b \in BufferId |->
             IF b \in S
               THEN [ghost[b] EXCEPT !.told = IF Tells(b, trigger, permit(b)) THEN file[b] ELSE @]
               ELSE ghost[b]]
    BY DEF Check
  <1>2. \A b \in BufferId : file[b] \in Nat /\ buf[b] \in BufferState
                            /\ ghost[b] \in [told : Int, kept : Nat, owed : Nat]
    BY DEF Typed, Told, Accounts
  <1> HIDE DEF permit
  <1>3. Accounts'
    BY <1>1, <1>2 DEF Accounts
  <1>4. \A b \in BufferId : SameReport(b) \/ CheckedBy(b, trigger, permit(b))
    BY <1>1, <1>2 DEF SameReport, CheckedBy, BufferState
  <1> QED BY <1>3, <1>4, ReportsKeepTold

\* The buffer that was entered is checked.
LEMMA EnterKeepsTold ==
  ASSUME Typed, Told, NEW e, NEW free, EnterCheck(e, free)
  PROVE  Told'
  <1>1. PICK permit : ghost' = [ghost EXCEPT ![e].told = IF Tells(e, "enter", permit) THEN file[e] ELSE @]
    BY DEF EnterCheck
  <1>2. PICK p \in BOOLEAN :
          buf' = [buf EXCEPT ![e].state = CheckedState(e), ![e].pending_dump = @ /\ p]
    BY DEF EnterCheck
  <1>3. \A b \in BufferId : file[b] \in Nat /\ buf[b] \in BufferState
                            /\ ghost[b] \in [told : Int, kept : Nat, owed : Nat]
    BY DEF Typed, Told, Accounts
  <1>4. Accounts'
    <2>1. CASE e \notin BufferId
      BY <1>1, <2>1 DEF Accounts, Told
    <2>2. CASE e \in BufferId
      <3> DEFINE t == IF Tells(e, "enter", permit) THEN file[e] ELSE ghost[e].told
      <3>1. t \in Int /\ ghost' = [ghost EXCEPT ![e].told = t]
        BY <1>1, <1>3, <2>2
      <3> QED BY <2>2, <3>1 DEF Accounts, Told
    <2> QED BY <2>1, <2>2
  <1>5. ASSUME NEW b \in BufferId, b # e PROVE SameReport(b)
    BY <1>1, <1>2, <1>5 DEF SameReport, Typed, Told, Accounts
  <1>6. ASSUME e \in BufferId PROVE CheckedBy(e, "enter", permit)
    <2>1. ghost'[e].told = IF Tells(e, "enter", permit) THEN file[e] ELSE ghost[e].told
      BY <1>1, <1>3, <1>6 DEF Told, Accounts
    <2>2. buf'[e].state = CheckedState(e)
      BY <1>2, <1>3, <1>6 DEF Typed, BufferState
    <2> QED BY <2>1, <2>2 DEF CheckedBy
  <1> QED BY <1>4, <1>5, <1>6, ReportsKeepTold

\* What the user was told of each buffer stays on record.
LEMMA NextKeepsTold ==
  ASSUME Typed, Told, [Next]_vars
  PROVE  Told'
  <1>0. /\ \A b \in BufferId : /\ buf[b] \in BufferState /\ dump[b] \in Nat
                               /\ ghost[b] \in [told : Int, kept : Nat, owed : Nat]
        /\ FocusedBuffer \in BufferId /\ Accounts
    BY DEF Typed, Told, Accounts
  <1>1. ASSUME UNCHANGED <<buf, dump, ghost>> PROVE Told'
    BY <1>1 DEF Told, Accounts, ToldOf
  <1>2. ASSUME InputEdit PROVE Told'
    <2>1. UNCHANGED ghost /\ buf' = [buf EXCEPT ![FocusedBuffer].dirty = TRUE]
      BY <1>2 DEF InputEdit
    <2>2. \A b \in BufferId : SameReport(b)
      BY <1>0, <2>1 DEF SameReport, Typed, BufferState
    <2> QED BY <2>1, <2>2, ReportsKeepTold DEF Told, Accounts
  <1>3. ASSUME NEW b \in BufferId, InputOpen(b) PROVE Told'
    <2>1. UNCHANGED ghost /\ buf' = [buf EXCEPT ![b] = Opened(b)]
      BY <1>3 DEF InputOpen
    <2>2. \A c \in BufferId \ {b} : SameReport(c)
      BY <2>1 DEF SameReport, Typed
    <2>3. NoReport(b)
      BY <2>1 DEF NoReport, Opened, InSync, Typed
    <2> QED BY <2>1, <2>2, <2>3, ReportsKeepTold DEF Told, Accounts
  <1>4. ASSUME NEW b \in BufferId, NEW force \in BOOLEAN, CloseBuffer(b, force) PROVE Told'
    <2>1. /\ buf' = [buf EXCEPT ![b] = [Opened(b) EXCEPT !.open = FALSE]]
          /\ ghost' = [ghost EXCEPT ![b].owed = IF buf[b].recovered = @ THEN 0 ELSE @]
      BY <1>4 DEF CloseBuffer
    <2>2. Accounts' /\ \A c \in BufferId : ghost'[c].told = ghost[c].told
      BY <1>0, <2>1 DEF Accounts
    <2>3. \A c \in BufferId \ {b} : SameReport(c)
      BY <2>1, <2>2 DEF SameReport, Typed
    <2>4. NoReport(b)
      BY <2>1 DEF NoReport, Opened, InSync, Typed
    <2> QED BY <2>2, <2>3, <2>4, ReportsKeepTold
  <1>5. ASSUME NEW b \in BufferId, SyncedSomehow(b) PROVE Told'
    <2>1. PICK base \in Nat, content \in Nat : buf' = [buf EXCEPT ![b] = Synced(b, base, content)]
      BY <1>5 DEF SyncedSomehow
    <2>2. ghost' = [ghost EXCEPT ![b].owed = IF buf[b].recovered = @ THEN 0 ELSE @]
      BY <1>5 DEF SyncedSomehow, Settled
    <2>3. Accounts' /\ \A c \in BufferId : ghost'[c].told = ghost[c].told
      BY <1>0, <2>2 DEF Accounts
    <2>4. \A c \in BufferId \ {b} : SameReport(c)
      BY <2>1, <2>3 DEF SameReport, Typed
    <2>5. NoReport(b)
      BY <1>0, <2>1 DEF NoReport, Synced, InSync, Typed, BufferState
    <2> QED BY <2>3, <2>4, <2>5, ReportsKeepTold
  <1>6. ASSUME AnswerDecline PROVE Told'
    <2>1. UNCHANGED ghost /\ buf' = [buf EXCEPT ![confirm.b].state = DeclinedState(@)]
      BY <1>6 DEF AnswerDecline
    <2>2. \A b \in BufferId : SameReport(b)
      BY <1>0, <2>1 DEF SameReport, Typed, BufferState
    <2> QED BY <2>1, <2>2, ReportsKeepTold DEF Told, Accounts
  <1>7. ASSUME AnswerRestore PROVE Told'
    <2> DEFINE f == FocusedBuffer
    <2>1. \/ UNCHANGED <<buf, ghost>>
          \/ UNCHANGED ghost /\ buf' = [buf EXCEPT ![f].pending_dump = FALSE]
          \/ /\ buf' = [buf EXCEPT ![f].dirty = TRUE, ![f].recovered = dump[f],
                                   ![f].pending_dump = FALSE]
             /\ ghost' = [ghost EXCEPT ![f].kept = 0]
      BY <1>7 DEF AnswerRestore
    <2> HIDE DEF f
    <2>2. Accounts' /\ \A c \in BufferId : ghost'[c].told = ghost[c].told
      BY <1>0, <2>1 DEF Accounts
    <2>3. \A c \in BufferId : buf'[c].state = buf[c].state
      BY <1>0, <2>1 DEF Typed, BufferState
    <2> QED BY <2>2, <2>3, ReportsKeepTold DEF SameReport
  <1>8. ASSUME AnswerDiscard \/ AnswerKeepDump PROVE Told'
    <2>1. buf' = [buf EXCEPT ![confirm.b].pending_dump = FALSE]
      BY <1>8 DEF AnswerDiscard, AnswerKeepDump
    <2>2. \/ ghost' = [ghost EXCEPT ![confirm.b].owed = 0, ![confirm.b].kept = 0]
          \/ ghost' = [ghost EXCEPT ![confirm.b].kept = dump[confirm.b]]
      BY <1>8 DEF AnswerDiscard, AnswerKeepDump
    <2>3. Accounts' /\ \A c \in BufferId : ghost'[c].told = ghost[c].told
      BY <1>0, <2>2 DEF Accounts
    <2>4. \A c \in BufferId : buf'[c].state = buf[c].state
      BY <1>0, <2>1 DEF Typed, BufferState
    <2> QED BY <2>3, <2>4, ReportsKeepTold DEF SameReport
  <1>9. ASSUME NEW abnormal \in BOOLEAN, Restart(abnormal) PROVE Told'
    <2>1. /\ buf' = [b \in BufferId |-> [Opened(b) EXCEPT !.pending_dump = dump'[b] # 0]]
          /\ ghost' = [b \in BufferId |->
               [ghost[b] EXCEPT !.told = -1,
                                !.owed = IF abnormal /\ Unsaved(b) THEN session
                                         ELSE IF dump[b] = @ THEN @ ELSE 0]]
      BY <1>9 DEF Restart
    <2>2. session \in Nat /\ -1 \in Int
      BY DEF Typed
    <2>3. Accounts'
      BY <1>0, <2>1, <2>2 DEF Accounts
    <2>4. \A b \in BufferId : NoReport(b)
      BY <2>1 DEF NoReport, Opened, InSync
    <2> QED BY <2>3, <2>4, ReportsKeepTold
  <1> QED BY <1>1, <1>2, <1>3, <1>4, <1>5, <1>6, <1>7, <1>8, <1>9,
             NextHasEffect, CheckKeepsTold, EnterKeepsTold DEF Effect

\* The account holds in every run: no assumption on the other programs.
THEOREM ToldAlways == Spec => [](Typed /\ Told)
  <1>1. Init => Typed /\ Told
    <2> SUFFICES ASSUME Init PROVE Told
      BY InitIsTyped
    <2>1. ghost = [b \in BufferId |-> [told |-> -1, kept |-> 0, owed |-> 0]]
      BY DEF Init
    <2>2. -1 \in Int
      OBVIOUS
    <2>3. \A b \in BufferId : buf[b].state = InSync
      BY DEF Init, Opened
    <2> QED BY <2>1, <2>2, <2>3 DEF Told, Accounts, ToldOf, InSync
  <1>2. Typed /\ Told /\ [Next]_vars => (Typed /\ Told)'
    BY NextKeepsTyped, NextKeepsTold
  <1> QED BY <1>1, <1>2, PTL DEF Spec

\* A declined version is one the user was told of (decline_disk_change), in
\* any order of checks, prompts, writes and restarts, the writes that race a
\* save's stat included.
THEOREM NoUnseenDeclineAlways == Spec => []NoUnseenDecline
  <1>1. Told => NoUnseenDecline
    BY DEF Told, ToldOf, NoUnseenDecline
  <1> QED BY <1>1, ToldAlways, PTL
-----------------------------------------------------------------------------
(* What the user is owed from a crash *)

\* Panes show open buffers.
Shown == \A p \in PaneId : pane[p] = NoBuffer \/ Open(pane[p])

\* The text a crash dumped is in the dump, or in the buffer it was restored to,
\* whose dump is gone then: no later dump stands where it stood.
OwedOf(b) ==
  ghost[b].owed # 0 =>
    \/ dump[b] = ghost[b].owed
    \/ Open(b) /\ buf[b].dirty /\ buf[b].recovered = ghost[b].owed /\ dump[b] = 0

Owed == Shown /\ \A b \in BufferId : OwedOf(b)

\* The ways a step may leave what is owed of b: as it was in a buffer that
\* stays open or was closed, given up with its buffer, paid or dumped.
SameDebt(b) ==
  /\ dump'[b] = dump[b] /\ ghost'[b].owed = ghost[b].owed
  /\ buf'[b].recovered = buf[b].recovered /\ buf'[b].open = buf[b].open
  /\ buf'[b].dirty \in {buf[b].dirty, TRUE}
Unopened(b) == dump'[b] = dump[b] /\ ghost'[b].owed = ghost[b].owed /\ ~Open(b)
GivenUp(b) ==
  /\ dump'[b] = dump[b]
  /\ ghost'[b].owed = IF buf[b].recovered = ghost[b].owed THEN 0 ELSE ghost[b].owed
Restored(b) ==
  /\ Open(b) /\ dump[b] # 0 /\ dump'[b] = 0 /\ ghost'[b].owed = ghost[b].owed
  /\ buf'[b].recovered = dump[b] /\ buf'[b].open = buf[b].open /\ buf'[b].dirty
Paid(b) == ghost'[b].owed = 0 \/ ghost'[b].owed = dump'[b]

\* The five ways keep what is owed.
LEMMA DebtsAreKept ==
  ASSUME Typed, NEW b \in BufferId, OwedOf(b),
         SameDebt(b) \/ Unopened(b) \/ GivenUp(b) \/ Restored(b) \/ Paid(b)
  PROVE  OwedOf(b)'
  <1>1. CASE SameDebt(b)
    BY <1>1 DEF SameDebt, OwedOf, Open
  <1>2. CASE Unopened(b)
    BY <1>2 DEF Unopened, OwedOf, Open
  <1>3. CASE GivenUp(b)
    BY <1>3 DEF GivenUp, OwedOf, Open
  <1>4. CASE Restored(b)
    BY <1>4 DEF Restored, OwedOf, Open
  <1>5. CASE Paid(b)
    BY <1>5 DEF Paid, OwedOf
  <1> QED BY <1>1, <1>2, <1>3, <1>4, <1>5

\* Every move of panes shows buffers that are open.
LEMMA MovesKeepShown ==
  ASSUME Typed, Shown, MovePanes, \A b \in BufferId : buf'[b].open = buf[b].open
  PROVE  Shown'
  <1>1. PICK m \in PaneMoves : pane' = m[1]
    BY DEF MovePanes
  <1>2. FocusedBuffer \in BufferId /\ Open(FocusedBuffer)
    <2>1. pane[focus] # NoBuffer
      BY DiskAssumption DEF Typed, FocusedBuffer, DiskAssumption
    <2> QED BY <2>1 DEF Typed, Shown, FocusedBuffer
  <1>3. \A p \in PaneId : pane'[p] \in BufferId \cup {NoBuffer}
                          /\ (pane'[p] = NoBuffer \/ Open(pane'[p]))
    <2> DEFINE shown == {p \in PaneId : pane[p] # NoBuffer}
    <2>1. CASE m \in {<<pane, p>> : p \in shown}
      BY <1>1, <2>1 DEF Typed, Shown
    <2>2. CASE m \in {<<[pane EXCEPT ![p] = b], focus>> : p \in shown, b \in {c \in BufferId : Open(c)}}
      BY <1>1, <2>2 DEF Typed, Shown
    <2>3. CASE m \in {<<[pane EXCEPT ![p] = FocusedBuffer], p>> : p \in PaneId \ shown}
      BY <1>1, <1>2, <2>3 DEF Typed, Shown
    <2>4. CASE m \in {<<[pane EXCEPT ![focus] = NoBuffer], p>> : p \in shown \ {focus}}
      BY <1>1, <2>4 DEF Typed, Shown
    <2> QED BY <2>1, <2>2, <2>3, <2>4 DEF PaneMoves
  <1> QED BY <1>3 DEF Shown, Open

\* Panes go on showing open buffers: a buffer is opened before a pane shows it
\* and leaves every pane when it is closed.
LEMMA NextKeepsShown ==
  ASSUME Typed, Shown, [Next]_vars
  PROVE  Shown'
  <1>0. buf \in [BufferId -> BufferState] /\ FocusedBuffer \in BufferId
        /\ \A p \in PaneId : pane[p] \in BufferId \cup {NoBuffer}
    BY DEF Typed
  <1>1. ASSUME UNCHANGED panes, \A b \in BufferId : buf'[b].open = buf[b].open PROVE Shown'
    BY <1>0, <1>1 DEF Shown, Open, panes
  <1>2. ASSUME UNCHANGED <<buf, dump, ghost>>, MovePanes PROVE Shown'
    BY <1>2, MovesKeepShown
  <1>3. ASSUME InputEdit PROVE Shown'
    <2>1. UNCHANGED panes /\ buf' = [buf EXCEPT ![FocusedBuffer].dirty = TRUE]
      BY <1>3 DEF InputEdit
    <2> QED BY <1>0, <1>1, <2>1 DEF BufferState
  <1>4. ASSUME NEW b \in BufferId, InputOpen(b) PROVE Shown'
    <2>1. buf' = [buf EXCEPT ![b] = Opened(b)] /\ pane' = [pane EXCEPT ![focus] = b]
      BY <1>4 DEF InputOpen
    <2>2. Open(b)' /\ \A c \in BufferId \ {b} : buf'[c] = buf[c]
      BY <1>0, <2>1 DEF Opened, Open
    <2> QED BY <1>0, <2>1, <2>2 DEF Shown, Open, Typed
  <1>5. ASSUME NEW b \in BufferId, NEW force \in BOOLEAN, CloseBuffer(b, force) PROVE Shown'
    <2>1. PICK next \in BufferId \ {b} : Open(next) /\ pane' = Redirected(b, next)
      BY <1>5 DEF CloseBuffer
    <2>2. buf' = [buf EXCEPT ![b] = [Opened(b) EXCEPT !.open = FALSE]]
      BY <1>5 DEF CloseBuffer
    <2>3. \A c \in BufferId \ {b} : buf'[c] = buf[c]
      BY <1>0, <2>2
    <2>4. \A p \in PaneId : pane'[p] = IF pane[p] = b THEN next ELSE pane[p]
      BY <2>1 DEF Redirected
    <2> QED BY <1>0, <2>1, <2>3, <2>4 DEF Shown, Open
  <1>6. ASSUME UNCHANGED panes, NEW S, NEW trigger, NEW open, NEW free, Check(S, trigger, open, free)
        PROVE  Shown'
    <2>1. buf' = [b \in BufferId |-> IF b \in S THEN [buf[b] EXCEPT !.state = CheckedState(b)]
                                     ELSE buf[b]]
      BY <1>6 DEF Check
    <2> QED BY <1>0, <1>1, <1>6, <2>1 DEF BufferState
  <1>7. ASSUME UNCHANGED panes, NEW e, NEW free, EnterCheck(e, free) PROVE Shown'
    <2>1. PICK p \in BOOLEAN :
            buf' = [buf EXCEPT ![e].state = CheckedState(e), ![e].pending_dump = @ /\ p]
      BY <1>7 DEF EnterCheck
    <2> QED BY <1>0, <1>1, <1>7, <2>1 DEF BufferState
  <1>8. ASSUME UNCHANGED panes, NEW b \in BufferId, SyncedSomehow(b) PROVE Shown'
    <2>1. PICK base \in Nat, content \in Nat : buf' = [buf EXCEPT ![b] = Synced(b, base, content)]
      BY <1>8 DEF SyncedSomehow
    <2> QED BY <1>0, <1>1, <1>8, <2>1 DEF BufferState, Synced
  <1>9. ASSUME AnswerDecline \/ AnswerRestore \/ AnswerDiscard \/ AnswerKeepDump PROVE Shown'
    <2> DEFINE f == FocusedBuffer
    <2>1. \/ buf' = [buf EXCEPT ![confirm.b].state = DeclinedState(@)]
          \/ buf' = [buf EXCEPT ![confirm.b].pending_dump = FALSE]
          \/ buf' = buf
          \/ buf' = [buf EXCEPT ![f].pending_dump = FALSE]
          \/ buf' = [buf EXCEPT ![f].dirty = TRUE, ![f].recovered = dump[f],
                                ![f].pending_dump = FALSE]
      BY <1>9 DEF AnswerDecline, AnswerRestore, AnswerDiscard, AnswerKeepDump
    <2> HIDE DEF f
    <2>2. UNCHANGED panes
      BY <1>9 DEF AnswerDecline, AnswerRestore, AnswerDiscard, AnswerKeepDump
    <2>3. \A b \in BufferId : buf'[b].open = buf[b].open
      BY <1>0, <2>1 DEF BufferState
    <2> QED BY <1>1, <2>2, <2>3
  <1>10. ASSUME NEW abnormal \in BOOLEAN, Restart(abnormal) PROVE Shown'
    <2>1. buf' = [b \in BufferId |-> [Opened(b) EXCEPT !.pending_dump = dump'[b] # 0]]
      BY <1>10 DEF Restart
    <2>2. PICK first \in BufferId, p \in PaneId :
            pane' = [[q \in PaneId |-> NoBuffer] EXCEPT ![p] = first]
      BY <1>10 DEF Restart
    <2>3. \A b \in BufferId : Open(b)'
      BY <2>1 DEF Opened, Open
    <2> QED BY <2>2, <2>3 DEF Shown, Open
  <1> QED BY <1>1, <1>2, <1>3, <1>4, <1>5, <1>6, <1>7, <1>8, <1>9, <1>10, NextHasEffect DEF Effect

\* What is owed of each buffer is kept by every step.
LEMMA NextKeepsOwed ==
  ASSUME Typed, Accounts, Owed, [Next]_vars
  PROVE  Owed'
  <1>0. /\ \A b \in BufferId : /\ buf[b] \in BufferState /\ dump[b] \in Nat /\ OwedOf(b)
                               /\ ghost[b] \in [told : Int, kept : Nat, owed : Nat]
        /\ FocusedBuffer \in BufferId
        /\ buf \in [BufferId -> BufferState] /\ dump \in [BufferId -> Nat]
        /\ ghost \in [BufferId -> [told : Int, kept : Nat, owed : Nat]]
    BY DEF Typed, Owed, Accounts
  <1> DEFINE Accounted == \A b \in BufferId :
               SameDebt(b) \/ Unopened(b) \/ GivenUp(b) \/ Restored(b) \/ Paid(b)
  <1>1. ASSUME UNCHANGED <<buf, dump, ghost>> PROVE Accounted
    BY <1>1 DEF SameDebt
  <1>2. ASSUME InputEdit PROVE Accounted
    <2>1. UNCHANGED <<dump, ghost>> /\ buf' = [buf EXCEPT ![FocusedBuffer].dirty = TRUE]
      BY <1>2 DEF InputEdit, files
    <2> QED BY <1>0, <2>1 DEF SameDebt, BufferState
  <1>3. ASSUME NEW b \in BufferId, InputOpen(b) PROVE Accounted
    <2>1. UNCHANGED <<dump, ghost>> /\ buf' = [buf EXCEPT ![b] = Opened(b)] /\ ~Open(b)
      BY <1>3 DEF InputOpen, files
    <2>2. \A c \in BufferId \ {b} : SameDebt(c)
      BY <1>0, <2>1 DEF SameDebt
    <2> QED BY <2>1, <2>2 DEF Unopened
  <1>4. ASSUME UNCHANGED dump, NEW b \in BufferId, NEW force \in BOOLEAN, CloseBuffer(b, force)
        PROVE  Accounted
    <2>1. /\ buf' = [buf EXCEPT ![b] = [Opened(b) EXCEPT !.open = FALSE]]
          /\ ghost' = [ghost EXCEPT ![b].owed = IF buf[b].recovered = @ THEN 0 ELSE @]
      BY <1>4 DEF CloseBuffer
    <2>2. \A c \in BufferId \ {b} : SameDebt(c)
      BY <1>0, <1>4, <2>1 DEF SameDebt
    <2>3. GivenUp(b)
      BY <1>0, <1>4, <2>1 DEF GivenUp
    <2> QED BY <2>2, <2>3
  <1>5. ASSUME UNCHANGED dump, NEW b \in BufferId, SyncedSomehow(b) PROVE Accounted
    <2>1. PICK base \in Nat, content \in Nat : buf' = [buf EXCEPT ![b] = Synced(b, base, content)]
      BY <1>5 DEF SyncedSomehow
    <2>2. ghost' = [ghost EXCEPT ![b].owed = IF buf[b].recovered = @ THEN 0 ELSE @]
      BY <1>5 DEF SyncedSomehow, Settled
    <2>3. \A c \in BufferId \ {b} : SameDebt(c)
      BY <1>0, <1>5, <2>1, <2>2 DEF SameDebt
    <2>4. GivenUp(b)
      BY <1>0, <1>5, <2>2 DEF GivenUp
    <2> QED BY <2>3, <2>4
  <1>6. ASSUME UNCHANGED dump, NEW S, NEW trigger, NEW open, NEW free, Check(S, trigger, open, free)
        PROVE  Accounted
    <2> DEFINE permit(b) == Permit(b, trigger, open, free)
    <2>1. /\ buf' = [b \in BufferId |-> IF b \in S THEN [buf[b] EXCEPT !.state = CheckedState(b)]
                                        ELSE buf[b]]
          /\ ghost' = [b \in BufferId |->
               IF b \in S
                 THEN [ghost[b] EXCEPT !.told = IF Tells(b, trigger, permit(b)) THEN file[b] ELSE @]
                 ELSE ghost[b]]
      BY <1>6 DEF Check
    <2> HIDE DEF permit
    <2> QED BY <1>0, <1>6, <2>1 DEF SameDebt, BufferState
  <1>7. ASSUME UNCHANGED dump, NEW e, NEW free, EnterCheck(e, free) PROVE Accounted
    <2>1. PICK permit : ghost' = [ghost EXCEPT ![e].told = IF Tells(e, "enter", permit) THEN file[e] ELSE @]
      BY <1>7 DEF EnterCheck
    <2>2. PICK p \in BOOLEAN :
            buf' = [buf EXCEPT ![e].state = CheckedState(e), ![e].pending_dump = @ /\ p]
      BY <1>7 DEF EnterCheck
    <2>3. \A b \in BufferId : ghost'[b].owed = ghost[b].owed
      BY <1>0, <2>1
    <2>4. \A b \in BufferId : /\ buf'[b].recovered = buf[b].recovered /\ buf'[b].open = buf[b].open
                              /\ buf'[b].dirty = buf[b].dirty
      BY <1>0, <2>2 DEF BufferState
    <2> QED BY <1>7, <2>3, <2>4 DEF SameDebt
  <1>8. ASSUME AnswerDecline PROVE Accounted
    <2>1. /\ UNCHANGED <<dump, ghost>>
          /\ buf' = [buf EXCEPT ![confirm.b].state = DeclinedState(@)]
      BY <1>8 DEF AnswerDecline, files
    <2> QED BY <1>0, <2>1 DEF SameDebt, BufferState
  <1>9. ASSUME AnswerRestore PROVE Accounted
    <2> DEFINE f == FocusedBuffer
    <2>1. \/ UNCHANGED <<buf, dump, ghost>>
          \/ UNCHANGED <<dump, ghost>> /\ buf' = [buf EXCEPT ![f].pending_dump = FALSE]
          \/ /\ dump[f] # 0
             /\ buf' = [buf EXCEPT ![f].dirty = TRUE, ![f].recovered = dump[f],
                                   ![f].pending_dump = FALSE]
             /\ dump' = [dump EXCEPT ![f] = 0]
             /\ ghost' = [ghost EXCEPT ![f].kept = 0]
      BY <1>9 DEF AnswerRestore
    <2>2. Open(f)
      <3>1. pane[focus] # NoBuffer
        BY DiskAssumption DEF Typed, FocusedBuffer, DiskAssumption
      <3> QED BY <3>1 DEF Typed, Owed, Shown, FocusedBuffer
    <2>3. f \in BufferId
      BY <1>0
    <2> HIDE DEF f
    <2>4. CASE UNCHANGED <<buf, dump, ghost>>
      BY <1>1, <2>4
    <2>5. CASE UNCHANGED <<dump, ghost>> /\ buf' = [buf EXCEPT ![f].pending_dump = FALSE]
      BY <1>0, <2>5 DEF SameDebt, BufferState
    <2>6. CASE /\ dump[f] # 0
               /\ buf' = [buf EXCEPT ![f].dirty = TRUE, ![f].recovered = dump[f],
                                     ![f].pending_dump = FALSE]
               /\ dump' = [dump EXCEPT ![f] = 0]
               /\ ghost' = [ghost EXCEPT ![f].kept = 0]
      <3>1. \A b \in BufferId : ghost'[b].owed = ghost[b].owed
        BY <1>0, <2>6
      <3>2. \A b \in BufferId \ {f} : SameDebt(b)
        BY <1>0, <2>6, <3>1 DEF SameDebt
      <3>3. Restored(f)
        <4>1. dump'[f] = 0
          BY <1>0, <2>3, <2>6
        <4>2. buf'[f].recovered = dump[f] /\ buf'[f].open = buf[f].open /\ buf'[f].dirty
          BY <1>0, <2>3, <2>6 DEF BufferState
        <4> QED BY <2>2, <2>3, <2>6, <3>1, <4>1, <4>2 DEF Restored
      <3> QED BY <3>2, <3>3
    <2> QED BY <2>1, <2>4, <2>5, <2>6
  <1>10. ASSUME AnswerDiscard PROVE Accounted
    <2>1. /\ buf' = [buf EXCEPT ![confirm.b].pending_dump = FALSE]
          /\ dump' = [dump EXCEPT ![confirm.b] = 0]
          /\ ghost' = [ghost EXCEPT ![confirm.b].owed = 0, ![confirm.b].kept = 0]
      BY <1>10 DEF AnswerDiscard
    <2>2. \A b \in BufferId : b # confirm.b => SameDebt(b)
      BY <1>0, <2>1 DEF SameDebt, BufferState
    <2>3. \A b \in BufferId : b = confirm.b => Paid(b)
      BY <1>0, <2>1 DEF Paid
    <2> QED BY <2>2, <2>3
  <1>11. ASSUME AnswerKeepDump PROVE Accounted
    <2>1. /\ UNCHANGED dump
          /\ buf' = [buf EXCEPT ![confirm.b].pending_dump = FALSE]
          /\ ghost' = [ghost EXCEPT ![confirm.b].kept = dump[confirm.b]]
      BY <1>11 DEF AnswerKeepDump, files
    <2> QED BY <1>0, <2>1 DEF SameDebt, BufferState
  <1>12. ASSUME NEW abnormal \in BOOLEAN, Restart(abnormal) PROVE Accounted
    <2>1. /\ dump' = [b \in BufferId |-> IF abnormal /\ Unsaved(b) THEN session ELSE dump[b]]
          /\ ghost' = [b \in BufferId |->
               [ghost[b] EXCEPT !.told = -1,
                                !.owed = IF abnormal /\ Unsaved(b) THEN session
                                         ELSE IF dump[b] = @ THEN @ ELSE 0]]
      BY <1>12 DEF Restart
    <2>2. \A b \in BufferId : Paid(b)
      BY <1>0, <2>1 DEF Paid
    <2> QED BY <2>2
  <1>13. Accounted
    BY <1>1, <1>2, <1>3, <1>4, <1>5, <1>6, <1>7, <1>8, <1>9, <1>10, <1>11, <1>12,
       NextHasEffect DEF Effect
  <1>14. \A b \in BufferId : OwedOf(b)'
    BY <1>0, <1>13, DebtsAreKept
  <1> QED BY <1>14, NextKeepsShown DEF Owed

\* What is owed is kept in every run, whatever other programs write.
THEOREM OwedAlways == Spec => [](Typed /\ Told /\ Owed)
  <1>1. Init => Owed
    <2> SUFFICES ASSUME Init PROVE Owed
      OBVIOUS
    <2>1. \A b \in BufferId : Open(b) /\ ghost[b].owed = 0
      BY DEF Init, Opened, Open
    <2>2. Shown
      BY <2>1 DEF Init, Shown
    <2> QED BY <2>1, <2>2 DEF Owed, OwedOf
  <1>2. Typed /\ Told /\ Owed /\ [Next]_vars => Owed'
    BY NextKeepsOwed DEF Told
  <1> QED BY <1>1, <1>2, ToldAlways, PTL DEF Spec

\* Unsaved text that a crash dumped is never lost without the user's word: not
\* by a close, a reload, a plugin the restored text activates or another crash
\* (dump.rs, restore_dump).
THEOREM RecoveredTextIsKeptAlways == Spec => []RecoveredTextIsKept
  <1>1. Owed => RecoveredTextIsKept
    BY DEF Owed, OwedOf, RecoveredTextIsKept
  <1> QED BY <1>1, OwedAlways, PTL
-----------------------------------------------------------------------------
(* The pump's queues *)

Work == {Gained, Call} \cup {Enter(b, p) : b \in BufferId, p \in PaneId}

\* A focus event stands first in its queue, an enter last, about the buffer the
\* pump took as entered; nothing is queued while the loop waits, and a save or
\* reload is over before it settles.
Queued ==
  /\ pending_work \in Seq({Gained, Call})
  /\ \A i \in 1 .. Len(pending_work) : pending_work[i] = Gained => i = 1
  /\ batch \in Seq(Work)
  /\ \A i \in 1 .. Len(batch) : batch[i] = Gained => i = 1
  /\ \A i \in 1 .. Len(batch) :
       batch[i].what = "enter" => i = Len(batch) /\ batch[i].b = last_entered
  /\ phase \in {"input", "settle", "drain"}
  /\ phase = "input" => pending_work = << >>
  /\ phase = "settle" => pending_work \in {<< >>, <<Gained>>}
  /\ phase # "drain" => batch = << >>
  /\ op.kind # "none" => phase = "input"
  /\ drained \in 0 .. DrainCap

\* A dispatch, or a step of the save or reload it started, leaves the pump to
\* the settle that follows it.
Dispatches ==
  /\ phase = "input" /\ phase' \in {"input", "settle"}
  /\ UNCHANGED pump
  /\ op'.kind = "none" \/ phase' = "input"
  /\ phase' = "input" => UNCHANGED panes
  /\ \/ confirm' \in {NoConfirm, confirm}
     \/ confirm' = Reload(FocusedBuffer)

\* What a step may do to the pump.
Turn ==
  \/ UNCHANGED <<op, phase, panes, confirm, pump>>
  \/ Dispatches
  \/ InputFocusGained \/ DrainAsync \/ PassEnds \/ PassTakes \/ PassDrops \/ RunCall
  \/ \E free \in BOOLEAN : RunGained(free) \/ RunEnter(free)
  \/ \E abnormal \in BOOLEAN : Restart(abnormal)

\* Every step is one of these.
LEMMA NextTakesTurn ==
  ASSUME Typed, Queued, [Next]_vars
  PROVE  Turn
  <1> USE DEF Dispatches, AtInput, Dispatched
  <1>0. NoOp.kind = "none" /\ (op.kind # "none" => phase = "input")
    BY DEF NoOp, Queued
  <1>1. ASSUME Inputs PROVE Turn
    <2>1. ASSUME NEW logs \in BOOLEAN, InputMove(logs) PROVE Turn
      BY <1>0, <2>1 DEF InputMove, Input, Turn
    <2>2. ASSUME InputEdit \/ Wake PROVE Turn
      BY <1>0, <2>2 DEF InputEdit, Wake, Input, Turn
    <2>3. ASSUME NEW b \in BufferId, InputOpen(b) PROVE Turn
      BY <1>0, <2>3 DEF InputOpen, Input, Turn
    <2>4. ASSUME NEW b \in BufferId, NEW force \in BOOLEAN, InputClose(b, force) PROVE Turn
      BY <1>0, <2>4 DEF InputClose, CloseBuffer, Turn
    <2>5. ASSUME NEW free \in BOOLEAN, InputChecktime(free) PROVE Turn
      BY <1>0, <2>5 DEF InputChecktime, CheckAll, Turn
    <2>6. ASSUME NEW force \in BOOLEAN, SaveStat(force) PROVE Turn
      BY <1>0, <2>6 DEF SaveStat, Turn
    <2>7. ASSUME InputReload PROVE Turn
      BY <1>0, <2>7 DEF InputReload, StartReload, Turn
    <2> QED BY <1>1, <2>1, <2>2, <2>3, <2>4, <2>5, <2>6, <2>7 DEF Inputs, Turn
  <1>2. ASSUME Answers PROVE Turn
    <2>1. ASSUME AnswerUnfocused \/ AnswerDecline \/ AnswerDiscard \/ AnswerKeepDump PROVE Turn
      BY <1>0, <2>1 DEF AnswerUnfocused, AnswerDecline, AnswerDiscard, AnswerKeepDump, Turn
    <2>2. ASSUME AnswerReload PROVE Turn
      BY <1>0, <2>2 DEF AnswerReload, StartReload, Turn
    <2>3. ASSUME AnswerRestore PROVE Turn
      BY <1>0, <2>3 DEF AnswerRestore, Turn
    <2>4. ASSUME AnswerRestoreCloses PROVE Turn
      BY <1>0, <2>4 DEF AnswerRestoreCloses, CloseBuffer, Turn
    <2> QED BY <1>2, <2>1, <2>2, <2>3, <2>4 DEF Answers
  <1>3. ASSUME FileSteps PROVE Turn
    <2>1. ASSUME SaveRename PROVE Turn
      <3>1. phase = "input"
        BY <1>0, <2>1 DEF SaveRename
      <3> QED BY <1>0, <2>1, <3>1 DEF SaveRename, Turn
    <2>2. ASSUME SaveRestat PROVE Turn
      <3>1. phase = "input"
        BY <1>0, <2>2 DEF SaveRestat
      <3> QED BY <1>0, <2>2, <3>1 DEF SaveRestat, Turn
    <2>3. ASSUME ReloadRead PROVE Turn
      <3>1. phase = "input"
        BY <1>0, <2>3 DEF ReloadRead
      <3> QED BY <1>0, <2>3, <3>1 DEF ReloadRead, Turn
    <2> QED BY <1>3, <2>1, <2>2, <2>3 DEF FileSteps
  <1>4. ASSUME NEW b \in BufferId, ExternalWrite(b) PROVE Turn
    BY <1>4 DEF ExternalWrite, Turn
  <1>5. CASE UNCHANGED vars
    BY <1>5 DEF vars, Turn
  <1> QED BY <1>1, <1>2, <1>3, <1>4, <1>5 DEF Next, Settle, Turn

\* What is queued next: what is pending, then an enter if focus moved.
LEMMA DetectedWork ==
  ASSUME Typed, Queued
  PROVE  /\ Detected \in Seq(Work)
         /\ \A i \in 1 .. Len(Detected) : Detected[i] = Gained => i = 1
         /\ \A i \in 1 .. Len(Detected) :
              Detected[i].what = "enter" => i = Len(Detected) /\ Detected[i].b = FocusedBuffer
         /\ FocusedBuffer = last_entered => Detected = pending_work
         /\ FocusedBuffer # last_entered =>
              Len(Detected) > 0 /\ Detected[Len(Detected)] = Enter(FocusedBuffer, focus)
  <1> DEFINE e == Enter(FocusedBuffer, focus)
  <1>1. e \in Work /\ e.what = "enter" /\ e.b = FocusedBuffer /\ e # Gained
    BY DEF Typed, Work, Enter, Gained
  <1>2. /\ pending_work \in Seq(Work)
        /\ \A i \in 1 .. Len(pending_work) : pending_work[i].what # "enter"
    BY DEF Queued, Work, Gained, Call
  <1> HIDE DEF e
  <1>3. CASE FocusedBuffer = last_entered
    BY <1>2, <1>3 DEF Detected, Queued
  <1>4. CASE FocusedBuffer # last_entered
    <2>1. Detected = Append(pending_work, e)
      BY <1>4 DEF Detected, e
    <2>2. /\ Detected \in Seq(Work)
          /\ Len(Detected) = Len(pending_work) + 1
          /\ Detected[Len(pending_work) + 1] = e
          /\ \A i \in 1 .. Len(pending_work) : Detected[i] = pending_work[i]
      BY <1>1, <1>2, <2>1, AppendProperties
    <2>3. Len(pending_work) \in Nat
      BY <1>2
    <2> HIDE DEF Detected
    <2> QED BY <1>1, <1>2, <1>4, <2>2, <2>3 DEF Queued, e
  <1> QED BY <1>3, <1>4

\* The rest of a batch.
LEMMA RestOfBatch ==
  ASSUME Queued, batch # << >>
  PROVE  /\ Head(batch) = batch[1] /\ 1 \in 1 .. Len(batch)
         /\ Head(batch) \in Work
         /\ Tail(batch) \in Seq(Work)
         /\ Len(Tail(batch)) = Len(batch) - 1
         /\ \A i \in 1 .. Len(Tail(batch)) : Tail(batch)[i] = batch[i + 1] /\ i + 1 \in 1 .. Len(batch)
         /\ \A i \in 1 .. Len(Tail(batch)) : Tail(batch)[i] # Gained
         /\ \A i \in 1 .. Len(Tail(batch)) : Tail(batch)[i].what = "enter" =>
              i = Len(Tail(batch)) /\ Tail(batch)[i].b = last_entered
         /\ Head(batch).what = "enter" => Tail(batch) = << >>
  <1>1. batch \in Seq(Work) /\ Len(batch) \in Nat /\ Len(batch) > 0
    BY DEF Queued
  <1>2. Head(batch) = batch[1] /\ 1 \in 1 .. Len(batch) /\ Head(batch) \in Work
    BY <1>1
  <1>3. /\ Tail(batch) \in Seq(Work) /\ Len(Tail(batch)) = Len(batch) - 1
        /\ \A i \in 1 .. Len(Tail(batch)) : Tail(batch)[i] = batch[i + 1] /\ i + 1 \in 1 .. Len(batch)
    BY <1>1
  <1>4. \A i \in 1 .. Len(Tail(batch)) : i + 1 # 1
    BY <1>3
  <1>5. ASSUME NEW i \in 1 .. Len(Tail(batch)) PROVE Tail(batch)[i] # Gained
    <2> DEFINE j == i + 1
    <2>1. j \in 1 .. Len(batch) /\ j # 1 /\ Tail(batch)[i] = batch[j]
      BY <1>3, <1>4
    <2> HIDE DEF j
    <2>2. batch[j] = Gained => j = 1
      BY <2>1 DEF Queued
    <2> QED BY <2>1, <2>2
  <1>6. ASSUME NEW i \in 1 .. Len(Tail(batch)), Tail(batch)[i].what = "enter"
        PROVE  i = Len(Tail(batch)) /\ Tail(batch)[i].b = last_entered
    <2> DEFINE j == i + 1
    <2>1. j \in 1 .. Len(batch) /\ Tail(batch)[i] = batch[j]
      BY <1>3
    <2> HIDE DEF j
    <2>2. j = Len(batch) /\ batch[j].b = last_entered
      BY <1>6, <2>1 DEF Queued
    <2> USE DEF j
    <2>3. i = Len(batch) - 1
      BY <1>1, <2>2
    <2> HIDE DEF j
    <2> QED BY <1>3, <2>1, <2>2, <2>3
  <1>7. Head(batch).what = "enter" => Tail(batch) = << >>
    <2> SUFFICES ASSUME Head(batch).what = "enter" PROVE Tail(batch) = << >>
      OBVIOUS
    <2>1. batch[1].what = "enter"
      BY <1>2
    <2>2. 1 = Len(batch)
      BY <1>2, <2>1 DEF Queued
    <2>3. Len(Tail(batch)) = Len(batch) - 1 /\ Tail(batch) \in Seq(Work)
      BY <1>3
    <2> HIDE DEF Work
    <2>4. Len(Tail(batch)) = 0
      BY <2>2, <2>3
    <2> QED BY <2>3, <2>4, EmptySeq
  <1> QED BY <1>1, <1>2, <1>3, <1>5, <1>6, <1>7

\* The queues stay as described.
LEMMA NextKeepsQueued ==
  ASSUME Typed, Queued, [Next]_vars
  PROVE  Queued'
  <1>0. DrainCap \in Nat /\ MaxCalls \in Nat
    BY DiskAssumption DEF DiskAssumption
  <1>1. CASE UNCHANGED <<op, phase, panes, confirm, pump>>
    BY <1>1 DEF Queued, pump
  <1>2. CASE Dispatches
    BY <1>2 DEF Dispatches, Queued, pump
  <1>3. ASSUME InputFocusGained PROVE Queued'
    <2>1. /\ phase = "input" /\ phase' = "settle" /\ op = NoOp
          /\ pending_work' = Append(pending_work, Gained)
          /\ UNCHANGED <<op, batch, drained, last_entered>>
      BY <1>3 DEF InputFocusGained, AtInput, Dispatched
    <2>2. pending_work' = <<Gained>> /\ batch' = << >>
      BY <2>1 DEF Queued
    <2> QED BY <2>1, <2>2 DEF Queued, NoOp
  <1>4. ASSUME DrainAsync PROVE Queued'
    <2>1. PICK n \in 0 .. MaxCalls : pending_work' = pending_work \o [i \in 1 .. n |-> Call]
      BY <1>4 DEF DrainAsync
    <2> DEFINE calling == [i \in 1 .. n |-> Call]
    <2>2. n \in Nat
      BY <1>0
    <2>3. calling \in Seq({Gained, Call}) /\ Len(calling) = n /\ \A i \in 1 .. n : calling[i] = Call
      BY <2>2
    <2>4. /\ phase = "settle" /\ phase' = "drain" /\ UNCHANGED <<op, batch, drained, last_entered>>
      BY <1>4 DEF DrainAsync
    <2>5. pending_work \in Seq({Gained, Call}) /\ Len(pending_work) \in 0 .. 1
      BY <2>4 DEF Queued
    <2> HIDE DEF calling
    <2>6. /\ pending_work' \in Seq({Gained, Call})
          /\ Len(pending_work') = Len(pending_work) + n
          /\ \A i \in 1 .. Len(pending_work') :
               pending_work'[i] = IF i <= Len(pending_work) THEN pending_work[i]
                                  ELSE calling[i - Len(pending_work)]
      BY <2>1, <2>2, <2>3, <2>5, ConcatProperties DEF calling
    <2>7. \A i \in 1 .. Len(pending_work') : pending_work'[i] = Gained => i = 1
      <3>1. Call # Gained
        BY DEF Call, Gained
      <3> QED BY <2>2, <2>3, <2>5, <2>6, <3>1
    <2> QED BY <2>4, <2>6, <2>7 DEF Queued
  <1>5. ASSUME PassEnds PROVE Queued'
    <2>1. /\ phase = "drain" /\ phase' = "input" /\ batch = << >> /\ Detected = << >>
          /\ drained' = 0 /\ UNCHANGED <<op, pending_work, batch, last_entered>>
      BY <1>5 DEF PassEnds
    <2>2. pending_work = << >>
      BY <2>1, DetectedWork
    <2> QED BY <1>0, <2>1, <2>2 DEF Queued
  <1>6. ASSUME PassTakes PROVE Queued'
    <2>1. /\ phase = "drain" /\ phase' = "drain" /\ op' = op
          /\ drained' = drained + Len(Detected) /\ drained + Len(Detected) <= DrainCap
          /\ batch' = Detected /\ pending_work' = << >> /\ last_entered' = FocusedBuffer
      BY <1>6 DEF PassTakes
    <2>2. Len(Detected) \in Nat
      BY DetectedWork
    <2>3. drained' \in 0 .. DrainCap
      BY <1>0, <2>1, <2>2 DEF Queued
    <2> HIDE DEF Detected
    <2> QED BY <2>1, <2>3, DetectedWork DEF Queued
  <1>7. ASSUME PassDrops PROVE Queued'
    <2>1. /\ phase = "drain" /\ phase' = "input" /\ batch = << >> /\ UNCHANGED <<op, batch>>
          /\ drained' = 0 /\ pending_work' = << >>
      BY <1>7 DEF PassDrops
    <2> QED BY <1>0, <2>1 DEF Queued
  <1>8. ASSUME RunCall PROVE Queued'
    <2>1. /\ phase = "drain" /\ batch # << >> /\ batch' = Tail(batch)
          /\ UNCHANGED <<op, phase, drained, last_entered>>
          /\ pending_work' = pending_work \/ pending_work' = Append(pending_work, Call)
      BY <1>8 DEF RunCall, Running
    <2>2. /\ pending_work' \in Seq({Gained, Call})
          /\ \A i \in 1 .. Len(pending_work') : pending_work'[i] = Gained => i = 1
      <3>1. Call # Gained /\ pending_work \in Seq({Gained, Call})
        BY DEF Call, Gained, Queued
      <3>2. CASE pending_work' = pending_work
        BY <3>2 DEF Queued
      <3>3. CASE pending_work' = Append(pending_work, Call)
        <4>1. /\ pending_work' \in Seq({Gained, Call})
              /\ Len(pending_work') = Len(pending_work) + 1 /\ Len(pending_work) \in Nat
              /\ pending_work'[Len(pending_work) + 1] = Call
              /\ \A i \in 1 .. Len(pending_work) : pending_work'[i] = pending_work[i]
          BY <3>1, <3>3, AppendProperties
        <4>2. ASSUME NEW i \in 1 .. Len(pending_work'), pending_work'[i] = Gained PROVE i = 1
          <5>1. i \in 1 .. Len(pending_work)
            BY <3>1, <4>1, <4>2
          <5> QED BY <4>1, <4>2, <5>1 DEF Queued
        <4> QED BY <4>1, <4>2
      <3> QED BY <2>1, <3>2, <3>3
    <2> QED BY <2>1, <2>2, RestOfBatch DEF Queued
  <1>9. ASSUME NEW free \in BOOLEAN, RunGained(free) PROVE Queued'
    <2>1. /\ phase = "drain" /\ batch # << >> /\ batch' = Tail(batch)
          /\ UNCHANGED <<op, phase, drained, last_entered, pending_work>>
      BY <1>9 DEF RunGained, Running
    <2> QED BY <2>1, RestOfBatch DEF Queued
  <1>10. ASSUME NEW free \in BOOLEAN, RunEnter(free) PROVE Queued'
    <2>1. /\ phase = "drain" /\ batch # << >> /\ Head(batch).what = "enter"
          /\ batch' = Tail(batch) \/ batch' = <<Call>> \o Tail(batch)
          /\ UNCHANGED <<op, phase, drained, last_entered, pending_work>>
      BY <1>10 DEF RunEnter, Running
    <2>2. Tail(batch) = << >>
      BY <2>1, RestOfBatch
    <2>3. batch' = << >> \/ batch' = <<Call>>
      BY <2>1, <2>2
    <2>4. Call \in Work /\ Call.what # "enter" /\ Call # Gained
      BY DEF Call, Work, Gained
    <2>5. batch' \in Seq(Work) /\ \A i \in 1 .. Len(batch') : batch'[i] = Call
      <3>1. CASE batch' = << >>
        BY <3>1
      <3>2. CASE batch' = <<Call>>
        BY <2>4, <3>2
      <3> QED BY <2>3, <3>1, <3>2
    <2> QED BY <2>1, <2>4, <2>5 DEF Queued
  <1>11. ASSUME NEW abnormal \in BOOLEAN, Restart(abnormal) PROVE Queued'
    <2>1. /\ phase' = "settle" /\ op' = NoOp /\ drained' = 0
          /\ pending_work' = << >> /\ batch' = << >>
      BY <1>11 DEF Restart
    <2> QED BY <1>0, <2>1 DEF Queued, NoOp
  <1> QED BY <1>1, <1>2, <1>3, <1>4, <1>5, <1>6, <1>7, <1>8, <1>9, <1>10, <1>11, NextTakesTurn DEF Turn

\* An enter names a buffer and a pane.
LEMMA EntersAreTyped ==
  ASSUME NEW e \in Work, e.what = "enter"
  PROVE  e.b \in BufferId /\ e.p \in PaneId
  <1>1. e # Gained /\ e # Call
    BY DEF Gained, Call
  <1>2. PICK b \in BufferId, p \in PaneId : e = Enter(b, p)
    BY <1>1 DEF Work
  <1> QED BY <1>2 DEF Enter

\* A prompt is about a buffer.
Asked == confirm = NoConfirm \/ confirm.b \in BufferId

\* Prompts stay about buffers: those an enter or a focus event is about.
LEMMA NextKeepsAsked ==
  ASSUME Typed, Queued, Asked, [Next]_vars
  PROVE  Asked'
  <1>0. FocusedBuffer \in BufferId
    BY DEF Typed
  <1>1. ASSUME confirm' \in {confirm, NoConfirm} PROVE Asked'
    BY <1>1 DEF Asked
  <1>2. ASSUME NEW b \in BufferId, confirm' \in {Reload(b), Restore(b)} PROVE Asked'
    BY <1>2 DEF Asked, Reload, Restore
  <1>3. CASE UNCHANGED <<op, phase, panes, confirm, pump>> \/ Dispatches
    BY <1>0, <1>1, <1>2, <1>3 DEF Dispatches
  <1>4. CASE InputFocusGained \/ DrainAsync \/ PassEnds \/ PassTakes \/ PassDrops
    BY <1>1, <1>4 DEF InputFocusGained, DrainAsync, PassEnds, PassTakes, PassDrops
  <1>5. CASE RunCall
    BY <1>1, <1>5 DEF RunCall, CloseBuffer
  <1>6. ASSUME NEW free \in BOOLEAN, RunGained(free) PROVE Asked'
    BY <1>0, <1>1, <1>2, <1>6 DEF RunGained, CheckAll
  <1>7. ASSUME NEW free \in BOOLEAN, RunEnter(free) PROVE Asked'
    <2> DEFINE e == Head(batch)
    <2>1. batch # << >> /\ e.what = "enter"
      BY <1>7 DEF RunEnter, Running
    <2>2. e.b \in BufferId
      BY <2>1, RestOfBatch, EntersAreTyped
    <2>3. EnterCheck(e.b, free) \/ UNCHANGED confirm
      BY <1>7 DEF RunEnter
    <2> HIDE DEF e
    <2>4. CASE EnterCheck(e.b, free)
      <3>1. confirm' \in {Reload(e.b), Restore(e.b), RetireStale(e.b)}
        BY <2>4 DEF EnterCheck
      <3> QED BY <1>1, <1>2, <2>2, <3>1 DEF RetireStale
    <2> QED BY <1>1, <2>3, <2>4
  <1>8. ASSUME NEW abnormal \in BOOLEAN, Restart(abnormal) PROVE Asked'
    BY <1>8 DEF Restart, Asked
  <1> QED BY <1>3, <1>4, <1>5, <1>6, <1>7, <1>8, NextTakesTurn DEF Turn

-----------------------------------------------------------------------------
(* Every buffer that is entered is checked, where there is one pane *)

OnePane == \A p, q \in PaneId : p = q

\* While no enter is in the batch, the last one was checked and no prompt is
\* about another buffer, or focus moved since and another enter is detected
\* before the loop waits.
Entered ==
  /\ phase = "input" => FocusedBuffer = last_entered \/ last_entered = NoBuffer
  /\ \/ \E i \in 1 .. Len(batch) : batch[i].what = "enter"
     \/ /\ checked = last_entered
        /\ confirm = NoConfirm \/ confirm.b = last_entered
        /\ batch # << >> /\ Head(batch) = Gained => FocusedBuffer = last_entered
     \/ batch = << >> /\ last_entered = NoBuffer
     \/ batch = << >> /\ FocusedBuffer # last_entered /\ phase = "drain"

\* The enter that waits behind the head of a batch waits in its tail.
LEMMA EnterStaysQueued ==
  ASSUME Queued, batch # << >>, Head(batch).what # "enter",
         NEW i \in 1 .. Len(batch), batch[i].what = "enter"
  PROVE  \E j \in 1 .. Len(Tail(batch)) : Tail(batch)[j].what = "enter"
  <1>1. batch \in Seq(Work) /\ Len(batch) \in Nat
    BY DEF Queued
  <1>2. i # 1
    BY RestOfBatch
  <1> DEFINE j == i - 1
  <1>3. j \in 1 .. Len(batch) - 1 /\ j + 1 = i
    BY <1>1, <1>2
  <1> HIDE DEF j
  <1>4. j \in 1 .. Len(Tail(batch))
    BY <1>1, <1>3, RestOfBatch
  <1>5. Tail(batch)[j] = batch[j + 1]
    BY <1>4, RestOfBatch
  <1> QED BY <1>3, <1>4, <1>5

\* A pass that detects an enter holds it; a pass without one holds what was
\* pending.
LEMMA PassesKeepEntered ==
  ASSUME Typed, Queued, Entered, PassEnds \/ PassTakes \/ PassDrops
  PROVE  Entered'
  <1>0. FocusedBuffer \in BufferId /\ NoBuffer \notin BufferId
    BY DiskAssumption DEF Typed, DiskAssumption
  <1>1. UNCHANGED <<panes, confirm, checked>> /\ batch = << >> /\ phase = "drain"
    BY DEF PassEnds, PassTakes, PassDrops
  <1>2. FocusedBuffer' = FocusedBuffer
    BY <1>1 DEF FocusedBuffer, panes
  <1>3. Len(batch) = 0
    BY <1>1
  <1>4. FocusedBuffer = last_entered =>
          checked = last_entered /\ (confirm = NoConfirm \/ confirm.b = last_entered)
    BY <1>0, <1>1, <1>3 DEF Entered
  <1>5. CASE PassEnds
    <2>1. FocusedBuffer = last_entered
      <3>1. Detected = << >>
        BY <1>5 DEF PassEnds
      <3>2. Len(Detected) = 0
        BY <3>1
      <3> QED BY <3>2, DetectedWork
    <2>2. UNCHANGED <<batch, last_entered>>
      BY <1>5 DEF PassEnds
    <2> QED BY <1>1, <1>2, <1>4, <2>1, <2>2 DEF Entered
  <1>6. CASE PassTakes
    <2>1. batch' = Detected /\ last_entered' = FocusedBuffer /\ phase' = phase
      BY <1>6 DEF PassTakes
    <2>2. CASE FocusedBuffer = last_entered
      BY <1>1, <1>2, <1>4, <2>1, <2>2 DEF Entered
    <2>3. CASE FocusedBuffer # last_entered
      <3>1. /\ Len(Detected) \in 1 .. Len(Detected)
            /\ Detected[Len(Detected)].what = "enter"
        BY <2>3, DetectedWork DEF Enter
      <3> QED BY <1>1, <2>1, <3>1 DEF Entered
    <2> QED BY <2>2, <2>3
  <1>7. CASE PassDrops
    <2>1. last_entered' = EnteredAfterDrop(Detected) /\ batch' = << >>
      BY <1>1, <1>7 DEF PassDrops
    <2>2. CASE FocusedBuffer = last_entered
      <3>1. Detected = pending_work
        BY <2>2, DetectedWork
      <3>2. \A i \in DOMAIN pending_work : pending_work[i].what # "enter"
        BY DEF Queued, Gained, Call
      <3>3. Entries(Detected) = {}
        BY <3>1, <3>2 DEF Entries
      <3>4. last_entered' = FocusedBuffer
        BY <2>1, <3>3 DEF EnteredAfterDrop
      <3> QED BY <1>1, <1>2, <1>4, <2>1, <2>2, <3>4 DEF Entered
    <2>3. CASE FocusedBuffer # last_entered
      <3>1. /\ Len(Detected) \in DOMAIN Detected
            /\ Detected[Len(Detected)].what = "enter"
        BY <2>3, DetectedWork DEF Enter
      <3>2. Entries(Detected) # {}
        BY <3>1 DEF Entries
      <3>3. last_entered' = NoBuffer
        BY <2>1, <3>2 DEF EnteredAfterDrop
      <3> QED BY <2>1, <3>3 DEF Entered
    <2> QED BY <2>2, <2>3
  <1> QED BY <1>5, <1>6, <1>7

\* Work of a batch keeps it: an enter that is skipped leaves a focus that is
\* detected again.
LEMMA RunsKeepEntered ==
  ASSUME OnePane, Typed, Queued, Entered,
         RunCall \/ \E free \in BOOLEAN : RunGained(free) \/ RunEnter(free)
  PROVE  Entered'
  <1>0. FocusedBuffer \in BufferId /\ NoBuffer \notin BufferId
    BY DiskAssumption DEF Typed, DiskAssumption
  <1>1. batch # << >> /\ phase = "drain" /\ phase' = "drain" /\ last_entered' = last_entered
    BY DEF RunCall, RunGained, RunEnter, Running
  <1> DEFINE HasEnter == \E i \in 1 .. Len(batch) : batch[i].what = "enter"
  <1>2. ~HasEnter => /\ checked = last_entered
                     /\ confirm = NoConfirm \/ confirm.b = last_entered
                     /\ Head(batch) = Gained => FocusedBuffer = last_entered
    BY <1>1 DEF Entered
  <1>3. Tail(batch) # << >> => Head(Tail(batch)) # Gained
    <2>1. Tail(batch) # << >> => 1 \in 1 .. Len(Tail(batch)) /\ Head(Tail(batch)) = Tail(batch)[1]
      <3>1. Tail(batch) \in Seq(Work)
        BY <1>1, RestOfBatch
      <3> HIDE DEF Work
      <3> QED BY <3>1, EmptySeq
    <2> QED BY <1>1, <2>1, RestOfBatch
  <1>4. ASSUME batch' = Tail(batch), Head(batch).what # "enter", HasEnter PROVE Entered'
    BY <1>1, <1>4, EnterStaysQueued DEF Entered
  <1>5. ASSUME batch' = Tail(batch), ~HasEnter, UNCHANGED checked,
               \/ confirm' \in {confirm, NoConfirm}
               \/ confirm' = Reload(FocusedBuffer) /\ FocusedBuffer = last_entered
        PROVE  Entered'
    <2>1. checked' = last_entered' /\ (confirm' = NoConfirm \/ confirm'.b = last_entered')
      BY <1>1, <1>2, <1>5 DEF Reload
    <2>2. ~(batch' # << >> /\ Head(batch') = Gained)
      BY <1>3, <1>5
    <2> QED BY <1>1, <2>1, <2>2 DEF Entered
  <1>6. CASE RunCall
    <2>1. /\ batch' = Tail(batch) /\ Head(batch).what = "call" /\ UNCHANGED checked
          /\ confirm' \in {confirm, NoConfirm}
      BY <1>6 DEF RunCall, Running, CloseBuffer
    <2> QED BY <1>4, <1>5, <2>1
  <1>7. ASSUME NEW free \in BOOLEAN, RunGained(free) PROVE Entered'
    <2>1. /\ batch' = Tail(batch) /\ Head(batch).what = "gained" /\ UNCHANGED checked
          /\ confirm' \in {confirm, Reload(FocusedBuffer)}
      BY <1>7 DEF RunGained, Running, CheckAll
    <2>2. Head(batch) = Gained
      BY <1>1, <2>1, RestOfBatch DEF Work, Call, Enter
    <2> QED BY <1>2, <1>4, <1>5, <2>1, <2>2
  <1>8. ASSUME NEW free \in BOOLEAN, RunEnter(free) PROVE Entered'
    <2> DEFINE e == Head(batch)
    <2>1. e.what = "enter"
      BY <1>8 DEF RunEnter, Running
    <2>2. e.b \in BufferId /\ e.p \in PaneId
      BY <1>1, <2>1, RestOfBatch, EntersAreTyped
    <2>3. e.b = last_entered /\ Tail(batch) = << >>
      BY <1>1, <2>1, RestOfBatch DEF Queued
    <2>4. UNCHANGED panes
      BY <1>8 DEF RunEnter
    <2>5. FocusedBuffer' = pane[e.p]
      BY <2>2, <2>4 DEF OnePane, Typed, FocusedBuffer, panes
    <2>6. CASE EventIsLive(e)
      <3>1. EnterCheck(e.b, free) /\ (batch' = Tail(batch) \/ batch' = <<Call>> \o Tail(batch))
        BY <1>8, <2>6 DEF RunEnter
      <3>2. batch' = << >> \/ batch' = <<Call>>
        <4>1. <<Call>> \o << >> = <<Call>>
          OBVIOUS
        <4> QED BY <2>3, <3>1, <4>1
      <3>3. ~(batch' # << >> /\ Head(batch') = Gained)
        BY <3>2 DEF Gained, Call
      <3> HIDE DEF e
      <3>4. checked' = e.b /\ confirm' \in {Reload(e.b), Restore(e.b), RetireStale(e.b)}
        BY <3>1 DEF EnterCheck
      <3>5. confirm' = NoConfirm \/ confirm'.b = e.b
        BY <3>4 DEF Reload, Restore, RetireStale
      <3> QED BY <1>1, <2>3, <3>3, <3>4, <3>5 DEF Entered
    <2>7. CASE ~EventIsLive(e)
      <3>1. batch' = << >>
        BY <1>8, <2>3, <2>7 DEF RunEnter
      <3>2. FocusedBuffer' # last_entered'
        BY <1>1, <2>3, <2>5, <2>7 DEF EventIsLive
      <3> QED BY <1>1, <3>1, <3>2 DEF Entered
    <2> QED BY <2>6, <2>7
  <1> QED BY <1>6, <1>7, <1>8

\* The checks keep up with focus.
LEMMA NextKeepsEntered ==
  ASSUME OnePane, Typed, Queued, Entered, [Next]_vars
  PROVE  Entered'
  <1>0. FocusedBuffer \in BufferId /\ NoBuffer \notin BufferId
    BY DiskAssumption DEF Typed, DiskAssumption
  <1>1. CASE UNCHANGED <<op, phase, panes, confirm, pump>>
    BY <1>1 DEF Entered, panes, pump, FocusedBuffer
  <1>2. CASE Dispatches
    <2>1. batch = << >> /\ Len(batch) = 0 /\ batch' = batch /\ last_entered' = last_entered
          /\ checked' = checked /\ phase = "input"
      BY <1>2 DEF Dispatches, pump, Queued
    <2>2. phase' = "input" => FocusedBuffer' = FocusedBuffer
      BY <1>2 DEF Dispatches, panes, FocusedBuffer
    <2>3. CASE last_entered = NoBuffer
      BY <2>1, <2>3 DEF Entered
    <2>4. CASE last_entered # NoBuffer
      <3>1. /\ FocusedBuffer = last_entered /\ checked = last_entered
            /\ confirm = NoConfirm \/ confirm.b = last_entered
        BY <2>1, <2>4 DEF Entered
      <3>2. confirm' = NoConfirm \/ confirm'.b = last_entered
        BY <1>2, <3>1 DEF Dispatches, Reload
      <3> QED BY <2>1, <2>2, <3>1, <3>2 DEF Entered
    <2> QED BY <2>3, <2>4
  <1>3. ASSUME InputFocusGained \/ DrainAsync PROVE Entered'
    <2>1. /\ UNCHANGED <<panes, confirm, batch, last_entered, checked>>
          /\ batch = << >> /\ Len(batch) = 0 /\ phase' # "input" /\ phase # "drain"
      BY <1>3 DEF InputFocusGained, DrainAsync, AtInput, Dispatched, Queued
    <2> QED BY <2>1 DEF Entered
  <1>4. ASSUME NEW abnormal \in BOOLEAN, Restart(abnormal) PROVE Entered'
    BY <1>4 DEF Restart, Entered
  <1> QED BY <1>1, <1>2, <1>3, <1>4, NextTakesTurn, PassesKeepEntered, RunsKeepEntered DEF Turn

\* A dump was written by a session that ended.
Dumped == \A b \in BufferId : dump[b] < session

\* A step removes dumps, or writes those of the session it ends.
LEMMA NextKeepsDumped ==
  ASSUME Typed, Dumped, [Next]_vars
  PROVE  Dumped'
  <1>0. session \in Nat /\ dump \in [BufferId -> Nat]
    BY DEF Typed
  <1>1. CASE \E abnormal \in BOOLEAN : Restart(abnormal)
    <2>1. session' = session + 1
      BY <1>1 DEF Restart
    <2>2. \A b \in BufferId : dump'[b] \in {session, dump[b]}
      BY <1>1 DEF Restart
    <2> QED BY <1>0, <2>1, <2>2 DEF Dumped
  <1>2. CASE ~ \E abnormal \in BOOLEAN : Restart(abnormal)
    <2>1. session' = session
      BY <1>2 DEF Next, vars, Inputs, Answers, FileSteps, Settle, InputMove, InputEdit,
                  InputFocusGained, InputReload, Wake, InputOpen, InputClose, InputChecktime,
                  SaveStat, AnswerUnfocused, AnswerReload, AnswerDecline, AnswerRestore,
                  AnswerRestoreCloses, AnswerDiscard, AnswerKeepDump, SaveRename, SaveRestat,
                  ReloadRead, DrainAsync, PassEnds, PassTakes, PassDrops, RunCall, RunGained,
                  RunEnter, ExternalWrite
    <2>2. dump' = dump \/ \E b : dump' = [dump EXCEPT ![b] = 0]
      BY <1>2, NextHasEffect DEF Effect, InputEdit, InputOpen, AnswerDecline, AnswerRestore,
                                 AnswerDiscard, AnswerKeepDump, files
    <2> QED BY <1>0, <2>1, <2>2 DEF Dumped
  <1> QED BY <1>1, <1>2

\* The checks keep up with focus in every run with one pane.
THEOREM EnteredAlways ==
  ASSUME OnePane
  PROVE  Spec => [](Typed /\ Queued /\ Entered)
  <1>1. Init => Typed /\ Queued /\ Entered
    <2> SUFFICES ASSUME Init PROVE Queued /\ Entered
      BY InitIsTyped
    <2>1. /\ pending_work = << >> /\ batch = << >> /\ drained = 0 /\ phase = "settle"
          /\ op = NoOp /\ last_entered = NoBuffer
      BY DEF Init
    <2>2. DrainCap \in Nat
      BY DiskAssumption DEF DiskAssumption
    <2> QED BY <2>1, <2>2 DEF Queued, Entered, NoOp
  <1>2. Typed /\ Queued /\ Entered /\ [Next]_vars => (Typed /\ Queued /\ Entered)'
    BY NextKeepsTyped, NextKeepsQueued, NextKeepsEntered
  <1> QED BY <1>1, <1>2, PTL DEF Spec

\* With one pane, whatever calls, handlers, closes and dropped batches come
\* between, a buffer the loop waits on was checked when it was entered, or the
\* next settle enters it (pump.rs, detect_buffer_enter).
THEOREM EnteredWasCheckedAlways ==
  ASSUME OnePane
  PROVE  Spec => []EnteredWasChecked
  <1>1. Typed /\ Queued /\ Entered => EnteredWasChecked
    <2> SUFFICES ASSUME Typed, Queued, Entered, AtInput, last_entered = FocusedBuffer
                 PROVE  checked = FocusedBuffer
      BY DEF EnteredWasChecked
    <2>1. batch = << >> /\ Len(batch) = 0 /\ phase = "input"
      BY DEF AtInput, Queued
    <2>2. FocusedBuffer # NoBuffer
      BY DiskAssumption DEF Typed, DiskAssumption
    <2> QED BY <2>1, <2>2 DEF Entered
  <1> QED BY <1>1, EnteredAlways, PTL

\* The state stays well formed, panes show open buffers only, a prompt the loop
\* waits on is about the focused buffer and versions stay within those made.
THEOREM TypeCorrect ==
  ASSUME OnePane
  PROVE  Spec => []TypeOK
  <1> DEFINE Formed == Typed /\ Made /\ Shown /\ Queued /\ Asked /\ Entered /\ Dumped
  <1>1. Init => Formed
    <2> SUFFICES ASSUME Init PROVE Formed
      OBVIOUS
    <2>1. /\ newest = 1 /\ op = NoOp /\ confirm = NoConfirm /\ session = 1
          /\ \A b \in BufferId : file[b] \in {0, 1} /\ dump[b] = 0 /\ Open(b)
      BY DEF Init, Opened, Open
    <2>2. Typed /\ \A b \in BufferId : buf[b].base = file[b] /\ buf[b].holds = file[b]
      BY InitIsTyped
    <2>3. Made
      BY <2>1, <2>2, DiskAssumption DEF DiskAssumption, Made, NoOp
    <2>4. Shown /\ Asked /\ Dumped
      BY <2>1 DEF Init, Shown, Asked, Dumped
    <2>5. /\ pending_work = << >> /\ batch = << >> /\ drained = 0 /\ phase = "settle"
          /\ last_entered = NoBuffer
      BY DEF Init
    <2>6. Queued /\ Entered
      BY <2>1, <2>5, DiskAssumption DEF DiskAssumption, Queued, Entered, NoOp
    <2> QED BY <2>2, <2>3, <2>4, <2>6
  <1>2. Formed /\ [Next]_vars => Formed'
    BY NextKeepsTyped, NextKeepsMade, NextKeepsShown, NextKeepsQueued, NextKeepsAsked,
       NextKeepsEntered, NextKeepsDumped
  <1>3. Formed => TypeOK
    <2> SUFFICES ASSUME Formed PROVE TypeOK
      OBVIOUS
    <2>1. AtInput /\ confirm # NoConfirm /\ last_entered = FocusedBuffer =>
            confirm.b = FocusedBuffer
      <3> SUFFICES ASSUME AtInput, last_entered = FocusedBuffer, confirm # NoConfirm
                   PROVE  confirm.b = FocusedBuffer
        OBVIOUS
      <3>1. batch = << >> /\ Len(batch) = 0 /\ phase = "input"
        BY DEF AtInput, Queued
      <3>2. FocusedBuffer # NoBuffer
        BY DiskAssumption DEF Typed, DiskAssumption
      <3> QED BY <3>1, <3>2 DEF Entered
    <2>2. MaxVersion \in Nat
      BY DiskAssumption DEF DiskAssumption
    <2>3. /\ newest \in Version
          /\ \A b \in BufferId : file[b] \in Version /\ buf[b].base \in Version
                                 /\ buf[b].holds \in Version
      BY <2>2 DEF Typed, BufferState, Made, Version
    <2>4. file \in [BufferId -> Version]
      BY <2>3 DEF Typed
    <2>5. pane[focus] # NoBuffer
      BY DiskAssumption DEF Typed, FocusedBuffer, DiskAssumption
    <2> QED BY <2>1, <2>3, <2>4, <2>5 DEF TypeOK, Shown, Asked, Queued, Dumped
  <1> QED BY <1>1, <1>2, <1>3, PTL DEF Spec
=============================================================================
