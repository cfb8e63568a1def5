------------------------------- MODULE Buffer -------------------------------
(***************************************************************************)
(* One file buffer: its text, undo tree and save point                     *)
(* (hume-editor/src/editor/buffer/), the file and the undo history file it *)
(* is written to, and the ways both change: edits, walks of the undo tree, *)
(* saves, reloads, another program writing the file, and closing (or       *)
(* losing) the buffer and opening the file again.                          *)
(*                                                                         *)
(* The loop of `History::enforce_undo_levels` is stepped: between an edit  *)
(* and the end of its trim `trimming` is not "no" and only the loop's next *)
(* iteration is enabled, as the whole runs under one `&mut Buffer`.        *)
(***************************************************************************)
EXTENDS UndoTree

CONSTANTS Ending,      \* line endings a text can have
          MaxId,       \* bound: revisions recorded in one life of the buffer
          UndoLevels,  \* values of the `undo-levels` setting, 0 is unlimited
          NoUndoFile   \* there is no undo history file

ASSUME BufferAssumption ==
  /\ MaxId \in Nat
  /\ UndoLevels \subseteq Nat

VARIABLES
  revisions, current, next_id, undo_levels,  \* History
  trimming,            \* "no", or what the running trim was started by
  promoted,            \* last_promoted, the trim loop's local
  text, line_ending,   \* Buffer.text and its line ending
  saved_revision, saved_line_ending,
  disk,                \* the file's content
  in_sync,             \* the file is still the one BufferFile describes
  undo_file            \* the undo history file

history == <<revisions, current, next_id, undo_levels>>
trim    == <<trimming, promoted>>
saved   == <<saved_revision, saved_line_ending>>
storage == <<disk, in_sync, undo_file>>
vars    == <<history, trim, text, line_ending, saved, storage>>

Content  == [text : Text, ending : Ending]
Idle     == trimming = "no"
Snapshot == [text : Text, current : Nat, revisions : UNION {[D -> Revision] : D \in SUBSET Nat}]

\* History::snapshot beside the digest of the text, as save_undo writes it.
SnapshotOf(R, cur, t) == [text |-> t, current |-> cur, revisions |-> R]

-----------------------------------------------------------------------------
(* Opening the file *)

\* Buffer::restore_undo: the history file is used when its digest is the
\* text's and its tree passes Tree::index.
Restorable(t) ==
  /\ undo_file # NoUndoFile
  /\ undo_file.text = t
  /\ IndexAccepts(undo_file.revisions, undo_file.current)

\* Tree::rebuild: child lists are remade from the parent links.
Rebuild(R) == [id \in DOMAIN R |-> [R[id] EXCEPT !.children = ChildrenOf(R, id)]]

Init ==
  /\ revisions = FreshTree
  /\ current = ROOT
  /\ next_id = 1
  /\ undo_levels \in UndoLevels
  /\ trimming = "no"
  /\ promoted = NoRev
  /\ disk \in Content
  /\ in_sync = TRUE
  /\ text = disk.text
  /\ line_ending = disk.ending
  /\ saved_revision = ROOT
  /\ saved_line_ending = disk.ending
  /\ undo_file = NoUndoFile

\* The buffer is closed, or the process ends, and the file is opened again:
\* a new Buffer reads the file, then restores the history saved for it.
Reopen ==
  /\ Idle
  /\ text' = disk.text
  /\ line_ending' = disk.ending
  /\ saved_line_ending' = disk.ending
  /\ in_sync' = TRUE
  /\ IF Restorable(disk.text)
       THEN /\ revisions' = Rebuild(undo_file.revisions)
            /\ current' = undo_file.current
            /\ next_id' = 1 + Newest(DOMAIN undo_file.revisions)
       ELSE /\ revisions' = FreshTree
            /\ current' = ROOT
            /\ next_id' = 1
  /\ saved_revision' = current'
  /\ undo_levels' \in UndoLevels
  /\ UNCHANGED <<trim, disk, undo_file>>

-----------------------------------------------------------------------------
(* Edits *)

\* Buffer::record_revision of a change of the current revision's text `pre`
\* to `post`, up to the trim.
Record(pre, post, reason) ==
  /\ next_id <= MaxId
  /\ revisions' = RecordIn(revisions, current, next_id, pre, post)
  /\ current' = next_id
  /\ next_id' = next_id + 1
  /\ trimming' = reason
  /\ promoted' = NoRev
  /\ UNCHANGED <<undo_levels, saved_revision>>

\* Buffer::apply_edit with a changeset that is not the identity; it may still
\* leave the same text.
Edit(t) ==
  /\ Idle
  /\ text' = t
  /\ Record(text, t, "edit")
  /\ UNCHANGED <<line_ending, saved_line_ending, storage>>

\* Mutant of OverCap: one revision too many is kept.
OverCapByOne == undo_levels # 0 /\ Recorded(revisions) > undo_levels + 1

\* The loop's condition.
OverCap == undo_levels # 0 /\ Recorded(revisions) > undo_levels

\* enforce_undo_levels, the root has other branches: the oldest one off the
\* current path goes whole.
TrimDiscard ==
  /\ ~Idle /\ OverCap
  /\ Cardinality(revisions[ROOT].children) > 1
  /\ revisions' = RemoveSubtree(revisions, Victim(revisions, current))
  /\ UNCHANGED <<current, next_id, undo_levels, trim, text, line_ending, saved, storage>>

\* enforce_undo_levels, the root has one child: it becomes the root.
TrimPromote ==
  /\ ~Idle /\ OverCap
  /\ Cardinality(revisions[ROOT].children) <= 1
  /\ \E c \in revisions[ROOT].children :
       /\ revisions' = PromoteChild(revisions, c)
       /\ promoted' = c
  /\ UNCHANGED <<current, next_id, undo_levels, trimming, text, line_ending, saved, storage>>

\* Mutant of RemappedSave: a save point at the root survives a promotion.
RemappedSaveKeepsRoot ==
  IF promoted = NoRev THEN saved_revision
  ELSE IF saved_revision = promoted THEN ROOT
  ELSE saved_revision

\* What record_revision makes of saved_revision once the trim is over.
RemappedSave ==
  IF promoted = NoRev THEN saved_revision
  ELSE IF saved_revision = promoted THEN ROOT
  ELSE IF saved_revision = ROOT THEN NoRev
  ELSE saved_revision

\* Editor::mark_synced: the buffer reads as saved, and its history is saved
\* beside it unless it has no revision past the root, `undo-persist` is off
\* or the write fails.
MarkSynced(ending) ==
  /\ saved_revision' = current
  /\ saved_line_ending' = ending
  /\ in_sync' = TRUE
  /\ \/ UNCHANGED undo_file
     \/ /\ DOMAIN revisions # {ROOT}
        /\ undo_file' = SnapshotOf(revisions, current, text)

\* The trim is over: record_revision remaps the save point, and a reload goes
\* on to mark the buffer saved.
TrimDone ==
  /\ ~Idle /\ ~OverCap
  /\ trimming' = "no"
  /\ promoted' = NoRev
  /\ IF trimming = "reload"
       THEN MarkSynced(line_ending)
       ELSE /\ saved_revision' = RemappedSave
            /\ UNCHANGED <<saved_line_ending, in_sync, undo_file>>
  /\ UNCHANGED <<history, text, line_ending, disk>>

\* Buffer::set_line_ending: no revision is recorded.
SetLineEnding(e) ==
  /\ Idle
  /\ line_ending' = e
  /\ UNCHANGED <<history, trim, text, saved, storage>>

\* set_undo_levels: takes effect at the next record.
SetUndoLevels(n) ==
  /\ Idle
  /\ undo_levels' = n
  /\ UNCHANGED <<revisions, current, next_id, trim, text, line_ending, saved, storage>>

-----------------------------------------------------------------------------
(* Walks: the history moves, then the composed transaction maps the text *)

\* Buffer::undo_n for every count that moves: `target` is where it lands.
Undo(target) ==
  /\ Idle
  /\ target \in Ancestors(revisions, current) \ {current}
  /\ text' = WalkResult(revisions, current, target)
  /\ current' = target
  /\ UNCHANGED <<revisions, next_id, undo_levels, trim, line_ending, saved, storage>>

\* Buffer::redo_n for every count that moves.
Redo(target) ==
  /\ Idle
  /\ target \in RedoChain(revisions, current) \ {current}
  /\ text' = revisions[target].after
  /\ current' = target
  /\ UNCHANGED <<revisions, next_id, undo_levels, trim, line_ending, saved, storage>>

\* Buffer::goto_revision to a revision that is not the current one.
Goto(target) ==
  /\ Idle
  /\ target \in DOMAIN revisions \ {current}
  /\ text' = WalkResult(revisions, current, target)
  /\ revisions' = MarkRedo(revisions, DownPath(revisions, current, target))
  /\ current' = target
  /\ UNCHANGED <<next_id, undo_levels, trim, line_ending, saved, storage>>

-----------------------------------------------------------------------------
(* The file *)

\* write_file to the buffer's own file: refused when the file is not the one
\* the buffer describes, unless forced.
Write(force) ==
  /\ Idle
  /\ in_sync \/ force
  /\ disk' = [text |-> text, ending |-> line_ending]
  /\ MarkSynced(line_ending)
  /\ UNCHANGED <<history, trim, text, line_ending>>

\* reload_buffer_in_place with the text read from disk, when it differs.
ReloadChanged ==
  /\ Idle
  /\ disk.text # text
  /\ text' = disk.text
  /\ line_ending' = disk.ending
  /\ Record(text, disk.text, "reload")
  /\ UNCHANGED <<saved_line_ending, storage>>

\* reload_buffer_in_place when the diff is the identity: no revision.
ReloadSame ==
  /\ Idle
  /\ disk.text = text
  /\ line_ending' = disk.ending
  /\ MarkSynced(disk.ending)
  /\ UNCHANGED <<history, trim, text, disk>>

\* Another program writes the file.
ExternalWrite(c) ==
  /\ Idle
  /\ disk' = c
  /\ in_sync' = FALSE
  /\ UNCHANGED <<history, trim, text, line_ending, saved, undo_file>>

\* What the editor does to the history and the text.
HistoryNext ==
  \/ \E t \in Text : Edit(t)
  \/ TrimDiscard
  \/ TrimPromote
  \/ TrimDone
  \/ \E n \in UndoLevels : SetUndoLevels(n)
  \/ \E r \in DOMAIN revisions : Undo(r) \/ Redo(r) \/ Goto(r)

\* What involves the file.
FileNext ==
  \/ Reopen
  \/ \E e \in Ending : SetLineEnding(e)
  \/ \E force \in BOOLEAN : Write(force)
  \/ ReloadChanged
  \/ ReloadSame
  \/ \E c \in Content : ExternalWrite(c)

Next == HistoryNext \/ FileNext

Spec == Init /\ [][Next]_vars

-----------------------------------------------------------------------------
(* Properties *)

\* has_unsaved_changes without an open session.
HasUnsavedChanges ==
  saved_revision # current \/ line_ending # saved_line_ending

\* The tree the code relies on: child lists and parent links agree, parents
\* are older, and every revision descends from the root.
TreeSound(R) ==
  /\ ROOT \in DOMAIN R
  /\ R[ROOT].parent = NoRev
  /\ ParentsOlder(R)
  /\ \A p \in DOMAIN R :
       /\ R[p].children = ChildrenOf(R, p)
       /\ IF R[p].children = {} THEN R[p].redo = NoRev ELSE R[p].redo \in R[p].children

\* The history is a tree, its texts are the buffer's kind of texts and every
\* id in play has been assigned.
TypeOK ==
  /\ TreeSound(revisions)
  /\ DOMAIN revisions \subseteq 0 .. (next_id - 1)
  /\ \A id \in DOMAIN revisions : revisions[id] \in Revision
  /\ current \in DOMAIN revisions
  /\ next_id \in Nat
  /\ undo_levels \in UndoLevels
  /\ trimming \in {"no", "edit", "reload"}
  /\ promoted \in Nat \cup {NoRev}
  /\ text \in Text
  /\ line_ending \in Ending
  /\ saved_revision \in Nat \cup {NoRev}
  /\ saved_line_ending \in Ending
  /\ disk \in Content
  /\ in_sync \in BOOLEAN

\* Revision r of tree R holds text t, cur being the revision whose text is
\* `here`: by its own link, or, for the root, by its children's.
HoldsText(R, cur, here, r, t) ==
  IF r # ROOT THEN R[r].after = t
  ELSE /\ cur = ROOT => here = t
       /\ \A c \in DOMAIN R \ {ROOT} : R[c].parent = ROOT => R[c].before = t

\* Every changeset starts from the text its parent holds.
LinksMeet(R, cur, here) ==
  \A id \in DOMAIN R \ {ROOT} :
    /\ R[id].after \in Text
    /\ HoldsText(R, cur, here, R[id].parent, R[id].before)

\* The history describes the buffer's text: every link starts where its
\* parent ends, so a walk's transactions compose (apply_transactions panics
\* "history is corrupt" when they do not), and the current revision's text
\* is the buffer's.
HistoryFitsText ==
  /\ LinksMeet(revisions, current, text)
  /\ HoldsText(revisions, current, text, current, text)

\* The comment in goto_revision on which an unmarked up leg rests: every
\* ancestor of the current revision names the next revision toward it as its
\* redo child, through edits, walks, trims and restores.
RedoLeadsBack(R, cur) ==
  \A id \in Ancestors(R, cur) \ {ROOT} : R[R[id].parent].redo = id

RedoRetracesUndo == RedoLeadsBack(revisions, current)

\* The buffer keeps the promises of FileVersions: neither trimming, walking
\* back to the save point, reloading nor restoring a saved history makes
\* unsaved text look saved, and only saves write the file.
Promised == INSTANCE FileVersions WITH
  File <- {"file"}, Content <- Content,
  here <- [f \in {"file"} |-> [text |-> text, ending |-> line_ending]],
  clean <- {f \in {"file"} : Idle /\ ~HasUnsavedChanges},
  disk <- [f \in {"file"} |-> disk],
  foreign <- {f \in {"file"} : ~in_sync}

ImplementsFileVersions == Promised!Spec

\* A saved history can always be used: whatever was evicted or walked before,
\* what save_undo writes passes the checks of Tree::index, and its changes
\* lead from text to text out of the one its digest is of, so Tree::rebuild
\* remakes every text it was saved with.
SavedHistoryRestores ==
  undo_file # NoUndoFile =>
    LET R == undo_file.revisions
        cur == undo_file.current
    IN  /\ IndexAccepts(R, cur)
        /\ LinksMeet(R, cur, undo_file.text)
        /\ HoldsText(R, cur, undo_file.text, cur, undo_file.text)

\* Trimming leaves at most undo-levels revisions once an edit is over, and
\* never the edit itself.
TrimKeepsEdit ==
  [][(~Idle /\ trimming' = "no") =>
       /\ current' = next_id - 1
       /\ undo_levels # 0 => Recorded(revisions') \in 1 .. undo_levels]_vars
=============================================================================
