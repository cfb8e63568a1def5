------------------------------ MODULE UndoTree ------------------------------
(***************************************************************************)
(* The revision tree of hume-editing/src/history.rs as a pure data type:   *)
(* what each operation of `History` does to the arena of revisions.  The   *)
(* modules that own a history (Buffer, EditSession) keep the arena in a    *)
(* variable and apply these operators.                                     *)
(*                                                                         *)
(* The arena R is a function from revision ids to revisions.  A changeset  *)
(* is abstracted to the pair of texts it maps between: a revision's        *)
(* `inverse` takes `after` to `before`, its `forward` takes `before` to    *)
(* `after`.  Ids ascend as they are assigned and a child list only ever    *)
(* appends the newest id or moves whole, so creation order is id order and *)
(* `Children.ids` is the set of its members.                               *)
(***************************************************************************)
EXTENDS Integers, FiniteSets

CONSTANTS Text,     \* the contents a buffer can have
          NoText    \* the root stores no changeset

ASSUME NoTextAssumption == NoText \notin Text

ROOT  == 0
NoRev == -1         \* Option::None of a RevisionId

Revision ==
  [parent   : Nat \cup {NoRev},
   before   : Text \cup {NoText},
   after    : Text \cup {NoText},
   children : SUBSET Nat,
   redo     : Nat \cup {NoRev}]

RootRevision ==
  [parent |-> NoRev, before |-> NoText, after |-> NoText,
   children |-> {}, redo |-> NoRev]

\* History::new: only the root.
FreshTree == [id \in {ROOT} |-> RootRevision]

Oldest(ids) == CHOOSE x \in ids : \A y \in ids : x <= y
Newest(ids) == CHOOSE x \in ids : \A y \in ids : y <= x

-----------------------------------------------------------------------------
(* Walking the tree *)

\* S holds the parent of every revision in it.
ClosedUp(R, S) == \A y \in S \ {ROOT} : R[y].parent \in S

\* S holds the redo child of every revision in it.
ClosedRedo(R, S) == \A y \in S : R[y].redo # NoRev => R[y].redo \in S

\* x and every revision above it: the least set with x closed under parent.
Ancestors(R, x) ==
  {y \in DOMAIN R :
     \A S \in SUBSET DOMAIN R : (x \in S /\ ClosedUp(R, S)) => y \in S}

\* x and every revision redo reaches from it.
RedoChain(R, x) ==
  {y \in DOMAIN R :
     \A S \in SUBSET DOMAIN R : (x \in S /\ ClosedRedo(R, S)) => y \in S}

\* The two legs of the walk from `from` to `to` through their lowest common
\* ancestor: the revisions stepped out of, and those stepped into.
UpPath(R, from, to)   == Ancestors(R, from) \ Ancestors(R, to)
DownPath(R, from, to) == Ancestors(R, to) \ Ancestors(R, from)

\* Mutant of WalkResult: the inverses compose in the wrong order.
WalkResultSwapped(R, from, to) ==
  LET up   == UpPath(R, from, to)
      down == DownPath(R, from, to)
  IN  IF down # {} THEN R[Newest(down)].after ELSE R[Newest(up)].before

\* The text the walk's composed transaction leaves: the last step is the
\* forward change into the newest revision of the down leg, or, when the walk
\* only goes up, the inverse of the oldest revision stepped out of.
WalkResult(R, from, to) ==
  LET up   == UpPath(R, from, to)
      down == DownPath(R, from, to)
  IN  IF down # {} THEN R[Newest(down)].after ELSE R[Oldest(up)].before

-----------------------------------------------------------------------------
(* Operations *)

\* History::record up to enforce_undo_levels: `new` becomes the newest child
\* of `parent` and its redo target.
RecordIn(R, parent, new, pre, post) ==
  [id \in DOMAIN R \cup {new} |->
     IF id = new
       THEN [parent |-> parent, before |-> pre, after |-> post,
             children |-> {}, redo |-> NoRev]
     ELSE IF id = parent
       THEN [R[id] EXCEPT !.children = @ \cup {new}, !.redo = new]
     ELSE R[id]]

\* Children::remove: when the redo target goes, the newest remaining child
\* takes over.
WithoutChild(rev, c) ==
  LET left == rev.children \ {c}
  IN  [rev EXCEPT !.children = left,
                  !.redo = IF rev.redo # c THEN rev.redo
                           ELSE IF left = {} THEN NoRev ELSE Newest(left)]

\* History::remove_subtree of a child of the root.
RemoveSubtree(R, c) ==
  [id \in {x \in DOMAIN R : c \notin Ancestors(R, x)} |->
     IF id = ROOT THEN WithoutChild(R[ROOT], c) ELSE R[id]]

\* The branch the trim discards: the root's oldest child off the current path.
Victim(R, cur) == Oldest(R[ROOT].children \ Ancestors(R, cur))

\* Mutant of PromoteChild: the grandchildren keep their parent.
PromoteChildKeepsParent(R, c) ==
  [id \in DOMAIN R \ {c} |->
     IF id = ROOT
       THEN [R[ROOT] EXCEPT !.children = R[c].children, !.redo = R[c].redo]
     ELSE R[id]]

\* Mutant of PromoteChild: the root's redo target is not replaced.
PromoteChildKeepsRedo(R, c) ==
  [id \in DOMAIN R \ {c} |->
     IF id = ROOT THEN [R[ROOT] EXCEPT !.children = R[c].children]
     ELSE IF id \in R[c].children THEN [R[id] EXCEPT !.parent = ROOT]
     ELSE R[id]]

\* The else branch of enforce_undo_levels: c, the root's only child, is
\* removed and its children become the root's.
PromoteChild(R, c) ==
  [id \in DOMAIN R \ {c} |->
     IF id = ROOT
       THEN [R[ROOT] EXCEPT !.children = R[c].children, !.redo = R[c].redo]
     ELSE IF id \in R[c].children THEN [R[id] EXCEPT !.parent = ROOT]
     ELSE R[id]]

\* Mutant of MarkRedo: the walk marks nothing.
MarkRedoNothing(R, down) == R

\* goto_revision's marking: each parent on the down leg names the revision
\* stepped into as its redo target.
MarkRedo(R, down) ==
  [id \in DOMAIN R |->
     IF \E d \in down : R[d].parent = id
       THEN [R[id] EXCEPT !.redo = CHOOSE d \in down : R[d].parent = id]
       ELSE R[id]]

\* History::len() - 1, the revisions undo-levels counts.
Recorded(R) == Cardinality(DOMAIN R) - 1

-----------------------------------------------------------------------------
(* Tree::index of history/persist.rs: the checks a saved tree passes before *)
(* it is restored.                                                          *)

ParentsOlder(R) ==
  \A id \in DOMAIN R \ {ROOT} : R[id].parent \in DOMAIN R /\ R[id].parent < id

ChildrenOf(R, p) == {x \in DOMAIN R \ {ROOT} : R[x].parent = p}

RedoSound(R, cur) ==
  \A id \in DOMAIN R :
    LET kids == ChildrenOf(R, id)
    IN  IF R[id].redo = NoRev THEN kids = {}
        ELSE /\ R[id].redo \in kids
             /\ \A kid \in kids \cap Ancestors(R, cur) : kid = R[id].redo

IndexAccepts(R, cur) ==
  /\ ROOT \in DOMAIN R
  /\ R[ROOT].parent = NoRev
  /\ ParentsOlder(R)
  /\ cur \in DOMAIN R
  /\ RedoSound(R, cur)
=============================================================================
