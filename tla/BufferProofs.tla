---------------------------- MODULE BufferProofs ----------------------------
(***************************************************************************)
(* The history of a buffer is a tree whose changes compose, whose redo     *)
(* children lead back where undo came from and which restores from what is *)
(* saved of it; a trim keeps the edit it makes room for; and the buffer    *)
(* keeps the promises of FileVersions.  For any texts, line endings,       *)
(* undo levels and number of revisions.                                    *)
(***************************************************************************)
EXTENDS Buffer, WellFoundedInduction, FiniteSetTheorems, TLAPS

-----------------------------------------------------------------------------
(* Numbers *)

\* A set of numbers has an oldest one.
LEMMA OldestIsOne ==
  ASSUME NEW ids \in SUBSET Nat, ids # {}
  PROVE  Oldest(ids) \in ids /\ \A x \in ids : Oldest(ids) <= x
  <1> DEFINE R == {ss \in Nat \X Nat : ss[1] < ss[2]}
  <1>1. IsWellFoundedOn(R, Nat)
    BY NatLessThanWellFounded DEF OpToRel
  <1>2. PICK x \in ids : \A y \in ids : ~ (<<y, x>> \in R)
    <2> HIDE DEF R
    <2> QED BY <1>1, WFMin
  <1>3. \A y \in ids : ~ (y < x)
    BY <1>2
  <1>4. \A y \in ids : x <= y
    BY <1>3
  <1> QED BY <1>4 DEF Oldest

\* A bounded set of numbers has a newest one.
LEMMA NewestIsOne ==
  ASSUME NEW n \in Nat, NEW ids \in SUBSET (0 .. n), ids # {}
  PROVE  Newest(ids) \in ids /\ \A x \in ids : x <= Newest(ids)
  <1> DEFINE mirror == {n - x : x \in ids}
  <1>1. mirror \in SUBSET Nat /\ mirror # {}
    <2>1. \A x \in ids : n - x \in Nat
      OBVIOUS
    <2> QED BY <2>1
  <1>2. PICK m \in mirror : \A y \in mirror : m <= y
    <2> HIDE DEF mirror
    <2> QED BY <1>1, OldestIsOne
  <1>3. PICK x \in ids : m = n - x
    OBVIOUS
  <1>4. \A y \in ids : y <= x
    <2> SUFFICES ASSUME NEW y \in ids PROVE y <= x
      OBVIOUS
    <2>1. n - y \in mirror
      OBVIOUS
    <2> HIDE DEF mirror
    <2>2. n - x <= n - y /\ x \in Int /\ y \in Int
      BY <1>2, <1>3, <2>1
    <2> QED BY <2>2
  <1> QED BY <1>4 DEF Newest

\* A finite set of more than one element has two.
LEMMA MoreThanOne ==
  ASSUME NEW S, IsFiniteSet(S), Cardinality(S) > 1
  PROVE  \E x, y \in S : x # y
  <1> SUFFICES ASSUME \A x, y \in S : x = y PROVE FALSE
    OBVIOUS
  <1>1. S # {}
    BY FS_EmptySet
  <1>2. PICK x \in S : TRUE
    BY <1>1
  <1>3. S = {x}
    BY <1>2
  <1>4. Cardinality(S) = 1
    BY <1>3, FS_Singleton
  <1> QED BY <1>4

-----------------------------------------------------------------------------
(* Trees *)

\* The part of TreeSound that ancestors need.
Rooted(R) == ROOT \in DOMAIN R /\ DOMAIN R \subseteq Nat /\ ParentsOlder(R)

\* The ancestors of x are the least set with x that is closed under parent.
LEMMA AncestorsClosed ==
  ASSUME NEW R, Rooted(R), NEW x \in DOMAIN R
  PROVE  /\ x \in Ancestors(R, x) /\ Ancestors(R, x) \subseteq DOMAIN R
         /\ \A y \in Ancestors(R, x) : y # ROOT => R[y].parent \in Ancestors(R, x)
  <1>1. \A y \in DOMAIN R : y # ROOT => R[y].parent \in DOMAIN R
    BY DEF Rooted, ParentsOlder
  <1>2. ASSUME NEW y \in Ancestors(R, x), y # ROOT
        PROVE  R[y].parent \in Ancestors(R, x)
    <2>1. y \in DOMAIN R /\ \A S \in SUBSET DOMAIN R : x \in S /\ ClosedUp(R, S) => y \in S
      BY <1>2 DEF Ancestors
    <2>2. \A S \in SUBSET DOMAIN R : x \in S /\ ClosedUp(R, S) => R[y].parent \in S
      BY <1>2, <2>1 DEF ClosedUp
    <2> QED BY <1>1, <1>2, <2>1, <2>2 DEF Ancestors
  <1> QED BY <1>2 DEF Ancestors

LEMMA AncestorsLeast ==
  ASSUME NEW R, NEW x \in DOMAIN R, NEW S \in SUBSET DOMAIN R, x \in S,
         \A y \in S : y # ROOT => R[y].parent \in S
  PROVE  Ancestors(R, x) \subseteq S
  BY DEF Ancestors, ClosedUp

\* Every revision descends from the root, ancestors are older, and the
\* ancestors of an ancestor are among them.
LEMMA AncestorsOlder ==
  ASSUME NEW R, Rooted(R), NEW x \in DOMAIN R
  PROVE  /\ ROOT \in Ancestors(R, x)
         /\ \A y \in Ancestors(R, x) : y <= x /\ Ancestors(R, y) \subseteq Ancestors(R, x)
  <1>0. DOMAIN R \subseteq Nat
    BY DEF Rooted
  <1>1. ROOT \in Ancestors(R, x)
    <2>1. Ancestors(R, x) \in SUBSET Nat /\ Ancestors(R, x) # {}
      BY <1>0, AncestorsClosed
    <2>2. PICK m \in Ancestors(R, x) : \A y \in Ancestors(R, x) : m <= y
      BY <2>1, OldestIsOne
    <2>3. m \in DOMAIN R
      BY <2>2, AncestorsClosed
    <2>4. CASE m # ROOT
      <3>1. R[m].parent \in Ancestors(R, x) /\ R[m].parent < m
        BY <2>2, <2>3, <2>4, AncestorsClosed DEF Rooted, ParentsOlder
      <3>2. m <= R[m].parent /\ m \in Nat /\ R[m].parent \in Nat
        BY <2>1, <2>2, <3>1
      <3> QED BY <3>1, <3>2
    <2> QED BY <2>2, <2>4
  <1>2. ASSUME NEW y \in Ancestors(R, x) PROVE y <= x
    <2> DEFINE S == {z \in DOMAIN R : z <= x}
    <2>1. x \in S /\ S \in SUBSET DOMAIN R
      BY <1>0
    <2>2. \A z \in S : z # ROOT => R[z].parent \in S
      <3> SUFFICES ASSUME NEW z \in S, z # ROOT PROVE R[z].parent \in S
        OBVIOUS
      <3>1. R[z].parent \in DOMAIN R /\ R[z].parent < z /\ z <= x
        BY DEF Rooted, ParentsOlder
      <3>2. R[z].parent \in Nat /\ z \in Nat /\ x \in Nat
        BY <1>0, <3>1
      <3>3. R[z].parent <= x
        BY <3>1, <3>2
      <3> QED BY <3>1, <3>3
    <2>3. Ancestors(R, x) \subseteq S
      <3> HIDE DEF S
      <3> QED BY <2>1, <2>2, AncestorsLeast
    <2> QED BY <1>2, <2>3
  <1>3. ASSUME NEW y \in Ancestors(R, x) PROVE Ancestors(R, y) \subseteq Ancestors(R, x)
    <2>1. Ancestors(R, x) \in SUBSET DOMAIN R /\ y \in DOMAIN R
      BY <1>3, AncestorsClosed
    <2>2. \A z \in Ancestors(R, x) : z # ROOT => R[z].parent \in Ancestors(R, x)
      BY AncestorsClosed
    <2> QED BY <1>3, <2>1, <2>2, AncestorsLeast
  <1> QED BY <1>1, <1>2, <1>3

\* The ancestors of a revision are it and those of its parent.
LEMMA AncestorsStep ==
  ASSUME NEW R, Rooted(R), NEW x \in DOMAIN R
  PROVE  /\ x = ROOT => Ancestors(R, x) = {ROOT}
         /\ x # ROOT => /\ R[x].parent \in DOMAIN R
                        /\ Ancestors(R, x) = {x} \cup Ancestors(R, R[x].parent)
                        /\ x \notin Ancestors(R, R[x].parent)
  <1>1. ASSUME x = ROOT PROVE Ancestors(R, x) = {ROOT}
    <2> DEFINE S == {ROOT}
    <2>1. S \in SUBSET DOMAIN R /\ x \in S /\ \A y \in S : y # ROOT => R[y].parent \in S
      BY <1>1
    <2>2. Ancestors(R, x) \subseteq S
      <3> HIDE DEF S
      <3> QED BY <2>1, AncestorsLeast
    <2> QED BY <1>1, <2>2, AncestorsClosed
  <1>2. ASSUME x # ROOT
        PROVE  /\ R[x].parent \in DOMAIN R
               /\ Ancestors(R, x) = {x} \cup Ancestors(R, R[x].parent)
               /\ x \notin Ancestors(R, R[x].parent)
    <2> DEFINE p == R[x].parent
               S == {x} \cup Ancestors(R, p)
    <2>1. p \in DOMAIN R /\ p < x /\ x \in Nat /\ p \in Nat
      BY <1>2 DEF Rooted, ParentsOlder
    <2>2. S \in SUBSET DOMAIN R /\ x \in S /\ p \in S
      BY <2>1, AncestorsClosed
    <2>3. \A z \in S : z # ROOT => R[z].parent \in S
      BY <2>1, AncestorsClosed
    <2>4. Ancestors(R, x) \subseteq S
      <3> HIDE DEF S, p
      <3> QED BY <2>2, <2>3, AncestorsLeast
    <2>5. p \in Ancestors(R, x)
      BY <1>2, AncestorsClosed
    <2>6. S \subseteq Ancestors(R, x)
      BY <2>5, AncestorsClosed, AncestorsOlder
    <2>7. x \notin Ancestors(R, p)
      <3> SUFFICES ASSUME x \in Ancestors(R, p) PROVE FALSE
        OBVIOUS
      <3>1. x <= p
        BY <2>1, AncestorsOlder
      <3> QED BY <2>1, <3>1
    <2> QED BY <2>1, <2>4, <2>6, <2>7
  <1> QED BY <1>1, <1>2

\* Ancestors are a chain: of two, one is an ancestor of the other.
LEMMA AncestorsChain ==
  ASSUME NEW R, Rooted(R), NEW x \in DOMAIN R,
         NEW y \in Ancestors(R, x), NEW z \in Ancestors(R, x)
  PROVE  y \in Ancestors(R, z) \/ z \in Ancestors(R, y)
  <1> DEFINE S == {w \in Ancestors(R, x) : y \in Ancestors(R, w) \/ w \in Ancestors(R, y)}
  <1>1. Ancestors(R, x) \subseteq DOMAIN R /\ y \in DOMAIN R
    BY AncestorsClosed
  <1>2. S \in SUBSET DOMAIN R /\ x \in S
    BY <1>1, AncestorsClosed
  <1>3. \A w \in S : w # ROOT => R[w].parent \in S
    <2> SUFFICES ASSUME NEW w \in S, w # ROOT PROVE R[w].parent \in S
      OBVIOUS
    <2>1. R[w].parent \in Ancestors(R, x) /\ w \in DOMAIN R
      BY <1>1, AncestorsClosed
    <2>2. CASE w \in Ancestors(R, y)
      <3>1. R[w].parent \in Ancestors(R, y)
        BY <1>1, <2>2, AncestorsClosed
      <3> QED BY <2>1, <3>1
    <2>3. CASE w \notin Ancestors(R, y)
      <3>1. y \in Ancestors(R, w) /\ y # w
        BY <1>1, <2>3, AncestorsClosed
      <3>2. y \in Ancestors(R, R[w].parent)
        BY <2>1, <3>1, AncestorsStep
      <3> QED BY <2>1, <3>2
    <2> QED BY <2>2, <2>3
  <1>4. Ancestors(R, x) \subseteq S
    <2> HIDE DEF S
    <2> QED BY <1>2, <1>3, AncestorsLeast
  <1> QED BY <1>4

\* On the way up from x, a revision is entered from one child.
LEMMA OneChild ==
  ASSUME NEW R, Rooted(R), NEW x \in DOMAIN R,
         NEW y \in Ancestors(R, x) \ {ROOT}, NEW z \in Ancestors(R, x) \ {ROOT},
         R[y].parent = R[z].parent
  PROVE  y = z
  <1>1. y \in DOMAIN R /\ z \in DOMAIN R
    BY AncestorsClosed
  <1>2. ASSUME NEW v \in DOMAIN R \ {ROOT}, NEW w \in DOMAIN R \ {ROOT},
               R[v].parent = R[w].parent, v \in Ancestors(R, w)
        PROVE  v = w
    <2> SUFFICES ASSUME v # w PROVE FALSE
      OBVIOUS
    <2>1. v \in Ancestors(R, R[w].parent)
      BY <1>2, AncestorsStep
    <2>2. v \notin Ancestors(R, R[v].parent)
      BY AncestorsStep
    <2> QED BY <1>2, <2>1, <2>2
  <1>3. y \in Ancestors(R, z) \/ z \in Ancestors(R, y)
    BY AncestorsChain
  <1> QED BY <1>1, <1>2, <1>3

\* The revision a walk up to an ancestor steps out of last.
LEMMA UpLegEnds ==
  ASSUME NEW R, Rooted(R), NEW x \in DOMAIN R, NEW y \in Ancestors(R, x), y # x
  PROVE  LET m == Oldest(UpPath(R, x, y))
         IN  /\ m \in Ancestors(R, x) /\ m # ROOT /\ R[m].parent = y
             /\ UpPath(R, x, y) # {}
  <1> DEFINE up == UpPath(R, x, y)
             m == Oldest(up)
  <1>0. y \in DOMAIN R /\ DOMAIN R \subseteq Nat /\ Ancestors(R, x) \subseteq DOMAIN R
    BY AncestorsClosed DEF Rooted
  <1>1. x \in up
    <2>1. x \notin Ancestors(R, y)
      <3> SUFFICES ASSUME x \in Ancestors(R, y) PROVE FALSE
        OBVIOUS
      <3>1. x <= y /\ y <= x
        BY <1>0, AncestorsOlder
      <3> QED BY <1>0, <3>1
    <2> QED BY <2>1, AncestorsClosed DEF UpPath
  <1>2. up \in SUBSET Nat
    BY <1>0 DEF UpPath
  <1>3. m \in up /\ \A z \in up : m <= z
    <2> HIDE DEF up
    <2> QED BY <1>1, <1>2, OldestIsOne
  <1>4. m \in Ancestors(R, x) /\ m \notin Ancestors(R, y) /\ m \in DOMAIN R
    BY <1>0, <1>3 DEF UpPath
  <1>5. m # ROOT
    BY <1>0, <1>4, AncestorsOlder
  <1> DEFINE p == R[m].parent
  <1>6. p \in Ancestors(R, x) /\ p < m
    BY <1>4, <1>5, AncestorsClosed DEF Rooted, ParentsOlder
  <1>7. p \in Ancestors(R, y)
    <2> SUFFICES ASSUME p \notin Ancestors(R, y) PROVE FALSE
      OBVIOUS
    <2>1. p \in up
      BY <1>6 DEF UpPath
    <2>2. m <= p /\ m \in Nat /\ p \in Nat
      BY <1>2, <1>3, <2>1
    <2> QED BY <1>6, <2>2
  <1>8. y \in Ancestors(R, m)
    BY <1>4, AncestorsChain
  <1>9. y \in Ancestors(R, p)
    <2>1. y # m
      BY <1>0, <1>4, AncestorsClosed
    <2> QED BY <1>4, <1>5, <1>8, <2>1, AncestorsStep
  <1>10. p = y
    <2>1. p \in DOMAIN R /\ p <= y /\ y <= p
      BY <1>0, <1>6, <1>7, <1>9, AncestorsOlder
    <2> QED BY <1>0, <2>1
  <1> QED BY <1>1, <1>4, <1>5, <1>10

\* The tree of n recorded revisions at most, its current revision, and its text.
Tree(R, n) ==
  /\ TreeSound(R) /\ DOMAIN R \subseteq 0 .. n
  /\ \A id \in DOMAIN R : R[id] \in Revision
  /\ \A id \in DOMAIN R \ {ROOT} : R[id].before \in Text

Fits(R, cur, here) == LinksMeet(R, cur, here) /\ HoldsText(R, cur, here, cur, here)

\* What a revision that stays holds, it goes on to hold.
KeepsTexts(R, cur, here, S, cur2, here2) ==
  \A r \in DOMAIN R \cap DOMAIN S : \A t :
    HoldsText(R, cur, here, r, t) => HoldsText(S, cur2, here2, r, t)

LEMMA TreeIsRooted ==
  ASSUME NEW n \in Nat, NEW R, Tree(R, n)
  PROVE  Rooted(R) /\ IsFiniteSet(DOMAIN R) /\ DOMAIN R \in SUBSET Nat
  <1>1. DOMAIN R \subseteq 0 .. n /\ IsFiniteSet(0 .. n)
    BY FS_Interval DEF Tree
  <1>2. IsFiniteSet(DOMAIN R)
    BY <1>1, FS_Subset
  <1> QED BY <1>1, <1>2 DEF Tree, TreeSound, Rooted

\* A walk's composed transaction ends on the text its target holds.
LEMMA WalkArrives ==
  ASSUME NEW n \in Nat, NEW R, Tree(R, n), NEW cur \in DOMAIN R, NEW here,
         Fits(R, cur, here), NEW target \in DOMAIN R, target # cur
  PROVE  /\ HoldsText(R, cur, here, target, WalkResult(R, cur, target))
         /\ WalkResult(R, cur, target) \in Text
  <1> DEFINE up == UpPath(R, cur, target)
             down == DownPath(R, cur, target)
  <1>0. Rooted(R) /\ DOMAIN R \subseteq 0 .. n
    BY TreeIsRooted DEF Tree
  <1>1. CASE down # {}
    <2>1. target \in down
      <3> SUFFICES ASSUME target \in Ancestors(R, cur) PROVE FALSE
        BY <1>0, AncestorsClosed DEF DownPath
      <3>1. Ancestors(R, target) \subseteq Ancestors(R, cur)
        BY <1>0, AncestorsOlder
      <3> QED BY <1>1, <3>1 DEF DownPath
    <2>2. down \in SUBSET (0 .. n) /\ \A y \in down : y <= target
      BY <1>0, AncestorsClosed, AncestorsOlder DEF DownPath
    <2>3. Newest(down) \in down /\ target <= Newest(down)
      <3> HIDE DEF down
      <3> QED BY <2>1, <2>2, NewestIsOne
    <2>4. Newest(down) = target
      BY <2>1, <2>2, <2>3
    <2>5. target # ROOT
      BY <1>0, <2>1, AncestorsOlder DEF DownPath
    <2>6. R[target].after \in Text
      BY <2>5 DEF Fits, LinksMeet
    <2> QED BY <1>1, <2>4, <2>5, <2>6 DEF WalkResult, HoldsText
  <1>2. CASE down = {}
    <2>1. target \in Ancestors(R, cur)
      BY <1>0, <1>2, AncestorsClosed DEF DownPath
    <2> DEFINE m == Oldest(up)
    <2>2. m \in Ancestors(R, cur) /\ m # ROOT /\ R[m].parent = target
      BY <1>0, <2>1, UpLegEnds
    <2>3. m \in DOMAIN R
      BY <1>0, <2>2, AncestorsClosed
    <2>4. HoldsText(R, cur, here, target, R[m].before)
      BY <2>2, <2>3 DEF Fits, LinksMeet
    <2>5. R[m].before \in Text
      BY <2>2, <2>3 DEF Tree
    <2> QED BY <1>2, <2>4, <2>5 DEF WalkResult
  <1> QED BY <1>1, <1>2

\* Moving to a revision and its text keeps the history fitting.
LEMMA WalkFits ==
  ASSUME NEW n \in Nat, NEW R, Tree(R, n), NEW cur \in DOMAIN R, NEW here,
         Fits(R, cur, here), NEW target \in DOMAIN R, target # cur, NEW t,
         HoldsText(R, cur, here, target, t)
  PROVE  Fits(R, target, t) /\ KeepsTexts(R, cur, here, R, target, t)
  <1>0. Rooted(R)
    BY TreeIsRooted
  <1>1. ASSUME NEW r \in DOMAIN R, NEW u, HoldsText(R, cur, here, r, u)
        PROVE  HoldsText(R, target, t, r, u)
    <2>1. CASE r # ROOT
      BY <1>1, <2>1 DEF HoldsText
    <2>2. CASE r = ROOT /\ target # ROOT
      BY <1>1, <2>2 DEF HoldsText
    <2>3. CASE r = ROOT /\ target = ROOT
      <3>1. PICK m \in DOMAIN R : m # ROOT /\ R[m].parent = ROOT
        <4>1. ROOT \in Ancestors(R, cur)
          BY <1>0, AncestorsOlder
        <4>2. Oldest(UpPath(R, cur, ROOT)) \in Ancestors(R, cur)
              /\ Oldest(UpPath(R, cur, ROOT)) # ROOT
              /\ R[Oldest(UpPath(R, cur, ROOT))].parent = ROOT
          BY <1>0, <2>3, <4>1, UpLegEnds
        <4> QED BY <1>0, <4>2, AncestorsClosed
      <3>2. R[m].before = u /\ R[m].before = t
        BY <1>1, <2>3, <3>1 DEF HoldsText
      <3> QED BY <1>1, <2>3, <3>2 DEF HoldsText
    <2> QED BY <2>1, <2>2, <2>3
  <1>2. LinksMeet(R, target, t)
    <2>1. \A id \in DOMAIN R \ {ROOT} : R[id].parent \in DOMAIN R
      BY <1>0 DEF Rooted, ParentsOlder
    <2> QED BY <1>1, <2>1 DEF Fits, LinksMeet
  <1>3. HoldsText(R, target, t, target, t)
    BY <1>1
  <1> QED BY <1>1, <1>2, <1>3 DEF Fits, KeepsTexts

-----------------------------------------------------------------------------
(* What each operation makes of a tree *)

\* Trees that differ only in their redo children and child lists.
SameLinks(R, S) ==
  /\ DOMAIN S = DOMAIN R
  /\ \A id \in DOMAIN R :
       /\ S[id].parent = R[id].parent
       /\ S[id].before = R[id].before
       /\ S[id].after = R[id].after

LEMMA SameLinksKeep ==
  ASSUME NEW n \in Nat, NEW R, Rooted(R), NEW S, SameLinks(R, S), NEW cur \in DOMAIN R, NEW here
  PROVE  /\ Rooted(S)
         /\ \A x \in DOMAIN R : Ancestors(S, x) = Ancestors(R, x)
         /\ \A x : ChildrenOf(S, x) = ChildrenOf(R, x)
         /\ Fits(R, cur, here) => Fits(S, cur, here)
         /\ KeepsTexts(R, cur, here, S, cur, here)
  <1>1. Rooted(S)
    BY DEF Rooted, ParentsOlder, SameLinks
  <1>2. \A x \in DOMAIN R : Ancestors(S, x) = Ancestors(R, x)
    <2>1. \A T \in SUBSET DOMAIN R : ClosedUp(S, T) <=> ClosedUp(R, T)
      BY DEF ClosedUp, SameLinks
    <2> QED BY <2>1 DEF Ancestors, SameLinks
  <1>3. \A x : ChildrenOf(S, x) = ChildrenOf(R, x)
    BY DEF ChildrenOf, SameLinks
  <1>4. \A r \in DOMAIN R : \A t : HoldsText(R, cur, here, r, t) => HoldsText(S, cur, here, r, t)
    BY DEF HoldsText, SameLinks
  <1>5. ASSUME Fits(R, cur, here) PROVE Fits(S, cur, here)
    <2>1. \A id \in DOMAIN R \ {ROOT} : R[id].parent \in DOMAIN R
      BY DEF Rooted, ParentsOlder
    <2>2. LinksMeet(S, cur, here)
      BY <1>4, <1>5, <2>1 DEF Fits, LinksMeet, SameLinks
    <2> QED BY <1>4, <1>5, <2>2 DEF Fits
  <1> QED BY <1>1, <1>2, <1>3, <1>4, <1>5 DEF KeepsTexts

\* A revision given other children and another redo child keeps its links.
Given(rev, kids, next) == [rev EXCEPT !.children = kids, !.redo = next]

LEMMA RevisionGiven ==
  ASSUME NEW rev \in Revision, NEW kids \in SUBSET Nat, NEW next \in Nat \cup {NoRev}
  PROVE  /\ Given(rev, kids, next) \in Revision
         /\ Given(rev, kids, next).parent = rev.parent
         /\ Given(rev, kids, next).before = rev.before
         /\ Given(rev, kids, next).after = rev.after
         /\ Given(rev, kids, next).children = kids
         /\ Given(rev, kids, next).redo = next
  BY DEF Revision, Given

\* A recorded edit grows the tree by its newest revision.
LEMMA RecordKeeps ==
  ASSUME NEW n \in Nat, NEW R, Tree(R, n), NEW cur \in DOMAIN R,
         NEW pre \in Text, NEW post \in Text, Fits(R, cur, pre), RedoLeadsBack(R, cur)
  PROVE  LET S == RecordIn(R, cur, n + 1, pre, post)
         IN  /\ Tree(S, n + 1) /\ n + 1 \in DOMAIN S /\ DOMAIN S = DOMAIN R \cup {n + 1}
             /\ Fits(S, n + 1, post) /\ RedoLeadsBack(S, n + 1)
             /\ KeepsTexts(R, cur, pre, S, n + 1, post)
  <1> DEFINE new == n + 1
             S == RecordIn(R, cur, new, pre, post)
  <1>0. /\ Rooted(R) /\ DOMAIN R \subseteq 0 .. n /\ TreeSound(R) /\ ROOT \in DOMAIN R
        /\ \A id \in DOMAIN R : R[id] \in Revision
        /\ \A id \in DOMAIN R \ {ROOT} : R[id].before \in Text
    BY TreeIsRooted DEF Tree, Rooted
  <1>1. new \notin DOMAIN R /\ new # ROOT /\ new \in Nat /\ cur # new /\ cur < new /\ cur \in Nat
    BY <1>0 DEF ROOT
  <1>2. /\ DOMAIN S = DOMAIN R \cup {new}
        /\ S[new] = [parent |-> cur, before |-> pre, after |-> post, children |-> {}, redo |-> NoRev]
        /\ S[cur] = [R[cur] EXCEPT !.children = @ \cup {new}, !.redo = new]
        /\ \A id \in DOMAIN R \ {cur} : S[id] = R[id]
    BY <1>1 DEF RecordIn
  <1> HIDE DEF S
  <1>3. /\ S[new].parent = cur /\ S[new].before = pre /\ S[new].after = post
        /\ S[new].children = {} /\ S[new].redo = NoRev
        /\ S[new] \in Revision
    BY <1>1, <1>2 DEF Revision
  <1>4. /\ S[cur].parent = R[cur].parent /\ S[cur].before = R[cur].before
        /\ S[cur].after = R[cur].after /\ S[cur].children = R[cur].children \cup {new}
        /\ S[cur].redo = new /\ S[cur] \in Revision
    <2>1. R[cur] \in Revision
      BY <1>0
    <2> DEFINE kids == R[cur].children \cup {new}
    <2>2. kids \in SUBSET Nat
      BY <1>1, <2>1 DEF Revision
    <2>3. S[cur] = Given(R[cur], kids, new)
      BY <1>2 DEF Given
    <2>4. new \in Nat \cup {NoRev}
      BY <1>1
    <2> HIDE DEF kids, new
    <2>5. /\ S[cur].parent = R[cur].parent /\ S[cur].before = R[cur].before
          /\ S[cur].after = R[cur].after /\ S[cur].children = kids
          /\ S[cur].redo = new /\ S[cur] \in Revision
      BY <2>1, <2>2, <2>3, <2>4, RevisionGiven
    <2> QED BY <2>5 DEF kids
  <1> HIDE DEF new
  <1>5. \A id \in DOMAIN R : /\ S[id].parent = R[id].parent /\ S[id].before = R[id].before
                             /\ S[id].after = R[id].after /\ S[id] \in Revision
    BY <1>0, <1>2, <1>4
  <1>6. Tree(S, new)
    <2>1. ROOT \in DOMAIN S /\ S[ROOT].parent = NoRev
      BY <1>0, <1>2, <1>5 DEF TreeSound
    <2>2. DOMAIN S \subseteq 0 .. new /\ \A id \in DOMAIN S : S[id] \in Revision
      BY <1>0, <1>1, <1>2, <1>3, <1>5 DEF new
    <2>3. ParentsOlder(S)
      BY <1>0, <1>1, <1>2, <1>3, <1>5 DEF Rooted, ParentsOlder
    <2>4. ASSUME NEW p \in DOMAIN S
          PROVE  /\ S[p].children = ChildrenOf(S, p)
                 /\ IF S[p].children = {} THEN S[p].redo = NoRev ELSE S[p].redo \in S[p].children
      <3>1. CASE p = new
        <4>1. ChildrenOf(S, new) = {}
          BY <1>0, <1>1, <1>2, <1>3, <1>5 DEF ChildrenOf, Rooted, ParentsOlder
        <4> QED BY <1>3, <3>1, <4>1
      <3>2. CASE p = cur
        <4>1. ChildrenOf(S, cur) = ChildrenOf(R, cur) \cup {new}
          BY <1>1, <1>2, <1>3, <1>5 DEF ChildrenOf
        <4> QED BY <1>0, <1>4, <3>2, <4>1 DEF TreeSound
      <3>3. CASE p # new /\ p # cur
        <4>1. ChildrenOf(S, p) = ChildrenOf(R, p)
          BY <1>2, <1>3, <1>5, <3>3 DEF ChildrenOf
        <4>2. S[p] = R[p] /\ p \in DOMAIN R
          BY <1>2, <3>3
        <4> QED BY <1>0, <4>1, <4>2 DEF TreeSound
      <3> QED BY <3>1, <3>2, <3>3
    <2>5. \A id \in DOMAIN S \ {ROOT} : S[id].before \in Text
      BY <1>0, <1>2, <1>3, <1>5
    <2> QED BY <2>1, <2>2, <2>3, <2>4, <2>5 DEF Tree, TreeSound
  <1>7. KeepsTexts(R, cur, pre, S, new, post)
    <2> SUFFICES ASSUME NEW r \in DOMAIN R, NEW t, HoldsText(R, cur, pre, r, t)
                 PROVE  HoldsText(S, new, post, r, t)
      BY DEF KeepsTexts
    <2>1. CASE r # ROOT
      BY <1>5, <2>1 DEF HoldsText
    <2>2. CASE r = ROOT
      <3>1. ASSUME NEW c \in DOMAIN S \ {ROOT}, S[c].parent = ROOT PROVE S[c].before = t
        <4>1. CASE c = new
          <5>1. cur = ROOT /\ S[c].before = pre
            BY <1>3, <3>1, <4>1
          <5> QED BY <2>2, <5>1 DEF HoldsText
        <4>2. CASE c # new
          <5>1. c \in DOMAIN R \ {ROOT} /\ R[c].parent = ROOT /\ S[c].before = R[c].before
            BY <1>2, <1>5, <3>1, <4>2
          <5> QED BY <2>2, <5>1 DEF HoldsText
        <4> QED BY <4>1, <4>2
      <3> QED BY <1>1, <2>2, <3>1 DEF HoldsText
    <2> QED BY <2>1, <2>2
  <1>8. Fits(S, new, post)
    <2>1. ASSUME NEW id \in DOMAIN S \ {ROOT}
          PROVE  S[id].after \in Text /\ HoldsText(S, new, post, S[id].parent, S[id].before)
      <3>1. CASE id = new
        <4>1. HoldsText(S, new, post, cur, pre)
          BY <1>2, <1>7 DEF Fits, KeepsTexts
        <4> QED BY <1>3, <3>1, <4>1
      <3>2. CASE id # new
        <4>1. id \in DOMAIN R \ {ROOT} /\ R[id].parent \in DOMAIN R
          BY <1>0, <1>2, <3>2 DEF Rooted, ParentsOlder
        <4>2. R[id].after \in Text /\ HoldsText(R, cur, pre, R[id].parent, R[id].before)
          BY <4>1 DEF Fits, LinksMeet
        <4>3. HoldsText(S, new, post, R[id].parent, R[id].before)
          BY <1>2, <1>7, <4>1, <4>2 DEF KeepsTexts
        <4> QED BY <1>5, <4>1, <4>2, <4>3
      <3> QED BY <3>1, <3>2
    <2>2. HoldsText(S, new, post, new, post)
      BY <1>1, <1>3 DEF HoldsText
    <2> QED BY <2>1, <2>2 DEF Fits, LinksMeet
  <1>9. RedoLeadsBack(S, new)
    <2>1. Ancestors(S, new) \subseteq Ancestors(R, cur) \cup {new}
      <3> DEFINE T == Ancestors(R, cur) \cup {new}
      <3>1. T \in SUBSET DOMAIN S /\ new \in T
        BY <1>0, <1>2, AncestorsClosed
      <3>2. \A y \in T : y # ROOT => S[y].parent \in T
        BY <1>0, <1>3, <1>5, AncestorsClosed
      <3> HIDE DEF T
      <3>3. Ancestors(S, new) \subseteq T
        BY <1>2, <3>1, <3>2, AncestorsLeast
      <3> QED BY <3>3 DEF T
    <2>2. ASSUME NEW id \in Ancestors(R, cur) \ {ROOT} PROVE S[S[id].parent].redo = id
      <3>1. id \in DOMAIN R /\ R[id].parent < id /\ id <= cur /\ R[id].parent \in DOMAIN R
        BY <1>0, AncestorsClosed, AncestorsOlder DEF Rooted, ParentsOlder
      <3>2. R[id].parent # cur
        BY <1>0, <1>1, <3>1
      <3> QED BY <1>2, <1>5, <3>1, <3>2 DEF RedoLeadsBack
    <2>3. S[S[new].parent].redo = new
      BY <1>3, <1>4
    <2> QED BY <2>1, <2>2, <2>3 DEF RedoLeadsBack
  <1> QED BY <1>2, <1>6, <1>7, <1>8, <1>9 DEF new, S

\* The trim discards a whole branch that the current revision is not on.
LEMMA DiscardKeeps ==
  ASSUME NEW n \in Nat, NEW R, Tree(R, n), NEW cur \in DOMAIN R, NEW here,
         Fits(R, cur, here), RedoLeadsBack(R, cur), Cardinality(R[ROOT].children) > 1
  PROVE  LET S == RemoveSubtree(R, Victim(R, cur))
         IN  /\ Tree(S, n) /\ DOMAIN S \subseteq DOMAIN R /\ cur \in DOMAIN S
             /\ Fits(S, cur, here) /\ RedoLeadsBack(S, cur)
             /\ KeepsTexts(R, cur, here, S, cur, here)
  <1> DEFINE kids == R[ROOT].children
             c == Victim(R, cur)
             S == RemoveSubtree(R, c)
             left == kids \ {c}
             next == IF R[ROOT].redo # c THEN R[ROOT].redo
                     ELSE IF left = {} THEN NoRev ELSE Newest(left)
  <1>0. /\ Rooted(R) /\ DOMAIN R \subseteq 0 .. n /\ TreeSound(R) /\ ROOT \in DOMAIN R
        /\ \A id \in DOMAIN R : R[id] \in Revision
        /\ \A id \in DOMAIN R \ {ROOT} : R[id].before \in Text
        /\ IsFiniteSet(DOMAIN R)
    BY TreeIsRooted DEF Tree, Rooted
  <1>1. kids = ChildrenOf(R, ROOT) /\ kids \subseteq DOMAIN R /\ IsFiniteSet(kids)
    <2>1. kids = ChildrenOf(R, ROOT)
      BY <1>0 DEF TreeSound
    <2> QED BY <1>0, <2>1, FS_Subset DEF ChildrenOf
  <1>2. PICK x \in kids, y \in kids : x # y
    BY <1>1, MoreThanOne
  <1>3. c \in kids /\ c \notin Ancestors(R, cur)
    <2> DEFINE off == kids \ Ancestors(R, cur)
    <2>1. off # {}
      <3> SUFFICES ASSUME x \in Ancestors(R, cur), y \in Ancestors(R, cur) PROVE FALSE
        BY <1>2
      <3>1. R[x].parent = R[y].parent /\ x # ROOT /\ y # ROOT
        BY <1>1 DEF ChildrenOf
      <3> QED BY <1>0, <1>2, <3>1, OneChild
    <2>2. off \in SUBSET Nat
      BY <1>0, <1>1
    <2>3. Oldest(off) \in off
      <3> HIDE DEF off
      <3> QED BY <2>1, <2>2, OldestIsOne
    <2> QED BY <2>3 DEF Victim
  <1>4. c \in DOMAIN R \ {ROOT} /\ R[c].parent = ROOT
    BY <1>1, <1>3 DEF ChildrenOf
  <1>5. left # {} /\ left \in SUBSET (0 .. n)
    BY <1>0, <1>1, <1>2
  <1>6. next \in left /\ (R[ROOT].redo # c => next = R[ROOT].redo)
    <2>1. R[ROOT].redo \in kids
      BY <1>0, <1>2 DEF TreeSound
    <2>2. Newest(left) \in left
      <3> HIDE DEF left
      <3> QED BY <1>5, NewestIsOne
    <2> QED BY <1>5, <2>1, <2>2
  <1> DEFINE D == {z \in DOMAIN R : c \notin Ancestors(R, z)}
  <1>7. /\ DOMAIN S = D
        /\ S[ROOT] = Given(R[ROOT], left, next)
        /\ \A id \in D \ {ROOT} : S[id] = R[id]
    <2>1. ROOT \in D
      BY <1>0, <1>4, AncestorsStep
    <2>2. WithoutChild(R[ROOT], c) = Given(R[ROOT], left, next)
      BY DEF WithoutChild, Given
    <2>3. S[ROOT] = WithoutChild(R[ROOT], c)
      BY <2>1 DEF RemoveSubtree
    <2>4. \A id \in D \ {ROOT} : S[id] = R[id]
      BY DEF RemoveSubtree
    <2> QED BY <2>2, <2>3, <2>4 DEF RemoveSubtree
  <1>8. /\ ROOT \in D /\ cur \in D /\ c \notin D
        /\ \A z \in D : Ancestors(R, z) \subseteq D
        /\ \A z \in DOMAIN R \ {ROOT, c} : R[z].parent \in D => z \in D
        /\ \A z \in D \ {ROOT} : R[z].parent \in D /\ R[z].parent < z
    <2>1. ROOT \in D /\ cur \in D
      BY <1>0, <1>3, <1>4, AncestorsStep
    <2>2. c \notin D
      BY <1>0, <1>4, AncestorsClosed
    <2>3. ASSUME NEW z \in D PROVE Ancestors(R, z) \subseteq D
      BY <1>0, AncestorsClosed, AncestorsOlder
    <2>4. ASSUME NEW z \in DOMAIN R \ {ROOT, c}, R[z].parent \in D PROVE z \in D
      BY <1>0, <2>4, AncestorsStep
    <2>5. ASSUME NEW z \in D \ {ROOT} PROVE R[z].parent \in D /\ R[z].parent < z
      <3>1. R[z].parent \in Ancestors(R, z)
        BY <1>0, AncestorsClosed
      <3> QED BY <1>0, <2>3, <3>1 DEF Rooted, ParentsOlder
    <2> QED BY <2>1, <2>2, <2>3, <2>4, <2>5
  <1>9. D \subseteq DOMAIN R
    OBVIOUS
  <1> HIDE DEF S, D, c
  <1>10. /\ S[ROOT] \in Revision /\ S[ROOT].parent = NoRev
         /\ S[ROOT].children = left /\ S[ROOT].redo = next
    <2>1. R[ROOT] \in Revision /\ R[ROOT].parent = NoRev
      BY <1>0 DEF TreeSound
    <2>2. left \in SUBSET Nat /\ next \in Nat \cup {NoRev}
      BY <1>5, <1>6
    <2> HIDE DEF left, next
    <2> QED BY <1>7, <2>1, <2>2, RevisionGiven
  <1>11. Tree(S, n)
    <2>1. ParentsOlder(S)
      BY <1>7, <1>8 DEF ParentsOlder
    <2>2. ASSUME NEW p \in D
          PROVE  /\ S[p].children = ChildrenOf(S, p)
                 /\ IF S[p].children = {} THEN S[p].redo = NoRev ELSE S[p].redo \in S[p].children
      <3>1. CASE p = ROOT
        <4>1. ChildrenOf(S, ROOT) = ChildrenOf(R, ROOT) \ {c}
          BY <1>4, <1>7, <1>8, <1>9 DEF ChildrenOf
        <4> QED BY <1>1, <1>5, <1>6, <1>10, <3>1, <4>1
      <3>2. CASE p # ROOT
        <4>1. ChildrenOf(S, p) = ChildrenOf(R, p)
          BY <1>4, <1>7, <1>8, <1>9, <3>2 DEF ChildrenOf
        <4>2. S[p] = R[p] /\ p \in DOMAIN R
          BY <1>7, <1>9, <3>2
        <4> QED BY <1>0, <4>1, <4>2 DEF TreeSound
      <3> QED BY <3>1, <3>2
    <2>3. TreeSound(S)
      BY <1>7, <1>8, <1>10, <2>1, <2>2 DEF TreeSound
    <2>4. \A id \in D : S[id] \in Revision
      BY <1>0, <1>7, <1>9, <1>10
    <2>5. \A id \in D \ {ROOT} : S[id].before \in Text
      BY <1>0, <1>7, <1>9
    <2> QED BY <1>0, <1>7, <1>9, <2>3, <2>4, <2>5 DEF Tree
  <1>12. \A r \in D : \A t : HoldsText(R, cur, here, r, t) => HoldsText(S, cur, here, r, t)
    BY <1>7, <1>9 DEF HoldsText
  <1>13. Fits(S, cur, here)
    <2>1. ASSUME NEW id \in D \ {ROOT}
          PROVE  S[id].after \in Text /\ HoldsText(S, cur, here, S[id].parent, S[id].before)
      <3>1. S[id] = R[id] /\ id \in DOMAIN R \ {ROOT} /\ R[id].parent \in D
        BY <1>7, <1>8, <1>9
      <3> QED BY <1>12, <3>1 DEF Fits, LinksMeet
    <2> QED BY <1>7, <1>8, <1>12, <2>1 DEF Fits, LinksMeet
  <1>14. RedoLeadsBack(S, cur)
    <2>1. Ancestors(S, cur) \subseteq Ancestors(R, cur)
      <3> DEFINE T == Ancestors(R, cur)
      <3>1. T \in SUBSET DOMAIN S /\ cur \in T
        BY <1>0, <1>7, <1>8, AncestorsClosed
      <3>2. \A y1 \in T : y1 # ROOT => S[y1].parent \in T
        BY <1>0, <1>7, <3>1, AncestorsClosed
      <3> QED BY <1>7, <1>8, <3>1, <3>2, AncestorsLeast
    <2>2. ASSUME NEW id \in Ancestors(S, cur) \ {ROOT} PROVE S[S[id].parent].redo = id
      <3>1. id \in Ancestors(R, cur) \ {ROOT} /\ id \in D /\ id # c
        BY <1>3, <1>8, <2>1
      <3>2. R[R[id].parent].redo = id /\ S[id].parent = R[id].parent /\ R[id].parent \in D
        BY <1>7, <1>8, <3>1 DEF RedoLeadsBack
      <3>3. CASE R[id].parent = ROOT
        BY <1>6, <1>10, <3>1, <3>2, <3>3
      <3>4. CASE R[id].parent # ROOT
        BY <1>7, <3>2, <3>4
      <3> QED BY <3>3, <3>4
    <2> QED BY <2>2 DEF RedoLeadsBack
  <1>15. DOMAIN S \subseteq DOMAIN R /\ cur \in DOMAIN S
    BY <1>7, <1>8, <1>9
  <1>16. KeepsTexts(R, cur, here, S, cur, here)
    BY <1>7, <1>12 DEF KeepsTexts
  <1> QED BY <1>11, <1>13, <1>14, <1>15, <1>16 DEF S, c

\* A revision moved under the root keeps all but its parent.
Reparented(rev) == [rev EXCEPT !.parent = ROOT]

LEMMA RevisionReparented ==
  ASSUME NEW rev \in Revision
  PROVE  /\ Reparented(rev) \in Revision /\ Reparented(rev).parent = ROOT
         /\ Reparented(rev).before = rev.before /\ Reparented(rev).after = rev.after
         /\ Reparented(rev).children = rev.children /\ Reparented(rev).redo = rev.redo
  BY DEF Revision, Reparented, ROOT

\* The trim makes the root's only child the root: the root now holds what
\* that child held, and every other revision what it did.
LEMMA PromoteKeeps ==
  ASSUME NEW n \in Nat, NEW R, Tree(R, n), NEW cur \in DOMAIN R, NEW here,
         Fits(R, cur, here), RedoLeadsBack(R, cur),
         NEW c, R[ROOT].children = {c}, cur \notin {ROOT, c}
  PROVE  LET S == PromoteChild(R, c)
         IN  /\ Tree(S, n) /\ DOMAIN S = DOMAIN R \ {c} /\ c # ROOT /\ c \in DOMAIN R
             /\ Fits(S, cur, here) /\ RedoLeadsBack(S, cur)
             /\ \A r \in DOMAIN S \ {ROOT} : \A t :
                  HoldsText(R, cur, here, r, t) => HoldsText(S, cur, here, r, t)
             /\ \A t : HoldsText(R, cur, here, c, t) => HoldsText(S, cur, here, ROOT, t)
  <1> DEFINE S == PromoteChild(R, c)
             D == DOMAIN R \ {c}
             kids == R[c].children
  <1>0. /\ Rooted(R) /\ DOMAIN R \subseteq 0 .. n /\ TreeSound(R) /\ ROOT \in DOMAIN R
        /\ \A id \in DOMAIN R : R[id] \in Revision
        /\ \A id \in DOMAIN R \ {ROOT} : R[id].before \in Text
    BY TreeIsRooted DEF Tree, Rooted
  <1>1. ChildrenOf(R, ROOT) = {c}
    BY <1>0 DEF TreeSound
  <1>2. /\ c \in DOMAIN R \ {ROOT} /\ R[c].parent = ROOT
        /\ \A id \in D \ {ROOT} : R[id].parent # ROOT
    BY <1>1 DEF ChildrenOf
  <1>3. kids = ChildrenOf(R, c)
    BY <1>0, <1>2 DEF TreeSound
  <1>4. /\ \A id \in D : id \in kids <=> (id # ROOT /\ R[id].parent = c)
        /\ c \notin kids /\ ROOT \notin kids /\ kids \subseteq D
    BY <1>2, <1>3 DEF ChildrenOf
  <1>5. /\ DOMAIN S = D /\ ROOT \in D /\ cur \in D
        /\ S[ROOT] = Given(R[ROOT], kids, R[c].redo)
        /\ \A id \in kids : S[id] = Reparented(R[id])
        /\ \A id \in D \ (kids \cup {ROOT}) : S[id] = R[id]
    BY <1>0, <1>2, <1>4 DEF PromoteChild, Given, Reparented
  <1>6. D \subseteq DOMAIN R /\ c \notin D
    OBVIOUS
  <1> HIDE DEF S, D, kids
  <1>7. /\ S[ROOT] \in Revision /\ S[ROOT].parent = NoRev
        /\ S[ROOT].children = kids /\ S[ROOT].redo = R[c].redo
    <2>1. R[ROOT] \in Revision /\ R[ROOT].parent = NoRev /\ R[c] \in Revision
      BY <1>0, <1>2 DEF TreeSound
    <2>2. kids \in SUBSET Nat /\ R[c].redo \in Nat \cup {NoRev}
      BY <2>1 DEF Revision, kids
    <2> DEFINE next == R[c].redo
    <2> HIDE DEF next
    <2>3. next \in Nat \cup {NoRev}
      BY <2>2 DEF next
    <2>4. /\ Given(R[ROOT], kids, next) \in Revision
          /\ Given(R[ROOT], kids, next).parent = R[ROOT].parent
          /\ Given(R[ROOT], kids, next).children = kids
          /\ Given(R[ROOT], kids, next).redo = next
      BY <2>1, <2>2, <2>3, RevisionGiven
    <2> QED BY <1>5, <2>1, <2>4 DEF next
  <1>8. \A id \in D \ {ROOT} :
          /\ S[id] \in Revision
          /\ S[id].parent = IF id \in kids THEN ROOT ELSE R[id].parent
          /\ S[id].before = R[id].before /\ S[id].after = R[id].after
          /\ S[id].children = R[id].children /\ S[id].redo = R[id].redo
    <2> SUFFICES ASSUME NEW id \in D \ {ROOT}
                 PROVE  /\ S[id] \in Revision
                        /\ S[id].parent = IF id \in kids THEN ROOT ELSE R[id].parent
                        /\ S[id].before = R[id].before /\ S[id].after = R[id].after
                        /\ S[id].children = R[id].children /\ S[id].redo = R[id].redo
      OBVIOUS
    <2>1. R[id] \in Revision
      BY <1>0, <1>6
    <2>2. CASE id \in kids
      <3>1. S[id] = Reparented(R[id])
        BY <1>5, <2>2
      <3> QED BY <2>1, <2>2, <3>1, RevisionReparented
    <2>3. CASE id \notin kids
      BY <1>5, <2>1, <2>3
    <2> QED BY <2>2, <2>3
  <1>9. /\ \A id \in D \ {ROOT} : S[id].parent \in D /\ S[id].parent < id
        /\ \A id \in D \ {ROOT} : S[id].parent = ROOT <=> id \in kids
    <2> SUFFICES ASSUME NEW id \in D \ {ROOT}
                 PROVE  /\ S[id].parent \in D /\ S[id].parent < id
                        /\ S[id].parent = ROOT <=> id \in kids
      OBVIOUS
    <2>1. id \in Nat /\ R[id].parent \in DOMAIN R /\ R[id].parent < id /\ R[id].parent # ROOT
      BY <1>0, <1>2, <1>6 DEF Rooted, ParentsOlder, D
    <2>2. CASE id \in kids
      BY <1>5, <1>8, <2>1, <2>2 DEF ROOT
    <2>3. CASE id \notin kids
      BY <1>4, <1>8, <2>1, <2>3 DEF D
    <2> QED BY <2>2, <2>3
  <1>10. Tree(S, n)
    <2>1. ParentsOlder(S)
      BY <1>5, <1>9 DEF ParentsOlder
    <2>2. ASSUME NEW p \in D
          PROVE  /\ S[p].children = ChildrenOf(S, p)
                 /\ IF S[p].children = {} THEN S[p].redo = NoRev ELSE S[p].redo \in S[p].children
      <3>1. CASE p = ROOT
        <4>1. ChildrenOf(S, ROOT) = kids
          BY <1>4, <1>5, <1>9 DEF ChildrenOf
        <4>2. IF kids = {} THEN R[c].redo = NoRev ELSE R[c].redo \in kids
          BY <1>0, <1>2 DEF TreeSound, kids
        <4> QED BY <1>7, <3>1, <4>1, <4>2
      <3>2. CASE p # ROOT
        <4>1. ASSUME NEW x \in ChildrenOf(S, p) PROVE x \in ChildrenOf(R, p)
          BY <1>5, <1>6, <1>8, <3>2, <4>1 DEF ChildrenOf
        <4>2. ASSUME NEW x \in ChildrenOf(R, p) PROVE x \in ChildrenOf(S, p)
          <5>1. x \in D \ {ROOT} /\ x \notin kids /\ R[x].parent = p
            BY <1>2, <1>4, <1>6, <3>2, <4>2 DEF ChildrenOf, D
          <5> QED BY <1>5, <1>8, <5>1 DEF ChildrenOf
        <4>3. ChildrenOf(S, p) = ChildrenOf(R, p)
          BY <4>1, <4>2
        <4>4. S[p].children = R[p].children /\ S[p].redo = R[p].redo /\ p \in DOMAIN R
          BY <1>6, <1>8, <3>2
        <4> QED BY <1>0, <4>3, <4>4 DEF TreeSound
      <3> QED BY <3>1, <3>2
    <2>3. TreeSound(S)
      BY <1>5, <1>7, <2>1, <2>2 DEF TreeSound
    <2>4. \A id \in D : S[id] \in Revision
      BY <1>7, <1>8
    <2>5. \A id \in D \ {ROOT} : S[id].before \in Text
      BY <1>0, <1>6, <1>8
    <2> QED BY <1>0, <1>5, <1>6, <2>3, <2>4, <2>5 DEF Tree
  <1>11. \A r \in D \ {ROOT} : \A t :
           HoldsText(R, cur, here, r, t) => HoldsText(S, cur, here, r, t)
    BY <1>8 DEF HoldsText
  <1>12. \A t : R[c].after = t => HoldsText(S, cur, here, ROOT, t)
    <2>1. ASSUME NEW id \in D \ {ROOT}, S[id].parent = ROOT PROVE S[id].before = R[c].after
      <3>1. id \in kids /\ R[id].parent = c /\ id \in DOMAIN R \ {ROOT} /\ S[id].before = R[id].before
        BY <1>4, <1>6, <1>8, <1>9, <2>1
      <3>2. HoldsText(R, cur, here, c, R[id].before)
        BY <3>1 DEF Fits, LinksMeet
      <3> QED BY <1>2, <3>1, <3>2 DEF HoldsText
    <2> QED BY <1>5, <2>1 DEF HoldsText
  <1>13. Fits(S, cur, here)
    <2>1. ASSUME NEW id \in D \ {ROOT}
          PROVE  S[id].after \in Text /\ HoldsText(S, cur, here, S[id].parent, S[id].before)
      <3>1. /\ id \in DOMAIN R \ {ROOT} /\ S[id].after = R[id].after /\ S[id].before = R[id].before
            /\ R[id].after \in Text /\ HoldsText(R, cur, here, R[id].parent, R[id].before)
        BY <1>6, <1>8 DEF Fits, LinksMeet
      <3>2. CASE id \in kids
        <4>1. R[id].parent = c /\ S[id].parent = ROOT
          BY <1>4, <1>8, <3>2
        <4>2. R[c].after = R[id].before
          BY <1>2, <3>1, <4>1 DEF HoldsText
        <4> QED BY <1>12, <3>1, <4>1, <4>2
      <3>3. CASE id \notin kids
        <4>1. S[id].parent = R[id].parent /\ S[id].parent \in D \ {ROOT}
          BY <1>8, <1>9, <3>3
        <4> QED BY <1>11, <3>1, <4>1
      <3> QED BY <3>2, <3>3
    <2>2. HoldsText(S, cur, here, cur, here)
      BY <1>5, <1>11 DEF Fits
    <2> QED BY <1>5, <2>1, <2>2 DEF Fits, LinksMeet
  <1>14. RedoLeadsBack(S, cur)
    <2> DEFINE T == Ancestors(R, cur) \ {c}
    <2>0. Ancestors(R, cur) \subseteq DOMAIN R /\ cur \in Ancestors(R, cur) /\ ROOT \in Ancestors(R, cur)
      BY <1>0, AncestorsClosed, AncestorsOlder
    <2>1. Ancestors(S, cur) \subseteq T
      <3>1. T \in SUBSET D /\ cur \in T /\ ROOT \in T
        BY <1>2, <2>0 DEF D
      <3>2. ASSUME NEW y \in T, y # ROOT PROVE S[y].parent \in T
        <4>1. y \in D \ {ROOT} /\ R[y].parent \in Ancestors(R, cur)
          BY <1>0, <3>1, <3>2, AncestorsClosed
        <4>2. S[y].parent \in D /\ (S[y].parent = ROOT \/ S[y].parent = R[y].parent)
          BY <1>8, <1>9, <4>1
        <4> QED BY <1>6, <3>1, <4>1, <4>2
      <3> HIDE DEF T
      <3> QED BY <1>5, <3>1, <3>2, AncestorsLeast
    <2>2. ASSUME NEW id \in Ancestors(S, cur) \ {ROOT} PROVE S[S[id].parent].redo = id
      <3>1. id \in Ancestors(R, cur) \ {ROOT} /\ id \in D \ {ROOT}
        BY <2>0, <2>1 DEF D
      <3>2. R[R[id].parent].redo = id
        BY <3>1 DEF RedoLeadsBack
      <3>3. CASE id \in kids
        <4>1. R[id].parent = c /\ S[id].parent = ROOT
          BY <1>4, <1>8, <3>1, <3>3
        <4> QED BY <1>7, <3>2, <4>1
      <3>4. CASE id \notin kids
        <4>1. S[id].parent = R[id].parent /\ S[id].parent \in D \ {ROOT}
          BY <1>8, <1>9, <3>1, <3>4
        <4> QED BY <1>8, <3>2, <4>1
      <3> QED BY <3>3, <3>4
    <2> QED BY <2>2 DEF RedoLeadsBack
  <1>15. DOMAIN S = DOMAIN R \ {c} /\ c # ROOT /\ c \in DOMAIN R
    BY <1>2, <1>5 DEF D
  <1>16. \A t : HoldsText(R, cur, here, c, t) => HoldsText(S, cur, here, ROOT, t)
    BY <1>2, <1>12 DEF HoldsText
  <1>17. \A r \in DOMAIN S \ {ROOT} : \A t :
           HoldsText(R, cur, here, r, t) => HoldsText(S, cur, here, r, t)
    BY <1>5, <1>11
  <1> QED BY <1>10, <1>13, <1>14, <1>15, <1>16, <1>17 DEF S

\* Undoing goes to an ancestor, from which redo leads back as before.
LEMMA UndoLeadsBack ==
  ASSUME NEW R, Rooted(R), NEW cur \in DOMAIN R, RedoLeadsBack(R, cur),
         NEW target \in Ancestors(R, cur)
  PROVE  RedoLeadsBack(R, target)
  BY AncestorsOlder DEF RedoLeadsBack

\* Redo goes to revisions from which undo and redo lead back.
LEMMA RedoStays ==
  ASSUME NEW R, Rooted(R), TreeSound(R), NEW cur \in DOMAIN R, RedoLeadsBack(R, cur),
         NEW target \in RedoChain(R, cur), target # cur
  PROVE  target \in DOMAIN R \ {ROOT} /\ RedoLeadsBack(R, target)
  <1> DEFINE T == {y \in DOMAIN R : RedoLeadsBack(R, y) /\ (y = cur \/ y # ROOT)}
  <1>1. T \in SUBSET DOMAIN R /\ cur \in T
    OBVIOUS
  <1>2. ASSUME NEW y \in T, R[y].redo # NoRev PROVE R[y].redo \in T
    <2> DEFINE d == R[y].redo
    <2>1. d \in ChildrenOf(R, y)
      BY <1>2 DEF TreeSound
    <2>2. d \in DOMAIN R \ {ROOT} /\ R[d].parent = y
      BY <2>1 DEF ChildrenOf
    <2>3. Ancestors(R, d) = {d} \cup Ancestors(R, y)
      BY <2>2, AncestorsStep
    <2>4. RedoLeadsBack(R, y)
      BY <1>2
    <2>5. RedoLeadsBack(R, d)
      BY <2>2, <2>3, <2>4 DEF RedoLeadsBack
    <2> QED BY <2>2, <2>5
  <1>3. ClosedRedo(R, T)
    <2> HIDE DEF T
    <2> QED BY <1>2 DEF ClosedRedo
  <1>4. target \in T
    <2> HIDE DEF T
    <2> QED BY <1>1, <1>3 DEF RedoChain
  <1> QED BY <1>4

\* A tree whose child lists are as it has them can be marked and rebuilt.
LEMMA SameTree ==
  ASSUME NEW n \in Nat, NEW R, Rooted(R), DOMAIN R \subseteq 0 .. n, R[ROOT].parent = NoRev,
         \A id \in DOMAIN R \ {ROOT} : R[id].before \in Text,
         NEW S, SameLinks(R, S), \A id \in DOMAIN R : S[id] \in Revision,
         \A p \in DOMAIN R : /\ S[p].children = ChildrenOf(R, p)
                             /\ IF ChildrenOf(R, p) = {} THEN S[p].redo = NoRev
                                ELSE S[p].redo \in ChildrenOf(R, p)
  PROVE  Tree(S, n)
  <1>1. \A x : ChildrenOf(S, x) = ChildrenOf(R, x)
    BY DEF ChildrenOf, SameLinks
  <1>2. DOMAIN S = DOMAIN R /\ ROOT \in DOMAIN S /\ S[ROOT].parent = NoRev /\ ParentsOlder(S)
    BY DEF SameLinks, Rooted, ParentsOlder
  <1>3. TreeSound(S)
    BY <1>1, <1>2 DEF TreeSound
  <1>4. \A id \in DOMAIN S \ {ROOT} : S[id].before \in Text
    BY DEF SameLinks
  <1> QED BY <1>2, <1>3, <1>4 DEF Tree

\* A revision given another redo child keeps all else.
Redirected(rev, next) == [rev EXCEPT !.redo = next]

LEMMA RevisionRedirected ==
  ASSUME NEW rev \in Revision, NEW next \in Nat \cup {NoRev}
  PROVE  /\ Redirected(rev, next) \in Revision
         /\ Redirected(rev, next).parent = rev.parent
         /\ Redirected(rev, next).before = rev.before
         /\ Redirected(rev, next).after = rev.after
         /\ Redirected(rev, next).children = rev.children
         /\ Redirected(rev, next).redo = next
  BY DEF Revision, Redirected

\* goto_revision marks the way it came: a walk of both legs ends where redo
\* leads back to its target.
LEMMA GotoKeeps ==
  ASSUME NEW n \in Nat, NEW R, Tree(R, n), NEW cur \in DOMAIN R, NEW here,
         Fits(R, cur, here), RedoLeadsBack(R, cur),
         NEW target \in DOMAIN R, target # cur
  PROVE  LET S == MarkRedo(R, DownPath(R, cur, target))
             t == WalkResult(R, cur, target)
         IN  /\ Tree(S, n) /\ DOMAIN S = DOMAIN R
             /\ Fits(S, target, t) /\ RedoLeadsBack(S, target)
             /\ KeepsTexts(R, cur, here, S, target, t)
  <1> DEFINE down == DownPath(R, cur, target)
             S == MarkRedo(R, down)
             t == WalkResult(R, cur, target)
             into(id) == CHOOSE d \in down : R[d].parent = id
  <1>0. /\ Rooted(R) /\ DOMAIN R \subseteq 0 .. n /\ DOMAIN R \subseteq Nat /\ TreeSound(R)
        /\ ROOT \in DOMAIN R /\ R[ROOT].parent = NoRev
        /\ \A id \in DOMAIN R : R[id] \in Revision
        /\ \A id \in DOMAIN R \ {ROOT} : R[id].before \in Text
    BY TreeIsRooted DEF Tree, TreeSound, Rooted
  <1>1. down \subseteq Ancestors(R, target) \ {ROOT} /\ down \subseteq DOMAIN R
    BY <1>0, AncestorsClosed, AncestorsOlder DEF DownPath
  <1>2. ASSUME NEW d \in down, NEW e \in Ancestors(R, target) \ {ROOT}, R[d].parent = R[e].parent
        PROVE  d = e
    BY <1>0, <1>1, <1>2, OneChild
  <1>3. DOMAIN S = DOMAIN R
    BY DEF MarkRedo
  <1>4. ASSUME NEW id \in DOMAIN R, NEW d \in down, R[d].parent = id
        PROVE  S[id] = Redirected(R[id], d)
    <2>1. into(id) \in down /\ R[into(id)].parent = id
      BY <1>4
    <2>2. into(id) = d
      BY <1>1, <1>2, <1>4, <2>1
    <2>3. S[id] = Redirected(R[id], into(id))
      BY <1>4 DEF MarkRedo, Redirected
    <2> QED BY <2>2, <2>3
  <1>5. ASSUME NEW id \in DOMAIN R, \A d \in down : R[d].parent # id
        PROVE  S[id] = R[id]
    BY <1>5 DEF MarkRedo
  <1> HIDE DEF S, down
  <1>6. ASSUME NEW id \in DOMAIN R
        PROVE  /\ S[id].parent = R[id].parent /\ S[id].before = R[id].before
               /\ S[id].after = R[id].after /\ S[id].children = R[id].children
               /\ S[id] \in Revision
    <2>1. R[id] \in Revision
      BY <1>0
    <2>2. CASE \A d \in down : R[d].parent # id
      BY <1>5, <2>1, <2>2
    <2>3. CASE \E d \in down : R[d].parent = id
      <3>1. PICK d \in down : R[d].parent = id
        BY <2>3
      <3>2. d \in Nat \cup {NoRev}
        BY <1>0, <1>1
      <3>3. S[id] = Redirected(R[id], d)
        BY <1>4, <3>1
      <3> QED BY <2>1, <3>2, <3>3, RevisionRedirected
    <2> QED BY <2>2, <2>3
  <1>7. ASSUME NEW id \in DOMAIN R, NEW d \in down, R[d].parent = id
        PROVE  S[id].redo = d
    <2>1. R[id] \in Revision /\ d \in Nat \cup {NoRev}
      BY <1>0, <1>1
    <2>2. S[id] = Redirected(R[id], d)
      BY <1>4, <1>7
    <2> QED BY <2>1, <2>2, RevisionRedirected
  <1>8. SameLinks(R, S)
    BY <1>3, <1>6 DEF SameLinks
  <1>9. Tree(S, n)
    <2>1. ASSUME NEW p \in DOMAIN R
          PROVE  /\ S[p].children = ChildrenOf(R, p)
                 /\ IF ChildrenOf(R, p) = {} THEN S[p].redo = NoRev
                    ELSE S[p].redo \in ChildrenOf(R, p)
      <3>1. S[p].children = ChildrenOf(R, p)
        BY <1>0, <1>6 DEF TreeSound
      <3>2. CASE \A d \in down : R[d].parent # p
        BY <1>0, <1>5, <3>1, <3>2 DEF TreeSound
      <3>3. CASE \E d \in down : R[d].parent = p
        <4>1. PICK d \in down : R[d].parent = p
          BY <3>3
        <4>2. d \in ChildrenOf(R, p)
          BY <1>1, <4>1 DEF ChildrenOf
        <4>3. S[p].redo = d
          BY <1>7, <4>1
        <4> QED BY <3>1, <4>2, <4>3
      <3> QED BY <3>1, <3>2, <3>3
    <2>2. \A id \in DOMAIN R : S[id] \in Revision
      BY <1>6
    <2> QED BY <1>0, <1>8, <2>1, <2>2, SameTree
  <1>10. /\ Fits(S, cur, here) /\ KeepsTexts(R, cur, here, S, cur, here)
         /\ \A x \in DOMAIN R : Ancestors(S, x) = Ancestors(R, x)
    BY <1>0, <1>8, SameLinksKeep
  <1>11. HoldsText(R, cur, here, target, t)
    BY WalkArrives
  <1> HIDE DEF t
  <1>12. HoldsText(S, cur, here, target, t)
    BY <1>3, <1>10, <1>11 DEF KeepsTexts
  <1>13. Fits(S, target, t) /\ KeepsTexts(S, cur, here, S, target, t)
    BY <1>3, <1>9, <1>10, <1>12, WalkFits
  <1>14. KeepsTexts(R, cur, here, S, target, t)
    BY <1>3, <1>10, <1>13 DEF KeepsTexts
  <1>15. RedoLeadsBack(S, target)
    <2> SUFFICES ASSUME NEW id \in Ancestors(R, target) \ {ROOT}
                 PROVE  S[S[id].parent].redo = id
      BY <1>10 DEF RedoLeadsBack
    <2>1. id \in DOMAIN R /\ R[id].parent \in DOMAIN R /\ S[id].parent = R[id].parent
      BY <1>0, <1>6, AncestorsClosed DEF Rooted, ParentsOlder
    <2>2. CASE id \in down
      BY <1>7, <2>1, <2>2
    <2>3. CASE id \notin down
      <3>1. id \in Ancestors(R, cur) \ {ROOT}
        BY <2>3 DEF down, DownPath
      <3>2. \A d \in down : R[d].parent # R[id].parent
        BY <1>2, <2>3
      <3>3. S[R[id].parent] = R[R[id].parent]
        BY <1>5, <2>1, <3>2
      <3> QED BY <2>1, <3>1, <3>3 DEF RedoLeadsBack
    <2> QED BY <2>2, <2>3
  <1> QED BY <1>3, <1>9, <1>13, <1>14, <1>15 DEF S, down, t

\* A revision's child list remade.
WithChildren(rev, kids) == [rev EXCEPT !.children = kids]

LEMMA RevisionWithChildren ==
  ASSUME NEW rev \in Revision, NEW kids \in SUBSET Nat
  PROVE  /\ WithChildren(rev, kids) \in Revision
         /\ WithChildren(rev, kids).parent = rev.parent
         /\ WithChildren(rev, kids).before = rev.before
         /\ WithChildren(rev, kids).after = rev.after
         /\ WithChildren(rev, kids).children = kids
         /\ WithChildren(rev, kids).redo = rev.redo
  BY DEF Revision, WithChildren

\* What Tree::index accepts, Tree::rebuild makes a sound tree of.
LEMMA RebuildKeeps ==
  ASSUME NEW n \in Nat, NEW R, DOMAIN R \subseteq 0 .. n,
         \A id \in DOMAIN R : R[id] \in Revision,
         \A id \in DOMAIN R \ {ROOT} : R[id].before \in Text,
         NEW cur, IndexAccepts(R, cur), NEW here, Fits(R, cur, here)
  PROVE  LET S == Rebuild(R)
         IN  /\ Tree(S, n) /\ DOMAIN S = DOMAIN R /\ cur \in DOMAIN S
             /\ Fits(S, cur, here) /\ RedoLeadsBack(S, cur)
  <1> DEFINE S == Rebuild(R)
  <1>0. /\ Rooted(R) /\ cur \in DOMAIN R /\ R[ROOT].parent = NoRev /\ DOMAIN R \subseteq Nat
    BY DEF IndexAccepts, Rooted
  <1>1. DOMAIN S = DOMAIN R /\ \A id \in DOMAIN R : S[id] = WithChildren(R[id], ChildrenOf(R, id))
    BY DEF Rebuild, WithChildren
  <1> HIDE DEF S
  <1>2. ASSUME NEW id \in DOMAIN R
        PROVE  /\ S[id].parent = R[id].parent /\ S[id].before = R[id].before
               /\ S[id].after = R[id].after /\ S[id].redo = R[id].redo
               /\ S[id].children = ChildrenOf(R, id)
               /\ S[id] \in Revision
    <2>1. R[id] \in Revision /\ ChildrenOf(R, id) \in SUBSET Nat
      BY <1>0 DEF ChildrenOf
    <2>2. S[id] = WithChildren(R[id], ChildrenOf(R, id))
      BY <1>1
    <2> QED BY <2>1, <2>2, RevisionWithChildren
  <1>3. SameLinks(R, S)
    BY <1>1, <1>2 DEF SameLinks
  <1>4. Tree(S, n)
    <2>1. ASSUME NEW p \in DOMAIN R
          PROVE  /\ S[p].children = ChildrenOf(R, p)
                 /\ IF ChildrenOf(R, p) = {} THEN S[p].redo = NoRev
                    ELSE S[p].redo \in ChildrenOf(R, p)
      BY <1>2 DEF IndexAccepts, RedoSound
    <2>2. \A id \in DOMAIN R : S[id] \in Revision
      BY <1>2
    <2> QED BY <1>0, <1>3, <2>1, <2>2, SameTree
  <1>5. Fits(S, cur, here) /\ \A x \in DOMAIN R : Ancestors(S, x) = Ancestors(R, x)
    BY <1>0, <1>3, SameLinksKeep
  <1>6. RedoLeadsBack(S, cur)
    <2> SUFFICES ASSUME NEW id \in Ancestors(R, cur) \ {ROOT}
                 PROVE  S[S[id].parent].redo = id
      BY <1>0, <1>5 DEF RedoLeadsBack
    <2> DEFINE p == R[id].parent
    <2>1. id \in DOMAIN R /\ p \in DOMAIN R /\ id \in ChildrenOf(R, p)
      BY <1>0, AncestorsClosed DEF Rooted, ParentsOlder, ChildrenOf
    <2>2. R[p].redo = id
      BY <2>1 DEF IndexAccepts, RedoSound
    <2> QED BY <1>2, <2>1, <2>2
  <1> QED BY <1>0, <1>1, <1>4, <1>5, <1>6 DEF S

\* A sound tree passes the checks of Tree::index.
LEMMA IndexAcceptsTree ==
  ASSUME NEW R, TreeSound(R), DOMAIN R \subseteq Nat, NEW cur \in DOMAIN R,
         RedoLeadsBack(R, cur)
  PROVE  IndexAccepts(R, cur)
  <1>1. RedoSound(R, cur)
    <2> SUFFICES ASSUME NEW id \in DOMAIN R
                 PROVE  LET kids == ChildrenOf(R, id)
                        IN  IF R[id].redo = NoRev THEN kids = {}
                            ELSE /\ R[id].redo \in kids
                                 /\ \A kid \in kids \cap Ancestors(R, cur) : kid = R[id].redo
      BY DEF RedoSound
    <2>1. \A kid \in ChildrenOf(R, id) \cap Ancestors(R, cur) : kid = R[id].redo
      BY DEF RedoLeadsBack, ChildrenOf
    <2>2. NoRev \notin ChildrenOf(R, id)
      BY DEF ChildrenOf, NoRev
    <2> QED BY <2>1, <2>2 DEF TreeSound
  <1> QED BY <1>1 DEF IndexAccepts, TreeSound

\* The revisions of a tree reach from the root to its newest.
LEMMA TreeToNewest ==
  ASSUME NEW n \in Nat, NEW R, Tree(R, n)
  PROVE  Newest(DOMAIN R) \in Nat /\ Tree(R, Newest(DOMAIN R))
  <1>1. DOMAIN R \in SUBSET (0 .. n) /\ DOMAIN R # {}
    BY DEF Tree, TreeSound
  <1>2. Newest(DOMAIN R) \in DOMAIN R /\ \A x \in DOMAIN R : x <= Newest(DOMAIN R)
    <2> DEFINE ids == DOMAIN R
    <2> HIDE DEF ids
    <2>1. ids \in SUBSET (0 .. n) /\ ids # {}
      BY <1>1 DEF ids
    <2>2. Newest(ids) \in ids /\ \A x \in ids : x <= Newest(ids)
      BY <2>1, NewestIsOne
    <2> QED BY <2>2 DEF ids
  <1>3. DOMAIN R \subseteq 0 .. Newest(DOMAIN R)
    BY <1>1, <1>2
  <1> QED BY <1>1, <1>2, <1>3 DEF Tree

\* A new history is a tree for any text.
LEMMA FreshIsTree ==
  ASSUME NEW here \in Text
  PROVE  /\ Tree(FreshTree, 0) /\ ROOT \in DOMAIN FreshTree
         /\ Fits(FreshTree, ROOT, here) /\ RedoLeadsBack(FreshTree, ROOT)
  <1>1. DOMAIN FreshTree = {ROOT} /\ FreshTree[ROOT] = RootRevision
    BY DEF FreshTree
  <1> DEFINE R == FreshTree
  <1>2. /\ R[ROOT].parent = NoRev /\ R[ROOT].children = {} /\ R[ROOT].redo = NoRev
        /\ R[ROOT] \in Revision
    BY <1>1 DEF RootRevision, Revision
  <1> HIDE DEF R
  <1>3. DOMAIN R = {ROOT}
    BY <1>1 DEF R
  <1>4. Tree(R, 0)
    BY <1>2, <1>3 DEF Tree, TreeSound, ParentsOlder, ChildrenOf, ROOT
  <1>5. Fits(R, ROOT, here)
    BY <1>3 DEF Fits, LinksMeet, HoldsText
  <1>6. RedoLeadsBack(R, ROOT)
    BY <1>3 DEF RedoLeadsBack, Ancestors
  <1> QED BY <1>3, <1>4, <1>5, <1>6 DEF R

\* What a revision that is the current one holds is the buffer's text.
LEMMA CurrentText ==
  ASSUME NEW R, NEW cur, NEW here, Fits(R, cur, here), NEW t, HoldsText(R, cur, here, cur, t)
  PROVE  t = here
  BY DEF Fits, HoldsText

-----------------------------------------------------------------------------
(* The inductive invariant *)

\* A history: a tree whose texts compose to that of its current revision, and
\* from which redo leads back.
Sound(R, cur, here, n) ==
  /\ Tree(R, n) /\ cur \in DOMAIN R
  /\ Fits(R, cur, here) /\ RedoLeadsBack(R, cur)

HistoryIsSound == next_id - 1 \in Nat /\ Sound(revisions, current, text, next_id - 1)

Controls ==
  /\ next_id \in Nat
  /\ undo_levels \in UndoLevels
  /\ trimming \in {"no", "edit", "reload"}
  /\ promoted \in Nat \cup {NoRev}
  /\ text \in Text
  /\ line_ending \in Ending
  /\ saved_revision \in Nat \cup {NoRev}
  /\ saved_revision < next_id
  /\ saved_line_ending \in Ending
  /\ disk \in Content
  /\ in_sync \in BOOLEAN

\* While an edit is being made room for it is the current revision; what was
\* promoted has left the tree; a reload has the file's content.
TrimIsRunning ==
  /\ ~Idle => current = next_id - 1 /\ current # ROOT
  /\ Idle => promoted = NoRev
  /\ promoted \notin DOMAIN revisions
  /\ trimming = "reload" => text = disk.text /\ line_ending = disk.ending

\* The undo file holds a history of the text it names.
UndoFileIsSound ==
  undo_file # NoUndoFile =>
    LET R == undo_file.revisions
    IN  /\ Newest(DOMAIN R) \in Nat
        /\ Sound(R, undo_file.current, undo_file.text, Newest(DOMAIN R))

\* As long as no other program writes the file, the revision it was saved at,
\* where the tree still has it, holds the file's text.
SavedIsDisk ==
  in_sync =>
    /\ saved_line_ending = disk.ending
    /\ RemappedSave \in DOMAIN revisions =>
         HoldsText(revisions, current, text, RemappedSave, disk.text)

IInv == HistoryIsSound /\ Controls /\ TrimIsRunning /\ UndoFileIsSound /\ SavedIsDisk

LEMMA IInvMeans == IInv => TypeOK /\ HistoryFitsText /\ RedoRetracesUndo /\ SavedHistoryRestores
  <1> SUFFICES ASSUME IInv PROVE TypeOK /\ HistoryFitsText /\ RedoRetracesUndo /\ SavedHistoryRestores
    OBVIOUS
  <1>1. TypeOK
    BY DEF IInv, HistoryIsSound, Sound, Tree, Controls, TypeOK
  <1>2. HistoryFitsText /\ RedoRetracesUndo
    BY DEF IInv, HistoryIsSound, Sound, Fits, HistoryFitsText, RedoRetracesUndo
  <1>3. SavedHistoryRestores
    <2> SUFFICES ASSUME undo_file # NoUndoFile
                 PROVE  LET R == undo_file.revisions
                            cur == undo_file.current
                        IN  /\ IndexAccepts(R, cur)
                            /\ LinksMeet(R, cur, undo_file.text)
                            /\ HoldsText(R, cur, undo_file.text, cur, undo_file.text)
      BY DEF SavedHistoryRestores
    <2> DEFINE R == undo_file.revisions
               cur == undo_file.current
               here == undo_file.text
               n == Newest(DOMAIN R)
    <2>1. n \in Nat /\ Sound(R, cur, here, n)
      BY DEF IInv, UndoFileIsSound
    <2> HIDE DEF R, cur, here, n
    <2>2. TreeSound(R) /\ DOMAIN R \subseteq Nat
      BY <2>1 DEF Sound, Tree
    <2>3. IndexAccepts(R, cur)
      BY <2>1, <2>2, IndexAcceptsTree DEF Sound
    <2>4. LinksMeet(R, cur, here) /\ HoldsText(R, cur, here, cur, here)
      BY <2>1 DEF Sound, Fits
    <2> QED BY <2>3, <2>4 DEF R, cur, here
  <1> QED BY <1>1, <1>2, <1>3

LEMMA InitIInv == Init => IInv
  <1> SUFFICES ASSUME Init PROVE IInv
    OBVIOUS
  <1>0. text \in Text /\ line_ending \in Ending /\ disk.text \in Text
    BY DEF Init, Content
  <1>1. HistoryIsSound
    BY <1>0, FreshIsTree DEF Init, HistoryIsSound, Sound
  <1>2. Controls
    BY <1>0 DEF Init, Controls, ROOT
  <1>3. TrimIsRunning
    BY DEF Init, TrimIsRunning, Idle, FreshTree, NoRev, ROOT
  <1>4. UndoFileIsSound
    BY DEF Init, UndoFileIsSound
  <1>5. SavedIsDisk
    BY DEF Init, SavedIsDisk, RemappedSave, HoldsText, FreshTree
  <1> QED BY <1>1, <1>2, <1>3, <1>4, <1>5 DEF IInv

-----------------------------------------------------------------------------
(* Steps *)

\* What stays of a saved revision's text when the history goes from R to S.
LEMMA SavedStaysDisk ==
  ASSUME SavedIsDisk, Idle, promoted = NoRev, promoted' = NoRev,
         UNCHANGED <<saved_revision, saved_line_ending, disk, in_sync>>,
         saved_revision \in DOMAIN revisions' => saved_revision \in DOMAIN revisions,
         KeepsTexts(revisions, current, text, revisions', current', text')
  PROVE  SavedIsDisk'
  <1>1. RemappedSave = saved_revision /\ RemappedSave' = saved_revision
    BY DEF RemappedSave
  <1> SUFFICES ASSUME in_sync, saved_revision \in DOMAIN revisions'
               PROVE  HoldsText(revisions', current', text', saved_revision, disk.text)
    BY <1>1 DEF SavedIsDisk
  <1>2. HoldsText(revisions, current, text, saved_revision, disk.text)
    BY <1>1 DEF SavedIsDisk
  <1> QED BY <1>2 DEF KeepsTexts

\* An edit, or a reload of a changed file, is recorded.
LEMMA RecordStep ==
  ASSUME IInv, Idle, NEW t \in Text, NEW reason \in {"edit", "reload"},
         text' = t, Record(text, t, reason), line_ending' \in Ending,
         UNCHANGED <<saved_line_ending, storage>>,
         reason = "reload" => t = disk.text /\ line_ending' = disk.ending
  PROVE  IInv'
  <1> DEFINE n == next_id - 1
             S == RecordIn(revisions, current, n + 1, text, t)
  <1>0. n \in Nat /\ n + 1 = next_id /\ next_id \in Nat /\ text \in Text
    BY DEF IInv, HistoryIsSound, Controls
  <1>1. /\ Tree(revisions, n) /\ current \in DOMAIN revisions
        /\ Fits(revisions, current, text) /\ RedoLeadsBack(revisions, current)
        /\ DOMAIN revisions \subseteq 0 .. n
    BY DEF IInv, HistoryIsSound, Sound, Tree
  <1>2. revisions' = S /\ current' = n + 1 /\ next_id' = n + 2 /\ next_id' - 1 = n + 1
    BY <1>0 DEF Record
  <1> HIDE DEF n
  <1>3. /\ Tree(S, n + 1) /\ n + 1 \in DOMAIN S /\ DOMAIN S = DOMAIN revisions \cup {n + 1}
        /\ Fits(S, n + 1, t) /\ RedoLeadsBack(S, n + 1)
        /\ KeepsTexts(revisions, current, text, S, n + 1, t)
    BY <1>0, <1>1, RecordKeeps
  <1> HIDE DEF S
  <1>4. HistoryIsSound'
    BY <1>0, <1>2, <1>3 DEF HistoryIsSound, Sound
  <1>5. Controls'
    <2>1. saved_revision' < next_id' /\ next_id' \in Nat
      BY <1>0, <1>2 DEF IInv, Controls, Record, NoRev
    <2> QED BY <2>1 DEF IInv, Controls, Record, storage, NoRev
  <1>6. TrimIsRunning'
    <2>1. n + 1 # ROOT /\ NoRev \notin DOMAIN S
      BY <1>0, <1>1, <1>3 DEF ROOT, NoRev
    <2>2. promoted' = NoRev /\ trimming' = reason /\ text' = t /\ disk' = disk
      BY DEF Record, storage
    <2> QED BY <1>2, <2>1, <2>2 DEF TrimIsRunning, Idle
  <1>7. UndoFileIsSound'
    BY DEF IInv, UndoFileIsSound, storage
  <1>8. SavedIsDisk'
    <2>1. saved_revision # n + 1
      BY <1>0 DEF IInv, Controls, NoRev
    <2>2. promoted = NoRev /\ promoted' = NoRev
      BY DEF IInv, TrimIsRunning, Record
    <2>3. UNCHANGED <<saved_revision, saved_line_ending, disk, in_sync>>
      BY DEF Record, storage
    <2> QED BY <1>2, <1>3, <2>1, <2>2, <2>3, SavedStaysDisk DEF IInv
  <1> QED BY <1>4, <1>5, <1>6, <1>7, <1>8 DEF IInv

\* The discard of a branch.
LEMMA DiscardStep ==
  ASSUME IInv, TrimDiscard
  PROVE  IInv'
  <1> DEFINE n == next_id - 1
             S == RemoveSubtree(revisions, Victim(revisions, current))
  <1>1. /\ n \in Nat /\ Tree(revisions, n) /\ current \in DOMAIN revisions
        /\ Fits(revisions, current, text) /\ RedoLeadsBack(revisions, current)
    BY DEF IInv, HistoryIsSound, Sound
  <1>2. /\ revisions' = S /\ Cardinality(revisions[ROOT].children) > 1
        /\ UNCHANGED <<current, next_id, undo_levels, trimming, promoted, text, line_ending,
                       saved_revision, saved_line_ending, disk, in_sync, undo_file>>
    BY DEF TrimDiscard, trim, saved, storage
  <1> HIDE DEF n
  <1>3. /\ Tree(S, n) /\ DOMAIN S \subseteq DOMAIN revisions /\ current \in DOMAIN S
        /\ Fits(S, current, text) /\ RedoLeadsBack(S, current)
        /\ KeepsTexts(revisions, current, text, S, current, text)
    BY <1>1, <1>2, DiscardKeeps
  <1> HIDE DEF S
  <1>4. HistoryIsSound'
    BY <1>1, <1>2, <1>3 DEF HistoryIsSound, Sound, n
  <1>5. Controls'
    BY <1>2 DEF IInv, Controls
  <1>6. TrimIsRunning'
    BY <1>2, <1>3 DEF IInv, TrimIsRunning, Idle
  <1>7. UndoFileIsSound'
    BY <1>2 DEF IInv, UndoFileIsSound
  <1>8. SavedIsDisk'
    <2>1. RemappedSave' = RemappedSave
      BY <1>2 DEF RemappedSave
    <2> QED BY <1>2, <1>3, <2>1 DEF IInv, SavedIsDisk, KeepsTexts
  <1> QED BY <1>4, <1>5, <1>6, <1>7, <1>8 DEF IInv

\* A finite set of one element at most.
LEMMA OnlyOne ==
  ASSUME NEW K, IsFiniteSet(K), Cardinality(K) <= 1, NEW c \in K
  PROVE  K = {c}
  <1>1. K \ {c} \subseteq K /\ IsFiniteSet(K \ {c})
    BY FS_RemoveElement
  <1>2. Cardinality(K \ {c}) = Cardinality(K) - 1 /\ Cardinality(K) \in Nat
        /\ Cardinality(K \ {c}) \in Nat
    BY <1>1, FS_RemoveElement, FS_CardinalityType
  <1>3. Cardinality(K \ {c}) = 0
    BY <1>2
  <1>4. K \ {c} = {}
    BY <1>1, <1>3, FS_EmptySet
  <1> QED BY <1>4

\* Where a revision is promoted, it is not the one just recorded: the trim
\* has more than undo-levels revisions, one at least, past the root.
LEMMA PromotedIsOlder ==
  ASSUME IInv, ~Idle, OverCap, NEW c, revisions[ROOT].children = {c}
  PROVE  current # c
  <1> DEFINE R == revisions
             n == next_id - 1
  <1>1. Rooted(R) /\ TreeSound(R) /\ DOMAIN R \subseteq 0 .. n /\ n \in Nat /\ DOMAIN R \subseteq Nat
    BY TreeIsRooted DEF IInv, HistoryIsSound, Sound, Tree
  <1> SUFFICES ASSUME c = n PROVE FALSE
    BY DEF IInv, TrimIsRunning
  <1>2. ASSUME NEW x \in DOMAIN R, x # ROOT PROVE x = c
    <2> DEFINE m == Oldest(UpPath(R, x, ROOT))
    <2>1. ROOT \in Ancestors(R, x)
      BY <1>1, AncestorsOlder
    <2>2. m \in Ancestors(R, x) /\ m # ROOT /\ R[m].parent = ROOT
      BY <1>1, <1>2, <2>1, UpLegEnds
    <2>3. m \in DOMAIN R /\ m <= x
      BY <1>1, <2>2, AncestorsClosed, AncestorsOlder
    <2>4. ChildrenOf(R, ROOT) = {c}
      BY <1>1 DEF TreeSound
    <2>5. m = c
      BY <2>2, <2>3, <2>4 DEF ChildrenOf
    <2> HIDE DEF m
    <2> QED BY <1>1, <2>3, <2>5
  <1>3. DOMAIN R \subseteq {ROOT, c} /\ IsFiniteSet({ROOT, c}) /\ Cardinality({ROOT, c}) <= 2
    <2>1. IsFiniteSet({ROOT}) /\ Cardinality({ROOT}) = 1
      BY FS_Singleton
    <2>2. IsFiniteSet({ROOT} \cup {c}) /\ Cardinality({ROOT} \cup {c}) <= 2
      BY <2>1, FS_AddElement
    <2>3. {ROOT} \cup {c} = {ROOT, c}
      OBVIOUS
    <2> QED BY <1>2, <2>2, <2>3
  <1>4. Cardinality(DOMAIN R) <= Cardinality({ROOT, c})
        /\ Cardinality(DOMAIN R) \in Nat /\ Cardinality({ROOT, c}) \in Nat
    BY <1>3, FS_Subset, FS_CardinalityType
  <1>5. undo_levels \in Nat
    BY BufferAssumption DEF IInv, Controls
  <1> QED BY <1>3, <1>4, <1>5 DEF OverCap, Recorded

\* The promotion of the root's only child.
LEMMA PromoteStep ==
  ASSUME IInv, TrimPromote
  PROVE  IInv'
  <1> DEFINE n == next_id - 1
             R == revisions
  <1>1. /\ n \in Nat /\ Tree(R, n) /\ current \in DOMAIN R
        /\ Fits(R, current, text) /\ RedoLeadsBack(R, current)
        /\ TreeSound(R) /\ DOMAIN R \subseteq Nat /\ IsFiniteSet(DOMAIN R) /\ ROOT \in DOMAIN R
    BY TreeIsRooted DEF IInv, HistoryIsSound, Sound, Tree, Rooted
  <1>2. PICK c \in R[ROOT].children : revisions' = PromoteChild(R, c) /\ promoted' = c
    BY DEF TrimPromote
  <1>3. /\ ~Idle /\ OverCap /\ Cardinality(R[ROOT].children) <= 1
        /\ UNCHANGED <<current, next_id, undo_levels, trimming, text, line_ending,
                       saved_revision, saved_line_ending, disk, in_sync, undo_file>>
    BY DEF TrimPromote, saved, storage
  <1>4. R[ROOT].children = {c}
    <2>1. R[ROOT].children = ChildrenOf(R, ROOT)
      BY <1>1 DEF TreeSound
    <2>2. IsFiniteSet(R[ROOT].children)
      BY <1>1, <2>1, FS_Subset DEF ChildrenOf
    <2> QED BY <1>3, <2>2, OnlyOne
  <1>5. current \notin {ROOT, c}
    BY <1>3, <1>4, PromotedIsOlder DEF IInv, TrimIsRunning
  <1> DEFINE S == PromoteChild(R, c)
  <1> HIDE DEF n
  <1>6. /\ Tree(S, n) /\ DOMAIN S = DOMAIN R \ {c} /\ c # ROOT /\ c \in DOMAIN R
        /\ Fits(S, current, text) /\ RedoLeadsBack(S, current)
        /\ \A r \in DOMAIN S \ {ROOT} : \A t :
             HoldsText(R, current, text, r, t) => HoldsText(S, current, text, r, t)
        /\ \A t : HoldsText(R, current, text, c, t) => HoldsText(S, current, text, ROOT, t)
    BY <1>1, <1>4, <1>5, PromoteKeeps
  <1>7. revisions' = S
    BY <1>2
  <1> HIDE DEF S
  <1>8. HistoryIsSound'
    BY <1>1, <1>3, <1>5, <1>6, <1>7 DEF HistoryIsSound, Sound, n
  <1>9. Controls'
    BY <1>1, <1>2, <1>3, <1>6 DEF IInv, Controls
  <1>10. TrimIsRunning'
    BY <1>2, <1>3, <1>6, <1>7 DEF IInv, TrimIsRunning, Idle
  <1>11. UndoFileIsSound'
    BY <1>3 DEF IInv, UndoFileIsSound
  <1>12. SavedIsDisk'
    <2> SUFFICES ASSUME in_sync, RemappedSave' \in DOMAIN S
                 PROVE  HoldsText(S, current, text, RemappedSave', disk.text)
      BY <1>3, <1>7 DEF IInv, SavedIsDisk
    <2>0. promoted \notin DOMAIN R /\ c # NoRev /\ NoRev \notin DOMAIN S
      BY <1>1, <1>6 DEF IInv, TrimIsRunning, NoRev
    <2>1. RemappedSave \in DOMAIN R => HoldsText(R, current, text, RemappedSave, disk.text)
      BY DEF IInv, SavedIsDisk
    <2>2. RemappedSave' = IF saved_revision = c THEN ROOT
                          ELSE IF saved_revision = ROOT THEN NoRev ELSE saved_revision
      BY <1>2, <1>3, <2>0 DEF RemappedSave
    <2>3. CASE saved_revision = c
      <3>1. RemappedSave = c
        BY <1>6, <2>0, <2>3 DEF RemappedSave
      <3> QED BY <1>6, <2>1, <2>2, <2>3, <3>1
    <2>4. CASE saved_revision # c
      <3>1. RemappedSave' = saved_revision /\ saved_revision \in DOMAIN S \ {ROOT}
        BY <2>0, <2>2, <2>4
      <3>2. RemappedSave = saved_revision
        BY <1>6, <2>0, <3>1 DEF RemappedSave
      <3> QED BY <1>6, <2>1, <3>1, <3>2
    <2> QED BY <2>3, <2>4
  <1> QED BY <1>8, <1>9, <1>10, <1>11, <1>12 DEF IInv

\* Moving in the history to another revision and its text.
LEMMA MoveStep ==
  ASSUME IInv, Idle, NEW S, NEW target \in DOMAIN S, NEW t \in Text,
         revisions' = S, current' = target, text' = t,
         UNCHANGED <<next_id, undo_levels, trim, line_ending, saved, storage>>,
         Tree(S, next_id - 1), DOMAIN S = DOMAIN revisions,
         Fits(S, target, t), RedoLeadsBack(S, target),
         KeepsTexts(revisions, current, text, S, target, t)
  PROVE  IInv'
  <1>0. UNCHANGED <<next_id, undo_levels, trimming, promoted, line_ending, saved_revision,
                    saved_line_ending, disk, in_sync, undo_file>>
    BY DEF trim, saved, storage
  <1>1. HistoryIsSound'
    BY <1>0 DEF IInv, HistoryIsSound, Sound
  <1>2. Controls'
    BY <1>0 DEF IInv, Controls
  <1>3. TrimIsRunning'
    BY <1>0 DEF IInv, TrimIsRunning, Idle
  <1>4. UndoFileIsSound'
    BY <1>0 DEF IInv, UndoFileIsSound
  <1>5. SavedIsDisk'
    <2>1. promoted = NoRev
      BY DEF IInv, TrimIsRunning
    <2> QED BY <1>0, <2>1, SavedStaysDisk DEF IInv
  <1> QED BY <1>1, <1>2, <1>3, <1>4, <1>5 DEF IInv

LEMMA UndoStep ==
  ASSUME IInv, NEW target, Undo(target)
  PROVE  IInv'
  <1> DEFINE n == next_id - 1
             R == revisions
             t == WalkResult(R, current, target)
  <1>1. /\ n \in Nat /\ Tree(R, n) /\ current \in DOMAIN R /\ Rooted(R)
        /\ Fits(R, current, text) /\ RedoLeadsBack(R, current)
    BY TreeIsRooted DEF IInv, HistoryIsSound, Sound
  <1>2. /\ Idle /\ target \in Ancestors(R, current) /\ target # current
        /\ text' = t /\ current' = target /\ R' = R
        /\ UNCHANGED <<next_id, undo_levels, trim, line_ending, saved, storage>>
    BY DEF Undo
  <1>3. target \in DOMAIN R
    BY <1>1, <1>2, AncestorsClosed
  <1>4. RedoLeadsBack(R, target)
    BY <1>1, <1>2, UndoLeadsBack
  <1>5. t \in Text /\ HoldsText(R, current, text, target, t)
    <2> HIDE DEF n, R
    <2> QED BY <1>1, <1>2, <1>3, WalkArrives
  <1>6. Fits(R, target, t) /\ KeepsTexts(R, current, text, R, target, t)
    <2> HIDE DEF n, R, t
    <2> QED BY <1>1, <1>2, <1>3, <1>5, WalkFits
  <1> HIDE DEF t
  <1> QED BY <1>1, <1>2, <1>3, <1>4, <1>5, <1>6, MoveStep

LEMMA RedoStep ==
  ASSUME IInv, NEW target, Redo(target)
  PROVE  IInv'
  <1> DEFINE n == next_id - 1
             R == revisions
             t == R[target].after
  <1>1. /\ n \in Nat /\ Tree(R, n) /\ current \in DOMAIN R /\ Rooted(R) /\ TreeSound(R)
        /\ Fits(R, current, text) /\ RedoLeadsBack(R, current)
    BY TreeIsRooted DEF IInv, HistoryIsSound, Sound, Tree
  <1>2. /\ Idle /\ target \in RedoChain(R, current) /\ target # current
        /\ text' = t /\ current' = target /\ R' = R
        /\ UNCHANGED <<next_id, undo_levels, trim, line_ending, saved, storage>>
    BY DEF Redo
  <1>3. target \in DOMAIN R \ {ROOT} /\ RedoLeadsBack(R, target)
    BY <1>1, <1>2, RedoStays
  <1>4. t \in Text /\ HoldsText(R, current, text, target, t)
    BY <1>1, <1>3 DEF Fits, LinksMeet, HoldsText
  <1>5. Fits(R, target, t) /\ KeepsTexts(R, current, text, R, target, t)
    <2> HIDE DEF n, R, t
    <2> QED BY <1>1, <1>2, <1>3, <1>4, WalkFits
  <1> HIDE DEF t
  <1> QED BY <1>1, <1>2, <1>3, <1>4, <1>5, MoveStep

LEMMA GotoStep ==
  ASSUME IInv, NEW target, Goto(target)
  PROVE  IInv'
  <1> DEFINE n == next_id - 1
             R == revisions
             S == MarkRedo(R, DownPath(R, current, target))
             t == WalkResult(R, current, target)
  <1>1. /\ n \in Nat /\ Tree(R, n) /\ current \in DOMAIN R
        /\ Fits(R, current, text) /\ RedoLeadsBack(R, current)
    BY DEF IInv, HistoryIsSound, Sound
  <1>2. /\ Idle /\ target \in DOMAIN R /\ target # current
        /\ text' = t /\ current' = target /\ R' = S
        /\ UNCHANGED <<next_id, undo_levels, trim, line_ending, saved, storage>>
    BY DEF Goto
  <1>3. t \in Text
    <2> HIDE DEF n, R
    <2> QED BY <1>1, <1>2, WalkArrives
  <1>4. /\ Tree(S, n) /\ DOMAIN S = DOMAIN R
        /\ Fits(S, target, t) /\ RedoLeadsBack(S, target)
        /\ KeepsTexts(R, current, text, S, target, t)
    <2> HIDE DEF n, R
    <2> QED BY <1>1, <1>2, GotoKeeps
  <1> HIDE DEF S, t
  <1> QED BY <1>2, <1>3, <1>4, MoveStep

\* Saving a sound history makes a sound undo file.
LEMMA SnapshotIsSound ==
  ASSUME IInv
  PROVE  LET U == SnapshotOf(revisions, current, text)
             R == U.revisions
         IN  Newest(DOMAIN R) \in Nat /\ Sound(R, U.current, U.text, Newest(DOMAIN R))
  <1>1. SnapshotOf(revisions, current, text).revisions = revisions
        /\ SnapshotOf(revisions, current, text).current = current
        /\ SnapshotOf(revisions, current, text).text = text
    BY DEF SnapshotOf
  <1>2. Newest(DOMAIN revisions) \in Nat /\ Tree(revisions, Newest(DOMAIN revisions))
    BY TreeToNewest DEF IInv, HistoryIsSound, Sound
  <1> QED BY <1>1, <1>2 DEF IInv, HistoryIsSound, Sound

\* A buffer marked as saved over the file's content.
LEMMA MarkedStep ==
  ASSUME IInv, NEW ending, MarkSynced(ending),
         UNCHANGED <<history, text>>, line_ending' \in Ending, disk' \in Content,
         trimming' = "no", promoted' = NoRev,
         text = disk'.text, ending = disk'.ending, ending \in Ending
  PROVE  IInv'
  <1>0. UNCHANGED <<revisions, current, next_id, undo_levels, text>>
    BY DEF history
  <1>1. HistoryIsSound'
    BY <1>0 DEF IInv, HistoryIsSound
  <1>2. current \in Nat /\ current < next_id /\ next_id \in Nat /\ NoRev \notin DOMAIN revisions
    BY DEF IInv, HistoryIsSound, Sound, Tree, NoRev, Controls
  <1>3. Controls'
    BY <1>0, <1>2 DEF IInv, Controls, MarkSynced
  <1>4. TrimIsRunning'
    BY <1>0, <1>2 DEF TrimIsRunning, Idle
  <1>5. UndoFileIsSound'
    BY <1>0, SnapshotIsSound DEF IInv, UndoFileIsSound, MarkSynced
  <1>6. SavedIsDisk'
    <2>1. HoldsText(revisions, current, text, current, text)
      BY DEF IInv, HistoryIsSound, Sound, Fits
    <2>2. RemappedSave' = current
      BY DEF RemappedSave, MarkSynced
    <2> QED BY <1>0, <2>1, <2>2 DEF SavedIsDisk, MarkSynced
  <1> QED BY <1>1, <1>3, <1>4, <1>5, <1>6 DEF IInv

LEMMA DoneStep ==
  ASSUME IInv, TrimDone
  PROVE  IInv'
  <1>1. CASE trimming = "reload"
    BY <1>1, MarkedStep DEF TrimDone, IInv, Controls, TrimIsRunning
  <1>2. CASE trimming # "reload"
    <2>1. /\ UNCHANGED <<revisions, current, next_id, undo_levels, text, line_ending, disk,
                         saved_line_ending, in_sync, undo_file>>
          /\ trimming' = "no" /\ promoted' = NoRev /\ saved_revision' = RemappedSave
      BY <1>2 DEF TrimDone, history
    <2>2. HistoryIsSound'
      BY <2>1 DEF IInv, HistoryIsSound
    <2>3. NoRev \notin DOMAIN revisions
      BY DEF IInv, HistoryIsSound, Sound, Tree, NoRev
    <2>4. saved_revision' \in Nat \cup {NoRev} /\ saved_revision' < next_id
      <3>1. next_id - 1 \in Nat /\ next_id \in Nat
            /\ saved_revision \in Nat \cup {NoRev} /\ saved_revision < next_id
        BY DEF IInv, HistoryIsSound, Controls
      <3> QED BY <2>1, <3>1 DEF RemappedSave, ROOT, NoRev
    <2>5. Controls'
      BY <2>1, <2>4 DEF IInv, Controls
    <2>6. TrimIsRunning'
      BY <2>1, <2>3 DEF TrimIsRunning, Idle
    <2>7. UndoFileIsSound'
      BY <2>1 DEF IInv, UndoFileIsSound
    <2>8. SavedIsDisk'
      <3>1. RemappedSave' = RemappedSave
        BY <2>1 DEF RemappedSave
      <3> QED BY <2>1, <3>1 DEF IInv, SavedIsDisk
    <2> QED BY <2>2, <2>5, <2>6, <2>7, <2>8 DEF IInv
  <1> QED BY <1>1, <1>2

\* Opening the file again, with the history saved for it or with a new one.
LEMMA ReopenStep ==
  ASSUME IInv, Reopen
  PROVE  IInv'
  <1>1. /\ text' = disk.text /\ line_ending' = disk.ending /\ saved_line_ending' = disk.ending
        /\ in_sync' = TRUE /\ saved_revision' = current' /\ undo_levels' \in UndoLevels
        /\ trimming = "no"
        /\ UNCHANGED <<trimming, promoted, disk, undo_file>>
    BY DEF Reopen, trim, Idle
  <1>2. disk.text \in Text /\ disk.ending \in Ending /\ disk \in Content
    BY DEF IInv, Controls, Content
  <1>3. promoted = NoRev
    BY <1>1 DEF IInv, TrimIsRunning, Idle
  <1>4. next_id' \in Nat /\ HistoryIsSound'
    <2>1. CASE Restorable(disk.text)
      <3> DEFINE R == undo_file.revisions
                 cur == undo_file.current
                 n == Newest(DOMAIN R)
                 S == Rebuild(R)
                 here == disk.text
      <3>1. n \in Nat /\ Sound(R, cur, here, n) /\ IndexAccepts(R, cur)
        BY <2>1 DEF Restorable, IInv, UndoFileIsSound
      <3>2. revisions' = S /\ current' = cur /\ next_id' = 1 + n
        BY <2>1 DEF Reopen
      <3> HIDE DEF R, cur, n, here
      <3>3. /\ Tree(S, n) /\ DOMAIN S = DOMAIN R /\ cur \in DOMAIN S
            /\ Fits(S, cur, here) /\ RedoLeadsBack(S, cur)
        BY <3>1, RebuildKeeps DEF Sound, Tree
      <3> HIDE DEF S
      <3>4. next_id' - 1 = n /\ next_id' \in Nat
        BY <3>1, <3>2
      <3> QED BY <1>1, <3>1, <3>2, <3>3, <3>4 DEF HistoryIsSound, Sound, here
    <2>2. CASE ~Restorable(disk.text)
      BY <1>1, <1>2, <2>2, FreshIsTree DEF Reopen, HistoryIsSound, Sound
    <2> QED BY <2>1, <2>2
  <1>5. /\ current' \in DOMAIN revisions' /\ current' \in Nat /\ current' < next_id'
        /\ NoRev \notin DOMAIN revisions'
        /\ HoldsText(revisions', current', text', current', text')
    BY <1>4 DEF HistoryIsSound, Sound, Tree, Fits, NoRev
  <1>6. Controls'
    BY <1>1, <1>2, <1>3, <1>4, <1>5 DEF Controls
  <1>7. TrimIsRunning'
    BY <1>1, <1>3, <1>5 DEF TrimIsRunning, Idle
  <1>8. UndoFileIsSound'
    BY <1>1 DEF IInv, UndoFileIsSound
  <1>9. SavedIsDisk'
    <2>1. RemappedSave' = current'
      BY <1>1, <1>3 DEF RemappedSave
    <2> QED BY <1>1, <1>5, <2>1 DEF SavedIsDisk
  <1> QED BY <1>4, <1>6, <1>7, <1>8, <1>9 DEF IInv

\* Steps that leave the history, the text and the save point alone.
LEMMA OutsideStep ==
  ASSUME IInv, Idle,
         UNCHANGED <<revisions, current, next_id, trim, text, saved, undo_file>>,
         undo_levels' \in UndoLevels, line_ending' \in Ending, disk' \in Content,
         in_sync' \in BOOLEAN, in_sync' => UNCHANGED <<disk, in_sync>>
  PROVE  IInv'
  <1>0. UNCHANGED <<trimming, promoted, saved_revision, saved_line_ending>>
    BY DEF trim, saved
  <1>1. HistoryIsSound'
    BY DEF IInv, HistoryIsSound
  <1>2. Controls'
    BY <1>0 DEF IInv, Controls
  <1>3. TrimIsRunning'
    BY <1>0 DEF IInv, TrimIsRunning, Idle
  <1>4. UndoFileIsSound'
    BY DEF IInv, UndoFileIsSound
  <1>5. SavedIsDisk'
    <2>1. RemappedSave' = RemappedSave
      BY <1>0 DEF RemappedSave
    <2> QED BY <1>0, <2>1 DEF IInv, SavedIsDisk
  <1> QED BY <1>1, <1>2, <1>3, <1>4, <1>5 DEF IInv

LEMMA FileStep ==
  ASSUME IInv, FileNext
  PROVE  IInv'
  <1>0. disk \in Content /\ disk.text \in Text /\ disk.ending \in Ending
        /\ line_ending \in Ending /\ text \in Text /\ in_sync \in BOOLEAN
        /\ undo_levels \in UndoLevels
    BY DEF IInv, Controls, Content
  <1>1. CASE Reopen
    BY <1>1, ReopenStep
  <1>2. ASSUME NEW e \in Ending, SetLineEnding(e) PROVE IInv'
    BY <1>0, <1>2, OutsideStep DEF SetLineEnding, history, storage
  <1>3. ASSUME NEW force \in BOOLEAN, Write(force) PROVE IInv'
    <2>1. /\ disk' = [text |-> text, ending |-> line_ending] /\ MarkSynced(line_ending)
          /\ UNCHANGED <<history, trimming, promoted, text, line_ending>> /\ Idle
      BY <1>3 DEF Write, trim
    <2>2. disk' \in Content /\ disk'.text = text /\ disk'.ending = line_ending
      BY <1>0, <2>1 DEF Content
    <2>3. trimming' = "no" /\ promoted' = NoRev
      BY <2>1 DEF IInv, TrimIsRunning, Idle
    <2> QED BY <1>0, <2>1, <2>2, <2>3, MarkedStep
  <1>4. CASE ReloadChanged
    BY <1>0, <1>4, RecordStep DEF ReloadChanged
  <1>5. CASE ReloadSame
    <2>1. trimming' = "no" /\ promoted' = NoRev
      BY <1>5 DEF ReloadSame, trim, IInv, TrimIsRunning, Idle
    <2> QED BY <1>0, <1>5, <2>1, MarkedStep DEF ReloadSame
  <1>6. ASSUME NEW c \in Content, ExternalWrite(c) PROVE IInv'
    BY <1>0, <1>6, OutsideStep DEF ExternalWrite, history
  <1> QED BY <1>1, <1>2, <1>3, <1>4, <1>5, <1>6 DEF FileNext

LEMMA HistoryStep ==
  ASSUME IInv, HistoryNext
  PROVE  IInv'
  <1>0. disk \in Content /\ line_ending \in Ending /\ in_sync \in BOOLEAN
    BY DEF IInv, Controls
  <1>1. ASSUME NEW t \in Text, Edit(t) PROVE IInv'
    BY <1>0, <1>1, RecordStep DEF Edit
  <1>2. CASE TrimDiscard
    BY <1>2, DiscardStep
  <1>3. CASE TrimPromote
    BY <1>3, PromoteStep
  <1>4. CASE TrimDone
    BY <1>4, DoneStep
  <1>5. ASSUME NEW k \in UndoLevels, SetUndoLevels(k) PROVE IInv'
    BY <1>0, <1>5, OutsideStep DEF SetUndoLevels, storage
  <1>6. ASSUME NEW r \in DOMAIN revisions, Undo(r) \/ Redo(r) \/ Goto(r) PROVE IInv'
    BY <1>6, UndoStep, RedoStep, GotoStep
  <1> QED BY <1>1, <1>2, <1>3, <1>4, <1>5, <1>6 DEF HistoryNext

LEMMA StepIInv == IInv /\ [Next]_vars => IInv'
  <1> SUFFICES ASSUME IInv, [Next]_vars PROVE IInv'
    OBVIOUS
  <1>1. CASE UNCHANGED vars
    <2>1. /\ UNCHANGED <<revisions, current, next_id, undo_levels, trimming, promoted, text,
                         line_ending, saved_revision, saved_line_ending, disk, in_sync, undo_file>>
      BY <1>1 DEF vars, history, trim, saved, storage
    <2>2. HistoryIsSound' /\ Controls' /\ UndoFileIsSound'
      BY <2>1 DEF IInv, HistoryIsSound, Controls, UndoFileIsSound
    <2>3. TrimIsRunning'
      BY <2>1 DEF IInv, TrimIsRunning, Idle
    <2>4. SavedIsDisk'
      BY <2>1 DEF IInv, SavedIsDisk, RemappedSave
    <2> QED BY <2>2, <2>3, <2>4 DEF IInv
  <1> QED BY <1>1, HistoryStep, FileStep DEF Next

LEMMA IInvAlways == Spec => []IInv
  BY InitIInv, StepIInv, PTL DEF Spec

-----------------------------------------------------------------------------
(* Theorems *)

\* The history is a tree and every id in play has been assigned.
THEOREM TypeCorrect == Spec => []TypeOK
  BY IInvAlways, IInvMeans, PTL

\* Whatever was edited, walked, trimmed, reloaded or restored, a walk's
\* transactions compose and end on the buffer's text: the panic "history is
\* corrupt" of apply_transactions is not reached.
THEOREM HistoryFitsTextAlways == Spec => []HistoryFitsText
  BY IInvAlways, IInvMeans, PTL

\* Every ancestor of the current revision names the next one toward it as
\* its redo child: redo retraces what undo walked.
THEOREM RedoRetracesUndoAlways == Spec => []RedoRetracesUndo
  BY IInvAlways, IInvMeans, PTL

\* What save_undo writes, Tree::index accepts and Tree::rebuild makes a
\* history of the text it is kept for.
THEOREM SavedHistoryRestoresAlways == Spec => []SavedHistoryRestores
  BY IInvAlways, IInvMeans, PTL

\* A trim ends with undo-levels revisions at most and with the edit it made
\* room for.
LEMMA StepTrimKeepsEdit ==
  ASSUME IInv, [Next]_vars, ~Idle, trimming' = "no"
  PROVE  /\ current' = next_id - 1
         /\ undo_levels # 0 => Recorded(revisions') \in 1 .. undo_levels
  <1>1. TrimDone
    <2>1. trimming # "no"
      BY DEF Idle
    <2>2. ~UNCHANGED vars
      BY <2>1 DEF vars, trim
    <2>3. ~FileNext
      BY DEF FileNext, Reopen, SetLineEnding, Write, ReloadChanged, ReloadSame, ExternalWrite
    <2>4. ~TrimDiscard /\ ~TrimPromote
      BY <2>1 DEF TrimDiscard, TrimPromote, trim
    <2>5. TrimDone
      BY <2>2, <2>3, <2>4 DEF Next, HistoryNext, Edit, SetUndoLevels, Undo, Redo, Goto
    <2> QED BY <2>5
  <1>2. revisions' = revisions /\ current' = current /\ ~OverCap
    BY <1>1 DEF TrimDone, history
  <1>3. current = next_id - 1 /\ current # ROOT
    BY DEF IInv, TrimIsRunning
  <1>4. IsFiniteSet(DOMAIN revisions) /\ ROOT \in DOMAIN revisions /\ current \in DOMAIN revisions
    BY TreeIsRooted DEF IInv, HistoryIsSound, Sound, Rooted
  <1>5. Cardinality(DOMAIN revisions) \in Nat /\ Cardinality(DOMAIN revisions) >= 2
    <2> DEFINE K == DOMAIN revisions
    <2>1. K # {} /\ ~(Cardinality(K) <= 1) /\ Cardinality(K) \in Nat
      <3>1. Cardinality(K) \in Nat
        BY <1>4, FS_CardinalityType
      <3>2. ASSUME Cardinality(K) <= 1 PROVE FALSE
        <4>1. K = {ROOT}
          BY <1>4, <3>2, OnlyOne
        <4> QED BY <1>3, <1>4, <4>1
      <3> QED BY <1>4, <3>1, <3>2
    <2> QED BY <2>1
  <1>6. undo_levels \in Nat
    BY BufferAssumption DEF IInv, Controls
  <1>7. ASSUME undo_levels # 0 PROVE Recorded(revisions) \in 1 .. undo_levels
    BY <1>2, <1>5, <1>6, <1>7 DEF OverCap, Recorded
  <1> QED BY <1>2, <1>3, <1>7

THEOREM TrimKeepsEditAlways == Spec => TrimKeepsEdit
  <1>1. IInv /\ [Next]_vars =>
          [(~Idle /\ trimming' = "no") =>
             /\ current' = next_id - 1
             /\ undo_levels # 0 => Recorded(revisions') \in 1 .. undo_levels]_vars
    BY StepTrimKeepsEdit
  <1> QED BY <1>1, IInvAlways, PTL DEF Spec, TrimKeepsEdit

\* A buffer that reads as saved, and whose file no other program wrote, has
\* its file's content.
CleanIsDisk ==
  Idle /\ ~HasUnsavedChanges /\ in_sync => [text |-> text, ending |-> line_ending] = disk

LEMMA SavedHoldsDisk == IInv => CleanIsDisk
  <1> SUFFICES ASSUME IInv, Idle, ~HasUnsavedChanges, in_sync
               PROVE  [text |-> text, ending |-> line_ending] = disk
    BY DEF CleanIsDisk
  <1>1. saved_revision = current /\ line_ending = saved_line_ending /\ promoted = NoRev
    BY DEF HasUnsavedChanges, IInv, TrimIsRunning
  <1>2. current \in DOMAIN revisions /\ Fits(revisions, current, text)
    BY DEF IInv, HistoryIsSound, Sound
  <1>3. HoldsText(revisions, current, text, current, disk.text) /\ line_ending = disk.ending
    BY <1>1, <1>2 DEF IInv, SavedIsDisk, RemappedSave
  <1>4. disk.text = text
    BY <1>2, <1>3, CurrentText
  <1>5. disk \in Content
    BY DEF IInv, Controls
  <1> QED BY <1>3, <1>4, <1>5 DEF Content

\* A step of the editor that neither saves nor reads the file.
LEMMA ChangeStep ==
  ASSUME CleanIsDisk', UNCHANGED <<disk, in_sync>>
  PROVE  Promised!Change("file")
  <1>1. ASSUME Idle', ~HasUnsavedChanges', in_sync'
        PROVE  [text |-> text', ending |-> line_ending'] = disk'
    BY <1>1 DEF CleanIsDisk
  <1> QED BY <1>1 DEF Promised!Change

\* A buffer marked as saved over the content its file has.
LEMMA MarkedIsClean ==
  ASSUME MarkSynced(line_ending'), trimming' = "no", UNCHANGED current
  PROVE  Idle' /\ ~HasUnsavedChanges' /\ in_sync'
  BY DEF MarkSynced, Idle, HasUnsavedChanges

LEMMA FileStepIsPromised ==
  ASSUME IInv, CleanIsDisk', FileNext
  PROVE  \/ Promised!Change("file") \/ Promised!Save("file") \/ Promised!Read("file")
         \/ Promised!OtherProgramWrites("file")
  <1>0. disk = [text |-> disk.text, ending |-> disk.ending]
    BY DEF IInv, Controls, Content
  <1>1. CASE Reopen
    <2>1. Idle' /\ ~HasUnsavedChanges' /\ in_sync'
      BY <1>1 DEF Reopen, trim, Idle, HasUnsavedChanges
    <2>2. Promised!Read("file")
      BY <1>0, <1>1, <2>1 DEF Promised!Read, Reopen
    <2> QED BY <2>2
  <1>2. ASSUME NEW e \in Ending, SetLineEnding(e) PROVE Promised!Change("file")
    BY <1>2, ChangeStep DEF SetLineEnding, storage
  <1>3. ASSUME NEW force \in BOOLEAN, Write(force) PROVE Promised!Save("file")
    <2>1. Idle' /\ ~HasUnsavedChanges' /\ in_sync'
      BY <1>3, MarkedIsClean DEF Write, trim, history, Idle
    <2> QED BY <1>3, <2>1 DEF Promised!Save, Write
  <1>4. CASE ReloadChanged
    BY <1>4, ChangeStep DEF ReloadChanged, storage
  <1>5. CASE ReloadSame
    <2>1. Idle' /\ ~HasUnsavedChanges' /\ in_sync'
      BY <1>5, MarkedIsClean DEF ReloadSame, trim, history, Idle
    <2>2. Promised!Read("file")
      BY <1>0, <1>5, <2>1 DEF Promised!Read, ReloadSame
    <2> QED BY <2>2
  <1>6. ASSUME NEW c \in Content, ExternalWrite(c) PROVE Promised!OtherProgramWrites("file")
    <2>1. Idle' = Idle /\ HasUnsavedChanges' = HasUnsavedChanges
      BY <1>6 DEF ExternalWrite, trim, history, saved, Idle, HasUnsavedChanges
    <2> QED BY <1>6, <2>1 DEF Promised!OtherProgramWrites, ExternalWrite
  <1> QED BY <1>1, <1>2, <1>3, <1>4, <1>5, <1>6 DEF FileNext

LEMMA HistoryStepIsPromised ==
  ASSUME IInv, CleanIsDisk', HistoryNext
  PROVE  Promised!Change("file") \/ Promised!Read("file")
  <1>1. CASE TrimDone /\ trimming = "reload"
    <2>1. Idle' /\ ~HasUnsavedChanges' /\ in_sync' /\ UNCHANGED <<text, line_ending, disk>>
      BY <1>1, MarkedIsClean DEF TrimDone, history
    <2>2. [text |-> text, ending |-> line_ending] = disk
      BY <1>1 DEF IInv, TrimIsRunning, Controls, Content
    <2> QED BY <2>1, <2>2 DEF Promised!Read
  <1>2. CASE TrimDone /\ trimming # "reload"
    BY <1>2, ChangeStep DEF TrimDone
  <1>3. CASE TrimDiscard \/ TrimPromote
    BY <1>3, ChangeStep DEF TrimDiscard, TrimPromote, storage
  <1>4. ASSUME NEW t \in Text, Edit(t) PROVE Promised!Change("file")
    BY <1>4, ChangeStep DEF Edit, storage
  <1>5. ASSUME NEW k \in UndoLevels, SetUndoLevels(k) PROVE Promised!Change("file")
    BY <1>5, ChangeStep DEF SetUndoLevels, storage
  <1>6. ASSUME NEW r \in DOMAIN revisions, Undo(r) \/ Redo(r) \/ Goto(r)
        PROVE  Promised!Change("file")
    BY <1>6, ChangeStep DEF Undo, Redo, Goto, storage
  <1> QED BY <1>1, <1>2, <1>3, <1>4, <1>5, <1>6 DEF HistoryNext

LEMMA StepIsPromised ==
  ASSUME IInv, IInv', CleanIsDisk', [Next]_vars
  PROVE  [Promised!Next]_(Promised!vars)
  <1>1. CASE UNCHANGED vars
    BY <1>1 DEF vars, history, trim, saved, storage, Promised!vars, Idle, HasUnsavedChanges
  <1>2. CASE Next
    <2>1. text' \in Text /\ line_ending' \in Ending /\ disk' \in Content
      BY DEF IInv, Controls
    <2>2. /\ [f \in {"file"} |-> [text |-> text', ending |-> line_ending']] \in [{"file"} -> Content]
          /\ [f \in {"file"} |-> disk'] \in [{"file"} -> Content]
      BY <2>1 DEF Content
    <2>3. \/ Promised!Change("file") \/ Promised!Save("file") \/ Promised!Read("file")
          \/ Promised!OtherProgramWrites("file")
      BY <1>2, FileStepIsPromised, HistoryStepIsPromised DEF Next
    <2> QED BY <2>2, <2>3 DEF Promised!Next
  <1> QED BY <1>1, <1>2

\* The buffer keeps the promises of FileVersions: no edit, walk, trim, reload
\* or restored history makes text that its file lacks read as saved.
THEOREM BufferImplementsFileVersions == Spec => ImplementsFileVersions
  <1>1. Init => Promised!Init
    <2> SUFFICES ASSUME Init PROVE Promised!Init
      OBVIOUS
    <2>1. disk \in Content /\ text = disk.text /\ line_ending = disk.ending /\ in_sync = TRUE
      BY DEF Init
    <2>2. [text |-> text, ending |-> line_ending] = disk
      BY <2>1 DEF Content
    <2>3. Idle /\ ~HasUnsavedChanges
      BY DEF Init, Idle, HasUnsavedChanges
    <2> QED BY <2>1, <2>2, <2>3 DEF Promised!Init
  <1>2. IInv /\ IInv' /\ CleanIsDisk' /\ [Next]_vars => [Promised!Next]_(Promised!vars)
    BY StepIsPromised
  <1> QED BY <1>1, <1>2, IInvAlways, SavedHoldsDisk, PTL DEF Spec, ImplementsFileVersions, Promised!Spec

-----------------------------------------------------------------------------
(* What the promises are worth *)

\* Every step that FileVersions allows leaves what reads as saved, and no other
\* program wrote, over its file's content.
LEMMA PromisedStep ==
  ASSUME Promised!CleanIsSaved, [Promised!Next]_(Promised!vars)
  PROVE  Promised!CleanIsSaved'
  <1>1. CASE UNCHANGED Promised!vars
    BY <1>1 DEF Promised!vars, Promised!CleanIsSaved
  <1>2. ASSUME Promised!Change("file") \/ Promised!Save("file") \/ Promised!Read("file")
                 \/ Promised!OtherProgramWrites("file")
        PROVE  Promised!CleanIsSaved'
    BY <1>2 DEF Promised!CleanIsSaved, Promised!Change, Promised!Save, Promised!Read,
                Promised!OtherProgramWrites
  <1> QED BY <1>1, <1>2 DEF Promised!Next

\* Quitting or closing a buffer that reads as saved (HasUnsavedChanges) loses
\* nothing that its file does not hold, unless another program wrote the file
\* meanwhile: it follows from what FileVersions promises alone.
THEOREM CleanIsAlwaysSaved == Spec => []Promised!CleanIsSaved
  <1>1. Promised!Init => Promised!CleanIsSaved
    BY DEF Promised!Init, Promised!CleanIsSaved
  <1>2. Promised!CleanIsSaved /\ [Promised!Next]_(Promised!vars) => Promised!CleanIsSaved'
    BY PromisedStep
  <1>3. Promised!Spec => []Promised!CleanIsSaved
    BY <1>1, <1>2, PTL DEF Promised!Spec
  <1> QED BY <1>3, BufferImplementsFileVersions, PTL DEF ImplementsFileVersions
=============================================================================
