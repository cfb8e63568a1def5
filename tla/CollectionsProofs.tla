-------------------------- MODULE CollectionsProofs --------------------------
(***************************************************************************)
(* Facts the proofs about several components share: induction, what Retain *)
(* returns, how sums compare, and what folds over sets and sequences keep. *)
(***************************************************************************)
EXTENDS Collections, Functions, FiniteSetsExt, SequenceTheorems, FiniteSetTheorems,
        WellFoundedInduction, TLAPS

-----------------------------------------------------------------------------
(* Induction *)

\* Induction over the naturals, for a set in place of a property.
LEMMA NatInductionSet ==
  ASSUME NEW T, 0 \in T, \A n \in Nat : n \in T => n + 1 \in T
  PROVE  Nat \subseteq T
  <1> DEFINE R == {ss \in Nat \X Nat : ss[1] < ss[2]}
             U == Nat \ T
  <1>1. IsWellFoundedOn(R, Nat)
    BY NatLessThanWellFounded DEF OpToRel
  <1>2. CASE U = {}
    BY <1>2
  <1>3. CASE U # {}
    <2>1. U \subseteq Nat
      OBVIOUS
    <2>2. \E x \in U : \A y \in U : ~ (<<y, x>> \in R)
      <3> HIDE DEF R, U
      <3> QED BY <1>1, <1>3, <2>1, WFMin
    <2>3. PICK x \in U : \A y \in U : ~ (<<y, x>> \in R)
      BY <2>2
    <2>4. \A y \in U : ~ (y < x)
      BY <2>3
    <2>5. x # 0 /\ x - 1 \in Nat
      OBVIOUS
    <2>6. x - 1 \in T
      BY <2>4, <2>5
    <2> QED BY <2>5, <2>6
  <1> QED BY <1>2, <1>3

\* Induction over the subsets of a finite set, for a set in place of a
\* property.
LEMMA FiniteInductionSet ==
  ASSUME NEW S, IsFiniteSet(S), NEW T, {} \in T,
         \A s \in SUBSET S : \A x \in S \ s : s \in T => s \cup {x} \in T
  PROVE  S \in T
  <1> DEFINE N == {n \in Nat : \A s \in SUBSET S : Cardinality(s) = n => s \in T}
  <1>0. \A s \in SUBSET S : IsFiniteSet(s) /\ Cardinality(s) \in Nat
    BY FS_Subset, FS_CardinalityType
  <1>1. 0 \in N
    <2>1. \A s \in SUBSET S : Cardinality(s) = 0 => s = {}
      BY <1>0, FS_EmptySet
    <2> QED BY <2>1
  <1>2. ASSUME NEW n \in Nat, n \in N PROVE n + 1 \in N
    <2> SUFFICES ASSUME NEW s \in SUBSET S, Cardinality(s) = n + 1 PROVE s \in T
      OBVIOUS
    <2>1. s # {}
      BY <1>0, FS_EmptySet
    <2>2. PICK x \in s : TRUE
      BY <2>1
    <2>3. Cardinality(s \ {x}) = n
      <3>1. Cardinality(s \ {x}) = Cardinality(s) - 1
        BY <1>0, FS_RemoveElement
      <3> QED BY <3>1
    <2>4. s \ {x} \in T
      BY <1>2, <2>3
    <2>5. s = (s \ {x}) \cup {x} /\ x \in S \ (s \ {x}) /\ s \ {x} \in SUBSET S
      OBVIOUS
    <2> QED BY <2>4, <2>5
  <1> HIDE DEF N
  <1>3. Nat \subseteq N
    BY <1>1, <1>2, NatInductionSet
  <1>4. Cardinality(S) \in N
    BY <1>0, <1>3
  <1> QED BY <1>4 DEF N

-----------------------------------------------------------------------------
(* Folds *)

\* Induction over the subsets of a finite set from which a fold takes out
\* pick[s] of a set s.
LEMMA PickInduction ==
  ASSUME NEW S, IsFiniteSet(S), NEW pick, \A s \in SUBSET S : s # {} => pick[s] \in s,
         NEW T, {} \in T,
         \A s \in SUBSET S : s # {} /\ s \ {pick[s]} \in T => s \in T
  PROVE  SUBSET S \subseteq T
  <1> DEFINE N == {n \in Nat : \A s \in SUBSET S : Cardinality(s) = n => s \in T}
  <1>0. \A s \in SUBSET S : IsFiniteSet(s) /\ Cardinality(s) \in Nat
    BY FS_Subset, FS_CardinalityType
  <1>1. 0 \in N
    <2>1. \A s \in SUBSET S : Cardinality(s) = 0 => s = {}
      BY <1>0, FS_EmptySet
    <2> QED BY <2>1
  <1>2. ASSUME NEW n \in Nat, n \in N PROVE n + 1 \in N
    <2> SUFFICES ASSUME NEW s \in SUBSET S, Cardinality(s) = n + 1 PROVE s \in T
      OBVIOUS
    <2>1. s # {}
      BY <1>0, FS_EmptySet
    <2>2. PICK x \in s : x = pick[s]
      BY <2>1
    <2>3. Cardinality(s \ {x}) = n
      <3>1. Cardinality(s \ {x}) = Cardinality(s) - 1
        BY <1>0, FS_RemoveElement
      <3> QED BY <3>1
    <2> QED BY <1>2, <2>1, <2>2, <2>3
  <1> HIDE DEF N
  <1>3. Nat \subseteq N
    BY <1>1, <1>2, NatInductionSet
  <1>4. ASSUME NEW s \in SUBSET S PROVE s \in T
    <2>1. Cardinality(s) \in N
      BY <1>0, <1>3
    <2> QED BY <2>1 DEF N
  <1> QED BY <1>4

\* The values of a fold over the sets in D, whose step is the function `step`.
FoldsOver(it, D, base, step, pick) ==
  it = [s \in D |-> IF s = {} THEN base ELSE step[<<pick[s], it[s \ {pick[s]}]>>]]

\* A fold over a finite set has values.
LEMMA FoldsExist ==
  ASSUME NEW S, IsFiniteSet(S), NEW pick, \A s \in SUBSET S : s # {} => pick[s] \in s,
         NEW base, NEW step
  PROVE  \E it : FoldsOver(it, SUBSET S, base, step, pick)
  <1> DEFINE D(n) == {s \in SUBSET S : Cardinality(s) <= n}
             next(it, s) == step[<<pick[s], it[s \ {pick[s]}]>>]
             T == {n \in Nat : \E it : FoldsOver(it, D(n), base, step, pick)}
  <1>0. \A s \in SUBSET S : IsFiniteSet(s) /\ Cardinality(s) \in Nat
    BY FS_Subset, FS_CardinalityType
  <1>1. 0 \in T
    <2> DEFINE it == [s \in D(0) |-> base]
    <2>1. D(0) \subseteq {{}}
      BY <1>0, FS_EmptySet
    <2>2. FoldsOver(it, D(0), base, step, pick)
      BY <2>1 DEF FoldsOver
    <2>3. \E h : FoldsOver(h, D(0), base, step, pick)
      <3> HIDE DEF D, it
      <3> QED BY <2>2
    <2> HIDE DEF D
    <2> QED BY <2>3
  <1>2. ASSUME NEW n \in Nat, n \in T PROVE n + 1 \in T
    <2>1. PICK it : FoldsOver(it, D(n), base, step, pick)
      BY <1>2
    <2> DEFINE g == [s \in D(n + 1) |-> IF s = {} THEN base ELSE next(it, s)]
    <2>2. \A s \in D(n) : it[s] = IF s = {} THEN base ELSE next(it, s)
      <3> HIDE DEF D
      <3> QED BY <2>1 DEF FoldsOver
    <2>3. ASSUME NEW s \in D(n + 1), s # {}
          PROVE  g[s \ {pick[s]}] = it[s \ {pick[s]}]
      <3>1. PICK x \in s : x = pick[s]
        BY <2>3
      <3>2. Cardinality(s \ {x}) = Cardinality(s) - 1
        BY <1>0, <3>1, FS_RemoveElement
      <3>3. s \ {x} \in D(n) /\ s \ {x} \in D(n + 1)
        BY <1>0, <3>2
      <3>4. g[s \ {x}] = it[s \ {x}]
        <4> HIDE DEF D, next
        <4> QED BY <2>2, <3>3
      <3> HIDE DEF g, D
      <3> QED BY <3>1, <3>4
    <2>4. g = [s \in D(n + 1) |-> IF s = {} THEN base ELSE next(g, s)]
      <3>1. \A s \in D(n + 1) :
              (IF s = {} THEN base ELSE next(it, s)) = IF s = {} THEN base ELSE next(g, s)
        <4> HIDE DEF D, g
        <4> QED BY <2>3
      <3> HIDE DEF D, next
      <3> QED BY <3>1
    <2>5. FoldsOver(g, D(n + 1), base, step, pick)
      <3> HIDE DEF D, g
      <3> QED BY <2>4 DEF FoldsOver
    <2>6. \E h : FoldsOver(h, D(n + 1), base, step, pick)
      <3> HIDE DEF D, g
      <3> QED BY <2>5
    <2>7. n + 1 \in Nat
      OBVIOUS
    <2> HIDE DEF D
    <2> QED BY <2>6, <2>7
  <1> HIDE DEF T
  <1>3. Nat \subseteq T
    BY <1>1, <1>2, NatInductionSet
  <1>4. D(Cardinality(S)) = SUBSET S
    <2>1. \A s \in SUBSET S : Cardinality(s) <= Cardinality(S)
      BY FS_Subset
    <2> QED BY <2>1
  <1>5. Cardinality(S) \in T
    BY <1>0, <1>3
  <1>6. \E it : FoldsOver(it, D(Cardinality(S)), base, step, pick)
    <2> HIDE DEF D
    <2> QED BY <1>5 DEF T
  <1> HIDE DEF D
  <1> QED BY <1>4, <1>6

\* A fold from `base` whose step makes values in V of values in V.
FoldFits(S, pick, V, base, step) ==
  /\ IsFiniteSet(S) /\ \A s \in SUBSET S : s # {} => pick[s] \in s
  /\ base \in V /\ \A x \in S, v \in V : step[<<x, v>>] \in V

\* What is known of `it` when the fold is known to be `step` in V only.
FoldsWithin(it, S, pick, V, base, step) ==
  /\ it[{}] = base
  /\ \A s \in SUBSET S : s # {} /\ it[s \ {pick[s]}] \in V =>
       it[s] = step[<<pick[s], it[s \ {pick[s]}]>>]

\* Such a fold stays in V.
LEMMA FoldStaysIn ==
  ASSUME NEW S, NEW pick, NEW V, NEW base, NEW step, FoldFits(S, pick, V, base, step),
         NEW it, FoldsWithin(it, S, pick, V, base, step)
  PROVE  \A s \in SUBSET S : it[s] \in V
  <1> DEFINE T == {s \in SUBSET S : it[s] \in V}
  <1>0. IsFiniteSet(S) /\ \A s \in SUBSET S : s # {} => pick[s] \in s
    BY DEF FoldFits
  <1>1. {} \in T
    BY DEF FoldsWithin, FoldFits
  <1>2. ASSUME NEW s \in SUBSET S, s # {}, s \ {pick[s]} \in T PROVE s \in T
    <2>1. PICK x \in S, v \in V : x = pick[s] /\ v = it[s \ {pick[s]}]
      BY <1>0, <1>2
    <2>2. it[s] = step[<<x, v>>]
      BY <1>2, <2>1 DEF FoldsWithin
    <2> QED BY <2>2 DEF FoldFits
  <1> HIDE DEF T
  <1>3. SUBSET S \subseteq T
    BY <1>0, <1>1, <1>2, PickInduction
  <1> QED BY <1>3 DEF T

\* The fold, all of whose values are in V.
FoldIs(it, S, pick, V, base, step) ==
  /\ it = [s \in SUBSET S |-> it[s]]
  /\ it[{}] = base
  /\ \A s \in SUBSET S : it[s] \in V
  /\ \A s \in SUBSET S : s # {} => it[s] = step[<<pick[s], it[s \ {pick[s]}]>>]

\* There is such a fold.
LEMMA FoldsExistIn ==
  ASSUME NEW S, NEW pick, NEW V, NEW base, NEW step, FoldFits(S, pick, V, base, step)
  PROVE  \E it : FoldIs(it, S, pick, V, base, step)
  <1>1. PICK it : FoldsOver(it, SUBSET S, base, step, pick)
    BY FoldsExist DEF FoldFits
  <1>2. /\ it = [s \in SUBSET S |-> it[s]] /\ it[{}] = base
        /\ \A s \in SUBSET S : s # {} => it[s] = step[<<pick[s], it[s \ {pick[s]}]>>]
    BY <1>1 DEF FoldsOver
  <1>3. FoldsWithin(it, S, pick, V, base, step)
    BY <1>2 DEF FoldsWithin
  <1>4. \A s \in SUBSET S : it[s] \in V
    BY <1>3, FoldStaysIn
  <1> QED BY <1>2, <1>4 DEF FoldIs

-----------------------------------------------------------------------------
(* Folds from the left *)

\* The greatest of some of the numbers up to n is one of them.
LEMMA MaxIsOne ==
  ASSUME NEW n \in Nat, NEW s \in SUBSET (1 .. n), s # {}
  PROVE  Max(s) \in s /\ \A x \in s : x <= Max(s)
  <1> DEFINE T == {k \in Nat : \A r \in SUBSET (1 .. k) : r # {} => \E x \in r : \A y \in r : x >= y}
  <1>1. 0 \in T
    <2>1. 1 .. 0 = {}
      OBVIOUS
    <2> QED BY <2>1
  <1>2. ASSUME NEW k \in Nat, k \in T PROVE k + 1 \in T
    <2> SUFFICES ASSUME NEW r \in SUBSET (1 .. k + 1), r # {}
                 PROVE  \E x \in r : \A y \in r : x >= y
      OBVIOUS
    <2>1. CASE k + 1 \in r
      BY <2>1
    <2>2. CASE k + 1 \notin r
      <3>1. r \in SUBSET (1 .. k)
        BY <2>2
      <3> QED BY <1>2, <3>1
    <2> QED BY <2>1, <2>2
  <1> HIDE DEF T
  <1>3. n \in T
    BY <1>1, <1>2, NatInductionSet
  <1>4. \E x \in s : \A y \in s : x >= y
    BY <1>3 DEF T
  <1>5. Max(s) \in s /\ \A y \in s : Max(s) >= y
    BY <1>4 DEF Max
  <1> QED BY <1>5

\* A prefix is one longer than the one before it.
LEMMA PrefixGrows ==
  ASSUME NEW n \in Nat, n # 0
  PROVE  1 .. n # {} /\ Max(1 .. n) = n /\ (1 .. n) \ {n} = 1 .. n - 1
  <1>1. n \in 1 .. n
    OBVIOUS
  <1>2. Max(1 .. n) \in 1 .. n /\ n <= Max(1 .. n)
    BY <1>1, MaxIsOne
  <1> QED BY <1>1, <1>2

\* The picks of a fold from the left over a sequence of length n.
LastOf(n) == [s \in SUBSET (1 .. n) |-> Max(s)]

\* These are picks.
LEMMA LastIsOne ==
  ASSUME NEW n \in Nat
  PROVE  IsFiniteSet(1 .. n) /\ \A s \in SUBSET (1 .. n) : s # {} => LastOf(n)[s] \in s
  <1>1. IsFiniteSet(1 .. n)
    BY FS_Interval
  <1>2. ASSUME NEW s \in SUBSET (1 .. n), s # {} PROVE LastOf(n)[s] \in s
    <2>1. Max(s) \in s
      BY <1>2, MaxIsOne
    <2> QED BY <2>1 DEF LastOf
  <1> QED BY <1>1, <1>2

\* The prefixes a fold from the left goes through.
LEMMA PrefixSets ==
  ASSUME NEW n \in Nat
  PROVE  /\ 1 .. 0 = {}
         /\ \A k \in Nat : k + 1 \in 1 .. n =>
              /\ 1 .. k + 1 \in SUBSET (1 .. n) /\ 1 .. k + 1 # {}
              /\ Max(1 .. k + 1) = k + 1 /\ (1 .. k + 1) \ {k + 1} = 1 .. k
  <1>1. 1 .. 0 = {}
    OBVIOUS
  <1>2. ASSUME NEW k \in Nat, k + 1 \in 1 .. n
        PROVE  /\ 1 .. k + 1 \in SUBSET (1 .. n) /\ 1 .. k + 1 # {}
               /\ Max(1 .. k + 1) = k + 1 /\ (1 .. k + 1) \ {k + 1} = 1 .. k
    <2>1. PICK m \in Nat : m = k + 1 /\ m # 0
      OBVIOUS
    <2>2. 1 .. m # {} /\ Max(1 .. m) = m /\ (1 .. m) \ {m} = 1 .. m - 1
      BY <2>1, PrefixGrows
    <2> QED BY <1>2, <2>1, <2>2
  <1> QED BY <1>1, <1>2

\* A fold from the left over a sequence, from `base`, known to be `step` on
\* values of V.
LeftFold(it, V, base, seq, step) ==
  /\ it = [s \in SUBSET DOMAIN seq |-> it[s]]
  /\ it[{}] = base
  /\ \A s \in SUBSET DOMAIN seq : s # {} /\ it[s \ {Max(s)}] \in V =>
       it[s] = step[<<it[s \ {Max(s)}], seq[Max(s)]>>]

\* Such a fold, all of whose values are in V.
LeftFoldIn(it, V, base, seq, step) ==
  /\ LeftFold(it, V, base, seq, step)
  /\ \A s \in SUBSET DOMAIN seq : it[s] \in V

\* There is such a fold.
LEMMA LeftFoldExists ==
  ASSUME NEW V, NEW X, NEW base \in V, NEW seq \in Seq(X), NEW step \in [V \X X -> V]
  PROVE  \E it : LeftFoldIn(it, V, base, seq, step)
  <1> DEFINE n == Len(seq)
             S == 1 .. n
             pick == LastOf(n)
             op == [p \in S \X V |-> step[<<p[2], seq[p[1]]>>]]
  <1>0. n \in Nat /\ DOMAIN seq = S /\ \A i \in S : seq[i] \in X
    OBVIOUS
  <1>1. IsFiniteSet(S) /\ \A s \in SUBSET S : s # {} => pick[s] \in s /\ pick[s] = Max(s)
    BY <1>0, LastIsOne DEF LastOf
  <1>2. \A i \in S, v \in V : op[<<i, v>>] = step[<<v, seq[i]>>] /\ op[<<i, v>>] \in V
    BY <1>0
  <1>3. FoldFits(S, pick, V, base, op)
    <2> HIDE DEF S, pick, op
    <2> QED BY <1>1, <1>2 DEF FoldFits
  <1>4. PICK it : FoldIs(it, S, pick, V, base, op)
    <2> HIDE DEF S, pick, op
    <2> QED BY <1>3, FoldsExistIn
  <1>5. /\ it = [s \in SUBSET S |-> it[s]] /\ it[{}] = base
        /\ \A s \in SUBSET S : it[s] \in V
        /\ \A s \in SUBSET S : s # {} => it[s] = op[<<pick[s], it[s \ {pick[s]}]>>]
    <2> HIDE DEF S, pick, op
    <2> QED BY <1>4 DEF FoldIs
  <1>6. ASSUME NEW s \in SUBSET S, s # {}
        PROVE  it[s] = step[<<it[s \ {Max(s)}], seq[Max(s)]>>]
    <2>1. pick[s] = Max(s) /\ pick[s] \in S /\ it[s \ {pick[s]}] \in V
      <3> HIDE DEF S, pick, op
      <3> QED BY <1>1, <1>5, <1>6
    <2>2. PICK i \in S, v \in V : i = Max(s) /\ v = it[s \ {Max(s)}]
      <3> HIDE DEF S, pick, op
      <3> QED BY <2>1
    <2>3. it[s] = op[<<i, v>>]
      <3> HIDE DEF S, pick, op
      <3> QED BY <1>5, <1>6, <2>1, <2>2
    <2>4. op[<<i, v>>] = step[<<v, seq[i]>>]
      BY <1>2
    <2> HIDE DEF S, pick, op
    <2> QED BY <2>2, <2>3, <2>4
  <1> HIDE DEF S, pick, op
  <1> QED BY <1>0, <1>5, <1>6 DEF LeftFoldIn, LeftFold

\* What a fold from the left makes of each prefix of a sequence.
LeftHistory(h, V, base, seq, step) ==
  /\ h \in [0 .. Len(seq) -> V]
  /\ h[0] = base
  /\ \A k \in 1 .. Len(seq) : h[k] = step[<<h[k - 1], seq[k]>>]

\* These prefixes, up to the whole sequence.
LeftHistoryTo(h, V, base, seq, step, it) ==
  LeftHistory(h, V, base, seq, step) /\ h[Len(seq)] = it[DOMAIN seq]

\* A fold from the left is the last of what it makes of the prefixes.
LEMMA LeftFoldHistory ==
  ASSUME NEW V, NEW X, NEW base \in V, NEW seq \in Seq(X), NEW step \in [V \X X -> V],
         NEW it, LeftFold(it, V, base, seq, step)
  PROVE  \E h : LeftHistoryTo(h, V, base, seq, step, it)
  <1> DEFINE n == Len(seq)
             S == 1 .. n
             T == {k \in Nat : k <= n => it[1 .. k] \in V}
             h == [k \in 0 .. n |-> it[1 .. k]]
  <1>0. n \in Nat /\ DOMAIN seq = S /\ \A i \in S : seq[i] \in X
    OBVIOUS
  <1>a. it[{}] = base /\ \A s \in SUBSET S : s # {} /\ it[s \ {Max(s)}] \in V =>
          it[s] = step[<<it[s \ {Max(s)}], seq[Max(s)]>>]
    <2> HIDE DEF S
    <2> QED BY <1>0 DEF LeftFold
  <1>b. 1 .. 0 = {}
    OBVIOUS
  <1>1. ASSUME NEW k \in Nat, k < n, it[1 .. k] \in V
        PROVE  it[1 .. k + 1] = step[<<it[1 .. k], seq[k + 1]>>] /\ it[1 .. k + 1] \in V
    <2>1. PICK s, m : s = 1 .. k + 1 /\ m = k + 1 /\ m \in S
      BY <1>0, <1>1
    <2>2. s \in SUBSET S /\ s # {} /\ Max(s) = m /\ s \ {m} = 1 .. k
      BY <1>0, <2>1, PrefixSets
    <2>3. it[s] = step[<<it[1 .. k], seq[m]>>]
      <3> HIDE DEF S
      <3> QED BY <1>1, <1>a, <2>2
    <2>4. step[<<it[1 .. k], seq[m]>>] \in V
      BY <1>0, <1>1, <2>1
    <2> QED BY <2>1, <2>3, <2>4
  <1>2. 0 \in T
    BY <1>a, <1>b
  <1>3. ASSUME NEW k \in Nat, k \in T PROVE k + 1 \in T
    <2>1. CASE k < n
      <3>1. it[1 .. k] \in V
        BY <1>0, <1>3, <2>1
      <3>2. it[1 .. k + 1] \in V
        <4> HIDE DEF n, T
        <4> QED BY <1>1, <2>1, <3>1
      <3> QED BY <3>2
    <2>2. CASE ~(k < n)
      BY <1>0, <2>2
    <2> QED BY <2>1, <2>2
  <1> HIDE DEF T
  <1>4. Nat \subseteq T
    BY <1>2, <1>3, NatInductionSet
  <1>5. \A k \in 0 .. n : it[1 .. k] \in V
    BY <1>0, <1>4 DEF T
  <1>6. h \in [0 .. n -> V] /\ h[0] = base /\ h[n] = it[DOMAIN seq]
    BY <1>0, <1>5, <1>a, <1>b
  <1>7. ASSUME NEW k \in 1 .. n PROVE h[k] = step[<<h[k - 1], seq[k]>>]
    <2>1. PICK j \in Nat : k = j + 1 /\ j < n /\ j \in 0 .. n
      BY <1>0
    <2>2. it[1 .. j + 1] = step[<<it[1 .. j], seq[j + 1]>>]
      BY <1>1, <1>5, <2>1
    <2>3. k - 1 = j /\ k \in 0 .. n
      BY <2>1
    <2> QED BY <2>1, <2>2, <2>3
  <1> HIDE DEF h
  <1> QED BY <1>6, <1>7 DEF LeftHistory, LeftHistoryTo

\* Two folds from the left make the same of a prefix two sequences share.
LEMMA LeftHistoriesAgree ==
  ASSUME NEW V, NEW base, NEW step, NEW p, NEW q, Len(p) \in Nat, Len(q) \in Nat,
         NEW g, LeftHistory(g, V, base, p, step), NEW h, LeftHistory(h, V, base, q, step),
         NEW n \in Nat, n <= Len(p), n <= Len(q), \A i \in 1 .. n : p[i] = q[i]
  PROVE  g[n] = h[n]
  <1> DEFINE T == {k \in Nat : k <= n => g[k] = h[k]}
  <1>1. 0 \in T
    BY DEF LeftHistory
  <1>2. ASSUME NEW k \in Nat, k \in T PROVE k + 1 \in T
    <2>1. CASE k + 1 <= n
      <3>1. PICK m : m = k + 1 /\ m \in 1 .. n /\ m \in 1 .. Len(p) /\ m \in 1 .. Len(q) /\ m - 1 = k
        BY <2>1
      <3>2. g[m] = step[<<g[k], p[m]>>] /\ h[m] = step[<<h[k], q[m]>>]
        BY <3>1 DEF LeftHistory
      <3> QED BY <1>2, <2>1, <3>1, <3>2
    <2>2. CASE ~(k + 1 <= n)
      BY <2>2
    <2> QED BY <2>1, <2>2
  <1> HIDE DEF T
  <1>3. Nat \subseteq T
    BY <1>1, <1>2, NatInductionSet
  <1> QED BY <1>3 DEF T

\* What holds of the start of a fold from the left, and is kept by each of its
\* steps, holds of its end: W[k] is what holds after k steps.
LEMMA LeftHistoryReaches ==
  ASSUME NEW V, NEW base, NEW step, NEW seq, Len(seq) \in Nat,
         NEW h, LeftHistory(h, V, base, seq, step),
         NEW W, base \in W[0],
         \A k \in 1 .. Len(seq), v \in V :
           v \in W[k - 1] => step[<<v, seq[k]>>] \in W[k]
  PROVE  h[Len(seq)] \in W[Len(seq)]
  <1> DEFINE n == Len(seq)
             T == {k \in Nat : k <= n => h[k] \in W[k]}
  <1>1. 0 \in T
    BY DEF LeftHistory
  <1>2. ASSUME NEW k \in Nat, k \in T PROVE k + 1 \in T
    <2>1. CASE k + 1 <= n
      <3>1. PICK m : m = k + 1 /\ m \in 1 .. n /\ m - 1 = k /\ k \in 0 .. n
        BY <2>1
      <3>2. h[m] = step[<<h[k], seq[m]>>] /\ h[k] \in V
        BY <3>1 DEF LeftHistory
      <3>3. h[k] \in W[k]
        BY <1>2, <2>1
      <3> QED BY <3>1, <3>2, <3>3
    <2>2. CASE ~(k + 1 <= n)
      BY <2>2
    <2> QED BY <2>1, <2>2
  <1> HIDE DEF T
  <1>3. Nat \subseteq T
    BY <1>1, <1>2, NatInductionSet
  <1> QED BY <1>3 DEF T

-----------------------------------------------------------------------------
(* Folds over a set *)

\* A fold over a set, from `base`, known to be `step` on values of V.
SetFold(it, V, base, S, step) ==
  /\ it = [s \in SUBSET S |-> it[s]]
  /\ it[{}] = base
  /\ \A s \in SUBSET S : s # {} /\ it[s \ {CHOOSE x \in s : TRUE}] \in V =>
       it[s] = step[<<CHOOSE x \in s : TRUE, it[s \ {CHOOSE x \in s : TRUE}]>>]

\* Such a fold, all of whose values are in V.
SetFoldIn(it, V, base, S, step) ==
  /\ SetFold(it, V, base, S, step)
  /\ \A s \in SUBSET S : it[s] \in V

\* There is such a fold.
LEMMA SetFoldExists ==
  ASSUME NEW V, NEW base \in V, NEW S, IsFiniteSet(S), NEW step \in [S \X V -> V]
  PROVE  \E it : SetFoldIn(it, V, base, S, step)
  <1> DEFINE pick == [s \in SUBSET S |-> CHOOSE x \in s : TRUE]
  <1>1. \A s \in SUBSET S : s # {} => pick[s] \in s
    OBVIOUS
  <1>2. \A s \in SUBSET S : pick[s] = CHOOSE x \in s : TRUE
    OBVIOUS
  <1> HIDE DEF pick
  <1>3. \A i \in S, v \in V : step[<<i, v>>] \in V
    OBVIOUS
  <1>4. FoldFits(S, pick, V, base, step)
    BY <1>1, <1>3 DEF FoldFits
  <1>5. PICK it : FoldIs(it, S, pick, V, base, step)
    BY <1>4, FoldsExistIn
  <1>6. SetFold(it, V, base, S, step)
    BY <1>2, <1>5 DEF FoldIs, SetFold
  <1> QED BY <1>5, <1>6 DEF FoldIs, SetFoldIn

\* What holds of the start of a fold over a set, and is kept by each of its
\* steps, holds of its end: W[s] is what holds when the elements of s are done.
LEMMA SetFoldReaches ==
  ASSUME NEW V, NEW base, NEW S, IsFiniteSet(S), NEW step,
         NEW it, SetFold(it, V, base, S, step),
         NEW W, \A s \in SUBSET S : W[s] \subseteq V,
         base \in W[{}],
         \A s \in SUBSET S : \A x \in s : \A v \in W[s \ {x}] : step[<<x, v>>] \in W[s]
  PROVE  it[S] \in W[S]
  <1> DEFINE pick == [s \in SUBSET S |-> CHOOSE x \in s : TRUE]
             T == {s \in SUBSET S : it[s] \in W[s]}
  <1>1. \A s \in SUBSET S : s # {} => pick[s] \in s
    OBVIOUS
  <1>2. \A s \in SUBSET S : pick[s] = CHOOSE x \in s : TRUE
    OBVIOUS
  <1>3. {} \in T
    BY DEF SetFold
  <1>4. ASSUME NEW s \in SUBSET S, s # {}, s \ {pick[s]} \in T PROVE s \in T
    <2>1. PICK x \in s : x = pick[s]
      BY <1>1, <1>4
    <2>2. it[s \ {x}] \in W[s \ {x}] /\ it[s \ {x}] \in V
      BY <1>4, <2>1
    <2>3. it[s] = step[<<x, it[s \ {x}]>>]
      <3> HIDE DEF pick, T
      <3> QED BY <1>2, <1>4, <2>1, <2>2 DEF SetFold
    <2> QED BY <2>1, <2>2, <2>3
  <1> HIDE DEF pick, T
  <1>5. SUBSET S \subseteq T
    BY <1>1, <1>3, <1>4, PickInduction
  <1> QED BY <1>5 DEF T

-----------------------------------------------------------------------------
(* What Retain returns *)

\* The parts of `elements` that Retain builds, up to its m-th.
RetainsUpTo(f, m, elements, kept) ==
  f = [n \in 0 .. m |->
        IF n = 0 THEN <<>>
        ELSE IF elements[n] \in kept THEN Append(f[n - 1], elements[n])
        ELSE f[n - 1]]

\* There are such parts, for every length.
LEMMA RetainedExist ==
  ASSUME NEW elements, NEW kept
  PROVE  \A m \in Nat : \E f : RetainsUpTo(f, m, elements, kept)
  <1> DEFINE T == {m \in Nat : \E f : RetainsUpTo(f, m, elements, kept)}
             next(g, n) == IF elements[n] \in kept THEN Append(g, elements[n]) ELSE g
  <1>1. 0 \in T
    <2> DEFINE f == [n \in 0 .. 0 |-> <<>>]
    <2>1. RetainsUpTo(f, 0, elements, kept)
      BY DEF RetainsUpTo
    <2> QED BY <2>1
  <1>2. ASSUME NEW m \in Nat, m \in T PROVE m + 1 \in T
    <2>1. PICK f : RetainsUpTo(f, m, elements, kept)
      BY <1>2
    <2> DEFINE g == [n \in 0 .. m + 1 |-> IF n = m + 1 THEN next(f[m], m + 1) ELSE f[n]]
    <2>2. \A n \in 0 .. m : f[n] = IF n = 0 THEN <<>> ELSE next(f[n - 1], n)
      BY <2>1 DEF RetainsUpTo
    <2>3. \A n \in 0 .. m + 1 : g[n] = IF n = 0 THEN <<>> ELSE next(g[n - 1], n)
      <3> SUFFICES ASSUME NEW n \in 0 .. m + 1
                   PROVE  g[n] = IF n = 0 THEN <<>> ELSE next(g[n - 1], n)
        OBVIOUS
      <3>1. CASE n = m + 1
        <4>1. g[n] = next(f[m], m + 1) /\ g[n - 1] = f[m]
          BY <3>1
        <4> QED BY <3>1, <4>1
      <3>2. CASE n # m + 1
        <4>1. n \in 0 .. m /\ g[n] = f[n] /\ (n # 0 => g[n - 1] = f[n - 1])
          BY <3>2
        <4> QED BY <2>2, <4>1
      <3> QED BY <3>1, <3>2
    <2>4. RetainsUpTo(g, m + 1, elements, kept)
      <3>1. g = [n \in 0 .. m + 1 |-> g[n]]
        OBVIOUS
      <3> HIDE DEF g
      <3>2. g = [n \in 0 .. m + 1 |-> IF n = 0 THEN <<>> ELSE next(g[n - 1], n)]
        BY <2>3, <3>1
      <3> QED BY <3>2 DEF RetainsUpTo
    <2> QED BY <2>4
  <1> HIDE DEF T
  <1>3. Nat \subseteq T
    BY <1>1, <1>2, NatInductionSet
  <1> QED BY <1>3 DEF T

\* A sequence retains, each once, the elements that are kept.
LEMMA RetainProperties ==
  ASSUME NEW S, NEW elements \in Seq(S), NEW kept
  PROVE  /\ Retain(elements, kept) \in Seq(S)
         /\ \A i \in DOMAIN Retain(elements, kept) :
              \E j \in DOMAIN elements : Retain(elements, kept)[i] = elements[j] /\ elements[j] \in kept
         /\ \A j \in DOMAIN elements : elements[j] \in kept =>
              \E i \in DOMAIN Retain(elements, kept) : Retain(elements, kept)[i] = elements[j]
         /\ (\A i, j \in DOMAIN elements : elements[i] = elements[j] => i = j) =>
              \A i, j \in DOMAIN Retain(elements, kept) :
                Retain(elements, kept)[i] = Retain(elements, kept)[j] => i = j
  <1> DEFINE L == Len(elements)
             f == CHOOSE g : RetainsUpTo(g, L, elements, kept)
  <1>0. L \in Nat /\ DOMAIN elements = 1 .. L
    OBVIOUS
  <1>1. RetainsUpTo(f, L, elements, kept)
    BY <1>0, RetainedExist
  <1>2. Retain(elements, kept) = f[L]
    BY DEF Retain, RetainsUpTo
  <1> HIDE DEF f, L
  <1>3. \A n \in 0 .. L : f[n] = IF n = 0 THEN <<>>
                                 ELSE IF elements[n] \in kept THEN Append(f[n - 1], elements[n])
                                 ELSE f[n - 1]
    BY <1>1 DEF RetainsUpTo
  <1> DEFINE injective(n) == \A i, j \in 1 .. n : elements[i] = elements[j] => i = j
             good(n) ==
               /\ f[n] \in Seq(S)
               /\ \A i \in 1 .. Len(f[n]) : \E j \in 1 .. n : f[n][i] = elements[j] /\ elements[j] \in kept
               /\ \A j \in 1 .. n : elements[j] \in kept => \E i \in 1 .. Len(f[n]) : f[n][i] = elements[j]
               /\ injective(n) => \A i, j \in 1 .. Len(f[n]) : f[n][i] = f[n][j] => i = j
             T == {n \in Nat : n <= L => good(n)}
  <1>4. 0 \in T
    <2>1. f[0] = <<>>
      BY <1>0, <1>3
    <2>2. good(0)
      BY <2>1
    <2> QED BY <2>2
  <1>5. ASSUME NEW n \in Nat, n \in T PROVE n + 1 \in T
    <2> SUFFICES ASSUME n + 1 <= L PROVE good(n + 1)
      OBVIOUS
    <2>1. good(n) /\ n + 1 \in 0 .. L /\ elements[n + 1] \in S
      BY <1>0, <1>5
    <2>2. f[n + 1] = IF elements[n + 1] \in kept THEN Append(f[n], elements[n + 1]) ELSE f[n]
      BY <1>3, <2>1
    <2>3. CASE elements[n + 1] \notin kept
      <3>1. f[n + 1] = f[n]
        BY <2>2, <2>3
      <3>2. \A j \in 1 .. n + 1 : elements[j] \in kept => j \in 1 .. n
        BY <2>3
      <3>3. injective(n + 1) => injective(n)
        OBVIOUS
      <3> QED BY <2>1, <3>1, <3>2, <3>3
    <2>4. CASE elements[n + 1] \in kept
      <3> DEFINE g == f[n]
                 h == f[n + 1]
      <3>1. /\ h \in Seq(S) /\ Len(h) = Len(g) + 1 /\ Len(g) \in Nat
            /\ h[Len(g) + 1] = elements[n + 1]
            /\ \A i \in 1 .. Len(g) : h[i] = g[i]
        BY <2>1, <2>2, <2>4, AppendProperties
      <3> HIDE DEF g, h
      <3>2. \A i \in 1 .. Len(h) : i \in 1 .. Len(g) \/ i = Len(g) + 1
        BY <3>1
      <3>3. \A i \in 1 .. Len(h) : \E j \in 1 .. n + 1 : h[i] = elements[j] /\ elements[j] \in kept
        <4>1. ASSUME NEW i \in 1 .. Len(g)
              PROVE  \E j \in 1 .. n + 1 : h[i] = elements[j] /\ elements[j] \in kept
          <5>1. PICK j \in 1 .. n : g[i] = elements[j] /\ elements[j] \in kept
            BY <2>1 DEF g
          <5>2. j \in 1 .. n + 1 /\ h[i] = elements[j]
            BY <3>1, <5>1
          <5> QED BY <5>1, <5>2
        <4>2. n + 1 \in 1 .. n + 1
          OBVIOUS
        <4> QED BY <2>4, <3>1, <3>2, <4>1, <4>2
      <3>4. \A j \in 1 .. n + 1 : elements[j] \in kept => \E i \in 1 .. Len(h) : h[i] = elements[j]
        <4>1. ASSUME NEW j \in 1 .. n, elements[j] \in kept PROVE \E i \in 1 .. Len(h) : h[i] = elements[j]
          <5>1. PICK i \in 1 .. Len(g) : g[i] = elements[j]
            BY <2>1, <4>1 DEF g
          <5> QED BY <3>1, <5>1
        <4>2. \E i \in 1 .. Len(h) : h[i] = elements[n + 1]
          BY <3>1
        <4> QED BY <4>1, <4>2
      <3>5. ASSUME injective(n + 1), NEW i \in 1 .. Len(h), NEW j \in 1 .. Len(h), h[i] = h[j]
            PROVE  i = j
        <4>1. injective(n)
          BY <3>5
        <4>2. \A k \in 1 .. Len(g) : g[k] # elements[n + 1]
          <5> SUFFICES ASSUME NEW k \in 1 .. Len(g), g[k] = elements[n + 1] PROVE FALSE
            OBVIOUS
          <5>1. PICK l \in 1 .. n : g[k] = elements[l]
            BY <2>1 DEF g
          <5>2. l \in 1 .. n + 1 /\ n + 1 \in 1 .. n + 1 /\ l # n + 1 /\ elements[l] = elements[n + 1]
            BY <5>1
          <5> QED BY <3>5, <5>2
        <4>3. \A k, l \in 1 .. Len(g) : g[k] = g[l] => k = l
          BY <2>1, <4>1 DEF g
        <4> QED BY <3>1, <3>2, <3>5, <4>2, <4>3
      <3> QED BY <3>1, <3>3, <3>4, <3>5 DEF h
    <2> QED BY <2>3, <2>4
  <1> HIDE DEF T, good
  <1>6. Nat \subseteq T
    BY <1>4, <1>5, NatInductionSet
  <1>7. good(L)
    BY <1>0, <1>6 DEF T
  <1>8. good(L) => /\ f[L] \in Seq(S)
                   /\ \A i \in DOMAIN f[L] : \E j \in DOMAIN elements : f[L][i] = elements[j] /\ elements[j] \in kept
                   /\ \A j \in DOMAIN elements : elements[j] \in kept => \E i \in DOMAIN f[L] : f[L][i] = elements[j]
                   /\ (\A i, j \in DOMAIN elements : elements[i] = elements[j] => i = j) =>
                        \A i, j \in DOMAIN f[L] : f[L][i] = f[L][j] => i = j
    <2> SUFFICES ASSUME f[L] \in Seq(S) PROVE DOMAIN f[L] = 1 .. Len(f[L])
      BY <1>0 DEF good
    <2> QED OBVIOUS
  <1> QED BY <1>2, <1>7, <1>8

\* What is retained stays in order.
LEMMA RetainKeepsOrder ==
  ASSUME NEW S, NEW elements \in Seq(S), NEW kept, NEW R,
         \A i, j \in DOMAIN elements : i < j => <<elements[i], elements[j]>> \in R
  PROVE  \A i, j \in DOMAIN Retain(elements, kept) :
           i < j => <<Retain(elements, kept)[i], Retain(elements, kept)[j]>> \in R
  <1> DEFINE L == Len(elements)
             f == CHOOSE g : RetainsUpTo(g, L, elements, kept)
  <1>0. L \in Nat /\ DOMAIN elements = 1 .. L
    OBVIOUS
  <1>1. RetainsUpTo(f, L, elements, kept)
    BY <1>0, RetainedExist
  <1>2. Retain(elements, kept) = f[L]
    BY DEF Retain, RetainsUpTo
  <1> HIDE DEF f, L
  <1>3. \A n \in 0 .. L : f[n] = IF n = 0 THEN <<>>
                                 ELSE IF elements[n] \in kept THEN Append(f[n - 1], elements[n])
                                 ELSE f[n - 1]
    BY <1>1 DEF RetainsUpTo
  <1> DEFINE good(n) ==
               /\ f[n] \in Seq(S)
               /\ \A i \in 1 .. Len(f[n]) : \E j \in 1 .. n : f[n][i] = elements[j]
               /\ \A i, j \in 1 .. Len(f[n]) : i < j => <<f[n][i], f[n][j]>> \in R
             T == {n \in Nat : n <= L => good(n)}
  <1>4. 0 \in T
    <2>1. f[0] = <<>>
      BY <1>0, <1>3
    <2>2. good(0)
      BY <2>1
    <2> QED BY <2>2
  <1>5. ASSUME NEW n \in Nat, n \in T PROVE n + 1 \in T
    <2> SUFFICES ASSUME n + 1 <= L PROVE good(n + 1)
      OBVIOUS
    <2>1. good(n) /\ n + 1 \in 0 .. L /\ elements[n + 1] \in S
      BY <1>0, <1>5
    <2>2. f[n + 1] = IF elements[n + 1] \in kept THEN Append(f[n], elements[n + 1]) ELSE f[n]
      BY <1>3, <2>1
    <2>3. CASE elements[n + 1] \notin kept
      BY <2>1, <2>2, <2>3
    <2>4. CASE elements[n + 1] \in kept
      <3> DEFINE g == f[n]
                 h == f[n + 1]
      <3>1. /\ h \in Seq(S) /\ Len(h) = Len(g) + 1 /\ Len(g) \in Nat
            /\ h[Len(g) + 1] = elements[n + 1]
            /\ \A i \in 1 .. Len(g) : h[i] = g[i]
        BY <2>1, <2>2, <2>4, AppendProperties
      <3>2. /\ \A i \in 1 .. Len(g) : \E j \in 1 .. n : g[i] = elements[j]
            /\ \A i, j \in 1 .. Len(g) : i < j => <<g[i], g[j]>> \in R
        BY <2>1
      <3> HIDE DEF g, h
      <3>3. \A i \in 1 .. Len(h) : i \in 1 .. Len(g) \/ i = Len(g) + 1
        BY <3>1
      <3>4. \A i \in 1 .. Len(h) : \E j \in 1 .. n + 1 : h[i] = elements[j]
        <4>1. ASSUME NEW i \in 1 .. Len(g) PROVE \E j \in 1 .. n + 1 : h[i] = elements[j]
          <5>1. PICK j \in 1 .. n : g[i] = elements[j]
            BY <3>2
          <5>2. j \in 1 .. n + 1 /\ h[i] = elements[j]
            BY <3>1, <5>1
          <5> QED BY <5>2
        <4>2. n + 1 \in 1 .. n + 1
          OBVIOUS
        <4> QED BY <3>1, <3>3, <4>1, <4>2
      <3>5. ASSUME NEW i \in 1 .. Len(h), NEW j \in 1 .. Len(h), i < j
            PROVE  <<h[i], h[j]>> \in R
        <4>1. i \in 1 .. Len(g) /\ h[i] = g[i]
          BY <3>1, <3>5
        <4>2. CASE j \in 1 .. Len(g)
          BY <3>1, <3>2, <3>5, <4>1, <4>2
        <4>3. CASE j = Len(g) + 1
          <5>1. PICK k \in 1 .. n : g[i] = elements[k]
            BY <3>2, <4>1
          <5>2. k \in DOMAIN elements /\ n + 1 \in DOMAIN elements /\ k < n + 1
            BY <1>0, <2>1
          <5>3. <<elements[k], elements[n + 1]>> \in R
            BY <5>2
          <5> QED BY <3>1, <4>1, <4>3, <5>1, <5>3
        <4> QED BY <3>3, <4>2, <4>3
      <3> QED BY <3>1, <3>4, <3>5 DEF h
    <2> QED BY <2>3, <2>4
  <1> HIDE DEF T, good
  <1>6. Nat \subseteq T
    BY <1>4, <1>5, NatInductionSet
  <1>7. good(L)
    BY <1>0, <1>6 DEF T
  <1>8. good(L) => \A i, j \in DOMAIN f[L] : i < j => <<f[L][i], f[L][j]>> \in R
    <2> SUFFICES ASSUME f[L] \in Seq(S) PROVE DOMAIN f[L] = 1 .. Len(f[L])
      BY DEF good
    <2> QED OBVIOUS
  <1> QED BY <1>2, <1>7, <1>8

-----------------------------------------------------------------------------
(* Sums *)

\* The sums of f over the sets in D, as the library's fold builds them.
SumsOver(it, f, D) ==
  it = [s \in D |-> IF s = {} THEN 0
                    ELSE f[CHOOSE x \in s : TRUE] + it[s \ {CHOOSE x \in s : TRUE}]]

\* Those of every subset of S.
Sums(it, f, S) == SumsOver(it, f, SUBSET S)

\* The library's sum is one of these.
LEMMA SumIsFold ==
  ASSUME NEW f, NEW S
  PROVE  SumFunctionOnSet(f, S) = (CHOOSE it : Sums(it, f, S))[S]
  BY DEF SumFunctionOnSet, FoldFunctionOnSet, MapThenFoldSet, Sums, SumsOver

\* There are such sums over a finite set.
LEMMA SumsExist ==
  ASSUME NEW f, NEW S, IsFiniteSet(S)
  PROVE  \E it : Sums(it, f, S)
  <1> DEFINE D(n) == {s \in SUBSET S : Cardinality(s) <= n}
             next(it, s) == f[CHOOSE x \in s : TRUE] + it[s \ {CHOOSE x \in s : TRUE}]
             T == {n \in Nat : \E it : SumsOver(it, f, D(n))}
  <1>0. \A s \in SUBSET S : IsFiniteSet(s) /\ Cardinality(s) \in Nat
    BY FS_Subset, FS_CardinalityType
  <1>1. 0 \in T
    <2> DEFINE it == [s \in D(0) |-> 0]
    <2>1. D(0) \subseteq {{}}
      BY <1>0, FS_EmptySet
    <2>2. SumsOver(it, f, D(0))
      BY <2>1 DEF SumsOver
    <2> QED BY <2>2
  <1>2. ASSUME NEW n \in Nat, n \in T PROVE n + 1 \in T
    <2>1. PICK it : SumsOver(it, f, D(n))
      BY <1>2
    <2> DEFINE g == [s \in D(n + 1) |-> IF s = {} THEN 0 ELSE next(it, s)]
    <2>2. \A s \in D(n) : it[s] = IF s = {} THEN 0 ELSE next(it, s)
      <3> HIDE DEF D
      <3> QED BY <2>1 DEF SumsOver
    <2>3. ASSUME NEW s \in D(n + 1), s # {}
          PROVE  g[s \ {CHOOSE x \in s : TRUE}] = it[s \ {CHOOSE x \in s : TRUE}]
      <3> DEFINE x == CHOOSE x \in s : TRUE
      <3>1. x \in s
        BY <2>3
      <3> HIDE DEF x
      <3>2. Cardinality(s \ {x}) = Cardinality(s) - 1
        BY <1>0, <3>1, FS_RemoveElement
      <3>3. s \ {x} \in D(n) /\ s \ {x} \in D(n + 1)
        BY <1>0, <3>2
      <3>4. g[s \ {x}] = it[s \ {x}]
        <4> HIDE DEF D, next
        <4> QED BY <2>2, <3>3
      <3> QED BY <3>4 DEF x
    <2>4. g = [s \in D(n + 1) |-> IF s = {} THEN 0 ELSE next(g, s)]
      <3>1. \A s \in D(n + 1) : (IF s = {} THEN 0 ELSE next(it, s)) = IF s = {} THEN 0 ELSE next(g, s)
        <4> HIDE DEF D, g
        <4> QED BY <2>3
      <3> HIDE DEF D, next
      <3> QED BY <3>1
    <2>5. SumsOver(g, f, D(n + 1))
      <3> HIDE DEF D, g
      <3> QED BY <2>4 DEF SumsOver
    <2> QED BY <2>5
  <1> HIDE DEF T
  <1>3. Nat \subseteq T
    BY <1>1, <1>2, NatInductionSet
  <1>4. D(Cardinality(S)) = SUBSET S
    <2>1. \A s \in SUBSET S : Cardinality(s) <= Cardinality(S)
      BY FS_Subset
    <2> QED BY <2>1
  <1>5. Cardinality(S) \in T
    BY <1>0, <1>3
  <1> QED BY <1>4, <1>5 DEF T, Sums

\* Each sum has one value, whatever larger set it is built in.
LEMMA SumsAgree ==
  ASSUME NEW f, NEW S, IsFiniteSet(S), NEW R, NEW it, NEW jt,
         Sums(it, f, S), Sums(jt, f, R)
  PROVE  \A s \in SUBSET (S \cap R) : it[s] = jt[s]
  <1> DEFINE T == {n \in Nat : \A s \in SUBSET (S \cap R) : Cardinality(s) = n => it[s] = jt[s]}
  <1>0. \A s \in SUBSET (S \cap R) : IsFiniteSet(s) /\ Cardinality(s) \in Nat
    BY FS_Subset, FS_CardinalityType
  <1>a. \A s \in SUBSET S : it[s] = IF s = {} THEN 0
                    ELSE f[CHOOSE x \in s : TRUE] + it[s \ {CHOOSE x \in s : TRUE}]
    BY DEF Sums, SumsOver
  <1>b. \A s \in SUBSET R : jt[s] = IF s = {} THEN 0
                    ELSE f[CHOOSE x \in s : TRUE] + jt[s \ {CHOOSE x \in s : TRUE}]
    BY DEF Sums, SumsOver
  <1>1. 0 \in T
    <2>1. \A s \in SUBSET (S \cap R) : Cardinality(s) = 0 => s = {}
      BY <1>0, FS_EmptySet
    <2> QED BY <2>1, <1>a, <1>b
  <1>2. ASSUME NEW n \in Nat, n \in T PROVE n + 1 \in T
    <2> SUFFICES ASSUME NEW s \in SUBSET (S \cap R), Cardinality(s) = n + 1 PROVE it[s] = jt[s]
      OBVIOUS
    <2>1. s # {}
      BY <1>0, FS_EmptySet
    <2> DEFINE x == CHOOSE x \in s : TRUE
    <2>2. x \in s
      BY <2>1
    <2>3. it[s] = f[x] + it[s \ {x}] /\ jt[s] = f[x] + jt[s \ {x}]
      BY <1>a, <1>b, <2>1
    <2> HIDE DEF x
    <2>4. Cardinality(s \ {x}) = n
      <3>1. Cardinality(s \ {x}) = Cardinality(s) - 1
        BY <1>0, <2>2, FS_RemoveElement
      <3> QED BY <3>1
    <2>5. it[s \ {x}] = jt[s \ {x}]
      BY <1>2, <2>4
    <2> QED BY <2>3, <2>5
  <1> HIDE DEF T
  <1>3. Nat \subseteq T
    BY <1>1, <1>2, NatInductionSet
  <1> QED BY <1>0, <1>3 DEF T

\* The sum over a set, from the sums over its subsets.
LEMMA SumUnfolds ==
  ASSUME NEW f, NEW S, IsFiniteSet(S)
  PROVE  SumFunctionOnSet(f, S) =
           IF S = {} THEN 0
           ELSE f[CHOOSE x \in S : TRUE] + SumFunctionOnSet(f, S \ {CHOOSE x \in S : TRUE})
  <1>1. PICK R : R = S \ {CHOOSE x \in S : TRUE}
    OBVIOUS
  <1>2. IsFiniteSet(R) /\ R \in SUBSET S
    BY <1>1, FS_Subset
  <1>3. PICK it : Sums(it, f, S) /\ SumFunctionOnSet(f, S) = it[S]
    BY SumsExist, SumIsFold
  <1>4. PICK jt : Sums(jt, f, R) /\ SumFunctionOnSet(f, R) = jt[R]
    BY <1>2, SumsExist, SumIsFold
  <1>5. it[S] = IF S = {} THEN 0 ELSE f[CHOOSE x \in S : TRUE] + it[R]
    BY <1>1, <1>3 DEF Sums, SumsOver
  <1>6. \A s \in SUBSET (S \cap R) : it[s] = jt[s]
    BY <1>3, <1>4, SumsAgree
  <1>7. it[R] = jt[R]
    BY <1>2, <1>6
  <1> QED BY <1>1, <1>3, <1>4, <1>5, <1>7

\* The sum over no element.
LEMMA SumOfNone == ASSUME NEW f PROVE SumFunctionOnSet(f, {}) = 0
  BY SumUnfolds, FS_EmptySet

\* A sum of naturals is a natural.
LEMMA SumIsNat ==
  ASSUME NEW f, NEW S, IsFiniteSet(S), \A y \in S : f[y] \in Nat
  PROVE  SumFunctionOnSet(f, S) \in Nat
  <1> DEFINE T == {n \in Nat : \A s \in SUBSET S :
                     Cardinality(s) = n => SumFunctionOnSet(f, s) \in Nat}
  <1>0. \A s \in SUBSET S : IsFiniteSet(s) /\ Cardinality(s) \in Nat
    BY FS_Subset, FS_CardinalityType
  <1>1. 0 \in T
    <2>1. \A s \in SUBSET S : Cardinality(s) = 0 => s = {}
      BY <1>0, FS_EmptySet
    <2> QED BY <2>1, SumOfNone
  <1>2. ASSUME NEW n \in Nat, n \in T PROVE n + 1 \in T
    <2> SUFFICES ASSUME NEW s \in SUBSET S, Cardinality(s) = n + 1
                 PROVE  SumFunctionOnSet(f, s) \in Nat
      OBVIOUS
    <2>1. PICK y : y = CHOOSE z \in s : TRUE
      OBVIOUS
    <2>2. s # {} /\ IsFiniteSet(s)
      BY <1>0, FS_EmptySet
    <2>3. y \in s
      BY <2>1, <2>2
    <2>4. SumFunctionOnSet(f, s) = f[y] + SumFunctionOnSet(f, s \ {y})
      BY <2>1, <2>2, SumUnfolds
    <2>5. Cardinality(s \ {y}) = Cardinality(s) - 1
      BY <1>0, <2>3, FS_RemoveElement
    <2>6. SumFunctionOnSet(f, s \ {y}) \in Nat
      BY <1>2, <2>5
    <2> QED BY <2>3, <2>4, <2>6
  <1> HIDE DEF T
  <1>3. Nat \subseteq T
    BY <1>1, <1>2, NatInductionSet
  <1> QED BY <1>0, <1>3 DEF T

\* A sum adds up its terms in any order.
LEMMA SumAdds ==
  ASSUME NEW f, NEW S, IsFiniteSet(S), \A y \in S : f[y] \in Nat
  PROVE  \A x \in S : SumFunctionOnSet(f, S) = f[x] + SumFunctionOnSet(f, S \ {x})
  <1> DEFINE sum(s) == SumFunctionOnSet(f, s)
             good(s) == \A x \in s : sum(s) = f[x] + sum(s \ {x})
             T == {n \in Nat : \A s \in SUBSET S : Cardinality(s) = n => good(s)}
  <1>0. \A s \in SUBSET S : IsFiniteSet(s) /\ Cardinality(s) \in Nat
    BY FS_Subset, FS_CardinalityType
  <1>1. 0 \in T
    <2>1. \A s \in SUBSET S : Cardinality(s) = 0 => s = {}
      BY <1>0, FS_EmptySet
    <2> QED BY <2>1
  <1>2. ASSUME NEW n \in Nat, n \in T PROVE n + 1 \in T
    <2> SUFFICES ASSUME NEW s \in SUBSET S, Cardinality(s) = n + 1, NEW x \in s
                 PROVE  sum(s) = f[x] + sum(s \ {x})
      OBVIOUS
    <2>1. PICK y : y = CHOOSE z \in s : TRUE
      OBVIOUS
    <2>2. y \in s
      BY <2>1
    <2>3. sum(s) = f[y] + sum(s \ {y})
      <3>1. IsFiniteSet(s) /\ s # {}
        BY <1>0, <2>2
      <3> QED BY <2>1, <3>1, SumUnfolds
    <2>4. CASE x = y
      BY <2>3, <2>4
    <2>5. CASE x # y
      <3>1. ASSUME NEW z \in s PROVE good(s \ {z})
        <4>1. Cardinality(s \ {z}) = Cardinality(s) - 1
          BY <1>0, FS_RemoveElement
        <4>2. Cardinality(s \ {z}) = n
          BY <4>1
        <4> HIDE DEF good
        <4> QED BY <1>2, <4>2
      <3>2. sum(s \ {x}) = f[y] + sum((s \ {x}) \ {y})
        BY <2>2, <2>5, <3>1
      <3>3. sum(s \ {y}) = f[x] + sum((s \ {y}) \ {x})
        BY <2>2, <2>5, <3>1
      <3>4. PICK r : r = (s \ {x}) \ {y}
        OBVIOUS
      <3>5. r = (s \ {y}) \ {x}
        BY <3>4
      <3>6. sum(r) \in Nat
        <4>1. IsFiniteSet(r) /\ \A z \in r : f[z] \in Nat
          BY <1>0, <3>4
        <4> QED BY <4>1, SumIsNat
      <3>7. sum(s \ {x}) = f[y] + sum(r) /\ sum(s \ {y}) = f[x] + sum(r)
        BY <3>2, <3>3, <3>4, <3>5
      <3>8. f[x] \in Nat /\ f[y] \in Nat
        BY <2>2
      <3> HIDE DEF sum
      <3> QED BY <2>3, <3>6, <3>7, <3>8
    <2> QED BY <2>4, <2>5
  <1> HIDE DEF T, good
  <1>3. Nat \subseteq T
    BY <1>1, <1>2, NatInductionSet
  <1>4. good(S)
    BY <1>0, <1>3 DEF T
  <1> QED BY <1>4 DEF good

\* The term of j in a sum over S.
Term(f, S, j) == IF j \in S THEN f[j] ELSE 0

\* Naturals to sum over a part of W.
Summable(f, S, W) == S \in SUBSET W /\ f \in [S -> Nat]

TermsCompare(W, a, A, b, B, c, C, d, D) ==
  \A j \in W : Term(a, A, j) + Term(b, B, j) <= Term(c, C, j) + Term(d, D, j)

\* Sums compare as their terms do.
LEMMA SumsCompare ==
  ASSUME NEW W, IsFiniteSet(W),
         NEW A, NEW a, Summable(a, A, W), NEW B, NEW b, Summable(b, B, W),
         NEW C, NEW c, Summable(c, C, W), NEW D, NEW d, Summable(d, D, W),
         TermsCompare(W, a, A, b, B, c, C, d, D)
  PROVE  SumFunction(a) + SumFunction(b) <= SumFunction(c) + SumFunction(d)
  <1> USE DEF Summable, TermsCompare
  <1> DEFINE sum(f, S) == SumFunctionOnSet(f, S)
             T == {s \in SUBSET W : sum(a, A \cap s) + sum(b, B \cap s)
                                      <= sum(c, C \cap s) + sum(d, D \cap s)}
  <1>1. {} \in T
    BY SumOfNone
  <1>2. ASSUME NEW f, NEW S \in SUBSET W, f \in [S -> Nat], NEW s \in SUBSET W, NEW x \in W \ s
        PROVE  /\ sum(f, S \cap (s \cup {x})) = Term(f, S, x) + sum(f, S \cap s)
               /\ sum(f, S \cap s) \in Nat /\ Term(f, S, x) \in Nat
    <2>1. /\ IsFiniteSet(S \cap s) /\ IsFiniteSet(S \cap (s \cup {x}))
          /\ \A y \in S : f[y] \in Nat
      <3>1. S \cap s \in SUBSET W /\ S \cap (s \cup {x}) \in SUBSET W
        OBVIOUS
      <3> QED BY <1>2, <3>1, FS_Subset
    <2>2. sum(f, S \cap s) \in Nat
      BY <2>1, SumIsNat
    <2>3. CASE x \in S
      <3>1. x \in S \cap (s \cup {x}) /\ (S \cap (s \cup {x})) \ {x} = S \cap s
        BY <2>3
      <3>2. \A z \in S \cap (s \cup {x}) : f[z] \in Nat
        BY <2>1
      <3>3. sum(f, S \cap (s \cup {x})) = f[x] + sum(f, (S \cap (s \cup {x})) \ {x})
        BY <2>1, <3>1, <3>2, SumAdds
      <3> QED BY <2>1, <2>2, <2>3, <3>1, <3>3 DEF Term
    <2>4. CASE x \notin S
      <3>1. S \cap (s \cup {x}) = S \cap s
        BY <2>4
      <3>2. Term(f, S, x) = 0
        BY <2>4 DEF Term
      <3>3. PICK r \in Nat : r = sum(f, S \cap s)
        BY <2>2
      <3>4. sum(f, S \cap (s \cup {x})) = r
        BY <3>1, <3>3
      <3> HIDE DEF sum
      <3> QED BY <3>2, <3>3, <3>4
    <2> QED BY <2>3, <2>4
  <1>3. ASSUME NEW s \in SUBSET W, NEW x \in W \ s, s \in T PROVE s \cup {x} \in T
    <2> HIDE DEF sum
    <2>1. Term(a, A, x) + Term(b, B, x) <= Term(c, C, x) + Term(d, D, x)
      OBVIOUS
    <2>2. sum(a, A \cap s) + sum(b, B \cap s) <= sum(c, C \cap s) + sum(d, D \cap s)
      BY <1>3
    <2>3. /\ sum(a, A \cap (s \cup {x})) = Term(a, A, x) + sum(a, A \cap s)
          /\ sum(a, A \cap s) \in Nat /\ Term(a, A, x) \in Nat
      BY <1>2
    <2>4. /\ sum(b, B \cap (s \cup {x})) = Term(b, B, x) + sum(b, B \cap s)
          /\ sum(b, B \cap s) \in Nat /\ Term(b, B, x) \in Nat
      BY <1>2
    <2>5. /\ sum(c, C \cap (s \cup {x})) = Term(c, C, x) + sum(c, C \cap s)
          /\ sum(c, C \cap s) \in Nat /\ Term(c, C, x) \in Nat
      BY <1>2
    <2>6. /\ sum(d, D \cap (s \cup {x})) = Term(d, D, x) + sum(d, D \cap s)
          /\ sum(d, D \cap s) \in Nat /\ Term(d, D, x) \in Nat
      BY <1>2
    <2>7. sum(a, A \cap (s \cup {x})) + sum(b, B \cap (s \cup {x}))
            <= sum(c, C \cap (s \cup {x})) + sum(d, D \cap (s \cup {x}))
      BY <2>1, <2>2, <2>3, <2>4, <2>5, <2>6
    <2> QED BY <2>7
  <1> HIDE DEF T
  <1>4. W \in T
    BY <1>1, <1>3, FiniteInductionSet
  <1>5. sum(a, A) + sum(b, B) <= sum(c, C) + sum(d, D)
    <2>1. A \cap W = A /\ B \cap W = B /\ C \cap W = C /\ D \cap W = D
      OBVIOUS
    <2> HIDE DEF sum
    <2> QED BY <1>4, <2>1 DEF T
  <1> QED BY <1>5 DEF SumFunction

\* A sum of naturals, of all a function's values.
LEMMA SumOfNats ==
  ASSUME NEW f, IsFiniteSet(DOMAIN f), \A x \in DOMAIN f : f[x] \in Nat
  PROVE  SumFunction(f) \in Nat
  BY SumIsNat DEF SumFunction

\* A sum of a single term.
LEMMA SumOfOne ==
  ASSUME NEW x, NEW n \in Nat
  PROVE  SumFunction([j \in {x} |-> n]) = n
  <1> DEFINE f == [j \in {x} |-> n]
  <1>1. f[x] \in Nat /\ f[x] = n /\ DOMAIN f = {x}
    OBVIOUS
  <1> HIDE DEF f
  <1>2. IsFiniteSet({x}) /\ \A y \in {x} : f[y] \in Nat
    BY <1>1, FS_Singleton
  <1>3. \A y \in {x} : SumFunctionOnSet(f, {x}) = f[y] + SumFunctionOnSet(f, {x} \ {y})
    BY <1>2, SumAdds
  <1>4. {x} \ {x} = {}
    OBVIOUS
  <1>5. SumFunctionOnSet(f, {x}) = n + 0
    BY <1>1, <1>3, <1>4, SumOfNone
  <1>6. SumFunction(f) = n
    BY <1>1, <1>5 DEF SumFunction
  <1> QED BY <1>6 DEF f

\* The sum of a function that is nowhere defined.
LEMMA SumOfEmpty ==
  ASSUME NEW f, DOMAIN f = {} PROVE SumFunction(f) = 0
  BY SumOfNone DEF SumFunction
=============================================================================
