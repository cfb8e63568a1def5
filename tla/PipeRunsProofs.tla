--------------------------- MODULE PipeRunsProofs ---------------------------
(***************************************************************************)
(* What holds of pipe runs for every number of buffers, panes, slots,      *)
(* inputs, runs, changes and keys: no more processes run than there are    *)
(* slots, every run keeps its buffer and pane, keys see the output of what *)
(* came before them, and `.` repeats the latest change kept.               *)
(*                                                                         *)
(* The invariant IInv says, beside the types, that every run holds the     *)
(* inputs it was started with and all runs no more slots than there are;   *)
(* that the recorded changes fall from the newest, of which all but the    *)
(* oldest await their run; and, for each place of the thread, which runs   *)
(* its mark, its replay and its driver still have to wait for.             *)
(***************************************************************************)
EXTENDS PipeRuns, CollectionsProofs, TLAPS

-----------------------------------------------------------------------------
(* Least and greatest numbers *)

\* A set of numbers has a least one.
LEMMA MinIsLeast ==
  ASSUME NEW ids \in SUBSET Nat, ids # {}
  PROVE  Min(ids) \in ids /\ \A x \in ids : Min(ids) <= x
  <1> DEFINE R == {ss \in Nat \X Nat : ss[1] < ss[2]}
  <1>1. IsWellFoundedOn(R, Nat)
    BY NatLessThanWellFounded DEF OpToRel
  <1>2. PICK x \in ids : \A y \in ids : ~ (<<y, x>> \in R)
    <2> HIDE DEF R
    <2> QED BY <1>1, WFMin
  <1>3. \A y \in ids : ~ (y < x)
    BY <1>2
  <1>4. \A y \in ids : x <= y
    BY <1>3
  <1> QED BY <1>4 DEF Min

\* The least of two numbers.
LEMMA MinOfTwo ==
  ASSUME NEW a \in Nat, NEW b \in Nat
  PROVE  Min({a, b}) = IF a <= b THEN a ELSE b
  <1>1. Min({a, b}) \in {a, b} /\ \A x \in {a, b} : Min({a, b}) <= x
    BY MinIsLeast
  <1> QED BY <1>1

-----------------------------------------------------------------------------
(* What a poll does to the runs *)

\* A run that has its inputs, and none when it ended.
Fits(r) ==
  /\ r \in Run
  /\ r.waiting + Held(r) <= MaxInputs
  /\ r.state # "running" => r.waiting + Held(r) = 0

\* A run as it was started, whatever became of its processes.
SameRun(r, s) ==
  /\ s.buffer = r.buffer /\ s.pane = r.pane /\ s.settles = r.settles
  /\ s.foreground = r.foreground

\* A run that ended holds nothing and fits.
LEMMA EmptiedFits ==
  ASSUME NEW r \in Run, NEW state \in {"running", "done", "failed"}
  PROVE  /\ Fits(Emptied(r, state)) /\ SameRun(r, Emptied(r, state))
         /\ Held(Emptied(r, state)) = 0
  <1> DEFINE s == Emptied(r, state)
  <1>1. /\ s.buffer = r.buffer /\ s.pane = r.pane /\ s.settles = r.settles
        /\ s.foreground = r.foreground /\ s.state = state
        /\ s.waiting = 0 /\ s.running = 0 /\ s.ok = 0 /\ s.bad = 0
    BY DEF Emptied, Run
  <1>2. 0 \in 0 .. MaxInputs /\ MaxInputs \in Nat
    BY PipeRunsAssumption
  <1>3. s \in Run
    BY <1>2 DEF Emptied, Run
  <1> HIDE DEF s
  <1>4. Fits(s) /\ SameRun(r, s) /\ Held(s) = 0
    BY <1>1, <1>2, <1>3 DEF Fits, SameRun, Held
  <1> QED BY <1>4 DEF s

\* Collecting leaves a run fitting, and gives back no more slots than it held.
LEMMA CollectedFits ==
  ASSUME NEW r, Fits(r), NEW early \in Nat
  PROVE  /\ Fits(Collected(r)) /\ SameRun(r, Collected(r))
         /\ Held(r) \in Nat /\ Held(Collected(r)) \in Nat /\ Freed(r, early) \in Nat
         /\ Held(Collected(r)) + Freed(r, early) <= Held(r)
  <1>1. /\ r \in Run /\ r.ok \in Nat /\ r.bad \in Nat /\ r.running \in Nat /\ r.waiting \in Nat
        /\ MaxInputs \in Nat
    BY PipeRunsAssumption DEF Fits, Run
  <1>2. CASE r.bad > 0
    <2>1. Collected(r) = Emptied(r, "failed")
      BY <1>2 DEF Collected
    <2>2. Freed(r, early) = 1 + IF early <= r.ok THEN early ELSE r.ok
      BY <1>1, <1>2, MinOfTwo DEF Freed
    <2> QED BY <1>1, <1>2, <2>1, <2>2, EmptiedFits DEF Held
  <1>3. CASE ~ (r.bad > 0)
    <2>1. Collected(r) = [r EXCEPT !.ok = 0] /\ Freed(r, early) = r.ok
      BY <1>3 DEF Collected, Freed
    <2> DEFINE s == [r EXCEPT !.ok = 0]
    <2>2. /\ s.buffer = r.buffer /\ s.pane = r.pane /\ s.settles = r.settles
          /\ s.foreground = r.foreground /\ s.state = r.state
          /\ s.waiting = r.waiting /\ s.running = r.running /\ s.ok = 0 /\ s.bad = r.bad
      BY <1>1 DEF Run
    <2>3. s \in Run
      BY <1>1 DEF Run
    <2> HIDE DEF s
    <2>4. /\ Held(s) \in Nat /\ Held(r) \in Nat
          /\ Held(s) + r.ok = Held(r)
      BY <1>1, <2>2 DEF Held
    <2>5. Fits(s)
      <3>1. s.waiting + Held(s) <= r.waiting + Held(r)
        BY <1>1, <2>2, <2>4
      <3>2. r.waiting + Held(r) = 0 => s.waiting + Held(s) = 0
        BY <1>1, <2>2, <2>4
      <3>3. r.waiting + Held(r) <= MaxInputs /\ (r.state # "running" => r.waiting + Held(r) = 0)
        BY DEF Fits
      <3>4. s.waiting + Held(s) <= MaxInputs
        BY <1>1, <2>2, <2>4, <3>1, <3>3
      <3>5. s.state # "running" => s.waiting + Held(s) = 0
        BY <2>2, <3>2, <3>3
      <3> QED BY <2>3, <3>4, <3>5 DEF Fits
    <2>6. SameRun(r, s)
      BY <2>2 DEF SameRun
    <2> QED BY <1>1, <2>1, <2>4, <2>5, <2>6 DEF s
  <1> QED BY <1>2, <1>3

\* The slots the runs of a function hold.
Slots(rs) == SumFunction([j \in DOMAIN rs |-> Held(rs[j])])

\* A poll on the way: what it may still start is free, and every run is as it
\* was started.
PollFits(p) ==
  /\ p.free \in Nat
  /\ DOMAIN p.runs = Live
  /\ \A j \in Live : Fits(p.runs[j]) /\ SameRun(runs[j], p.runs[j])
  /\ Slots(p.runs) + p.free <= Limit

\* The slots held when one run's change.
LEMMA SlotsChange ==
  ASSUME NEW rs, NEW ss, IsFiniteSet(DOMAIN rs), DOMAIN ss = DOMAIN rs,
         NEW i \in DOMAIN rs, NEW n \in Nat,
         \A j \in DOMAIN rs : Held(rs[j]) \in Nat /\ Held(ss[j]) \in Nat,
         \A j \in DOMAIN rs : j # i => Held(ss[j]) <= Held(rs[j]),
         Held(ss[i]) <= Held(rs[i]) + n
  PROVE  Slots(ss) <= Slots(rs) + n /\ Slots(ss) \in Nat
  <1>1. PICK W : W = DOMAIN rs
    OBVIOUS
  <1>2. PICK a : a = [j \in W |-> Held(ss[j])]
    OBVIOUS
  <1>3. PICK c : c = [j \in W |-> Held(rs[j])]
    OBVIOUS
  <1>4. PICK d : d = [j \in {i} |-> n]
    OBVIOUS
  <1>5. PICK b : b = [j \in {} |-> 0]
    OBVIOUS
  <1>6. /\ IsFiniteSet(W)
        /\ Summable(a, W, W) /\ Summable(b, {}, W) /\ Summable(c, W, W) /\ Summable(d, {i}, W)
    BY <1>1, <1>2, <1>3, <1>4, <1>5 DEF Summable
  <1>7. TermsCompare(W, a, W, b, {}, c, W, d, {i})
    BY <1>1, <1>2, <1>3, <1>4, <1>5 DEF Term, TermsCompare
  <1>8. SumFunction(a) + SumFunction(b) <= SumFunction(c) + SumFunction(d)
    BY <1>6, <1>7, SumsCompare
  <1>9. SumFunction(b) = 0 /\ SumFunction(d) = n
    BY <1>4, <1>5, SumOfEmpty, SumOfOne
  <1>10. SumFunction(a) \in Nat /\ SumFunction(c) \in Nat
    BY <1>6, SumOfNats DEF Summable
  <1>11. Slots(ss) = SumFunction(a) /\ Slots(rs) = SumFunction(c)
    BY <1>1, <1>2, <1>3 DEF Slots
  <1> QED BY <1>8, <1>9, <1>10, <1>11

\* Filling a run starts no more processes than there are slots.
LEMMA FilledFits ==
  ASSUME IsFiniteSet(Live), NEW p, PollFits(p), NEW i \in Live, NEW spawns \in Nat
  PROVE  PollFits(Filled(p, i, spawns))
  <1> DEFINE r     == p.runs[i]
             wants == Wanted(p.free, r)
             n     == Min({wants, spawns})
             grown == [r EXCEPT !.waiting = @ - n, !.running = @ + n]
             s     == IF r.state # "running"               THEN r
                      ELSE IF n < wants                    THEN Emptied(r, "failed")
                      ELSE IF grown.waiting + grown.running = 0 THEN Emptied(r, "done")
                      ELSE grown
             ss    == [p.runs EXCEPT ![i] = s]
  <1>1. Filled(p, i, spawns) = [free |-> p.free - n, runs |-> ss]
    BY DEF Filled
  <1>2. /\ p.free \in Nat /\ Fits(r) /\ r \in Run /\ SameRun(runs[i], r)
        /\ r.ok \in Nat /\ r.bad \in Nat /\ r.running \in Nat /\ r.waiting \in Nat
        /\ MaxInputs \in Nat
    BY PipeRunsAssumption DEF PollFits, Fits, Run
  <1>3. wants \in Nat /\ wants <= p.free /\ wants <= r.waiting
    BY <1>2, MinOfTwo DEF Wanted
  <1>4. n \in Nat /\ n <= wants
    <2> HIDE DEF wants
    <2> QED BY <1>3, MinOfTwo
  <1> HIDE DEF wants, n
  <1>5. Fits(s) /\ SameRun(r, s) /\ Held(s) <= Held(r) + n /\ Held(r) \in Nat /\ Held(s) \in Nat
    <2>1. CASE r.state # "running"
      BY <1>2, <1>4, <2>1 DEF SameRun, Held
    <2>2. ASSUME s = Emptied(r, "failed") \/ s = Emptied(r, "done")
          PROVE  Fits(s) /\ SameRun(r, s) /\ Held(s) <= Held(r) + n /\ Held(r) \in Nat /\ Held(s) \in Nat
      <3> HIDE DEF s, r
      <3>1. Held(r) \in Nat
        BY <1>2 DEF Held
      <3> QED BY <1>2, <1>4, <2>2, <3>1, EmptiedFits
    <2>3. CASE r.state = "running" /\ ~ (n < wants) /\ grown.waiting + grown.running # 0
      <3> HIDE DEF r
      <3>1. /\ grown.waiting = r.waiting - n /\ grown.running = r.running + n
            /\ grown.ok = r.ok /\ grown.bad = r.bad /\ grown.state = r.state
            /\ grown.buffer = r.buffer /\ grown.pane = r.pane /\ grown.settles = r.settles
            /\ grown.foreground = r.foreground
        BY <1>2 DEF Run
      <3>2. Held(grown) = Held(r) + n /\ Held(r) \in Nat
        BY <1>2, <1>4, <3>1 DEF Held
      <3>3. grown.waiting + Held(grown) <= MaxInputs
        BY <1>2, <1>3, <1>4, <3>1, <3>2 DEF Fits
      <3>4. grown.waiting \in 0 .. MaxInputs /\ grown.running \in 0 .. MaxInputs
        BY <1>2, <1>3, <1>4, <3>1, <3>3 DEF Held
      <3>5. grown \in Run
        <4>1. r.waiting - n \in 0 .. MaxInputs /\ r.running + n \in 0 .. MaxInputs
          BY <3>1, <3>4
        <4> QED BY <1>2, <4>1 DEF Run
      <3>6. s = grown
        BY <2>3
      <3> HIDE DEF grown, s
      <3> QED BY <1>2, <1>4, <2>3, <3>1, <3>2, <3>3, <3>5, <3>6 DEF Fits, SameRun
    <2> QED BY <2>1, <2>2, <2>3
  <1> HIDE DEF s
  <1>6. /\ DOMAIN ss = Live /\ ss[i] = s
        /\ \A j \in Live : j # i => ss[j] = p.runs[j]
    BY DEF PollFits
  <1> HIDE DEF ss
  <1>7. \A j \in Live : Fits(ss[j]) /\ SameRun(runs[j], ss[j])
    <2> SUFFICES ASSUME NEW j \in Live PROVE Fits(ss[j]) /\ SameRun(runs[j], ss[j])
      OBVIOUS
    <2>1. CASE j = i
      BY <1>2, <1>5, <1>6, <2>1 DEF SameRun
    <2>2. CASE j # i
      BY <1>6, <2>2 DEF PollFits
    <2> QED BY <2>1, <2>2
  <1>8. Slots(ss) <= Slots(p.runs) + n /\ Slots(ss) \in Nat
    <2>1. \A j \in Live : Held(p.runs[j]) \in Nat /\ Held(ss[j]) \in Nat
      BY <1>7 DEF PollFits, Fits, Run, Held
    <2>2. \A j \in Live : j # i => Held(ss[j]) <= Held(p.runs[j])
      BY <1>6, <2>1
    <2>3. Held(ss[i]) <= Held(p.runs[i]) + n /\ DOMAIN p.runs = Live
      BY <1>5, <1>6 DEF PollFits
    <2> QED BY <1>4, <1>6, <2>1, <2>2, <2>3, SlotsChange
  <1>9. Slots(p.runs) \in Nat
    <2>1. \A j \in Live : Held(p.runs[j]) \in Nat
      BY DEF PollFits, Fits, Run, Held
    <2>2. DOMAIN p.runs = Live
      BY DEF PollFits
    <2> QED BY <2>1, <2>2, SumOfNats DEF Slots
  <1>10. Slots(ss) + (p.free - n) <= Limit /\ p.free - n \in Nat
    <2>1. Slots(p.runs) + p.free <= Limit
      BY DEF PollFits
    <2> QED BY <1>2, <1>3, <1>4, <1>8, <1>9, <2>1, PipeRunsAssumption
  <1> QED BY <1>1, <1>6, <1>7, <1>10 DEF PollFits

\* What a poll starts from once it collected, and how it fills run i.
CollectedPoll(w, early) ==
  [free |-> Limit - SumFunction([i \in Live |-> Held(runs[i])])
              + SumFunction([i \in PolledIn(w) |-> Freed(runs[i], early)]),
   runs |-> [i \in Live |-> IF i \in PolledIn(w) THEN Collected(runs[i]) ELSE runs[i]]]

FirstFilled(w, early, spawns) ==
  IF w \in Live THEN Filled(CollectedPoll(w, early), w, spawns[w])
  ELSE CollectedPoll(w, early)

NextFilled(p, w, spawns, i) ==
  IF i \in FilledAfter(w) THEN Filled(p, i, spawns[i]) ELSE p

\* The polls on the way, up to the n-th run.
PollsUpTo(f, n, w, early, spawns) ==
  f = [i \in 0..n |-> IF i = 0 THEN FirstFilled(w, early, spawns)
                      ELSE NextFilled(f[i - 1], w, spawns, i)]

\* The poll of every length is a function, so that the definition by recursion
\* means what it says.
LEMMA PollsExist ==
  ASSUME NEW w, NEW early, NEW spawns
  PROVE  \A n \in Nat : \E f : PollsUpTo(f, n, w, early, spawns)
  <1> DEFINE T == {n \in Nat : \E f : PollsUpTo(f, n, w, early, spawns)}
             first == FirstFilled(w, early, spawns)
             step(p, i) == NextFilled(p, w, spawns, i)
  <1>1. 0 \in T
    <2> DEFINE f == [i \in 0 .. 0 |-> first]
    <2>1. PollsUpTo(f, 0, w, early, spawns)
      <3> HIDE DEF first
      <3>1. f = [i \in 0 .. 0 |-> IF i = 0 THEN first ELSE step(f[i - 1], i)]
        <4> HIDE DEF step
        <4> QED OBVIOUS
      <3> HIDE DEF f
      <3> QED BY <3>1 DEF PollsUpTo, first
    <2> QED BY <2>1
  <1>2. ASSUME NEW n \in Nat, n \in T PROVE n + 1 \in T
    <2>1. PICK f : PollsUpTo(f, n, w, early, spawns)
      BY <1>2
    <2> DEFINE g == [i \in 0 .. n + 1 |-> IF i = n + 1 THEN step(f[n], n + 1) ELSE f[i]]
    <2>2. \A i \in 0 .. n : f[i] = IF i = 0 THEN first ELSE step(f[i - 1], i)
      BY <2>1 DEF PollsUpTo
    <2> HIDE DEF first, step
    <2>3. \A i \in 0 .. n + 1 : g[i] = IF i = 0 THEN first ELSE step(g[i - 1], i)
      <3> SUFFICES ASSUME NEW i \in 0 .. n + 1
                   PROVE  g[i] = IF i = 0 THEN first ELSE step(g[i - 1], i)
        OBVIOUS
      <3>1. CASE i = n + 1
        <4>1. g[i] = step(f[n], n + 1) /\ g[i - 1] = f[n]
          BY <3>1
        <4> QED BY <3>1, <4>1
      <3>2. CASE i # n + 1
        <4>1. i \in 0 .. n /\ g[i] = f[i] /\ (i # 0 => g[i - 1] = f[i - 1])
          BY <3>2
        <4> QED BY <2>2, <4>1
      <3> QED BY <3>1, <3>2
    <2>4. PollsUpTo(g, n + 1, w, early, spawns)
      <3>1. g = [i \in 0 .. n + 1 |-> g[i]]
        OBVIOUS
      <3> HIDE DEF g
      <3>2. g = [i \in 0 .. n + 1 |-> IF i = 0 THEN first ELSE step(g[i - 1], i)]
        BY <2>3, <3>1
      <3> QED BY <3>2 DEF PollsUpTo, first, step
    <2> QED BY <2>4
  <1> HIDE DEF T
  <1>3. Nat \subseteq T
    BY <1>1, <1>2, NatInductionSet
  <1> QED BY <1>3 DEF T

\* A registry whose runs fit and hold no more than the slots.
RegistryFits == IsFiniteSet(Live) /\ (\A i \in Live : Fits(runs[i])) /\ Slots(runs) <= Limit

\* Collecting gives back no more slots than the runs let go.
LEMMA CollectedPollFits ==
  ASSUME RegistryFits, NEW w, NEW early \in Nat
  PROVE  PollFits(CollectedPoll(w, early))
  <1>1. PICK a : a = [i \in Live |-> Held(CollectedPoll(w, early).runs[i])]
    OBVIOUS
  <1>2. PICK b : b = [i \in PolledIn(w) |-> Freed(runs[i], early)]
    OBVIOUS
  <1>3. PICK c : c = [i \in Live |-> Held(runs[i])]
    OBVIOUS
  <1>4. PICK d : d = [i \in {} |-> 0]
    OBVIOUS
  <1> DEFINE rs == CollectedPoll(w, early).runs
  <1>5. /\ PolledIn(w) \subseteq Live
        /\ DOMAIN rs = Live
        /\ \A i \in Live : rs[i] = IF i \in PolledIn(w) THEN Collected(runs[i]) ELSE runs[i]
    BY DEF PolledIn, Background, CollectedPoll
  <1> HIDE DEF rs
  <1>6. ASSUME NEW i \in Live
        PROVE  /\ Fits(runs[i]) /\ Fits(rs[i]) /\ SameRun(runs[i], rs[i])
               /\ Held(rs[i]) \in Nat /\ Held(runs[i]) \in Nat /\ Freed(runs[i], early) \in Nat
               /\ Held(rs[i]) + (IF i \in PolledIn(w) THEN Freed(runs[i], early) ELSE 0)
                    <= Held(runs[i])
    <2>1. Fits(runs[i])
      BY DEF RegistryFits
    <2>2. /\ Fits(Collected(runs[i])) /\ SameRun(runs[i], Collected(runs[i]))
          /\ Held(runs[i]) \in Nat /\ Held(Collected(runs[i])) \in Nat /\ Freed(runs[i], early) \in Nat
          /\ Held(Collected(runs[i])) + Freed(runs[i], early) <= Held(runs[i])
      BY <2>1, CollectedFits
    <2>3. CASE i \in PolledIn(w)
      BY <1>5, <2>1, <2>2, <2>3
    <2>4. CASE i \notin PolledIn(w)
      <3>1. rs[i] = runs[i] /\ SameRun(runs[i], runs[i])
        BY <1>5, <2>4 DEF SameRun
      <3> QED BY <2>1, <2>2, <2>4, <3>1
    <2> QED BY <2>3, <2>4
  <1>7. /\ Summable(a, Live, Live) /\ Summable(b, PolledIn(w), Live)
        /\ Summable(c, Live, Live) /\ Summable(d, {}, Live)
    BY <1>1, <1>2, <1>3, <1>4, <1>5, <1>6 DEF Summable, rs
  <1>8. TermsCompare(Live, a, Live, b, PolledIn(w), c, Live, d, {})
    <2> SUFFICES ASSUME NEW i \in Live
                 PROVE  Term(a, Live, i) + Term(b, PolledIn(w), i) <= Term(c, Live, i) + Term(d, {}, i)
      BY DEF TermsCompare
    <2>1. /\ Term(a, Live, i) = Held(rs[i])
          /\ Term(b, PolledIn(w), i) = IF i \in PolledIn(w) THEN Freed(runs[i], early) ELSE 0
          /\ Term(c, Live, i) = Held(runs[i]) /\ Term(d, {}, i) = 0
      BY <1>1, <1>2, <1>3 DEF Term, rs
    <2> QED BY <1>6, <2>1
  <1>9. SumFunction(a) + SumFunction(b) <= SumFunction(c) + SumFunction(d)
    BY <1>7, <1>8, SumsCompare DEF RegistryFits
  <1>10. SumFunction(d) = 0
    BY <1>4, SumOfEmpty
  <1>11. SumFunction(a) \in Nat /\ SumFunction(b) \in Nat /\ SumFunction(c) \in Nat
    <2>1. IsFiniteSet(Live) /\ IsFiniteSet(PolledIn(w))
      BY <1>5, FS_Subset DEF RegistryFits
    <2> QED BY <1>7, <2>1, SumOfNats DEF Summable
  <1>12. Slots(runs) = SumFunction(c) /\ Slots(rs) = SumFunction(a)
    BY <1>1, <1>3, <1>5 DEF Slots, Live, rs
  <1>13. CollectedPoll(w, early).free = Limit - SumFunction(c) + SumFunction(b)
    BY <1>2, <1>3 DEF CollectedPoll
  <1>14. SumFunction(c) <= Limit /\ Limit \in Nat
    BY <1>12, PipeRunsAssumption DEF RegistryFits
  <1>15. /\ CollectedPoll(w, early).free \in Nat
         /\ Slots(rs) + CollectedPoll(w, early).free <= Limit
    BY <1>9, <1>10, <1>11, <1>12, <1>13, <1>14
  <1> QED BY <1>5, <1>6, <1>15 DEF PollFits, rs

\* A poll leaves the registry fitting, and every run as it was started.
LEMMA PollKeeps ==
  ASSUME RegistryFits, MaxRuns \in Nat, NEW w, Poll(w)
  PROVE  /\ RegistryFits' /\ Live' = Live
         /\ \A i \in Live : SameRun(runs[i], runs'[i])
  <1>1. PICK early \in 0..Limit, spawns \in [Live -> 0..Limit] : runs' = Polled(w, early, spawns)
    BY DEF Poll
  <1>2. early \in Nat /\ \A i \in Live : spawns[i] \in Nat
    BY PipeRunsAssumption
  <1> DEFINE f == CHOOSE g : PollsUpTo(g, MaxRuns, w, early, spawns)
  <1>3. PollsUpTo(f, MaxRuns, w, early, spawns)
    BY PollsExist
  <1>4. Polled(w, early, spawns) = f[MaxRuns].runs
    BY DEF Polled, PollsUpTo, FirstFilled, NextFilled, CollectedPoll
  <1> HIDE DEF f
  <1>5. \A i \in 0..MaxRuns : f[i] = IF i = 0 THEN FirstFilled(w, early, spawns)
                                     ELSE NextFilled(f[i - 1], w, spawns, i)
    BY <1>3 DEF PollsUpTo
  <1> DEFINE T == {n \in Nat : n <= MaxRuns => PollFits(f[n])}
  <1>6. 0 \in T
    <2>1. f[0] = FirstFilled(w, early, spawns)
      BY <1>5
    <2>2. PollFits(CollectedPoll(w, early))
      BY <1>2, CollectedPollFits
    <2>3. w \in Live => PollFits(Filled(CollectedPoll(w, early), w, spawns[w]))
      BY <1>2, <2>2, FilledFits DEF RegistryFits
    <2> QED BY <2>1, <2>2, <2>3 DEF FirstFilled
  <1>7. ASSUME NEW n \in Nat, n \in T PROVE n + 1 \in T
    <2> SUFFICES ASSUME n + 1 <= MaxRuns PROVE PollFits(f[n + 1])
      OBVIOUS
    <2>1. PollFits(f[n]) /\ f[n + 1] = NextFilled(f[n], w, spawns, n + 1)
      BY <1>5, <1>7
    <2>2. CASE n + 1 \in FilledAfter(w)
      <3>1. n + 1 \in Live
        BY <2>2 DEF FilledAfter, Background
      <3>2. PollFits(Filled(f[n], n + 1, spawns[n + 1]))
        BY <1>2, <2>1, <3>1, FilledFits DEF RegistryFits
      <3> QED BY <2>1, <2>2, <3>2 DEF NextFilled
    <2>3. CASE n + 1 \notin FilledAfter(w)
      BY <2>1, <2>3 DEF NextFilled
    <2> QED BY <2>2, <2>3
  <1> HIDE DEF T
  <1>8. Nat \subseteq T
    BY <1>6, <1>7, NatInductionSet
  <1>9. PollFits(f[MaxRuns])
    BY <1>8 DEF T
  <1>10. runs' = f[MaxRuns].runs
    BY <1>1, <1>4
  <1>11. Live' = Live /\ \A i \in Live : Fits(runs'[i]) /\ SameRun(runs[i], runs'[i])
    BY <1>9, <1>10 DEF PollFits, Live
  <1>12. Slots(runs') <= Limit
    <2>1. \A j \in Live : Held(f[MaxRuns].runs[j]) \in Nat
      BY <1>9 DEF PollFits, Fits, Run, Held
    <2>2. Slots(f[MaxRuns].runs) \in Nat
      BY <1>9, <2>1, SumOfNats DEF PollFits, Slots, RegistryFits
    <2> QED BY <1>9, <1>10, <2>2, PipeRunsAssumption DEF PollFits
  <1> QED BY <1>11, <1>12 DEF RegistryFits, Fits

-----------------------------------------------------------------------------
(* The registry, step by step *)

\* What the run ids, and everything beside the runs, range over.
Typed ==
  /\ Live \subseteq RunId /\ \A i \in Live : i < next
  /\ next \in 1..(MaxRuns + 1)
  /\ open_buffers \subseteq BufferId /\ open_panes \subseteq PaneId
  /\ mode \subseteq {"insert", "record"}
  /\ pc \in {"settle", "landing", "hooks", "idle", "key", "dot", "drain",
             "waiting", "blocked", "ended", "cancelled", "exited"}
  /\ {waited, mark, replaying} \subseteq 0..(MaxRuns + 1)
  /\ queue \in 0..MaxKeys
  /\ kept \subseteq ChangeId /\ changes \in 0..MaxChanges
  /\ recording \in Seq(ChangeId)
  /\ {dot, stopped, should_quit, tui, wake} \subseteq BOOLEAN

\* No run is new, and each is as it was started.
RunsAsBefore == Live' \subseteq Live /\ \A i \in Live' : SameRun(runs[i], runs'[i])

\* The runs in flight are finitely many.
LEMMA LiveIsFinite ==
  ASSUME Typed
  PROVE  IsFiniteSet(Live) /\ Live \in SUBSET Nat
  <1>1. MaxRuns \in Nat
    BY PipeRunsAssumption
  <1>2. IsFiniteSet(1..MaxRuns)
    BY <1>1, FS_Interval
  <1>3. Live \subseteq 1..MaxRuns
    BY DEF Typed, RunId
  <1>4. IsFiniteSet(Live)
    BY <1>2, <1>3, FS_Subset
  <1> QED BY <1>1, <1>3, <1>4

\* A registry fits when its runs do and hold no more than one that fits.
LEMMA HeldNoMore ==
  ASSUME RegistryFits, NEW rs, IsFiniteSet(DOMAIN rs),
         \A i \in DOMAIN rs : Fits(rs[i]),
         \A i \in DOMAIN rs : IF i \in Live THEN Held(rs[i]) <= Held(runs[i]) ELSE Held(rs[i]) = 0
  PROVE  Slots(rs) <= Limit
  <1>1. PICK W : W = Live \cup DOMAIN rs
    OBVIOUS
  <1>2. PICK a : a = [i \in DOMAIN rs |-> Held(rs[i])]
    OBVIOUS
  <1>3. PICK c : c = [i \in Live |-> Held(runs[i])]
    OBVIOUS
  <1>4. PICK d : d = [i \in {} |-> 0]
    OBVIOUS
  <1>5. \A i \in DOMAIN rs : Held(rs[i]) \in Nat
    BY DEF Fits, Run, Held
  <1>6. \A i \in Live : Held(runs[i]) \in Nat
    BY DEF RegistryFits, Fits, Run, Held
  <1>7. IsFiniteSet(W) /\ IsFiniteSet(Live)
    BY <1>1, FS_Union DEF RegistryFits
  <1>8. /\ Summable(a, DOMAIN rs, W) /\ Summable(d, {}, W)
        /\ Summable(c, Live, W)
    BY <1>1, <1>2, <1>3, <1>4, <1>5, <1>6 DEF Summable
  <1>9. TermsCompare(W, a, DOMAIN rs, d, {}, c, Live, d, {})
    <2> SUFFICES ASSUME NEW i \in W
                 PROVE  Term(a, DOMAIN rs, i) + Term(d, {}, i) <= Term(c, Live, i) + Term(d, {}, i)
      BY DEF TermsCompare
    <2>1. /\ Term(a, DOMAIN rs, i) = IF i \in DOMAIN rs THEN Held(rs[i]) ELSE 0
          /\ Term(c, Live, i) = IF i \in Live THEN Held(runs[i]) ELSE 0
          /\ Term(d, {}, i) = 0
      BY <1>2, <1>3 DEF Term
    <2> QED BY <1>5, <1>6, <2>1
  <1>10. SumFunction(a) + SumFunction(d) <= SumFunction(c) + SumFunction(d)
    BY <1>7, <1>8, <1>9, SumsCompare
  <1>11. SumFunction(d) = 0 /\ SumFunction(a) \in Nat /\ SumFunction(c) \in Nat
    BY <1>4, <1>7, <1>8, SumOfEmpty, SumOfNats DEF Summable
  <1>12. Slots(rs) = SumFunction(a) /\ Slots(runs) = SumFunction(c)
    BY <1>2, <1>3 DEF Slots, Live
  <1> QED BY <1>10, <1>11, <1>12, PipeRunsAssumption DEF RegistryFits

\* Runs taken out of the registry.
LEMMA TakenOut ==
  ASSUME RegistryFits, NEW is, runs' = Restrict(runs, Live \ is)
  PROVE  /\ RegistryFits' /\ Live' = Live \ is
         /\ RunsAsBefore /\ \A i \in Live' : runs'[i] = runs[i]
  <1>1. Live' = Live \ is /\ \A i \in Live' : runs'[i] = runs[i]
    BY DEF Live, Restrict
  <1>2. IsFiniteSet(Live')
    BY <1>1, FS_Subset DEF RegistryFits
  <1>3. \A i \in Live' : Fits(runs'[i]) /\ Held(runs'[i]) <= Held(runs[i])
    <2> SUFFICES ASSUME NEW i \in Live' PROVE Fits(runs'[i]) /\ Held(runs'[i]) <= Held(runs[i])
      OBVIOUS
    <2>1. Fits(runs[i]) /\ runs'[i] = runs[i]
      BY <1>1 DEF RegistryFits
    <2>2. Held(runs[i]) \in Nat
      BY <2>1 DEF Fits, Run, Held
    <2> QED BY <2>1, <2>2
  <1>4. Slots(runs') <= Limit
    BY <1>1, <1>2, <1>3, HeldNoMore DEF Live
  <1>5. RunsAsBefore
    BY <1>1 DEF RunsAsBefore, SameRun
  <1> QED BY <1>1, <1>2, <1>3, <1>4, <1>5 DEF RegistryFits, Fits

\* A registry in which no run holds more than it did.
LEMMA RunsChange ==
  ASSUME RegistryFits, Live' = Live,
         \A i \in Live : Fits(runs'[i]) /\ Held(runs'[i]) <= Held(runs[i])
  PROVE  RegistryFits'
  <1>1. Slots(runs') <= Limit
    BY HeldNoMore DEF Live, RegistryFits
  <1> QED BY <1>1 DEF RegistryFits, Fits

\* A process that exits keeps its slot until its run collects it.
LEMMA Exits ==
  ASSUME RegistryFits, NEW i \in RunId, ProcessExits(i)
  PROVE  RegistryFits' /\ RunsAsBefore /\ Live' = Live
  <1>1. i \in Live /\ runs[i].running > 0
    BY DEF ProcessExits
  <1>2. PICK r : r = runs[i]
    OBVIOUS
  <1>3. /\ Fits(r) /\ r \in Run /\ r.running \in Nat /\ r.running > 0 /\ r.waiting \in Nat
        /\ r.ok \in Nat /\ r.bad \in Nat /\ MaxInputs \in Nat
    BY <1>1, <1>2, PipeRunsAssumption DEF RegistryFits, Fits, Run
  <1>4. r.running - 1 \in 0..MaxInputs /\ r.ok + 1 \in 0..MaxInputs /\ r.bad + 1 \in 0..MaxInputs
    BY <1>3 DEF Fits, Held, Run
  <1>5. \/ runs' = [runs EXCEPT ![i] = [r EXCEPT !.running = @ - 1, !.ok = @ + 1]]
        \/ runs' = [runs EXCEPT ![i] = [r EXCEPT !.running = @ - 1, !.bad = @ + 1]]
    BY <1>1, <1>2, <1>3 DEF ProcessExits, Run, Live
  <1> DEFINE good(s) == Fits(s) /\ SameRun(r, s) /\ Held(s) = Held(r) /\ Held(r) \in Nat
  <1>6. good([r EXCEPT !.running = @ - 1, !.ok = @ + 1])
    <2> DEFINE s == [r EXCEPT !.running = @ - 1, !.ok = @ + 1]
    <2>1. /\ s.buffer = r.buffer /\ s.pane = r.pane /\ s.settles = r.settles
          /\ s.foreground = r.foreground /\ s.state = r.state
          /\ s.waiting = r.waiting /\ s.running = r.running - 1 /\ s.ok = r.ok + 1 /\ s.bad = r.bad
      BY <1>3 DEF Run
    <2>2. s \in Run
      BY <1>3, <1>4 DEF Run
    <2> HIDE DEF s
    <2>3. Held(s) = Held(r) /\ Held(r) \in Nat
      BY <1>3, <2>1 DEF Held
    <2>4. Fits(s) /\ SameRun(r, s)
      BY <1>3, <2>1, <2>2, <2>3 DEF Fits, SameRun
    <2> QED BY <2>3, <2>4 DEF s
  <1>7. good([r EXCEPT !.running = @ - 1, !.bad = @ + 1])
    <2> DEFINE s == [r EXCEPT !.running = @ - 1, !.bad = @ + 1]
    <2>1. /\ s.buffer = r.buffer /\ s.pane = r.pane /\ s.settles = r.settles
          /\ s.foreground = r.foreground /\ s.state = r.state
          /\ s.waiting = r.waiting /\ s.running = r.running - 1 /\ s.ok = r.ok /\ s.bad = r.bad + 1
      BY <1>3 DEF Run
    <2>2. s \in Run
      BY <1>3, <1>4 DEF Run
    <2> HIDE DEF s
    <2>3. Held(s) = Held(r) /\ Held(r) \in Nat
      BY <1>3, <2>1 DEF Held
    <2>4. Fits(s) /\ SameRun(r, s)
      BY <1>3, <2>1, <2>2, <2>3 DEF Fits, SameRun
    <2> QED BY <2>3, <2>4 DEF s
  <1>8. PICK s : runs' = [runs EXCEPT ![i] = s] /\ good(s)
    <2> HIDE DEF good
    <2> QED BY <1>5, <1>6, <1>7
  <1>9. Live' = Live /\ \A j \in Live : runs'[j] = IF j = i THEN s ELSE runs[j]
    BY <1>1, <1>8 DEF Live
  <1>10. \A j \in Live : Fits(runs'[j]) /\ Held(runs'[j]) <= Held(runs[j]) /\ SameRun(runs[j], runs'[j])
    <2> SUFFICES ASSUME NEW j \in Live
                 PROVE  Fits(runs'[j]) /\ Held(runs'[j]) <= Held(runs[j]) /\ SameRun(runs[j], runs'[j])
      OBVIOUS
    <2>1. CASE j = i
      BY <1>2, <1>8, <1>9, <2>1
    <2>2. CASE j # i
      <3>1. Held(runs[j]) \in Nat /\ Fits(runs[j])
        BY DEF RegistryFits, Fits, Held, Run
      <3> QED BY <1>9, <2>2, <3>1 DEF SameRun
    <2> QED BY <2>1, <2>2
  <1> QED BY <1>9, <1>10, RunsChange DEF RunsAsBefore

\* A run started is a new one that holds no slot yet.
LEMMA Starts ==
  ASSUME Typed, RegistryFits, NEW b \in BufferId, NEW p \in PaneId,
         NEW c \in {NoChange} \cup ChangeId, NEW foreground \in BOOLEAN,
         StartRun(b, p, c, foreground)
  PROVE  /\ RegistryFits' /\ Live' = Live \cup {next} /\ next \notin Live
         /\ next' = next + 1 /\ next \in RunId
         /\ \A i \in Live : runs'[i] = runs[i]
         /\ runs'[next].buffer = b /\ runs'[next].pane = p
         /\ runs'[next].settles = c /\ runs'[next].foreground = foreground
         /\ b \in open_buffers /\ p \in open_panes /\ ~Busy(b)
  <1>1. PICK inputs \in 1..MaxInputs :
          runs' = [i \in Live \cup {next} |->
            IF i \in Live THEN runs[i]
            ELSE [buffer |-> b, pane |-> p, settles |-> c,
                  foreground |-> foreground, state |-> "running",
                  waiting |-> inputs, running |-> 0, ok |-> 0, bad |-> 0]]
    BY DEF StartRun
  <1>2. PICK r : r = [buffer |-> b, pane |-> p, settles |-> c,
                      foreground |-> foreground, state |-> "running",
                      waiting |-> inputs, running |-> 0, ok |-> 0, bad |-> 0]
    OBVIOUS
  <1>3. next \notin Live
    BY DEF Typed, RunId
  <1>4. /\ Live' = Live \cup {next} /\ \A i \in Live : runs'[i] = runs[i]
        /\ runs'[next] = r
    BY <1>1, <1>2, <1>3 DEF Live
  <1>5. Fits(r) /\ Held(r) = 0
    <2>1. MaxInputs \in Nat /\ inputs \in 0..MaxInputs /\ 0 \in 0..MaxInputs
      BY PipeRunsAssumption
    <2>2. r \in Run
      BY <1>2, <2>1 DEF Run
    <2>3. Held(r) = 0
      BY <1>2 DEF Held
    <2> QED BY <1>2, <2>1, <2>2, <2>3 DEF Fits
  <1>6. IsFiniteSet(Live')
    BY <1>4, FS_AddElement DEF RegistryFits
  <1>7. \A i \in Live' : /\ Fits(runs'[i])
                         /\ IF i \in Live THEN Held(runs'[i]) <= Held(runs[i]) ELSE Held(runs'[i]) = 0
    <2> SUFFICES ASSUME NEW i \in Live'
                 PROVE  /\ Fits(runs'[i])
                        /\ IF i \in Live THEN Held(runs'[i]) <= Held(runs[i]) ELSE Held(runs'[i]) = 0
      OBVIOUS
    <2>1. CASE i \in Live
      <3>1. Fits(runs[i]) /\ runs'[i] = runs[i]
        BY <1>4, <2>1 DEF RegistryFits
      <3>2. Held(runs[i]) \in Nat
        BY <3>1 DEF Fits, Run, Held
      <3> QED BY <2>1, <3>1, <3>2
    <2>2. CASE i \notin Live
      BY <1>4, <1>5, <2>2
    <2> QED BY <2>1, <2>2
  <1>8. Slots(runs') <= Limit
    BY <1>6, <1>7, HeldNoMore DEF Live
  <1>9. RegistryFits'
    BY <1>6, <1>7, <1>8 DEF RegistryFits, Fits
  <1> QED BY <1>2, <1>3, <1>4, <1>9 DEF StartRun

\* A set of ids in flight has an oldest.
LEMMA OldestIsIn ==
  ASSUME Typed, NEW is \in SUBSET Live, is # {}
  PROVE  Min(is) \in is /\ \A i \in is : Min(is) <= i
  <1>1. is \in SUBSET Nat
    BY LiveIsFinite
  <1> QED BY <1>1, MinIsLeast

\* A wait takes a run started since its mark, and makes it a foreground run.
LEMMA StartsWait ==
  ASSUME Typed, RegistryFits, StartWait
  PROVE  /\ RegistryFits' /\ Live' = Live
         /\ waited' \in From(mark)
         /\ \A i \in Live : i # waited' => runs'[i] = runs[i]
         /\ LET r == runs[waited'] s == runs'[waited'] IN
              s.buffer = r.buffer /\ s.pane = r.pane /\ s.settles = r.settles
  <1>1. waited' \in From(mark)
    <2>1. From(mark) \in SUBSET Live /\ From(mark) # {} /\ waited' = Min(From(mark))
      BY DEF StartWait, From
    <2> QED BY <2>1, OldestIsIn
  <1>2. PICK w : w = waited'
    OBVIOUS
  <1>3. w \in Live
    BY <1>1, <1>2 DEF From
  <1>4. PICK r : r = runs[w]
    OBVIOUS
  <1>5. PICK s : s = [r EXCEPT !.foreground = TRUE]
    OBVIOUS
  <1>6. Fits(r) /\ r \in Run
    BY <1>3, <1>4 DEF RegistryFits, Fits
  <1>7. /\ s.buffer = r.buffer /\ s.pane = r.pane /\ s.settles = r.settles
        /\ s.state = r.state /\ s.waiting = r.waiting /\ s.running = r.running
        /\ s.ok = r.ok /\ s.bad = r.bad /\ s \in Run
    BY <1>5, <1>6 DEF Run
  <1>8. Held(s) = Held(r) /\ Held(r) \in Nat
    BY <1>6, <1>7 DEF Held, Run
  <1>9. Fits(s)
    BY <1>6, <1>7, <1>8 DEF Fits
  <1>10. runs' = [runs EXCEPT ![w] = s]
    BY <1>2, <1>3, <1>4, <1>5, <1>6 DEF StartWait, Live, Run
  <1>11. Live' = Live /\ \A i \in Live : runs'[i] = IF i = w THEN s ELSE runs[i]
    BY <1>3, <1>10 DEF Live
  <1>12. \A i \in Live : Fits(runs'[i]) /\ Held(runs'[i]) <= Held(runs[i])
    <2> SUFFICES ASSUME NEW i \in Live PROVE Fits(runs'[i]) /\ Held(runs'[i]) <= Held(runs[i])
      OBVIOUS
    <2>1. Fits(runs[i]) /\ Held(runs[i]) \in Nat
      BY DEF RegistryFits, Fits, Run, Held
    <2> QED BY <1>4, <1>8, <1>9, <1>11, <2>1
  <1>13. RegistryFits'
    BY <1>11, <1>12, RunsChange
  <1> QED BY <1>1, <1>2, <1>3, <1>4, <1>7, <1>11, <1>13

-----------------------------------------------------------------------------
(* The changes runs settle *)

Awaited == {runs[i].settles : i \in Live}

Falling(chain) == \A m, n \in DOMAIN chain : m < n => chain[m] > chain[n]

\* The recorded changes are kept, the newest first.  What a run settles is
\* kept, and settled by no other run; each change recorded but the oldest
\* awaits its run; and any other change kept is older than a settled one that
\* is recorded.
ChainHolds ==
  /\ Falling(recording)
  /\ ToSet(recording) \subseteq kept /\ kept \subseteq 1..changes
  /\ Awaited \subseteq kept \cup {NoChange}
  /\ \A i, j \in Live :
       runs[i].settles = runs[j].settles /\ runs[i].settles # NoChange => i = j
  /\ \A c \in ToSet(recording) \ Awaited, d \in ToSet(recording) : c <= d
  /\ \A c \in kept \ ToSet(recording) :
       \E d \in ToSet(recording) \ Awaited : d > c

\* What `.` replays is recorded, and settles nothing by itself.
DotHolds ==
  dot => recording # << >> /\ \A i \in From(mark) : runs[i].settles = NoChange

\* The latest change kept is the one recorded first.
LEMMA ChainRepeatsLatest ==
  ASSUME Typed, ChainHolds
  PROVE  RepeatsLatest
  <1>0. /\ ChangeId \subseteq Nat /\ recording \in Seq(ChangeId) /\ kept \subseteq ChangeId
        /\ \A m \in DOMAIN recording : recording[m] \in Nat
    <2>1. ChangeId \subseteq Nat
      BY PipeRunsAssumption DEF ChangeId
    <2>2. recording \in Seq(ChangeId) /\ kept \subseteq ChangeId
      BY DEF Typed
    <2>3. \A m \in DOMAIN recording : recording[m] \in ChangeId
      BY <2>2, ElementOfSeq
    <2> QED BY <2>1, <2>2, <2>3
  <1>1. CASE kept = {}
    <2>1. ToSet(recording) = {}
      BY <1>1 DEF ChainHolds
    <2>2. Len(recording) = 0
      <3>1. DOMAIN recording = {}
        BY <2>1 DEF ToSet
      <3>2. DOMAIN recording = 1..Len(recording) /\ Len(recording) \in Nat
        BY <1>0
      <3> QED BY <3>1, <3>2
    <2> QED BY <1>0, <1>1, <2>2, EmptySeq DEF RepeatsLatest
  <1>2. CASE kept # {}
    <2>1. PICK c \in kept : TRUE
      BY <1>2
    <2>2. PICK d \in ToSet(recording) : TRUE
      BY <2>1 DEF ChainHolds
    <2>3. recording # << >> /\ Len(recording) >= 1 /\ DOMAIN recording = 1..Len(recording)
      BY <1>0, <2>2 DEF ToSet
    <2>4. PICK h : h = Head(recording)
      OBVIOUS
    <2>5. h = recording[1] /\ 1 \in DOMAIN recording
      BY <1>0, <2>3, <2>4
    <2>6. \A e \in ToSet(recording) : e <= h
      <3> SUFFICES ASSUME NEW n \in DOMAIN recording PROVE recording[n] <= h
        BY DEF ToSet
      <3>1. recording[n] \in Nat /\ h \in Nat /\ n \in 1..Len(recording)
        BY <1>0, <2>3, <2>5
      <3>2. CASE n = 1
        BY <2>5, <3>1, <3>2
      <3>3. CASE n # 1
        <4>1. recording[1] > recording[n]
          BY <2>5, <3>1, <3>3 DEF ChainHolds, Falling
        <4> QED BY <2>5, <3>1, <4>1
      <3> QED BY <3>2, <3>3
    <2>7. h \in ToSet(recording) /\ h \in kept
      BY <2>5 DEF ToSet, ChainHolds
    <2>8. \A y \in kept : h >= y
      <3> SUFFICES ASSUME NEW y \in kept PROVE h >= y
        OBVIOUS
      <3>1. CASE y \in ToSet(recording)
        BY <1>0, <2>6, <2>7, <3>1
      <3>2. CASE y \notin ToSet(recording)
        <4>1. PICK e \in ToSet(recording) : e > y
          BY <3>2 DEF ChainHolds
        <4>2. e \in Nat /\ e <= h
          BY <1>0, <2>6 DEF ToSet
        <4>3. y \in Nat /\ h \in Nat
          BY <1>0, <2>7
        <4> QED BY <4>1, <4>2, <4>3
      <3> QED BY <3>1, <3>2
    <2>9. \A x \in kept : (\A y \in kept : x >= y) => x = h
      BY <1>0, <2>7, <2>8
    <2>10. Max(kept) = h
      BY <2>7, <2>8, <2>9 DEF Max
    <2> QED BY <1>2, <2>3, <2>4, <2>10 DEF RepeatsLatest
  <1> QED BY <1>1, <1>2

\* Withdrawing runs withdraws their changes, from the chain and otherwise.
LEMMA WithdrawnHolds ==
  ASSUME Typed, ChainHolds, NEW is \in SUBSET Live, NEW cs, cs = {runs[i].settles : i \in is},
         Live' = Live \ is, \A i \in Live' : runs'[i].settles = runs[i].settles,
         kept' = kept \ cs, changes' = changes,
         Falling(recording'), ToSet(recording') = ToSet(recording) \ cs
  PROVE  ChainHolds'
  <1>1. Awaited' \subseteq Awaited
    BY DEF Awaited
  <1>2. \A c \in Awaited \ Awaited' : c \in cs
    BY DEF Awaited
  <1>3. cs \subseteq Awaited
    BY DEF Awaited
  <1>4. Awaited' \subseteq kept' \cup {NoChange}
    <2> SUFFICES ASSUME NEW i \in Live', runs'[i].settles # NoChange PROVE runs'[i].settles \in kept'
      BY DEF Awaited
    <2>1. runs[i].settles \in kept /\ i \in Live /\ runs'[i].settles = runs[i].settles
      BY DEF ChainHolds, Awaited
    <2>2. \A j \in is : runs[j].settles # runs[i].settles
      BY <2>1 DEF ChainHolds
    <2> QED BY <2>1, <2>2
  <1>5. ToSet(recording') \ Awaited' = ToSet(recording) \ Awaited
    BY <1>1, <1>2, <1>3
  <1>6. \A c \in ToSet(recording') \ Awaited', d \in ToSet(recording') : c <= d
    BY <1>5 DEF ChainHolds
  <1>7. ASSUME NEW c \in kept' \ ToSet(recording')
        PROVE  \E d \in ToSet(recording') \ Awaited' : d > c
    <2>1. c \in kept \ ToSet(recording)
      OBVIOUS
    <2>2. \E d \in ToSet(recording) \ Awaited : d > c
      BY <2>1 DEF ChainHolds
    <2> QED BY <1>5, <2>2
  <1>8. \A i, j \in Live' :
          runs'[i].settles = runs'[j].settles /\ runs'[i].settles # NoChange => i = j
    BY DEF ChainHolds
  <1>9. ToSet(recording') \subseteq kept' /\ kept' \subseteq 1..changes'
    BY DEF ChainHolds
  <1> QED BY <1>4, <1>6, <1>7, <1>8, <1>9 DEF ChainHolds

\* When a change lands, what it held to put back is forgotten.
LEMMA LandedHolds ==
  ASSUME Typed, ChainHolds, NEW i \in Live, NEW c, c = runs[i].settles,
         Live' = Live \ {i}, \A j \in Live' : runs'[j].settles = runs[j].settles,
         kept' = kept, changes' = changes, Falling(recording'),
         ToSet(recording') = IF c \in ToSet(recording) THEN {d \in ToSet(recording) : d >= c}
                             ELSE ToSet(recording)
  PROVE  ChainHolds'
  <1>0. /\ \A d \in ToSet(recording) : d \in Nat /\ d # NoChange
        /\ \A d \in kept : d \in Nat
    BY PipeRunsAssumption DEF Typed, ChangeId, ToSet, NoChange
  <1>1. Awaited' = Awaited \ ({c} \ {NoChange}) \/ Awaited' = Awaited \ {c}
    <2>1. Awaited' \subseteq Awaited /\ \A d \in Awaited \ Awaited' : d = c
      BY DEF Awaited
    <2>2. c # NoChange => c \notin Awaited'
      BY DEF Awaited, ChainHolds
    <2> QED BY <2>1, <2>2
  <1>2. \A i1, j1 \in Live' :
          runs'[i1].settles = runs'[j1].settles /\ runs'[i1].settles # NoChange => i1 = j1
    BY DEF ChainHolds
  <1>3. Awaited' \subseteq kept' \cup {NoChange}
    BY <1>1 DEF ChainHolds
  <1>4. ToSet(recording') \subseteq kept' /\ kept' \subseteq 1..changes'
    BY DEF ChainHolds
  <1>5. CASE c \in ToSet(recording)
    <2>1. c \notin Awaited' /\ c \in ToSet(recording') /\ c \in Nat
      BY <1>0, <1>1, <1>5
    <2>2. \A d \in ToSet(recording') \ Awaited', e \in ToSet(recording') : d <= e
      <3> SUFFICES ASSUME NEW d \in ToSet(recording') \ Awaited', NEW e \in ToSet(recording')
                   PROVE  d <= e
        OBVIOUS
      <3>1. d \in Nat /\ e \in Nat /\ e >= c
        BY <1>0, <1>5
      <3>2. CASE d = c
        BY <3>1, <3>2
      <3>3. CASE d # c
        <4>1. d \notin Awaited
          BY <1>1, <3>3
        <4> QED BY <1>5, <4>1 DEF ChainHolds
      <3> QED BY <3>2, <3>3
    <2>3. ASSUME NEW e \in kept' \ ToSet(recording')
          PROVE  \E d \in ToSet(recording') \ Awaited' : d > e
      <3>1. CASE e \in ToSet(recording)
        BY <1>0, <1>5, <2>1, <3>1
      <3>2. CASE e \notin ToSet(recording)
        <4>1. PICK d \in ToSet(recording) \ Awaited : d > e
          BY <3>2 DEF ChainHolds
        <4>2. d <= c
          BY <1>5 DEF ChainHolds
        <4>3. c > e
          BY <1>0, <2>1, <4>1, <4>2
        <4> QED BY <2>1, <4>3
      <3> QED BY <3>1, <3>2
    <2> QED BY <1>2, <1>3, <1>4, <2>2, <2>3 DEF ChainHolds
  <1>6. CASE c \notin ToSet(recording)
    <2>1. ToSet(recording') \ Awaited' = ToSet(recording) \ Awaited
      BY <1>1, <1>6
    <2>2. ToSet(recording') = ToSet(recording)
      BY <1>6
    <2> QED BY <1>2, <1>3, <1>4, <2>1, <2>2 DEF ChainHolds
  <1> QED BY <1>5, <1>6

\* The chain after the changes cs are withdrawn from it.
LEMMA AfterWithdrawingFits ==
  ASSUME recording \in Seq(ChangeId), Falling(recording), NEW cs
  PROVE  /\ AfterWithdrawing(cs) \in Seq(ChangeId) /\ Falling(AfterWithdrawing(cs))
         /\ ToSet(AfterWithdrawing(cs)) = ToSet(recording) \ cs
  <1> DEFINE left == Retain(recording, ChangeId \ cs)
             R == {p \in ChangeId \X ChangeId : p[1] > p[2]}
  <1>1. /\ left \in Seq(ChangeId)
        /\ \A i \in DOMAIN left : \E j \in DOMAIN recording :
             left[i] = recording[j] /\ recording[j] \in ChangeId \ cs
        /\ \A j \in DOMAIN recording : recording[j] \in ChangeId \ cs =>
             \E i \in DOMAIN left : left[i] = recording[j]
    BY RetainProperties
  <1>2. \A i, j \in DOMAIN recording : i < j => <<recording[i], recording[j]>> \in R
    BY DEF Falling
  <1>3. \A i, j \in DOMAIN left : i < j => <<left[i], left[j]>> \in R
    <2> HIDE DEF R
    <2> QED BY <1>2, RetainKeepsOrder
  <1> HIDE DEF left
  <1>4. Falling(left)
    BY <1>3 DEF Falling
  <1>5. ToSet(left) = ToSet(recording) \ cs
    <2>1. \A j \in DOMAIN recording : recording[j] \in ChangeId
      OBVIOUS
    <2> QED BY <1>1, <2>1 DEF ToSet
  <1> QED BY <1>1, <1>4, <1>5 DEF AfterWithdrawing, left

\* The chain after change c landed.
LEMMA AfterLandingFits ==
  ASSUME recording \in Seq(ChangeId), Falling(recording), NEW c
  PROVE  /\ AfterLanding(c) \in Seq(ChangeId) /\ Falling(AfterLanding(c))
         /\ ToSet(AfterLanding(c)) =
              IF c \in ToSet(recording) THEN {d \in ToSet(recording) : d >= c}
              ELSE ToSet(recording)
  <1>1. CASE c \notin ToSet(recording)
    BY <1>1 DEF AfterLanding
  <1>2. CASE c \in ToSet(recording)
    <2>0. \A m \in DOMAIN recording : recording[m] \in Nat
      <3>1. ChangeId \subseteq Nat
        BY PipeRunsAssumption DEF ChangeId
      <3>2. \A m \in DOMAIN recording : recording[m] \in ChangeId
        BY ElementOfSeq
      <3> QED BY <3>1, <3>2
    <2>1. PICK n : n = CHOOSE m \in DOMAIN recording : recording[m] = c
      OBVIOUS
    <2>2. n \in DOMAIN recording /\ recording[n] = c
      BY <1>2, <2>1 DEF ToSet
    <2>3. n \in 1..Len(recording) /\ Len(recording) \in Nat
      BY <2>2
    <2> DEFINE sub == SubSeq(recording, 1, n)
    <2>4. AfterLanding(c) = sub
      BY <1>2, <2>1 DEF AfterLanding
    <2>5. /\ sub \in Seq(ChangeId) /\ DOMAIN sub = 1..n
          /\ \A m \in 1..n : sub[m] = recording[m]
      BY <2>3
    <2> HIDE DEF sub
    <2>6. Falling(sub)
      BY <2>3, <2>5 DEF Falling
    <2>7. \A m \in DOMAIN recording : recording[m] >= c <=> m \in 1..n
      <3> SUFFICES ASSUME NEW m \in DOMAIN recording PROVE recording[m] >= c <=> m \in 1..n
        OBVIOUS
      <3>1. recording[m] \in Nat /\ c \in Nat /\ m \in 1..Len(recording)
        BY <2>0, <2>2
      <3>2. m < n => recording[m] > c
        BY <2>2 DEF Falling
      <3>3. n < m => c > recording[m]
        BY <2>2 DEF Falling
      <3> QED BY <2>2, <2>3, <3>1, <3>2, <3>3
    <2>8. ToSet(sub) = {d \in ToSet(recording) : d >= c}
      BY <2>3, <2>5, <2>7 DEF ToSet
    <2> QED BY <1>2, <2>4, <2>5, <2>6, <2>8
  <1> QED BY <1>1, <1>2

-----------------------------------------------------------------------------
(* What marks, waits and replays *)

Waits == {"waiting", "blocked", "ended", "cancelled"}

\* Where the thread can be with what marks and waits.
ControlFits ==
  /\ mark <= next /\ replaying <= next
  /\ pc = "key" => mark = next
  /\ pc \in {"blocked", "ended", "cancelled"} => waited # NoRun
  /\ pc = "ended" => waited \in Live
  /\ pc = "waiting" /\ waited = NoRun => mark # NoRun
  /\ waited # NoRun => pc \in Waits /\ waited >= mark
  /\ pc = "dot" => dot /\ From(mark) = {}
  /\ dot => pc \in {"dot"} \cup Waits /\ mark # NoRun
  /\ pc \in {"idle", "key"} => ~should_quit

\* The key runner waits for every run before it goes on.
RunnerWaits ==
  ~tui => IF pc \in {"dot"} \cup Waits
          THEN mark # NoRun /\ From(mark) = Live
          ELSE Live = {}

\* A replay waits for every run before its next key.
ReplayWaits ==
  replaying # NoRun =>
    /\ pc # "idle"
    /\ \A i \in Live : runs[i].foreground => i >= replaying
    /\ IF pc \in {"dot"} \cup Waits
       THEN mark >= replaying /\ From(replaying) \subseteq From(mark)
       ELSE From(replaying) = {}

\* Between replays nothing is queued but by the key just read, which no run in
\* the foreground outlives; and a replay that was stopped has no key left.
QueueFits ==
  /\ replaying = NoRun /\ queue > 0 =>
       \/ should_quit /\ pc \in {"settle", "landing", "hooks", "exited"}
       \/ tui /\ pc = "drain" /\ Live = Background
       \/ ~tui /\ pc \in {"waiting", "drain"} /\ waited = NoRun /\ Live = {} /\ ~dot
  /\ replaying = NoRun /\ pc \in {"idle", "key"} => Live = Background
  /\ stopped => replaying # NoRun /\ queue = 0
                /\ pc \in {"settle", "landing", "hooks", "drain", "exited"}

\* The inductive invariant.
IInv ==
  /\ Typed /\ RegistryFits /\ ChainHolds /\ DotHolds /\ RunsKeepTargets
  /\ ControlFits /\ RunnerWaits /\ ReplayWaits /\ QueueFits

\* What holds after a step that starts no run: of the runs and their changes.
Kept ==
  /\ RunsAsBefore /\ next' = next
  /\ RegistryFits' /\ ChainHolds'
  /\ kept' \subseteq ChangeId /\ changes' \in 0..MaxChanges
  /\ recording' \in Seq(ChangeId)
  /\ dot => recording' = recording

\* A step that leaves the changes and the ids alone, and each run its change.
LEMMA ChainStays ==
  ASSUME ChainHolds, Live' = Live, \A i \in Live : runs'[i].settles = runs[i].settles,
         UNCHANGED record
  PROVE  ChainHolds'
  <1>1. Awaited' = Awaited
    BY DEF Awaited
  <1>2. recording' = recording /\ kept' = kept /\ changes' = changes
    BY DEF record
  <1>3. ToSet(recording)' = ToSet(recording) /\ Falling(recording)' = Falling(recording)
    BY <1>2 DEF ToSet, Falling
  <1>4. \A i, j \in Live' :
          runs'[i].settles = runs'[j].settles /\ runs'[i].settles # NoChange => i = j
    BY DEF ChainHolds
  <1> QED BY <1>1, <1>2, <1>3, <1>4 DEF ChainHolds

\* A step that leaves the registry and the changes alone.
LEMMA QuietKeeps ==
  ASSUME IInv, UNCHANGED <<registry, record>>
  PROVE  Kept /\ Live' = Live
  <1>1. runs' = runs /\ next' = next /\ Live' = Live
        /\ recording' = recording /\ kept' = kept /\ changes' = changes
    BY DEF registry, record, Live
  <1>2. RunsAsBefore
    BY <1>1 DEF RunsAsBefore, SameRun
  <1>3. RegistryFits'
    BY <1>1 DEF IInv, RegistryFits, Fits
  <1>4. ChainHolds'
    BY <1>1, ChainStays DEF IInv
  <1> QED BY <1>1, <1>2, <1>3, <1>4 DEF Kept, IInv, Typed

\* A poll.
LEMMA PolledKeeps ==
  ASSUME IInv, NEW w, Poll(w), UNCHANGED <<next, record>>
  PROVE  Kept /\ Live' = Live
  <1>1. /\ RegistryFits' /\ Live' = Live
        /\ \A i \in Live : SameRun(runs[i], runs'[i])
    BY PollKeeps, PipeRunsAssumption DEF IInv
  <1>2. RunsAsBefore
    BY <1>1 DEF RunsAsBefore
  <1>3. ChainHolds'
    BY <1>1, ChainStays DEF IInv, SameRun
  <1> QED BY <1>1, <1>2, <1>3 DEF Kept, IInv, Typed, record

\* A process that exits.
LEMMA ExitKeeps ==
  ASSUME IInv, NEW i \in RunId, ProcessExits(i)
  PROVE  Kept /\ Live' = Live
  <1>1. RegistryFits' /\ RunsAsBefore /\ Live' = Live
    BY Exits DEF IInv
  <1>2. UNCHANGED <<next, record>>
    BY DEF ProcessExits
  <1>3. ChainHolds'
    BY <1>1, <1>2, ChainStays DEF IInv, RunsAsBefore, SameRun
  <1> QED BY <1>1, <1>2, <1>3 DEF Kept, IInv, Typed, record

\* Runs withdrawn, none of which settles a change that `.` has out.
LEMMA WithdrawKeeps ==
  ASSUME IInv, NEW is \in SUBSET Live, Withdraw(is),
         dot => \A i \in is : runs[i].settles \notin ToSet(recording)
  PROVE  Kept /\ Live' = Live \ is /\ wake' \in BOOLEAN
  <1>1. PICK cs : cs = {runs[i].settles : i \in is}
    OBVIOUS
  <1>2. /\ runs' = Restrict(runs, Live \ is) /\ kept' = kept \ cs
        /\ Recorded(AfterWithdrawing(cs)) /\ next' = next /\ changes' = changes
        /\ wake' = (wake \/ \E i \in is : runs[i].running > 0)
    BY <1>1 DEF Withdraw
  <1>3. /\ RegistryFits' /\ Live' = Live \ is
        /\ RunsAsBefore /\ \A i \in Live' : runs'[i] = runs[i]
    BY <1>2, TakenOut DEF IInv
  <1>4. /\ recording' \in Seq(ChangeId) /\ Falling(recording')
        /\ ToSet(recording') = ToSet(recording) \ cs
        /\ dot => recording' = recording
    <2>1. CASE dot
      <3>1. recording' = recording
        BY <1>2, <2>1 DEF Recorded
      <3>2. ToSet(recording) \ cs = ToSet(recording)
        BY <1>1, <2>1
      <3> QED BY <3>1, <3>2 DEF IInv, Typed, ChainHolds
    <2>2. CASE ~dot
      <3>1. recording' = AfterWithdrawing(cs)
        BY <1>2, <2>2 DEF Recorded
      <3> QED BY <2>2, <3>1, AfterWithdrawingFits DEF IInv, Typed, ChainHolds
    <2> QED BY <2>1, <2>2
  <1>5. ChainHolds'
    <2>1. \A i \in Live' : runs'[i].settles = runs[i].settles
      BY <1>3
    <2> QED BY <1>1, <1>2, <1>3, <1>4, <2>1, WithdrawnHolds DEF IInv
  <1> QED BY <1>2, <1>3, <1>4, <1>5 DEF Kept, IInv, Typed

\* A run that landed or failed, and settles no change that `.` has out.
LEMMA FinishKeeps ==
  ASSUME IInv, NEW i \in Live, NEW landed \in BOOLEAN, Finish(i, landed),
         dot => runs[i].settles \notin ToSet(recording)
  PROVE  Kept /\ Live' = Live \ {i}
  <1>1. PICK c : c = runs[i].settles
    OBVIOUS
  <1>2. /\ runs' = Restrict(runs, Live \ {i})
        /\ kept' = IF landed THEN kept ELSE kept \ {c}
        /\ Recorded(IF landed THEN AfterLanding(c) ELSE AfterWithdrawing({c}))
        /\ next' = next /\ changes' = changes
    BY <1>1 DEF Finish
  <1>3. /\ RegistryFits' /\ Live' = Live \ {i}
        /\ RunsAsBefore /\ \A j \in Live' : runs'[j] = runs[j]
    BY <1>2, TakenOut DEF IInv
  <1>4. \A j \in Live' : runs'[j].settles = runs[j].settles
    BY <1>3
  <1>5. Typed /\ ChainHolds /\ recording \in Seq(ChangeId) /\ Falling(recording)
    BY DEF IInv, Typed, ChainHolds
  <1>6. CASE landed
    <2>1. /\ recording' \in Seq(ChangeId) /\ Falling(recording')
          /\ ToSet(recording') = IF c \in ToSet(recording) THEN {d \in ToSet(recording) : d >= c}
                                 ELSE ToSet(recording)
          /\ dot => recording' = recording
      <3>1. CASE dot
        BY <1>1, <1>2, <1>5, <3>1 DEF Recorded
      <3>2. CASE ~dot
        BY <1>2, <1>5, <1>6, <3>2, AfterLandingFits DEF Recorded
      <3> QED BY <3>1, <3>2
    <2>2. ChainHolds'
      BY <1>1, <1>2, <1>3, <1>4, <1>5, <1>6, <2>1, LandedHolds
    <2> QED BY <1>2, <1>3, <1>6, <2>1, <2>2 DEF Kept, IInv, Typed
  <1>7. CASE ~landed
    <2>1. /\ recording' \in Seq(ChangeId) /\ Falling(recording')
          /\ ToSet(recording') = ToSet(recording) \ {c}
          /\ dot => recording' = recording
      <3>1. CASE dot
        BY <1>1, <1>2, <1>5, <3>1 DEF Recorded
      <3>2. CASE ~dot
        BY <1>2, <1>5, <1>7, <3>2, AfterWithdrawingFits DEF Recorded
      <3> QED BY <3>1, <3>2
    <2>2. {c} = {runs[j].settles : j \in {i}}
      BY <1>1
    <2>3. ChainHolds'
      BY <1>2, <1>3, <1>4, <1>5, <1>7, <2>1, <2>2, WithdrawnHolds
    <2> QED BY <1>2, <1>3, <1>7, <2>1, <2>3 DEF Kept, IInv, Typed
  <1> QED BY <1>6, <1>7

\* NoChange is never recorded.
LEMMA NoChangeIsNotRecorded ==
  ASSUME Typed
  PROVE  NoChange \notin ToSet(recording)
  <1>1. recording \in Seq(ChangeId) /\ NoChange \notin ChangeId
    BY PipeRunsAssumption DEF Typed, ChangeId, NoChange
  <1>2. \A n \in DOMAIN recording : recording[n] \in ChangeId
    BY <1>1, ElementOfSeq
  <1> QED BY <1>1, <1>2 DEF ToSet

\* A run started for no change to settle.
LEMMA SettlesNothing ==
  ASSUME Typed, ChainHolds, Live' = Live \cup {next},
         \A i \in Live : runs'[i].settles = runs[i].settles,
         runs'[next].settles = NoChange, UNCHANGED record
  PROVE  ChainHolds'
  <1>1. recording' = recording /\ kept' = kept /\ changes' = changes
    BY DEF record
  <1>2. Awaited' = Awaited \cup {NoChange}
    BY DEF Awaited
  <1>3. ToSet(recording)' = ToSet(recording) /\ Falling(recording)' = Falling(recording)
    BY <1>1 DEF ToSet, Falling
  <1>4. ToSet(recording) \ Awaited' = ToSet(recording) \ Awaited
    BY <1>2, NoChangeIsNotRecorded
  <1>5. \A i, j \in Live' :
          runs'[i].settles = runs'[j].settles /\ runs'[i].settles # NoChange => i = j
    BY DEF ChainHolds
  <1>6. Awaited' \subseteq kept' \cup {NoChange}
    BY <1>1, <1>2 DEF ChainHolds
  <1> QED BY <1>1, <1>3, <1>4, <1>5, <1>6 DEF ChainHolds

\* A change numbered past every change made.
LEMMA FreshIsGreatest ==
  ASSUME Typed, ChainHolds, NEW c, FreshChange(c)
  PROVE  /\ c \in ChangeId /\ c \in Nat /\ c # NoChange
         /\ kept' = kept \cup {c} /\ changes' = c /\ kept' \subseteq 1..c
         /\ \A d \in kept : d \in Nat /\ d < c
         /\ c \notin kept /\ c \notin Awaited /\ c \notin ToSet(recording)
  <1>1. changes \in Nat /\ MaxChanges \in Nat /\ changes < MaxChanges /\ c = changes + 1
    BY PipeRunsAssumption DEF Typed, FreshChange
  <1>2. c \in 1..MaxChanges /\ c # 0
    BY <1>1
  <1>3. \A d \in kept : d \in 1..changes
    BY DEF ChainHolds
  <1>4. \A d \in kept : d \in Nat /\ d < c
    BY <1>1, <1>3
  <1>5. kept' = kept \cup {c} /\ changes' = c
    BY DEF FreshChange
  <1>6. \A d \in kept' : d \in 1..c
    BY <1>1, <1>4, <1>5, <1>3
  <1>7. c \notin kept
    BY <1>1, <1>4
  <1>8. Awaited \subseteq kept \cup {NoChange} /\ ToSet(recording) \subseteq kept
    BY DEF ChainHolds
  <1> QED BY <1>1, <1>2, <1>4, <1>5, <1>6, <1>7, <1>8 DEF ChangeId, NoChange

\* A change whose run decides it, put before those recorded.
LEMMA DeferHolds ==
  ASSUME Typed, ChainHolds, NEW c, FreshChange(c), Defer(c),
         Live' = Live \cup {next}, next \notin Live,
         \A i \in Live : runs'[i].settles = runs[i].settles,
         runs'[next].settles = c
  PROVE  ChainHolds' /\ recording' \in Seq(ChangeId)
  <1>1. /\ c \in ChangeId /\ c \in Nat /\ c # NoChange
        /\ kept' = kept \cup {c} /\ changes' = c /\ kept' \subseteq 1..c
        /\ \A d \in kept : d \in Nat /\ d < c
        /\ c \notin kept /\ c \notin Awaited /\ c \notin ToSet(recording)
    BY FreshIsGreatest
  <1>2. recording \in Seq(ChangeId) /\ recording' = <<c>> \o recording
    BY DEF Typed, Defer
  <1>3. /\ recording' \in Seq(ChangeId) /\ Len(recording) \in Nat
        /\ DOMAIN recording' = 1..(Len(recording) + 1) /\ recording'[1] = c
        /\ \A n \in 2..(Len(recording) + 1) : recording'[n] = recording[n - 1]
    BY <1>1, <1>2
  <1>4. DOMAIN recording = 1..Len(recording)
    BY <1>2
  <1>5. ToSet(recording') = ToSet(recording) \cup {c}
    <2>1. \A n \in DOMAIN recording' : recording'[n] \in ToSet(recording) \cup {c}
      <3> SUFFICES ASSUME NEW n \in DOMAIN recording' PROVE recording'[n] \in ToSet(recording) \cup {c}
        OBVIOUS
      <3>1. CASE n = 1
        BY <1>3, <3>1
      <3>2. CASE n # 1
        <4>1. n - 1 \in DOMAIN recording /\ recording'[n] = recording[n - 1]
          BY <1>3, <1>4, <3>2
        <4> QED BY <4>1 DEF ToSet
      <3> QED BY <3>1, <3>2
    <2>2. \A n \in DOMAIN recording : n + 1 \in DOMAIN recording' /\ recording'[n + 1] = recording[n]
      BY <1>3, <1>4
    <2>3. 1 \in DOMAIN recording'
      BY <1>3
    <2> QED BY <1>3, <2>1, <2>2, <2>3 DEF ToSet
  <1>6. Falling(recording')
    <2> SUFFICES ASSUME NEW m \in DOMAIN recording', NEW n \in DOMAIN recording', m < n
                 PROVE  recording'[m] > recording'[n]
      BY DEF Falling
    <2>1. n - 1 \in DOMAIN recording /\ recording'[n] = recording[n - 1]
      BY <1>3, <1>4
    <2>2. CASE m = 1
      <3>1. recording[n - 1] \in kept
        BY <2>1 DEF ToSet, ChainHolds
      <3> QED BY <1>1, <1>3, <2>1, <2>2, <3>1
    <2>3. CASE m # 1
      <3>1. m - 1 \in DOMAIN recording /\ recording'[m] = recording[m - 1] /\ m - 1 < n - 1
        BY <1>3, <1>4, <2>3
      <3>2. Falling(recording)
        BY DEF ChainHolds
      <3> QED BY <2>1, <3>1, <3>2 DEF Falling
    <2> QED BY <2>2, <2>3
  <1>7. Awaited' = Awaited \cup {c}
    BY DEF Awaited
  <1>8. \A i, j \in Live' :
          runs'[i].settles = runs'[j].settles /\ runs'[i].settles # NoChange => i = j
    <2>1. \A i \in Live : runs'[i].settles # c
      BY <1>1 DEF Awaited
    <2> QED BY <2>1 DEF ChainHolds
  <1>9. /\ ToSet(recording') \ Awaited' = ToSet(recording) \ Awaited
        /\ kept' \ ToSet(recording') = kept \ ToSet(recording)
    BY <1>1, <1>5, <1>7
  <1>10. \A d \in ToSet(recording') \ Awaited', e \in ToSet(recording') : d <= e
    <2> SUFFICES ASSUME NEW d \in ToSet(recording) \ Awaited, NEW e \in ToSet(recording) \cup {c}
                 PROVE  d <= e
      BY <1>5, <1>9
    <2>1. d \in kept
      BY DEF ChainHolds
    <2>2. CASE e = c
      BY <1>1, <2>1, <2>2
    <2>3. CASE e \in ToSet(recording)
      BY <2>3 DEF ChainHolds
    <2> QED BY <2>2, <2>3
  <1>11. \A d \in kept' \ ToSet(recording') : \E e \in ToSet(recording') \ Awaited' : e > d
    BY <1>9 DEF ChainHolds
  <1>12. ToSet(recording') \subseteq kept' /\ kept' \subseteq 1..changes'
    BY <1>1, <1>5 DEF ChainHolds
  <1>13. Awaited' \subseteq kept' \cup {NoChange}
    BY <1>1, <1>7 DEF ChainHolds
  <1> QED BY <1>3, <1>6, <1>8, <1>10, <1>11, <1>12, <1>13 DEF ChainHolds

\* Any other change replaces those recorded.
LEMMA ReplaceHolds ==
  ASSUME Typed, ChainHolds, NEW c, FreshChange(c), Replace(c), UNCHANGED registry
  PROVE  ChainHolds' /\ recording' \in Seq(ChangeId)
  <1>1. /\ c \in ChangeId /\ c \in Nat /\ c # NoChange
        /\ kept' = kept \cup {c} /\ changes' = c /\ kept' \subseteq 1..c
        /\ \A d \in kept : d \in Nat /\ d < c
        /\ c \notin kept /\ c \notin Awaited /\ c \notin ToSet(recording)
    BY FreshIsGreatest
  <1>2. runs' = runs /\ Live' = Live /\ Awaited' = Awaited
    BY DEF registry, Live, Awaited
  <1>3. recording' = <<c>>
    BY DEF Replace
  <1>4. recording' \in Seq(ChangeId) /\ DOMAIN recording' = {1} /\ recording'[1] = c
    BY <1>1, <1>3
  <1>5. ToSet(recording') = {c} /\ Falling(recording')
    BY <1>4 DEF ToSet, Falling
  <1>6. \A d \in kept' \ ToSet(recording') : \E e \in ToSet(recording') \ Awaited' : e > d
    BY <1>1, <1>2, <1>5
  <1>7. \A d \in ToSet(recording') \ Awaited', e \in ToSet(recording') : d <= e
    BY <1>1, <1>5
  <1>8. \A i, j \in Live' :
          runs'[i].settles = runs'[j].settles /\ runs'[i].settles # NoChange => i = j
    BY <1>2 DEF ChainHolds
  <1>9. Awaited' \subseteq kept' \cup {NoChange}
    BY <1>1, <1>2 DEF ChainHolds
  <1> QED BY <1>1, <1>4, <1>5, <1>6, <1>7, <1>8, <1>9 DEF ChainHolds

-----------------------------------------------------------------------------
(* Every step preserves the invariant *)

\* What a step leaves of the runs that are in flight after it.
LEMMA KeptRuns ==
  ASSUME IInv, Kept
  PROVE  /\ Live' \subseteq Live /\ next' = next
         /\ \A i \in Live' : runs'[i].foreground = runs[i].foreground
         /\ \A i \in Live : i < next /\ i # NoRun /\ i \in Nat
         /\ Live = Background => Live' = Background'
         /\ Live = {} => Live = Background
         /\ Live' \subseteq RunId /\ \A i \in Live' : i < next'
         /\ next \in Nat /\ next # 0 /\ mark \in Nat /\ replaying \in Nat /\ waited \in Nat
  <1>1. /\ Live' \subseteq Live /\ next' = next
        /\ \A i \in Live' : runs'[i].foreground = runs[i].foreground
    BY DEF Kept, RunsAsBefore, SameRun
  <1>2. /\ Live \subseteq RunId /\ \A i \in Live : i < next /\ i \in Nat
        /\ next \in Nat /\ next # 0 /\ mark \in Nat /\ replaying \in Nat /\ waited \in Nat
    BY LiveIsFinite, PipeRunsAssumption DEF IInv, Typed
  <1>3. \A i \in Live : i # NoRun
    BY <1>2 DEF RunId, NoRun
  <1>4. (Live = Background => Live' = Background') /\ (Live = {} => Live = Background)
    BY <1>1 DEF Background
  <1> QED BY <1>1, <1>2, <1>3, <1>4

\* The runs' targets are open after a step that closes nothing.
LEMMA TargetsKept ==
  ASSUME RunsKeepTargets, RunsAsBefore, UNCHANGED layout
  PROVE  RunsKeepTargets'
  BY DEF RunsKeepTargets, RunsAsBefore, SameRun, layout

\* A step that moves no thread, mark or replay, and starts no run.
LEMMA ControlStays ==
  ASSUME IInv, Kept, pc = "ended" => Live' = Live,
         UNCHANGED <<control, macro, should_quit, tui>>,
         open_buffers' \subseteq BufferId, open_panes' \subseteq PaneId,
         mode' \subseteq {"insert", "record"}, wake' \in BOOLEAN,
         RunsKeepTargets'
  PROVE  IInv'
  <1>1. /\ Live' \subseteq Live /\ next' = next
        /\ \A i \in Live' : runs'[i].foreground = runs[i].foreground
        /\ \A i \in Live : i < next /\ i \in Nat
        /\ Live = Background => Live' = Background'
        /\ Live' \subseteq RunId /\ \A i \in Live' : i < next'
    BY KeptRuns
  <1>2. /\ pc' = pc /\ waited' = waited /\ mark' = mark /\ dot' = dot
        /\ queue' = queue /\ replaying' = replaying /\ stopped' = stopped
        /\ should_quit' = should_quit /\ tui' = tui
    BY DEF control, macro
  <1>3. Typed'
    BY <1>1, <1>2 DEF Typed, IInv, Kept
  <1>4. ControlFits'
    BY <1>1, <1>2 DEF ControlFits, IInv, From
  <1>5. RunnerWaits'
    BY <1>1, <1>2 DEF RunnerWaits, IInv, From
  <1>6. ReplayWaits'
    BY <1>1, <1>2 DEF ReplayWaits, IInv, From
  <1>7. QueueFits'
    BY <1>1, <1>2 DEF QueueFits, IInv
  <1>8. DotHolds'
    BY <1>1, <1>2 DEF DotHolds, IInv, From, Kept, RunsAsBefore, SameRun
  <1> QED BY <1>3, <1>4, <1>5, <1>6, <1>7, <1>8 DEF IInv, Kept

\* What stops runs: a script, or a key that may force it.
Stops(force) ==
  \/ \E b \in BufferId : Cancel(b) /\ UNCHANGED layout
  \/ \E b \in BufferId : Close(b, force) /\ UNCHANGED open_panes
  \/ \E ps \in SUBSET open_panes : ClosePanes(ps, force) /\ UNCHANGED open_buffers

\* Runs are stopped only where `.` has not taken out what they settle, and none
\* outlives its buffer or its pane.
LEMMA StopsKeep ==
  ASSUME IInv, NEW force, Stops(force),
         dot => \A i \in Live : runs[i].settles \notin ToSet(recording)
  PROVE  /\ Kept /\ RunsKeepTargets' /\ wake' \in BOOLEAN
         /\ open_buffers' \subseteq open_buffers /\ open_panes' \subseteq open_panes
  <1>1. ASSUME NEW b \in BufferId, Withdraw({i \in Live : runs[i].buffer = b}),
               open_buffers' = open_buffers \/ open_buffers' = open_buffers \ {b},
               open_panes' = open_panes
        PROVE  /\ Kept /\ RunsKeepTargets' /\ wake' \in BOOLEAN
    <2>1. PICK is : is = {i \in Live : runs[i].buffer = b}
      OBVIOUS
    <2>2. Kept /\ Live' = Live \ is /\ wake' \in BOOLEAN
      BY <1>1, <2>1, WithdrawKeeps
    <2>3. RunsKeepTargets'
      BY <1>1, <2>1, <2>2 DEF RunsKeepTargets, Kept, RunsAsBefore, SameRun, IInv
    <2> QED BY <2>2, <2>3
  <1>2. ASSUME NEW ps \in SUBSET open_panes, ClosePanes(ps, force), UNCHANGED open_buffers
        PROVE  Kept /\ RunsKeepTargets' /\ wake' \in BOOLEAN
    <2>1. PICK is : is = InBuffers(LaunchedFrom(ps))
      OBVIOUS
    <2>2. is \in SUBSET Live /\ LaunchedFrom(ps) \subseteq is
      BY <2>1 DEF InBuffers, LaunchedFrom
    <2>3. Kept /\ Live' = Live \ is /\ wake' \in BOOLEAN
      BY <1>2, <2>1, <2>2, WithdrawKeeps DEF ClosePanes
    <2>4. open_panes' = open_panes \ ps
      BY <1>2 DEF ClosePanes
    <2>5. RunsKeepTargets'
      BY <1>2, <2>2, <2>3, <2>4
         DEF RunsKeepTargets, Kept, RunsAsBefore, SameRun, IInv, LaunchedFrom
    <2> QED BY <2>3, <2>5
  <1>3. CASE \E b \in BufferId : Cancel(b) /\ UNCHANGED layout
    BY <1>1, <1>3 DEF Cancel, layout
  <1>4. CASE \E b \in BufferId : Close(b, force) /\ UNCHANGED open_panes
    BY <1>1, <1>4 DEF Close
  <1>5. CASE \E ps \in SUBSET open_panes : ClosePanes(ps, force) /\ UNCHANGED open_buffers
    BY <1>2, <1>5 DEF ClosePanes
  <1> QED BY <1>3, <1>4, <1>5 DEF Stops

\* Outside `.` nothing is taken out.
LEMMA NothingTakenOut ==
  ASSUME IInv, pc \notin {"dot"} \cup Waits \/ mark = NoRun
  PROVE  ~dot
  BY DEF IInv, Typed, ControlFits

\* Where the thread can be.
Threads == {"settle", "landing", "hooks", "idle", "key", "dot", "drain",
            "waiting", "blocked", "ended", "cancelled", "exited"}

\* A step that starts no run leaves the runs typed.
LEMMA KeptTyped ==
  ASSUME IInv, Kept, pc' \in Threads,
         \/ UNCHANGED layout
         \/ /\ open_buffers' \subseteq open_buffers /\ open_panes' \subseteq open_panes
            /\ RunsKeepTargets',
         waited' \in {NoRun, waited} \cup Live, mark' \in {NoRun, mark, next},
         replaying' \in {NoRun, replaying, next},
         queue' \in {queue, 0} \cup 0..MaxKeys,
         mode' \subseteq mode \cup {"insert", "record"},
         dot' \in {dot} \cup BOOLEAN, stopped' \in {stopped} \cup BOOLEAN,
         should_quit' \in {should_quit} \cup BOOLEAN, tui' = tui, wake' \in {wake} \cup BOOLEAN
  PROVE  Typed' /\ RunsKeepTargets' /\ RegistryFits' /\ ChainHolds'
  <1>1. RunsKeepTargets'
    BY TargetsKept DEF IInv, Kept
  <1>2. Live' \subseteq RunId /\ \A i \in Live' : i < next'
    BY KeptRuns
  <1>3. /\ waited' \in 0..(MaxRuns + 1) /\ mark' \in 0..(MaxRuns + 1)
        /\ replaying' \in 0..(MaxRuns + 1) /\ next' \in 1..(MaxRuns + 1)
    <2>1. /\ next \in 1..(MaxRuns + 1) /\ next' = next
          /\ {waited, mark, replaying} \subseteq 0..(MaxRuns + 1)
          /\ Live \subseteq 1..MaxRuns /\ MaxRuns \in Nat
      BY PipeRunsAssumption DEF IInv, Typed, Kept, RunId
    <2> QED BY <2>1 DEF NoRun
  <1>4. queue' \in 0..MaxKeys
    BY PipeRunsAssumption DEF IInv, Typed
  <1>5. open_buffers' \subseteq BufferId /\ open_panes' \subseteq PaneId
    BY DEF IInv, Typed, layout
  <1>6. Typed'
    BY <1>2, <1>3, <1>4, <1>5 DEF IInv, Typed, Kept, Threads
  <1> QED BY <1>1, <1>6 DEF Kept

\* The loop's settle.
LEMMA SettleStep ==
  ASSUME IInv, Settle \/ Land \/ AllLanded \/ Hook \/ HookMode \/ Settled
  PROVE  IInv'
  <1>1. CASE Settle
    <2>1. Kept /\ Live' = Live
      <3>1. Poll(NoRun) /\ UNCHANGED <<next, record>>
        BY <1>1 DEF Settle
      <3> QED BY <3>1, PolledKeeps
    <2>2. /\ pc = "settle" /\ pc' = "landing" /\ waited' = waited /\ mark' = mark
          /\ dot' = dot /\ queue' = queue /\ replaying' = replaying /\ stopped' = stopped
          /\ should_quit' = should_quit /\ tui' = tui /\ mode' = mode /\ wake' = wake
          /\ UNCHANGED layout
      BY <1>1 DEF Settle, macro, layout, record, registry
    <2>3. /\ Live' \subseteq Live /\ next' = next
          /\ \A i \in Live' : runs'[i].foreground = runs[i].foreground
          /\ \A i \in Live : i < next /\ i # NoRun /\ i \in Nat
          /\ (Live = Background => Live' = Background') /\ (Live = {} => Live = Background)
          /\ next \in Nat /\ next # 0 /\ mark \in Nat /\ replaying \in Nat /\ waited \in Nat
      BY <2>1, KeptRuns
    <2>4. Typed' /\ RunsKeepTargets' /\ RegistryFits' /\ ChainHolds'
      BY <2>1, <2>2, KeptTyped DEF Threads
    <2>5. ControlFits' /\ RunnerWaits' /\ ReplayWaits' /\ QueueFits'
      BY <2>1, <2>2, <2>3
         DEF ControlFits, RunnerWaits, ReplayWaits, QueueFits, IInv, From, Waits
    <2>6. DotHolds'
      BY <2>1, <2>2, <2>3
         DEF DotHolds, IInv, ControlFits, From, Waits, Kept, RunsAsBefore, SameRun
    <2> QED BY <2>4, <2>5, <2>6 DEF IInv
  <1>2. CASE Land
    <2>1. Kept
      <3>1. ~dot
        BY <1>2, NothingTakenOut DEF Land, Waits
      <3>2. Min(EndedBackground) \in Live
        <4>1. EndedBackground \in SUBSET Live /\ EndedBackground # {}
          BY <1>2 DEF Land, EndedBackground, Background
        <4> QED BY <4>1, OldestIsIn DEF IInv
      <3>3. PICK landed \in BOOLEAN : Finish(Min(EndedBackground), landed)
        BY <1>2 DEF Land
      <3> QED BY <3>1, <3>2, <3>3, FinishKeeps
    <2>2. UNCHANGED <<layout, mode, control, macro, should_quit, wake, tui>>
      BY <1>2 DEF Land
    <2>3. RunsKeepTargets'
      BY <2>1, <2>2, TargetsKept DEF IInv, Kept
    <2>4. pc # "ended"
      BY <1>2 DEF Land
    <2> QED BY <2>1, <2>2, <2>3, <2>4, ControlStays DEF IInv, Typed, layout
  <1>3. CASE AllLanded
    <2>1. Kept /\ Live' = Live
      BY <1>3, QuietKeeps DEF AllLanded, registry, record
    <2>2. /\ pc = "landing" /\ pc' = "hooks" /\ waited' = waited /\ mark' = mark
          /\ dot' = dot /\ queue' = queue /\ replaying' = replaying /\ stopped' = stopped
          /\ should_quit' = should_quit /\ tui' = tui /\ mode' = mode /\ wake' = wake
          /\ UNCHANGED layout
      BY <1>3 DEF AllLanded, macro, layout, record, registry
    <2>3. /\ Live' \subseteq Live /\ next' = next
          /\ \A i \in Live' : runs'[i].foreground = runs[i].foreground
          /\ \A i \in Live : i < next /\ i # NoRun /\ i \in Nat
          /\ (Live = Background => Live' = Background') /\ (Live = {} => Live = Background)
          /\ next \in Nat /\ next # 0 /\ mark \in Nat /\ replaying \in Nat /\ waited \in Nat
      BY <2>1, KeptRuns
    <2>4. Typed' /\ RunsKeepTargets' /\ RegistryFits' /\ ChainHolds'
      BY <2>1, <2>2, KeptTyped DEF Threads
    <2>5. ControlFits' /\ RunnerWaits' /\ ReplayWaits' /\ QueueFits'
      BY <2>1, <2>2, <2>3
         DEF ControlFits, RunnerWaits, ReplayWaits, QueueFits, IInv, From, Waits
    <2>6. DotHolds'
      BY <2>1, <2>2, <2>3
         DEF DotHolds, IInv, ControlFits, From, Waits, Kept, RunsAsBefore, SameRun
    <2> QED BY <2>4, <2>5, <2>6 DEF IInv
  <1>4. CASE Hook
    <2>1. UNCHANGED <<mode, control, macro, should_quit, tui>> /\ pc # "ended"
      BY <1>4 DEF Hook
    <2>2. Stops(FALSE)
      BY <1>4 DEF Hook, ScriptStops, Stops
    <2>3. dot => \A i \in Live : runs[i].settles \notin ToSet(recording)
      BY <1>4, NothingTakenOut DEF Hook, Waits
    <2>4. /\ Kept /\ RunsKeepTargets' /\ wake' \in BOOLEAN
          /\ open_buffers' \subseteq open_buffers /\ open_panes' \subseteq open_panes
      BY <2>2, <2>3, StopsKeep
    <2> QED BY <2>1, <2>4, ControlStays DEF IInv, Typed
  <1>5. CASE HookMode
    <2>1. Kept /\ Live' = Live
      BY <1>5, QuietKeeps DEF HookMode, registry, record
    <2>2. UNCHANGED <<layout, control, macro, should_quit, wake, tui>>
      BY <1>5 DEF HookMode
    <2>3. mode' \subseteq {"insert", "record"}
      BY <1>5 DEF HookMode, IInv, Typed
    <2>4. RunsKeepTargets'
      BY <2>1, <2>2, TargetsKept DEF IInv, Kept
    <2> QED BY <2>1, <2>2, <2>3, <2>4, ControlStays DEF IInv, Typed, layout
  <1>6. CASE Settled
    <2>1. Kept /\ Live' = Live
      BY <1>6, QuietKeeps DEF Settled, registry, record
    <2>2. pc' = "waiting" => waited' \in Live
      <3> HAVE pc' = "waiting"
      <3>1. Live \ Background # {}
        BY <1>6 DEF Settled, AfterSettle, Background
      <3>2. waited' = Min(Live \ Background)
        BY <1>6 DEF Settled
      <3> QED BY <3>1, <3>2, OldestIsIn DEF IInv
    <2>3. /\ pc = "hooks" /\ pc' \in {"exited", "drain", "waiting", "idle"} /\ mark' = NoRun
          /\ (should_quit => pc' = "exited")
          /\ (replaying # NoRun => pc' \in {"exited", "drain"})
          /\ (pc' = "drain" => replaying # NoRun)
          /\ (pc' = "waiting" => tui /\ waited' \in Live)
          /\ (pc' # "waiting" => waited' = NoRun)
          /\ (pc' = "idle" /\ tui => Live = Background) /\ dot' = dot /\ queue' = queue
          /\ replaying' = replaying /\ stopped' = stopped /\ should_quit' = should_quit
          /\ tui' = tui /\ mode' = mode /\ wake' = wake /\ UNCHANGED layout
      BY <1>6, <2>2 DEF Settled, AfterSettle, macro, layout, record, registry
    <2>4. /\ Live' \subseteq Live /\ next' = next
          /\ \A i \in Live' : runs'[i].foreground = runs[i].foreground
          /\ \A i \in Live : i < next /\ i # NoRun /\ i \in Nat
          /\ (Live = Background => Live' = Background') /\ (Live = {} => Live = Background)
          /\ next \in Nat /\ next # 0 /\ mark \in Nat /\ replaying \in Nat /\ waited \in Nat
      BY <2>1, KeptRuns
    <2>5. Typed' /\ RunsKeepTargets' /\ RegistryFits' /\ ChainHolds'
      BY <2>1, <2>3, KeptTyped DEF Threads, NoRun
    <2>6. ControlFits' /\ RunnerWaits' /\ ReplayWaits' /\ QueueFits'
      BY <2>1, <2>3, <2>4
         DEF ControlFits, RunnerWaits, ReplayWaits, QueueFits, IInv, From, Waits, NoRun
    <2>7. DotHolds'
      BY <2>1, <2>3, <2>4
         DEF DotHolds, IInv, ControlFits, From, Waits, Kept, RunsAsBefore, SameRun
    <2> QED BY <2>5, <2>6, <2>7 DEF IInv
  <1> QED BY <1>1, <1>2, <1>3, <1>4, <1>5, <1>6

\* Waits.
LEMMA WaitStep ==
  ASSUME IInv, StartWait \/ WaitDone \/ WaitPoll \/ Woken \/ Interrupt
               \/ RenderCancels \/ FinishWait \/ CancelWait \/ CancelMainWait
  PROVE  IInv'
  <1>1. CASE StartWait
    <2>1. /\ RegistryFits' /\ Live' = Live
          /\ waited' \in From(mark)
          /\ \A i \in Live : i # waited' => runs'[i] = runs[i]
          /\ LET r == runs[waited'] s == runs'[waited'] IN
               s.buffer = r.buffer /\ s.pane = r.pane /\ s.settles = r.settles
      BY <1>1, StartsWait DEF IInv
    <2>2. /\ \A i \in Live : /\ runs'[i].buffer = runs[i].buffer /\ runs'[i].pane = runs[i].pane
                             /\ runs'[i].settles = runs[i].settles
                             /\ i < mark => runs'[i].foreground = runs[i].foreground
          /\ waited' \in Live /\ waited' >= mark /\ mark \in Nat
          /\ waited' \in 1..(MaxRuns + 1)
      <3>1. waited' \in Live /\ waited' >= mark /\ Live \subseteq 1..MaxRuns /\ MaxRuns \in Nat
            /\ mark \in Nat
        BY <2>1, PipeRunsAssumption DEF From, IInv, Typed, RunId
      <3>2. \A i \in Live : i < mark => i # waited'
        BY <3>1
      <3> QED BY <2>1, <3>1, <3>2
    <2>3. /\ pc = "waiting" /\ pc' = "waiting" /\ waited = NoRun /\ From(mark) # {}
          /\ next' = next /\ mark' = mark /\ dot' = dot /\ queue' = queue /\ replaying' = replaying
          /\ stopped' = stopped /\ should_quit' = should_quit /\ tui' = tui /\ mode' = mode
          /\ wake' = wake /\ UNCHANGED <<layout, record>>
      BY <1>1 DEF StartWait, macro
    <2>4. ChainHolds'
      BY <2>1, <2>2, <2>3, ChainStays DEF IInv
    <2>5. Typed'
      BY <2>1, <2>2, <2>3 DEF IInv, Typed, layout, record
    <2>6. RunsKeepTargets'
      BY <2>1, <2>2, <2>3 DEF IInv, RunsKeepTargets, layout
    <2>7. ControlFits' /\ RunnerWaits'
      BY <2>1, <2>2, <2>3 DEF IInv, ControlFits, RunnerWaits, From, Waits, NoRun
    <2>8. ReplayWaits'
      <3> SUFFICES ASSUME replaying # NoRun
                   PROVE  \A i \in Live : runs'[i].foreground => i >= replaying
        BY <2>1, <2>3 DEF ReplayWaits, IInv, From, Waits
      <3>1. /\ mark >= replaying /\ replaying \in Nat
            /\ \A i \in Live : i \in Nat /\ (runs[i].foreground => i >= replaying)
        BY <2>3, LiveIsFinite, PipeRunsAssumption DEF ReplayWaits, IInv, Waits, Typed
      <3> QED BY <2>2, <3>1
    <2>9. QueueFits'
      BY <2>1, <2>3 DEF QueueFits, IInv, From
    <2>10. DotHolds'
      BY <2>1, <2>2, <2>3 DEF DotHolds, IInv, From, record
    <2> QED BY <2>1, <2>4, <2>5, <2>6, <2>7, <2>8, <2>9, <2>10 DEF IInv
  <1>2. CASE WaitDone
    <2>1. Kept /\ Live' = Live
      BY <1>2, QuietKeeps DEF WaitDone, registry, record
    <2>2. /\ pc = "waiting" /\ waited = NoRun /\ From(mark) = {} /\ (dot => pc' = "dot")
          /\ (~dot /\ replaying = NoRun => pc' = "drain")
          /\ (~dot /\ replaying # NoRun => pc' = "settle") /\ waited' = waited
          /\ mark' = mark /\ dot' = dot /\ queue' = queue /\ replaying' = replaying
          /\ stopped' = stopped /\ should_quit' = should_quit /\ tui' = tui /\ mode' = mode
          /\ wake' = wake /\ UNCHANGED layout
      BY <1>2 DEF WaitDone, AfterWait, macro, layout, record, registry
    <2>3. /\ Live' \subseteq Live /\ next' = next
          /\ \A i \in Live' : runs'[i].foreground = runs[i].foreground
          /\ \A i \in Live : i < next /\ i # NoRun /\ i \in Nat
          /\ (Live = Background => Live' = Background') /\ (Live = {} => Live = Background)
          /\ next \in Nat /\ next # 0 /\ mark \in Nat /\ replaying \in Nat /\ waited \in Nat
      BY <2>1, KeptRuns
    <2>4. Typed' /\ RunsKeepTargets' /\ RegistryFits' /\ ChainHolds'
      BY <2>1, <2>2, KeptTyped DEF Threads
    <2>5. ControlFits' /\ RunnerWaits' /\ ReplayWaits' /\ QueueFits'
      BY <2>1, <2>2, <2>3
         DEF ControlFits, RunnerWaits, ReplayWaits, QueueFits, IInv, From, Waits
    <2>6. DotHolds'
      BY <2>1, <2>2, <2>3
         DEF DotHolds, IInv, ControlFits, From, Waits, Kept, RunsAsBefore, SameRun
    <2> QED BY <2>4, <2>5, <2>6 DEF IInv
  <1>3. CASE WaitPoll
    <2>1. Kept /\ Live' = Live
      <3>1. Poll(waited) /\ UNCHANGED <<next, record>>
        BY <1>3 DEF WaitPoll
      <3> QED BY <3>1, PolledKeeps
    <2>2. /\ pc = "waiting" /\ waited # NoRun /\ pc' \in {"cancelled", "blocked", "ended"}
          /\ (pc' = "ended" => waited \in Live) /\ waited' = waited /\ mark' = mark
          /\ dot' = dot /\ queue' = queue /\ replaying' = replaying /\ stopped' = stopped
          /\ should_quit' = should_quit /\ tui' = tui /\ mode' = mode /\ wake' = wake
          /\ UNCHANGED layout
      BY <1>3 DEF WaitPoll, macro, layout, record, registry
    <2>3. /\ Live' \subseteq Live /\ next' = next
          /\ \A i \in Live' : runs'[i].foreground = runs[i].foreground
          /\ \A i \in Live : i < next /\ i # NoRun /\ i \in Nat
          /\ (Live = Background => Live' = Background') /\ (Live = {} => Live = Background)
          /\ next \in Nat /\ next # 0 /\ mark \in Nat /\ replaying \in Nat /\ waited \in Nat
      BY <2>1, KeptRuns
    <2>4. Typed' /\ RunsKeepTargets' /\ RegistryFits' /\ ChainHolds'
      BY <2>1, <2>2, KeptTyped DEF Threads
    <2>5. ControlFits' /\ RunnerWaits' /\ ReplayWaits' /\ QueueFits'
      BY <2>1, <2>2, <2>3
         DEF ControlFits, RunnerWaits, ReplayWaits, QueueFits, IInv, From, Waits
    <2>6. DotHolds'
      BY <2>1, <2>2, <2>3
         DEF DotHolds, IInv, ControlFits, From, Waits, Kept, RunsAsBefore, SameRun
    <2> QED BY <2>4, <2>5, <2>6 DEF IInv
  <1>4. CASE Woken
    <2>1. Kept /\ Live' = Live
      BY <1>4, QuietKeeps DEF Woken, registry, record
    <2>2. /\ pc = "blocked" /\ pc' = "waiting" /\ waited' = waited /\ mark' = mark
          /\ dot' = dot /\ queue' = queue /\ replaying' = replaying /\ stopped' = stopped
          /\ should_quit' = should_quit /\ tui' = tui /\ mode' = mode /\ wake' = FALSE
          /\ UNCHANGED layout
      BY <1>4 DEF Woken, macro, layout, record, registry
    <2>3. /\ Live' \subseteq Live /\ next' = next
          /\ \A i \in Live' : runs'[i].foreground = runs[i].foreground
          /\ \A i \in Live : i < next /\ i # NoRun /\ i \in Nat
          /\ (Live = Background => Live' = Background') /\ (Live = {} => Live = Background)
          /\ next \in Nat /\ next # 0 /\ mark \in Nat /\ replaying \in Nat /\ waited \in Nat
      BY <2>1, KeptRuns
    <2>4. Typed' /\ RunsKeepTargets' /\ RegistryFits' /\ ChainHolds'
      BY <2>1, <2>2, KeptTyped DEF Threads
    <2>5. ControlFits' /\ RunnerWaits' /\ ReplayWaits' /\ QueueFits'
      BY <2>1, <2>2, <2>3
         DEF ControlFits, RunnerWaits, ReplayWaits, QueueFits, IInv, From, Waits
    <2>6. DotHolds'
      BY <2>1, <2>2, <2>3
         DEF DotHolds, IInv, ControlFits, From, Waits, Kept, RunsAsBefore, SameRun
    <2> QED BY <2>4, <2>5, <2>6 DEF IInv
  <1>5. CASE Interrupt
    <2>1. Kept /\ Live' = Live
      BY <1>5, QuietKeeps DEF Interrupt, registry, record
    <2>2. /\ pc \in {"blocked", "waiting"} /\ (pc = "waiting" => waited # NoRun)
          /\ pc' = "cancelled" /\ waited' = waited /\ mark' = mark /\ dot' = dot
          /\ queue' = queue /\ replaying' = replaying /\ stopped' = stopped
          /\ should_quit' = should_quit /\ tui' = tui /\ mode' = mode /\ wake' = wake
          /\ UNCHANGED layout
      BY <1>5 DEF Interrupt, macro, layout, record, registry
    <2>3. /\ Live' \subseteq Live /\ next' = next
          /\ \A i \in Live' : runs'[i].foreground = runs[i].foreground
          /\ \A i \in Live : i < next /\ i # NoRun /\ i \in Nat
          /\ (Live = Background => Live' = Background') /\ (Live = {} => Live = Background)
          /\ next \in Nat /\ next # 0 /\ mark \in Nat /\ replaying \in Nat /\ waited \in Nat
      BY <2>1, KeptRuns
    <2>4. Typed' /\ RunsKeepTargets' /\ RegistryFits' /\ ChainHolds'
      BY <2>1, <2>2, KeptTyped DEF Threads
    <2>5. ControlFits' /\ RunnerWaits' /\ ReplayWaits' /\ QueueFits'
      BY <2>1, <2>2, <2>3
         DEF ControlFits, RunnerWaits, ReplayWaits, QueueFits, IInv, From, Waits
    <2>6. DotHolds'
      BY <2>1, <2>2, <2>3
         DEF DotHolds, IInv, ControlFits, From, Waits, Kept, RunsAsBefore, SameRun
    <2> QED BY <2>4, <2>5, <2>6 DEF IInv
  <1>6. CASE RenderCancels
    <2>1. UNCHANGED <<mode, control, macro, should_quit, tui>> /\ pc # "ended"
      BY <1>6 DEF RenderCancels
    <2>2. Stops(FALSE)
      BY <1>6 DEF RenderCancels, Stops
    <2>3. dot => \A i \in Live : runs[i].settles \notin ToSet(recording)
      BY <1>6, NothingTakenOut DEF RenderCancels
    <2>4. /\ Kept /\ RunsKeepTargets' /\ wake' \in BOOLEAN
          /\ open_buffers' \subseteq open_buffers /\ open_panes' \subseteq open_panes
      BY <2>2, <2>3, StopsKeep
    <2> QED BY <2>1, <2>4, ControlStays DEF IInv, Typed
  <1>7. CASE FinishWait
    <2>1. Kept /\ Live' = Live \ {waited}
      <3>1. waited \in Live /\ (dot => waited \in From(mark))
        BY <1>7 DEF FinishWait, IInv, ControlFits, From
      <3>2. dot => runs[waited].settles \notin ToSet(recording)
        BY <3>1, NoChangeIsNotRecorded DEF IInv, DotHolds
      <3>3. PICK landed \in BOOLEAN : Finish(waited, landed)
        BY <1>7 DEF FinishWait
      <3> QED BY <3>1, <3>2, <3>3, FinishKeeps
    <2>2. /\ pc = "ended" /\ (mark = NoRun => pc' = "settle")
          /\ (mark # NoRun => pc' = "waiting") /\ waited' = NoRun /\ mark' = mark
          /\ dot' = dot /\ queue' = queue /\ replaying' = replaying /\ stopped' = stopped
          /\ should_quit' = should_quit /\ tui' = tui /\ mode' = mode /\ wake' = wake
          /\ UNCHANGED layout
      BY <1>7 DEF FinishWait, macro, layout, record, registry
    <2>3. /\ Live' \subseteq Live /\ next' = next
          /\ \A i \in Live' : runs'[i].foreground = runs[i].foreground
          /\ \A i \in Live : i < next /\ i # NoRun /\ i \in Nat
          /\ (Live = Background => Live' = Background') /\ (Live = {} => Live = Background)
          /\ next \in Nat /\ next # 0 /\ mark \in Nat /\ replaying \in Nat /\ waited \in Nat
      BY <2>1, KeptRuns
    <2>4. Typed' /\ RunsKeepTargets' /\ RegistryFits' /\ ChainHolds'
      BY <2>1, <2>2, KeptTyped DEF Threads, NoRun
    <2>5. ControlFits' /\ RunnerWaits' /\ ReplayWaits' /\ QueueFits'
      BY <2>1, <2>2, <2>3
         DEF ControlFits, RunnerWaits, ReplayWaits, QueueFits, IInv, From, Waits, NoRun
    <2>6. DotHolds'
      BY <2>1, <2>2, <2>3
         DEF DotHolds, IInv, ControlFits, From, Waits, Kept, RunsAsBefore, SameRun
    <2> QED BY <2>4, <2>5, <2>6 DEF IInv
  <1>8. CASE CancelWait
    <2>1. Kept /\ Live' = Live \ From(mark) /\ wake' \in BOOLEAN
      <3>1. dot => \A i \in From(mark) : runs[i].settles \notin ToSet(recording)
        BY NoChangeIsNotRecorded DEF IInv, DotHolds
      <3>2. From(mark) \in SUBSET Live /\ Withdraw(From(mark))
        BY <1>8 DEF CancelWait, From
      <3> QED BY <3>1, <3>2, WithdrawKeeps
    <2>2. /\ pc = "cancelled" /\ mark # NoRun /\ (replaying = NoRun => pc' = "drain")
          /\ (replaying # NoRun => pc' = "settle") /\ waited' = NoRun /\ queue' = 0
          /\ dot' = FALSE /\ stopped' \in BOOLEAN /\ (stopped' => replaying # NoRun)
          /\ mark' = mark /\ replaying' = replaying /\ should_quit' = should_quit
          /\ tui' = tui /\ mode' = mode /\ wake' \in BOOLEAN /\ UNCHANGED layout
      BY <1>8, <2>1 DEF CancelWait, AfterWait, macro, layout, record, registry
    <2>3. /\ Live' \subseteq Live /\ next' = next
          /\ \A i \in Live' : runs'[i].foreground = runs[i].foreground
          /\ \A i \in Live : i < next /\ i # NoRun /\ i \in Nat
          /\ (Live = Background => Live' = Background') /\ (Live = {} => Live = Background)
          /\ next \in Nat /\ next # 0 /\ mark \in Nat /\ replaying \in Nat /\ waited \in Nat
      BY <2>1, KeptRuns
    <2>4. Typed' /\ RunsKeepTargets' /\ RegistryFits' /\ ChainHolds'
      BY <2>1, <2>2, KeptTyped DEF Threads, NoRun
    <2>5. ControlFits' /\ RunnerWaits' /\ ReplayWaits' /\ QueueFits'
      BY <2>1, <2>2, <2>3
         DEF ControlFits, RunnerWaits, ReplayWaits, QueueFits, IInv, From, Waits, NoRun
    <2>6. DotHolds'
      BY <2>1, <2>2, <2>3
         DEF DotHolds, IInv, ControlFits, From, Waits, Kept, RunsAsBefore, SameRun
    <2> QED BY <2>4, <2>5, <2>6 DEF IInv
  <1>9. CASE CancelMainWait
    <2>1. Kept /\ Live' = Live \ {waited} /\ wake' \in BOOLEAN
      <3>1. ~dot
        BY <1>9, NothingTakenOut DEF CancelMainWait
      <3>2. PICK is : is = {waited} \cap Live
        OBVIOUS
      <3>3. is \in SUBSET Live /\ Withdraw(is) /\ Live \ is = Live \ {waited}
        BY <1>9, <3>2 DEF CancelMainWait
      <3> QED BY <3>1, <3>3, WithdrawKeeps
    <2>2. /\ pc = "cancelled" /\ mark = NoRun /\ pc' \in {"settle", "exited"}
          /\ waited' = NoRun /\ mark' = mark /\ dot' = dot /\ queue' = queue
          /\ replaying' = replaying /\ stopped' = stopped /\ should_quit' = should_quit
          /\ tui' = tui /\ mode' = mode /\ wake' \in BOOLEAN /\ UNCHANGED layout
      BY <1>9, <2>1 DEF CancelMainWait, macro, layout, record, registry
    <2>3. /\ Live' \subseteq Live /\ next' = next
          /\ \A i \in Live' : runs'[i].foreground = runs[i].foreground
          /\ \A i \in Live : i < next /\ i # NoRun /\ i \in Nat
          /\ (Live = Background => Live' = Background') /\ (Live = {} => Live = Background)
          /\ next \in Nat /\ next # 0 /\ mark \in Nat /\ replaying \in Nat /\ waited \in Nat
      BY <2>1, KeptRuns
    <2>4. Typed' /\ RunsKeepTargets' /\ RegistryFits' /\ ChainHolds'
      BY <2>1, <2>2, KeptTyped DEF Threads, NoRun
    <2>5. ControlFits' /\ RunnerWaits' /\ ReplayWaits' /\ QueueFits'
      BY <2>1, <2>2, <2>3
         DEF ControlFits, RunnerWaits, ReplayWaits, QueueFits, IInv, From, Waits, NoRun
    <2>6. DotHolds'
      BY <2>1, <2>2, <2>3
         DEF DotHolds, IInv, ControlFits, From, Waits, Kept, RunsAsBefore, SameRun
    <2> QED BY <2>4, <2>5, <2>6 DEF IInv
  <1> QED BY <1>1, <1>2, <1>3, <1>4, <1>5, <1>6, <1>7, <1>8, <1>9

\* Keys.
LEMMA KeyStep ==
  ASSUME IInv, ReadKey \/ ReadWake \/ PipeKey \/ ChangeKey \/ OtherKey \/ StopKey
               \/ QuitKey \/ MacroKey
  PROVE  IInv'
  <1>1. CASE ReadKey
    <2>1. Kept /\ Live' = Live
      BY <1>1, QuietKeeps DEF ReadKey, registry, record
    <2>2. /\ pc = "idle" /\ pc' = "key" /\ mark' = next /\ waited' = waited /\ dot' = dot
          /\ queue' = queue /\ replaying' = replaying /\ stopped' = stopped
          /\ should_quit' = should_quit /\ tui' = tui /\ mode' = mode
          /\ (wake' = wake \/ wake' = FALSE) /\ UNCHANGED layout
      BY <1>1 DEF ReadKey, macro, layout, record, registry
    <2>3. /\ Live' \subseteq Live /\ next' = next
          /\ \A i \in Live' : runs'[i].foreground = runs[i].foreground
          /\ \A i \in Live : i < next /\ i # NoRun /\ i \in Nat
          /\ (Live = Background => Live' = Background') /\ (Live = {} => Live = Background)
          /\ next \in Nat /\ next # 0 /\ mark \in Nat /\ replaying \in Nat /\ waited \in Nat
      BY <2>1, KeptRuns
    <2>4. Typed' /\ RunsKeepTargets' /\ RegistryFits' /\ ChainHolds'
      BY <2>1, <2>2, KeptTyped DEF Threads, NoRun
    <2>5. ControlFits' /\ RunnerWaits' /\ ReplayWaits' /\ QueueFits'
      BY <2>1, <2>2, <2>3
         DEF ControlFits, RunnerWaits, ReplayWaits, QueueFits, IInv, From, Waits, NoRun
    <2>6. DotHolds'
      BY <2>1, <2>2, <2>3
         DEF DotHolds, IInv, ControlFits, From, Waits, Kept, RunsAsBefore, SameRun
    <2> QED BY <2>4, <2>5, <2>6 DEF IInv
  <1>2. CASE ReadWake
    <2>1. Kept /\ Live' = Live
      BY <1>2, QuietKeeps DEF ReadWake, registry, record
    <2>2. /\ pc = "idle" /\ pc' = "settle" /\ waited' = waited /\ mark' = mark /\ dot' = dot
          /\ queue' = queue /\ replaying' = replaying /\ stopped' = stopped
          /\ should_quit' = should_quit /\ tui' = tui /\ mode' = mode /\ wake' = FALSE
          /\ UNCHANGED layout
      BY <1>2 DEF ReadWake, macro, layout, record, registry
    <2>3. /\ Live' \subseteq Live /\ next' = next
          /\ \A i \in Live' : runs'[i].foreground = runs[i].foreground
          /\ \A i \in Live : i < next /\ i # NoRun /\ i \in Nat
          /\ (Live = Background => Live' = Background') /\ (Live = {} => Live = Background)
          /\ next \in Nat /\ next # 0 /\ mark \in Nat /\ replaying \in Nat /\ waited \in Nat
      BY <2>1, KeptRuns
    <2>4. Typed' /\ RunsKeepTargets' /\ RegistryFits' /\ ChainHolds'
      BY <2>1, <2>2, KeptTyped DEF Threads
    <2>5. ControlFits' /\ RunnerWaits' /\ ReplayWaits' /\ QueueFits'
      BY <2>1, <2>2, <2>3
         DEF ControlFits, RunnerWaits, ReplayWaits, QueueFits, IInv, From, Waits
    <2>6. DotHolds'
      BY <2>1, <2>2, <2>3
         DEF DotHolds, IInv, ControlFits, From, Waits, Kept, RunsAsBefore, SameRun
    <2> QED BY <2>4, <2>5, <2>6 DEF IInv
  <1>3. CASE PipeKey
    <2>1. PICK b \in BufferId, p \in PaneId, c \in {NoChange} \cup ChangeId, foreground \in BOOLEAN :
            /\ StartRun(b, p, c, foreground)
            /\ IF "insert" \in mode THEN c = NoChange /\ UNCHANGED record
               ELSE FreshChange(c) /\ Defer(c)
      BY <1>3 DEF PipeKey
    <2>2. /\ RegistryFits' /\ Live' = Live \cup {next} /\ next \notin Live
          /\ next' = next + 1 /\ next \in RunId
          /\ \A i \in Live : runs'[i] = runs[i]
          /\ runs'[next].buffer = b /\ runs'[next].pane = p
          /\ runs'[next].settles = c
          /\ b \in open_buffers /\ p \in open_panes
      BY <2>1, Starts DEF IInv
    <2>3. \A i \in Live : /\ runs'[i].settles = runs[i].settles
                         /\ runs'[i].foreground = runs[i].foreground
      BY <2>2
    <2>4. /\ pc = "key" /\ waited' = waited /\ mark' = mark /\ dot' = dot
          /\ queue' = queue /\ replaying' = replaying /\ stopped' = stopped
          /\ should_quit' = should_quit /\ tui' = tui /\ mode' = mode /\ wake' = wake /\ UNCHANGED layout
          /\ (tui /\ replaying = NoRun => pc' = "drain")
          /\ (~(tui /\ replaying = NoRun) => pc' = "waiting")
      BY <1>3 DEF PipeKey, macro, AfterKey
    <2>5. /\ \A i \in Live : i \in Nat /\ i < next
          /\ next \in Nat /\ next # 0 /\ mark \in Nat /\ replaying \in Nat
          /\ next \in 1..MaxRuns /\ MaxRuns \in Nat
      BY <2>2, LiveIsFinite, PipeRunsAssumption DEF IInv, Typed, RunId
    <2>6. ChainHolds' /\ recording' \in Seq(ChangeId) /\ kept' \subseteq ChangeId
          /\ changes' \in 0..MaxChanges
      <3>1. CASE "insert" \in mode
        <4>1. ChainHolds'
          BY <2>1, <2>2, <2>3, <3>1, SettlesNothing DEF IInv
        <4> QED BY <2>1, <3>1, <4>1 DEF IInv, Typed, record
      <3>2. CASE "insert" \notin mode
        <4>1. ChainHolds' /\ recording' \in Seq(ChangeId)
          BY <2>1, <2>2, <2>3, <3>2, DeferHolds DEF IInv
        <4>2. c \in ChangeId /\ kept' = kept \cup {c} /\ changes' = c
          BY <2>1, <3>2, FreshIsGreatest DEF IInv
        <4>3. c \in 0..MaxChanges /\ kept \subseteq ChangeId
          BY <4>2, PipeRunsAssumption DEF IInv, Typed, ChangeId
        <4> QED BY <4>1, <4>2, <4>3
      <3> QED BY <3>1, <3>2
    <2>7. Typed'
      <3>1. Live' \subseteq RunId /\ (\A i \in Live' : i < next') /\ next' \in 1..(MaxRuns + 1)
        BY <2>2, <2>5 DEF IInv, Typed
      <3> QED BY <2>4, <2>6, <3>1 DEF IInv, Typed, layout
    <2>8. RunsKeepTargets'
      BY <2>2, <2>4 DEF IInv, RunsKeepTargets, layout
    <2>9. ControlFits' /\ RunnerWaits'
      BY <2>2, <2>4, <2>5 DEF IInv, ControlFits, RunnerWaits, From, Waits, NoRun
    <2>10. ReplayWaits'
      BY <2>2, <2>3, <2>4, <2>5 DEF IInv, ControlFits, ReplayWaits, From, Waits, NoRun
    <2>11. QueueFits'
      BY <2>2, <2>4 DEF IInv, QueueFits
    <2>12. DotHolds'
      BY <2>4, NothingTakenOut DEF DotHolds, Waits
    <2> QED BY <2>2, <2>6, <2>7, <2>8, <2>9, <2>10, <2>11, <2>12 DEF IInv
  <1>4. CASE ChangeKey
    <2>1. Kept /\ Live' = Live
      <3>1. PICK c \in ChangeId : FreshChange(c) /\ Replace(c)
        BY <1>4 DEF ChangeKey
      <3>2. UNCHANGED registry /\ pc = "key"
        BY <1>4 DEF ChangeKey
      <3>3. ~dot
        BY <3>2, NothingTakenOut DEF Waits
      <3>4. ChainHolds' /\ recording' \in Seq(ChangeId)
        BY <3>1, <3>2, ReplaceHolds DEF IInv
      <3>5. kept' \subseteq ChangeId /\ changes' \in 0..MaxChanges
        BY <3>1, PipeRunsAssumption DEF FreshChange, IInv, Typed, ChangeId
      <3>6. runs' = runs /\ next' = next /\ Live' = Live
        BY <3>2 DEF registry, Live
      <3> QED BY <3>3, <3>4, <3>5, <3>6
                 DEF Kept, RunsAsBefore, SameRun, RegistryFits, Fits, IInv
    <2>2. /\ pc = "key" /\ (tui /\ replaying = NoRun => pc' = "drain")
          /\ (~(tui /\ replaying = NoRun) => pc' = "waiting")
          /\ mode' \in {mode, mode \cup {"insert"}} /\ waited' = waited /\ mark' = mark
          /\ dot' = dot /\ queue' = queue /\ replaying' = replaying /\ stopped' = stopped
          /\ should_quit' = should_quit /\ tui' = tui /\ wake' = wake /\ UNCHANGED layout
      BY <1>4 DEF ChangeKey, AfterKey, macro, layout, record, registry
    <2>3. /\ Live' \subseteq Live /\ next' = next
          /\ \A i \in Live' : runs'[i].foreground = runs[i].foreground
          /\ \A i \in Live : i < next /\ i # NoRun /\ i \in Nat
          /\ (Live = Background => Live' = Background') /\ (Live = {} => Live = Background)
          /\ next \in Nat /\ next # 0 /\ mark \in Nat /\ replaying \in Nat /\ waited \in Nat
      BY <2>1, KeptRuns
    <2>4. Typed' /\ RunsKeepTargets' /\ RegistryFits' /\ ChainHolds'
      BY <2>1, <2>2, KeptTyped DEF Threads, NoRun
    <2>5. ControlFits' /\ RunnerWaits' /\ ReplayWaits' /\ QueueFits'
      BY <2>1, <2>2, <2>3
         DEF ControlFits, RunnerWaits, ReplayWaits, QueueFits, IInv, From, Waits, NoRun
    <2>6. DotHolds'
      BY <2>1, <2>2, <2>3
         DEF DotHolds, IInv, ControlFits, From, Waits, Kept, RunsAsBefore, SameRun
    <2> QED BY <2>4, <2>5, <2>6 DEF IInv
  <1>5. CASE OtherKey
    <2>1. Kept /\ Live' = Live
      BY <1>5, QuietKeeps DEF OtherKey, registry, record
    <2>2. /\ pc = "key" /\ (tui /\ replaying = NoRun => pc' = "drain")
          /\ (~(tui /\ replaying = NoRun) => pc' = "waiting")
          /\ (mode' \subseteq mode \/ mode' \subseteq {"record"}) /\ waited' = waited
          /\ mark' = mark /\ dot' = dot /\ queue' = queue /\ replaying' = replaying
          /\ stopped' = stopped /\ should_quit' = should_quit /\ tui' = tui /\ wake' = wake
          /\ UNCHANGED layout
      BY <1>5 DEF OtherKey, AfterKey, macro, layout, record, registry
    <2>3. /\ Live' \subseteq Live /\ next' = next
          /\ \A i \in Live' : runs'[i].foreground = runs[i].foreground
          /\ \A i \in Live : i < next /\ i # NoRun /\ i \in Nat
          /\ (Live = Background => Live' = Background') /\ (Live = {} => Live = Background)
          /\ next \in Nat /\ next # 0 /\ mark \in Nat /\ replaying \in Nat /\ waited \in Nat
      BY <2>1, KeptRuns
    <2>4. Typed' /\ RunsKeepTargets' /\ RegistryFits' /\ ChainHolds'
      BY <2>1, <2>2, KeptTyped DEF Threads, NoRun
    <2>5. ControlFits' /\ RunnerWaits' /\ ReplayWaits' /\ QueueFits'
      BY <2>1, <2>2, <2>3
         DEF ControlFits, RunnerWaits, ReplayWaits, QueueFits, IInv, From, Waits, NoRun
    <2>6. DotHolds'
      BY <2>1, <2>2, <2>3
         DEF DotHolds, IInv, ControlFits, From, Waits, Kept, RunsAsBefore, SameRun
    <2> QED BY <2>4, <2>5, <2>6 DEF IInv
  <1>6. CASE StopKey
    <2>1. /\ Kept /\ RunsKeepTargets' /\ wake' \in BOOLEAN
          /\ open_buffers' \subseteq open_buffers /\ open_panes' \subseteq open_panes
      <3>1. ~dot
        BY <1>6, NothingTakenOut DEF StopKey, Waits
      <3>2. \E force \in BOOLEAN : Stops(force)
        BY <1>6 DEF StopKey, Stops
      <3> QED BY <3>1, <3>2, StopsKeep
    <2>2. /\ pc = "key" /\ (tui /\ replaying = NoRun => pc' = "drain")
          /\ (~(tui /\ replaying = NoRun) => pc' = "waiting") /\ waited' = waited
          /\ mark' = mark /\ dot' = dot /\ queue' = queue /\ replaying' = replaying
          /\ stopped' = stopped /\ should_quit' = should_quit /\ tui' = tui /\ mode' = mode
      BY <1>6 DEF StopKey, AfterKey, macro, layout, record, registry
    <2>3. /\ Live' \subseteq Live /\ next' = next
          /\ \A i \in Live' : runs'[i].foreground = runs[i].foreground
          /\ \A i \in Live : i < next /\ i # NoRun /\ i \in Nat
          /\ (Live = Background => Live' = Background') /\ (Live = {} => Live = Background)
          /\ next \in Nat /\ next # 0 /\ mark \in Nat /\ replaying \in Nat /\ waited \in Nat
      BY <2>1, KeptRuns
    <2>4. Typed' /\ RunsKeepTargets' /\ RegistryFits' /\ ChainHolds'
      BY <2>1, <2>2, KeptTyped DEF Threads, NoRun
    <2>5. ControlFits' /\ RunnerWaits' /\ ReplayWaits' /\ QueueFits'
      BY <2>1, <2>2, <2>3
         DEF ControlFits, RunnerWaits, ReplayWaits, QueueFits, IInv, From, Waits, NoRun
    <2>6. DotHolds'
      BY <2>1, <2>2, <2>3
         DEF DotHolds, IInv, ControlFits, From, Waits, Kept, RunsAsBefore, SameRun
    <2> QED BY <2>4, <2>5, <2>6 DEF IInv
  <1>7. CASE QuitKey
    <2>1. Kept /\ Live' = Live
      BY <1>7, QuietKeeps DEF QuitKey, registry, record
    <2>2. /\ pc = "key" /\ (tui /\ replaying = NoRun => pc' = "drain")
          /\ (~(tui /\ replaying = NoRun) => pc' = "waiting") /\ should_quit' = TRUE
          /\ waited' = waited /\ mark' = mark /\ dot' = dot /\ queue' = queue
          /\ replaying' = replaying /\ stopped' = stopped /\ tui' = tui /\ mode' = mode
          /\ wake' = wake /\ UNCHANGED layout
      BY <1>7 DEF QuitKey, AfterKey, macro, layout, record, registry
    <2>3. /\ Live' \subseteq Live /\ next' = next
          /\ \A i \in Live' : runs'[i].foreground = runs[i].foreground
          /\ \A i \in Live : i < next /\ i # NoRun /\ i \in Nat
          /\ (Live = Background => Live' = Background') /\ (Live = {} => Live = Background)
          /\ next \in Nat /\ next # 0 /\ mark \in Nat /\ replaying \in Nat /\ waited \in Nat
      BY <2>1, KeptRuns
    <2>4. Typed' /\ RunsKeepTargets' /\ RegistryFits' /\ ChainHolds'
      BY <2>1, <2>2, KeptTyped DEF Threads, NoRun
    <2>5. ControlFits' /\ RunnerWaits' /\ ReplayWaits' /\ QueueFits'
      BY <2>1, <2>2, <2>3
         DEF ControlFits, RunnerWaits, ReplayWaits, QueueFits, IInv, From, Waits, NoRun
    <2>6. DotHolds'
      BY <2>1, <2>2, <2>3
         DEF DotHolds, IInv, ControlFits, From, Waits, Kept, RunsAsBefore, SameRun
    <2> QED BY <2>4, <2>5, <2>6 DEF IInv
  <1>8. CASE MacroKey
    <2>1. Kept /\ Live' = Live
      BY <1>8, QuietKeeps DEF MacroKey, registry, record
    <2>2. /\ pc = "key" /\ replaying = NoRun /\ (tui /\ replaying = NoRun => pc' = "drain")
          /\ (~(tui /\ replaying = NoRun) => pc' = "waiting") /\ queue' \in 1..MaxKeys
          /\ waited' = waited /\ mark' = mark /\ dot' = dot /\ replaying' = replaying
          /\ stopped' = stopped /\ should_quit' = should_quit /\ tui' = tui /\ mode' = mode
          /\ wake' = wake /\ UNCHANGED layout
      BY <1>8 DEF MacroKey, AfterKey, macro, layout, record, registry
    <2>3. /\ Live' \subseteq Live /\ next' = next
          /\ \A i \in Live' : runs'[i].foreground = runs[i].foreground
          /\ \A i \in Live : i < next /\ i # NoRun /\ i \in Nat
          /\ (Live = Background => Live' = Background') /\ (Live = {} => Live = Background)
          /\ next \in Nat /\ next # 0 /\ mark \in Nat /\ replaying \in Nat /\ waited \in Nat
      BY <2>1, KeptRuns
    <2>4. Typed' /\ RunsKeepTargets' /\ RegistryFits' /\ ChainHolds'
      BY <2>1, <2>2, KeptTyped DEF Threads, NoRun
    <2>5. ControlFits' /\ RunnerWaits' /\ ReplayWaits' /\ QueueFits'
      BY <2>1, <2>2, <2>3
         DEF ControlFits, RunnerWaits, ReplayWaits, QueueFits, IInv, From, Waits, NoRun
    <2>6. DotHolds'
      BY <2>1, <2>2, <2>3
         DEF DotHolds, IInv, ControlFits, From, Waits, Kept, RunsAsBefore, SameRun
    <2> QED BY <2>4, <2>5, <2>6 DEF IInv
  <1> QED BY <1>1, <1>2, <1>3, <1>4, <1>5, <1>6, <1>7, <1>8

\* What `.` has out is one change, while its run does not decide it.
LEMMA DotTakesOne ==
  ASSUME IInv, \A i \in Live : runs[i].settles # Head(recording)
  PROVE  dot => \A i \in Live : runs[i].settles \notin ToSet(recording)
  <1> SUFFICES ASSUME dot PROVE \A i \in Live : runs[i].settles \notin ToSet(recording)
    OBVIOUS
  <1>1. recording \in Seq(ChangeId) /\ recording # << >> /\ ChainHolds
    BY DEF IInv, Typed, DotHolds
  <1>2. DOMAIN recording = 1..Len(recording) /\ Len(recording) \in Nat /\ 1 \in DOMAIN recording
    BY <1>1
  <1>3. \A n \in DOMAIN recording : recording[n] \in Nat
    <2>1. \A n \in DOMAIN recording : recording[n] \in ChangeId
      BY <1>1, ElementOfSeq
    <2> QED BY <2>1, PipeRunsAssumption DEF ChangeId
  <1>4. Head(recording) = recording[1] /\ recording[1] \in ToSet(recording) \ Awaited
    BY <1>1, <1>2 DEF ToSet, Awaited
  <1>5. \A n \in DOMAIN recording : n = 1
    <2> SUFFICES ASSUME NEW n \in DOMAIN recording, n # 1 PROVE FALSE
      OBVIOUS
    <2>1. recording[1] > recording[n]
      BY <1>1, <1>2 DEF ChainHolds, Falling
    <2>2. recording[1] <= recording[n]
      BY <1>1, <1>4 DEF ChainHolds, ToSet
    <2> QED BY <1>2, <1>3, <2>1, <2>2
  <1>6. \A e \in ToSet(recording) : e = recording[1]
    BY <1>5 DEF ToSet
  <1> QED BY <1>4, <1>6 DEF Awaited

\* Replays.
LEMMA ReplayStep ==
  ASSUME IInv, ReplayKey \/ EndReplay \/ DotKey \/ DotPipe \/ DotStops \/ DotDone
  PROVE  IInv'
  <1>1. CASE ReplayKey
    <2>1. Kept /\ Live' = Live
      BY <1>1, QuietKeeps DEF ReplayKey, registry, record
    <2>2. queue' \in 0..MaxKeys
      BY <1>1, PipeRunsAssumption DEF ReplayKey, IInv, Typed
    <2>3. /\ pc = "drain" /\ queue > 0 /\ ~should_quit /\ pc' = "key" /\ mark' = next
          /\ queue' \in 0..MaxKeys /\ (replaying = NoRun => replaying' = next)
          /\ (replaying # NoRun => replaying' = replaying) /\ waited' = waited /\ dot' = dot
          /\ stopped' = stopped /\ should_quit' = should_quit /\ tui' = tui /\ mode' = mode
          /\ wake' = wake /\ UNCHANGED layout
      BY <1>1, <2>2 DEF ReplayKey, macro, layout, record, registry
    <2>4. /\ Live' \subseteq Live /\ next' = next
          /\ \A i \in Live' : runs'[i].foreground = runs[i].foreground
          /\ \A i \in Live : i < next /\ i # NoRun /\ i \in Nat
          /\ (Live = Background => Live' = Background') /\ (Live = {} => Live = Background)
          /\ next \in Nat /\ next # 0 /\ mark \in Nat /\ replaying \in Nat /\ waited \in Nat
      BY <2>1, KeptRuns
    <2>5. Typed' /\ RunsKeepTargets' /\ RegistryFits' /\ ChainHolds'
      BY <2>1, <2>3, KeptTyped DEF Threads, NoRun, Background
    <2>6. ControlFits' /\ RunnerWaits' /\ ReplayWaits' /\ QueueFits'
      BY <2>1, <2>3, <2>4
         DEF ControlFits, RunnerWaits, ReplayWaits, QueueFits, IInv, From, Waits, NoRun, Background
    <2>7. DotHolds'
      BY <2>1, <2>3, <2>4
         DEF DotHolds, IInv, ControlFits, From, Waits, Kept, RunsAsBefore, SameRun
    <2> QED BY <2>5, <2>6, <2>7 DEF IInv
  <1>2. CASE EndReplay
    <2>1. Kept /\ Live' = Live
      BY <1>2, QuietKeeps DEF EndReplay, registry, record
    <2>2. /\ pc = "drain" /\ (queue = 0 \/ should_quit) /\ pc' = "settle"
          /\ replaying' = NoRun /\ stopped' = FALSE /\ waited' = waited /\ mark' = mark
          /\ dot' = dot /\ queue' = queue /\ should_quit' = should_quit /\ tui' = tui
          /\ mode' = mode /\ wake' = wake /\ UNCHANGED layout
      BY <1>2 DEF EndReplay, macro, layout, record, registry
    <2>3. /\ Live' \subseteq Live /\ next' = next
          /\ \A i \in Live' : runs'[i].foreground = runs[i].foreground
          /\ \A i \in Live : i < next /\ i # NoRun /\ i \in Nat
          /\ (Live = Background => Live' = Background') /\ (Live = {} => Live = Background)
          /\ next \in Nat /\ next # 0 /\ mark \in Nat /\ replaying \in Nat /\ waited \in Nat
      BY <2>1, KeptRuns
    <2>4. Typed' /\ RunsKeepTargets' /\ RegistryFits' /\ ChainHolds'
      BY <2>1, <2>2, KeptTyped DEF Threads, NoRun
    <2>5. ControlFits' /\ RunnerWaits' /\ ReplayWaits' /\ QueueFits'
      BY <2>1, <2>2, <2>3
         DEF ControlFits, RunnerWaits, ReplayWaits, QueueFits, IInv, From, Waits, NoRun
    <2>6. DotHolds'
      BY <2>1, <2>2, <2>3
         DEF DotHolds, IInv, ControlFits, From, Waits, Kept, RunsAsBefore, SameRun
    <2> QED BY <2>4, <2>5, <2>6 DEF IInv
  <1>3. CASE DotKey
    <2>1. Kept /\ Live' = Live
      BY <1>3, QuietKeeps DEF DotKey, registry, record
    <2>2. /\ pc = "key" /\ recording # << >> /\ recording' = recording /\ pc' = "dot"
          /\ dot' = TRUE /\ waited' = waited /\ mark' = mark /\ queue' = queue
          /\ replaying' = replaying /\ stopped' = stopped /\ should_quit' = should_quit
          /\ tui' = tui /\ mode' = mode /\ wake' = wake /\ UNCHANGED layout
      BY <1>3 DEF DotKey, macro, layout, record, registry
    <2>3. /\ Live' \subseteq Live /\ next' = next
          /\ \A i \in Live' : runs'[i].foreground = runs[i].foreground
          /\ \A i \in Live : i < next /\ i # NoRun /\ i \in Nat
          /\ (Live = Background => Live' = Background') /\ (Live = {} => Live = Background)
          /\ next \in Nat /\ next # 0 /\ mark \in Nat /\ replaying \in Nat /\ waited \in Nat
      BY <2>1, KeptRuns
    <2>4. Typed' /\ RunsKeepTargets' /\ RegistryFits' /\ ChainHolds'
      BY <2>1, <2>2, KeptTyped DEF Threads, NoRun
    <2>5. ControlFits' /\ RunnerWaits' /\ ReplayWaits' /\ QueueFits'
      BY <2>1, <2>2, <2>3
         DEF ControlFits, RunnerWaits, ReplayWaits, QueueFits, IInv, From, Waits, NoRun
    <2>6. DotHolds'
      BY <2>1, <2>2, <2>3
         DEF DotHolds, IInv, ControlFits, From, Waits, Kept, RunsAsBefore, SameRun
    <2> QED BY <2>4, <2>5, <2>6 DEF IInv
  <1>4. CASE DotPipe
    <2>1. PICK b \in BufferId, p \in PaneId, c \in {NoChange} \cup ChangeId, foreground \in BOOLEAN :
            /\ StartRun(b, p, c, foreground)
            /\ c = NoChange
      BY <1>4 DEF DotPipe
    <2>2. /\ RegistryFits' /\ Live' = Live \cup {next} /\ next \notin Live
          /\ next' = next + 1 /\ next \in RunId
          /\ \A i \in Live : runs'[i] = runs[i]
          /\ runs'[next].buffer = b /\ runs'[next].pane = p
          /\ runs'[next].settles = c
          /\ b \in open_buffers /\ p \in open_panes
      BY <2>1, Starts DEF IInv
    <2>3. \A i \in Live : /\ runs'[i].settles = runs[i].settles
                         /\ runs'[i].foreground = runs[i].foreground
      BY <2>2
    <2>4. /\ pc = "dot" /\ pc' = "waiting" /\ UNCHANGED record /\ waited' = waited /\ mark' = mark /\ dot' = dot
          /\ queue' = queue /\ replaying' = replaying /\ stopped' = stopped
          /\ should_quit' = should_quit /\ tui' = tui /\ mode' = mode /\ wake' = wake /\ UNCHANGED layout
      BY <1>4 DEF DotPipe, macro
    <2>5. /\ \A i \in Live : i \in Nat /\ i < next
          /\ next \in Nat /\ next # 0 /\ mark \in Nat /\ replaying \in Nat
          /\ next \in 1..MaxRuns /\ MaxRuns \in Nat
      BY <2>2, LiveIsFinite, PipeRunsAssumption DEF IInv, Typed, RunId
    <2>6. ChainHolds' /\ recording' \in Seq(ChangeId) /\ kept' \subseteq ChangeId
          /\ changes' \in 0..MaxChanges
      <3>1. ChainHolds'
        BY <2>1, <2>2, <2>3, <2>4, SettlesNothing DEF IInv
      <3> QED BY <2>4, <3>1 DEF IInv, Typed, record
    <2>7. Typed'
      <3>1. Live' \subseteq RunId /\ (\A i \in Live' : i < next') /\ next' \in 1..(MaxRuns + 1)
        BY <2>2, <2>5 DEF IInv, Typed
      <3> QED BY <2>4, <2>6, <3>1 DEF IInv, Typed, layout
    <2>8. RunsKeepTargets'
      BY <2>2, <2>4 DEF IInv, RunsKeepTargets, layout
    <2>9. ControlFits' /\ RunnerWaits'
      BY <2>2, <2>4, <2>5 DEF IInv, ControlFits, RunnerWaits, From, Waits, NoRun
    <2>10. ReplayWaits'
      BY <2>2, <2>3, <2>4, <2>5 DEF IInv, ControlFits, ReplayWaits, From, Waits, NoRun
    <2>11. QueueFits'
      BY <2>2, <2>4 DEF IInv, QueueFits
    <2>12. DotHolds'
      BY <2>1, <2>2, <2>3, <2>4 DEF DotHolds, IInv, From, record
    <2> QED BY <2>2, <2>6, <2>7, <2>8, <2>9, <2>10, <2>11, <2>12 DEF IInv
  <1>5. CASE DotStops
    <2>1. UNCHANGED <<mode, control, macro, should_quit, tui>> /\ pc # "ended"
      BY <1>5 DEF DotStops
    <2>2. Stops(FALSE)
      BY <1>5 DEF DotStops, ScriptStops, Stops
    <2>3. dot => \A i \in Live : runs[i].settles \notin ToSet(recording)
      BY <1>5, DotTakesOne DEF DotStops
    <2>4. /\ Kept /\ RunsKeepTargets' /\ wake' \in BOOLEAN
          /\ open_buffers' \subseteq open_buffers /\ open_panes' \subseteq open_panes
      BY <2>2, <2>3, StopsKeep
    <2> QED BY <2>1, <2>4, ControlStays DEF IInv, Typed
  <1>6. CASE DotDone
    <2>1. Kept /\ Live' = Live
      BY <1>6, QuietKeeps DEF DotDone, registry, record
    <2>2. /\ pc = "dot" /\ dot' = FALSE /\ (tui /\ replaying = NoRun => pc' = "drain")
          /\ (~(tui /\ replaying = NoRun) => pc' = "waiting") /\ waited' = waited
          /\ mark' = mark /\ queue' = queue /\ replaying' = replaying /\ stopped' = stopped
          /\ should_quit' = should_quit /\ tui' = tui /\ mode' = mode /\ wake' = wake
          /\ UNCHANGED layout
      BY <1>6 DEF DotDone, AfterKey, macro, layout, record, registry
    <2>3. /\ Live' \subseteq Live /\ next' = next
          /\ \A i \in Live' : runs'[i].foreground = runs[i].foreground
          /\ \A i \in Live : i < next /\ i # NoRun /\ i \in Nat
          /\ (Live = Background => Live' = Background') /\ (Live = {} => Live = Background)
          /\ next \in Nat /\ next # 0 /\ mark \in Nat /\ replaying \in Nat /\ waited \in Nat
      BY <2>1, KeptRuns
    <2>4. Typed' /\ RunsKeepTargets' /\ RegistryFits' /\ ChainHolds'
      BY <2>1, <2>2, KeptTyped DEF Threads, NoRun
    <2>5. ControlFits' /\ RunnerWaits' /\ ReplayWaits' /\ QueueFits'
      BY <2>1, <2>2, <2>3
         DEF ControlFits, RunnerWaits, ReplayWaits, QueueFits, IInv, From, Waits, NoRun
    <2>6. DotHolds'
      BY <2>1, <2>2, <2>3
         DEF DotHolds, IInv, ControlFits, From, Waits, Kept, RunsAsBefore, SameRun
    <2> QED BY <2>4, <2>5, <2>6 DEF IInv
  <1> QED BY <1>1, <1>2, <1>3, <1>4, <1>5, <1>6

\* The rest of the world, and a step that changes nothing.
LEMMA WorldStep ==
  ASSUME IInv, OtherWake \/ Exit \/ (\E i \in RunId : ProcessExits(i)) \/ UNCHANGED vars
  PROVE  IInv'
  <1>1. CASE OtherWake
    <2>1. Kept /\ Live' = Live
      BY <1>1, QuietKeeps DEF OtherWake, registry, record
    <2>2. UNCHANGED <<layout, mode, control, macro, should_quit, tui>> /\ wake' \in BOOLEAN
      BY <1>1 DEF OtherWake
    <2>3. RunsKeepTargets'
      BY <2>1, <2>2, TargetsKept DEF IInv, Kept
    <2> QED BY <2>1, <2>2, <2>3, ControlStays DEF IInv, Typed, layout
  <1>2. CASE Exit
    <2>1. Kept /\ Live' = Live
      BY <1>2, QuietKeeps DEF Exit, registry, record
    <2>2. pc \in {"idle", "settle"} /\ (pc = "settle" => replaying = NoRun)
      BY <1>2 DEF Exit
    <2>3. /\ pc \in {"idle", "settle"} /\ (pc = "settle" => replaying = NoRun)
          /\ pc' = "exited" /\ waited' = waited /\ mark' = mark /\ dot' = dot
          /\ queue' = queue /\ replaying' = replaying /\ stopped' = stopped
          /\ should_quit' = should_quit /\ tui' = tui /\ mode' = mode /\ wake' = wake
          /\ UNCHANGED layout
      BY <1>2, <2>2 DEF Exit, macro, layout, record, registry
    <2>4. /\ Live' \subseteq Live /\ next' = next
          /\ \A i \in Live' : runs'[i].foreground = runs[i].foreground
          /\ \A i \in Live : i < next /\ i # NoRun /\ i \in Nat
          /\ (Live = Background => Live' = Background') /\ (Live = {} => Live = Background)
          /\ next \in Nat /\ next # 0 /\ mark \in Nat /\ replaying \in Nat /\ waited \in Nat
      BY <2>1, KeptRuns
    <2>5. Typed' /\ RunsKeepTargets' /\ RegistryFits' /\ ChainHolds'
      BY <2>1, <2>3, KeptTyped DEF Threads, NoRun
    <2>6. ControlFits' /\ RunnerWaits' /\ ReplayWaits' /\ QueueFits'
      BY <2>1, <2>3, <2>4
         DEF ControlFits, RunnerWaits, ReplayWaits, QueueFits, IInv, From, Waits, NoRun
    <2>7. DotHolds'
      BY <2>1, <2>3, <2>4
         DEF DotHolds, IInv, ControlFits, From, Waits, Kept, RunsAsBefore, SameRun
    <2> QED BY <2>5, <2>6, <2>7 DEF IInv
  <1>3. CASE \E i \in RunId : ProcessExits(i)
    <2>1. Kept /\ Live' = Live
      BY <1>3, ExitKeeps
    <2>2. UNCHANGED <<layout, mode, control, macro, should_quit, tui>> /\ wake' \in BOOLEAN
      BY <1>3 DEF ProcessExits
    <2>3. RunsKeepTargets'
      BY <2>1, <2>2, TargetsKept DEF IInv, Kept
    <2> QED BY <2>1, <2>2, <2>3, ControlStays DEF IInv, Typed, layout
  <1>4. CASE UNCHANGED vars
    <2>1. Kept /\ Live' = Live
      BY <1>4, QuietKeeps DEF vars, registry, record
    <2>2. UNCHANGED <<layout, mode, control, macro, should_quit, tui>> /\ wake' \in BOOLEAN
      BY <1>4 DEF vars, layout, control, macro, registry, record, IInv, Typed
    <2>3. RunsKeepTargets'
      BY <2>1, <2>2, TargetsKept DEF IInv, Kept
    <2> QED BY <2>1, <2>2, <2>3, ControlStays DEF IInv, Typed, layout
  <1> QED BY <1>1, <1>2, <1>3, <1>4

\* The invariant holds at the start.
LEMMA InitHolds ==
  Init => IInv
  <1> SUFFICES ASSUME Init PROVE IInv
    OBVIOUS
  <1>1. Live = {} /\ Background = {} /\ Awaited = {}
    BY DEF Init, Live, Background, Awaited
  <1>2. \A m : From(m) = {}
    BY <1>1 DEF From
  <1>3. Typed
    <2>1. 1 \in 1..(MaxRuns + 1) /\ 0 \in 0..(MaxRuns + 1) /\ 0 \in 0..MaxKeys /\ 0 \in 0..MaxChanges
      BY PipeRunsAssumption
    <2>2. << >> \in Seq(ChangeId)
      OBVIOUS
    <2> QED BY <1>1, <2>1, <2>2 DEF Init, Typed, NoRun
  <1>4. RegistryFits
    <2>1. IsFiniteSet(Live)
      BY <1>1, FS_EmptySet
    <2>2. PICK f : f = [i \in DOMAIN runs |-> Held(runs[i])]
      OBVIOUS
    <2>3. Slots(runs) = SumFunction(f) /\ f = [i \in {} |-> 0]
      BY <1>1, <2>2 DEF Slots, Live
    <2>4. Slots(runs) = 0
      BY <2>3, SumOfEmpty
    <2> QED BY <1>1, <2>1, <2>4, PipeRunsAssumption DEF RegistryFits
  <1>5. ChainHolds
    <2>1. recording = << >> /\ kept = {} /\ DOMAIN recording = {}
      BY DEF Init
    <2>2. ToSet(recording) = {}
      BY <2>1 DEF ToSet
    <2> QED BY <1>1, <2>1, <2>2 DEF ChainHolds, Falling
  <1>6. DotHolds /\ RunsKeepTargets
    BY <1>1 DEF Init, DotHolds, RunsKeepTargets
  <1>7. ControlFits /\ RunnerWaits /\ ReplayWaits /\ QueueFits
    BY <1>1, <1>2 DEF Init, ControlFits, RunnerWaits, ReplayWaits, QueueFits, Waits, NoRun
  <1> QED BY <1>3, <1>4, <1>5, <1>6, <1>7 DEF IInv

\* The invariant is inductive.
LEMMA IInvAlways ==
  Spec => []IInv
  <1>1. IInv /\ [Next]_vars => IInv'
    BY SettleStep, WaitStep, KeyStep, ReplayStep, WorldStep DEF Next, Loop
  <1> QED BY InitHolds, <1>1, PTL DEF Spec

-----------------------------------------------------------------------------
(* The theorems *)

\* However runs are polled, waited for, failed and cancelled, no more
\* processes run than there are slots (PipeRuns::poll).
THEOREM TypeCorrect ==
  Spec => []TypeOK
  <1>1. IInv => TypeOK
    <2> SUFFICES ASSUME IInv PROVE TypeOK
      OBVIOUS
    <2>1. SumFunction([i \in Live |-> runs[i].running]) <= Limit
      <3>1. PICK a : a = [i \in Live |-> runs[i].running]
        OBVIOUS
      <3>2. PICK c : c = [i \in Live |-> Held(runs[i])]
        OBVIOUS
      <3>3. PICK d : d = [i \in {} |-> 0]
        OBVIOUS
      <3>4. \A i \in Live : /\ runs[i].running \in Nat /\ Held(runs[i]) \in Nat
                            /\ runs[i].running <= Held(runs[i])
        <4> SUFFICES ASSUME NEW i \in Live
                     PROVE  /\ runs[i].running \in Nat /\ Held(runs[i]) \in Nat
                            /\ runs[i].running <= Held(runs[i])
          OBVIOUS
        <4>1. runs[i] \in Run
          BY DEF IInv, RegistryFits, Fits
        <4>2. runs[i].running \in Nat /\ runs[i].ok \in Nat /\ runs[i].bad \in Nat
          BY <4>1 DEF Run
        <4> QED BY <4>2 DEF Held
      <3>5. IsFiniteSet(Live) /\ Slots(runs) <= Limit
        BY DEF IInv, RegistryFits
      <3>6. Summable(a, Live, Live) /\ Summable(c, Live, Live) /\ Summable(d, {}, Live)
        BY <3>1, <3>2, <3>3, <3>4 DEF Summable
      <3>7. TermsCompare(Live, a, Live, d, {}, c, Live, d, {})
        <4> SUFFICES ASSUME NEW i \in Live
                     PROVE  Term(a, Live, i) + Term(d, {}, i) <= Term(c, Live, i) + Term(d, {}, i)
          BY DEF TermsCompare
        <4>1. /\ Term(a, Live, i) = runs[i].running /\ Term(c, Live, i) = Held(runs[i])
              /\ Term(d, {}, i) = 0
          BY <3>1, <3>2 DEF Term
        <4> QED BY <3>4, <4>1
      <3>8. SumFunction(a) + SumFunction(d) <= SumFunction(c) + SumFunction(d)
        BY <3>5, <3>6, <3>7, SumsCompare
      <3>9. SumFunction(d) = 0 /\ SumFunction(a) \in Nat /\ SumFunction(c) \in Nat
        BY <3>3, <3>5, <3>6, SumOfEmpty, SumOfNats DEF Summable
      <3>10. Slots(runs) = SumFunction(c)
        BY <3>2 DEF Slots, Live
      <3> QED BY <3>1, <3>5, <3>8, <3>9, <3>10, PipeRunsAssumption
    <2>2. \A i \in Live : runs[i] \in Run
      BY DEF IInv, RegistryFits, Fits
    <2>3. ToSet(recording) \subseteq ChangeId
      BY ElementOfSeq DEF IInv, Typed, ToSet
    <2> QED BY <2>1, <2>2, <2>3 DEF TypeOK, IInv, Typed
  <1> QED BY IInvAlways, <1>1, PTL

\* Where a run's output goes exists as long as the run.
THEOREM RunsKeepTargetsAlways ==
  Spec => []RunsKeepTargets
  <1>1. IInv => RunsKeepTargets
    BY DEF IInv
  <1> QED BY IInvAlways, <1>1, PTL

\* No key is dispatched past a foreground run, a replayed one or one of the key
\* runner sees the output of what came before it, and a replay that was stopped
\* runs no further key (input.rs, EditorState::stop_replays).
THEOREM KeysSeeOutputAlways ==
  Spec => []KeysSeeOutput
  <1>1. IInv => KeysSeeOutput
    <2> SUFFICES ASSUME IInv PROVE KeysSeeOutput
      OBVIOUS
    <2>1. pc = "key" /\ replaying # NoRun => From(replaying) = {} /\ ~stopped
      BY DEF IInv, ReplayWaits, QueueFits, Waits
    <2>2. pc = "dot" => From(mark) = {}
      BY DEF IInv, ControlFits
    <2>3. pc = "key" /\ ~tui => Live = {}
      BY DEF IInv, RunnerWaits, Waits
    <2>4. pc = "key" => Live = Background
      <3>1. CASE replaying = NoRun
        BY <3>1 DEF IInv, QueueFits
      <3>2. CASE replaying # NoRun
        BY <2>1, <3>2 DEF IInv, ReplayWaits, From, Background
      <3> QED BY <3>1, <3>2
    <2> QED BY <2>1, <2>2, <2>3, <2>4 DEF KeysSeeOutput
  <1> QED BY IInvAlways, <1>1, PTL

\* `.` repeats the latest change that was not withdrawn, in whatever order the
\* runs of several changes land, fail and are cancelled (Recording::settle).
THEOREM RepeatsLatestAlways ==
  Spec => []RepeatsLatest
  <1>1. IInv => RepeatsLatest
    BY ChainRepeatsLatest DEF IInv
  <1> QED BY IInvAlways, <1>1, PTL
=============================================================================
