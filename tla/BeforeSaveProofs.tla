-------------------------- MODULE BeforeSaveProofs --------------------------
(***************************************************************************)
(* Writes that wait for handlers, for any buffers, handlers and requests:  *)
(* timers belong to the writes they were armed for, a write goes ahead     *)
(* when its handlers answered, a batch is reported whole, and no work is   *)
(* lost without `!`.                                                       *)
(***************************************************************************)
EXTENDS BeforeSave, CollectionsProofs, SequenceTheorems, TLAPS

-----------------------------------------------------------------------------
(* What stays parked *)

\* At most one write of each buffer.
Distinct(writes) ==
  \A i, j \in DOMAIN writes : writes[i].buffer = writes[j].buffer => i = j

\* What is retained, as a set: the form the invariants need.
LEMMA RetainedWrites ==
  ASSUME NEW S, NEW writes \in Seq(S), Distinct(writes), NEW kept
  PROVE  /\ Retain(writes, kept) \in Seq(S)
         /\ ToSet(Retain(writes, kept)) = ToSet(writes) \cap kept
         /\ Distinct(Retain(writes, kept))
  <1> DEFINE r == Retain(writes, kept)
  <1>1. /\ r \in Seq(S)
        /\ \A i \in DOMAIN r : \E j \in DOMAIN writes : r[i] = writes[j] /\ writes[j] \in kept
        /\ \A j \in DOMAIN writes : writes[j] \in kept => \E i \in DOMAIN r : r[i] = writes[j]
    BY RetainProperties
  <1>2. \A i, j \in DOMAIN writes : writes[i] = writes[j] => i = j
    BY DEF Distinct
  <1>3. \A i, j \in DOMAIN r : r[i] = r[j] => i = j
    BY <1>2, RetainProperties
  <1> HIDE DEF r
  <1>4. ToSet(r) = ToSet(writes) \cap kept
    BY <1>1 DEF ToSet
  <1>5. Distinct(r)
    <2> SUFFICES ASSUME NEW i \in DOMAIN r, NEW j \in DOMAIN r, r[i].buffer = r[j].buffer
                 PROVE  i = j
      BY DEF Distinct
    <2>1. PICK k \in DOMAIN writes : r[i] = writes[k]
      BY <1>1
    <2>2. PICK l \in DOMAIN writes : r[j] = writes[l]
      BY <1>1
    <2>3. k = l
      BY <2>1, <2>2 DEF Distinct
    <2> QED BY <1>3, <2>1, <2>2, <2>3
  <1> QED BY <1>1, <1>4, <1>5 DEF r

\* The writes that remain without those of some buffers.
LEMMA WithoutWrites ==
  ASSUME NEW S, NEW writes \in Seq(S), Distinct(writes), NEW bs
  PROVE  /\ Without(writes, bs) \in Seq(S)
         /\ ToSet(Without(writes, bs)) = {w \in ToSet(writes) : w.buffer \notin bs}
         /\ Distinct(Without(writes, bs))
  <1>1. ToSet(writes) \cap {w \in ToSet(writes) : w.buffer \notin bs}
          = {w \in ToSet(writes) : w.buffer \notin bs}
    OBVIOUS
  <1> QED BY <1>1, RetainedWrites DEF Without

-----------------------------------------------------------------------------
(* The state is well formed *)

AfterIn(n) == {NothingAfter, QuitAfter} \cup {BatchAfter(id) : id \in 1 .. n}

\* A write of one of n batches, with tokens below t.
WriteIn(n, t) ==
  [buffer : BufferId, force : Forces, after : AfterIn(n), raised : BOOLEAN,
   holds : SUBSET (1 .. t - 1), timer : 1 .. t - 1 \cup {NoTimer},
   minted : SUBSET (1 .. t - 1), answered : SUBSET (1 .. t - 1)]

RequestIn(n) == [todo : Seq(BufferId), force : Forces, after : AfterIn(n)]

TextsTyped ==
  /\ open \subseteq BufferId /\ dirty \subseteq BufferId /\ stale \subseteq BufferId
  /\ handlers \in HandlersOf /\ lazy \in BOOLEAN /\ exited \in BOOLEAN

CountersTyped ==
  /\ next_token \in Nat /\ next_token # 0
  /\ requests \in Nat /\ requests <= MaxRequests

BatchesTyped ==
  /\ batches \in Seq(Batch) /\ Len(batches) <= requests
  /\ asking # Idle => asking \in RequestIn(Len(batches))

WritesTyped ==
  /\ parked \in Seq(WriteIn(Len(batches), next_token))
  /\ Distinct(parked)
  /\ \A w \in ToSet(parked) : w.buffer \in open

TimersTyped == timers \subseteq [id : 1 .. next_token - 1, buffer : BufferId]

Typed == TextsTyped /\ CountersTyped /\ BatchesTyped /\ WritesTyped /\ TimersTyped

\* A write stays well formed when batches and tokens are added.
LEMMA WritesGrow ==
  ASSUME NEW n \in Nat, NEW m \in Nat, n <= m, NEW t \in Nat, NEW u \in Nat, t <= u
  PROVE  /\ WriteIn(n, t) \subseteq WriteIn(m, u)
         /\ Seq(WriteIn(n, t)) \subseteq Seq(WriteIn(m, u))
         /\ RequestIn(n) \subseteq RequestIn(m)
  <1>1. AfterIn(n) \subseteq AfterIn(m)
    BY DEF AfterIn
  <1>2. 1 .. t - 1 \subseteq 1 .. u - 1
    OBVIOUS
  <1>3. WriteIn(n, t) \subseteq WriteIn(m, u)
    BY <1>1, <1>2 DEF WriteIn
  <1>4. Seq(WriteIn(n, t)) \subseteq Seq(WriteIn(m, u))
    <2> HIDE DEF WriteIn
    <2> QED BY <1>3, SeqMonotonic
  <1>5. RequestIn(n) \subseteq RequestIn(m)
    BY <1>1 DEF RequestIn
  <1> QED BY <1>3, <1>4, <1>5

\* A write that belongs to a batch belongs to one that exists.
LEMMA BatchOfAfter ==
  ASSUME NEW n \in Nat, NEW after \in AfterIn(n)
  PROVE  /\ after.kind = "batch" => after.id \in 1 .. n /\ after = BatchAfter(after.id)
         /\ after \in {NothingAfter, QuitAfter} => after.kind # "batch"
         /\ after \notin {NothingAfter, QuitAfter} => after.kind = "batch"
  BY DEF AfterIn, NothingAfter, QuitAfter, BatchAfter

\* The parked writes as a set.
LEMMA ParkedWrites ==
  ASSUME Typed
  PROVE  /\ ToSet(parked) \subseteq WriteIn(Len(batches), next_token)
         /\ \A i \in DOMAIN parked : parked[i] \in ToSet(parked)
         /\ \A v, w \in ToSet(parked) : v.buffer = w.buffer => v = w
         /\ ParkedBuffers = {w.buffer : w \in ToSet(parked)}
         /\ \A w \in ToSet(parked) : WriteOf(w.buffer) = w
  <1>1. ToSet(parked) \subseteq WriteIn(Len(batches), next_token)
    <2> HIDE DEF WriteIn
    <2> QED BY ElementOfSeq DEF Typed, WritesTyped, ToSet
  <1>2. \A i \in DOMAIN parked : parked[i] \in ToSet(parked)
    BY DEF ToSet
  <1>3. \A v, w \in ToSet(parked) : v.buffer = w.buffer => v = w
    BY DEF Typed, WritesTyped, Distinct, ToSet
  <1>4. ParkedBuffers = {w.buffer : w \in ToSet(parked)}
    BY DEF ParkedBuffers, ToSet
  <1>5. ASSUME NEW w \in ToSet(parked) PROVE WriteOf(w.buffer) = w
    <2>1. PICK i \in DOMAIN parked : parked[i] = w
      BY DEF ToSet
    <2>2. (CHOOSE j \in DOMAIN parked : parked[j].buffer = w.buffer) = i
      BY <2>1 DEF Typed, WritesTyped, Distinct
    <2> QED BY <2>1, <2>2 DEF WriteOf
  <1> QED BY <1>1, <1>2, <1>3, <1>4, <1>5

-----------------------------------------------------------------------------
(* What a write leaves of the parked writes, their timers and batches *)

Counted(id) == UNION {batches[id].outcomes[o] : o \in BatchOutcome}

\* Batches only collect: outcomes, and their end.
BatchesCollect ==
  /\ batches' \in Seq(Batch) /\ Len(batches') = Len(batches)
  /\ \A id \in 1 .. Len(batches) :
       /\ batches'[id].members = batches[id].members
       /\ batches'[id].reported = batches[id].reported
       /\ batches[id].ended => batches'[id].ended
       /\ Counted(id) \subseteq Counted(id)'

\* Some of the parked writes end, and the timers `gone` with them: a write that
\* ends takes its timer along unless its buffer closes, or ends its batch.
WritesGone(gone) ==
  /\ open' \subseteq open
  /\ parked' \in Seq(WriteIn(Len(batches), next_token))
  /\ Distinct(parked')
  /\ ToSet(parked') \subseteq ToSet(parked)
  /\ \A w \in ToSet(parked') : w.buffer \in open'
  /\ timers' = Disarm(gone)
  /\ \A w \in ToSet(parked) \ ToSet(parked') : w.buffer \in open' => w.timer \in gone
  /\ \A w \in ToSet(parked') : w.holds # {} => w.timer \notin gone

\* Batches whose writes ended are over, unless the writes were counted.
CountedOrEnded(b, after) ==
  /\ after.kind = "batch" =>
       batches'[after.id].ended \/ b \in Counted(after.id)'
  /\ \A w \in ToSet(parked) \ ToSet(parked') :
       \/ w.buffer \notin open'
       \/ w.buffer = b /\ w.after = after
       \/ \A id \in 1 .. Len(batches) : InBatch(w, id) => batches'[id].ended

\* Every timer is of one write, which it is armed for while handlers hold it.
TimersAreOwn ==
  /\ \A t, u \in timers : t.id = u.id => t = u
  /\ \A v, w \in ToSet(parked) : v.timer = w.timer => v = w \/ v.timer = NoTimer
  /\ \A w \in ToSet(parked) : ~w.raised =>
       w.timer = NoTimer /\ w.holds = {} /\ w.minted = {}
  /\ \A w \in ToSet(parked) : w.holds # {} =>
       [id |-> w.timer, buffer |-> w.buffer] \in timers
  /\ \A t \in timers : t.buffer \in open =>
       \E w \in ToSet(parked) : w.buffer = t.buffer /\ w.timer = t.id

\* No timer is the absence of one.
LEMMA TimersAreTokens ==
  ASSUME Typed
  PROVE  \A t \in timers : t.id # NoTimer /\ t.id \in Nat
  BY BeforeSaveAssumption DEF Typed, TimersTyped, CountersTyped, BeforeSaveAssumption

\* The end of writes keeps timers with the others.
LEMMA GoneKeepsTimers ==
  ASSUME Typed, TimersAreOwn, NEW gone, WritesGone(gone)
  PROVE  TimersAreOwn'
  <1>1. timers' = {t \in timers : t.id \notin gone}
    BY DEF WritesGone, Disarm
  <1>2. \A t, u \in timers' : t.id = u.id => t = u
    BY <1>1 DEF TimersAreOwn
  <1>3. /\ \A v, w \in ToSet(parked') : v.timer = w.timer => v = w \/ v.timer = NoTimer
        /\ \A w \in ToSet(parked') : ~w.raised =>
             w.timer = NoTimer /\ w.holds = {} /\ w.minted = {}
    BY DEF WritesGone, TimersAreOwn
  <1>4. \A w \in ToSet(parked') : w.holds # {} =>
          [id |-> w.timer, buffer |-> w.buffer] \in timers'
    BY <1>1 DEF WritesGone, TimersAreOwn
  <1>5. ASSUME NEW t \in timers', t.buffer \in open'
        PROVE  \E w \in ToSet(parked') : w.buffer = t.buffer /\ w.timer = t.id
    <2>1. t \in timers /\ t.id \notin gone /\ t.buffer \in open
      BY <1>1, <1>5 DEF WritesGone
    <2>2. PICK w \in ToSet(parked) : w.buffer = t.buffer /\ w.timer = t.id
      BY <2>1 DEF TimersAreOwn
    <2>3. w \in ToSet(parked')
      BY <1>5, <2>1, <2>2 DEF WritesGone
    <2> QED BY <2>2, <2>3
  <1> QED BY <1>2, <1>3, <1>4, <1>5 DEF TimersAreOwn

\* Closing buffers ends their writes.
LEMMA ClosingEndsWrites ==
  ASSUME Typed, NEW bs, Closing(bs, parked), UNCHANGED timers
  PROVE  WritesGone({}) /\ \A w \in ToSet(parked) \ ToSet(parked') : w.buffer \notin open'
  <1>1. parked \in Seq(WriteIn(Len(batches), next_token)) /\ Distinct(parked)
        /\ \A w \in ToSet(parked) : w.buffer \in open
    BY DEF Typed, WritesTyped
  <1>2. open' = open \ bs /\ parked' = Without(parked, bs)
    BY DEF Closing
  <1>3. /\ parked' \in Seq(WriteIn(Len(batches), next_token)) /\ Distinct(parked')
        /\ ToSet(parked') = {w \in ToSet(parked) : w.buffer \notin bs}
    <2> HIDE DEF WriteIn
    <2> QED BY <1>1, <1>2, WithoutWrites
  <1>4. timers' = Disarm({})
    BY DEF Disarm
  <1> QED BY <1>1, <1>2, <1>3, <1>4 DEF WritesGone

\* The outcome of a write of a batch: it ends the batch or is counted in it.
LEMMA RecordCollects ==
  ASSUME Typed, NEW id \in 1 .. Len(batches), NEW b \in BufferId,
         NEW outcome \in {"failed", "stale", "written"}, NEW writes, NEW disarmed,
         RecordInBatch(id, b, outcome, writes, disarmed)
  PROVE  /\ BatchesCollect
         /\ batches'[id].ended \/ b \in Counted(id)'
         /\ outcome = "failed" => batches'[id].ended
  <1>1. batches \in Seq(Batch) /\ DOMAIN batches = 1 .. Len(batches)
    BY DEF Typed, BatchesTyped
  <1>2. \A i \in 1 .. Len(batches) : batches[i] \in Batch
    BY <1>1
  <1>3. CASE outcome = "failed"
    <2> DEFINE r == [batches[id] EXCEPT !.ended = TRUE]
    <2>1. batches' = [batches EXCEPT ![id] = r]
      BY <1>3 DEF RecordInBatch
    <2>2. /\ r \in Batch /\ r.ended /\ r.members = batches[id].members
          /\ r.reported = batches[id].reported /\ r.outcomes = batches[id].outcomes
      BY <1>2 DEF Batch
    <2> HIDE DEF r
    <2>3. /\ batches' \in Seq(Batch) /\ Len(batches') = Len(batches)
          /\ batches'[id] = r /\ \A i \in 1 .. Len(batches) : i # id => batches'[i] = batches[i]
      BY <1>1, <2>1, <2>2, ExceptSeq
    <2>4. \A i \in 1 .. Len(batches) : Counted(i)' = Counted(i)
      BY <2>2, <2>3 DEF Counted
    <2> QED BY <2>2, <2>3, <2>4 DEF BatchesCollect
  <1>4. CASE outcome # "failed"
    <2> DEFINE r == [batches[id] EXCEPT !.outcomes[outcome] = @ \cup {b}]
    <2>1. batches' = [batches EXCEPT ![id] = r] /\ outcome \in BatchOutcome
      BY <1>4 DEF RecordInBatch, BatchOutcome
    <2>2. /\ r \in Batch /\ r.members = batches[id].members
          /\ r.reported = batches[id].reported /\ r.ended = batches[id].ended
          /\ r.outcomes[outcome] = batches[id].outcomes[outcome] \cup {b}
          /\ \A o \in BatchOutcome : batches[id].outcomes[o] \subseteq r.outcomes[o]
      BY <1>2, <2>1 DEF Batch
    <2> HIDE DEF r
    <2>3. /\ batches' \in Seq(Batch) /\ Len(batches') = Len(batches)
          /\ batches'[id] = r /\ \A i \in 1 .. Len(batches) : i # id => batches'[i] = batches[i]
      BY <1>1, <2>1, <2>2, ExceptSeq
    <2>4. \A i \in 1 .. Len(batches) : Counted(i) \subseteq Counted(i)'
      <3>1. Counted(id) \subseteq Counted(id)'
        BY <2>2, <2>3 DEF Counted
      <3>2. \A i \in 1 .. Len(batches) : i # id => Counted(i)' = Counted(i)
        BY <2>3 DEF Counted
      <3> QED BY <3>1, <3>2
    <2>5. b \in Counted(id)'
      BY <2>1, <2>2, <2>3 DEF Counted
    <2> QED BY <1>4, <2>2, <2>3, <2>4, <2>5 DEF BatchesCollect
  <1> QED BY <1>3, <1>4

\* write_and_continue ends the write of b, with it the others of a batch that
\* failed, and takes their timers along.
LEMMA WriteConcludes ==
  ASSUME Typed, TimersAreOwn, NEW b \in BufferId, NEW force \in BOOLEAN,
         NEW after \in AfterIn(Len(batches)), NEW writes, NEW disarmed,
         WriteAndContinue(b, force, after, writes, disarmed),
         writes \in Seq(WriteIn(Len(batches), next_token)), Distinct(writes),
         ToSet(writes) \subseteq ToSet(parked),
         \A w \in ToSet(parked) \ ToSet(writes) :
           w.buffer = b /\ w.after = after /\ w.timer = disarmed,
         \A w \in ToSet(writes) : w.holds # {} => w.timer # disarmed
  PROVE  (\E gone : WritesGone(gone)) /\ BatchesCollect /\ CountedOrEnded(b, after)
  <1>0. \A w \in ToSet(parked) : w.buffer \in open
    BY DEF Typed, WritesTyped
  <1>1. batches \in Seq(Batch) /\ Len(batches) \in Nat
    BY DEF Typed, BatchesTyped
  <1>2. after.kind = "batch" => after.id \in 1 .. Len(batches)
    BY <1>1, BatchOfAfter
  <1>3. NothingAfter.kind # "batch" /\ QuitAfter.kind # "batch"
    BY DEF NothingAfter, QuitAfter
  <1>4. ASSUME UNCHANGED batches PROVE BatchesCollect
    BY <1>1, <1>4 DEF BatchesCollect, Counted
  <1>5. ASSUME open' = open, parked' = writes, timers' = Disarm({disarmed})
        PROVE  /\ WritesGone({disarmed})
               /\ \A w \in ToSet(parked) \ ToSet(parked') : w.buffer = b /\ w.after = after
    <2> HIDE DEF WriteIn
    <2> QED BY <1>0, <1>5 DEF WritesGone
  <1>6. CASE after.kind # "batch" /\ open' = open /\ parked' = writes
             /\ timers' = Disarm({disarmed}) /\ UNCHANGED batches
    BY <1>4, <1>5, <1>6 DEF CountedOrEnded
  <1>7. CASE after.kind # "batch" /\ Closing({b}, writes)
             /\ timers' = Disarm({disarmed}) /\ UNCHANGED batches
    <2>1. open' = open \ {b} /\ parked' = Without(writes, {b})
      BY <1>7 DEF Closing
    <2>2. /\ parked' \in Seq(WriteIn(Len(batches), next_token)) /\ Distinct(parked')
          /\ ToSet(parked') = {w \in ToSet(writes) : w.buffer \notin {b}}
      <3> HIDE DEF WriteIn
      <3> QED BY <2>1, WithoutWrites
    <2>3. \A w \in ToSet(parked) \ ToSet(parked') : w.buffer = b
      BY <2>2
    <2>4. WritesGone({disarmed})
      <3> HIDE DEF WriteIn
      <3> QED BY <1>0, <1>7, <2>1, <2>2, <2>3 DEF WritesGone
    <2> QED BY <1>4, <1>7, <2>1, <2>3, <2>4 DEF CountedOrEnded
  <1>8. ASSUME after.kind = "batch", NEW outcome \in {"failed", "stale", "written"},
               open' = open, RecordInBatch(after.id, b, outcome, writes, disarmed)
        PROVE  (\E gone : WritesGone(gone)) /\ BatchesCollect /\ CountedOrEnded(b, after)
    <2> DEFINE id == after.id
    <2>1. /\ BatchesCollect
          /\ batches'[id].ended \/ b \in Counted(id)'
          /\ outcome = "failed" => batches'[id].ended
      BY <1>2, <1>8, RecordCollects
    <2>2. CASE outcome # "failed"
      <3>1. parked' = writes /\ timers' = Disarm({disarmed})
        BY <1>8, <2>2 DEF RecordInBatch
      <3> QED BY <1>5, <1>8, <2>1, <3>1 DEF CountedOrEnded
    <2>3. CASE outcome = "failed"
      <3> DEFINE gone == {disarmed} \cup BatchTimers(writes, id)
      <3>1. /\ parked' = Retain(writes, {w \in ToSet(writes) : ~InBatch(w, id)})
            /\ timers' = Disarm(gone)
        BY <1>8, <2>3 DEF RecordInBatch
      <3>2. /\ parked' \in Seq(WriteIn(Len(batches), next_token)) /\ Distinct(parked')
            /\ ToSet(parked') = {w \in ToSet(writes) : ~InBatch(w, id)}
        <4> HIDE DEF WriteIn
        <4>1. ToSet(writes) \cap {w \in ToSet(writes) : ~InBatch(w, id)}
                = {w \in ToSet(writes) : ~InBatch(w, id)}
          OBVIOUS
        <4> QED BY <3>1, <4>1, RetainedWrites
      <3>3. \A w \in ToSet(writes) : InBatch(w, id) => w.timer \in gone
        BY DEF BatchTimers
      <3>4. ASSUME NEW w \in ToSet(parked'), w.holds # {} PROVE w.timer \notin gone
        <4>1. w \in ToSet(writes) /\ ~InBatch(w, id) /\ w.timer # disarmed
          BY <3>2, <3>4
        <4>2. w.timer # NoTimer
          <5>1. [id |-> w.timer, buffer |-> w.buffer] \in timers
            BY <3>4, <4>1 DEF TimersAreOwn
          <5>2. [id |-> w.timer, buffer |-> w.buffer].id = w.timer
            OBVIOUS
          <5> QED BY <5>1, <5>2, TimersAreTokens
        <4>3. \A v \in ToSet(writes) : InBatch(v, id) => v.timer # w.timer
          BY <4>1, <4>2 DEF TimersAreOwn
        <4> QED BY <4>1, <4>3 DEF BatchTimers
      <3>5. \A w \in ToSet(parked) \ ToSet(parked') :
              \/ w.buffer = b /\ w.after = after /\ w.timer \in gone
              \/ InBatch(w, id) /\ w.timer \in gone
        BY <3>2, <3>3
      <3>6. WritesGone(gone)
        <4> HIDE DEF WriteIn, gone
        <4> QED BY <1>0, <1>8, <3>1, <3>2, <3>4, <3>5 DEF WritesGone
      <3>7. \A w, i : InBatch(w, id) /\ InBatch(w, i) => i = id
        BY DEF InBatch
      <3>8. CountedOrEnded(b, after)
        <4> HIDE DEF gone
        <4> QED BY <2>1, <2>3, <3>5, <3>7 DEF CountedOrEnded
      <3> QED BY <2>1, <3>6, <3>8
    <2> QED BY <2>2, <2>3
  <1>9. PICK outcome \in {"failed", "stale", "written"} :
          \/ /\ after = NothingAfter
             /\ parked' = writes
             /\ timers' = Disarm({disarmed})
             /\ UNCHANGED <<open, batches, exited>>
          \/ /\ after = QuitAfter
             /\ QuitAfterWrite(b, force, outcome, writes)
             /\ timers' = Disarm({disarmed})
             /\ UNCHANGED batches
          \/ /\ after.kind = "batch"
             /\ RecordInBatch(after.id, b, outcome, writes, disarmed)
             /\ UNCHANGED <<open, exited>>
    BY DEF WriteAndContinue, Outcomes
  <1>10. QuitAfterWrite(b, force, outcome, writes) =>
           Closing({b}, writes) \/ (open' = open /\ parked' = writes)
    BY DEF QuitAfterWrite
  <1> QED BY <1>3, <1>6, <1>7, <1>8, <1>9, <1>10

-----------------------------------------------------------------------------
(* The inductive invariant, and the steps that end writes *)

\* A hold that is not open any more was answered.
HoldsAreOpen ==
  \A w \in ToSet(parked) : w.minted \subseteq w.holds \cup w.answered

ParkedIn(id) == {w.buffer : w \in {v \in ToSet(parked) : InBatch(v, id)}}
AskedFor(id) ==
  IF asking # Idle /\ asking.after = BatchAfter(id) THEN ToSet(asking.todo) ELSE {}

\* The buffers of a batch that runs are counted, parked or still to be asked
\* for, those of a reported one are counted.
BatchesAreWhole ==
  \A id \in 1 .. Len(batches) :
    /\ ~batches[id].ended =>
         batches[id].members \cap open \subseteq Counted(id) \cup ParkedIn(id) \cup AskedFor(id)
    /\ batches[id].reported => batches[id].members \cap open \subseteq Counted(id)

IInv == Typed /\ TimersAreOwn /\ HoldsAreOpen /\ BatchesAreWhole

\* The end of writes keeps the rest of the state well formed.
LEMMA GoneKeepsTyped ==
  ASSUME Typed, NEW gone, WritesGone(gone), BatchesCollect, TextsTyped',
         UNCHANGED <<next_token, requests>>, asking' # Idle => asking' \in RequestIn(Len(batches))
  PROVE  Typed'
  <1>1. CountersTyped'
    BY DEF Typed, CountersTyped
  <1>2. BatchesTyped'
    <2> HIDE DEF RequestIn
    <2> QED BY DEF Typed, BatchesTyped, BatchesCollect
  <1>3. WritesTyped'
    <2> HIDE DEF WriteIn
    <2> QED BY DEF WritesGone, WritesTyped, BatchesCollect
  <1>4. TimersTyped'
    BY DEF Typed, TimersTyped, WritesGone, Disarm
  <1> QED BY <1>1, <1>2, <1>3, <1>4 DEF Typed

\* The end of writes keeps batches whole: a member whose write ends is counted,
\* or its batch ends.
LEMMA GoneKeepsWhole ==
  ASSUME Typed, BatchesAreWhole, NEW gone, WritesGone(gone), BatchesCollect,
         NEW b, NEW after, CountedOrEnded(b, after),
         \A id \in 1 .. Len(batches) : ~batches'[id].ended =>
           \A x \in AskedFor(id) :
             x \notin open' \/ x \in AskedFor(id)' \/ (x = b /\ after = BatchAfter(id))
  PROVE  BatchesAreWhole'
  <1> SUFFICES ASSUME NEW id \in 1 .. Len(batches)
               PROVE  /\ ~batches'[id].ended =>
                           batches'[id].members \cap open' \subseteq
                             Counted(id)' \cup ParkedIn(id)' \cup AskedFor(id)'
                      /\ batches'[id].reported =>
                           batches'[id].members \cap open' \subseteq Counted(id)'
    BY DEF BatchesAreWhole, BatchesCollect
  <1>1. /\ batches'[id].members = batches[id].members
        /\ batches'[id].reported = batches[id].reported
        /\ batches[id].ended => batches'[id].ended
        /\ Counted(id) \subseteq Counted(id)'
        /\ open' \subseteq open
    BY DEF BatchesCollect, WritesGone
  <1>2. batches'[id].reported => batches'[id].members \cap open' \subseteq Counted(id)'
    BY <1>1 DEF BatchesAreWhole
  <1>3. ASSUME ~batches'[id].ended, NEW x \in batches'[id].members \cap open'
        PROVE  x \in Counted(id)' \cup ParkedIn(id)' \cup AskedFor(id)'
    <2>1. x \in Counted(id) \cup ParkedIn(id) \cup AskedFor(id)
      BY <1>1, <1>3 DEF BatchesAreWhole
    <2>2. after = BatchAfter(id) => after.kind = "batch" /\ after.id = id
      BY DEF BatchAfter
    <2>3. after = BatchAfter(id) => b \in Counted(id)'
      BY <1>3, <2>2 DEF CountedOrEnded
    <2>4. CASE x \in Counted(id)
      BY <1>1, <2>4
    <2>5. CASE x \in ParkedIn(id)
      <3>1. PICK w \in ToSet(parked) : InBatch(w, id) /\ w.buffer = x
        BY <2>5 DEF ParkedIn
      <3>2. CASE w \in ToSet(parked')
        BY <3>1, <3>2 DEF ParkedIn
      <3>3. CASE w \notin ToSet(parked')
        <4>1. w.buffer = b /\ w.after = after
          BY <1>3, <3>1, <3>3 DEF CountedOrEnded
        <4>2. after.kind = "batch" /\ after.id = id
          BY <3>1, <4>1 DEF InBatch
        <4> QED BY <1>3, <3>1, <4>1, <4>2 DEF CountedOrEnded
      <3> QED BY <3>2, <3>3
    <2>6. CASE x \in AskedFor(id)
      BY <1>3, <2>3, <2>6
    <2> QED BY <2>1, <2>4, <2>5, <2>6
  <1> QED BY <1>2, <1>3

\* A step that ends writes keeps the invariant.
LEMMA GoneKeepsInvariant ==
  ASSUME IInv, NEW gone, WritesGone(gone), BatchesCollect, TextsTyped',
         UNCHANGED <<next_token, requests>>,
         asking' # Idle => asking' \in RequestIn(Len(batches)),
         NEW b, NEW after, CountedOrEnded(b, after),
         \A id \in 1 .. Len(batches) : ~batches'[id].ended =>
           \A x \in AskedFor(id) :
             x \notin open' \/ x \in AskedFor(id)' \/ (x = b /\ after = BatchAfter(id))
  PROVE  IInv'
  <1>1. Typed'
    BY GoneKeepsTyped DEF IInv
  <1>2. TimersAreOwn'
    BY GoneKeepsTimers DEF IInv
  <1>3. HoldsAreOpen'
    BY DEF IInv, HoldsAreOpen, WritesGone
  <1>4. BatchesAreWhole'
    BY GoneKeepsWhole DEF IInv
  <1> QED BY <1>1, <1>2, <1>3, <1>4 DEF IInv

\* A loop's next buffer, and those after it.
LEMMA TodoSplits ==
  ASSUME Typed, asking # Idle, asking.todo # <<>>
  PROVE  /\ asking \in RequestIn(Len(batches)) /\ NextAsked \in RequestIn(Len(batches))
         /\ Head(asking.todo) \in BufferId
         /\ ToSet(asking.todo) = {Head(asking.todo)} \cup ToSet(Tail(asking.todo))
         /\ NextAsked.todo = Tail(asking.todo) /\ NextAsked.after = asking.after
  <1>1. asking \in RequestIn(Len(batches))
    BY DEF Typed, BatchesTyped
  <1>2. asking.todo \in Seq(BufferId)
    BY <1>1 DEF RequestIn
  <1> DEFINE s == asking.todo
  <1>3. /\ Tail(s) \in Seq(BufferId) /\ Head(s) = s[1] /\ Head(s) \in BufferId
        /\ Len(Tail(s)) = Len(s) - 1 /\ Len(s) \in Nat /\ Len(s) > 0
        /\ \A i \in 1 .. Len(Tail(s)) : Tail(s)[i] = s[i + 1]
    BY <1>2
  <1>4. NextAsked \in RequestIn(Len(batches)) /\ NextAsked.todo = Tail(asking.todo)
        /\ NextAsked.after = asking.after
    BY <1>1, <1>3 DEF RequestIn, NextAsked
  <1>5. ToSet(s) = {Head(s)} \cup ToSet(Tail(s))
    <2> HIDE DEF s
    <2>1. DOMAIN s = 1 .. Len(s) /\ DOMAIN Tail(s) = 1 .. Len(Tail(s))
      BY <1>2, <1>3 DEF s
    <2>2. ASSUME NEW i \in 1 .. Len(s) PROVE s[i] = Head(s) \/ s[i] \in ToSet(Tail(s))
      <3>1. CASE i = 1
        BY <1>3, <3>1
      <3>2. CASE i # 1
        <4>1. i - 1 \in 1 .. Len(Tail(s)) /\ (i - 1) + 1 = i
          BY <1>3, <3>2
        <4>2. Tail(s)[i - 1] = s[i]
          BY <1>3, <4>1
        <4> QED BY <2>1, <4>1, <4>2 DEF ToSet
      <3> QED BY <3>1, <3>2
    <2>3. 1 \in DOMAIN s /\ \A i \in DOMAIN Tail(s) : i + 1 \in DOMAIN s
      BY <1>3, <2>1
    <2>4. ToSet(Tail(s)) \subseteq ToSet(s)
      BY <1>3, <2>1, <2>3 DEF ToSet
    <2>5. Head(s) \in ToSet(s)
      BY <1>3, <2>3 DEF ToSet
    <2> QED BY <2>1, <2>2, <2>4, <2>5 DEF ToSet
  <1> QED BY <1>1, <1>3, <1>4, <1>5

-----------------------------------------------------------------------------
(* The steps that end writes *)

\* write_and_continue leaves the buffers well formed.
LEMMA ConcludesTexts ==
  ASSUME Typed, NEW b, NEW force, NEW after, NEW writes, NEW disarmed,
         WriteAndContinue(b, force, after, writes, disarmed), UNCHANGED config
  PROVE  TextsTyped'
  <1>1. open' \subseteq open
    BY DEF WriteAndContinue, QuitAfterWrite, Closing
  <1>2. exited' \in BOOLEAN
    <2>1. exited' = exited \/ exited' = TRUE
      BY DEF WriteAndContinue, QuitAfterWrite
    <2> QED BY <2>1 DEF Typed, TextsTyped
  <1>3. dirty' \subseteq dirty /\ stale' \subseteq stale
    BY DEF WriteAndContinue
  <1> QED BY <1>1, <1>2, <1>3 DEF Typed, TextsTyped, config

\* A command that requests writes is not idle.
LEMMA RequestsAreNotIdle ==
  ASSUME Typed
  PROVE  /\ RequestIn(Len(batches)) \subseteq Request
         /\ Idle \notin RequestIn(Len(batches))
  <1>1. Len(batches) \in Nat /\ Len(batches) <= MaxRequests
    BY BeforeSaveAssumption DEF Typed, BatchesTyped, CountersTyped, BeforeSaveAssumption
  <1>2. AfterIn(Len(batches)) \subseteq After
    BY <1>1, BeforeSaveAssumption DEF AfterIn, After, BeforeSaveAssumption
  <1>3. RequestIn(Len(batches)) \subseteq Request
    BY <1>2 DEF RequestIn, Request
  <1> QED BY <1>3, BeforeSaveAssumption DEF BeforeSaveAssumption

\* A batch that runs and has no request left to make asks for nothing.
LEMMA NothingAskedFor ==
  ASSUME asking = Idle
  PROVE  \A id \in 1 .. Len(batches) : AskedFor(id) = {}
  BY DEF AskedFor

LEMMA WriteNowStep ==
  ASSUME IInv, WriteNow
  PROVE  IInv'
  <1>0. PICK b, after : b = Head(asking.todo) /\ after = asking.after
    OBVIOUS
  <1>1. Typed /\ TimersAreOwn
    BY DEF IInv
  <1>2. asking # Idle /\ asking.todo # <<>>
    BY DEF WriteNow, Asking
  <1>3. /\ asking \in RequestIn(Len(batches)) /\ NextAsked \in RequestIn(Len(batches))
        /\ b \in BufferId
        /\ ToSet(asking.todo) = {b} \cup ToSet(Tail(asking.todo))
        /\ NextAsked.todo = Tail(asking.todo) /\ NextAsked.after = asking.after
    BY <1>0, <1>1, <1>2, TodoSplits
  <1>4. after \in AfterIn(Len(batches)) /\ asking.force \in BOOLEAN
    BY <1>0, <1>3, BeforeSaveAssumption DEF RequestIn, BeforeSaveAssumption
  <1>5. /\ WriteAndContinue(b, asking.force, after, parked, NoTimer)
        /\ asking' = IF BatchAsked /\ batches'[after.id].ended THEN Idle ELSE NextAsked
        /\ UNCHANGED <<config, next_token, requests>>
    BY <1>0 DEF WriteNow
  <1>6. TextsTyped'
    BY <1>1, <1>5, ConcludesTexts DEF config
  <1>7. /\ parked \in Seq(WriteIn(Len(batches), next_token)) /\ Distinct(parked)
        /\ \A w \in ToSet(parked) : w.holds # {} => w.timer # NoTimer
    <2>1. \A w \in ToSet(parked) : w.holds # {} =>
            \E t \in timers : t.id = w.timer
      BY <1>1 DEF TimersAreOwn
    <2> HIDE DEF WriteIn
    <2> QED BY <1>1, <2>1, TimersAreTokens DEF Typed, WritesTyped
  <1>8. (\E gone : WritesGone(gone)) /\ BatchesCollect /\ CountedOrEnded(b, after)
    <2> HIDE DEF WriteIn, AfterIn
    <2> QED BY <1>1, <1>3, <1>4, <1>5, <1>7, WriteConcludes
  <1>9. PICK gone : WritesGone(gone)
    BY <1>8
  <1>10. asking' # Idle => asking' \in RequestIn(Len(batches))
    BY <1>3, <1>5
  <1>11. ASSUME NEW id \in 1 .. Len(batches), ~batches'[id].ended, NEW x \in AskedFor(id)
         PROVE  x \notin open' \/ x \in AskedFor(id)' \/ (x = b /\ after = BatchAfter(id))
    <2>1. after = BatchAfter(id) /\ x \in ToSet(asking.todo)
      BY <1>0, <1>11 DEF AskedFor
    <2>2. CASE x = b
      BY <2>1, <2>2
    <2>3. CASE x # b
      <3>1. x \in ToSet(Tail(asking.todo))
        BY <1>3, <2>1, <2>3
      <3>2. after.id = id /\ after.kind = "batch"
        BY <2>1 DEF BatchAfter
      <3>3. asking' = NextAsked
        BY <1>5, <1>11, <3>2
      <3>4. asking' # Idle
        BY <1>1, <1>3, <3>3, RequestsAreNotIdle
      <3> QED BY <1>0, <1>3, <2>1, <3>1, <3>3, <3>4 DEF AskedFor
    <2> QED BY <2>2, <2>3
  <1> QED BY <1>5, <1>6, <1>8, <1>9, <1>10, <1>11, GoneKeepsInvariant

\* The first of some positions of a sequence.
LEMMA FirstIsOne ==
  ASSUME NEW n \in Nat, NEW is \in SUBSET (1 .. n), is # {}
  PROVE  First(is) \in is
  <1> DEFINE R == {ss \in Nat \X Nat : ss[1] < ss[2]}
  <1>1. IsWellFoundedOn(R, Nat)
    BY NatLessThanWellFounded DEF OpToRel
  <1>2. is \subseteq Nat
    OBVIOUS
  <1>3. PICK i \in is : \A j \in is : ~ (<<j, i>> \in R)
    <2> HIDE DEF R
    <2> QED BY <1>1, <1>2, WFMin
  <1>4. \A j \in is : ~ (j < i)
    BY <1>2, <1>3
  <1>5. \A j \in is : i <= j
    BY <1>2, <1>4
  <1> QED BY <1>5 DEF First

\* The write taken out of the parked writes is the one of its buffer.
LEMMA TakenOut ==
  ASSUME IInv, NEW w \in ToSet(parked)
  PROVE  LET writes == Without(parked, {w.buffer})
         IN  /\ writes \in Seq(WriteIn(Len(batches), next_token)) /\ Distinct(writes)
             /\ ToSet(writes) \subseteq ToSet(parked)
             /\ \A v \in ToSet(parked) \ ToSet(writes) : v = w
             /\ w \notin ToSet(writes)
             /\ w.buffer \in BufferId /\ w.force \in BOOLEAN
             /\ w.after \in AfterIn(Len(batches))
             /\ \A v \in ToSet(writes) : v.holds # {} => v.timer # w.timer
  <1> DEFINE writes == Without(parked, {w.buffer})
  <1>1. Typed /\ TimersAreOwn
    BY DEF IInv
  <1>2. parked \in Seq(WriteIn(Len(batches), next_token)) /\ Distinct(parked)
    BY <1>1 DEF Typed, WritesTyped
  <1>3. /\ writes \in Seq(WriteIn(Len(batches), next_token)) /\ Distinct(writes)
        /\ ToSet(writes) = {v \in ToSet(parked) : v.buffer \notin {w.buffer}}
    <2> HIDE DEF WriteIn
    <2> QED BY <1>2, WithoutWrites
  <1>4. /\ w \in WriteIn(Len(batches), next_token)
        /\ \A u, v \in ToSet(parked) : u.buffer = v.buffer => u = v
    BY <1>1, ParkedWrites
  <1>5. w.buffer \in BufferId /\ w.force \in BOOLEAN /\ w.after \in AfterIn(Len(batches))
    BY <1>4, BeforeSaveAssumption DEF WriteIn, BeforeSaveAssumption
  <1>6. \A v \in ToSet(writes) : v # w
    BY <1>3
  <1>7. ASSUME NEW v \in ToSet(writes), v.holds # {} PROVE v.timer # w.timer
    <2>1. v \in ToSet(parked) /\ v # w
      BY <1>3, <1>6
    <2>2. [id |-> v.timer, buffer |-> v.buffer] \in timers
      BY <1>1, <1>7, <2>1 DEF TimersAreOwn
    <2>3. [id |-> v.timer, buffer |-> v.buffer].id = v.timer
      OBVIOUS
    <2>4. v.timer # NoTimer
      BY <1>1, <2>2, <2>3, TimersAreTokens
    <2> QED BY <1>1, <2>1, <2>4 DEF TimersAreOwn
  <1> HIDE DEF WriteIn
  <1> QED BY <1>3, <1>4, <1>5, <1>6, <1>7

\* A parked write is concluded by the editor's loop.
LEMMA ParkedConcludes ==
  ASSUME IInv, NEW w \in ToSet(parked), asking = Idle,
         WriteAndContinue(w.buffer, w.force, w.after, Without(parked, {w.buffer}), w.timer),
         UNCHANGED <<config, asking, next_token, requests>>
  PROVE  IInv'
  <1> DEFINE writes == Without(parked, {w.buffer})
  <1>1. Typed /\ TimersAreOwn
    BY DEF IInv
  <1>2. /\ writes \in Seq(WriteIn(Len(batches), next_token)) /\ Distinct(writes)
        /\ ToSet(writes) \subseteq ToSet(parked)
        /\ \A v \in ToSet(parked) \ ToSet(writes) : v = w
        /\ w.buffer \in BufferId /\ w.force \in BOOLEAN
        /\ w.after \in AfterIn(Len(batches))
        /\ \A v \in ToSet(writes) : v.holds # {} => v.timer # w.timer
    BY TakenOut
  <1>3. TextsTyped'
    BY <1>1, ConcludesTexts DEF config
  <1>4. (\E gone : WritesGone(gone)) /\ BatchesCollect /\ CountedOrEnded(w.buffer, w.after)
    <2>1. \A v \in ToSet(parked) \ ToSet(writes) :
            v.buffer = w.buffer /\ v.after = w.after /\ v.timer = w.timer
      BY <1>2
    <2> HIDE DEF WriteIn, AfterIn, writes
    <2>2. WriteAndContinue(w.buffer, w.force, w.after, writes, w.timer)
      BY DEF writes
    <2> QED BY <1>1, <1>2, <2>1, <2>2, WriteConcludes
  <1>5. PICK gone : WritesGone(gone)
    BY <1>4
  <1>6. asking' = Idle
    OBVIOUS
  <1>7. \A id \in 1 .. Len(batches) : AskedFor(id) = {}
    BY NothingAskedFor
  <1> QED BY <1>3, <1>4, <1>5, <1>6, <1>7, GoneKeepsInvariant

LEMMA CommitReadyStep ==
  ASSUME IInv, CommitReady
  PROVE  IInv'
  <1>1. parked \in Seq(WriteIn(Len(batches), next_token))
    BY DEF IInv, Typed, WritesTyped
  <1>2. DOMAIN parked = 1 .. Len(parked) /\ Len(parked) \in Nat
    <2> HIDE DEF WriteIn
    <2> QED BY <1>1
  <1>3. First(ReadyWrites) \in DOMAIN parked
    <2>1. ReadyWrites \in SUBSET (1 .. Len(parked)) /\ ReadyWrites # {}
      BY <1>2 DEF CommitReady, ReadyWrites
    <2> QED BY <1>2, <2>1, FirstIsOne
  <1>4. PICK w \in ToSet(parked) : w = parked[First(ReadyWrites)]
    BY <1>3 DEF ToSet
  <1>5. /\ asking = Idle /\ UNCHANGED <<config, asking, next_token, requests>>
        /\ WriteAndContinue(w.buffer, w.force, w.after, Without(parked, {w.buffer}), w.timer)
    BY <1>4 DEF CommitReady, Free
  <1> QED BY <1>4, <1>5, ParkedConcludes

LEMMA TimedOutStep ==
  ASSUME IInv, NEW t \in timers, TimedOut(t)
  PROVE  IInv'
  <1>1. Typed /\ TimersAreOwn
    BY DEF IInv
  <1>2. asking = Idle /\ UNCHANGED <<config, asking, next_token, requests>>
    BY DEF TimedOut, Free
  <1>3. /\ \A v, w \in ToSet(parked) : v.buffer = w.buffer => v = w
        /\ ParkedBuffers = {w.buffer : w \in ToSet(parked)}
        /\ \A w \in ToSet(parked) : WriteOf(w.buffer) = w
    BY <1>1, ParkedWrites
  <1>4. CASE t.buffer \in ParkedBuffers
    <2>1. PICK w \in ToSet(parked) : w.buffer = t.buffer
      BY <1>3, <1>4
    <2>2. WriteOf(t.buffer) = w
      BY <1>3, <2>1
    <2>3. t.buffer \in open
      BY <1>1, <2>1 DEF Typed, WritesTyped
    <2>4. w.timer = t.id
      <3>1. PICK v \in ToSet(parked) : v.buffer = t.buffer /\ v.timer = t.id
        BY <1>1, <2>3 DEF TimersAreOwn
      <3> QED BY <1>3, <2>1, <3>1
    <2>5. WriteAndContinue(w.buffer, w.force, w.after, Without(parked, {w.buffer}), w.timer)
      BY <1>4, <2>2, <2>4 DEF TimedOut
    <2> QED BY <1>2, <2>5, ParkedConcludes
  <1>5. CASE t.buffer \notin ParkedBuffers
    <2>1. timers' = timers \ {t} /\ UNCHANGED <<texts, parked, batches, exited>>
      BY <1>5 DEF TimedOut
    <2>2. TextsTyped'
      BY <1>1, <1>2, <2>1 DEF Typed, TextsTyped, texts, config
    <2>3. BatchesCollect
      BY <1>1, <2>1 DEF Typed, BatchesTyped, BatchesCollect, Counted
    <2>4. timers' = Disarm({t.id})
      BY <1>1, <2>1 DEF Disarm, TimersAreOwn
    <2>5. \A w \in ToSet(parked) : w.holds # {} => w.timer # t.id
      <3> SUFFICES ASSUME NEW w \in ToSet(parked), w.holds # {}, w.timer = t.id PROVE FALSE
        OBVIOUS
      <3> DEFINE u == [id |-> w.timer, buffer |-> w.buffer]
      <3>1. u \in timers /\ u.id = t.id /\ u.buffer = w.buffer
        BY <1>1 DEF TimersAreOwn
      <3>2. u = t
        BY <1>1, <3>1 DEF TimersAreOwn
      <3> QED BY <1>3, <1>5, <3>1, <3>2
    <2>6. WritesGone({t.id})
      <3>1. /\ parked \in Seq(WriteIn(Len(batches), next_token)) /\ Distinct(parked)
            /\ \A w \in ToSet(parked) : w.buffer \in open
        BY <1>1 DEF Typed, WritesTyped
      <3> HIDE DEF WriteIn
      <3> QED BY <2>1, <2>4, <2>5, <3>1 DEF WritesGone, texts
    <2>7. CountedOrEnded(t.buffer, NothingAfter)
      BY <2>1 DEF CountedOrEnded, NothingAfter
    <2>8. \A id \in 1 .. Len(batches) : AskedFor(id) = {}
      BY <1>2, NothingAskedFor
    <2> QED BY <1>2, <2>2, <2>3, <2>6, <2>7, <2>8, GoneKeepsInvariant
  <1> QED BY <1>4, <1>5

\* Closing buffers concludes no write of a buffer that stays open.
LEMMA ClosingConcludes ==
  ASSUME IInv, NEW bs, Closing(bs, parked), UNCHANGED <<timers, batches>>
  PROVE  WritesGone({}) /\ BatchesCollect /\ CountedOrEnded(bs, NothingAfter)
  <1>1. Typed
    BY DEF IInv
  <1>2. WritesGone({}) /\ \A w \in ToSet(parked) \ ToSet(parked') : w.buffer \notin open'
    BY <1>1, ClosingEndsWrites
  <1>3. BatchesCollect
    BY <1>1 DEF Typed, BatchesTyped, BatchesCollect, Counted
  <1> QED BY <1>2, <1>3 DEF CountedOrEnded, NothingAfter

LEMMA CloseStep ==
  ASSUME IInv, NEW b \in BufferId, NEW force, Close(b, force)
  PROVE  IInv'
  <1>1. Typed
    BY DEF IInv
  <1>2. /\ asking = Idle /\ Closing({b}, parked)
        /\ UNCHANGED <<dirty, stale, config, batches, asking, timers, next_token, requests, exited>>
    BY DEF Close, Free
  <1>3. TextsTyped'
    BY <1>1, <1>2 DEF Typed, TextsTyped, Closing, config
  <1>4. WritesGone({}) /\ BatchesCollect /\ CountedOrEnded({b}, NothingAfter)
    BY <1>2, ClosingConcludes
  <1>5. \A id \in 1 .. Len(batches) : AskedFor(id) = {}
    BY <1>2, NothingAskedFor
  <1> QED BY <1>2, <1>3, <1>4, <1>5, GoneKeepsInvariant

LEMMA ActivateLazyStep ==
  ASSUME IInv, ActivateLazy
  PROVE  IInv'
  <1>1. Typed
    BY DEF IInv
  <1>2. PICK closed \in SUBSET open :
          /\ Closing(closed, parked)
          /\ asking' = IF Head(asking.todo) \in closed
                         THEN [asking EXCEPT !.todo = Tail(@)] ELSE asking
    BY DEF ActivateLazy
  <1>3. /\ asking # Idle /\ asking.todo # <<>>
        /\ lazy' = FALSE /\ handlers' \in HandlersOf
        /\ UNCHANGED <<dirty, stale, batches, timers, next_token, requests, exited>>
    BY DEF ActivateLazy, Asking
  <1>4. /\ asking \in RequestIn(Len(batches)) /\ NextAsked \in RequestIn(Len(batches))
        /\ ToSet(asking.todo) = {Head(asking.todo)} \cup ToSet(Tail(asking.todo))
        /\ NextAsked.todo = Tail(asking.todo) /\ NextAsked.after = asking.after
    BY <1>1, <1>3, TodoSplits
  <1>5. NextAsked # Idle
    BY <1>1, <1>4, RequestsAreNotIdle
  <1>6. TextsTyped'
    BY <1>1, <1>2, <1>3 DEF Typed, TextsTyped, Closing
  <1>7. WritesGone({}) /\ BatchesCollect /\ CountedOrEnded(closed, NothingAfter)
    BY <1>2, <1>3, ClosingConcludes
  <1>8. asking' = IF Head(asking.todo) \in closed THEN NextAsked ELSE asking
    BY <1>2 DEF NextAsked
  <1>9. asking' \in RequestIn(Len(batches))
    BY <1>4, <1>8
  <1>10. ASSUME NEW id \in 1 .. Len(batches), NEW x \in AskedFor(id)
         PROVE  x \notin open' \/ x \in AskedFor(id)'
    <2>1. asking.after = BatchAfter(id) /\ x \in ToSet(asking.todo)
      BY <1>10 DEF AskedFor
    <2>2. CASE Head(asking.todo) \notin closed
      BY <1>3, <1>8, <2>1, <2>2 DEF AskedFor
    <2>3. CASE Head(asking.todo) \in closed
      <3>1. CASE x = Head(asking.todo)
        BY <1>2, <2>3, <3>1 DEF Closing
      <3>2. CASE x # Head(asking.todo)
        BY <1>4, <1>5, <1>8, <2>1, <2>3, <3>2 DEF AskedFor
      <3> QED BY <3>1, <3>2
    <2> QED BY <2>2, <2>3
  <1> QED BY <1>3, <1>6, <1>7, <1>9, <1>10, GoneKeepsInvariant

-----------------------------------------------------------------------------
(* The steps that only count and report *)

\* A batch is replaced by one that collected more.
LEMMA BatchCollects ==
  ASSUME Typed, NEW id \in 1 .. Len(batches), NEW r \in Batch,
         batches' = [batches EXCEPT ![id] = r],
         r.members = batches[id].members, r.ended = batches[id].ended,
         \A o \in BatchOutcome : batches[id].outcomes[o] \subseteq r.outcomes[o]
  PROVE  /\ batches' \in Seq(Batch) /\ Len(batches') = Len(batches)
         /\ batches'[id] = r /\ \A i \in 1 .. Len(batches) : i # id => batches'[i] = batches[i]
         /\ \A i \in 1 .. Len(batches) : Counted(i) \subseteq Counted(i)'
         /\ r.reported = batches[id].reported => BatchesCollect
  <1>1. batches \in Seq(Batch)
    BY DEF Typed, BatchesTyped
  <1>2. /\ batches' \in Seq(Batch) /\ Len(batches') = Len(batches)
        /\ batches'[id] = r /\ \A i \in 1 .. Len(batches) : i # id => batches'[i] = batches[i]
    <2> HIDE DEF Batch
    <2> QED BY <1>1, ExceptSeq
  <1>3. Counted(id) \subseteq Counted(id)'
    BY <1>2 DEF Counted
  <1>4. \A i \in 1 .. Len(batches) : i # id => Counted(i)' = Counted(i)
    BY <1>2 DEF Counted
  <1>5. \A i \in 1 .. Len(batches) : Counted(i) \subseteq Counted(i)'
    BY <1>3, <1>4
  <1>6. r.reported = batches[id].reported => BatchesCollect
    BY <1>2, <1>5 DEF BatchesCollect
  <1> QED BY <1>2, <1>5, <1>6

\* The parked writes and their timers stay as they are.
LEMMA NoWriteGone ==
  ASSUME Typed, UNCHANGED <<open, parked, timers>>
  PROVE  WritesGone({}) /\ ToSet(parked) \ ToSet(parked') = {}
  <1>1. /\ parked \in Seq(WriteIn(Len(batches), next_token)) /\ Distinct(parked)
        /\ \A w \in ToSet(parked) : w.buffer \in open
    BY DEF Typed, WritesTyped
  <1>2. timers' = Disarm({})
    BY DEF Disarm
  <1> HIDE DEF WriteIn
  <1> QED BY <1>1, <1>2 DEF WritesGone

\* Nothing happens to a batch.
LEMMA NoBatchCollects ==
  ASSUME Typed, UNCHANGED batches
  PROVE  BatchesCollect
  BY DEF Typed, BatchesTyped, BatchesCollect, Counted

\* The batch the loop requests writes for exists.
LEMMA BatchAskedExists ==
  ASSUME Typed, asking # Idle
  PROVE  /\ asking.after \in AfterIn(Len(batches))
         /\ BatchAsked => /\ asking.after.id \in 1 .. Len(batches)
                          /\ asking.after = BatchAfter(asking.after.id)
                          /\ batches[asking.after.id] \in Batch
  <1>1. asking \in RequestIn(Len(batches)) /\ batches \in Seq(Batch) /\ Len(batches) \in Nat
    BY DEF Typed, BatchesTyped
  <1>2. asking.after \in AfterIn(Len(batches))
    BY <1>1 DEF RequestIn
  <1>3. BatchAsked => /\ asking.after.id \in 1 .. Len(batches)
                      /\ asking.after = BatchAfter(asking.after.id)
    BY <1>1, <1>2, BatchOfAfter DEF BatchAsked
  <1>4. \A i \in 1 .. Len(batches) : batches[i] \in Batch
    <2> HIDE DEF Batch
    <2> QED BY <1>1
  <1> QED BY <1>2, <1>3, <1>4

LEMMA AlreadyParkedStep ==
  ASSUME IInv, AlreadyParked
  PROVE  IInv'
  <1>0. PICK b, after : b = Head(asking.todo) /\ after = asking.after
    OBVIOUS
  <1>1. Typed
    BY DEF IInv
  <1>2. /\ asking # Idle /\ asking.todo # <<>> /\ asking' = NextAsked
        /\ UNCHANGED <<texts, config, parked, timers, next_token, requests, exited>>
    BY DEF AlreadyParked, Asking
  <1>3. /\ asking \in RequestIn(Len(batches)) /\ NextAsked \in RequestIn(Len(batches))
        /\ b \in BufferId
        /\ ToSet(asking.todo) = {b} \cup ToSet(Tail(asking.todo))
        /\ NextAsked.todo = Tail(asking.todo) /\ NextAsked.after = asking.after
    BY <1>0, <1>1, <1>2, TodoSplits
  <1>4. NextAsked # Idle
    BY <1>1, <1>3, RequestsAreNotIdle
  <1>5. TextsTyped' /\ WritesGone({}) /\ ToSet(parked) \ ToSet(parked') = {}
    BY <1>1, <1>2, NoWriteGone DEF Typed, TextsTyped, texts, config
  <1>6. BatchesCollect /\ (after.kind = "batch" => b \in Counted(after.id)')
    <2>1. CASE ~BatchAsked
      <3>1. batches' = batches
        BY <2>1 DEF AlreadyParked
      <3> QED BY <1>1, <2>1, <3>1, NoBatchCollects, <1>0 DEF BatchAsked
    <2>2. CASE BatchAsked
      <3>0. PICK id : id = after.id
        OBVIOUS
      <3> DEFINE r == [batches[id] EXCEPT !.outcomes["in_progress"] = @ \cup {b}]
      <3>1. id \in 1 .. Len(batches) /\ batches[id] \in Batch
        BY <1>0, <1>1, <1>2, <2>2, <3>0, BatchAskedExists
      <3>2. batches' = [batches EXCEPT ![id] = r]
        BY <1>0, <2>2, <3>0 DEF AlreadyParked
      <3>3. /\ r \in Batch /\ r.members = batches[id].members /\ r.ended = batches[id].ended
            /\ r.reported = batches[id].reported /\ b \in r.outcomes["in_progress"]
            /\ \A o \in BatchOutcome : batches[id].outcomes[o] \subseteq r.outcomes[o]
        BY <1>3, <3>1 DEF Batch, BatchOutcome
      <3> HIDE DEF r
      <3>4. BatchesCollect /\ batches'[id] = r
        BY <1>1, <3>1, <3>2, <3>3, BatchCollects
      <3>5. b \in Counted(id)'
        <4>1. b \in batches'[id].outcomes["in_progress"] /\ "in_progress" \in BatchOutcome
          BY <3>3, <3>4 DEF BatchOutcome
        <4> QED BY <4>1 DEF Counted
      <3> QED BY <3>0, <3>4, <3>5
    <2> QED BY <2>1, <2>2
  <1>7. CountedOrEnded(b, after)
    BY <1>5, <1>6 DEF CountedOrEnded
  <1>8. ASSUME NEW id \in 1 .. Len(batches), NEW x \in AskedFor(id)
        PROVE  x \in AskedFor(id)' \/ (x = b /\ after = BatchAfter(id))
    <2>1. after = BatchAfter(id) /\ x \in ToSet(asking.todo)
      BY <1>0, <1>8 DEF AskedFor
    <2> QED BY <1>0, <1>2, <1>3, <1>4, <2>1 DEF AskedFor
  <1> QED BY <1>2, <1>3, <1>5, <1>6, <1>7, <1>8, GoneKeepsInvariant

LEMMA RequestedStep ==
  ASSUME IInv, Requested
  PROVE  IInv'
  <1>1. Typed
    BY DEF IInv
  <1>2. /\ asking # Idle /\ asking.todo = <<>> /\ asking' = Idle
        /\ UNCHANGED <<texts, config, parked, timers, next_token, requests, exited>>
    BY DEF Requested
  <1>3. TextsTyped' /\ WritesGone({}) /\ ToSet(parked) \ ToSet(parked') = {}
    BY <1>1, <1>2, NoWriteGone DEF Typed, TextsTyped, texts, config
  <1>4. BatchesCollect
    <2>1. CASE ~BatchAsked
      <3>1. batches' = batches
        BY <2>1 DEF Requested, BatchAsked
      <3> QED BY <1>1, <3>1, NoBatchCollects
    <2>2. CASE BatchAsked
      <3>0. PICK id : id = asking.after.id
        OBVIOUS
      <3> DEFINE r == [batches[id] EXCEPT !.sealed = TRUE]
      <3>1. id \in 1 .. Len(batches) /\ batches[id] \in Batch
        BY <1>1, <1>2, <2>2, <3>0, BatchAskedExists
      <3>2. batches' = [batches EXCEPT ![id] = r]
        BY <2>2, <3>0 DEF Requested, BatchAsked
      <3>3. /\ r \in Batch /\ r.members = batches[id].members /\ r.ended = batches[id].ended
            /\ r.reported = batches[id].reported
            /\ \A o \in BatchOutcome : batches[id].outcomes[o] \subseteq r.outcomes[o]
        BY <3>1 DEF Batch
      <3> HIDE DEF r
      <3> QED BY <1>1, <3>1, <3>2, <3>3, BatchCollects
    <2> QED BY <2>1, <2>2
  <1>5. CountedOrEnded(0, NothingAfter)
    BY <1>3 DEF CountedOrEnded, NothingAfter
  <1>6. \A id \in 1 .. Len(batches) : AskedFor(id) = {}
    BY <1>2 DEF AskedFor, ToSet
  <1> QED BY <1>2, <1>3, <1>4, <1>5, <1>6, GoneKeepsInvariant

LEMMA ReportFinishedStep ==
  ASSUME IInv, NEW id, ReportFinished(id)
  PROVE  IInv'
  <1>1. Typed
    BY DEF IInv
  <1>2. /\ asking = Idle /\ id \in 1 .. Len(batches) /\ Finished(id) /\ ~batches[id].ended
        /\ batches' = [batches EXCEPT ![id].reported = TRUE]
        /\ UNCHANGED <<texts, config, parked, asking, timers, next_token, requests, exited>>
    <2>1. DOMAIN batches = 1 .. Len(batches)
      BY <1>1 DEF Typed, BatchesTyped
    <2> QED BY <2>1 DEF ReportFinished, Free
  <1> DEFINE r == [batches[id] EXCEPT !.reported = TRUE]
  <1>3. batches[id] \in Batch
    <2> HIDE DEF Batch
    <2> QED BY <1>1, <1>2 DEF Typed, BatchesTyped
  <1>4. /\ r \in Batch /\ r.members = batches[id].members /\ r.ended = batches[id].ended
        /\ \A o \in BatchOutcome : batches[id].outcomes[o] \subseteq r.outcomes[o]
    BY <1>3 DEF Batch
  <1>5. batches' = [batches EXCEPT ![id] = r]
    BY <1>2
  <1> HIDE DEF r
  <1>6. /\ batches' \in Seq(Batch) /\ Len(batches') = Len(batches)
        /\ batches'[id] = r /\ \A i \in 1 .. Len(batches) : i # id => batches'[i] = batches[i]
        /\ \A i \in 1 .. Len(batches) : Counted(i) \subseteq Counted(i)'
    BY <1>1, <1>2, <1>4, <1>5, BatchCollects
  <1>7. Typed'
    <2> HIDE DEF WriteIn, Batch, RequestIn
    <2> QED BY <1>1, <1>2, <1>6 DEF Typed, TextsTyped, CountersTyped, BatchesTyped,
                                    WritesTyped, TimersTyped, texts, config
  <1>8. TimersAreOwn' /\ HoldsAreOpen'
    BY <1>2 DEF IInv, TimersAreOwn, HoldsAreOpen, texts
  <1>9. batches[id].members \cap open \subseteq Counted(id)
    <2>1. ParkedIn(id) = {} /\ AskedFor(id) = {}
      BY <1>2 DEF ParkedIn, AskedFor, ToSet, Finished
    <2> QED BY <1>2, <2>1 DEF IInv, BatchesAreWhole
  <1>10. BatchesAreWhole'
    <2> SUFFICES ASSUME NEW i \in 1 .. Len(batches)
                 PROVE  /\ ~batches'[i].ended =>
                             batches'[i].members \cap open \subseteq
                               Counted(i)' \cup ParkedIn(i)' \cup AskedFor(i)'
                        /\ batches'[i].reported =>
                             batches'[i].members \cap open \subseteq Counted(i)'
      BY <1>2, <1>6 DEF BatchesAreWhole, texts
    <2>1. CASE i = id
      BY <1>4, <1>6, <1>9, <2>1
    <2>2. CASE i # id
      <3>1. batches'[i] = batches[i] /\ ParkedIn(i)' = ParkedIn(i) /\ AskedFor(i)' = AskedFor(i)
        BY <1>2, <1>6, <2>2 DEF ParkedIn, AskedFor
      <3> QED BY <1>6, <3>1 DEF IInv, BatchesAreWhole
    <2> QED BY <2>1, <2>2
  <1> QED BY <1>7, <1>8, <1>10 DEF IInv

-----------------------------------------------------------------------------
(* The steps that park, raise and answer *)

\* What a sequence with one more element holds.
LEMMA AppendedSet ==
  ASSUME NEW S, NEW s \in Seq(S), NEW e \in S
  PROVE  /\ Append(s, e) \in Seq(S)
         /\ ToSet(Append(s, e)) = ToSet(s) \cup {e}
         /\ \A i \in DOMAIN Append(s, e) :
              (i \in DOMAIN s /\ Append(s, e)[i] = s[i]) \/ (i = Len(s) + 1 /\ Append(s, e)[i] = e)
  <1> DEFINE a == Append(s, e)
  <1>1. /\ a \in Seq(S) /\ Len(a) = Len(s) + 1 /\ Len(s) \in Nat /\ a[Len(s) + 1] = e
        /\ \A i \in 1 .. Len(s) : a[i] = s[i]
    BY AppendProperties
  <1>2. DOMAIN a = 1 .. Len(s) + 1 /\ DOMAIN s = 1 .. Len(s)
    BY <1>1
  <1> HIDE DEF a
  <1>3. \A i \in DOMAIN a : (i \in DOMAIN s /\ a[i] = s[i]) \/ (i = Len(s) + 1 /\ a[i] = e)
    BY <1>1, <1>2
  <1>4. ToSet(s) \subseteq ToSet(a) /\ e \in ToSet(a)
    <2>1. Len(s) + 1 \in DOMAIN a /\ \A i \in DOMAIN s : i \in DOMAIN a /\ a[i] = s[i]
      BY <1>1, <1>2
    <2> QED BY <1>1, <2>1 DEF ToSet
  <1>5. ToSet(a) \subseteq ToSet(s) \cup {e}
    BY <1>3 DEF ToSet
  <1> QED BY <1>1, <1>3, <1>4, <1>5 DEF a

LEMMA ParkStep ==
  ASSUME IInv, Park
  PROVE  IInv'
  <1>0. PICK b, after, new : /\ b = Head(asking.todo) /\ after = asking.after
                             /\ new = Parked(b, asking.force, after)
    OBVIOUS
  <1>1. Typed
    BY DEF IInv
  <1>2. /\ asking # Idle /\ asking.todo # <<>> /\ b \in open /\ asking' = NextAsked
        /\ b \notin ParkedBuffers /\ parked' = Append(parked, new)
        /\ UNCHANGED <<texts, config, batches, timers, next_token, requests, exited>>
    BY <1>0 DEF Park, Asking
  <1>3. /\ asking \in RequestIn(Len(batches)) /\ NextAsked \in RequestIn(Len(batches))
        /\ b \in BufferId
        /\ ToSet(asking.todo) = {b} \cup ToSet(Tail(asking.todo))
        /\ NextAsked.todo = Tail(asking.todo) /\ NextAsked.after = asking.after
    BY <1>0, <1>1, <1>2, TodoSplits
  <1>4. NextAsked # Idle
    BY <1>1, <1>3, RequestsAreNotIdle
  <1>5. /\ new \in WriteIn(Len(batches), next_token)
        /\ new.buffer = b /\ new.after = after /\ ~new.raised /\ new.holds = {}
        /\ new.timer = NoTimer /\ new.minted = {} /\ new.answered = {}
    <2>1. asking.force \in Forces /\ after \in AfterIn(Len(batches))
      BY <1>0, <1>3 DEF RequestIn
    <2> QED BY <1>0, <1>3, <2>1 DEF Parked, WriteIn
  <1>6. /\ parked' \in Seq(WriteIn(Len(batches), next_token))
        /\ ToSet(parked') = ToSet(parked) \cup {new}
        /\ \A i \in DOMAIN parked' :
             (i \in DOMAIN parked /\ parked'[i] = parked[i]) \/ (i = Len(parked) + 1 /\ parked'[i] = new)
    <2>1. parked \in Seq(WriteIn(Len(batches), next_token))
      BY <1>1 DEF Typed, WritesTyped
    <2> HIDE DEF WriteIn
    <2> QED BY <1>2, <1>5, <2>1, AppendedSet
  <1>7. \A w \in ToSet(parked) : w.buffer # b
    BY <1>1, <1>2, ParkedWrites
  <1>8. Distinct(parked')
    <2>1. \A i \in DOMAIN parked : parked[i].buffer # b
      BY <1>7 DEF ToSet
    <2>2. Distinct(parked)
      BY <1>1 DEF Typed, WritesTyped
    <2> QED BY <1>5, <1>6, <2>1, <2>2 DEF Distinct
  <1>9. Typed'
    <2>1. WritesTyped'
      <3>1. \A w \in ToSet(parked) : w.buffer \in open
        BY <1>1 DEF Typed, WritesTyped
      <3> HIDE DEF WriteIn
      <3> QED BY <1>2, <1>5, <1>6, <1>8, <3>1 DEF WritesTyped, texts
    <2>2. asking' \in RequestIn(Len(batches'))
      BY <1>2, <1>3
    <2> HIDE DEF WriteIn, RequestIn, Batch
    <2> QED BY <1>1, <1>2, <2>1, <2>2 DEF Typed, TextsTyped, CountersTyped, BatchesTyped,
                                          TimersTyped, texts, config
  <1>10. TimersAreOwn'
    <2>1. ASSUME NEW v \in ToSet(parked'), NEW w \in ToSet(parked'), v.timer = w.timer
          PROVE  v = w \/ v.timer = NoTimer
      BY <1>5, <1>6, <2>1 DEF IInv, TimersAreOwn
    <2>2. \A w \in ToSet(parked') : ~w.raised => w.timer = NoTimer /\ w.holds = {} /\ w.minted = {}
      BY <1>5, <1>6 DEF IInv, TimersAreOwn
    <2>3. \A w \in ToSet(parked') : w.holds # {} =>
            [id |-> w.timer, buffer |-> w.buffer] \in timers
      BY <1>5, <1>6 DEF IInv, TimersAreOwn
    <2>4. /\ \A t, u \in timers : t.id = u.id => t = u
          /\ \A t \in timers : t.buffer \in open =>
               \E w \in ToSet(parked') : w.buffer = t.buffer /\ w.timer = t.id
      BY <1>6 DEF IInv, TimersAreOwn
    <2> QED BY <1>2, <2>1, <2>2, <2>3, <2>4 DEF TimersAreOwn, texts
  <1>11. HoldsAreOpen'
    BY <1>5, <1>6 DEF IInv, HoldsAreOpen
  <1>12. BatchesAreWhole'
    <2> SUFFICES ASSUME NEW id \in 1 .. Len(batches), NEW x
                 PROVE  x \in ParkedIn(id) \cup AskedFor(id) =>
                          x \in ParkedIn(id)' \cup AskedFor(id)'
      <3>1. \A id \in 1 .. Len(batches) : Counted(id)' = Counted(id)
        BY <1>2 DEF Counted
      <3> QED BY <1>2, <3>1 DEF IInv, BatchesAreWhole, texts
    <2>1. ASSUME x \in ParkedIn(id) PROVE x \in ParkedIn(id)'
      BY <1>6, <2>1 DEF ParkedIn
    <2>2. ASSUME x \in AskedFor(id) PROVE x \in ParkedIn(id)' \cup AskedFor(id)'
      <3>1. after = BatchAfter(id) /\ x \in ToSet(asking.todo)
        BY <1>0, <2>2 DEF AskedFor
      <3>2. CASE x = b
        <4>1. InBatch(new, id) /\ new \in ToSet(parked') /\ new.buffer = x
          BY <1>5, <1>6, <3>1, <3>2 DEF InBatch, BatchAfter
        <4> QED BY <4>1 DEF ParkedIn
      <3>3. CASE x # b
        BY <1>0, <1>2, <1>3, <1>4, <3>1, <3>3 DEF AskedFor
      <3> QED BY <3>2, <3>3
    <2> QED BY <2>1, <2>2
  <1> QED BY <1>9, <1>10, <1>11, <1>12 DEF IInv

\* Parked writes change in place.
LEMMA InPlace ==
  ASSUME Typed, BatchesAreWhole, UNCHANGED <<open, batches, asking>>,
         parked' \in Seq(WriteIn(Len(batches), next_token')), Len(parked') = Len(parked),
         \A j \in 1 .. Len(parked) :
           parked'[j].buffer = parked[j].buffer /\ parked'[j].after = parked[j].after
  PROVE  WritesTyped' /\ BatchesAreWhole'
  <1>1. /\ DOMAIN parked = 1 .. Len(parked) /\ DOMAIN parked' = 1 .. Len(parked)
        /\ Distinct(parked) /\ \A w \in ToSet(parked) : w.buffer \in open
    <2> HIDE DEF WriteIn
    <2> QED BY DEF Typed, WritesTyped
  <1>2. Distinct(parked')
    BY <1>1 DEF Distinct
  <1>3. \A w \in ToSet(parked') : w.buffer \in open
    BY <1>1 DEF ToSet
  <1>4. WritesTyped'
    <2> HIDE DEF WriteIn
    <2> QED BY <1>2, <1>3 DEF WritesTyped
  <1>5. ASSUME NEW id PROVE ParkedIn(id) \subseteq ParkedIn(id)'
    <2>1. ASSUME NEW w \in ToSet(parked), InBatch(w, id)
          PROVE  \E v \in ToSet(parked') : InBatch(v, id) /\ v.buffer = w.buffer
      <3>1. PICK j \in 1 .. Len(parked) : parked[j] = w
        BY <1>1 DEF ToSet
      <3>2. parked'[j] \in ToSet(parked')
        BY <1>1 DEF ToSet
      <3>3. InBatch(parked'[j], id) /\ parked'[j].buffer = w.buffer
        BY <2>1, <3>1 DEF InBatch
      <3> QED BY <3>2, <3>3
    <2> QED BY <2>1 DEF ParkedIn
  <1>6. BatchesAreWhole'
    <2>1. \A id \in 1 .. Len(batches) : Counted(id)' = Counted(id) /\ AskedFor(id)' = AskedFor(id)
      BY DEF Counted, AskedFor
    <2> QED BY <1>5, <2>1 DEF BatchesAreWhole
  <1> QED BY <1>4, <1>6

\* Writes that only lose holds keep their timers.
LEMMA AnswersKeepTimers ==
  ASSUME Typed, TimersAreOwn, UNCHANGED <<open, timers>>,
         DOMAIN parked' = DOMAIN parked,
         \A j \in DOMAIN parked :
           /\ parked'[j].buffer = parked[j].buffer /\ parked'[j].timer = parked[j].timer
           /\ parked'[j].holds \subseteq parked[j].holds
           /\ parked'[j].minted \subseteq parked[j].minted
           /\ ~parked'[j].raised => ~parked[j].raised,
         \A j, k \in DOMAIN parked : parked[j] = parked[k] => parked'[j] = parked'[k]
  PROVE  TimersAreOwn'
  <1>1. \A w \in ToSet(parked') : \E j \in DOMAIN parked : w = parked'[j]
    BY DEF ToSet
  <1>2. \A j \in DOMAIN parked : parked[j] \in ToSet(parked) /\ parked'[j] \in ToSet(parked')
    BY DEF ToSet
  <1>3. ASSUME NEW v \in ToSet(parked'), NEW w \in ToSet(parked'), v.timer = w.timer
        PROVE  v = w \/ v.timer = NoTimer
    <2>1. PICK j \in DOMAIN parked : v = parked'[j]
      BY <1>1
    <2>2. PICK k \in DOMAIN parked : w = parked'[k]
      BY <1>1
    <2>3. parked[j] = parked[k] \/ parked[j].timer = NoTimer
      BY <1>2, <1>3, <2>1, <2>2 DEF TimersAreOwn
    <2> QED BY <2>1, <2>2, <2>3
  <1>4. ASSUME NEW w \in ToSet(parked'), ~w.raised
        PROVE  w.timer = NoTimer /\ w.holds = {} /\ w.minted = {}
    <2>1. PICK j \in DOMAIN parked : w = parked'[j]
      BY <1>1
    <2>2. parked[j].timer = NoTimer /\ parked[j].holds = {} /\ parked[j].minted = {}
      BY <1>2, <1>4, <2>1 DEF TimersAreOwn
    <2>3. w.timer = NoTimer /\ w.holds \subseteq {} /\ w.minted \subseteq {}
      BY <2>1, <2>2
    <2> QED BY <2>3
  <1>5. ASSUME NEW w \in ToSet(parked'), w.holds # {}
        PROVE  [id |-> w.timer, buffer |-> w.buffer] \in timers
    <2>1. PICK j \in DOMAIN parked : w = parked'[j]
      BY <1>1
    <2>2. w.timer = parked[j].timer /\ w.buffer = parked[j].buffer /\ parked[j].holds # {}
      BY <1>5, <2>1
    <2> QED BY <1>2, <2>2 DEF TimersAreOwn
  <1>6. ASSUME NEW t \in timers, t.buffer \in open
        PROVE  \E w \in ToSet(parked') : w.buffer = t.buffer /\ w.timer = t.id
    <2>1. PICK v \in ToSet(parked) : v.buffer = t.buffer /\ v.timer = t.id
      BY <1>6 DEF TimersAreOwn
    <2>2. PICK j \in DOMAIN parked : v = parked[j]
      BY DEF ToSet
    <2>3. parked'[j] \in ToSet(parked') /\ parked'[j].buffer = t.buffer /\ parked'[j].timer = t.id
      BY <1>2, <2>1, <2>2
    <2> QED BY <2>3
  <1>7. \A t, u \in timers : t.id = u.id => t = u
    BY DEF TimersAreOwn
  <1> QED BY <1>3, <1>4, <1>5, <1>6, <1>7 DEF TimersAreOwn

LEMMA DoneStep ==
  ASSUME IInv, NEW hold \in 1 .. next_token - 1, Done(hold)
  PROVE  IInv'
  <1>1. Typed /\ TimersAreOwn /\ BatchesAreWhole
    BY DEF IInv
  <1>2. /\ parked' = [i \in DOMAIN parked |-> Answer(parked[i], hold)]
        /\ UNCHANGED <<texts, config, batches, asking, timers, next_token, requests, exited>>
    BY DEF Done
  <1>3. DOMAIN parked = 1 .. Len(parked) /\ Len(parked) \in Nat
        /\ \A j \in DOMAIN parked : parked[j] \in WriteIn(Len(batches), next_token)
    <2> HIDE DEF WriteIn
    <2> QED BY <1>1 DEF Typed, WritesTyped
  <1>4. ASSUME NEW w \in WriteIn(Len(batches), next_token)
        PROVE  /\ Answer(w, hold) \in WriteIn(Len(batches), next_token)
               /\ Answer(w, hold).buffer = w.buffer /\ Answer(w, hold).timer = w.timer
               /\ Answer(w, hold).after = w.after /\ Answer(w, hold).raised = w.raised
               /\ Answer(w, hold).minted = w.minted
               /\ Answer(w, hold).holds = w.holds \ {hold}
               /\ Answer(w, hold).answered = w.answered \cup ({hold} \cap w.minted)
    BY DEF Answer, WriteIn
  <1>5. /\ \A j \in DOMAIN parked : parked'[j] = Answer(parked[j], hold)
        /\ DOMAIN parked' = DOMAIN parked
    BY <1>2
  <1>6. parked' \in Seq(WriteIn(Len(batches), next_token)) /\ Len(parked') = Len(parked)
    <2>1. \A j \in 1 .. Len(parked) : Answer(parked[j], hold) \in WriteIn(Len(batches), next_token)
      BY <1>3, <1>4
    <2>2. parked' = [j \in 1 .. Len(parked) |-> Answer(parked[j], hold)]
      BY <1>2, <1>3
    <2> HIDE DEF WriteIn, Answer
    <2> QED BY <1>3, <2>1, <2>2
  <1>7. WritesTyped' /\ BatchesAreWhole'
    <2>1. \A j \in 1 .. Len(parked) :
            parked'[j].buffer = parked[j].buffer /\ parked'[j].after = parked[j].after
      BY <1>3, <1>4, <1>5
    <2> HIDE DEF WriteIn
    <2> QED BY <1>1, <1>2, <1>6, <2>1, InPlace DEF texts
  <1>8. Typed'
    <2> HIDE DEF WriteIn, RequestIn, Batch
    <2> QED BY <1>1, <1>2, <1>7 DEF Typed, TextsTyped, CountersTyped, BatchesTyped,
                                    TimersTyped, texts, config
  <1>9. TimersAreOwn'
    <2>1. \A j \in DOMAIN parked :
           /\ parked'[j].buffer = parked[j].buffer /\ parked'[j].timer = parked[j].timer
           /\ parked'[j].holds \subseteq parked[j].holds
           /\ parked'[j].minted \subseteq parked[j].minted
           /\ ~parked'[j].raised => ~parked[j].raised
      <3> SUFFICES ASSUME NEW j \in DOMAIN parked
                   PROVE  /\ Answer(parked[j], hold).buffer = parked[j].buffer
                          /\ Answer(parked[j], hold).timer = parked[j].timer
                          /\ Answer(parked[j], hold).holds \subseteq parked[j].holds
                          /\ Answer(parked[j], hold).minted \subseteq parked[j].minted
                          /\ ~Answer(parked[j], hold).raised => ~parked[j].raised
        BY <1>5
      <3>1. parked[j] \in WriteIn(Len(batches), next_token)
        BY <1>3
      <3> HIDE DEF Answer, WriteIn
      <3> QED BY <1>4, <3>1
    <2>2. \A j, k \in DOMAIN parked : parked[j] = parked[k] => parked'[j] = parked'[k]
      BY <1>5
    <2> QED BY <1>1, <1>2, <1>5, <2>1, <2>2, AnswersKeepTimers DEF texts
  <1>10. HoldsAreOpen'
    <2> SUFFICES ASSUME NEW w \in ToSet(parked')
                 PROVE  w.minted \subseteq w.holds \cup w.answered
      BY DEF HoldsAreOpen
    <2>1. PICK j \in DOMAIN parked : w = Answer(parked[j], hold)
      BY <1>5 DEF ToSet
    <2> DEFINE v == parked[j]
    <2>2. v \in WriteIn(Len(batches), next_token) /\ v \in ToSet(parked)
      BY <1>3 DEF ToSet
    <2>3. v.minted \subseteq v.holds \cup v.answered
      BY <2>2 DEF IInv, HoldsAreOpen
    <2>4. /\ w.minted = v.minted /\ w.holds = v.holds \ {hold}
          /\ w.answered = v.answered \cup ({hold} \cap v.minted)
      BY <1>4, <2>1, <2>2
    <2> QED BY <2>3, <2>4
  <1> QED BY <1>7, <1>8, <1>9, <1>10 DEF IInv

LEMMA ReloadConfigStep ==
  ASSUME IInv, ReloadConfig
  PROVE  IInv'
  <1> DEFINE Released(w) == [w EXCEPT !.raised = TRUE, !.holds = {}, !.minted = {}]
  <1>1. Typed /\ TimersAreOwn /\ BatchesAreWhole
    BY DEF IInv
  <1>2. /\ parked' = [i \in DOMAIN parked |-> Released(parked[i])]
        /\ handlers' \in HandlersOf /\ lazy' \in BOOLEAN
        /\ UNCHANGED <<texts, batches, asking, timers, next_token, requests, exited>>
    BY DEF ReloadConfig
  <1>3. DOMAIN parked = 1 .. Len(parked) /\ Len(parked) \in Nat
        /\ \A j \in DOMAIN parked : parked[j] \in WriteIn(Len(batches), next_token)
    <2> HIDE DEF WriteIn
    <2> QED BY <1>1 DEF Typed, WritesTyped
  <1>4. ASSUME NEW w \in WriteIn(Len(batches), next_token)
        PROVE  /\ Released(w) \in WriteIn(Len(batches), next_token)
               /\ Released(w).buffer = w.buffer /\ Released(w).timer = w.timer
               /\ Released(w).after = w.after /\ Released(w).raised
               /\ Released(w).minted = {} /\ Released(w).holds = {}
    BY DEF WriteIn
  <1>5. /\ \A j \in DOMAIN parked : parked'[j] = Released(parked[j])
        /\ DOMAIN parked' = DOMAIN parked
    BY <1>2
  <1> HIDE DEF Released
  <1>6. parked' \in Seq(WriteIn(Len(batches), next_token)) /\ Len(parked') = Len(parked)
    <2>1. \A j \in 1 .. Len(parked) : Released(parked[j]) \in WriteIn(Len(batches), next_token)
      BY <1>3, <1>4
    <2>2. parked' = [j \in 1 .. Len(parked) |-> Released(parked[j])]
      BY <1>2, <1>3
    <2> HIDE DEF WriteIn
    <2> QED BY <1>3, <2>1, <2>2
  <1>7. \A j \in DOMAIN parked :
          /\ parked'[j].buffer = parked[j].buffer /\ parked'[j].after = parked[j].after
          /\ parked'[j].timer = parked[j].timer /\ parked'[j].raised
          /\ parked'[j].minted = {} /\ parked'[j].holds = {}
    <2> SUFFICES ASSUME NEW j \in DOMAIN parked
                 PROVE  /\ Released(parked[j]).buffer = parked[j].buffer
                        /\ Released(parked[j]).after = parked[j].after
                        /\ Released(parked[j]).timer = parked[j].timer
                        /\ Released(parked[j]).raised
                        /\ Released(parked[j]).minted = {} /\ Released(parked[j]).holds = {}
      BY <1>5
    <2>1. parked[j] \in WriteIn(Len(batches), next_token)
      BY <1>3
    <2> HIDE DEF WriteIn
    <2> QED BY <1>4, <2>1
  <1>8. WritesTyped' /\ BatchesAreWhole'
    <2> HIDE DEF WriteIn
    <2> QED BY <1>1, <1>2, <1>3, <1>6, <1>7, InPlace DEF texts
  <1>9. Typed'
    <2> HIDE DEF WriteIn, RequestIn, Batch
    <2> QED BY <1>1, <1>2, <1>8 DEF Typed, TextsTyped, CountersTyped, BatchesTyped,
                                    TimersTyped, texts
  <1>10. TimersAreOwn'
    <2>1. \A j \in DOMAIN parked :
           /\ parked'[j].buffer = parked[j].buffer /\ parked'[j].timer = parked[j].timer
           /\ parked'[j].holds \subseteq parked[j].holds
           /\ parked'[j].minted \subseteq parked[j].minted
           /\ ~parked'[j].raised => ~parked[j].raised
      BY <1>7
    <2>2. \A j, k \in DOMAIN parked : parked[j] = parked[k] => parked'[j] = parked'[k]
      BY <1>5
    <2> QED BY <1>1, <1>2, <1>5, <2>1, <2>2, AnswersKeepTimers DEF texts
  <1>11. HoldsAreOpen'
    <2>1. \A w \in ToSet(parked') : \E j \in DOMAIN parked : w = parked'[j]
      BY <1>5 DEF ToSet
    <2> QED BY <1>7, <2>1 DEF HoldsAreOpen
  <1> QED BY <1>8, <1>9, <1>10, <1>11 DEF IInv

LEMMA RaiseStep ==
  ASSUME IInv, Raise
  PROVE  IInv'
  <1>1. Typed /\ TimersAreOwn /\ BatchesAreWhole
    BY DEF IInv
  <1>2. DOMAIN parked = 1 .. Len(parked) /\ Len(parked) \in Nat
        /\ \A j \in DOMAIN parked : parked[j] \in WriteIn(Len(batches), next_token)
    <2> HIDE DEF WriteIn
    <2> QED BY <1>1 DEF Typed, WritesTyped
  <1>3. PICK i : i = First(Unraised) /\ i \in DOMAIN parked /\ ~parked[i].raised
    <2>1. Unraised \in SUBSET (1 .. Len(parked)) /\ Unraised # {}
      BY <1>2 DEF Raise, Unraised
    <2>2. First(Unraised) \in Unraised
      BY <1>2, <2>1, FirstIsOne
    <2> QED BY <2>2 DEF Unraised
  <1>4. PICK w : w = parked[i]
    OBVIOUS
  <1>5. PICK count : count = IF handlers[w.buffer] = NoHook THEN 0 ELSE handlers[w.buffer]
    OBVIOUS
  <1>6. PICK holds, timer : /\ holds = next_token .. (next_token + count - 1)
                            /\ timer = IF count = 0 THEN NoTimer ELSE next_token + count
    OBVIOUS
  <1>7. PICK new : new = [w EXCEPT !.raised = TRUE, !.holds = holds, !.minted = holds, !.timer = timer]
    OBVIOUS
  <1>8. /\ parked' = [parked EXCEPT ![i].raised = TRUE, ![i].holds = holds,
                                    ![i].minted = holds, ![i].timer = timer]
        /\ timers' = IF count = 0 THEN timers
                     ELSE timers \cup {[id |-> timer, buffer |-> w.buffer]}
        /\ next_token' = NextToken(count)
        /\ asking = Idle
        /\ UNCHANGED <<texts, config, batches, asking, requests, exited>>
    BY <1>3, <1>4, <1>5, <1>6 DEF Raise, Free
  <1>9. w \in WriteIn(Len(batches), next_token) /\ w \in ToSet(parked) /\ ~w.raised
    BY <1>2, <1>3, <1>4 DEF ToSet
  <1>10. /\ new \in [buffer : {w.buffer}, force : {w.force}, after : {w.after}, raised : {TRUE},
                     holds : {holds}, timer : {timer}, minted : {holds}, answered : {w.answered}]
         /\ w.buffer \in BufferId /\ w.force \in Forces /\ w.after \in AfterIn(Len(batches))
         /\ w.answered \subseteq 1 .. next_token - 1
    <2> HIDE DEF AfterIn
    <2> QED BY <1>7, <1>9 DEF WriteIn
  <1>11. parked' = [parked EXCEPT ![i] = new]
    BY <1>3, <1>4, <1>7, <1>8, <1>9 DEF WriteIn
  <1>12. count \in Nat /\ next_token \in Nat /\ next_token # 0 /\ next_token' \in Nat
         /\ next_token <= next_token' /\ (count # 0 => next_token' = next_token + count + 1)
         /\ next_token' # 0
    <2>1. handlers[w.buffer] \in HandlerCounts \cup {NoHook} /\ HandlerCounts \subseteq Nat
      BY <1>1, <1>10, BeforeSaveAssumption DEF Typed, TextsTyped, HandlersOf, BeforeSaveAssumption
    <2>2. count \in Nat /\ next_token \in Nat /\ next_token # 0
      BY <1>1, <1>5, <2>1 DEF Typed, CountersTyped
    <2> QED BY <1>8, <2>2 DEF NextToken
  <1>13. /\ holds \subseteq 1 .. next_token' - 1
         /\ holds # {} => count # 0
         /\ timer \in 1 .. next_token' - 1 \cup {NoTimer}
         /\ count # 0 => timer \in 1 .. next_token' - 1 /\ timer >= next_token
    <2>1. CASE count = 0
      <3>1. holds = {} /\ timer = NoTimer
        BY <1>6, <1>12, <2>1
      <3> QED BY <2>1, <3>1
    <2>2. CASE count # 0
      <3>1. /\ timer = next_token + count /\ next_token' = next_token + count + 1
            /\ holds = next_token .. (next_token + count - 1)
        BY <1>6, <1>12, <2>2
      <3>2. timer \in 1 .. next_token' - 1 /\ timer >= next_token
        BY <1>12, <3>1
      <3>3. holds \subseteq 1 .. next_token' - 1
        BY <1>12, <3>1
      <3> QED BY <2>2, <3>2, <3>3
    <2> QED BY <2>1, <2>2
  <1>14. new \in WriteIn(Len(batches), next_token')
    <2>1. w.answered \subseteq 1 .. next_token' - 1
      BY <1>10, <1>12
    <2> HIDE DEF AfterIn
    <2> QED BY <1>10, <1>13, <2>1 DEF WriteIn
  <1>15. /\ new.buffer = w.buffer /\ new.after = w.after /\ new.raised /\ new.holds = holds
         /\ new.minted = holds /\ new.timer = timer
    BY <1>10
  <1>16. parked' \in Seq(WriteIn(Len(batches), next_token')) /\ Len(parked') = Len(parked)
         /\ parked'[i] = new /\ \A j \in 1 .. Len(parked) : j # i => parked'[j] = parked[j]
    <2>1. parked \in Seq(WriteIn(Len(batches), next_token')) /\ Len(batches) \in Nat
      <3>1. Len(batches) \in Nat /\ parked \in Seq(WriteIn(Len(batches), next_token))
        BY <1>1 DEF Typed, BatchesTyped, WritesTyped
      <3> HIDE DEF WriteIn
      <3> QED BY <1>12, <3>1, WritesGrow
    <2> HIDE DEF WriteIn
    <2> QED BY <1>2, <1>3, <1>11, <1>14, <2>1, ExceptSeq
  <1>17. \A j \in 1 .. Len(parked) :
            parked'[j].buffer = parked[j].buffer /\ parked'[j].after = parked[j].after
    BY <1>4, <1>15, <1>16
  <1>18. WritesTyped' /\ BatchesAreWhole'
    <2> HIDE DEF WriteIn
    <2> QED BY <1>1, <1>8, <1>16, <1>17, InPlace DEF texts
  <1>19. TimersTyped'
    <2>1. \A t \in timers : t \in [id : 1 .. next_token' - 1, buffer : BufferId]
      BY <1>1, <1>12 DEF Typed, TimersTyped
    <2>2. count # 0 => [id |-> timer, buffer |-> w.buffer] \in [id : 1 .. next_token' - 1, buffer : BufferId]
      BY <1>10, <1>12, <1>13
    <2> QED BY <1>8, <2>1, <2>2 DEF TimersTyped
  <1>20. Typed'
    <2> HIDE DEF WriteIn, RequestIn, Batch
    <2> QED BY <1>1, <1>8, <1>12, <1>18, <1>19 DEF Typed, TextsTyped, CountersTyped, BatchesTyped,
                                                  texts, config
  <1>21. /\ \A v \in ToSet(parked') : v = new \/ (v \in ToSet(parked) /\ v # w)
         /\ \A v \in ToSet(parked) : v \in ToSet(parked') \/ v = w
         /\ new \in ToSet(parked')
    <2>1. DOMAIN parked' = 1 .. Len(parked)
      <3> HIDE DEF WriteIn
      <3> QED BY <1>16
    <2>2. \A j \in 1 .. Len(parked) : j # i => parked[j] # w
      BY <1>1, <1>2, <1>3, <1>4 DEF Typed, WritesTyped, Distinct
    <2>3. \A v \in ToSet(parked') : v = new \/ (v \in ToSet(parked) /\ v # w)
      BY <1>2, <1>16, <2>1, <2>2 DEF ToSet
    <2>4. \A v \in ToSet(parked) : v \in ToSet(parked') \/ v = w
      BY <1>2, <1>4, <1>16, <2>1 DEF ToSet
    <2>5. new \in ToSet(parked')
      BY <1>2, <1>3, <1>16, <2>1 DEF ToSet
    <2> QED BY <2>3, <2>4, <2>5
  <1>22. TimersAreOwn'
    <2>1. \A t \in timers : t.id \in 1 .. next_token - 1
      BY <1>1 DEF Typed, TimersTyped
    <2>2. \A v \in ToSet(parked) : v.timer \in 1 .. next_token - 1 \cup {NoTimer}
      BY <1>1, ParkedWrites DEF WriteIn
    <2>3. NoTimer \notin Nat
      BY BeforeSaveAssumption DEF BeforeSaveAssumption
    <2>4. count # 0 => /\ \A t \in timers : t.id # timer
                       /\ \A v \in ToSet(parked) : v.timer # timer
      BY <1>12, <1>13, <2>1, <2>2, <2>3
    <2>5. count = 0 => timer = NoTimer /\ holds = {}
      BY <1>6, <1>12
    <2>6. \A t, u \in timers' : t.id = u.id => t = u
      <3>1. CASE count = 0
        BY <1>1, <1>8, <3>1 DEF TimersAreOwn
      <3>2. CASE count # 0
        BY <1>1, <1>8, <2>4, <3>2 DEF TimersAreOwn
      <3> QED BY <3>1, <3>2
    <2>7. ASSUME NEW u \in ToSet(parked'), NEW v \in ToSet(parked'), u.timer = v.timer
          PROVE  u = v \/ u.timer = NoTimer
      <3>1. CASE u = new /\ v = new
        BY <3>1
      <3>2. CASE (u = new /\ v # new) \/ (u # new /\ v = new)
        BY <1>15, <1>21, <2>4, <2>5, <2>7, <3>2
      <3>3. CASE u # new /\ v # new
        BY <1>1, <1>21, <2>7, <3>3 DEF TimersAreOwn
      <3> QED BY <3>1, <3>2, <3>3
    <2>8. \A v \in ToSet(parked') : ~v.raised => v.timer = NoTimer /\ v.holds = {} /\ v.minted = {}
      BY <1>1, <1>15, <1>21 DEF TimersAreOwn
    <2>9. ASSUME NEW v \in ToSet(parked'), v.holds # {}
          PROVE  [id |-> v.timer, buffer |-> v.buffer] \in timers'
      <3>1. CASE v = new
        BY <1>8, <1>13, <1>15, <2>9, <3>1
      <3>2. CASE v # new
        BY <1>1, <1>8, <1>21, <2>9, <3>2 DEF TimersAreOwn
      <3> QED BY <3>1, <3>2
    <2>10. ASSUME NEW t \in timers', t.buffer \in open
           PROVE  \E v \in ToSet(parked') : v.buffer = t.buffer /\ v.timer = t.id
      <3>1. CASE t \in timers
        <4>1. PICK v \in ToSet(parked) : v.buffer = t.buffer /\ v.timer = t.id
          BY <1>1, <2>10, <3>1 DEF TimersAreOwn
        <4>2. v # w
          <5>1. w.timer = NoTimer
            BY <1>1, <1>9 DEF TimersAreOwn
          <5>2. t.id # NoTimer
            BY <1>1, <3>1, TimersAreTokens
          <5> QED BY <4>1, <5>1, <5>2
        <4> QED BY <1>21, <4>1, <4>2
      <3>2. CASE t \notin timers
        <4>1. count # 0 /\ t = [id |-> timer, buffer |-> w.buffer]
          BY <1>8, <2>10, <3>2
        <4> QED BY <1>15, <1>21, <4>1
      <3> QED BY <3>1, <3>2
    <2> QED BY <1>8, <2>6, <2>7, <2>8, <2>9, <2>10 DEF TimersAreOwn, texts
  <1>23. HoldsAreOpen'
    BY <1>15, <1>21 DEF IInv, HoldsAreOpen
  <1> QED BY <1>18, <1>20, <1>22, <1>23 DEF IInv

-----------------------------------------------------------------------------
(* The commands and what surrounds them *)

\* The orders of a set hold each of its elements.
LEMMA OrdersOfSet ==
  ASSUME NEW S, IsFiniteSet(S), NEW s \in SetToSeqs(S)
  PROVE  s \in Seq(S) /\ ToSet(s) = S
  <1> DEFINE n == Cardinality(S)
             D == 1 .. n
  <1>1. n \in Nat
    BY FS_CardinalityType
  <1>2. s \in [D -> S] /\ \A i, j \in D : i # j => s[i] # s[j]
    BY DEF SetToSeqs
  <1>3. IsFiniteSet(D) /\ Cardinality(D) = n
    BY <1>1, FS_Interval
  <1>4. s \in Injection(D, S)
    BY <1>2 DEF Injection, IsInjective
  <1>5. s \in Surjection(D, S)
    <2> HIDE DEF D, n
    <2>1. Cardinality(D) = Cardinality(S)
      BY <1>3 DEF n
    <2> QED BY <1>3, <1>4, <2>1, FS_Injection
  <1>6. ToSet(s) = S
    BY <1>2, <1>5 DEF Surjection, ToSet
  <1>7. s \in Seq(S)
    BY <1>1, <1>2
  <1> QED BY <1>6, <1>7

\* Commands and other programs leave parked writes as they are.
LEMMA NothingParked ==
  ASSUME IInv, TextsTyped',
         UNCHANGED <<open, parked, batches, timers, next_token, asking, requests>>
  PROVE  IInv'
  <1>1. Typed'
    <2> HIDE DEF WriteIn, RequestIn, Batch
    <2> QED BY DEF IInv, Typed, CountersTyped, BatchesTyped, WritesTyped, TimersTyped
  <1>2. TimersAreOwn' /\ HoldsAreOpen'
    BY DEF IInv, TimersAreOwn, HoldsAreOpen
  <1>3. BatchesAreWhole'
    <2>1. \A id \in 1 .. Len(batches) :
            /\ Counted(id)' = Counted(id) /\ ParkedIn(id)' = ParkedIn(id)
            /\ AskedFor(id) \subseteq AskedFor(id)'
      BY DEF Counted, ParkedIn, AskedFor
    <2> QED BY <2>1 DEF IInv, BatchesAreWhole
  <1> QED BY <1>1, <1>2, <1>3 DEF IInv

LEMMA TypedWriteStep ==
  ASSUME IInv, NEW b \in BufferId, NEW force \in Forces,
         NEW after \in {NothingAfter, QuitAfter}, TypedWrite(b, force, after)
  PROVE  IInv'
  <1>1. /\ asking = Idle /\ asking' = [todo |-> <<b>>, force |-> force, after |-> after]
        /\ requests < MaxRequests /\ requests' = requests + 1
        /\ UNCHANGED <<texts, config, parked, batches, timers, next_token, exited>>
    BY DEF TypedWrite, Ask, Free
  <1>2. asking' \in RequestIn(Len(batches))
    BY <1>1 DEF RequestIn, AfterIn
  <1>3. TextsTyped' /\ CountersTyped' /\ Len(batches) <= requests'
    <2>1. MaxRequests \in Nat
      BY BeforeSaveAssumption DEF BeforeSaveAssumption
    <2> QED BY <1>1, <2>1 DEF IInv, Typed, TextsTyped, CountersTyped, BatchesTyped, texts, config
  <1>4. Typed'
    <2> HIDE DEF WriteIn, RequestIn, Batch
    <2> QED BY <1>1, <1>2, <1>3 DEF IInv, Typed, BatchesTyped, WritesTyped, TimersTyped, texts
  <1>5. TimersAreOwn' /\ HoldsAreOpen'
    BY <1>1 DEF IInv, TimersAreOwn, HoldsAreOpen, texts
  <1>6. BatchesAreWhole'
    <2>1. \A id \in 1 .. Len(batches) :
            /\ Counted(id)' = Counted(id) /\ ParkedIn(id)' = ParkedIn(id) /\ AskedFor(id) = {}
      BY <1>1 DEF Counted, ParkedIn, AskedFor
    <2> QED BY <1>1, <2>1 DEF IInv, BatchesAreWhole, texts
  <1> QED BY <1>4, <1>5, <1>6 DEF IInv

LEMMA TypedWriteAllStep ==
  ASSUME IInv, NEW force \in Forces, TypedWriteAll(force)
  PROVE  IInv'
  <1> DEFINE new == [members |-> Unsaved, sealed |-> FALSE, ended |-> FALSE,
                     reported |-> FALSE, outcomes |-> [o \in BatchOutcome |-> {}]]
             n == Len(batches)
  <1>1. Typed
    BY DEF IInv
  <1>2. PICK todo \in SetToSeqs(Unsaved) :
          /\ batches' = Append(batches, new)
          /\ asking = Idle
          /\ asking' = [todo |-> todo, force |-> force, after |-> BatchAfter(n + 1)]
          /\ requests < MaxRequests /\ requests' = requests + 1
          /\ UNCHANGED <<texts, config, parked, timers, next_token, exited>>
    BY DEF TypedWriteAll, Ask, Free
  <1>3. Unsaved \subseteq BufferId /\ todo \in Seq(BufferId) /\ ToSet(todo) = Unsaved
    <2>1. Unsaved \subseteq BufferId
      BY <1>1 DEF Typed, TextsTyped, Unsaved
    <2>2. IsFiniteSet(Unsaved)
      BY <2>1, BeforeSaveAssumption, FS_Subset DEF BeforeSaveAssumption
    <2>3. todo \in Seq(Unsaved) /\ ToSet(todo) = Unsaved
      BY <2>2, OrdersOfSet
    <2> QED BY <2>1, <2>3, SeqMonotonic
  <1>4. new \in Batch
    BY <1>3 DEF Batch
  <1>5. batches \in Seq(Batch) /\ n \in Nat /\ n <= requests
    BY <1>1 DEF Typed, BatchesTyped
  <1>6. /\ batches' \in Seq(Batch) /\ Len(batches') = n + 1 /\ batches'[n + 1] = new
        /\ \A i \in 1 .. n : batches'[i] = batches[i]
    <2> HIDE DEF new, Batch
    <2> QED BY <1>2, <1>4, <1>5, AppendProperties
  <1> HIDE DEF new
  <1>7. asking' \in RequestIn(n + 1) /\ asking' # Idle
    <2>1. BatchAfter(n + 1) \in AfterIn(n + 1)
      BY <1>5 DEF AfterIn
    <2>2. asking' \in RequestIn(n + 1)
      BY <1>2, <1>3, <2>1 DEF RequestIn
    <2>3. asking' \in Request
      <3>1. MaxRequests \in Nat /\ requests \in Nat
        BY <1>1, BeforeSaveAssumption DEF Typed, CountersTyped, BeforeSaveAssumption
      <3>2. n + 1 \in 1 .. MaxRequests
        BY <1>2, <1>5, <3>1
      <3>3. BatchAfter(n + 1) \in After
        BY <3>2 DEF After
      <3> QED BY <1>2, <1>3, <3>3 DEF Request
    <2> QED BY <2>2, <2>3, BeforeSaveAssumption DEF BeforeSaveAssumption
  <1>8. CountersTyped' /\ Len(batches') <= requests'
    <2>1. MaxRequests \in Nat
      BY BeforeSaveAssumption DEF BeforeSaveAssumption
    <2> QED BY <1>1, <1>2, <1>5, <1>6, <2>1 DEF Typed, CountersTyped
  <1>9. Typed'
    <2>1. TextsTyped' /\ TimersTyped'
      BY <1>1, <1>2 DEF Typed, TextsTyped, TimersTyped, texts, config
    <2>2. WritesTyped'
      <3>1. /\ parked \in Seq(WriteIn(n, next_token)) /\ Distinct(parked)
            /\ \A w \in ToSet(parked) : w.buffer \in open
        BY <1>1 DEF Typed, WritesTyped
      <3>2. parked \in Seq(WriteIn(n + 1, next_token))
        <4>1. next_token \in Nat /\ next_token <= next_token /\ n <= n + 1 /\ n + 1 \in Nat
          BY <1>1, <1>5 DEF Typed, CountersTyped
        <4> HIDE DEF n, WriteIn
        <4> QED BY <1>5, <3>1, <4>1, WritesGrow
      <3> HIDE DEF WriteIn
      <3> QED BY <1>2, <1>6, <3>1, <3>2 DEF WritesTyped, texts
    <2>3. BatchesTyped'
      <3> HIDE DEF RequestIn, Batch
      <3> QED BY <1>6, <1>7, <1>8 DEF BatchesTyped
    <2> QED BY <1>8, <2>1, <2>2, <2>3 DEF Typed
  <1>10. TimersAreOwn' /\ HoldsAreOpen'
    BY <1>2 DEF IInv, TimersAreOwn, HoldsAreOpen, texts
  <1>11. BatchesAreWhole'
    <2> SUFFICES ASSUME NEW id \in 1 .. n + 1
                 PROVE  /\ ~batches'[id].ended =>
                             batches'[id].members \cap open' \subseteq
                               Counted(id)' \cup ParkedIn(id)' \cup AskedFor(id)'
                        /\ batches'[id].reported =>
                             batches'[id].members \cap open' \subseteq Counted(id)'
      BY <1>6 DEF BatchesAreWhole
    <2>1. CASE id = n + 1
      <3>1. batches'[id].members = ToSet(todo) /\ ~batches'[id].reported
        BY <1>3, <1>6, <2>1 DEF new
      <3>2. AskedFor(id)' = ToSet(todo)
        BY <1>2, <1>7, <2>1 DEF AskedFor
      <3> QED BY <3>1, <3>2
    <2>2. CASE id # n + 1
      <3>1. id \in 1 .. n
        BY <1>5, <2>2
      <3>2. /\ batches'[id] = batches[id] /\ AskedFor(id) = {}
            /\ Counted(id)' = Counted(id) /\ ParkedIn(id)' = ParkedIn(id)
        BY <1>2, <1>6, <3>1 DEF Counted, ParkedIn, AskedFor
      <3> QED BY <1>2, <3>1, <3>2 DEF IInv, BatchesAreWhole, texts
    <2> QED BY <2>1, <2>2
  <1> QED BY <1>9, <1>10, <1>11 DEF IInv

\* The user, other programs and the language of a buffer.
LEMMA SurroundingStep ==
  ASSUME IInv,
         \/ \E b \in BufferId : SetLanguage(b) \/ Edit(b) \/ ExternalWrite(b)
         \/ \E force \in Forces : QuitAll(force)
         \/ UNCHANGED vars
  PROVE  IInv'
  <1>1. Typed
    BY DEF IInv
  <1>2. UNCHANGED <<open, lazy, parked, batches, timers, next_token, asking, requests>>
    BY DEF SetLanguage, Edit, ExternalWrite, QuitAll, vars, texts, config
  <1>3. TextsTyped'
    <2>1. ASSUME NEW b \in BufferId, SetLanguage(b) PROVE TextsTyped'
      <3>1. handlers' \in HandlersOf
        BY <1>1, <2>1 DEF Typed, TextsTyped, SetLanguage, HandlersOf
      <3> QED BY <1>1, <1>2, <2>1, <3>1 DEF Typed, TextsTyped, SetLanguage, texts
    <2>2. ASSUME NEW b \in BufferId, Edit(b) \/ ExternalWrite(b) PROVE TextsTyped'
      BY <1>1, <2>2 DEF Typed, TextsTyped, Edit, ExternalWrite, config
    <2>3. ASSUME (\E force \in Forces : QuitAll(force)) \/ UNCHANGED vars PROVE TextsTyped'
      BY <1>1, <2>3 DEF Typed, TextsTyped, QuitAll, vars, texts, config
    <2> QED BY <2>1, <2>2, <2>3
  <1> QED BY <1>2, <1>3, NothingParked

-----------------------------------------------------------------------------
(* The theorems *)

LEMMA InitInvariant ==
  ASSUME Init
  PROVE  IInv
  <1>1. TextsTyped /\ CountersTyped /\ BatchesTyped /\ TimersTyped
    <2>1. TextsTyped /\ TimersTyped
      BY DEF Init, TextsTyped, TimersTyped
    <2>2. CountersTyped
      BY BeforeSaveAssumption DEF Init, CountersTyped, BeforeSaveAssumption
    <2>3. BatchesTyped
      <3> HIDE DEF Batch
      <3> QED BY EmptySeq DEF Init, BatchesTyped
    <2> QED BY <2>1, <2>2, <2>3
  <1>2. parked = <<>> /\ batches = <<>> /\ timers = {}
    BY DEF Init
  <1>3. ToSet(parked) = {} /\ DOMAIN parked = {}
    BY <1>2 DEF ToSet
  <1>4. WritesTyped
    <2> HIDE DEF WriteIn
    <2> QED BY <1>2, <1>3, EmptySeq DEF WritesTyped, Distinct
  <1>5. TimersAreOwn /\ HoldsAreOpen /\ BatchesAreWhole
    BY <1>2, <1>3 DEF TimersAreOwn, HoldsAreOpen, BatchesAreWhole
  <1> QED BY <1>1, <1>4, <1>5 DEF IInv, Typed

LEMMA NextInvariant ==
  ASSUME IInv, [Next]_vars
  PROVE  IInv'
  <1>1. ASSUME Loop PROVE IInv'
    BY <1>1, ActivateLazyStep, WriteNowStep, AlreadyParkedStep, ParkStep, RequestedStep,
       RaiseStep, CommitReadyStep, ReportFinishedStep, TimedOutStep DEF Loop
  <1>2. ASSUME NEW b \in BufferId, NEW force \in Forces, NEW after \in {NothingAfter, QuitAfter},
               TypedWrite(b, force, after)
        PROVE  IInv'
    BY <1>2, TypedWriteStep
  <1>3. ASSUME NEW force \in Forces, TypedWriteAll(force) PROVE IInv'
    BY <1>3, TypedWriteAllStep
  <1>4. ASSUME NEW hold \in 1 .. (next_token - 1), Done(hold) PROVE IInv'
    BY <1>4, DoneStep
  <1>5. ASSUME NEW b \in BufferId, NEW force \in Forces, Close(b, force) PROVE IInv'
    BY <1>5, CloseStep
  <1> QED BY <1>1, <1>2, <1>3, <1>4, <1>5, ReloadConfigStep, SurroundingStep DEF Next

LEMMA Invariance == Spec => []IInv
  <1>1. Init => IInv
    BY InitInvariant
  <1>2. IInv /\ [Next]_vars => IInv'
    BY NextInvariant
  <1> QED BY <1>1, <1>2, PTL DEF Spec

\* A write that waits has its timer, and a timer names only the write it was
\* armed for: no commit, failed batch or closed buffer cancels the one or leaves
\* the other behind to cut a later write short.
THEOREM TimersMatchWritesAlways == Spec => []TimersMatchWrites
  <1>1. IInv => TimersMatchWrites
    <2> SUFFICES ASSUME IInv, NEW t \in timers, t.buffer \in open
                 PROVE  t.buffer \in ParkedBuffers /\ WriteOf(t.buffer).timer = t.id
      BY DEF IInv, TimersAreOwn, TimersMatchWrites
    <2>1. PICK w \in ToSet(parked) : w.buffer = t.buffer /\ w.timer = t.id
      BY DEF IInv, TimersAreOwn
    <2>2. ParkedBuffers = {v.buffer : v \in ToSet(parked)} /\ WriteOf(w.buffer) = w
      BY ParkedWrites DEF IInv
    <2> QED BY <2>1, <2>2
  <1> QED BY <1>1, Invariance, PTL

\* A write goes ahead only once every handler that took `done` for it called it,
\* or the handlers are gone.
THEOREM ReadyWasAnsweredAlways == Spec => []ReadyWasAnswered
  <1>1. IInv => ReadyWasAnswered
    BY DEF IInv, HoldsAreOpen, ReadyWasAnswered, Ready
  <1> QED BY <1>1, Invariance, PTL

\* A batch of `:wa` is reported over every buffer of it that is still open.
THEOREM ReportedBatchIsWholeAlways == Spec => []ReportedBatchIsWhole
  <1>1. IInv => ReportedBatchIsWhole
    <2>1. IInv => DOMAIN batches = 1 .. Len(batches)
      BY DEF IInv, Typed, BatchesTyped
    <2> QED BY <2>1 DEF IInv, BatchesAreWhole, ReportedBatchIsWhole, Counted
  <1> QED BY <1>1, Invariance, PTL

\* The parked writes are well formed, one per buffer and of open buffers, and
\* those of a batch are of one that exists.
THEOREM TypeCorrect == Spec => []TypeOK
  <1>1. ASSUME IInv PROVE TypeOK
    <2>1. Typed
      BY <1>1 DEF IInv
    <2>2. /\ ToSet(parked) \subseteq WriteIn(Len(batches), next_token)
          /\ ParkedBuffers = {w.buffer : w \in ToSet(parked)}
      BY <2>1, ParkedWrites
    <2>3. /\ Len(batches) \in Nat /\ Len(batches) <= MaxRequests /\ MaxRequests \in Nat
          /\ batches \in Seq(Batch)
      BY <2>1, BeforeSaveAssumption DEF Typed, CountersTyped, BatchesTyped, BeforeSaveAssumption
    <2>4. DOMAIN batches = 1 .. Len(batches) /\ ToSet(batches) \subseteq Batch
      <3> HIDE DEF Batch
      <3> QED BY <2>3 DEF ToSet
    <2>5. AfterIn(Len(batches)) \subseteq After
      BY <2>3 DEF AfterIn, After
    <2>6. ASSUME NEW w \in ToSet(parked)
          PROVE  w \in Write /\ (w.after.kind = "batch" => w.after.id \in DOMAIN batches)
      <3>1. w \in WriteIn(Len(batches), next_token)
        BY <2>2
      <3>2. w.after \in AfterIn(Len(batches))
        BY <3>1 DEF WriteIn
      <3>3. w.after.kind = "batch" => w.after.id \in DOMAIN batches
        BY <2>3, <2>4, <3>2, BatchOfAfter
      <3>4. w \in Write
        BY <2>5, <3>1 DEF WriteIn, Write, Token
      <3> QED BY <3>3, <3>4
    <2>7. /\ \A i, j \in DOMAIN parked : parked[i].buffer = parked[j].buffer => i = j
          /\ ParkedBuffers \subseteq open
      BY <2>1, <2>2 DEF Typed, WritesTyped, Distinct
    <2>8. asking # Idle => asking \in Request
      BY <2>1, RequestsAreNotIdle DEF Typed, BatchesTyped
    <2>9. timers \subseteq [id : Token, buffer : BufferId]
      BY <2>1 DEF Typed, TimersTyped, Token
    <2> QED BY <2>1, <2>4, <2>6, <2>7, <2>8, <2>9
            DEF TypeOK, Typed, TextsTyped, CountersTyped, BatchesTyped
  <1> QED BY <1>1, Invariance, PTL

-----------------------------------------------------------------------------
(* Without `!` no work is lost *)

Kept == dirty \subseteq open /\ (exited => dirty = {})

\* Writes that conclude without force close no buffer, and no editor, over work.
LEMMA ConcludeKeeps ==
  ASSUME Kept, NEW b, NEW after, NEW writes, NEW disarmed,
         WriteAndContinue(b, FALSE, after, writes, disarmed)
  PROVE  Kept'
  <1>1. dirty' \subseteq dirty
    BY DEF WriteAndContinue
  <1>2. \/ UNCHANGED <<open, exited>>
        \/ open' = open \ {b} /\ b \notin dirty' /\ UNCHANGED exited
        \/ open' = open /\ exited' = TRUE /\ dirty' \cap open = {}
    <2>1. ASSUME NEW outcome, QuitAfterWrite(b, FALSE, outcome, writes)
          PROVE  \/ UNCHANGED <<open, exited>>
                 \/ open' = open \ {b} /\ b \notin dirty' /\ UNCHANGED exited
                 \/ open' = open /\ exited' = TRUE /\ dirty' \cap open = {}
      BY <2>1 DEF QuitAfterWrite, Closing, MayQuit
    <2> QED BY <2>1 DEF WriteAndContinue
  <1> QED BY <1>1, <1>2 DEF Kept

\* The inductive step of WorkIsKept.
LEMMA NextKeeps ==
  ASSUME Kept, IInv, TRUE \notin Forces, ~PluginCloses, [Next]_vars
  PROVE  Kept'
  <1>1. \A force \in Forces : force = FALSE
    BY BeforeSaveAssumption DEF BeforeSaveAssumption
  <1>2. ASSUME Loop PROVE Kept'
    <2>1. CASE ActivateLazy
      <3>1. open' = open /\ UNCHANGED <<dirty, exited>>
        BY <2>1 DEF ActivateLazy, Closing
      <3> QED BY <3>1 DEF Kept
    <2>2. CASE WriteNow
      <3>1. asking.force = FALSE
        BY <1>1, <2>2 DEF IInv, Typed, BatchesTyped, RequestIn, WriteNow, Asking
      <3> QED BY <2>2, <3>1, ConcludeKeeps DEF WriteNow
    <2>3. CASE \/ AlreadyParked \/ Park \/ Requested \/ Raise
               \/ \E id \in 1 .. MaxRequests : ReportFinished(id)
      BY <2>3 DEF AlreadyParked, Park, Requested, Raise, ReportFinished, texts, Kept
    <2>4. ASSUME NEW w \in ToSet(parked) PROVE w.force = FALSE
      BY <1>1, ParkedWrites DEF IInv, WriteIn
    <2>5. CASE CommitReady
      <3>1. DOMAIN parked = 1 .. Len(parked) /\ Len(parked) \in Nat
        <4> HIDE DEF WriteIn
        <4> QED BY DEF IInv, Typed, WritesTyped
      <3>2. First(ReadyWrites) \in DOMAIN parked
        <4>1. ReadyWrites \in SUBSET (1 .. Len(parked)) /\ ReadyWrites # {}
          BY <2>5, <3>1 DEF CommitReady, ReadyWrites
        <4> QED BY <3>1, <4>1, FirstIsOne
      <3>3. PICK w \in ToSet(parked) : w = parked[First(ReadyWrites)]
        BY <3>2 DEF ToSet
      <3>4. WriteAndContinue(w.buffer, FALSE, w.after, Without(parked, {w.buffer}), w.timer)
        BY <2>4, <2>5, <3>3 DEF CommitReady
      <3> QED BY <3>4, ConcludeKeeps
    <2>6. ASSUME NEW t \in timers, TimedOut(t) PROVE Kept'
      <3>1. CASE t.buffer \in ParkedBuffers
        <4>1. PICK w : w \in ToSet(parked) /\ w = WriteOf(t.buffer)
          BY <3>1, ParkedWrites DEF IInv
        <4>2. WriteAndContinue(w.buffer, FALSE, w.after, Without(parked, {w.buffer}), t.id)
          BY <2>4, <2>6, <3>1, <4>1 DEF TimedOut
        <4> QED BY <4>2, ConcludeKeeps
      <3>2. CASE t.buffer \notin ParkedBuffers
        BY <2>6, <3>2 DEF TimedOut, texts, Kept
      <3> QED BY <3>1, <3>2
    <2> QED BY <1>2, <2>1, <2>2, <2>3, <2>5, <2>6 DEF Loop
  <1>3. CASE \/ \E b \in BufferId, force \in Forces, after \in {NothingAfter, QuitAfter} :
                  TypedWrite(b, force, after)
             \/ \E force \in Forces : TypedWriteAll(force)
             \/ \E hold \in 1 .. (next_token - 1) : Done(hold)
             \/ ReloadConfig
             \/ \E b \in BufferId : SetLanguage(b) \/ ExternalWrite(b)
             \/ UNCHANGED vars
    <2>1. UNCHANGED <<open, dirty, exited>>
      BY <1>3 DEF TypedWrite, TypedWriteAll, Done, ReloadConfig, SetLanguage, ExternalWrite,
                  vars, texts
    <2> QED BY <2>1 DEF Kept
  <1>4. ASSUME NEW b \in BufferId, Edit(b) PROVE Kept'
    BY <1>4 DEF Edit, Free, Kept
  <1>5. ASSUME NEW b \in BufferId, NEW force \in Forces, Close(b, force) PROVE Kept'
    BY <1>1, <1>5 DEF Close, Closing, Kept
  <1>6. ASSUME NEW force \in Forces, QuitAll(force) PROVE Kept'
    BY <1>1, <1>6 DEF QuitAll, MayQuit, texts, Kept
  <1> QED BY <1>2, <1>3, <1>4, <1>5, <1>6 DEF Next

\* Without `!`, and without a plugin that closes buffers, no buffer is closed
\* and the editor does not exit over unsaved work, whenever a `:wq` concludes.
THEOREM WorkIsKeptAlways == Spec => []WorkIsKept
  <1>1. CASE TRUE \in Forces \/ PluginCloses
    <2>1. WorkIsKept
      BY <1>1 DEF WorkIsKept
    <2> QED BY <2>1, PTL
  <1>2. CASE TRUE \notin Forces /\ ~PluginCloses
    <2>1. Init => Kept
      BY DEF Init, Kept
    <2>2. Kept /\ IInv /\ [Next]_vars => Kept'
      BY <1>2, NextKeeps
    <2>3. Kept => WorkIsKept
      BY DEF Kept, WorkIsKept
    <2> QED BY <2>1, <2>2, <2>3, Invariance, PTL DEF Spec
  <1> QED BY <1>1, <1>2

-----------------------------------------------------------------------------
(* Only a plugin makes a loop ask for a closed buffer *)

\* The buffers asked for are open, and `:wq` asks for one.
AskedAreOpen ==
  asking # Idle =>
    /\ ToSet(asking.todo) \subseteq open
    /\ asking.after.kind # "batch" => Len(asking.todo) <= 1

LEMMA NextAsksOpen ==
  ASSUME AskedAreOpen, IInv, ~PluginCloses, [Next]_vars
  PROVE  AskedAreOpen'
  <1>0. Typed
    BY DEF IInv
  <1>1. ASSUME asking # Idle, asking.todo # <<>>, asking' = NextAsked,
               open' = open \/ (asking.after.kind # "batch" /\ open' \subseteq open)
        PROVE  AskedAreOpen'
    <2>1. /\ ToSet(asking.todo) = {Head(asking.todo)} \cup ToSet(Tail(asking.todo))
          /\ NextAsked.todo = Tail(asking.todo) /\ NextAsked.after = asking.after
          /\ asking \in RequestIn(Len(batches))
      BY <1>0, <1>1, TodoSplits
    <2>2. /\ Tail(asking.todo) \in Seq(BufferId) /\ Len(Tail(asking.todo)) = Len(asking.todo) - 1
          /\ Len(asking.todo) \in Nat
      BY <1>1, <2>1 DEF RequestIn
    <2>3. asking.after.kind # "batch" =>
            Len(Tail(asking.todo)) <= 1 /\ ToSet(Tail(asking.todo)) = {}
      <3> SUFFICES ASSUME asking.after.kind # "batch"
                   PROVE  Len(Tail(asking.todo)) <= 1 /\ ToSet(Tail(asking.todo)) = {}
        OBVIOUS
      <3>1. Len(Tail(asking.todo)) <= 0
        BY <1>1, <2>2 DEF AskedAreOpen
      <3>2. DOMAIN Tail(asking.todo) = {}
        BY <2>2, <3>1
      <3> QED BY <3>1, <3>2, <2>2 DEF ToSet
    <2> QED BY <1>1, <2>1, <2>3 DEF AskedAreOpen
  <1>2. CASE ActivateLazy
    <2>1. open' = open /\ asking' = asking
      BY <1>2 DEF ActivateLazy, Closing
    <2> QED BY <2>1 DEF AskedAreOpen
  <1>3. CASE WriteNow
    <2>1. asking # Idle /\ asking.todo # <<>> /\ (asking' = Idle \/ asking' = NextAsked)
      BY <1>3 DEF WriteNow, Asking
    <2>2. open' = open \/ (asking.after.kind # "batch" /\ open' \subseteq open)
      <3>1. WriteAndContinue(Head(asking.todo), asking.force, asking.after, parked, NoTimer)
        BY <1>3 DEF WriteNow
      <3> QED BY <3>1 DEF WriteAndContinue, QuitAfterWrite, Closing, QuitAfter
    <2> QED BY <1>1, <2>1, <2>2 DEF AskedAreOpen
  <1>4. CASE AlreadyParked \/ Park
    BY <1>1, <1>4 DEF AlreadyParked, Park, Asking, texts
  <1>5. CASE Requested
    BY <1>5 DEF Requested, AskedAreOpen
  <1>6. ASSUME NEW b \in BufferId, NEW force \in Forces, NEW after \in {NothingAfter, QuitAfter},
               TypedWrite(b, force, after)
        PROVE  AskedAreOpen'
    <2>1. b \in open /\ asking' = [todo |-> <<b>>, force |-> force, after |-> after] /\ open' = open
      BY <1>6 DEF TypedWrite, Ask, texts
    <2>2. ToSet(<<b>>) = {b} /\ Len(<<b>>) = 1
      BY DEF ToSet
    <2> QED BY <2>1, <2>2 DEF AskedAreOpen
  <1>7. ASSUME NEW force \in Forces, TypedWriteAll(force) PROVE AskedAreOpen'
    <2>1. PICK todo \in SetToSeqs(Unsaved) :
            asking' = [todo |-> todo, force |-> force, after |-> BatchAfter(Len(batches) + 1)]
            /\ open' = open
      BY <1>7 DEF TypedWriteAll, Ask, texts
    <2>2. IsFiniteSet(Unsaved)
      BY <1>0, BeforeSaveAssumption, FS_Subset
         DEF Typed, TextsTyped, Unsaved, BeforeSaveAssumption
    <2>3. ToSet(todo) = Unsaved
      BY <2>2, OrdersOfSet
    <2> QED BY <2>1, <2>3 DEF AskedAreOpen, BatchAfter, Unsaved
  <1>8. CASE \/ Raise \/ CommitReady \/ ReloadConfig
             \/ \E id \in 1 .. MaxRequests : ReportFinished(id)
             \/ \E t \in timers : TimedOut(t)
             \/ \E force \in Forces : QuitAll(force)
             \/ \E hold \in 1 .. (next_token - 1) : Done(hold)
             \/ \E b \in BufferId, force \in Forces : Close(b, force)
             \/ \E b \in BufferId : SetLanguage(b) \/ Edit(b) \/ ExternalWrite(b)
    <2>1. asking = Idle /\ asking' = Idle
      BY <1>8 DEF Raise, CommitReady, ReloadConfig, ReportFinished, TimedOut, QuitAll, Done,
                  Close, SetLanguage, Edit, ExternalWrite, Free
    <2> QED BY <2>1 DEF AskedAreOpen
  <1>9. CASE UNCHANGED vars
    BY <1>9 DEF vars, texts, AskedAreOpen
  <1> QED BY <1>2, <1>3, <1>4, <1>5, <1>6, <1>7, <1>8, <1>9 DEF Next, Loop

\* As long as no plugin that the event activates closes buffers, a loop asks
\* only for open ones, however `:wq` and failing writes close and end things
\* under it: BufferStore::get has nothing to panic on.
THEOREM RequestsOpenBuffersAlways ==
  ASSUME ~PluginCloses
  PROVE  Spec => []RequestsOpenBuffers
  <1>1. Init => AskedAreOpen
    BY DEF Init, AskedAreOpen
  <1>2. AskedAreOpen /\ IInv /\ [Next]_vars => AskedAreOpen'
    BY NextAsksOpen
  <1>3. IInv /\ AskedAreOpen => RequestsOpenBuffers
    <2> SUFFICES ASSUME IInv, AskedAreOpen, asking # Idle, asking.todo # <<>>
                 PROVE  Head(asking.todo) \in open
      BY DEF RequestsOpenBuffers
    <2>1. ToSet(asking.todo) = {Head(asking.todo)} \cup ToSet(Tail(asking.todo))
      BY TodoSplits DEF IInv
    <2> QED BY <2>1 DEF AskedAreOpen
  <1> QED BY <1>1, <1>2, <1>3, Invariance, PTL DEF Spec
=============================================================================
