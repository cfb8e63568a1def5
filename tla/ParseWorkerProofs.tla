------------------------- MODULE ParseWorkerProofs -------------------------
(***************************************************************************)
(* For any buffers, languages and injections: a buffer's layers describe   *)
(* the text they claim to and never go back, and a buffer that waits for   *)
(* an answer gets one while the worker runs.                               *)
(***************************************************************************)
EXTENDS ParseWorker, CollectionsProofs, TLAPS

-----------------------------------------------------------------------------
(* What the editor and the messages are made of *)

Grammar == [slot : Slots, config : Nat]

Layers ==
  [at : {"none", "baked", "parsed"}, generation : Nat, snapshot : Nat, describes : Int,
   injected : SUBSET (LanguageId \X Nat)]

SyntaxState ==
  [config : Nat, committed : Layers, parsed_gen : Nat, pending : Seq(Nat \X Nat),
   in_flight : Nat, min_snapshot : Nat, failed : BOOLEAN]

BufferState ==
  [open : BOOLEAN, generation : Nat \ {0}, size : Sizes,
   language : LanguageId \cup {NoLanguage}, syntax : SyntaxState]

Requests ==
  [bid : BufferId, generation : Nat, config : Nat, prior : Int, names : SUBSET LanguageId,
   langs : [LanguageId -> Grammar], snapshot : Nat]

Results ==
  [bid : BufferId, generation : Nat, config : Nat, snapshot : Nat, ok : BOOLEAN,
   describes : Int, injected : SUBSET (LanguageId \X Nat), unloaded : SUBSET LanguageId]

Editor ==
  [buffers : [BufferId -> BufferState], grammars : [LanguageId -> Grammar],
   snapshot : Nat, configs : Nat, posts : Seq(Requests)]

-----------------------------------------------------------------------------
(* The invariant *)

\* What a buffer says of its layers: nothing of a text it does not have yet, nor
\* of grammars that are not registered yet; what they claim to describe they do.
ClaimsOf(s, generation, language, snapshot) ==
  /\ s.committed.at # "none" => s.committed.describes = s.committed.generation
  /\ s.committed.at = "none" => s.committed.generation = None
  /\ s.committed.generation <= generation /\ s.committed.snapshot <= snapshot
  /\ s.parsed_gen <= generation /\ s.in_flight <= generation
  /\ s.min_snapshot <= snapshot
  /\ \A i \in 1 .. Len(s.pending) :
       s.pending[i][1] < s.pending[i][2] /\ s.pending[i][2] <= generation
  /\ s.config = None => s = Detached
  /\ s.config # None => language \in LanguageId

Claims(buf, snapshot) ==
  /\ ClaimsOf(buf.syntax, buf.generation, buf.language, snapshot)
  /\ buf.generation <= MaxGeneration
  /\ ~buf.open => buf.syntax = Detached

\* The layers c leave to a message: one of a newer text, or of the text c were
\* carried to, does not know fewer grammars than c.
Behind(c, m) ==
  /\ c.at = "parsed" /\ m.generation > c.generation => m.snapshot >= c.snapshot
  /\ c.at = "baked" /\ m.generation >= c.generation => m.snapshot >= c.snapshot

\* A message of a text the buffer has had.
Known(m, e) ==
  /\ m.bid \in BufferId /\ m.generation \in Nat /\ m.snapshot \in Nat
  /\ m.generation <= e.buffers[m.bid].generation
  /\ m.snapshot <= e.snapshot
  /\ Behind(e.buffers[m.bid].syntax.committed, m)

\* A prior handed to the worker is of the request's text.
FitPrior(r) == r.prior \in {None, r.generation}

LoadedHaveConfigs(e) ==
  \A l \in LanguageId : e.grammars[l].slot = "loaded" => e.grammars[l].config # None

\* The editor, where M are the messages on their way.
Sound(e, M) ==
  /\ e \in Editor
  /\ LoadedHaveConfigs(e)
  /\ \A b \in BufferId : Claims(e.buffers[b], e.snapshot)
  /\ \A m \in M \cup ToSet(e.posts) : Known(m, e)
  /\ \A r \in ToSet(e.posts) : FitPrior(r)

\* m is what a buffer with the syntax s waits for.
Answers(m, s) == m.config = s.config /\ m.generation = s.in_flight

\* A buffer that waits for an answer waits for the last request posted for it:
\* that is in S, or held in B, or answered in D.
WaitedIn(b, s, S) ==
  \E i \in 1 .. Len(S) :
    /\ S[i].bid = b /\ Answers(S[i], s)
    /\ \A j \in (i + 1) .. Len(S) : S[j].bid # b

HeldIn(b, s, S, B, D) ==
  /\ \A i \in 1 .. Len(S) : S[i].bid # b
  /\ \A m \in B : m.bid = b => Answers(m, s)
  /\ \E m \in B \cup D : m.bid = b /\ Answers(m, s)

Awaited(e, S, B, D) ==
  \A b \in BufferId : LET s == e.buffers[b].syntax IN
    s.in_flight # None => WaitedIn(b, s, S) \/ HeldIn(b, s, S, B, D)

\* Requests for a buffer are posted in the order of its texts.
InOrder(S) ==
  \A i, j \in 1 .. Len(S) : i < j /\ S[i].bid = S[j].bid => S[i].generation <= S[j].generation

OnTheirWay == ToSet(queue) \cup batch \cup ToSet(done)

Channels ==
  /\ queue \in Seq(Requests) /\ batch \subseteq Requests /\ done \in Seq(Results)
  /\ \A r \in ToSet(queue) \cup batch : FitPrior(r)
  /\ \A d \in ToSet(done) : d.describes = d.generation
  /\ alive \in BOOLEAN /\ disconnected \in BOOLEAN
  /\ disconnected => ~alive

\* What is waited for is on its way while the worker runs.
Awaits ==
  alive => /\ InOrder(queue)
           /\ \A r, h \in batch : r.bid = h.bid => r = h
           /\ Awaited(ed, queue, batch, ToSet(done))

IInv ==
  /\ Sound(ed, OnTheirWay) /\ Channels /\ Awaits
  /\ ed.posts = <<>>
  /\ shown \subseteq {b \in BufferId : ed.buffers[b].open}

-----------------------------------------------------------------------------
(* Steps on one buffer *)

\* The text of a buffer is as it was.
SameText(x, y) ==
  /\ x.open = y.open /\ x.generation = y.generation
  /\ x.size = y.size /\ x.language = y.language

\* How a step may change a buffer's layers: not at all, away, to the newest text
\* by its edits, or to those of a result for that text.
Carried(s, t, generation) ==
  \/ t.committed = s.committed
  \/ t.committed.at = "none"
  \/ /\ t.committed.at = "baked" /\ s.committed.at # "none"
     /\ s.committed.generation < generation /\ t.committed.generation = generation
     /\ t.committed.snapshot = s.committed.snapshot
  \/ t.committed.at = "parsed" /\ t.committed.generation = generation

\* The editor f is e after steps on the buffer b.
Touches(e, f, b) ==
  /\ f \in Editor
  /\ f.snapshot >= e.snapshot
  /\ LoadedHaveConfigs(f)
  /\ SameText(e.buffers[b], f.buffers[b]) /\ e.buffers[b].open
  /\ \A c \in BufferId \ {b} : f.buffers[c] = e.buffers[c]
  /\ ClaimsOf(f.buffers[b].syntax, f.buffers[b].generation, f.buffers[b].language, f.snapshot)
  /\ Carried(e.buffers[b].syntax, f.buffers[b].syntax, f.buffers[b].generation)

\* r asks for b's text.
Asked(r, f, b) ==
  /\ r \in Requests /\ r.bid = b
  /\ r.generation = f.buffers[b].generation /\ r.config = f.buffers[b].syntax.config
  /\ r.snapshot = f.snapshot /\ FitPrior(r)

\* The steps post nothing, or a request the buffer waits for.
NothingPosted(e, f, b) ==
  /\ f.posts = e.posts
  /\ \/ f.buffers[b].syntax.in_flight = None
     \/ /\ f.buffers[b].syntax.in_flight = e.buffers[b].syntax.in_flight
        /\ f.buffers[b].syntax.config = e.buffers[b].syntax.config

RequestPosted(e, f, b) ==
  \E r : /\ Asked(r, f, b) /\ f.posts = Append(e.posts, r)
         /\ f.buffers[b].syntax.in_flight = r.generation

Posts(e, f, b) == NothingPosted(e, f, b) \/ RequestPosted(e, f, b)

\* The types of an editor's parts.
LEMMA EditorTypes ==
  ASSUME NEW e \in Editor
  PROVE  /\ \A b \in BufferId :
              /\ e.buffers[b] \in BufferState
              /\ e.buffers[b].generation \in Nat /\ e.buffers[b].generation # 0
              /\ e.buffers[b].syntax \in SyntaxState
              /\ e.buffers[b].syntax.committed \in Layers
         /\ e.snapshot \in Nat /\ e.configs \in Nat /\ e.posts \in Seq(Requests)
         /\ e.grammars \in [LanguageId -> Grammar] /\ e.buffers \in [BufferId -> BufferState]
  BY DEF Editor, BufferState, SyntaxState

\* The elements of a sequence that one more element was appended to.
LEMMA SetOfAppended ==
  ASSUME NEW X, NEW q \in Seq(X), NEW r \in X
  PROVE  ToSet(Append(q, r)) = ToSet(q) \cup {r}
  <1>1. PICK p : p = Append(q, r)
    OBVIOUS
  <1>2. /\ DOMAIN q = 1 .. Len(q) /\ DOMAIN p = 1 .. Len(q) + 1 /\ Len(q) \in Nat
        /\ p[Len(q) + 1] = r /\ \A i \in 1 .. Len(q) : p[i] = q[i]
    BY <1>1
  <1>3. \A x : x \in {p[i] : i \in 1 .. Len(q) + 1} <=> x \in {q[i] : i \in 1 .. Len(q)} \cup {r}
    <2>1. ASSUME NEW i \in 1 .. Len(q) + 1 PROVE i = Len(q) + 1 \/ i \in 1 .. Len(q)
      BY <1>2
    <2> QED BY <1>2, <2>1
  <1> QED BY <1>1, <1>2, <1>3 DEF ToSet

\* A step on one buffer keeps the editor sound.
LEMMA TouchKeepsSound ==
  ASSUME NEW e, NEW f, NEW M, NEW b \in BufferId,
         Sound(e, M), Touches(e, f, b), Posts(e, f, b)
  PROVE  Sound(f, M)
  <1> DEFINE s == e.buffers[b].syntax
             t == f.buffers[b].syntax
             gen == f.buffers[b].generation
  <1>1. /\ e \in Editor /\ f \in Editor /\ f.snapshot >= e.snapshot
        /\ e.snapshot \in Nat /\ f.snapshot \in Nat
        /\ gen \in Nat /\ e.buffers[b].generation = gen
        /\ s.committed \in Layers /\ t.committed \in Layers
    BY EditorTypes DEF Sound, Touches, SameText
  <1>2. ASSUME NEW m, Known(m, e) PROVE Known(m, f)
    <2>1. CASE m.bid # b
      BY <1>1, <1>2, <2>1 DEF Known, Touches
    <2>2. CASE m.bid = b
      <3>1. m.generation <= gen /\ m.snapshot <= f.snapshot
        BY <1>1, <1>2, <2>2 DEF Known
      <3>2. Behind(t.committed, m)
        <4>1. Behind(s.committed, m) /\ Carried(s, t, gen)
          BY <1>2, <2>2 DEF Known, Touches
        <4>2. m.generation \in Nat /\ m.snapshot \in Nat /\ gen \in Nat
          BY <1>1, <1>2 DEF Known
        <4>3. s.committed.at \in {"none", "baked", "parsed"} /\ s.committed.generation \in Nat
          BY <1>1 DEF Layers
        <4> HIDE DEF s, t, gen
        <4> QED BY <3>1, <4>1, <4>2, <4>3 DEF Behind, Carried
      <3> QED BY <1>2, <2>2, <3>1, <3>2 DEF Known
    <2> QED BY <2>1, <2>2
  <1>3. ASSUME NEW r, Asked(r, f, b) PROVE Known(r, f) /\ FitPrior(r) /\ r \in Requests
    <2>1. t.committed.snapshot <= f.snapshot
      BY DEF Touches, ClaimsOf
    <2>2. Behind(t.committed, r)
      BY <1>3, <2>1 DEF Behind, Asked
    <2> QED BY <1>1, <1>3, <2>2 DEF Known, Asked, Requests
  <1>4. \A r \in ToSet(f.posts) : r \in ToSet(e.posts) \/ Asked(r, f, b)
    <2>1. CASE f.posts = e.posts
      BY <2>1
    <2>2. ASSUME NEW r, Asked(r, f, b), f.posts = Append(e.posts, r)
          PROVE  \A q \in ToSet(f.posts) : q \in ToSet(e.posts) \/ Asked(q, f, b)
      <3>1. e.posts \in Seq(Requests) /\ r \in Requests
        BY <1>1, <1>3, <2>2, EditorTypes
      <3>2. ToSet(f.posts) = ToSet(e.posts) \cup {r}
        BY <2>2, <3>1, SetOfAppended
      <3> QED BY <2>2, <3>2
    <2> QED BY <2>1, <2>2 DEF Posts, NothingPosted, RequestPosted
  <1>5. \A m \in M \cup ToSet(f.posts) : Known(m, f)
    <2>1. \A m \in M \cup ToSet(e.posts) : Known(m, e)
      BY DEF Sound
    <2> QED BY <1>2, <1>3, <1>4, <2>1
  <1>6. \A r \in ToSet(f.posts) : FitPrior(r)
    <2>1. \A r \in ToSet(e.posts) : FitPrior(r)
      BY DEF Sound
    <2> QED BY <1>3, <1>4, <2>1
  <1>7. \A c \in BufferId : Claims(f.buffers[c], f.snapshot)
    <2>1. \A c \in BufferId : Claims(e.buffers[c], e.snapshot)
      BY DEF Sound
    <2>2. ASSUME NEW c \in BufferId, c # b PROVE Claims(f.buffers[c], f.snapshot)
      <3>1. f.buffers[c] = e.buffers[c] /\ Claims(e.buffers[c], e.snapshot)
        BY <2>1, <2>2 DEF Touches
      <3>2. /\ e.buffers[c].syntax.committed.snapshot \in Nat
            /\ e.buffers[c].syntax.min_snapshot \in Nat
        BY <1>1, EditorTypes DEF Layers, SyntaxState
      <3> QED BY <1>1, <3>1, <3>2 DEF Claims, ClaimsOf
    <2>3. Claims(f.buffers[b], f.snapshot)
      BY <2>1 DEF Claims, Touches, SameText
    <2> QED BY <2>2, <2>3
  <1> QED BY <1>1, <1>5, <1>6, <1>7 DEF Sound, Touches

\* The editor with another syntax for b.
WithSyntax(e, b, s) == [e EXCEPT !.buffers[b].syntax = s]

\* Only the syntax of b is replaced.
Replaced(e, f, b, s) ==
  /\ f \in Editor
  /\ f.buffers[b].syntax = s /\ SameText(e.buffers[b], f.buffers[b])
  /\ \A c \in BufferId \ {b} : f.buffers[c] = e.buffers[c]
  /\ f.grammars = e.grammars /\ f.snapshot = e.snapshot /\ f.posts = e.posts
  /\ f.configs = e.configs

\* Another syntax replaces b's.
LEMMA SyntaxReplaced ==
  ASSUME NEW e \in Editor, NEW b \in BufferId, NEW s \in SyntaxState
  PROVE  Replaced(e, WithSyntax(e, b, s), b, s)
  <1>0. PICK f : f = WithSyntax(e, b, s)
    OBVIOUS
  <1>1. PICK x : x = [e.buffers[b] EXCEPT !.syntax = s]
    OBVIOUS
  <1>2. x \in BufferState /\ x.syntax = s /\ SameText(e.buffers[b], x)
    BY <1>1 DEF Editor, BufferState, SameText
  <1>3. f = [e EXCEPT !.buffers = [e.buffers EXCEPT ![b] = x]]
    BY <1>0, <1>1 DEF WithSyntax
  <1>4. [e.buffers EXCEPT ![b] = x] \in [BufferId -> BufferState]
    BY <1>2 DEF Editor
  <1>5. f \in Editor /\ f.buffers = [e.buffers EXCEPT ![b] = x]
    BY <1>3, <1>4 DEF Editor
  <1>6. /\ f.grammars = e.grammars /\ f.snapshot = e.snapshot /\ f.posts = e.posts
        /\ f.configs = e.configs
    BY <1>3 DEF Editor
  <1>7. f.buffers[b] = x /\ \A c \in BufferId \ {b} : f.buffers[c] = e.buffers[c]
    BY <1>5 DEF Editor
  <1> QED BY <1>0, <1>2, <1>5, <1>6, <1>7 DEF Replaced

\* A syntax without layers says nothing.
LEMMA DetachedIsSound ==
  ASSUME NEW generation \in Nat, NEW language, NEW snapshot \in Nat
  PROVE  Detached \in SyntaxState /\ ClaimsOf(Detached, generation, language, snapshot)
  BY DEF Detached, SyntaxState, Layers, NoLayers, None, ClaimsOf

-----------------------------------------------------------------------------
(* Grammars load *)

\* What loading grammars does to an editor.
Loads(e, f) ==
  /\ f \in Editor
  /\ f.buffers = e.buffers /\ f.posts = e.posts /\ f.snapshot >= e.snapshot
  /\ LoadedHaveConfigs(f)

\* One grammar loads.
LEMMA LoadLoads ==
  ASSUME NEW e \in Editor, LoadedHaveConfigs(e), NEW l \in LanguageId
  PROVE  Loads(e, Load(e, l))
  <1>0. e.snapshot \in Nat /\ e.configs \in Nat /\ e.grammars \in [LanguageId -> Grammar]
    BY EditorTypes
  <1>1. ASSUME NEW g \in Grammar, g.slot = "loaded" => g.config # None,
               NEW c \in Nat,
               Load(e, l) = [e EXCEPT !.grammars = [e.grammars EXCEPT ![l] = g],
                                      !.configs = c, !.snapshot = e.snapshot + 1]
        PROVE  Loads(e, Load(e, l))
    <2>1. PICK gs, n : gs = [e.grammars EXCEPT ![l] = g] /\ n = e.snapshot + 1
      OBVIOUS
    <2>a. gs \in [LanguageId -> Grammar] /\ n \in Nat
      BY <1>0, <2>1
    <2>2. PICK f : f = [e EXCEPT !.grammars = gs, !.configs = c, !.snapshot = n]
      OBVIOUS
    <2>3. Load(e, l) = f
      BY <1>1, <2>1, <2>2
    <2>4. /\ f \in Editor /\ f.buffers = e.buffers /\ f.posts = e.posts
          /\ f.grammars = gs /\ f.snapshot = n
      BY <2>2, <2>a DEF Editor
    <2>5. LoadedHaveConfigs(f)
      BY <1>0, <1>1, <2>1, <2>4 DEF LoadedHaveConfigs
    <2> QED BY <1>0, <2>1, <2>3, <2>4, <2>5 DEF Loads
  <1>2. CASE e.grammars[l].slot = "registered"
    <2>1. PICK g : g = [slot |-> "loaded", config |-> e.configs + 1]
      OBVIOUS
    <2>2. g \in Grammar /\ g.config # None /\ e.configs + 1 \in Nat
      BY <1>0, <2>1 DEF Grammar, Slots, None
    <2>3. Load(e, l) = [e EXCEPT !.grammars = [e.grammars EXCEPT ![l] = g],
                                 !.configs = e.configs + 1, !.snapshot = e.snapshot + 1]
      BY <1>2, <2>1 DEF Load
    <2> QED BY <1>1, <2>2, <2>3
  <1>3. CASE e.grammars[l].slot = "broken"
    <2>1. NoGrammar \in Grammar /\ NoGrammar.slot # "loaded"
      BY DEF Grammar, Slots, None, NoGrammar
    <2>2. Load(e, l) = [e EXCEPT !.grammars = [e.grammars EXCEPT ![l] = NoGrammar],
                                 !.snapshot = e.snapshot + 1]
      BY <1>3 DEF Load
    <2>3. Load(e, l) = [e EXCEPT !.grammars = [e.grammars EXCEPT ![l] = NoGrammar],
                                 !.configs = e.configs, !.snapshot = e.snapshot + 1]
      BY <2>2 DEF Editor
    <2> QED BY <1>0, <1>1, <2>1, <2>3
  <1>4. CASE e.grammars[l].slot # "registered" /\ e.grammars[l].slot # "broken"
    <2>1. Load(e, l) = e
      BY <1>4 DEF Load
    <2> QED BY <1>0, <2>1 DEF Loads
  <1> QED BY <1>2, <1>3, <1>4

\* The editors of LoadAll, by the languages loaded.
LoadsOver(it, e, S) ==
  it = [s \in SUBSET S |->
         IF s = {} THEN e
         ELSE Load(it[s \ {CHOOSE x \in s : TRUE}], CHOOSE x \in s : TRUE)]

\* Any number of grammars load.
LEMMA LoadAllLoads ==
  ASSUME NEW e \in Editor, LoadedHaveConfigs(e), NEW S \in SUBSET LanguageId
  PROVE  Loads(e, LoadAll(e, S))
  <1> DEFINE V == {f \in Editor : Loads(e, f)}
             pick == [s \in SUBSET S |-> CHOOSE x \in s : TRUE]
             step == [p \in S \X V |-> Load(p[2], p[1])]
  <1>0. IsFiniteSet(S)
    BY ParseWorkerAssumption, FS_Subset DEF ParseWorkerAssumption
  <1>1. \A s \in SUBSET S : s # {} => pick[s] \in s
    OBVIOUS
  <1>2. e \in V
    BY EditorTypes DEF Loads
  <1>3. \A f \in V, x \in S : Load(f, x) \in V /\ step[<<x, f>>] = Load(f, x)
    <2> SUFFICES ASSUME NEW f \in V, NEW x \in S PROVE Load(f, x) \in V
      OBVIOUS
    <2>1. f \in Editor /\ Loads(e, f) /\ Loads(f, Load(f, x))
      BY LoadLoads DEF Loads
    <2>2. e.snapshot \in Nat /\ f.snapshot \in Nat /\ Load(f, x).snapshot \in Nat
      BY <2>1, EditorTypes DEF Loads
    <2> HIDE DEF step
    <2> QED BY <2>1, <2>2 DEF Loads
  <1>a. FoldFits(S, pick, V, e, step)
    <2> HIDE DEF V, step, pick
    <2> QED BY <1>0, <1>1, <1>2, <1>3 DEF FoldFits
  <1>4. \E it : LoadsOver(it, e, S)
    <2>0. PICK it : FoldIs(it, S, pick, V, e, step)
      <3> HIDE DEF V, step, pick
      <3> QED BY <1>a, FoldsExistIn
    <2>1. /\ it = [s \in SUBSET S |-> it[s]] /\ it[{}] = e
          /\ \A s \in SUBSET S : it[s] \in V
          /\ \A s \in SUBSET S : s # {} => it[s] = step[<<pick[s], it[s \ {pick[s]}]>>]
      <3> HIDE DEF V, step, pick
      <3> QED BY <2>0 DEF FoldIs
    <2>2. ASSUME NEW s \in SUBSET S, s # {}
          PROVE  it[s] = Load(it[s \ {pick[s]}], pick[s])
      <3>1. it[s \ {pick[s]}] \in V /\ pick[s] \in S
        <4> HIDE DEF V, step, pick
        <4> QED BY <1>1, <2>1, <2>2
      <3> HIDE DEF V, step, pick
      <3> QED BY <1>3, <2>1, <2>2, <3>1
    <2>3. \A s \in SUBSET S :
            it[s] = IF s = {} THEN e
                    ELSE Load(it[s \ {CHOOSE x \in s : TRUE}], CHOOSE x \in s : TRUE)
      BY <2>1, <2>2
    <2>4. LoadsOver(it, e, S)
      <3> HIDE DEF V, step, pick
      <3> QED BY <2>1, <2>3 DEF LoadsOver
    <2> QED BY <2>4
  <1>5. PICK it : LoadsOver(it, e, S) /\ LoadAll(e, S) = it[S]
    <2>1. LoadAll(e, S) = (CHOOSE it : LoadsOver(it, e, S))[S]
      BY DEF LoadAll, FoldSet, MapThenFoldSet, LoadsOver
    <2> QED BY <1>4, <2>1
  <1>6. it[{}] = e /\ \A s \in SUBSET S : s # {} => it[s] = Load(it[s \ {pick[s]}], pick[s])
    BY <1>5 DEF LoadsOver
  <1>7. \A s \in SUBSET S : it[s] \in V
    <2>1. FoldsWithin(it, S, pick, V, e, step)
      <3> SUFFICES ASSUME NEW s \in SUBSET S, s # {}, it[s \ {pick[s]}] \in V
                   PROVE  it[s] = step[<<pick[s], it[s \ {pick[s]}]>>]
        BY <1>6 DEF FoldsWithin
      <3> HIDE DEF V, step, pick
      <3>1. pick[s] \in S
        BY <1>1
      <3> QED BY <1>3, <1>6, <3>1
    <2> HIDE DEF V, step, pick
    <2> QED BY <1>a, <2>1, FoldStaysIn
  <1>8. LoadAll(e, S) \in V
    <2> HIDE DEF V
    <2> QED BY <1>5, <1>7
  <1> QED BY <1>8

-----------------------------------------------------------------------------
(* Edits are applied *)

\* The texts of AppliedTo, by the edits applied.
AppliesOver(it, text, pending) ==
  it = [s \in SUBSET DOMAIN pending |->
         IF s = {} THEN text
         ELSE IF it[s \ {Max(s)}] = pending[Max(s)][1] THEN pending[Max(s)][2] ELSE Garbage]

\* A chain of edits carries a tree of its first text to its last.
LEMMA ChainCarries ==
  ASSUME NEW pending \in Seq(Nat \X Nat), pending # <<>>,
         \A i \in 2 .. Len(pending) : pending[i][1] = pending[i - 1][2]
  PROVE  AppliedTo(pending[1][1], pending) = Last(pending)[2]
  <1> DEFINE n == Len(pending)
             S == 1 .. n
             V == Int
             pick == LastOf(n)
             op(v, i) == IF v = pending[i][1] THEN pending[i][2] ELSE Garbage
             step == [p \in S \X V |-> op(p[2], p[1])]
             text == pending[1][1]
  <1>0. n \in Nat /\ n # 0 /\ DOMAIN pending = S /\ \A i \in S : pending[i] \in Nat \X Nat
    OBVIOUS
  <1>1. IsFiniteSet(S) /\ \A s \in SUBSET S : s # {} => pick[s] \in s /\ pick[s] = Max(s)
    BY <1>0, LastIsOne DEF LastOf
  <1>2. text \in V
    BY <1>0
  <1>3. \A v \in V, i \in S : op(v, i) \in V /\ step[<<i, v>>] = op(v, i)
    BY <1>0 DEF Garbage
  <1>a. FoldFits(S, pick, V, text, step)
    <2> HIDE DEF S, V, step, pick, text, op
    <2> QED BY <1>1, <1>2, <1>3 DEF FoldFits
  <1>4. \E it : AppliesOver(it, text, pending)
    <2>0. PICK it : FoldIs(it, S, pick, V, text, step)
      <3> HIDE DEF S, V, step, pick, text
      <3> QED BY <1>a, FoldsExistIn
    <2>1. /\ it = [s \in SUBSET S |-> it[s]] /\ it[{}] = text
          /\ \A s \in SUBSET S : it[s] \in V
          /\ \A s \in SUBSET S : s # {} => it[s] = step[<<pick[s], it[s \ {pick[s]}]>>]
      <3> HIDE DEF S, V, step, pick, text
      <3> QED BY <2>0 DEF FoldIs
    <2>2. ASSUME NEW s \in SUBSET S, s # {}
          PROVE  it[s] = op(it[s \ {Max(s)}], Max(s))
      <3>1. it[s \ {pick[s]}] \in V /\ pick[s] \in S /\ pick[s] = Max(s)
        <4> HIDE DEF S, V, step, pick, text
        <4> QED BY <1>1, <2>1, <2>2
      <3> HIDE DEF S, V, step, pick, text, op
      <3> QED BY <1>3, <2>1, <2>2, <3>1
    <2>3. \A s \in SUBSET S : it[s] = IF s = {} THEN text ELSE op(it[s \ {Max(s)}], Max(s))
      <3> HIDE DEF S, V, step, pick, text, op
      <3> QED BY <2>1, <2>2
    <2>4. AppliesOver(it, text, pending)
      <3>1. it = [s \in SUBSET S |-> IF s = {} THEN text ELSE op(it[s \ {Max(s)}], Max(s))]
        <4> HIDE DEF S, V, step, pick, text, op
        <4> QED BY <2>1, <2>3
      <3> HIDE DEF S, V, step, pick, text
      <3> QED BY <1>0, <3>1 DEF AppliesOver
    <2> QED BY <2>4
  <1>5. PICK it : AppliesOver(it, text, pending) /\ AppliedTo(text, pending) = it[S]
    <2>1. AppliedTo(text, pending) = (CHOOSE it : AppliesOver(it, text, pending))[DOMAIN pending]
      <3> HIDE DEF text
      <3> QED BY DEF AppliedTo, FoldLeft, MapThenFoldSet, AppliesOver
    <2> HIDE DEF text, S
    <2> QED BY <1>0, <1>4, <2>1
  <1>6. \A s \in SUBSET S : s # {} => it[s] = op(it[s \ {Max(s)}], Max(s))
    <2> HIDE DEF text, S
    <2> QED BY <1>0, <1>5 DEF AppliesOver
  <1>7. it[{}] = text
    <2> HIDE DEF text, S
    <2> QED BY <1>0, <1>5 DEF AppliesOver
  <1> DEFINE T == {k \in Nat : k + 1 \in S => it[1 .. k + 1] = pending[k + 1][2]}
  <1>b. \A k \in Nat : k + 1 \in S => it[1 .. k + 1] = op(it[1 .. k], k + 1)
    <2> SUFFICES ASSUME NEW k \in Nat, k + 1 \in S PROVE it[1 .. k + 1] = op(it[1 .. k], k + 1)
      OBVIOUS
    <2>1. PICK m \in Nat : m = k + 1 /\ m # 0
      OBVIOUS
    <2>2. 1 .. m # {} /\ Max(1 .. m) = m /\ (1 .. m) \ {m} = 1 .. k /\ 1 .. m \in SUBSET S
      <3>1. 1 .. m # {} /\ Max(1 .. m) = m /\ (1 .. m) \ {m} = 1 .. m - 1
        BY <2>1, PrefixGrows
      <3> QED BY <1>0, <2>1, <3>1
    <2>3. it[1 .. m] = op(it[1 .. k], m)
      <3> HIDE DEF op, S
      <3> QED BY <1>6, <2>2
    <2> QED BY <2>1, <2>3
  <1>8. 0 \in T
    <2>1. 1 .. 0 = {}
      OBVIOUS
    <2>2. 1 \in S /\ it[1 .. 0] = text
      <3> HIDE DEF text
      <3> QED BY <1>0, <1>7, <2>1
    <2>3. it[1 .. 1] = op(it[1 .. 0], 1)
      <3> HIDE DEF op, S
      <3>1. 0 \in Nat /\ 0 + 1 = 1
        OBVIOUS
      <3> QED BY <1>b, <2>2, <3>1
    <2>4. it[1 .. 1] = pending[1][2]
      BY <2>2, <2>3
    <2> QED BY <2>4
  <1>9. ASSUME NEW k \in Nat, k \in T PROVE k + 1 \in T
    <2> SUFFICES ASSUME k + 1 + 1 \in S PROVE it[1 .. k + 1 + 1] = pending[k + 1 + 1][2]
      OBVIOUS
    <2>1. it[1 .. k + 1] = pending[k + 1][2]
      BY <1>0, <1>9
    <2>2. pending[k + 1 + 1][1] = pending[k + 1][2]
      BY <1>0
    <2> QED BY <1>b, <2>1, <2>2
  <1> HIDE DEF T
  <1>10. Nat \subseteq T
    BY <1>8, <1>9, NatInductionSet
  <1>11. n - 1 \in T /\ n - 1 \in Nat
    BY <1>0, <1>10
  <1>12. it[S] = pending[n][2]
    BY <1>0, <1>11 DEF T
  <1> QED BY <1>5, <1>12 DEF Last

-----------------------------------------------------------------------------
(* Layers move forward *)

\* From s to t layers stay or are newer.
Newer(s, t) ==
  /\ t.at # "none"
  /\ t.generation >= s.generation /\ t.snapshot >= s.snapshot
  /\ t.generation = s.generation /\ s.at = "parsed" => t.at = "parsed"

Forward(s, t) ==
  /\ t.config = s.config
  /\ s.committed.at # "none" => Newer(s.committed, t.committed)

\* From s to t layers go, or stay or are newer.
Resets(s, t) ==
  t.committed.at = "none" \/ (s.committed.at # "none" /\ Forward(s, t))

\* Either is a step of LayersMoveForward.
Ahead(s, t) == t.committed.at = "none" \/ Forward(s, t)

\* The relations compose.
LEMMA MovesCompose ==
  ASSUME NEW s \in SyntaxState, NEW u \in SyntaxState, NEW t \in SyntaxState
  PROVE  /\ Forward(s, s) /\ Resets(s, s)
         /\ Forward(s, u) /\ Forward(u, t) => Forward(s, t)
         /\ Resets(s, u) /\ Resets(u, t) => Resets(s, t)
         /\ Forward(s, u) /\ Resets(u, t) => Ahead(s, t)
  <1>1. /\ s.committed.generation \in Nat /\ s.committed.snapshot \in Nat
        /\ u.committed.generation \in Nat /\ u.committed.snapshot \in Nat
        /\ t.committed.generation \in Nat /\ t.committed.snapshot \in Nat
    BY DEF SyntaxState, Layers
  <1>2. Newer(s.committed, u.committed) /\ Newer(u.committed, t.committed)
        => Newer(s.committed, t.committed)
    BY <1>1 DEF Newer
  <1>3. s.committed.at # "none" => Newer(s.committed, s.committed)
    BY <1>1 DEF Newer
  <1>4. Newer(s.committed, u.committed) => u.committed.at # "none"
    BY DEF Newer
  <1>5. Newer(u.committed, t.committed) => t.committed.at # "none"
    BY DEF Newer
  <1> QED BY <1>2, <1>3, <1>4, <1>5 DEF Forward, Resets, Ahead

-----------------------------------------------------------------------------
(* Edits are baked *)

\* Baked layers describe the newest text, and layers that are not baked stay.
LEMMA BakeClaims ==
  ASSUME NEW s \in SyntaxState, NEW generation \in Nat, NEW language, NEW snapshot \in Nat,
         ClaimsOf(s, generation, language, snapshot),
         NEW t, t = Bake(s, generation)
  PROVE  /\ t \in SyntaxState /\ ClaimsOf(t, generation, language, snapshot)
         /\ Carried(s, t, generation) /\ Forward(s, t)
         /\ s.committed.at = "none" => t.committed.at = "none"
         /\ t.config = s.config /\ t.in_flight = s.in_flight
         /\ t.parsed_gen = s.parsed_gen /\ t.min_snapshot = s.min_snapshot
  <1>0. /\ s.committed \in Layers /\ s.pending \in Seq(Nat \X Nat)
        /\ s.committed.generation \in Nat /\ s.committed.snapshot \in Nat
    BY DEF SyntaxState, Layers
  <1>a. PICK none : none = <<>> /\ none \in Seq(Nat \X Nat) /\ Len(none) = 0
    <2>1. <<>> \in Seq(Nat \X Nat)
      OBVIOUS
    <2>2. Len(<<>>) = 0
      OBVIOUS
    <2> QED BY <2>1, <2>2
  <1>1. CASE s.committed.at = "none" \/ s.pending = <<>>
    <2>1. t = s
      BY <1>1 DEF Bake
    <2> QED BY <2>1, MovesCompose DEF Carried
  <1>2. CASE /\ s.committed.at # "none" /\ s.pending # <<>>
             /\ ~ChainOk(s, generation)
    <2>1. t = [s EXCEPT !.pending = none]
      BY <1>2, <1>a DEF Bake
    <2>2. /\ t \in SyntaxState /\ t.pending = none /\ t.committed = s.committed
          /\ t.config = s.config /\ t.in_flight = s.in_flight
          /\ t.parsed_gen = s.parsed_gen /\ t.min_snapshot = s.min_snapshot
      BY <1>a, <2>1 DEF SyntaxState
    <2>3. s # Detached
      BY <1>2 DEF Detached, NoLayers
    <2>4. ClaimsOf(t, generation, language, snapshot)
      BY <1>a, <2>2, <2>3 DEF ClaimsOf
    <2>5. Forward(s, t)
      BY <1>0, <2>2 DEF Forward, Newer
    <2> QED BY <1>2, <2>2, <2>4, <2>5 DEF Carried
  <1>3. CASE s.committed.at # "none" /\ s.pending # <<>> /\ ChainOk(s, generation)
    <2>1. PICK c : c = [s.committed EXCEPT !.at = "baked", !.generation = generation,
                                           !.describes = generation]
      OBVIOUS
    <2>3. s.committed.describes = s.pending[1][1]
      BY <1>3 DEF ClaimsOf, ChainOk
    <2>4. AppliedTo(s.committed.describes, s.pending) = generation
      BY <1>0, <1>3, <2>3, ChainCarries DEF ChainOk
    <2>2. t = [s EXCEPT !.committed = c, !.pending = none]
      BY <1>3, <1>a, <2>1, <2>4 DEF Bake, SyntaxState, Layers
    <2>5. /\ c \in Layers /\ c.at = "baked" /\ c.generation = generation
          /\ c.describes = generation /\ c.snapshot = s.committed.snapshot
      <3>1. generation \in Int /\ "baked" \in {"none", "baked", "parsed"}
        OBVIOUS
      <3>2. PICK l : l \in Layers /\ l = s.committed
        BY <1>0
      <3> QED BY <2>1, <3>1, <3>2 DEF Layers
    <2>6. /\ t \in SyntaxState /\ t.pending = none /\ t.committed = c
          /\ t.config = s.config /\ t.in_flight = s.in_flight
          /\ t.parsed_gen = s.parsed_gen /\ t.min_snapshot = s.min_snapshot
      BY <1>a, <2>2, <2>5 DEF SyntaxState
    <2>7. s # Detached
      BY <1>3 DEF Detached, NoLayers
    <2>8. ClaimsOf(t, generation, language, snapshot)
      BY <1>a, <2>5, <2>6, <2>7 DEF ClaimsOf
    <2>9. s.committed.generation < generation
      <3>1. 1 \in 1 .. Len(s.pending) /\ s.pending[1] \in Nat \X Nat
        BY <1>0, <1>3
      <3>2. s.pending[1][1] < s.pending[1][2] /\ s.pending[1][2] <= generation
        BY <3>1 DEF ClaimsOf
      <3> QED BY <1>3, <3>1, <3>2 DEF ChainOk
    <2>10. Forward(s, t)
      BY <1>0, <2>5, <2>6, <2>9 DEF Forward, Newer
    <2>11. Carried(s, t, generation)
      BY <1>3, <2>5, <2>6, <2>9 DEF Carried
    <2> QED BY <1>3, <2>6, <2>8, <2>10, <2>11
  <1> QED BY <1>1, <1>2, <1>3

\* What is known of a buffer of a sound editor.
LEMMA SoundBuffer ==
  ASSUME NEW e, NEW M, Sound(e, M), NEW b \in BufferId
  PROVE  /\ e \in Editor /\ LoadedHaveConfigs(e)
         /\ e.buffers[b] \in BufferState /\ e.buffers[b].syntax \in SyntaxState
         /\ e.buffers[b].generation \in Nat /\ e.buffers[b].generation # 0
         /\ e.buffers[b].language \in LanguageId \cup {NoLanguage}
         /\ e.snapshot \in Nat /\ e.grammars \in [LanguageId -> Grammar]
         /\ ClaimsOf(e.buffers[b].syntax, e.buffers[b].generation, e.buffers[b].language,
                     e.snapshot)
  BY EditorTypes DEF Sound, Claims, BufferState

\* A step that replaces b's syntax by one that makes true claims touches b.
LEMMA ReplacedTouches ==
  ASSUME NEW e, NEW M, Sound(e, M), NEW b \in BufferId, e.buffers[b].open, NEW t \in SyntaxState,
         NEW f, f = WithSyntax(e, b, t),
         ClaimsOf(t, e.buffers[b].generation, e.buffers[b].language, e.snapshot),
         Carried(e.buffers[b].syntax, t, e.buffers[b].generation)
  PROVE  Touches(e, f, b) /\ f.buffers[b].syntax = t /\ f.posts = e.posts /\ f.snapshot = e.snapshot
  <1>1. e \in Editor /\ LoadedHaveConfigs(e) /\ e.snapshot \in Nat
    BY SoundBuffer
  <1>2. Replaced(e, f, b, t)
    BY <1>1, SyntaxReplaced
  <1>3. LoadedHaveConfigs(f)
    BY <1>1, <1>2 DEF LoadedHaveConfigs, Replaced
  <1>4. f.buffers[b].generation = e.buffers[b].generation
        /\ f.buffers[b].language = e.buffers[b].language
    BY <1>2 DEF Replaced, SameText
  <1> QED BY <1>1, <1>2, <1>3, <1>4 DEF Touches, Replaced

-----------------------------------------------------------------------------
(* Steps keep what is waited for *)

\* The editor is sound and, while the worker is up, what it waits for is in the
\* queue Q or its own posts, or held in B, or answered in D.
Fine(e, Q, B, D, up) ==
  /\ Sound(e, ToSet(Q) \cup B \cup D)
  /\ Q \in Seq(Requests)
  /\ up => InOrder(Q \o e.posts) /\ Awaited(e, Q \o e.posts, B, D)

\* Requests one of which is posted last.
LEMMA AppendedLast ==
  ASSUME NEW Q \in Seq(Requests), NEW P \in Seq(Requests), NEW r \in Requests
  PROVE  LET S == Q \o P
             T == Q \o Append(P, r)
         IN  /\ S \in Seq(Requests) /\ Len(S) \in Nat /\ Len(T) = Len(S) + 1
             /\ T[Len(S) + 1] = r /\ \A i \in 1 .. Len(S) : T[i] = S[i]
             /\ \A i \in 1 .. Len(S) : S[i] \in ToSet(Q) \cup ToSet(P)
  <1> DEFINE S == Q \o P
  <1>1. PICK A : A = Append(P, r) /\ A \in Seq(Requests)
    <2>1. Append(P, r) \in Seq(Requests)
      OBVIOUS
    <2> QED BY <2>1
  <1>2. /\ Len(A) = Len(P) + 1 /\ A[Len(P) + 1] = r
        /\ \A i \in 1 .. Len(P) : A[i] = P[i]
        /\ Len(P) \in Nat /\ Len(Q) \in Nat
    BY <1>1
  <1>3. PICK T : T = Q \o A
    OBVIOUS
  <1>4. /\ Len(T) = Len(Q) + Len(A) /\ Len(S) = Len(Q) + Len(P)
        /\ S \in Seq(Requests)
    BY <1>1, <1>3
  <1>5. /\ \A i \in 1 .. Len(Q) : T[i] = Q[i] /\ S[i] = Q[i]
        /\ \A i \in Len(Q) + 1 .. Len(Q) + Len(A) : T[i] = A[i - Len(Q)]
        /\ \A i \in Len(Q) + 1 .. Len(Q) + Len(P) : S[i] = P[i - Len(Q)]
    <2>1. \A U \in Seq(Requests) :
            /\ \A i \in 1 .. Len(Q) : (Q \o U)[i] = Q[i]
            /\ \A i \in Len(Q) + 1 .. Len(Q) + Len(U) : (Q \o U)[i] = U[i - Len(Q)]
      OBVIOUS
    <2> QED BY <1>1, <1>3, <2>1
  <1>6. T[Len(S) + 1] = r
    BY <1>2, <1>4, <1>5
  <1>7. ASSUME NEW i \in 1 .. Len(S) PROVE T[i] = S[i] /\ S[i] \in ToSet(Q) \cup ToSet(P)
    <2>1. CASE i \in 1 .. Len(Q)
      BY <1>5, <2>1 DEF ToSet
    <2>2. CASE i \in Len(Q) + 1 .. Len(Q) + Len(P)
      <3>1. PICK k \in 1 .. Len(P) : k = i - Len(Q)
        BY <1>2, <2>2
      <3>2. T[i] = A[k] /\ S[i] = P[k]
        BY <1>2, <1>5, <2>2, <3>1
      <3> QED BY <1>2, <3>2 DEF ToSet
    <2> QED BY <1>2, <1>4, <2>1, <2>2
  <1> QED BY <1>1, <1>2, <1>3, <1>4, <1>6, <1>7

\* Steps on one buffer keep the editor fine.
LEMMA StepKeepsFine ==
  ASSUME NEW e, NEW f, NEW Q, NEW B, NEW D, NEW up, NEW b \in BufferId,
         Fine(e, Q, B, D, up), Touches(e, f, b), Posts(e, f, b)
  PROVE  Fine(f, Q, B, D, up)
  <1> DEFINE S == Q \o e.posts
             T == Q \o f.posts
             M == ToSet(Q) \cup B \cup D
  <1>1. Sound(e, M) /\ Sound(f, M) /\ Q \in Seq(Requests)
    BY TouchKeepsSound DEF Fine
  <1>2. e \in Editor /\ f \in Editor /\ e.posts \in Seq(Requests)
    BY <1>1, EditorTypes DEF Sound
  <1>3. \A c \in BufferId \ {b} : f.buffers[c].syntax = e.buffers[c].syntax
    BY DEF Touches
  <1>4. CASE NothingPosted(e, f, b)
    <2>1. S = T
      BY <1>4 DEF NothingPosted
    <2>2. ASSUME Awaited(e, S, B, D) PROVE Awaited(f, S, B, D)
      <3> SUFFICES ASSUME NEW c \in BufferId, f.buffers[c].syntax.in_flight # None
                   PROVE  \/ WaitedIn(c, f.buffers[c].syntax, S)
                          \/ HeldIn(c, f.buffers[c].syntax, S, B, D)
        BY DEF Awaited
      <3>1. PICK s, t : s = e.buffers[c].syntax /\ t = f.buffers[c].syntax
        OBVIOUS
      <3>2. s.in_flight = t.in_flight /\ s.config = t.config
        BY <1>3, <1>4, <3>1 DEF NothingPosted
      <3>3. WaitedIn(c, s, S) \/ HeldIn(c, s, S, B, D)
        BY <2>2, <3>1, <3>2 DEF Awaited
      <3>4. \A m : Answers(m, s) <=> Answers(m, t)
        BY <3>2 DEF Answers
      <3>5. WaitedIn(c, s, S) => WaitedIn(c, t, S)
        BY <3>4 DEF WaitedIn
      <3>6. HeldIn(c, s, S, B, D) => HeldIn(c, t, S, B, D)
        BY <3>4 DEF HeldIn
      <3> QED BY <3>1, <3>3, <3>5, <3>6
    <2> QED BY <1>1, <2>1, <2>2 DEF Fine
  <1>5. ASSUME NEW r, Asked(r, f, b), f.posts = Append(e.posts, r),
               f.buffers[b].syntax.in_flight = r.generation
        PROVE  Fine(f, Q, B, D, up)
    <2>1. r \in Requests /\ r.bid = b /\ Answers(r, f.buffers[b].syntax)
      BY <1>5 DEF Asked, Answers
    <2>2. /\ Len(S) \in Nat /\ Len(T) = Len(S) + 1
          /\ T[Len(S) + 1] = r /\ \A i \in 1 .. Len(S) : T[i] = S[i]
          /\ \A i \in 1 .. Len(S) : S[i] \in ToSet(Q) \cup ToSet(e.posts)
      BY <1>1, <1>2, <1>5, <2>1, AppendedLast
    <2>3. \A i \in 1 .. Len(S) : S[i].bid = b => S[i].generation <= r.generation
      <3>1. \A m \in ToSet(Q) \cup ToSet(e.posts) : Known(m, e)
        BY <1>1 DEF Sound
      <3>2. r.generation = e.buffers[b].generation
        BY <1>5 DEF Asked, Touches, SameText
      <3> QED BY <2>2, <3>1, <3>2 DEF Known
    <2>4. ASSUME InOrder(S) PROVE InOrder(T)
      <3> HIDE DEF S, T
      <3> QED BY <2>1, <2>2, <2>3, <2>4 DEF InOrder
    <2>5. ASSUME Awaited(e, S, B, D) PROVE Awaited(f, T, B, D)
      <3> SUFFICES ASSUME NEW c \in BufferId, f.buffers[c].syntax.in_flight # None
                   PROVE  \/ WaitedIn(c, f.buffers[c].syntax, T)
                          \/ HeldIn(c, f.buffers[c].syntax, T, B, D)
        BY DEF Awaited
      <3>1. CASE c = b
        <4>1. Len(S) + 1 \in 1 .. Len(T) /\ (Len(S) + 1 + 1) .. Len(T) = {}
          BY <2>2
        <4> HIDE DEF S, T
        <4> QED BY <2>1, <2>2, <3>1, <4>1 DEF WaitedIn
      <3>2. CASE c # b
        <4>1. PICK s : s = e.buffers[c].syntax /\ s = f.buffers[c].syntax /\ s.in_flight # None
          BY <1>3, <3>2
        <4>2. WaitedIn(c, s, S) \/ HeldIn(c, s, S, B, D)
          BY <2>5, <4>1 DEF Awaited
        <4>3. \A i \in 1 .. Len(T) : i \in 1 .. Len(S) \/ i = Len(S) + 1
          BY <2>2
        <4>4. WaitedIn(c, s, S) => WaitedIn(c, s, T)
          <5> SUFFICES ASSUME NEW i \in 1 .. Len(S), S[i].bid = c, Answers(S[i], s),
                              \A j \in (i + 1) .. Len(S) : S[j].bid # c
                       PROVE  WaitedIn(c, s, T)
            BY DEF WaitedIn
          <5>1. i \in 1 .. Len(T) /\ T[i].bid = c /\ Answers(T[i], s)
            BY <2>2
          <5>2. \A j \in (i + 1) .. Len(T) : T[j].bid # c
            <6> HIDE DEF S, T
            <6> QED BY <2>1, <2>2, <3>2
          <5> HIDE DEF S, T
          <5> QED BY <5>1, <5>2 DEF WaitedIn
        <4>5. HeldIn(c, s, S, B, D) => HeldIn(c, s, T, B, D)
          <5> HIDE DEF S, T
          <5> QED BY <2>1, <2>2, <3>2, <4>3 DEF HeldIn
        <4> QED BY <4>1, <4>2, <4>4, <4>5
      <3> QED BY <3>1, <3>2
    <2> QED BY <1>1, <2>4, <2>5 DEF Fine
  <1> QED BY <1>4, <1>5 DEF Posts, RequestPosted

\* Grammars that load keep the editor fine.
LEMMA LoadsKeepFine ==
  ASSUME NEW e, NEW f, NEW Q, NEW B, NEW D, NEW up, Fine(e, Q, B, D, up), Loads(e, f)
  PROVE  Fine(f, Q, B, D, up)
  <1>1. Sound(e, ToSet(Q) \cup B \cup D)
    BY DEF Fine
  <1>2. /\ e \in Editor /\ f \in Editor /\ f.snapshot >= e.snapshot
        /\ e.snapshot \in Nat /\ f.snapshot \in Nat
        /\ f.buffers = e.buffers /\ f.posts = e.posts
    BY <1>1, EditorTypes DEF Sound, Loads
  <1>3. \A m : Known(m, e) => Known(m, f)
    BY <1>2 DEF Known
  <1>4. \A b \in BufferId : Claims(e.buffers[b], e.snapshot) => Claims(f.buffers[b], f.snapshot)
    <2> SUFFICES ASSUME NEW b \in BufferId, Claims(e.buffers[b], e.snapshot)
                 PROVE  Claims(f.buffers[b], f.snapshot)
      OBVIOUS
    <2>1. PICK x : x = e.buffers[b] /\ x = f.buffers[b]
      BY <1>2
    <2>2. x.syntax.committed.snapshot \in Nat /\ x.syntax.min_snapshot \in Nat
      BY <1>2, <2>1, EditorTypes DEF Layers, SyntaxState
    <2>3. Claims(x, e.snapshot)
      BY <2>1
    <2>4. Claims(x, f.snapshot)
      BY <1>2, <2>2, <2>3 DEF Claims, ClaimsOf
    <2> QED BY <2>1, <2>4
  <1>5. Sound(f, ToSet(Q) \cup B \cup D)
    BY <1>1, <1>2, <1>3, <1>4 DEF Sound, Loads
  <1>6. \A S : Awaited(e, S, B, D) => Awaited(f, S, B, D)
    BY <1>2 DEF Awaited
  <1> QED BY <1>2, <1>5, <1>6 DEF Fine

-----------------------------------------------------------------------------
(* What steps do to every buffer *)

\* Every buffer has the text it had, and its layers are as new, or have gone.
Renews(e, f) ==
  \A c \in BufferId : /\ SameText(e.buffers[c], f.buffers[c])
                      /\ Resets(e.buffers[c].syntax, f.buffers[c].syntax)

\* Every buffer has the text it had, and its layers are as new.
Advances(e, f) ==
  \A c \in BufferId : /\ SameText(e.buffers[c], f.buffers[c])
                      /\ Forward(e.buffers[c].syntax, f.buffers[c].syntax)

\* The relations compose.
LEMMA ChangesCompose ==
  ASSUME NEW e \in Editor, NEW u \in Editor, NEW f \in Editor
  PROVE  /\ Renews(e, e) /\ Advances(e, e)
         /\ Renews(e, u) /\ Renews(u, f) => Renews(e, f)
         /\ Advances(e, u) /\ Advances(u, f) => Advances(e, f)
  <1>1. ASSUME NEW c \in BufferId
        PROVE  /\ SameText(e.buffers[c], e.buffers[c])
               /\ Resets(e.buffers[c].syntax, e.buffers[c].syntax)
               /\ Forward(e.buffers[c].syntax, e.buffers[c].syntax)
    BY EditorTypes, MovesCompose DEF SameText
  <1>2. ASSUME NEW c \in BufferId, SameText(e.buffers[c], u.buffers[c]),
               SameText(u.buffers[c], f.buffers[c])
        PROVE  SameText(e.buffers[c], f.buffers[c])
    BY <1>2 DEF SameText
  <1>3. ASSUME NEW c \in BufferId
        PROVE  /\ (/\ Resets(e.buffers[c].syntax, u.buffers[c].syntax)
                   /\ Resets(u.buffers[c].syntax, f.buffers[c].syntax))
                  => Resets(e.buffers[c].syntax, f.buffers[c].syntax)
               /\ (/\ Forward(e.buffers[c].syntax, u.buffers[c].syntax)
                   /\ Forward(u.buffers[c].syntax, f.buffers[c].syntax))
                  => Forward(e.buffers[c].syntax, f.buffers[c].syntax)
    BY EditorTypes, MovesCompose
  <1> QED BY <1>1, <1>2, <1>3 DEF Renews, Advances

\* A step on one buffer changes no other.
LEMMA TouchMoves ==
  ASSUME NEW e \in Editor, NEW f, NEW b \in BufferId, Touches(e, f, b)
  PROVE  /\ Resets(e.buffers[b].syntax, f.buffers[b].syntax) => Renews(e, f)
         /\ Forward(e.buffers[b].syntax, f.buffers[b].syntax) => Advances(e, f)
  <1>1. ASSUME NEW c \in BufferId, c # b
        PROVE  /\ SameText(e.buffers[c], f.buffers[c])
               /\ Resets(e.buffers[c].syntax, f.buffers[c].syntax)
               /\ Forward(e.buffers[c].syntax, f.buffers[c].syntax)
    <2>1. f.buffers[c] = e.buffers[c]
      BY <1>1 DEF Touches
    <2> QED BY <2>1, EditorTypes, MovesCompose DEF SameText
  <1>2. SameText(e.buffers[b], f.buffers[b])
    BY DEF Touches
  <1> QED BY <1>1, <1>2 DEF Renews, Advances

-----------------------------------------------------------------------------
(* Requests are posted *)

\* The request for b's text is posted, and b waits for its answer.
Asks(e, b) ==
  Post([e EXCEPT !.buffers[b].syntax.in_flight = e.buffers[b].generation], Request(e, b))

\* What is asked for.
LEMMA RequestAsks ==
  ASSUME NEW e, NEW M, Sound(e, M), NEW b \in BufferId,
         e.buffers[b].syntax.config # None
  PROVE  Asked(Request(e, b), e, b)
  <1>1. PICK r, buf : r = Request(e, b) /\ buf = e.buffers[b]
    OBVIOUS
  <1>2. /\ buf \in BufferState /\ buf.syntax \in SyntaxState /\ buf.generation \in Nat
        /\ e.snapshot \in Nat /\ e.grammars \in [LanguageId -> Grammar]
        /\ ClaimsOf(buf.syntax, buf.generation, buf.language, e.snapshot)
    BY <1>1, SoundBuffer
  <1>3. /\ buf.syntax.committed \in Layers /\ buf.syntax.config \in Nat
        /\ buf.syntax.committed.describes \in Int
        /\ buf.syntax.committed.generation \in Nat
    BY <1>2 DEF SyntaxState, Layers
  <1>4. buf.language \in LanguageId
    BY <1>1, <1>2 DEF ClaimsOf
  <1>5. PICK prior, names :
          /\ prior = IF buf.syntax.committed.generation = buf.generation
                       THEN buf.syntax.committed.describes ELSE None
          /\ names = IF buf.size = "empty" THEN {} ELSE Injects[buf.language]
    OBVIOUS
  <1>6. /\ r.bid = b /\ r.generation = buf.generation /\ r.config = buf.syntax.config
        /\ r.snapshot = e.snapshot /\ r.prior = prior
        /\ r = [bid |-> b, generation |-> buf.generation, config |-> buf.syntax.config,
                prior |-> prior, names |-> names, langs |-> e.grammars,
                snapshot |-> e.snapshot]
    BY <1>1, <1>5 DEF Request
  <1>7. names \in SUBSET LanguageId
    BY <1>4, <1>5, ParseWorkerAssumption DEF ParseWorkerAssumption
  <1>8. prior \in Int /\ prior \in {None, buf.generation}
    <2>1. CASE buf.syntax.committed.generation = buf.generation
      <3>1. buf.syntax.committed.at # "none" => buf.syntax.committed.describes = buf.generation
        BY <1>2, <2>1 DEF ClaimsOf
      <3>2. buf.syntax.committed.at = "none" => buf.generation = None
        BY <1>2, <2>1 DEF ClaimsOf
      <3>3. buf.generation # 0
        BY <1>1, SoundBuffer
      <3> QED BY <1>3, <1>5, <2>1, <3>1, <3>2, <3>3 DEF None
    <2> QED BY <1>5, <2>1 DEF None
  <1>9. r \in Requests
    BY <1>2, <1>3, <1>6, <1>7, <1>8 DEF Requests
  <1> QED BY <1>1, <1>6, <1>8, <1>9 DEF Asked, FitPrior

\* Asking is a step on one buffer, and leaves its layers.
LEMMA AskTouches ==
  ASSUME NEW e, NEW M, Sound(e, M), NEW b \in BufferId, e.buffers[b].open,
         e.buffers[b].syntax.config # None
  PROVE  /\ Touches(e, Asks(e, b), b) /\ Posts(e, Asks(e, b), b)
         /\ Asks(e, b).buffers[b].syntax.committed = e.buffers[b].syntax.committed
         /\ Asks(e, b).buffers[b].syntax.config = e.buffers[b].syntax.config
  <1>1. PICK s, gen, r, p : /\ s = e.buffers[b].syntax /\ gen = e.buffers[b].generation
                            /\ r = Request(e, b) /\ p = Append(e.posts, r)
    OBVIOUS
  <1>2. /\ e \in Editor /\ s \in SyntaxState /\ gen \in Nat /\ e.snapshot \in Nat
        /\ ClaimsOf(s, gen, e.buffers[b].language, e.snapshot) /\ e.posts \in Seq(Requests)
    BY <1>1, SoundBuffer, EditorTypes
  <1>3. PICK t : t = [s EXCEPT !.in_flight = gen]
    OBVIOUS
  <1>4. /\ t \in SyntaxState /\ t.in_flight = gen /\ t.config = s.config
        /\ t.committed = s.committed /\ t.parsed_gen = s.parsed_gen
        /\ t.min_snapshot = s.min_snapshot /\ t.pending = s.pending
    BY <1>2, <1>3 DEF SyntaxState
  <1>5. ClaimsOf(t, gen, e.buffers[b].language, e.snapshot) /\ Carried(s, t, gen)
    BY <1>1, <1>2, <1>4 DEF ClaimsOf, Carried
  <1>6. PICK h : h = WithSyntax(e, b, t)
    OBVIOUS
  <1>7. /\ Touches(e, h, b) /\ h.buffers[b].syntax = t /\ h.posts = e.posts
        /\ h.snapshot = e.snapshot
    BY <1>1, <1>4, <1>5, <1>6, ReplacedTouches
  <1>8. PICK f : f = [h EXCEPT !.posts = p]
    OBVIOUS
  <1>9. Asks(e, b) = f
    <2>1. h = [e EXCEPT !.buffers[b].syntax.in_flight = gen]
      BY <1>1, <1>2, <1>3, <1>6 DEF WithSyntax
    <2>2. Asks(e, b) = [h EXCEPT !.posts = Append(h.posts, r)]
      BY <1>1, <2>1 DEF Asks, Post
    <2> QED BY <1>1, <1>7, <1>8, <2>2
  <1>10. Asked(r, e, b)
    BY <1>1, RequestAsks
  <1>11. p \in Seq(Requests)
    <2>1. r \in Requests
      BY <1>10 DEF Asked
    <2>2. Append(e.posts, r) \in Seq(Requests)
      BY <1>2, <2>1
    <2> QED BY <1>1, <2>2
  <1>12. /\ f \in Editor /\ f.buffers = h.buffers /\ f.snapshot = h.snapshot
         /\ f.grammars = h.grammars /\ f.posts = p
    <2>1. h \in Editor
      BY <1>7 DEF Touches
    <2> QED BY <1>8, <1>11, <2>1 DEF Editor
  <1>13. LoadedHaveConfigs(f)
    BY <1>7, <1>12 DEF Touches, LoadedHaveConfigs
  <1>14. Touches(e, f, b)
    BY <1>7, <1>12, <1>13 DEF Touches
  <1>15. Asked(r, f, b)
    <2>1. f.buffers[b].generation = e.buffers[b].generation
      BY <1>14 DEF Touches, SameText
    <2> QED BY <1>1, <1>4, <1>7, <1>10, <1>12, <2>1 DEF Asked
  <1>16. RequestPosted(e, f, b)
    <2>1. f.buffers[b].syntax.in_flight = r.generation
      BY <1>1, <1>4, <1>7, <1>10, <1>12 DEF Asked
    <2> QED BY <1>1, <1>12, <1>15, <2>1 DEF RequestPosted
  <1> QED BY <1>1, <1>4, <1>7, <1>9, <1>12, <1>14, <1>16 DEF Posts

-----------------------------------------------------------------------------
(* What the editor does to one buffer *)

\* The editor stays fine, and every buffer is renewed.
FineRenewal(e, f, Q, B, D, up) == Fine(f, Q, B, D, up) /\ Renews(e, f)

\* A fine editor is an editor, and what it knows of a buffer.
LEMMA FineBuffer ==
  ASSUME NEW e, NEW Q, NEW B, NEW D, NEW up, Fine(e, Q, B, D, up), NEW b \in BufferId
  PROVE  /\ Sound(e, ToSet(Q) \cup B \cup D) /\ e \in Editor /\ LoadedHaveConfigs(e)
         /\ e.buffers[b].syntax \in SyntaxState /\ e.buffers[b].syntax.committed \in Layers
         /\ e.buffers[b].generation \in Nat /\ e.snapshot \in Nat
         /\ e.buffers[b].language \in LanguageId \cup {NoLanguage}
         /\ e.grammars \in [LanguageId -> Grammar]
         /\ ClaimsOf(e.buffers[b].syntax, e.buffers[b].generation, e.buffers[b].language,
                     e.snapshot)
  BY SoundBuffer DEF Fine, SyntaxState

\* Renewals compose.
LEMMA RenewalsCompose ==
  ASSUME NEW e, NEW u, NEW f, NEW Q, NEW B, NEW D, NEW up, Fine(e, Q, B, D, up),
         FineRenewal(e, u, Q, B, D, up), FineRenewal(u, f, Q, B, D, up)
  PROVE  FineRenewal(e, f, Q, B, D, up)
  <1>1. e \in Editor /\ u \in Editor /\ f \in Editor
    BY DEF FineRenewal, Fine, Sound
  <1> QED BY <1>1, ChangesCompose DEF FineRenewal

\* The layers of a buffer do not change.
LEMMA SameLayers ==
  ASSUME NEW s \in SyntaxState, NEW t \in SyntaxState, t.committed = s.committed,
         t.config = s.config
  PROVE  Forward(s, t) /\ Resets(s, t)
  <1>1. s.committed.generation \in Nat /\ s.committed.snapshot \in Nat
    BY DEF SyntaxState, Layers
  <1> QED BY <1>1 DEF Forward, Resets, Newer

\* A step that replaces b's syntax keeps the editor fine.
LEMMA ReplacedIsFine ==
  ASSUME NEW e, NEW Q, NEW B, NEW D, NEW up, Fine(e, Q, B, D, up),
         NEW b \in BufferId, e.buffers[b].open, NEW t \in SyntaxState,
         ClaimsOf(t, e.buffers[b].generation, e.buffers[b].language, e.snapshot),
         Carried(e.buffers[b].syntax, t, e.buffers[b].generation),
         \/ t.in_flight = None
         \/ /\ t.in_flight = e.buffers[b].syntax.in_flight
            /\ t.config = e.buffers[b].syntax.config
  PROVE  /\ Fine(WithSyntax(e, b, t), Q, B, D, up)
         /\ Replaced(e, WithSyntax(e, b, t), b, t)
         /\ Resets(e.buffers[b].syntax, t) => Renews(e, WithSyntax(e, b, t))
         /\ Forward(e.buffers[b].syntax, t) => Advances(e, WithSyntax(e, b, t))
  <1>1. PICK f : f = WithSyntax(e, b, t)
    OBVIOUS
  <1>2. Sound(e, ToSet(Q) \cup B \cup D) /\ e \in Editor
    BY FineBuffer
  <1>3. /\ Touches(e, f, b) /\ f.buffers[b].syntax = t /\ f.posts = e.posts
        /\ Replaced(e, f, b, t)
    BY <1>1, <1>2, ReplacedTouches, SyntaxReplaced
  <1>4. Posts(e, f, b)
    BY <1>3 DEF Posts, NothingPosted
  <1>5. Fine(f, Q, B, D, up)
    BY <1>3, <1>4, StepKeepsFine
  <1> QED BY <1>1, <1>2, <1>3, <1>5, TouchMoves

\* A buffer loses its syntax.
LEMMA DetachKeeps ==
  ASSUME NEW e, NEW Q, NEW B, NEW D, NEW up, Fine(e, Q, B, D, up),
         NEW b \in BufferId, e.buffers[b].open
  PROVE  /\ FineRenewal(e, WithSyntax(e, b, Detached), Q, B, D, up)
         /\ Replaced(e, WithSyntax(e, b, Detached), b, Detached)
  <1>1. Detached.in_flight = None /\ Detached.committed.at = "none"
    BY DEF Detached, NoLayers
  <1>2. /\ Detached \in SyntaxState
        /\ ClaimsOf(Detached, e.buffers[b].generation, e.buffers[b].language, e.snapshot)
    <2>1. e.buffers[b].generation \in Nat /\ e.snapshot \in Nat
      BY FineBuffer
    <2> QED BY <2>1, DetachedIsSound
  <1>3. Carried(e.buffers[b].syntax, Detached, e.buffers[b].generation)
    BY <1>1 DEF Carried
  <1>4. Resets(e.buffers[b].syntax, Detached)
    BY <1>1 DEF Resets
  <1> QED BY <1>1, <1>2, <1>3, <1>4, ReplacedIsFine DEF FineRenewal

\* A buffer asks for its text.
LEMMA AskKeeps ==
  ASSUME NEW e, NEW Q, NEW B, NEW D, NEW up, Fine(e, Q, B, D, up),
         NEW b \in BufferId, e.buffers[b].open, e.buffers[b].syntax.config # None
  PROVE  FineRenewal(e, Asks(e, b), Q, B, D, up)
  <1>1. PICK f : f = Asks(e, b)
    OBVIOUS
  <1>2. Sound(e, ToSet(Q) \cup B \cup D) /\ e \in Editor
    BY FineBuffer
  <1>3. /\ Touches(e, f, b) /\ Posts(e, f, b)
        /\ f.buffers[b].syntax.committed = e.buffers[b].syntax.committed
        /\ f.buffers[b].syntax.config = e.buffers[b].syntax.config
    BY <1>1, <1>2, AskTouches
  <1>4. Fine(f, Q, B, D, up)
    BY <1>3, StepKeepsFine
  <1>5. Resets(e.buffers[b].syntax, f.buffers[b].syntax)
    BY <1>3, <1>4, FineBuffer, SameLayers
  <1> QED BY <1>1, <1>2, <1>3, <1>4, <1>5, TouchMoves DEF FineRenewal

\* The edits of a buffer are baked.
LEMMA BakeKeeps ==
  ASSUME NEW e, NEW Q, NEW B, NEW D, NEW up, Fine(e, Q, B, D, up),
         NEW b \in BufferId, e.buffers[b].open,
         NEW t, t = Bake(e.buffers[b].syntax, e.buffers[b].generation)
  PROVE  /\ FineRenewal(e, WithSyntax(e, b, t), Q, B, D, up)
         /\ Advances(e, WithSyntax(e, b, t))
         /\ Replaced(e, WithSyntax(e, b, t), b, t)
         /\ t.config = e.buffers[b].syntax.config
  <1>1. PICK s, gen, language : /\ s = e.buffers[b].syntax /\ gen = e.buffers[b].generation
                                /\ language = e.buffers[b].language
    OBVIOUS
  <1>2. /\ s \in SyntaxState /\ gen \in Nat /\ e.snapshot \in Nat
        /\ ClaimsOf(s, gen, language, e.snapshot) /\ t = Bake(s, gen)
    BY <1>1, FineBuffer
  <1>3. /\ t \in SyntaxState /\ ClaimsOf(t, gen, language, e.snapshot)
        /\ Carried(s, t, gen) /\ Forward(s, t)
        /\ s.committed.at = "none" => t.committed.at = "none"
        /\ t.config = s.config /\ t.in_flight = s.in_flight
    BY <1>2, BakeClaims
  <1>4. Resets(s, t)
    BY <1>3 DEF Resets
  <1> QED BY <1>1, <1>3, <1>4, ReplacedIsFine DEF FineRenewal

\* frame_tick keeps the editor fine.
LEMMA FrameTickKeeps ==
  ASSUME NEW e, NEW Q, NEW B, NEW D, NEW up, Fine(e, Q, B, D, up),
         NEW b \in BufferId, e.buffers[b].open, e.buffers[b].syntax.config # None
  PROVE  FineRenewal(e, FrameTick(e, b), Q, B, D, up)
  <1>1. PICK t, baked : /\ t = Bake(e.buffers[b].syntax, e.buffers[b].generation)
                        /\ baked = WithSyntax(e, b, t)
    OBVIOUS
  <1>2. /\ FineRenewal(e, baked, Q, B, D, up) /\ Replaced(e, baked, b, t)
        /\ t.config = e.buffers[b].syntax.config
    BY <1>1, BakeKeeps
  <1>3. /\ baked.buffers[b].open /\ baked.buffers[b].syntax.config # None
        /\ baked.buffers[b].generation = e.buffers[b].generation
    BY <1>2 DEF Replaced, SameText
  <1>4. FineRenewal(baked, Asks(baked, b), Q, B, D, up)
    BY <1>2, <1>3, AskKeeps DEF FineRenewal
  <1>5. FineRenewal(e, Asks(baked, b), Q, B, D, up)
    BY <1>2, <1>4, RenewalsCompose
  <1>6. FineRenewal(e, e, Q, B, D, up)
    BY FineBuffer, ChangesCompose DEF FineRenewal
  <1>7. \/ FrameTick(e, b) = e \/ FrameTick(e, b) = baked
        \/ FrameTick(e, b) = Asks(baked, b)
    <2>1. FrameTick(e, b) =
            IF e.buffers[b].syntax.parsed_gen = e.buffers[b].generation THEN e
            ELSE IF t.in_flight = e.buffers[b].generation THEN baked
            ELSE Post([baked EXCEPT !.buffers[b].syntax.in_flight = e.buffers[b].generation],
                      Request(baked, b))
      BY <1>1 DEF FrameTick, WithSyntax
    <2> QED BY <1>3, <2>1 DEF Asks
  <1> QED BY <1>2, <1>5, <1>6, <1>7

\* The greater of two numbers.
LEMMA MaxOfTwo ==
  ASSUME NEW m \in Nat, NEW n \in Nat
  PROVE  Max({m, n}) \in {m, n} /\ Max({m, n}) >= m /\ Max({m, n}) >= n
  <1>1. \E x \in {m, n} : \A y \in {m, n} : x >= y
    <2>1. CASE m >= n
      BY <2>1
    <2>2. CASE n >= m
      BY <2>2
    <2> QED BY <2>1, <2>2
  <1>2. Max({m, n}) \in {m, n} /\ \A y \in {m, n} : Max({m, n}) >= y
    BY <1>1 DEF Max
  <1> QED BY <1>2

\* reresolve_injections keeps the editor fine.
LEMMA ReresolveKeeps ==
  ASSUME NEW e, NEW Q, NEW B, NEW D, NEW up, Fine(e, Q, B, D, up),
         NEW b \in BufferId, e.buffers[b].open, e.buffers[b].syntax.config # None
  PROVE  /\ FineRenewal(e, Reresolve(e, b), Q, B, D, up) /\ Advances(e, Reresolve(e, b))
         /\ Reresolve(e, b).buffers[b].syntax.config = e.buffers[b].syntax.config
         /\ Reresolve(e, b).buffers[b].syntax.in_flight = e.buffers[b].syntax.in_flight
         /\ Reresolve(e, b).posts = e.posts
  <1>1. PICK s, gen, language, n :
          /\ s = e.buffers[b].syntax /\ gen = e.buffers[b].generation
          /\ language = e.buffers[b].language /\ n = Max({s.min_snapshot, e.snapshot})
    OBVIOUS
  <1>2. /\ s \in SyntaxState /\ gen \in Nat /\ e.snapshot \in Nat /\ s.min_snapshot \in Nat
        /\ ClaimsOf(s, gen, language, e.snapshot) /\ s.config # None
    BY <1>1, FineBuffer DEF SyntaxState
  <1>3. n \in Nat /\ n <= e.snapshot
    BY <1>1, <1>2, MaxOfTwo DEF ClaimsOf
  <1>4. PICK t : t = [s EXCEPT !.min_snapshot = n, !.parsed_gen = None]
    OBVIOUS
  <1>5. /\ t \in SyntaxState /\ t.in_flight = s.in_flight /\ t.config = s.config
        /\ t.committed = s.committed /\ t.parsed_gen = None
        /\ t.min_snapshot = n /\ t.pending = s.pending
    BY <1>2, <1>3, <1>4 DEF SyntaxState, None
  <1>6. ClaimsOf(t, gen, language, e.snapshot) /\ Carried(s, t, gen)
    BY <1>2, <1>3, <1>5 DEF ClaimsOf, Carried, None
  <1>7. Forward(s, t) /\ Resets(s, t)
    BY <1>2, <1>5, SameLayers
  <1>8. Reresolve(e, b) = WithSyntax(e, b, t)
    BY <1>1, <1>4 DEF Reresolve, WithSyntax
  <1> QED BY <1>1, <1>5, <1>6, <1>7, <1>8, ReplacedIsFine DEF FineRenewal, Replaced

\* Syntax::attach keeps the editor fine.
LEMMA AttachKeeps ==
  ASSUME NEW e, NEW Q, NEW B, NEW D, NEW up, Fine(e, Q, B, D, up),
         NEW b \in BufferId, e.buffers[b].open, e.buffers[b].language \in LanguageId,
         e.grammars[e.buffers[b].language].slot = "loaded"
  PROVE  FineRenewal(e, Attach(e, b), Q, B, D, up)
  <1>1. PICK config, gen, t, fresh :
          /\ config = e.grammars[e.buffers[b].language].config
          /\ gen = e.buffers[b].generation
          /\ t = [Detached EXCEPT !.config = config] /\ fresh = WithSyntax(e, b, t)
    OBVIOUS
  <1>2. config \in Nat /\ config # None /\ gen \in Nat /\ e.snapshot \in Nat
    BY <1>1, FineBuffer DEF LoadedHaveConfigs, Grammar
  <1>3. Detached \in SyntaxState /\ ClaimsOf(Detached, gen, e.buffers[b].language, e.snapshot)
    BY <1>2, DetachedIsSound
  <1>4. /\ t \in SyntaxState /\ t.config = config /\ t.in_flight = None
        /\ t.committed = NoLayers /\ t.committed.at = "none"
        /\ t.parsed_gen = None /\ t.pending = <<>> /\ t.min_snapshot = 0
    BY <1>1, <1>2, <1>3 DEF Detached, SyntaxState, NoLayers
  <1>5. ClaimsOf(t, gen, e.buffers[b].language, e.snapshot)
    BY <1>2, <1>4 DEF ClaimsOf, NoLayers, None
  <1>6. Carried(e.buffers[b].syntax, t, gen) /\ Resets(e.buffers[b].syntax, t)
    BY <1>4 DEF Carried, Resets
  <1>7. FineRenewal(e, fresh, Q, B, D, up) /\ Replaced(e, fresh, b, t)
    BY <1>1, <1>4, <1>5, <1>6, ReplacedIsFine DEF FineRenewal
  <1>8. /\ Fine(fresh, Q, B, D, up) /\ fresh.buffers[b].open
        /\ fresh.buffers[b].syntax = t /\ fresh.buffers[b].generation = gen
        /\ fresh.buffers[b].language = e.buffers[b].language /\ fresh.snapshot = e.snapshot
    BY <1>1, <1>7 DEF FineRenewal, Replaced, SameText
  <1>9. FineRenewal(e, Asks(fresh, b), Q, B, D, up)
    <2>1. FineRenewal(fresh, Asks(fresh, b), Q, B, D, up)
      BY <1>2, <1>4, <1>8, AskKeeps
    <2> QED BY <1>7, <2>1, RenewalsCompose
  <1>10. PICK u : u = [t EXCEPT !.parsed_gen = gen]
    OBVIOUS
  <1>11. FineRenewal(e, WithSyntax(fresh, b, u), Q, B, D, up)
    <2>1. /\ u \in SyntaxState /\ u.config = t.config /\ u.in_flight = None
          /\ u.committed = t.committed /\ u.parsed_gen = gen
          /\ u.pending = t.pending /\ u.min_snapshot = t.min_snapshot
      BY <1>2, <1>4, <1>10 DEF SyntaxState
    <2>2. ClaimsOf(u, gen, e.buffers[b].language, e.snapshot) /\ Carried(t, u, gen)
      BY <1>2, <1>4, <1>5, <2>1 DEF ClaimsOf, Carried, None
    <2>3. Resets(t, u)
      BY <1>4, <2>1 DEF Resets
    <2>4. FineRenewal(fresh, WithSyntax(fresh, b, u), Q, B, D, up)
      BY <1>8, <2>1, <2>2, <2>3, ReplacedIsFine DEF FineRenewal
    <2> QED BY <1>7, <2>4, RenewalsCompose
  <1>12. Attach(e, b) = WithSyntax(fresh, b, u) \/ Attach(e, b) = Asks(fresh, b)
    <2>1. fresh = [e EXCEPT !.buffers[b].syntax =
                     SyntaxOf(e.grammars[e.buffers[b].language].config)]
      BY <1>1 DEF WithSyntax, SyntaxOf
    <2>2. WithSyntax(fresh, b, u) = [fresh EXCEPT !.buffers[b].syntax.parsed_gen = gen]
      BY <1>8, <1>10 DEF WithSyntax
    <2>3. Asks(fresh, b) =
            Post([fresh EXCEPT !.buffers[b].syntax.in_flight = gen], Request(fresh, b))
      BY <1>8 DEF Asks
    <2>4. gen = e.buffers[b].generation
      BY <1>1
    <2>5. CASE e.buffers[b].size = "empty"
      <3>1. Attach(e, b) =
              [fresh EXCEPT !.buffers[b].syntax.parsed_gen = e.buffers[b].generation]
        BY <2>1, <2>5 DEF Attach
      <3> QED BY <2>2, <2>4, <3>1
    <2>6. CASE e.buffers[b].size # "empty"
      <3>1. Attach(e, b) =
              Post([fresh EXCEPT !.buffers[b].syntax.in_flight = e.buffers[b].generation],
                   Request(fresh, b))
        BY <2>1, <2>6 DEF Attach
      <3> QED BY <2>3, <2>4, <3>1
    <2> QED BY <2>5, <2>6
  <1> QED BY <1>9, <1>11, <1>12

\* setup_buffer_syntax keeps the editor fine that has lost b's syntax.
LEMMA SetupKeeps ==
  ASSUME NEW e, NEW bare, NEW Q, NEW B, NEW D, NEW up, Fine(bare, Q, B, D, up),
         NEW b \in BufferId, bare = WithSyntax(e, b, Detached), Replaced(e, bare, b, Detached),
         bare.buffers[b].open
  PROVE  FineRenewal(bare, Setup(e, b), Q, B, D, up)
  <1>1. PICK language : language = e.buffers[b].language
    OBVIOUS
  <1>2. bare.buffers[b].language = language /\ language \in LanguageId \cup {NoLanguage}
    BY <1>1, FineBuffer DEF Replaced, SameText
  <1>3. FineRenewal(bare, bare, Q, B, D, up)
    BY FineBuffer, ChangesCompose DEF FineRenewal
  <1>4. PICK loaded : loaded = Load(bare, language)
    OBVIOUS
  <1>5. ASSUME language # NoLanguage
        PROVE  /\ FineRenewal(bare, loaded, Q, B, D, up)
               /\ loaded.grammars[language].slot = "loaded"
                    => FineRenewal(bare, Attach(loaded, b), Q, B, D, up)
    <2>1. Loads(bare, loaded)
      BY <1>2, <1>4, <1>5, FineBuffer, LoadLoads
    <2>2. Fine(loaded, Q, B, D, up) /\ loaded.buffers = bare.buffers
      BY <2>1, LoadsKeepFine DEF Loads
    <2>3. FineRenewal(bare, loaded, Q, B, D, up)
      BY <1>3, <2>2 DEF FineRenewal, Renews
    <2>4. ASSUME loaded.grammars[language].slot = "loaded"
          PROVE  FineRenewal(bare, Attach(loaded, b), Q, B, D, up)
      <3>1. FineRenewal(loaded, Attach(loaded, b), Q, B, D, up)
        BY <1>2, <1>5, <2>2, <2>4, AttachKeeps
      <3> QED BY <2>3, <3>1, RenewalsCompose
    <2> QED BY <2>3, <2>4
  <1>6. Setup(e, b) =
          IF language = NoLanguage \/ ~SizeOk(e, b) THEN bare
          ELSE IF loaded.grammars[language].slot = "loaded" THEN Attach(loaded, b)
          ELSE loaded
    BY <1>1, <1>4 DEF Setup, WithSyntax
  <1> QED BY <1>3, <1>5, <1>6

\* setup_buffer_syntax renews an open buffer.
LEMMA SetupRenews ==
  ASSUME NEW e, NEW Q, NEW B, NEW D, NEW up, Fine(e, Q, B, D, up),
         NEW b \in BufferId, e.buffers[b].open
  PROVE  FineRenewal(e, Setup(e, b), Q, B, D, up)
  <1>1. PICK bare : bare = WithSyntax(e, b, Detached)
    OBVIOUS
  <1>2. FineRenewal(e, bare, Q, B, D, up) /\ Replaced(e, bare, b, Detached)
    BY <1>1, DetachKeeps
  <1>3. bare.buffers[b].open
    BY <1>2 DEF Replaced, SameText
  <1>4. FineRenewal(bare, Setup(e, b), Q, B, D, up)
    BY <1>1, <1>2, <1>3, SetupKeeps DEF FineRenewal
  <1> QED BY <1>2, <1>4, RenewalsCompose

\* One buffer of post_stale_requests.
LEMMA PostStaleKeeps ==
  ASSUME NEW e, NEW Q, NEW B, NEW D, NEW up, Fine(e, Q, B, D, up),
         NEW b \in BufferId, e.buffers[b].open
  PROVE  FineRenewal(e, PostStale(e, b), Q, B, D, up)
  <1>1. FineRenewal(e, WithSyntax(e, b, Detached), Q, B, D, up)
    BY DetachKeeps
  <1>2. Attached(e, b) => FineRenewal(e, FrameTick(e, b), Q, B, D, up)
    BY FrameTickKeeps DEF Attached
  <1>3. FineRenewal(e, Setup(e, b), Q, B, D, up)
    BY SetupRenews
  <1>4. FineRenewal(e, e, Q, B, D, up)
    BY FineBuffer, ChangesCompose DEF FineRenewal
  <1>5. \/ PostStale(e, b) = WithSyntax(e, b, Detached)
        \/ Attached(e, b) /\ PostStale(e, b) = FrameTick(e, b)
        \/ PostStale(e, b) = Setup(e, b)
        \/ PostStale(e, b) = e
    BY DEF PostStale, WithSyntax, Outgrown
  <1> QED BY <1>1, <1>2, <1>3, <1>4, <1>5

-----------------------------------------------------------------------------
(* Results are installed *)

\* A buffer that takes a result for its text, and better layers than its own,
\* moves forward.
LEMMA TakenClaims ==
  ASSUME NEW s \in SyntaxState, NEW gen \in Nat, NEW language, NEW snapshot \in Nat,
         ClaimsOf(s, gen, language, snapshot), s.config # None,
         NEW d \in Results, d.generation = gen, d.snapshot <= snapshot,
         d.describes = d.generation, Behind(s.committed, d), ~AlreadyInstalled(s, d),
         NEW t, t = Taken(s, d)
  PROVE  /\ t \in SyntaxState /\ ClaimsOf(t, gen, language, snapshot)
         /\ Carried(s, t, gen) /\ Forward(s, t)
         /\ t.config = s.config /\ t.in_flight = s.in_flight
  <1>0. /\ d.snapshot \in Nat /\ d.describes \in Int /\ d.generation \in Nat
        /\ d.injected \in SUBSET (LanguageId \X Nat)
    BY DEF Results
  <1>1. /\ s.committed \in Layers /\ s.committed.generation \in Nat
        /\ s.committed.snapshot \in Nat /\ s.min_snapshot \in Nat
        /\ s.committed.at \in {"none", "baked", "parsed"}
    BY DEF SyntaxState, Layers
  <1>2. PICK c : c = [at |-> "parsed", generation |-> d.generation,
                      snapshot |-> d.snapshot, describes |-> d.describes,
                      injected |-> d.injected]
    OBVIOUS
  <1>3. /\ c \in Layers /\ c.at = "parsed" /\ c.generation = gen
        /\ c.snapshot = d.snapshot /\ c.describes = gen
    BY <1>0, <1>2 DEF Layers
  <1>4. PICK none : none = <<>> /\ none \in Seq(Nat \X Nat) /\ Len(none) = 0
    <2>1. <<>> \in Seq(Nat \X Nat)
      OBVIOUS
    <2>2. Len(<<>>) = 0
      OBVIOUS
    <2> QED BY <2>1, <2>2
  <1>5. PICK kept : kept = IF d.ok THEN [s EXCEPT !.pending = none, !.failed = FALSE,
                                                 !.committed = c]
                           ELSE [s EXCEPT !.failed = TRUE]
    OBVIOUS
  <1>6. Newer(s.committed, c) \/ s.committed.at = "none"
    <2> SUFFICES ASSUME s.committed.at # "none" PROVE Newer(s.committed, c)
      OBVIOUS
    <2>1. s.committed.generation <= gen
      BY DEF ClaimsOf
    <2>2. CASE s.committed.generation = gen /\ s.committed.at = "parsed"
      <3>1. ~(s.committed.snapshot >= d.snapshot)
        BY <2>2 DEF AlreadyInstalled, ParsedFor
      <3> QED BY <1>0, <1>1, <1>3, <2>2, <3>1 DEF Newer
    <2>3. CASE s.committed.generation = gen /\ s.committed.at = "baked"
      <3>1. d.snapshot >= s.committed.snapshot
        BY <1>0, <1>1, <2>3 DEF Behind
      <3> QED BY <1>0, <1>1, <1>3, <2>3, <3>1 DEF Newer
    <2>4. CASE s.committed.generation < gen
      <3>1. d.snapshot >= s.committed.snapshot
        BY <1>0, <1>1, <2>4 DEF Behind
      <3> QED BY <1>0, <1>1, <1>3, <2>4, <3>1 DEF Newer
    <2> QED BY <1>1, <2>1, <2>2, <2>3, <2>4
  <1>7. /\ kept \in SyntaxState /\ kept.config = s.config /\ kept.in_flight = s.in_flight
        /\ kept.parsed_gen = s.parsed_gen /\ kept.min_snapshot = s.min_snapshot
        /\ \/ kept.committed = s.committed /\ kept.pending = s.pending
           \/ kept.committed = c /\ kept.pending = none
    <2>1. CASE d.ok
      <3>1. kept = [s EXCEPT !.pending = none, !.failed = FALSE, !.committed = c]
        BY <1>5, <2>1
      <3> QED BY <1>3, <1>4, <3>1 DEF SyntaxState
    <2>2. CASE ~d.ok
      <3>1. kept = [s EXCEPT !.failed = TRUE]
        BY <1>5, <2>2
      <3> QED BY <3>1 DEF SyntaxState
    <2> QED BY <2>1, <2>2
  <1>8. t = IF d.snapshot >= s.min_snapshot THEN [kept EXCEPT !.parsed_gen = d.generation]
            ELSE kept
    <2>1. CASE d.ok
      BY <1>2, <1>4, <1>5, <2>1 DEF Taken
    <2>2. CASE ~d.ok
      BY <1>5, <2>2 DEF Taken
    <2> QED BY <2>1, <2>2
  <1>9. /\ t \in SyntaxState /\ t.config = s.config /\ t.in_flight = s.in_flight
        /\ t.min_snapshot = s.min_snapshot /\ t.committed = kept.committed
        /\ t.pending = kept.pending /\ t.parsed_gen \in {s.parsed_gen, gen}
    <2>1. CASE d.snapshot >= s.min_snapshot
      <3>1. t = [kept EXCEPT !.parsed_gen = d.generation]
        BY <1>8, <2>1
      <3> QED BY <1>0, <1>7, <3>1 DEF SyntaxState
    <2>2. CASE ~(d.snapshot >= s.min_snapshot)
      BY <1>7, <1>8, <2>2
    <2> QED BY <2>1, <2>2
  <1>10. CASE t.committed = s.committed /\ t.pending = s.pending
    <2>1. ClaimsOf(t, gen, language, snapshot)
      BY <1>9, <1>10 DEF ClaimsOf
    <2>2. Carried(s, t, gen)
      BY <1>10 DEF Carried
    <2> QED BY <1>9, <1>10, <2>1, <2>2, SameLayers
  <1>11. CASE t.committed = c /\ t.pending = none
    <2>1. ClaimsOf(t, gen, language, snapshot)
      BY <1>0, <1>3, <1>4, <1>9, <1>11 DEF ClaimsOf
    <2>2. Carried(s, t, gen) /\ Forward(s, t)
      BY <1>3, <1>6, <1>9, <1>11 DEF Carried, Forward
    <2> QED BY <1>9, <2>1, <2>2
  <1> QED BY <1>7, <1>9, <1>10, <1>11

\* The editor stays fine, its layers move forward and it posts nothing.
FineAdvance(e, f, Q, B, D, up) ==
  Fine(f, Q, B, D, up) /\ Advances(e, f) /\ f.posts = e.posts

\* Advances compose.
LEMMA AdvancesCompose ==
  ASSUME NEW e, NEW u, NEW f, NEW Q, NEW B, NEW D, NEW up, Fine(e, Q, B, D, up),
         FineAdvance(e, u, Q, B, D, up), FineAdvance(u, f, Q, B, D, up)
  PROVE  FineAdvance(e, f, Q, B, D, up)
  <1>1. e \in Editor /\ u \in Editor /\ f \in Editor
    BY DEF FineAdvance, Fine, Sound
  <1> QED BY <1>1, ChangesCompose DEF FineAdvance

\* The buffer does not wait for d.
Released(d, s) == s.in_flight = None \/ ~Answers(d, s)

\* What a step leaves after which b does not wait for d, and keeps its bundle.
Rid(e, f, b, d) ==
  /\ Released(d, f.buffers[b].syntax)
  /\ f.buffers[b].syntax.config = e.buffers[b].syntax.config

\* The request is answered.
LEMMA AnsweredClaims ==
  ASSUME NEW s \in SyntaxState, NEW gen, NEW language, NEW snapshot,
         ClaimsOf(s, gen, language, snapshot), s.config # None, gen \in Nat,
         NEW d, NEW t, t = Answered(s, d)
  PROVE  /\ t \in SyntaxState /\ ClaimsOf(t, gen, language, snapshot)
         /\ Carried(s, t, gen) /\ Forward(s, t) /\ Released(d, t)
         /\ t.config = s.config /\ t.committed = s.committed
         /\ t.in_flight = None \/ t.in_flight = s.in_flight
  <1>1. CASE s.in_flight = d.generation
    <2>a. PICK none : none = None /\ none \in Nat
      BY DEF None
    <2>1. t = [s EXCEPT !.in_flight = none]
      BY <1>1, <2>a DEF Answered
    <2>2. /\ t \in SyntaxState /\ t.config = s.config /\ t.committed = s.committed
          /\ t.in_flight = None /\ t.pending = s.pending /\ t.parsed_gen = s.parsed_gen
          /\ t.min_snapshot = s.min_snapshot
      BY <2>1, <2>a DEF SyntaxState
    <2>3. ClaimsOf(t, gen, language, snapshot)
      BY <2>2 DEF ClaimsOf, None
    <2> QED BY <2>2, <2>3, SameLayers DEF Carried, Released
  <1>2. CASE s.in_flight # d.generation
    <2>1. t = s
      BY <1>2 DEF Answered
    <2> QED BY <1>2, <2>1, SameLayers DEF Carried, Released, Answers
  <1> QED BY <1>1, <1>2

\* Syntax::install keeps the editor fine, for a result of a text the buffer had.
LEMMA InstallKeeps ==
  ASSUME NEW e, NEW Q, NEW B, NEW D, NEW up, Fine(e, Q, B, D, up),
         NEW b \in BufferId, e.buffers[b].open, e.buffers[b].syntax.config # None,
         NEW d \in Results, d.bid = b, Known(d, e), d.describes = d.generation
  PROVE  /\ FineAdvance(e, Install(e, d).ed, Q, B, D, up)
         /\ Rid(e, Install(e, d).ed, b, d)
         /\ Install(e, d).again \in BOOLEAN
  <1>1. PICK s0, gen, language, s : /\ s0 = e.buffers[b].syntax /\ gen = e.buffers[b].generation
                                    /\ language = e.buffers[b].language /\ s = Answered(s0, d)
    OBVIOUS
  <1>2. /\ s0 \in SyntaxState /\ gen \in Nat /\ e.snapshot \in Nat /\ s0.config # None
        /\ ClaimsOf(s0, gen, language, e.snapshot)
        /\ Behind(s0.committed, d) /\ d.snapshot <= e.snapshot
    BY <1>1, FineBuffer DEF Known
  <1>3. /\ s \in SyntaxState /\ ClaimsOf(s, gen, language, e.snapshot)
        /\ Carried(s0, s, gen) /\ Forward(s0, s) /\ Released(d, s)
        /\ s.config = s0.config /\ s.committed = s0.committed
        /\ s.in_flight = None \/ s.in_flight = s0.in_flight
    BY <1>1, <1>2, AnsweredClaims
  <1>4. CASE d.config # s0.config
    <2>1. Install(e, d) = [ed |-> e, again |-> FALSE]
      BY <1>1, <1>4 DEF Install
    <2>2. FineAdvance(e, e, Q, B, D, up)
      BY FineBuffer, ChangesCompose DEF FineAdvance
    <2>3. Rid(e, e, b, d)
      BY <1>1, <1>4 DEF Rid, Released, Answers
    <2> QED BY <2>1, <2>2, <2>3
  <1>5. CASE /\ d.config = s0.config
             /\ d.generation # gen \/ AlreadyInstalled(s, d)
    <2>1. PICK f : f = WithSyntax(e, b, s)
      OBVIOUS
    <2>2. Install(e, d) = [ed |-> f, again |-> FALSE]
      BY <1>1, <1>5, <2>1 DEF Install, WithSyntax
    <2>3. Fine(f, Q, B, D, up) /\ Replaced(e, f, b, s) /\ Advances(e, f)
      BY <1>1, <1>3, <2>1, ReplacedIsFine
    <2>4. FineAdvance(e, f, Q, B, D, up)
      BY <2>3 DEF FineAdvance, Replaced
    <2>5. Rid(e, f, b, d)
      BY <1>1, <1>3, <2>3 DEF Rid, Replaced
    <2> QED BY <2>2, <2>4, <2>5
  <1>6. CASE d.config = s0.config /\ d.generation = gen /\ ~AlreadyInstalled(s, d)
    <2>1. PICK t, taken, loaded, again :
            /\ t = Taken(s, d) /\ taken = WithSyntax(e, b, t)
            /\ loaded = LoadAll(taken, d.unloaded)
            /\ again = \E l \in d.unloaded : loaded.grammars[l].slot = "loaded"
      OBVIOUS
    <2>2. Install(e, d) = [ed |-> IF again THEN Reresolve(loaded, b) ELSE loaded,
                           again |-> again]
      BY <1>1, <1>6, <2>1 DEF Install, WithSyntax
    <2>3. /\ t \in SyntaxState /\ ClaimsOf(t, gen, language, e.snapshot)
          /\ Carried(s, t, gen) /\ Forward(s, t)
          /\ t.config = s.config /\ t.in_flight = s.in_flight
      BY <1>2, <1>3, <1>6, <2>1, TakenClaims
    <2>4. Carried(s0, t, gen)
      BY <1>3, <2>3 DEF Carried
    <2>5. Forward(s0, t)
      BY <1>2, <1>3, <2>3, MovesCompose
    <2>6. Fine(taken, Q, B, D, up) /\ Replaced(e, taken, b, t) /\ Advances(e, taken)
      BY <1>1, <1>3, <2>1, <2>3, <2>4, <2>5, ReplacedIsFine
    <2>7. Released(d, t)
      BY <1>3, <2>3 DEF Released, Answers
    <2>8. FineAdvance(e, taken, Q, B, D, up)
      BY <2>6 DEF FineAdvance, Replaced
    <2>9. Loads(taken, loaded)
      <3>1. d.unloaded \in SUBSET LanguageId
        BY DEF Results
      <3> QED BY <2>1, <2>6, <3>1, FineBuffer, LoadAllLoads
    <2>10. Fine(loaded, Q, B, D, up) /\ loaded.buffers = taken.buffers
      BY <2>6, <2>9, LoadsKeepFine DEF Loads
    <2>11. FineAdvance(e, loaded, Q, B, D, up)
      <3>1. Advances(taken, taken)
        BY <2>6, FineBuffer, ChangesCompose
      <3>2. FineAdvance(taken, loaded, Q, B, D, up)
        BY <2>9, <2>10, <3>1 DEF FineAdvance, Advances, Loads
      <3> QED BY <2>8, <3>2, AdvancesCompose
    <2>12. /\ loaded.buffers[b].open /\ loaded.buffers[b].syntax = t
      BY <2>6, <2>10 DEF Replaced, SameText
    <2>13. Rid(e, loaded, b, d)
      BY <1>1, <1>3, <2>3, <2>7, <2>12 DEF Rid
    <2>14. PICK f : f = Reresolve(loaded, b)
      OBVIOUS
    <2>15. /\ FineRenewal(loaded, f, Q, B, D, up) /\ Advances(loaded, f)
           /\ f.buffers[b].syntax.config = t.config
           /\ f.buffers[b].syntax.in_flight = t.in_flight
           /\ f.posts = loaded.posts
      BY <1>2, <1>3, <2>3, <2>10, <2>12, <2>14, ReresolveKeeps
    <2>16. FineAdvance(e, f, Q, B, D, up)
      <3>1. FineAdvance(loaded, f, Q, B, D, up)
        BY <2>15 DEF FineAdvance, FineRenewal
      <3> QED BY <2>11, <3>1, AdvancesCompose
    <2>17. Rid(e, f, b, d)
      BY <1>1, <1>3, <2>3, <2>7, <2>15 DEF Rid, Released, Answers
    <2>18. again \in BOOLEAN
      BY <2>1
    <2>19. CASE again
      <3>1. Install(e, d).ed = f /\ Install(e, d).again = again
        BY <2>2, <2>14, <2>19
      <3> QED BY <2>16, <2>17, <2>18, <3>1
    <2>20. CASE ~again
      <3>1. Install(e, d).ed = loaded /\ Install(e, d).again = again
        BY <2>2, <2>20
      <3> QED BY <2>11, <2>13, <2>18, <3>1
    <2> QED BY <2>19, <2>20
  <1> QED BY <1>4, <1>5, <1>6

-----------------------------------------------------------------------------
(* What the editor does to several buffers *)

\* The editors of post_stale_requests, by the buffers it has been through.
PostsOver(it, e, S) ==
  it = [s \in SUBSET S |->
         IF s = {} THEN e
         ELSE PostStale(it[s \ {CHOOSE x \in s : TRUE}], CHOOSE x \in s : TRUE)]

\* post_stale_requests keeps the editor fine.
LEMMA PostAllKeeps ==
  ASSUME NEW e, NEW Q, NEW B, NEW D, NEW up, Fine(e, Q, B, D, up),
         NEW S \in SUBSET BufferId, \A b \in S : e.buffers[b].open
  PROVE  FineRenewal(e, PostAll(e, S), Q, B, D, up)
  <1> DEFINE V == {f \in Editor : FineRenewal(e, f, Q, B, D, up)}
             pick == [s \in SUBSET S |-> CHOOSE x \in s : TRUE]
             step == [p \in S \X V |-> PostStale(p[2], p[1])]
  <1>0. IsFiniteSet(S) /\ e \in Editor
    BY ParseWorkerAssumption, FS_Subset DEF ParseWorkerAssumption, Fine, Sound
  <1>1. \A s \in SUBSET S : s # {} => pick[s] \in s
    OBVIOUS
  <1>2. e \in V
    BY <1>0, ChangesCompose DEF FineRenewal
  <1>3. \A f \in V, x \in S : PostStale(f, x) \in V /\ step[<<x, f>>] = PostStale(f, x)
    <2> SUFFICES ASSUME NEW f \in V, NEW x \in S PROVE PostStale(f, x) \in V
      OBVIOUS
    <2>1. FineRenewal(e, f, Q, B, D, up) /\ f.buffers[x].open
      BY DEF FineRenewal, Renews, SameText
    <2>2. FineRenewal(f, PostStale(f, x), Q, B, D, up)
      BY <2>1, PostStaleKeeps DEF FineRenewal
    <2>3. FineRenewal(e, PostStale(f, x), Q, B, D, up)
      BY <2>1, <2>2, RenewalsCompose
    <2>4. PostStale(f, x) \in Editor
      BY <2>3 DEF FineRenewal, Fine, Sound
    <2> QED BY <2>3, <2>4
  <1>a. FoldFits(S, pick, V, e, step)
    <2> HIDE DEF V, step, pick
    <2> QED BY <1>0, <1>1, <1>2, <1>3 DEF FoldFits
  <1>4. \E it : PostsOver(it, e, S)
    <2>0. PICK it : FoldIs(it, S, pick, V, e, step)
      <3> HIDE DEF V, step, pick
      <3> QED BY <1>a, FoldsExistIn
    <2>1. /\ it = [s \in SUBSET S |-> it[s]] /\ it[{}] = e
          /\ \A s \in SUBSET S : it[s] \in V
          /\ \A s \in SUBSET S : s # {} => it[s] = step[<<pick[s], it[s \ {pick[s]}]>>]
      <3> HIDE DEF V, step, pick
      <3> QED BY <2>0 DEF FoldIs
    <2>2. ASSUME NEW s \in SUBSET S, s # {}
          PROVE  it[s] = PostStale(it[s \ {pick[s]}], pick[s])
      <3>1. it[s \ {pick[s]}] \in V /\ pick[s] \in S
        <4> HIDE DEF V, step, pick
        <4> QED BY <1>1, <2>1, <2>2
      <3> HIDE DEF V, step, pick
      <3> QED BY <1>3, <2>1, <2>2, <3>1
    <2>3. \A s \in SUBSET S :
            it[s] = IF s = {} THEN e
                    ELSE PostStale(it[s \ {CHOOSE x \in s : TRUE}], CHOOSE x \in s : TRUE)
      BY <2>1, <2>2
    <2>4. PostsOver(it, e, S)
      <3> HIDE DEF V, step, pick
      <3> QED BY <2>1, <2>3 DEF PostsOver
    <2> QED BY <2>4
  <1> DEFINE folded == PostAll(e, S)
  <1>5. PICK it : PostsOver(it, e, S) /\ folded = it[S]
    <2>1. folded = (CHOOSE it : PostsOver(it, e, S))[S]
      BY DEF PostAll, FoldSet, MapThenFoldSet, PostsOver
    <2> HIDE DEF folded
    <2> QED BY <1>4, <2>1
  <1>6. it[{}] = e /\ \A s \in SUBSET S : s # {} => it[s] = PostStale(it[s \ {pick[s]}], pick[s])
    <2> HIDE DEF folded
    <2> QED BY <1>5 DEF PostsOver
  <1>7. \A s \in SUBSET S : it[s] \in V
    <2>1. FoldsWithin(it, S, pick, V, e, step)
      <3> SUFFICES ASSUME NEW s \in SUBSET S, s # {}, it[s \ {pick[s]}] \in V
                   PROVE  it[s] = step[<<pick[s], it[s \ {pick[s]}]>>]
        <4> HIDE DEF folded
        <4> QED BY <1>6 DEF FoldsWithin
      <3> HIDE DEF V, step, pick, folded
      <3>1. pick[s] \in S
        BY <1>1
      <3> QED BY <1>3, <1>6, <3>1
    <2> HIDE DEF V, step, pick, folded
    <2> QED BY <1>a, <2>1, FoldStaysIn
  <1>8. folded \in V
    <2> HIDE DEF V, folded
    <2> QED BY <1>5, <1>7
  <1> QED BY <1>8

\* The editors of a sweep that asks buffers for another parse.
AsksOver(it, e, S) ==
  it = [s \in SUBSET S |->
         IF s = {} THEN e
         ELSE Reresolve(it[s \ {CHOOSE x \in s : TRUE}], CHOOSE x \in s : TRUE)]

\* A sweep that asks attached buffers for another parse keeps the editor fine.
LEMMA AskAllKeeps ==
  ASSUME NEW e, NEW Q, NEW B, NEW D, NEW up, Fine(e, Q, B, D, up),
         NEW S \in SUBSET BufferId, \A b \in S : e.buffers[b].open /\ Attached(e, b)
  PROVE  FineRenewal(e, ReresolveAll(e, S), Q, B, D, up)
  <1> DEFINE V == {f \in Editor : FineRenewal(e, f, Q, B, D, up) /\ Advances(e, f)}
             pick == [s \in SUBSET S |-> CHOOSE x \in s : TRUE]
             step == [p \in S \X V |-> Reresolve(p[2], p[1])]
  <1>0. IsFiniteSet(S) /\ e \in Editor
    BY ParseWorkerAssumption, FS_Subset DEF ParseWorkerAssumption, Fine, Sound
  <1>1. \A s \in SUBSET S : s # {} => pick[s] \in s
    OBVIOUS
  <1>2. e \in V
    BY <1>0, ChangesCompose DEF FineRenewal
  <1>3. \A f \in V, x \in S : Reresolve(f, x) \in V /\ step[<<x, f>>] = Reresolve(f, x)
    <2> SUFFICES ASSUME NEW f \in V, NEW x \in S PROVE Reresolve(f, x) \in V
      OBVIOUS
    <2>1. /\ FineRenewal(e, f, Q, B, D, up) /\ Advances(e, f)
          /\ f.buffers[x].open /\ f.buffers[x].syntax.config # None
      BY DEF Advances, Forward, SameText, Attached
    <2>2. FineRenewal(f, Reresolve(f, x), Q, B, D, up) /\ Advances(f, Reresolve(f, x))
      BY <2>1, ReresolveKeeps DEF FineRenewal
    <2>3. FineRenewal(e, Reresolve(f, x), Q, B, D, up)
      BY <2>1, <2>2, RenewalsCompose
    <2>4. Reresolve(f, x) \in Editor
      BY <2>3 DEF FineRenewal, Fine, Sound
    <2>5. Advances(e, Reresolve(f, x))
      BY <1>0, <2>1, <2>2, <2>4, ChangesCompose
    <2> QED BY <2>3, <2>4, <2>5
  <1>a. FoldFits(S, pick, V, e, step)
    <2> HIDE DEF V, step, pick
    <2> QED BY <1>0, <1>1, <1>2, <1>3 DEF FoldFits
  <1>4. \E it : AsksOver(it, e, S)
    <2>0. PICK it : FoldIs(it, S, pick, V, e, step)
      <3> HIDE DEF V, step, pick
      <3> QED BY <1>a, FoldsExistIn
    <2>1. /\ it = [s \in SUBSET S |-> it[s]] /\ it[{}] = e
          /\ \A s \in SUBSET S : it[s] \in V
          /\ \A s \in SUBSET S : s # {} => it[s] = step[<<pick[s], it[s \ {pick[s]}]>>]
      <3> HIDE DEF V, step, pick
      <3> QED BY <2>0 DEF FoldIs
    <2>2. ASSUME NEW s \in SUBSET S, s # {}
          PROVE  it[s] = Reresolve(it[s \ {pick[s]}], pick[s])
      <3>1. it[s \ {pick[s]}] \in V /\ pick[s] \in S
        <4> HIDE DEF V, step, pick
        <4> QED BY <1>1, <2>1, <2>2
      <3> HIDE DEF V, step, pick
      <3> QED BY <1>3, <2>1, <2>2, <3>1
    <2>3. \A s \in SUBSET S :
            it[s] = IF s = {} THEN e
                    ELSE Reresolve(it[s \ {CHOOSE x \in s : TRUE}], CHOOSE x \in s : TRUE)
      BY <2>1, <2>2
    <2>4. AsksOver(it, e, S)
      <3> HIDE DEF V, step, pick
      <3> QED BY <2>1, <2>3 DEF AsksOver
    <2> QED BY <2>4
  <1> DEFINE folded == ReresolveAll(e, S)
  <1>5. PICK it : AsksOver(it, e, S) /\ folded = it[S]
    <2>1. folded = (CHOOSE it : AsksOver(it, e, S))[S]
      BY DEF ReresolveAll, FoldSet, MapThenFoldSet, AsksOver
    <2> HIDE DEF folded
    <2> QED BY <1>4, <2>1
  <1>6. it[{}] = e /\ \A s \in SUBSET S : s # {} => it[s] = Reresolve(it[s \ {pick[s]}], pick[s])
    <2> HIDE DEF folded
    <2> QED BY <1>5 DEF AsksOver
  <1>7. \A s \in SUBSET S : it[s] \in V
    <2>1. FoldsWithin(it, S, pick, V, e, step)
      <3> SUFFICES ASSUME NEW s \in SUBSET S, s # {}, it[s \ {pick[s]}] \in V
                   PROVE  it[s] = step[<<pick[s], it[s \ {pick[s]}]>>]
        <4> HIDE DEF folded
        <4> QED BY <1>6 DEF FoldsWithin
      <3> HIDE DEF V, step, pick, folded
      <3>1. pick[s] \in S
        BY <1>1
      <3> QED BY <1>3, <1>6, <3>1
    <2> HIDE DEF V, step, pick, folded
    <2> QED BY <1>a, <2>1, FoldStaysIn
  <1>8. folded \in V
    <2> HIDE DEF V, folded
    <2> QED BY <1>5, <1>7
  <1> QED BY <1>8

\* The editors of a sweep that sets buffers up afresh.
SetupsOver(it, e, S) ==
  it = [s \in SUBSET S |->
         IF s = {} THEN e
         ELSE Setup(it[s \ {CHOOSE x \in s : TRUE}], CHOOSE x \in s : TRUE)]

\* A sweep that sets buffers up afresh keeps the editor fine.
LEMMA SetupAllKeeps ==
  ASSUME NEW e, NEW Q, NEW B, NEW D, NEW up, Fine(e, Q, B, D, up),
         NEW S \in SUBSET BufferId, \A b \in S : e.buffers[b].open
  PROVE  FineRenewal(e, SetupAll(e, S), Q, B, D, up)
  <1> DEFINE V == {f \in Editor : FineRenewal(e, f, Q, B, D, up)}
             pick == [s \in SUBSET S |-> CHOOSE x \in s : TRUE]
             step == [p \in S \X V |-> Setup(p[2], p[1])]
  <1>0. IsFiniteSet(S) /\ e \in Editor
    BY ParseWorkerAssumption, FS_Subset DEF ParseWorkerAssumption, Fine, Sound
  <1>1. \A s \in SUBSET S : s # {} => pick[s] \in s
    OBVIOUS
  <1>2. e \in V
    BY <1>0, ChangesCompose DEF FineRenewal
  <1>3. \A f \in V, x \in S : Setup(f, x) \in V /\ step[<<x, f>>] = Setup(f, x)
    <2> SUFFICES ASSUME NEW f \in V, NEW x \in S PROVE Setup(f, x) \in V
      OBVIOUS
    <2>1. FineRenewal(e, f, Q, B, D, up) /\ f.buffers[x].open
      BY DEF FineRenewal, Renews, SameText
    <2>2. FineRenewal(f, Setup(f, x), Q, B, D, up)
      BY <2>1, SetupRenews DEF FineRenewal
    <2>3. FineRenewal(e, Setup(f, x), Q, B, D, up)
      BY <2>1, <2>2, RenewalsCompose
    <2>4. Setup(f, x) \in Editor
      BY <2>3 DEF FineRenewal, Fine, Sound
    <2> QED BY <2>3, <2>4
  <1>a. FoldFits(S, pick, V, e, step)
    <2> HIDE DEF V, step, pick
    <2> QED BY <1>0, <1>1, <1>2, <1>3 DEF FoldFits
  <1>4. \E it : SetupsOver(it, e, S)
    <2>0. PICK it : FoldIs(it, S, pick, V, e, step)
      <3> HIDE DEF V, step, pick
      <3> QED BY <1>a, FoldsExistIn
    <2>1. /\ it = [s \in SUBSET S |-> it[s]] /\ it[{}] = e
          /\ \A s \in SUBSET S : it[s] \in V
          /\ \A s \in SUBSET S : s # {} => it[s] = step[<<pick[s], it[s \ {pick[s]}]>>]
      <3> HIDE DEF V, step, pick
      <3> QED BY <2>0 DEF FoldIs
    <2>2. ASSUME NEW s \in SUBSET S, s # {}
          PROVE  it[s] = Setup(it[s \ {pick[s]}], pick[s])
      <3>1. it[s \ {pick[s]}] \in V /\ pick[s] \in S
        <4> HIDE DEF V, step, pick
        <4> QED BY <1>1, <2>1, <2>2
      <3> HIDE DEF V, step, pick
      <3> QED BY <1>3, <2>1, <2>2, <3>1
    <2>3. \A s \in SUBSET S :
            it[s] = IF s = {} THEN e
                    ELSE Setup(it[s \ {CHOOSE x \in s : TRUE}], CHOOSE x \in s : TRUE)
      BY <2>1, <2>2
    <2>4. SetupsOver(it, e, S)
      <3> HIDE DEF V, step, pick
      <3> QED BY <2>1, <2>3 DEF SetupsOver
    <2> QED BY <2>4
  <1> DEFINE folded == SetupAll(e, S)
  <1>5. PICK it : SetupsOver(it, e, S) /\ folded = it[S]
    <2>1. folded = (CHOOSE it : SetupsOver(it, e, S))[S]
      BY DEF SetupAll, FoldSet, MapThenFoldSet, SetupsOver
    <2> HIDE DEF folded
    <2> QED BY <1>4, <2>1
  <1>6. it[{}] = e /\ \A s \in SUBSET S : s # {} => it[s] = Setup(it[s \ {pick[s]}], pick[s])
    <2> HIDE DEF folded
    <2> QED BY <1>5 DEF SetupsOver
  <1>7. \A s \in SUBSET S : it[s] \in V
    <2>1. FoldsWithin(it, S, pick, V, e, step)
      <3> SUFFICES ASSUME NEW s \in SUBSET S, s # {}, it[s \ {pick[s]}] \in V
                   PROVE  it[s] = step[<<pick[s], it[s \ {pick[s]}]>>]
        <4> HIDE DEF folded
        <4> QED BY <1>6 DEF FoldsWithin
      <3> HIDE DEF V, step, pick, folded
      <3>1. pick[s] \in S
        BY <1>1
      <3> QED BY <1>3, <1>6, <3>1
    <2> HIDE DEF V, step, pick, folded
    <2> QED BY <1>a, <2>1, FoldStaysIn
  <1>8. folded \in V
    <2> HIDE DEF V, folded
    <2> QED BY <1>5, <1>7
  <1> QED BY <1>8

-----------------------------------------------------------------------------
(* Texts are parsed *)

\* What a parse returns.
LEMMA ParsedResult ==
  ASSUME NEW r \in Requests, FitPrior(r), NEW ok \in BOOLEAN, NEW d, d = Parsed(r, ok)
  PROVE  /\ d \in Results /\ d.bid = r.bid /\ d.generation = r.generation
         /\ d.config = r.config /\ d.snapshot = r.snapshot
         /\ d.describes = d.generation
  <1>1. PICK injected, unloaded, describes :
          /\ injected = {<<l, r.langs[l].config>> :
                           l \in {n \in r.names : r.langs[n].slot = "loaded"}}
          /\ unloaded = IF ok THEN {l \in r.names : r.langs[l].slot \in {"registered", "broken"}}
                        ELSE {}
          /\ describes = IF r.prior \in {None, r.generation} THEN r.generation ELSE Garbage
    OBVIOUS
  <1>2. /\ r.bid \in BufferId /\ r.generation \in Nat /\ r.config \in Nat
        /\ r.snapshot \in Nat /\ r.names \subseteq LanguageId
        /\ r.langs \in [LanguageId -> Grammar]
    BY DEF Requests
  <1>3. \A l \in LanguageId : r.langs[l].config \in Nat
    BY <1>2 DEF Grammar
  <1>4. injected \in SUBSET (LanguageId \X Nat)
    BY <1>1, <1>2, <1>3
  <1>5. unloaded \in SUBSET LanguageId
    BY <1>1, <1>2
  <1>6. describes = r.generation
    BY <1>1 DEF FitPrior
  <1>7. d = [bid |-> r.bid, generation |-> r.generation, config |-> r.config,
             snapshot |-> r.snapshot, ok |-> ok, describes |-> describes,
             injected |-> injected, unloaded |-> unloaded]
    BY <1>1 DEF Parsed
  <1>8. describes \in Int
    BY <1>2, <1>6
  <1> QED BY <1>2, <1>4, <1>5, <1>6, <1>7, <1>8 DEF Results

\* What is asked for a buffer is known of it.
LEMMA AskedIsKnown ==
  ASSUME NEW e, NEW Q, NEW B, NEW D, NEW up, Fine(e, Q, B, D, up), NEW b \in BufferId,
         NEW m, m.bid = b, m.generation = e.buffers[b].generation, m.snapshot = e.snapshot
  PROVE  Known(m, e)
  <1>1. /\ e.buffers[b].generation \in Nat /\ e.snapshot \in Nat
        /\ e.buffers[b].syntax.committed.snapshot <= e.snapshot
    BY FineBuffer DEF ClaimsOf
  <1>2. Behind(e.buffers[b].syntax.committed, m)
    BY <1>1 DEF Behind
  <1> QED BY <1>1, <1>2 DEF Known

\* One round of parse_now.
Round(acc, b) ==
  IF acc.again THEN Install(acc.ed, Parsed(Request(acc.ed, b), TRUE)) ELSE acc

\* A round keeps the editor fine.
LEMMA RoundKeeps ==
  ASSUME NEW e, NEW Q, NEW B, NEW D, NEW up, Fine(e, Q, B, D, up),
         NEW b \in BufferId, e.buffers[b].open, e.buffers[b].syntax.config # None
  PROVE  LET after == Install(e, Parsed(Request(e, b), TRUE))
         IN  /\ FineAdvance(e, after.ed, Q, B, D, up) /\ after.again \in BOOLEAN
             /\ after.ed.buffers[b].open /\ after.ed.buffers[b].syntax.config # None
             /\ after = [ed |-> after.ed, again |-> after.again]
  <1>1. PICK r, d, after : /\ r = Request(e, b) /\ d = Parsed(r, TRUE)
                           /\ after = Install(e, d)
    OBVIOUS
  <1>2. Asked(r, e, b)
    BY <1>1, FineBuffer, RequestAsks
  <1>3. /\ d \in Results /\ d.bid = b /\ d.generation = e.buffers[b].generation
        /\ d.snapshot = e.snapshot /\ d.describes = d.generation
    BY <1>1, <1>2, ParsedResult DEF Asked
  <1>4. Known(d, e)
    BY <1>3, AskedIsKnown
  <1>5. /\ FineAdvance(e, after.ed, Q, B, D, up) /\ after.again \in BOOLEAN
        /\ Rid(e, after.ed, b, d)
    BY <1>1, <1>3, <1>4, InstallKeeps
  <1>6. after.ed.buffers[b].open /\ after.ed.buffers[b].syntax.config # None
    BY <1>5 DEF FineAdvance, Advances, SameText, Rid
  <1>7. after = [ed |-> after.ed, again |-> after.again]
    BY <1>1 DEF Install
  <1> QED BY <1>1, <1>5, <1>6, <1>7

\* The rounds of parse_now.
RoundsOver(it, e, b, S) ==
  it = [s \in SUBSET S |-> IF s = {} THEN [ed |-> e, again |-> TRUE]
                           ELSE Round(it[s \ {Max(s)}], b)]

\* parse_now keeps the editor fine.
LEMMA ParseNowKeeps ==
  ASSUME NEW e, NEW Q, NEW B, NEW D, NEW up, Fine(e, Q, B, D, up),
         NEW b \in BufferId, e.buffers[b].open, e.buffers[b].syntax.config # None
  PROVE  FineAdvance(e, ParseNow(e, b), Q, B, D, up)
  <1> DEFINE n == Cardinality(LanguageId) + 1
             S == 1 .. n
             W == {f \in Editor : /\ FineAdvance(e, f, Q, B, D, up)
                                  /\ f.buffers[b].open /\ f.buffers[b].syntax.config # None}
             V == [ed : W, again : BOOLEAN]
             base == [ed |-> e, again |-> TRUE]
             pick == LastOf(n)
             step == [p \in S \X V |-> Round(p[2], b)]
  <1>0. n \in Nat /\ DOMAIN [i \in S |-> i] = S
    BY ParseWorkerAssumption, FS_CardinalityType DEF ParseWorkerAssumption
  <1>1. IsFiniteSet(S) /\ \A s \in SUBSET S : s # {} => pick[s] \in s /\ pick[s] = Max(s)
    BY <1>0, LastIsOne DEF LastOf
  <1>2. base \in V
    <2>1. e \in Editor /\ Advances(e, e)
      BY FineBuffer, ChangesCompose
    <2>2. e \in W
      BY <2>1 DEF FineAdvance
    <2> HIDE DEF W
    <2> QED BY <2>2
  <1>3. \A v \in V, x \in S : Round(v, b) \in V /\ step[<<x, v>>] = Round(v, b)
    <2> SUFFICES ASSUME NEW v \in V PROVE Round(v, b) \in V
      OBVIOUS
    <2>1. v.ed \in W /\ v.again \in BOOLEAN
      <3> HIDE DEF W
      <3> QED OBVIOUS
    <2>2. PICK after : after = Install(v.ed, Parsed(Request(v.ed, b), TRUE))
      OBVIOUS
    <2>3. FineAdvance(e, v.ed, Q, B, D, up) /\ Fine(v.ed, Q, B, D, up)
      BY <2>1 DEF FineAdvance
    <2>4. /\ FineAdvance(v.ed, after.ed, Q, B, D, up) /\ after.again \in BOOLEAN
          /\ after.ed.buffers[b].open /\ after.ed.buffers[b].syntax.config # None
          /\ after = [ed |-> after.ed, again |-> after.again]
      <3> HIDE DEF V
      <3> QED BY <2>1, <2>2, <2>3, RoundKeeps
    <2>5. FineAdvance(e, after.ed, Q, B, D, up)
      <3> HIDE DEF V, W
      <3> QED BY <2>3, <2>4, AdvancesCompose
    <2>6. after.ed \in W
      <3>1. after.ed \in Editor
        BY <2>5 DEF FineAdvance, Fine, Sound
      <3> HIDE DEF V
      <3> QED BY <2>4, <2>5, <3>1
    <2>7. after \in V
      <3> HIDE DEF W
      <3> QED BY <2>4, <2>6
    <2> HIDE DEF V, W
    <2> QED BY <2>2, <2>7 DEF Round
  <1>a. FoldFits(S, pick, V, base, step)
    <2> HIDE DEF S, V, step, pick, base
    <2> QED BY <1>1, <1>2, <1>3 DEF FoldFits
  <1>4. \E it : RoundsOver(it, e, b, S)
    <2>0. PICK it : FoldIs(it, S, pick, V, base, step)
      <3> HIDE DEF S, V, step, pick, base
      <3> QED BY <1>a, FoldsExistIn
    <2>1. /\ it = [s \in SUBSET S |-> it[s]] /\ it[{}] = base
          /\ \A s \in SUBSET S : it[s] \in V
          /\ \A s \in SUBSET S : s # {} => it[s] = step[<<pick[s], it[s \ {pick[s]}]>>]
      <3> HIDE DEF S, V, step, pick, base
      <3> QED BY <2>0 DEF FoldIs
    <2>2. ASSUME NEW s \in SUBSET S, s # {}
          PROVE  it[s] = Round(it[s \ {Max(s)}], b)
      <3>1. it[s \ {pick[s]}] \in V /\ pick[s] \in S /\ pick[s] = Max(s)
        <4> HIDE DEF S, V, step, pick, base
        <4> QED BY <1>1, <2>1, <2>2
      <3> HIDE DEF S, V, step, pick, base
      <3> QED BY <1>3, <2>1, <2>2, <3>1
    <2>3. \A s \in SUBSET S : it[s] = IF s = {} THEN base ELSE Round(it[s \ {Max(s)}], b)
      <3> HIDE DEF S, V, step, pick, base
      <3> QED BY <2>1, <2>2
    <2>4. RoundsOver(it, e, b, S)
      <3> HIDE DEF S, V, step, pick
      <3> QED BY <2>1, <2>3 DEF RoundsOver
    <2> QED BY <2>4
  <1>5. PICK it : RoundsOver(it, e, b, S) /\ ParseNow(e, b) = it[S].ed
    <2>1. ParseNow(e, b) = (CHOOSE it : RoundsOver(it, e, b, S))[DOMAIN [i \in S |-> i]].ed
      BY DEF ParseNow, FoldLeft, MapThenFoldSet, RoundsOver, Round
    <2> HIDE DEF S
    <2> QED BY <1>0, <1>4, <2>1
  <1>6. it[{}] = base /\ \A s \in SUBSET S : s # {} => it[s] = Round(it[s \ {Max(s)}], b)
    <2> HIDE DEF S
    <2> QED BY <1>5 DEF RoundsOver
  <1>7. \A s \in SUBSET S : it[s] \in V
    <2>1. FoldsWithin(it, S, pick, V, base, step)
      <3> SUFFICES ASSUME NEW s \in SUBSET S, s # {}, it[s \ {pick[s]}] \in V
                   PROVE  it[s] = step[<<pick[s], it[s \ {pick[s]}]>>]
        <4> HIDE DEF S, base
        <4> QED BY <1>6 DEF FoldsWithin
      <3> HIDE DEF V, step, pick, S
      <3>1. pick[s] \in S /\ pick[s] = Max(s)
        BY <1>1
      <3> QED BY <1>3, <1>6, <3>1
    <2> HIDE DEF V, step, pick, S, base
    <2> QED BY <1>a, <2>1, FoldStaysIn
  <1>8. it[S].ed \in W
    <2> HIDE DEF W, S
    <2> QED BY <1>7
  <1> QED BY <1>5, <1>8

-----------------------------------------------------------------------------
(* Results are drained *)

\* A result its buffer does not wait for is no longer needed.
LEMMA ResultIsDone ==
  ASSUME NEW e, NEW Q, NEW B, NEW D, NEW up, NEW d, NEW C, C \subseteq D, D \subseteq C \cup {d},
         Fine(e, Q, B, D, up), Released(d, e.buffers[d.bid].syntax)
  PROVE  Fine(e, Q, B, C, up)
  <1>1. Sound(e, ToSet(Q) \cup B \cup C)
    BY DEF Fine, Sound
  <1>2. ASSUME NEW S, Awaited(e, S, B, D) PROVE Awaited(e, S, B, C)
    <2> SUFFICES ASSUME NEW b \in BufferId, e.buffers[b].syntax.in_flight # None
                 PROVE  \/ WaitedIn(b, e.buffers[b].syntax, S)
                        \/ HeldIn(b, e.buffers[b].syntax, S, B, C)
      BY DEF Awaited
    <2>1. PICK s : s = e.buffers[b].syntax /\ s.in_flight # None
      OBVIOUS
    <2>2. WaitedIn(b, s, S) \/ HeldIn(b, s, S, B, D)
      BY <1>2, <2>1 DEF Awaited
    <2>3. ASSUME NEW m \in B \cup D, m.bid = b, Answers(m, s) PROVE m \in B \cup C
      BY <2>1, <2>3 DEF Released
    <2>4. HeldIn(b, s, S, B, D) => HeldIn(b, s, S, B, C)
      BY <2>3 DEF HeldIn
    <2> QED BY <2>1, <2>2, <2>4
  <1> QED BY <1>1, <1>2 DEF Fine

\* install_parse_done keeps the editor fine, and its buffer does not wait for
\* the result any more.
LEMMA InstallDoneKeeps ==
  ASSUME NEW e, NEW Q, NEW B, NEW D, NEW up, Fine(e, Q, B, D, up),
         NEW d \in Results, d.describes = d.generation, Known(d, e)
  PROVE  /\ FineAdvance(e, InstallDone(e, d), Q, B, D, up)
         /\ Released(d, InstallDone(e, d).buffers[d.bid].syntax)
  <1>1. PICK b \in BufferId : b = d.bid
    BY DEF Results
  <1>2. CASE e.buffers[b].open /\ e.buffers[b].syntax.config # None
    <2>1. InstallDone(e, d) = Install(e, d).ed
      BY <1>1, <1>2 DEF InstallDone, Attached
    <2>2. /\ FineAdvance(e, Install(e, d).ed, Q, B, D, up)
          /\ Rid(e, Install(e, d).ed, b, d)
      BY <1>1, <1>2, InstallKeeps
    <2> QED BY <1>1, <2>1, <2>2 DEF Rid
  <1>3. CASE ~(e.buffers[b].open /\ e.buffers[b].syntax.config # None)
    <2>1. InstallDone(e, d) = e
      BY <1>1, <1>3 DEF InstallDone, Attached
    <2>2. FineAdvance(e, e, Q, B, D, up)
      BY FineBuffer, ChangesCompose DEF FineAdvance
    <2>3. Claims(e.buffers[b], e.snapshot)
      BY DEF Fine, Sound
    <2>4. e.buffers[b].syntax = Detached
      BY <1>3, <2>3 DEF Claims, ClaimsOf
    <2>5. Released(d, e.buffers[b].syntax)
      BY <2>4 DEF Released, Detached
    <2> QED BY <1>1, <2>1, <2>2, <2>5
  <1> QED BY <1>2, <1>3

\* The editors of install_parse_results, by the results installed.
DrainsOver(it, e, D) ==
  it = [s \in SUBSET DOMAIN D |-> IF s = {} THEN e
                                  ELSE InstallDone(it[s \ {Max(s)}], D[Max(s)])]

\* The editors of install_parse_results are fine, if the worker is gone.
LEMMA DrainsKeep ==
  ASSUME NEW e, NEW Q, NEW B, NEW D \in Seq(Results), Fine(e, Q, B, ToSet(D), FALSE),
         \A d \in ToSet(D) : d.describes = d.generation
  PROVE  /\ \E it : DrainsOver(it, e, D)
         /\ \A it : DrainsOver(it, e, D) => \A s \in SUBSET (1 .. Len(D)) :
              FineAdvance(e, it[s], Q, B, ToSet(D), FALSE)
  <1> DEFINE n == Len(D)
             S == 1 .. n
             V == {f \in Editor : FineAdvance(e, f, Q, B, ToSet(D), FALSE)}
             pick == LastOf(n)
             step == [p \in S \X V |-> InstallDone(p[2], D[p[1]])]
  <1>0. n \in Nat /\ DOMAIN D = S /\ \A i \in S : D[i] \in Results /\ D[i] \in ToSet(D)
    BY DEF ToSet
  <1>1. IsFiniteSet(S) /\ \A s \in SUBSET S : s # {} => pick[s] \in s /\ pick[s] = Max(s)
    BY <1>0, LastIsOne DEF LastOf
  <1>2. e \in V
    <2>1. e \in Editor /\ Advances(e, e)
      BY ChangesCompose DEF Fine, Sound
    <2> QED BY <2>1 DEF FineAdvance
  <1>3. \A f \in V, x \in S : InstallDone(f, D[x]) \in V
                              /\ step[<<x, f>>] = InstallDone(f, D[x])
    <2> SUFFICES ASSUME NEW f \in V, NEW x \in S PROVE InstallDone(f, D[x]) \in V
      OBVIOUS
    <2>1. FineAdvance(e, f, Q, B, ToSet(D), FALSE) /\ Fine(f, Q, B, ToSet(D), FALSE)
      BY DEF FineAdvance
    <2>2. PICK d : d = D[x] /\ d \in Results /\ d \in ToSet(D) /\ d.describes = d.generation
      BY <1>0
    <2>3. Known(d, f)
      BY <2>1, <2>2 DEF Fine, Sound
    <2>4. FineAdvance(f, InstallDone(f, d), Q, B, ToSet(D), FALSE)
      BY <2>1, <2>2, <2>3, InstallDoneKeeps
    <2>5. FineAdvance(e, InstallDone(f, d), Q, B, ToSet(D), FALSE)
      BY <2>1, <2>4, AdvancesCompose
    <2>6. InstallDone(f, d) \in Editor
      BY <2>5 DEF FineAdvance, Fine, Sound
    <2> QED BY <2>2, <2>5, <2>6
  <1>a. FoldFits(S, pick, V, e, step)
    <2> HIDE DEF S, V, step, pick
    <2> QED BY <1>1, <1>2, <1>3 DEF FoldFits
  <1>4. \E it : DrainsOver(it, e, D)
    <2>0. PICK it : FoldIs(it, S, pick, V, e, step)
      <3> HIDE DEF S, V, step, pick
      <3> QED BY <1>a, FoldsExistIn
    <2>1. /\ it = [s \in SUBSET S |-> it[s]] /\ it[{}] = e
          /\ \A s \in SUBSET S : it[s] \in V
          /\ \A s \in SUBSET S : s # {} => it[s] = step[<<pick[s], it[s \ {pick[s]}]>>]
      <3> HIDE DEF S, V, step, pick
      <3> QED BY <2>0 DEF FoldIs
    <2>2. ASSUME NEW s \in SUBSET S, s # {}
          PROVE  it[s] = InstallDone(it[s \ {Max(s)}], D[Max(s)])
      <3>1. it[s \ {pick[s]}] \in V /\ pick[s] \in S /\ pick[s] = Max(s)
        <4> HIDE DEF S, V, step, pick
        <4> QED BY <1>1, <2>1, <2>2
      <3> HIDE DEF S, V, step, pick
      <3> QED BY <1>3, <2>1, <2>2, <3>1
    <2>3. \A s \in SUBSET S :
            it[s] = IF s = {} THEN e ELSE InstallDone(it[s \ {Max(s)}], D[Max(s)])
      <3> HIDE DEF S, V, step, pick
      <3> QED BY <2>1, <2>2
    <2>4. DrainsOver(it, e, D)
      <3> HIDE DEF S, V, step, pick
      <3> QED BY <1>0, <2>1, <2>3 DEF DrainsOver
    <2> QED BY <2>4
  <1>5. ASSUME NEW it, DrainsOver(it, e, D)
        PROVE  \A s \in SUBSET S : it[s] \in V
    <2>1. it[{}] = e /\ \A s \in SUBSET S :
            s # {} => it[s] = InstallDone(it[s \ {Max(s)}], D[Max(s)])
      <3> HIDE DEF S
      <3> QED BY <1>0, <1>5 DEF DrainsOver
    <2>2. FoldsWithin(it, S, pick, V, e, step)
      <3> SUFFICES ASSUME NEW s \in SUBSET S, s # {}, it[s \ {pick[s]}] \in V
                   PROVE  it[s] = step[<<pick[s], it[s \ {pick[s]}]>>]
        <4> HIDE DEF S
        <4> QED BY <2>1 DEF FoldsWithin
      <3> HIDE DEF V, step, pick, S
      <3>1. pick[s] \in S /\ pick[s] = Max(s)
        BY <1>1
      <3> QED BY <1>3, <2>1, <3>1
    <2> HIDE DEF V, step, pick, S
    <2> QED BY <1>a, <2>2, FoldStaysIn
  <1> QED BY <1>4, <1>5

\* The results that remain when k are installed.
Remaining(D, k) == {D[i] : i \in k + 1 .. Len(D)}

\* install_parse_results keeps the editor fine, and nothing waits for a result
\* that it took.
LEMMA DrainedKeeps ==
  ASSUME NEW Q, NEW B, NEW up, Fine(ed, Q, B, ToSet(done), up), done \in Seq(Results),
         \A d \in ToSet(done) : d.describes = d.generation
  PROVE  FineAdvance(ed, Drained, Q, B, {}, up)
  <1> DEFINE n == Len(done)
             S == 1 .. n
  <1>0. n \in Nat /\ DOMAIN done = S /\ \A i \in S : done[i] \in Results /\ done[i] \in ToSet(done)
    BY DEF ToSet
  <1>1. Fine(ed, Q, B, ToSet(done), FALSE)
    BY DEF Fine
  <1>2. PICK it : DrainsOver(it, ed, done) /\ Drained = it[S]
    <2>1. Drained = (CHOOSE it : DrainsOver(it, ed, done))[DOMAIN done]
      BY DEF Drained, FoldLeft, MapThenFoldSet, DrainsOver
    <2>2. \E it : DrainsOver(it, ed, done)
      BY <1>1, DrainsKeep
    <2> HIDE DEF S
    <2> QED BY <1>0, <2>1, <2>2
  <1>3. \A s \in SUBSET S : FineAdvance(ed, it[s], Q, B, ToSet(done), FALSE)
    BY <1>1, <1>2, DrainsKeep
  <1>4. it[{}] = ed /\ \A s \in SUBSET S :
          s # {} => it[s] = InstallDone(it[s \ {Max(s)}], done[Max(s)])
    <2> HIDE DEF S
    <2> QED BY <1>0, <1>2 DEF DrainsOver
  <1>5. \A k \in Nat : k + 1 \in S => it[1 .. k + 1] = InstallDone(it[1 .. k], done[k + 1])
    <2> SUFFICES ASSUME NEW k \in Nat, k + 1 \in S
                 PROVE  it[1 .. k + 1] = InstallDone(it[1 .. k], done[k + 1])
      OBVIOUS
    <2>1. PICK s : s = 1 .. k + 1
      OBVIOUS
    <2>2. s \in SUBSET S /\ s # {} /\ Max(s) = k + 1 /\ s \ {Max(s)} = 1 .. k
      BY <1>0, <2>1, PrefixSets
    <2>3. it[s] = InstallDone(it[1 .. k], done[k + 1])
      <3> HIDE DEF S
      <3> QED BY <1>4, <2>2
    <2> QED BY <2>1, <2>3
  <1> DEFINE T == {k \in Nat : k \in 0 .. n => FineAdvance(ed, it[1 .. k], Q, B, Remaining(done, k), up)}
  <1>6. 0 \in T
    <2>1. it[1 .. 0] = ed
      BY <1>0, <1>4, PrefixSets
    <2>2. Remaining(done, 0) = ToSet(done)
      BY <1>0 DEF Remaining, ToSet
    <2>3. FineAdvance(ed, ed, Q, B, ToSet(done), up)
      BY ChangesCompose DEF FineAdvance, Fine, Sound
    <2> QED BY <2>1, <2>2, <2>3
  <1>7. ASSUME NEW k \in Nat, k \in T PROVE k + 1 \in T
    <2> SUFFICES ASSUME k + 1 \in S
                 PROVE  FineAdvance(ed, it[1 .. k + 1], Q, B, Remaining(done, k + 1), up)
      BY <1>0
    <2>1. PICK f, g, d : f = it[1 .. k] /\ g = it[1 .. k + 1] /\ d = done[k + 1]
      OBVIOUS
    <2>2. FineAdvance(ed, f, Q, B, Remaining(done, k), up)
      BY <1>0, <1>7, <2>1
    <2>3. g = InstallDone(f, d)
      BY <1>5, <2>1
    <2>4. d \in Results /\ d.describes = d.generation /\ d \in Remaining(done, k)
      <3>1. k + 1 \in k + 1 .. n
        BY <1>0
      <3> QED BY <1>0, <2>1, <3>1 DEF Remaining
    <2>5. Known(d, f)
      BY <2>2, <2>4 DEF FineAdvance, Fine, Sound
    <2>6. /\ FineAdvance(f, g, Q, B, Remaining(done, k), up)
          /\ Released(d, g.buffers[d.bid].syntax)
      BY <2>2, <2>3, <2>4, <2>5, InstallDoneKeeps DEF FineAdvance
    <2>7. Fine(g, Q, B, Remaining(done, k + 1), up)
      <3>1. Remaining(done, k + 1) \subseteq Remaining(done, k)
        BY <1>0 DEF Remaining
      <3>2. Remaining(done, k) \subseteq Remaining(done, k + 1) \cup {d}
        <4>1. \A i \in k + 1 .. n : i = k + 1 \/ i \in k + 1 + 1 .. n
          BY <1>0
        <4> QED BY <2>1, <4>1 DEF Remaining
      <3>3. Fine(g, Q, B, Remaining(done, k), up)
        BY <2>6 DEF FineAdvance
      <3> QED BY <2>6, <3>1, <3>2, <3>3, ResultIsDone
    <2>8. Advances(ed, g) /\ g.posts = ed.posts
      <3>1. ed \in Editor /\ f \in Editor /\ g \in Editor
        BY <1>1, <2>2, <2>6 DEF FineAdvance, Fine, Sound
      <3> QED BY <2>2, <2>6, <3>1, ChangesCompose DEF FineAdvance
    <2> QED BY <2>1, <2>7, <2>8 DEF FineAdvance
  <1> HIDE DEF T
  <1>8. n \in T
    BY <1>0, <1>6, <1>7, NatInductionSet
  <1>9. FineAdvance(ed, it[S], Q, B, Remaining(done, n), up)
    BY <1>0, <1>8 DEF T
  <1>10. Remaining(done, n) = {}
    <2>1. n + 1 .. n = {}
      BY <1>0
    <2> QED BY <2>1 DEF Remaining
  <1> QED BY <1>2, <1>9, <1>10

-----------------------------------------------------------------------------
(* Requests are coalesced *)

\* The requests coalesce_one has kept, by the requests it was given.
CoalescesOver(it, R) ==
  it = [s \in SUBSET DOMAIN R |-> IF s = {} THEN {}
                                  ELSE CoalesceOne(it[s \ {Max(s)}], R[Max(s)])]

\* coalesce_one keeps what it had or the request.
LEMMA CoalesceOneKeeps ==
  ASSUME NEW held, NEW r
  PROVE  /\ CoalesceOne(held, r) \subseteq held \cup {r}
         /\ \/ CoalesceOne(held, r) = {h \in held : h.bid # r.bid} \cup {r}
            \/ /\ CoalesceOne(held, r) = held
               /\ \E h \in held : h.bid = r.bid /\ ~Supersedes(r, h)
  BY DEF CoalesceOne

\* The requests kept of the first k: one for a buffer, and for the text and the
\* bundle that the last request for that buffer asks of.
KeptOf(C, R, k) ==
  /\ C \subseteq {R[i] : i \in 1 .. k}
  /\ \A g, h \in C : g.bid = h.bid => g = h
  /\ \A i \in 1 .. k :
       (\A j \in i + 1 .. k : R[j].bid # R[i].bid) =>
         \E h \in C : /\ h.bid = R[i].bid /\ h.generation = R[i].generation
                      /\ h.config = R[i].config

\* One more request keeps this so.
LEMMA KeptOfOneMore ==
  ASSUME NEW R \in Seq(Requests), InOrder(R), NEW k \in Nat, k + 1 \in 1 .. Len(R),
         NEW C, KeptOf(C, R, k), NEW E, E = CoalesceOne(C, R[k + 1])
  PROVE  KeptOf(E, R, k + 1)
  <1>1. PICK r : r = R[k + 1] /\ r \in Requests
    OBVIOUS
  <1>2. \A i \in 1 .. k + 1 : i = k + 1 \/ i \in 1 .. k
    OBVIOUS
  <1>3. k + 1 \in 1 .. k + 1 /\ 1 .. k \subseteq 1 .. k + 1
    OBVIOUS
  <1>4. E \subseteq {R[i] : i \in 1 .. k + 1}
    <2>1. E \subseteq C \cup {r}
      BY <1>1, CoalesceOneKeeps
    <2> QED BY <1>1, <1>3, <2>1 DEF KeptOf
  <1>5. CASE E = {h \in C : h.bid # r.bid} \cup {r}
    <2>1. \A g, h \in E : g.bid = h.bid => g = h
      BY <1>5 DEF KeptOf
    <2>2. ASSUME NEW i \in 1 .. k + 1, \A j \in i + 1 .. k + 1 : R[j].bid # R[i].bid
          PROVE  \E h \in E : /\ h.bid = R[i].bid /\ h.generation = R[i].generation
                              /\ h.config = R[i].config
      <3>1. CASE i = k + 1
        BY <1>1, <1>5, <3>1
      <3>2. CASE i \in 1 .. k
        <4>1. r.bid # R[i].bid
          <5>1. k + 1 \in i + 1 .. k + 1
            BY <3>2
          <5> QED BY <1>1, <2>2, <5>1
        <4>2. \A j \in i + 1 .. k : R[j].bid # R[i].bid
          BY <2>2, <3>2
        <4>3. PICK h \in C : /\ h.bid = R[i].bid /\ h.generation = R[i].generation
                             /\ h.config = R[i].config
          BY <3>2, <4>2 DEF KeptOf
        <4> QED BY <1>5, <4>1, <4>3
      <3> QED BY <1>2, <3>1, <3>2
    <2> QED BY <1>4, <2>1, <2>2 DEF KeptOf
  <1>6. ASSUME NEW g \in C, E = C, g.bid = r.bid, ~Supersedes(r, g)
        PROVE  KeptOf(E, R, k + 1)
    <2>1. PICK m \in 1 .. k : R[m] = g
      BY DEF KeptOf
    <2>2. g \in Requests /\ m \in 1 .. Len(R) /\ m < k + 1
      BY <2>1
    <2>3. g.generation <= r.generation
      BY <1>1, <1>6, <2>1, <2>2 DEF InOrder
    <2>4. g.generation = r.generation /\ g.config = r.config
      <3>1. g.generation \in Nat /\ r.generation \in Nat
        BY <1>1, <2>2 DEF Requests
      <3>2. ~(r.generation > g.generation)
        BY <1>6 DEF Supersedes
      <3>3. g.generation = r.generation
        BY <2>3, <3>1, <3>2
      <3> QED BY <1>6, <3>3 DEF Supersedes
    <2>5. ASSUME NEW i \in 1 .. k + 1, \A j \in i + 1 .. k + 1 : R[j].bid # R[i].bid
          PROVE  \E h \in E : /\ h.bid = R[i].bid /\ h.generation = R[i].generation
                              /\ h.config = R[i].config
      <3>1. CASE i = k + 1
        BY <1>1, <1>6, <2>4, <3>1
      <3>2. CASE i \in 1 .. k
        <4>1. \A j \in i + 1 .. k : R[j].bid # R[i].bid
          BY <2>5, <3>2
        <4> QED BY <1>6, <3>2, <4>1 DEF KeptOf
      <3> QED BY <1>2, <3>1, <3>2
    <2> QED BY <1>4, <1>6, <2>5 DEF KeptOf
  <1> QED BY <1>1, <1>5, <1>6, CoalesceOneKeeps

\* What is left of the requests in a queue.
LEMMA CoalescedKeeps ==
  ASSUME NEW R \in Seq(Requests), InOrder(R)
  PROVE  KeptOf(Coalesced(R), R, Len(R))
  <1> DEFINE n == Len(R)
             S == 1 .. n
             V == SUBSET ToSet(R)
             pick == LastOf(n)
             step == [p \in S \X V |-> CoalesceOne(p[2], R[p[1]])]
  <1>0. n \in Nat /\ DOMAIN R = S /\ \A i \in S : R[i] \in ToSet(R)
    BY DEF ToSet
  <1>1. IsFiniteSet(S) /\ \A s \in SUBSET S : s # {} => pick[s] \in s /\ pick[s] = Max(s)
    BY <1>0, LastIsOne DEF LastOf
  <1>2. {} \in V
    OBVIOUS
  <1>3. \A v \in V, x \in S : CoalesceOne(v, R[x]) \in V
                              /\ step[<<x, v>>] = CoalesceOne(v, R[x])
    <2> SUFFICES ASSUME NEW v \in V, NEW x \in S PROVE CoalesceOne(v, R[x]) \in V
      OBVIOUS
    <2>1. CoalesceOne(v, R[x]) \subseteq v \cup {R[x]}
      BY CoalesceOneKeeps
    <2> QED BY <1>0, <2>1
  <1>a. FoldFits(S, pick, V, {}, step)
    <2> HIDE DEF S, V, step, pick
    <2> QED BY <1>1, <1>2, <1>3 DEF FoldFits
  <1>4. \E it : CoalescesOver(it, R)
    <2>0. PICK it : FoldIs(it, S, pick, V, {}, step)
      <3> HIDE DEF S, V, step, pick
      <3> QED BY <1>a, FoldsExistIn
    <2>1. /\ it = [s \in SUBSET S |-> it[s]] /\ it[{}] = {}
          /\ \A s \in SUBSET S : it[s] \in V
          /\ \A s \in SUBSET S : s # {} => it[s] = step[<<pick[s], it[s \ {pick[s]}]>>]
      <3> HIDE DEF S, V, step, pick
      <3> QED BY <2>0 DEF FoldIs
    <2>2. ASSUME NEW s \in SUBSET S, s # {}
          PROVE  it[s] = CoalesceOne(it[s \ {Max(s)}], R[Max(s)])
      <3>1. it[s \ {pick[s]}] \in V /\ pick[s] \in S /\ pick[s] = Max(s)
        <4> HIDE DEF S, V, step, pick
        <4> QED BY <1>1, <2>1, <2>2
      <3> HIDE DEF S, V, step, pick
      <3> QED BY <1>3, <2>1, <2>2, <3>1
    <2>3. \A s \in SUBSET S :
            it[s] = IF s = {} THEN {} ELSE CoalesceOne(it[s \ {Max(s)}], R[Max(s)])
      <3> HIDE DEF S, V, step, pick
      <3> QED BY <2>1, <2>2
    <2>4. CoalescesOver(it, R)
      <3> HIDE DEF S, V, step, pick
      <3> QED BY <1>0, <2>1, <2>3 DEF CoalescesOver
    <2> QED BY <2>4
  <1>5. PICK it : CoalescesOver(it, R) /\ Coalesced(R) = it[S]
    <2>1. Coalesced(R) = (CHOOSE it : CoalescesOver(it, R))[DOMAIN R]
      BY DEF Coalesced, FoldLeft, MapThenFoldSet, CoalescesOver
    <2> HIDE DEF S
    <2> QED BY <1>0, <1>4, <2>1
  <1>6. it[{}] = {} /\ \A s \in SUBSET S :
          s # {} => it[s] = CoalesceOne(it[s \ {Max(s)}], R[Max(s)])
    <2> HIDE DEF S
    <2> QED BY <1>0, <1>5 DEF CoalescesOver
  <1> DEFINE T == {k \in Nat : k \in 0 .. n => KeptOf(it[1 .. k], R, k)}
  <1>7. 0 \in T
    <2>1. it[1 .. 0] = {} /\ 1 .. 0 = {}
      BY <1>0, <1>6, PrefixSets
    <2>2. KeptOf({}, R, 0)
      BY <2>1 DEF KeptOf
    <2> QED BY <2>1, <2>2
  <1>8. ASSUME NEW k \in Nat, k \in T PROVE k + 1 \in T
    <2> SUFFICES ASSUME k + 1 \in S PROVE KeptOf(it[1 .. k + 1], R, k + 1)
      BY <1>0
    <2>1. PICK s : s = 1 .. k + 1
      OBVIOUS
    <2>2. s \in SUBSET S /\ s # {} /\ Max(s) = k + 1 /\ s \ {Max(s)} = 1 .. k
      BY <1>0, <2>1, PrefixSets
    <2>3. it[s] = CoalesceOne(it[1 .. k], R[k + 1])
      <3> HIDE DEF S
      <3> QED BY <1>6, <2>2
    <2>4. KeptOf(it[1 .. k], R, k)
      BY <1>0, <1>8
    <2>5. KeptOf(it[s], R, k + 1)
      BY <2>3, <2>4, KeptOfOneMore
    <2> QED BY <2>1, <2>5
  <1> HIDE DEF T
  <1>9. n \in T
    BY <1>0, <1>7, <1>8, NatInductionSet
  <1>10. KeptOf(it[1 .. n], R, n)
    BY <1>0, <1>9 DEF T
  <1> QED BY <1>5, <1>10

-----------------------------------------------------------------------------
(* Steps of the editor *)

\* No buffer's layers go back.
Moved(e, f) ==
  \A b \in BufferId : Ahead(e.buffers[b].syntax, f.buffers[b].syntax)

\* Layers that are as new, and then as new or gone, have not gone back.
LEMMA ChangesMove ==
  ASSUME NEW e \in Editor, NEW u \in Editor, NEW f \in Editor, Advances(e, u)
  PROVE  Moved(e, u) /\ (Renews(u, f) => Moved(e, f)) /\ (Renews(e, f) => Moved(e, f))
  <1>1. ASSUME NEW b \in BufferId
        PROVE  LET s == e.buffers[b].syntax
                   t == f.buffers[b].syntax
               IN  /\ Ahead(s, u.buffers[b].syntax)
                   /\ Resets(u.buffers[b].syntax, t) => Ahead(s, t)
                   /\ Resets(s, t) => Ahead(s, t)
    <2>1. /\ e.buffers[b].syntax \in SyntaxState /\ u.buffers[b].syntax \in SyntaxState
          /\ f.buffers[b].syntax \in SyntaxState
      BY EditorTypes
    <2>2. Forward(e.buffers[b].syntax, u.buffers[b].syntax)
      BY DEF Advances
    <2>3. Forward(e.buffers[b].syntax, e.buffers[b].syntax)
      BY <2>1, MovesCompose
    <2> QED BY <2>1, <2>2, <2>3, MovesCompose DEF Ahead
  <1> QED BY <1>1 DEF Moved, Renews

\* A queue that nothing is posted to.
LEMMA NothingAppended ==
  ASSUME NEW X, NEW q \in Seq(X) PROVE q \o <<>> = q
  OBVIOUS

\* The editor of a state is fine.
LEMMA EditorIsFine ==
  ASSUME IInv
  PROVE  /\ Fine(ed, queue, batch, ToSet(done), alive) /\ ed \in Editor
         /\ done \in Seq(Results) /\ \A d \in ToSet(done) : d.describes = d.generation
         /\ \A b \in shown : b \in BufferId /\ ed.buffers[b].open
  <1>1. Sound(ed, ToSet(queue) \cup batch \cup ToSet(done)) /\ queue \in Seq(Requests)
    BY DEF IInv, OnTheirWay, Channels
  <1>2. queue \o ed.posts = queue
    BY <1>1, NothingAppended DEF IInv
  <1>3. alive => InOrder(queue) /\ Awaited(ed, queue, batch, ToSet(done))
    BY DEF IInv, Awaits
  <1> QED BY <1>1, <1>2, <1>3 DEF Fine, IInv, Channels, Sound

\* The messages in a queue that others are appended to.
LEMMA SetOfJoined ==
  ASSUME NEW X, NEW p \in Seq(X), NEW q \in Seq(X)
  PROVE  p \o q \in Seq(X) /\ ToSet(p \o q) \subseteq ToSet(p) \cup ToSet(q)
  <1>1. PICK r : r = p \o q
    OBVIOUS
  <1>2. /\ r \in Seq(X) /\ Len(r) = Len(p) + Len(q) /\ Len(p) \in Nat /\ Len(q) \in Nat
        /\ \A i \in 1 .. Len(p) : r[i] = p[i]
        /\ \A i \in Len(p) + 1 .. Len(p) + Len(q) : r[i] = q[i - Len(p)]
    BY <1>1
  <1>3. ASSUME NEW i \in 1 .. Len(r) PROVE r[i] \in ToSet(p) \cup ToSet(q)
    <2>1. CASE i \in 1 .. Len(p)
      BY <1>2, <2>1 DEF ToSet
    <2>2. CASE i \in Len(p) + 1 .. Len(p) + Len(q)
      <3>1. i - Len(p) \in 1 .. Len(q)
        BY <1>2, <2>2
      <3> QED BY <1>2, <2>2, <3>1 DEF ToSet
    <2> QED BY <1>2, <2>1, <2>2
  <1> QED BY <1>1, <1>2, <1>3 DEF ToSet

\* What the editor posts is sent, and nothing else on its way changes but what
\* is drained.
Settles(e, D) ==
  /\ Fine(e, queue, batch, D, alive)
  /\ ed' = [e EXCEPT !.posts = <<>>]
  /\ queue' \in {queue, queue \o e.posts}
  /\ alive => queue' = queue \o e.posts
  /\ batch' = batch /\ alive' = alive
  /\ done' \in Seq(Results) /\ ToSet(done') = D
  /\ \A d \in D : d.describes = d.generation
  /\ disconnected' \in BOOLEAN
  /\ disconnected' => ~alive
  /\ \A b \in shown' : b \in BufferId /\ e.buffers[b].open

\* The invariant holds when the editor settles.
LEMMA SettlesKeeps ==
  ASSUME IInv, NEW e, NEW D, Settles(e, D)
  PROVE  IInv' /\ ed' \in Editor /\ ed'.buffers = e.buffers
  <1>1. /\ Sound(e, ToSet(queue) \cup batch \cup D) /\ e \in Editor /\ e.posts \in Seq(Requests)
        /\ queue \in Seq(Requests)
    BY EditorTypes DEF Settles, Fine, Sound
  <1>2. PICK none : none = <<>> /\ none \in Seq(Requests)
    <2>1. <<>> \in Seq(Requests)
      OBVIOUS
    <2> QED BY <2>1
  <1>3. /\ ed' \in Editor /\ ed'.buffers = e.buffers /\ ed'.grammars = e.grammars
        /\ ed'.snapshot = e.snapshot /\ ed'.posts = <<>>
    <2>1. ed' = [e EXCEPT !.posts = none]
      BY <1>2 DEF Settles
    <2> QED BY <1>1, <1>2, <2>1 DEF Editor
  <1>4. queue' \in Seq(Requests) /\ ToSet(queue') \subseteq ToSet(queue) \cup ToSet(e.posts)
    <2>1. CASE queue' = queue
      BY <1>1, <2>1
    <2>2. CASE queue' = queue \o e.posts
      BY <1>1, <2>2, SetOfJoined
    <2> QED BY <2>1, <2>2 DEF Settles
  <1>5. Sound(ed', OnTheirWay')
    <2>1. OnTheirWay' \subseteq ToSet(queue) \cup batch \cup D \cup ToSet(e.posts)
      BY <1>4 DEF OnTheirWay, Settles
    <2>2. \A m : Known(m, e) => Known(m, ed')
      BY <1>3 DEF Known
    <2>3. ToSet(ed'.posts) = {}
      BY <1>3 DEF ToSet
    <2>4. \A m \in ToSet(queue) \cup batch \cup D \cup ToSet(e.posts) : Known(m, e)
      BY <1>1 DEF Sound
    <2>5. LoadedHaveConfigs(ed')
      BY <1>1, <1>3 DEF Sound, LoadedHaveConfigs
    <2>6. \A b \in BufferId : Claims(ed'.buffers[b], ed'.snapshot)
      BY <1>1, <1>3 DEF Sound
    <2> QED BY <1>3, <2>1, <2>2, <2>3, <2>4, <2>5, <2>6 DEF Sound
  <1>6. Channels'
    <2>1. \A r \in ToSet(queue') \cup batch : FitPrior(r)
      BY <1>1, <1>4 DEF IInv, Channels, Sound
    <2> QED BY <1>4, <2>1 DEF IInv, Channels, Settles
  <1>7. Awaits'
    <2> SUFFICES ASSUME alive
                 PROVE  /\ InOrder(queue')
                        /\ \A r, h \in batch : r.bid = h.bid => r = h
                        /\ Awaited(ed', queue', batch, D)
      BY DEF Awaits, Settles
    <2>1. InOrder(queue') /\ Awaited(e, queue', batch, D)
      BY DEF Settles, Fine
    <2>2. Awaited(ed', queue', batch, D)
      BY <1>3, <2>1 DEF Awaited
    <2> QED BY <2>1, <2>2 DEF IInv, Awaits
  <1>8. shown' \subseteq {b \in BufferId : ed'.buffers[b].open}
    BY <1>3 DEF Settles
  <1> QED BY <1>3, <1>5, <1>6, <1>7, <1>8 DEF IInv

\* The editor with another buffer for b.
WithBuffer(e, b, y) == [e EXCEPT !.buffers[b] = y]

\* Only the buffer b is replaced.
Rewritten(e, f, b, y) ==
  /\ f \in Editor /\ f.buffers[b] = y
  /\ \A c \in BufferId \ {b} : f.buffers[c] = e.buffers[c]
  /\ f.grammars = e.grammars /\ f.snapshot = e.snapshot /\ f.posts = e.posts

\* Another buffer replaces b's.
LEMMA BufferReplaced ==
  ASSUME NEW e \in Editor, NEW b \in BufferId, NEW y \in BufferState
  PROVE  Rewritten(e, WithBuffer(e, b, y), b, y)
  <1>1. PICK bs, f : bs = [e.buffers EXCEPT ![b] = y] /\ f = WithBuffer(e, b, y)
    OBVIOUS
  <1>2. /\ bs \in [BufferId -> BufferState] /\ bs[b] = y
        /\ \A c \in BufferId \ {b} : bs[c] = e.buffers[c]
    BY <1>1 DEF Editor
  <1>3. f = [e EXCEPT !.buffers = bs]
    BY <1>1 DEF WithBuffer
  <1>4. /\ f \in Editor /\ f.buffers = bs
        /\ f.grammars = e.grammars /\ f.snapshot = e.snapshot /\ f.posts = e.posts
    BY <1>2, <1>3 DEF Editor
  <1> QED BY <1>1, <1>2, <1>4 DEF Rewritten

\* A buffer's text may change when its claims hold of the new one, and it waits
\* for what it waited for and has the layers it had, or none.
LEMMA TextChanges ==
  ASSUME NEW e, NEW Q, NEW B, NEW D, NEW up, Fine(e, Q, B, D, up),
         NEW b \in BufferId, NEW y \in BufferState, NEW f, f = WithBuffer(e, b, y),
         Claims(y, e.snapshot), y.generation >= e.buffers[b].generation,
         y.syntax.committed = e.buffers[b].syntax.committed,
         y.syntax.in_flight = e.buffers[b].syntax.in_flight,
         y.syntax.config = e.buffers[b].syntax.config
  PROVE  Fine(f, Q, B, D, up) /\ Moved(e, f)
  <1>1. Sound(e, ToSet(Q) \cup B \cup D) /\ e \in Editor
    BY DEF Fine, Sound
  <1>2. /\ f \in Editor /\ f.buffers[b] = y
        /\ \A c \in BufferId \ {b} : f.buffers[c] = e.buffers[c]
        /\ f.grammars = e.grammars /\ f.snapshot = e.snapshot /\ f.posts = e.posts
    BY <1>1, BufferReplaced DEF Rewritten
  <1>3. y.generation \in Nat /\ e.buffers[b].generation \in Nat
    BY <1>1, EditorTypes DEF BufferState
  <1>4. ASSUME NEW m, Known(m, e) PROVE Known(m, f)
    <2>1. CASE m.bid = b
      <3>1. m.generation <= y.generation
        BY <1>3, <1>4, <2>1 DEF Known
      <3> QED BY <1>2, <1>4, <2>1, <3>1 DEF Known
    <2>2. CASE m.bid # b
      <3>1. f.buffers[m.bid] = e.buffers[m.bid]
        BY <1>2, <1>4, <2>2 DEF Known
      <3> QED BY <1>2, <1>4, <3>1 DEF Known
    <2> QED BY <2>1, <2>2
  <1>5. Sound(f, ToSet(Q) \cup B \cup D)
    <2>1. LoadedHaveConfigs(f)
      BY <1>1, <1>2 DEF Sound, LoadedHaveConfigs
    <2>2. \A c \in BufferId : Claims(f.buffers[c], f.snapshot)
      <3>1. \A c \in BufferId \ {b} : Claims(f.buffers[c], f.snapshot)
        BY <1>1, <1>2 DEF Sound
      <3>2. Claims(f.buffers[b], f.snapshot)
        BY <1>2
      <3> QED BY <3>1, <3>2
    <2> QED BY <1>1, <1>2, <1>4, <2>1, <2>2 DEF Sound
  <1>6. ASSUME NEW S, Awaited(e, S, B, D) PROVE Awaited(f, S, B, D)
    <2> SUFFICES ASSUME NEW c \in BufferId, f.buffers[c].syntax.in_flight # None
                 PROVE  \/ WaitedIn(c, f.buffers[c].syntax, S)
                        \/ HeldIn(c, f.buffers[c].syntax, S, B, D)
      BY DEF Awaited
    <2>1. PICK s, t : s = e.buffers[c].syntax /\ t = f.buffers[c].syntax
      OBVIOUS
    <2>2. s.in_flight = t.in_flight /\ s.config = t.config
      BY <1>2, <2>1
    <2>3. WaitedIn(c, s, S) \/ HeldIn(c, s, S, B, D)
      BY <1>6, <2>1, <2>2 DEF Awaited
    <2>4. \A m : Answers(m, s) <=> Answers(m, t)
      BY <2>2 DEF Answers
    <2>5. WaitedIn(c, s, S) => WaitedIn(c, t, S)
      BY <2>4 DEF WaitedIn
    <2>6. HeldIn(c, s, S, B, D) => HeldIn(c, t, S, B, D)
      BY <2>4 DEF HeldIn
    <2> QED BY <2>1, <2>3, <2>5, <2>6
  <1>7. Moved(e, f)
    <2> SUFFICES ASSUME NEW c \in BufferId
                 PROVE  Ahead(e.buffers[c].syntax, f.buffers[c].syntax)
      BY DEF Moved
    <2>1. /\ e.buffers[c].syntax \in SyntaxState /\ f.buffers[c].syntax \in SyntaxState
          /\ f.buffers[c].syntax.committed = e.buffers[c].syntax.committed
          /\ f.buffers[c].syntax.config = e.buffers[c].syntax.config
      BY <1>1, <1>2, EditorTypes
    <2> QED BY <2>1, SameLayers DEF Ahead
  <1> QED BY <1>2, <1>5, <1>6, <1>7 DEF Fine

\* An editor that has posted nothing.
LEMMA EditorUnposted ==
  ASSUME NEW e \in Editor, e.posts = <<>>, NEW q \in Seq(Requests)
  PROVE  e = [e EXCEPT !.posts = <<>>] /\ q = q \o e.posts
  <1>1. q \o <<>> = q
    BY NothingAppended
  <1>2. e = [e EXCEPT !.posts = e.posts]
    BY DEF Editor
  <1> QED BY <1>1, <1>2

\* An edit keeps the invariant.
LEMMA EditKeeps ==
  ASSUME IInv, NEW b \in BufferId, NEW size \in Sizes, NEW recorded \in BOOLEAN,
         Edit(b, size, recorded)
  PROVE  IInv' /\ Moved(ed, ed')
  <1>1. PICK buf, next, syntax :
          /\ buf = ed.buffers[b] /\ next = buf.generation + 1
          /\ syntax = IF recorded /\ Attached(ed, b)
                        THEN [buf.syntax EXCEPT !.pending = Append(@, <<buf.generation, next>>)]
                        ELSE buf.syntax
    OBVIOUS
  <1>2. /\ Fine(ed, queue, batch, ToSet(done), alive) /\ ed \in Editor
        /\ done \in Seq(Results) /\ \A d \in ToSet(done) : d.describes = d.generation
        /\ \A c \in shown : c \in BufferId /\ ed.buffers[c].open
    BY EditorIsFine
  <1>3. /\ buf \in BufferState /\ buf.generation \in Nat /\ buf.syntax \in SyntaxState
        /\ buf.syntax.pending \in Seq(Nat \X Nat) /\ next \in Nat /\ buf.open
        /\ next <= MaxGeneration /\ ed.snapshot \in Nat /\ next # 0
        /\ Claims(buf, ed.snapshot)
    <2>1. /\ buf \in BufferState /\ buf.generation \in Nat /\ buf.syntax \in SyntaxState
          /\ ed.snapshot \in Nat
      BY <1>1, <1>2, EditorTypes
    <2>2. buf.syntax.pending \in Seq(Nat \X Nat)
      BY <2>1 DEF SyntaxState
    <2>3. next \in Nat /\ next # 0
      BY <1>1, <2>1
    <2>4. buf.open /\ next <= MaxGeneration
      BY <1>1 DEF Edit
    <2>5. Claims(buf, ed.snapshot)
      BY <1>1, <1>2 DEF Fine, Sound
    <2> QED BY <2>1, <2>2, <2>3, <2>4, <2>5
  <1>4. PICK y : y = [buf EXCEPT !.generation = next, !.size = size, !.syntax = syntax]
    OBVIOUS
  <1>5. PICK p : /\ p = Append(buf.syntax.pending, <<buf.generation, next>>)
                 /\ p \in Seq(Nat \X Nat)
    <2>1. Append(buf.syntax.pending, <<buf.generation, next>>) \in Seq(Nat \X Nat)
      BY <1>3
    <2> QED BY <2>1
  <1>6. \A i \in 1 .. Len(p) : p[i][1] < p[i][2] /\ p[i][2] <= next
    <2>1. /\ Len(p) = Len(buf.syntax.pending) + 1 /\ Len(buf.syntax.pending) \in Nat
          /\ p[Len(buf.syntax.pending) + 1] = <<buf.generation, next>>
          /\ \A i \in 1 .. Len(buf.syntax.pending) : /\ p[i] = buf.syntax.pending[i]
                                                     /\ p[i] \in Nat \X Nat
      BY <1>3, <1>5
    <2>2. ASSUME NEW i \in 1 .. Len(buf.syntax.pending)
          PROVE  p[i][1] < p[i][2] /\ p[i][2] <= next
      <3>1. p[i][1] < p[i][2] /\ p[i][2] <= buf.generation
        BY <1>3, <2>1 DEF Claims, ClaimsOf
      <3>2. PICK u, v : u = p[i][1] /\ v = p[i][2] /\ u \in Nat /\ v \in Nat
        BY <2>1
      <3>3. buf.generation <= next
        BY <1>1, <1>3
      <3>4. u < v /\ v <= next
        BY <1>3, <3>1, <3>2, <3>3
      <3> QED BY <3>2, <3>4
    <2>3. \A i \in 1 .. Len(p) : \/ i \in 1 .. Len(buf.syntax.pending)
                                 \/ i = Len(buf.syntax.pending) + 1
      BY <2>1
    <2>4. <<buf.generation, next>>[1] < <<buf.generation, next>>[2]
          /\ <<buf.generation, next>>[2] <= next
      BY <1>1, <1>3
    <2> QED BY <2>1, <2>2, <2>3, <2>4
  <1>7. /\ syntax \in SyntaxState /\ syntax.committed = buf.syntax.committed
        /\ syntax.config = buf.syntax.config /\ syntax.in_flight = buf.syntax.in_flight
        /\ syntax.parsed_gen = buf.syntax.parsed_gen
        /\ syntax.min_snapshot = buf.syntax.min_snapshot
        /\ \/ syntax = buf.syntax
           \/ syntax.pending = p /\ buf.syntax.config # None
    <2>1. CASE recorded /\ Attached(ed, b)
      <3>1. syntax = [buf.syntax EXCEPT !.pending = p] /\ buf.syntax.config # None
        BY <1>1, <1>5, <2>1 DEF Attached
      <3> QED BY <1>3, <1>5, <3>1 DEF SyntaxState
    <2>2. CASE ~(recorded /\ Attached(ed, b))
      BY <1>1, <1>3, <2>2
    <2> QED BY <2>1, <2>2
  <1>8. /\ y \in BufferState /\ y.generation = next /\ y.syntax = syntax /\ y.open = buf.open
        /\ y.language = buf.language
    BY <1>3, <1>4, <1>7 DEF BufferState
  <1>9. ClaimsOf(syntax, next, buf.language, ed.snapshot)
    <2>1. /\ ClaimsOf(buf.syntax, buf.generation, buf.language, ed.snapshot)
          /\ buf.generation <= next
      BY <1>1, <1>3 DEF Claims
    <2>2. /\ buf.syntax.committed.generation \in Nat /\ buf.syntax.parsed_gen \in Nat
          /\ buf.syntax.in_flight \in Nat /\ buf.syntax.pending \in Seq(Nat \X Nat)
      BY <1>3 DEF SyntaxState, Layers
    <2>3. CASE syntax = buf.syntax
      <3>1. \A i \in 1 .. Len(buf.syntax.pending) :
              /\ buf.syntax.pending[i][1] < buf.syntax.pending[i][2]
              /\ buf.syntax.pending[i][2] <= next
        <4> SUFFICES ASSUME NEW i \in 1 .. Len(buf.syntax.pending)
                     PROVE  /\ buf.syntax.pending[i][1] < buf.syntax.pending[i][2]
                            /\ buf.syntax.pending[i][2] <= next
          OBVIOUS
        <4>1. buf.syntax.pending[i] \in Nat \X Nat
          BY <2>2
        <4> QED BY <1>3, <2>1, <4>1 DEF ClaimsOf
      <3> QED BY <1>3, <2>1, <2>2, <2>3, <3>1 DEF ClaimsOf
    <2>4. CASE syntax.pending = p /\ buf.syntax.config # None
      BY <1>3, <1>6, <1>7, <2>1, <2>2, <2>4 DEF ClaimsOf
    <2> QED BY <1>7, <2>3, <2>4
  <1>10. Claims(y, ed.snapshot)
    BY <1>3, <1>8, <1>9 DEF Claims
  <1>11. ed' = WithBuffer(ed, b, y)
    BY <1>1, <1>4 DEF Edit, WithBuffer
  <1>12. Fine(ed', queue, batch, ToSet(done), alive) /\ Moved(ed, ed')
    <2>1. /\ y.generation >= ed.buffers[b].generation
          /\ y.syntax.committed = ed.buffers[b].syntax.committed
          /\ y.syntax.in_flight = ed.buffers[b].syntax.in_flight
          /\ y.syntax.config = ed.buffers[b].syntax.config
      BY <1>1, <1>3, <1>7, <1>8
    <2>2. PICK f : f = WithBuffer(ed, b, y)
      OBVIOUS
    <2>3. Fine(f, queue, batch, ToSet(done), alive) /\ Moved(ed, f)
      BY <1>2, <1>8, <1>10, <2>1, <2>2, TextChanges
    <2> QED BY <1>11, <2>2, <2>3
  <1>13. Settles(ed', ToSet(done))
    <2>1. /\ ed' \in Editor /\ ed'.posts = <<>>
          /\ ed'.buffers[b].open = ed.buffers[b].open
          /\ \A c \in BufferId \ {b} : ed'.buffers[c] = ed.buffers[c]
      BY <1>1, <1>2, <1>8, <1>11, BufferReplaced DEF Rewritten, IInv
    <2>2. /\ ed' = [ed' EXCEPT !.posts = <<>>] /\ queue' = queue \o ed'.posts
      BY <2>1, EditorUnposted DEF Edit, IInv, Channels
    <2>3. \A c \in shown : c \in BufferId /\ ed'.buffers[c].open
      BY <1>1, <1>2, <1>3, <2>1
    <2> QED BY <1>2, <1>12, <2>2, <2>3 DEF Settles, Edit, IInv, Channels
  <1> QED BY <1>12, <1>13, SettlesKeeps

\* Of two replacements of a buffer the last stays.
LEMMA LastBufferStays ==
  ASSUME NEW e \in Editor, NEW b, NEW u, NEW v
  PROVE  WithBuffer(WithBuffer(e, b, u), b, v) = WithBuffer(e, b, v)
  <1>1. [[e.buffers EXCEPT ![b] = u] EXCEPT ![b] = v] = [e.buffers EXCEPT ![b] = v]
    OBVIOUS
  <1>2. PICK f, bs : f = WithBuffer(e, b, u) /\ bs = [e.buffers EXCEPT ![b] = u]
    OBVIOUS
  <1>3. f = [e EXCEPT !.buffers = bs]
    BY <1>2 DEF WithBuffer
  <1>4. /\ f.buffers = bs
        /\ \A cs : [f EXCEPT !.buffers = cs] = [e EXCEPT !.buffers = cs]
    BY <1>3 DEF Editor
  <1>5. /\ WithBuffer(f, b, v) = [f EXCEPT !.buffers = [f.buffers EXCEPT ![b] = v]]
        /\ WithBuffer(e, b, v) = [e EXCEPT !.buffers = [e.buffers EXCEPT ![b] = v]]
    BY DEF WithBuffer
  <1> QED BY <1>1, <1>2, <1>4, <1>5

\* A change of a buffer without syntax changes nothing that is waited for.
LEMMA BareChanges ==
  ASSUME NEW e, NEW Q, NEW B, NEW D, NEW up, Fine(e, Q, B, D, up),
         NEW b \in BufferId, e.buffers[b].syntax = Detached,
         NEW y \in BufferState, y.syntax = Detached, y.generation = e.buffers[b].generation
  PROVE  /\ Fine(WithBuffer(e, b, y), Q, B, D, up)
         /\ Rewritten(e, WithBuffer(e, b, y), b, y)
  <1>0. e.buffers[b].generation \in Nat /\ e.snapshot \in Nat /\ e \in Editor
    BY FineBuffer
  <1>1. Claims(y, e.snapshot)
    <2>1. Claims(e.buffers[b], e.snapshot) /\ y.generation \in Nat /\ e.snapshot \in Nat
      BY <1>0 DEF Fine, Sound
    <2>2. ClaimsOf(Detached, y.generation, y.language, e.snapshot)
      BY <2>1, DetachedIsSound
    <2> QED BY <2>1, <2>2 DEF Claims
  <1>2. /\ y.generation >= e.buffers[b].generation
        /\ y.syntax.committed = e.buffers[b].syntax.committed
        /\ y.syntax.in_flight = e.buffers[b].syntax.in_flight
        /\ y.syntax.config = e.buffers[b].syntax.config
    BY <1>0
  <1>3. PICK f : f = WithBuffer(e, b, y)
    OBVIOUS
  <1>4. Fine(f, Q, B, D, up)
    BY <1>1, <1>2, <1>3, TextChanges
  <1> QED BY <1>0, <1>3, <1>4, BufferReplaced

\* A change of one buffer that leaves it without layers, and others as they are
\* or renewed, moves no layers back.
LEMMA BareMoves ==
  ASSUME NEW e \in Editor, NEW u \in Editor, NEW f \in Editor, NEW b \in BufferId,
         u.buffers[b].syntax = Detached,
         \A c \in BufferId \ {b} : u.buffers[c].syntax = e.buffers[c].syntax,
         Renews(u, f)
  PROVE  Moved(e, f)
  <1> SUFFICES ASSUME NEW c \in BufferId
               PROVE  Ahead(e.buffers[c].syntax, f.buffers[c].syntax)
    BY DEF Moved
  <1>1. /\ e.buffers[c].syntax \in SyntaxState /\ f.buffers[c].syntax \in SyntaxState
        /\ Resets(u.buffers[c].syntax, f.buffers[c].syntax)
    BY EditorTypes DEF Renews
  <1>2. CASE c = b
    <2>1. f.buffers[c].syntax.committed.at = "none"
      BY <1>1, <1>2 DEF Resets, Detached, NoLayers
    <2> QED BY <2>1 DEF Ahead
  <1>3. CASE c # b
    BY <1>1, <1>3 DEF Resets, Ahead
  <1> QED BY <1>2, <1>3

\* What commands leave alone, and what they send.
LEMMA CommandSettles ==
  ASSUME IInv, NEW e, Fine(e, queue, batch, ToSet(done), alive), Sent(e),
         disconnected' = Learnt(e), UNCHANGED <<batch, done, alive>>,
         \A b \in shown' : b \in BufferId /\ e.buffers[b].open
  PROVE  Settles(e, ToSet(done))
  <1>1. /\ done \in Seq(Results) /\ \A d \in ToSet(done) : d.describes = d.generation
    BY EditorIsFine
  <1>2. /\ disconnected \in BOOLEAN /\ alive \in BOOLEAN /\ (disconnected => ~alive)
    BY DEF IInv, Channels
  <1>3. queue' \in {queue, queue \o e.posts} /\ (alive => queue' = queue \o e.posts)
    BY <1>2 DEF Sent
  <1>4. disconnected' \in BOOLEAN /\ (disconnected' => ~alive)
    BY <1>2 DEF Learnt
  <1>5. ed' = [e EXCEPT !.posts = <<>>]
    BY DEF Sent
  <1> QED BY <1>1, <1>3, <1>4, <1>5 DEF Settles

\* set_buffer_language keeps the invariant.
LEMMA SetLanguageKeeps ==
  ASSUME IInv, NEW b \in BufferId, NEW l \in LanguageId \cup {NoLanguage}, SetLanguage(b, l)
  PROVE  IInv' /\ Moved(ed, ed')
  <1>1. PICK e0, e : e0 = [ed EXCEPT !.buffers[b].language = l] /\ e = Setup(e0, b)
    OBVIOUS
  <1>2. /\ Fine(ed, queue, batch, ToSet(done), alive) /\ ed \in Editor
        /\ \A c \in shown : c \in BufferId /\ ed.buffers[c].open
        /\ ed.buffers[b].open /\ ed.buffers[b] \in BufferState
    BY EditorIsFine, EditorTypes DEF SetLanguage
  <1>3. PICK x, z : x = WithSyntax(ed, b, Detached) /\ z = WithSyntax(e0, b, Detached)
    OBVIOUS
  <1>4. Fine(x, queue, batch, ToSet(done), alive) /\ Replaced(ed, x, b, Detached)
    BY <1>2, <1>3, DetachKeeps DEF FineRenewal
  <1>5. PICK y0, y : /\ y0 = [ed.buffers[b] EXCEPT !.language = l]
                     /\ y = [y0 EXCEPT !.syntax = Detached]
    OBVIOUS
  <1>6. /\ y0 \in BufferState /\ y0.open /\ y \in BufferState /\ y.syntax = Detached /\ y.open
        /\ y.generation = ed.buffers[b].generation
    <2>1. Detached \in SyntaxState
      BY DetachedIsSound, <1>2, EditorTypes
    <2> QED BY <1>2, <1>5, <2>1 DEF BufferState
  <1>7. e0 = WithBuffer(ed, b, y0)
    BY <1>1, <1>5 DEF WithBuffer
  <1>8. Rewritten(ed, e0, b, y0)
    BY <1>2, <1>6, <1>7, BufferReplaced
  <1>9. z = WithBuffer(x, b, y)
    <2>1. PICK u : u = [ed.buffers[b] EXCEPT !.syntax = Detached]
      OBVIOUS
    <2>2. x = WithBuffer(ed, b, u)
      BY <1>3, <2>1 DEF WithSyntax, WithBuffer
    <2>3. z = WithBuffer(e0, b, y)
      <3>1. e0.buffers[b] = y0
        BY <1>8 DEF Rewritten
      <3> QED BY <1>3, <1>5, <3>1 DEF WithSyntax, WithBuffer
    <2> QED BY <1>2, <1>7, <2>2, <2>3, LastBufferStays
  <1>10. Fine(z, queue, batch, ToSet(done), alive) /\ Rewritten(x, z, b, y)
    <2>1. x.buffers[b].syntax = Detached /\ y.generation = x.buffers[b].generation
      BY <1>4, <1>6 DEF Replaced, SameText
    <2> QED BY <1>4, <1>6, <1>9, <2>1, BareChanges
  <1>11. Replaced(e0, z, b, Detached)
    <2>1. e0 \in Editor /\ Detached \in SyntaxState
      BY <1>2, <1>8, DetachedIsSound, EditorTypes DEF Rewritten
    <2> QED BY <1>3, <2>1, SyntaxReplaced
  <1>12. FineRenewal(z, e, queue, batch, ToSet(done), alive)
    <2>1. z.buffers[b].open
      BY <1>6, <1>10 DEF Rewritten
    <2> QED BY <1>1, <1>3, <1>10, <1>11, <2>1, SetupKeeps
  <1>13. Settles(e, ToSet(done))
    <2>1. \A c \in BufferId : ed.buffers[c].open => e.buffers[c].open
      <3>1. \A c \in BufferId : SameText(z.buffers[c], e.buffers[c])
        BY <1>12 DEF FineRenewal, Renews
      <3>2. \A c \in BufferId : ed.buffers[c].open => z.buffers[c].open
        <4>1. \A c \in BufferId \ {b} : z.buffers[c] = ed.buffers[c]
          BY <1>4, <1>10 DEF Replaced, Rewritten
        <4> QED BY <1>6, <1>10, <4>1 DEF Rewritten
      <3> QED BY <3>1, <3>2 DEF SameText
    <2>2. /\ Sent(e) /\ disconnected' = Learnt(e) /\ UNCHANGED <<batch, done, alive>>
          /\ shown' = shown
      BY <1>1 DEF SetLanguage
    <2>3. Fine(e, queue, batch, ToSet(done), alive)
      BY <1>12 DEF FineRenewal
    <2> QED BY <1>2, <2>1, <2>2, <2>3, CommandSettles
  <1>14. IInv' /\ ed' \in Editor /\ ed'.buffers = e.buffers
    BY <1>13, SettlesKeeps
  <1>15. Moved(ed, e)
    <2>1. z \in Editor /\ e \in Editor /\ Renews(z, e)
      BY <1>10, <1>12 DEF FineRenewal, Fine, Sound
    <2>2. z.buffers[b].syntax = Detached
      BY <1>6, <1>10 DEF Rewritten
    <2>3. \A c \in BufferId \ {b} : z.buffers[c].syntax = ed.buffers[c].syntax
      BY <1>4, <1>10 DEF Replaced, Rewritten
    <2> QED BY <1>2, <2>1, <2>2, <2>3, BareMoves
  <1> QED BY <1>14, <1>15 DEF Moved

\* A sweep for a language keeps the editor fine.
LEMMA SweepKeeps ==
  ASSUME NEW e, NEW Q, NEW B, NEW D, NEW up, Fine(e, Q, B, D, up), NEW l \in LanguageId
  PROVE  FineRenewal(e, Sweep(e, l), Q, B, D, up)
  <1>1. PICK rebuilt, reresolved, asked, f :
          /\ rebuilt = {b \in BufferId : e.buffers[b].open /\ e.buffers[b].language = l}
          /\ reresolved = {b \in BufferId \ rebuilt :
                             /\ e.buffers[b].open /\ Attached(e, b)
                             /\ Injects[e.buffers[b].language] # {}}
          /\ asked = ReresolveAll(e, reresolved) /\ f = SetupAll(asked, rebuilt)
    OBVIOUS
  <1>2. reresolved \in SUBSET BufferId /\ \A b \in reresolved : e.buffers[b].open /\ Attached(e, b)
    BY <1>1
  <1>3. FineRenewal(e, asked, Q, B, D, up)
    BY <1>1, <1>2, AskAllKeeps
  <1>4. rebuilt \in SUBSET BufferId /\ \A b \in rebuilt : asked.buffers[b].open
    BY <1>1, <1>3 DEF FineRenewal, Renews, SameText
  <1>5. FineRenewal(asked, f, Q, B, D, up)
    BY <1>1, <1>3, <1>4, SetupAllKeeps DEF FineRenewal
  <1>6. Sweep(e, l) = f
    BY <1>1 DEF Sweep
  <1> QED BY <1>3, <1>5, <1>6, RenewalsCompose

\* The registry, with a grammar registered.
LEMMA RegisteredLoads ==
  ASSUME NEW e \in Editor, LoadedHaveConfigs(e), NEW l \in LanguageId, NEW slot \in Slots,
         NEW f,
         f = [e EXCEPT !.grammars[l] =
                         [slot |-> slot,
                          config |-> IF slot = "loaded" THEN e.configs + 1 ELSE None],
                       !.configs = IF slot = "loaded" THEN @ + 1 ELSE @,
                       !.snapshot = @ + 1]
  PROVE  Loads(e, f)
  <1>1. e.snapshot \in Nat /\ e.configs \in Nat /\ e.grammars \in [LanguageId -> Grammar]
    BY EditorTypes
  <1>2. PICK g, n, c, gs :
          /\ g = [slot |-> slot, config |-> IF slot = "loaded" THEN e.configs + 1 ELSE None]
          /\ n = e.snapshot + 1 /\ c = IF slot = "loaded" THEN e.configs + 1 ELSE e.configs
          /\ gs = [e.grammars EXCEPT ![l] = g]
    OBVIOUS
  <1>3. g \in Grammar /\ n \in Nat /\ c \in Nat /\ (g.slot = "loaded" => g.config # None)
    BY <1>1, <1>2 DEF Grammar, None
  <1>4. gs \in [LanguageId -> Grammar] /\ gs[l] = g
        /\ \A k \in LanguageId \ {l} : gs[k] = e.grammars[k]
    BY <1>1, <1>2, <1>3
  <1>5. f = [e EXCEPT !.grammars = gs, !.configs = c, !.snapshot = n]
    BY <1>2 DEF Editor
  <1>6. /\ f \in Editor /\ f.buffers = e.buffers /\ f.posts = e.posts
        /\ f.grammars = gs /\ f.snapshot = n
    BY <1>3, <1>4, <1>5 DEF Editor
  <1>7. LoadedHaveConfigs(f)
    BY <1>3, <1>4, <1>6 DEF LoadedHaveConfigs
  <1> QED BY <1>1, <1>2, <1>6, <1>7 DEF Loads

\* Registering a grammar keeps the invariant.
LEMMA RegisterGrammarKeeps ==
  ASSUME IInv, NEW l \in LanguageId, NEW slot \in Slots, RegisterGrammar(l, slot)
  PROVE  IInv' /\ Moved(ed, ed')
  <1>1. PICK set, e :
          /\ set = [ed EXCEPT !.grammars[l] =
                                [slot |-> slot,
                                 config |-> IF slot = "loaded" THEN ed.configs + 1 ELSE None],
                              !.configs = IF slot = "loaded" THEN @ + 1 ELSE @,
                              !.snapshot = @ + 1]
          /\ e = Sweep(set, l)
    OBVIOUS
  <1>2. /\ Fine(ed, queue, batch, ToSet(done), alive) /\ ed \in Editor
        /\ \A c \in shown : c \in BufferId /\ ed.buffers[c].open
    BY EditorIsFine
  <1>3. Loads(ed, set)
    <2>1. LoadedHaveConfigs(ed)
      BY <1>2 DEF Fine, Sound
    <2> QED BY <1>1, <1>2, <2>1, RegisteredLoads
  <1>4. Fine(set, queue, batch, ToSet(done), alive) /\ set.buffers = ed.buffers /\ set \in Editor
    BY <1>2, <1>3, LoadsKeepFine DEF Loads
  <1>5. FineRenewal(set, e, queue, batch, ToSet(done), alive)
    BY <1>1, <1>4, SweepKeeps
  <1>6. Settles(e, ToSet(done))
    <2>1. \A c \in BufferId : ed.buffers[c].open => e.buffers[c].open
      BY <1>4, <1>5 DEF FineRenewal, Renews, SameText
    <2>2. /\ Sent(e) /\ disconnected' = Learnt(e) /\ UNCHANGED <<batch, done, alive>>
          /\ shown' = shown
      BY <1>1 DEF RegisterGrammar
    <2>3. Fine(e, queue, batch, ToSet(done), alive)
      BY <1>5 DEF FineRenewal
    <2> QED BY <1>2, <2>1, <2>2, <2>3, CommandSettles
  <1>7. IInv' /\ ed' \in Editor /\ ed'.buffers = e.buffers
    BY <1>6, SettlesKeeps
  <1>8. Moved(ed, e)
    <2>1. Advances(ed, ed) /\ Renews(ed, e) /\ e \in Editor
      BY <1>2, <1>4, <1>5, ChangesCompose DEF FineRenewal, Renews, Fine, Sound
    <2> QED BY <1>2, <2>1, ChangesMove
  <1> QED BY <1>7, <1>8 DEF Moved

\* A step that posts nothing, and leaves the channels as they are.
LEMMA QuietSettles ==
  ASSUME IInv, ed' \in Editor, ed'.posts = <<>>,
         Fine(ed', queue, batch, ToSet(done), alive),
         UNCHANGED <<queue, batch, done, alive, disconnected>>,
         \A b \in shown' : b \in BufferId /\ ed'.buffers[b].open
  PROVE  IInv'
  <1>1. /\ done \in Seq(Results) /\ \A d \in ToSet(done) : d.describes = d.generation
    BY EditorIsFine
  <1>2. /\ disconnected \in BOOLEAN /\ (disconnected => ~alive) /\ queue \in Seq(Requests)
    BY DEF IInv, Channels
  <1>3. ed' = [ed' EXCEPT !.posts = <<>>] /\ queue' = queue \o ed'.posts
    BY <1>2, EditorUnposted
  <1>4. Settles(ed', ToSet(done))
    BY <1>1, <1>2, <1>3 DEF Settles
  <1> QED BY <1>4, SettlesKeeps

\* ensure_syntax_current keeps the invariant.
LEMMA EnsureSyntaxCurrentKeeps ==
  ASSUME IInv, NEW b \in BufferId, EnsureSyntaxCurrent(b)
  PROVE  IInv' /\ Moved(ed, ed')
  <1>1. PICK t, baked : /\ t = Bake(ed.buffers[b].syntax, ed.buffers[b].generation)
                        /\ baked = WithSyntax(ed, b, t)
    OBVIOUS
  <1>2. /\ Fine(ed, queue, batch, ToSet(done), alive) /\ ed \in Editor /\ ed.posts = <<>>
        /\ \A c \in shown : c \in BufferId /\ ed.buffers[c].open
    BY EditorIsFine DEF IInv
  <1>3. /\ ed.buffers[b].open /\ ed.buffers[b].syntax.config # None
        /\ ed' = ParseNow(baked, b)
        /\ UNCHANGED <<queue, batch, done, alive, disconnected, shown>>
    BY <1>1 DEF EnsureSyntaxCurrent, Attached, WithSyntax
  <1>4. /\ FineRenewal(ed, baked, queue, batch, ToSet(done), alive) /\ Advances(ed, baked)
        /\ Replaced(ed, baked, b, t) /\ t.config = ed.buffers[b].syntax.config
    BY <1>1, <1>2, <1>3, BakeKeeps
  <1>5. baked.buffers[b].open /\ baked.buffers[b].syntax.config # None /\ baked.posts = <<>>
    BY <1>2, <1>3, <1>4 DEF Replaced, SameText
  <1>6. FineAdvance(baked, ed', queue, batch, ToSet(done), alive)
    BY <1>3, <1>4, <1>5, ParseNowKeeps DEF FineRenewal
  <1>7. FineAdvance(ed, ed', queue, batch, ToSet(done), alive)
    <2>1. FineAdvance(ed, baked, queue, batch, ToSet(done), alive)
      BY <1>4 DEF FineAdvance, FineRenewal, Replaced
    <2>2. PICK f : f = ed'
      OBVIOUS
    <2>3. FineAdvance(ed, f, queue, batch, ToSet(done), alive)
      BY <1>2, <1>6, <2>1, <2>2, AdvancesCompose
    <2> QED BY <2>2, <2>3
  <1>8. ed' \in Editor /\ ed'.posts = <<>> /\ Fine(ed', queue, batch, ToSet(done), alive)
    BY <1>2, <1>7 DEF FineAdvance, Fine, Sound
  <1>9. \A c \in shown' : c \in BufferId /\ ed'.buffers[c].open
    BY <1>2, <1>3, <1>7 DEF FineAdvance, Advances, SameText
  <1>10. IInv'
    BY <1>3, <1>8, <1>9, QuietSettles
  <1>11. Moved(ed, ed')
    <2>1. PICK f : f = ed'
      OBVIOUS
    <2>2. Moved(ed, f)
      BY <1>2, <1>7, <1>8, <2>1, ChangesMove DEF FineAdvance
    <2> QED BY <2>1, <2>2
  <1> QED BY <1>10, <1>11

\* A step that leaves the editor moves nothing.
LEMMA UnchangedMoves ==
  ASSUME ed \in Editor, ed' = ed PROVE Moved(ed, ed')
  <1>1. Advances(ed, ed)
    BY ChangesCompose
  <1>2. Moved(ed, ed)
    BY <1>1, ChangesMove
  <1> QED BY <1>2

\* Panes that hide or show a buffer keep the invariant.
LEMMA PanesKeep ==
  ASSUME IInv, NEW b \in BufferId, Hide(b) \/ Show(b)
  PROVE  IInv' /\ Moved(ed, ed')
  <1>1. /\ ed' = ed
        /\ UNCHANGED <<queue, batch, done, alive, disconnected>>
        /\ \/ shown' = shown \ {b}
           \/ shown' = shown \cup {b} /\ ed.buffers[b].open
    BY DEF Hide, Show
  <1>2. /\ Fine(ed, queue, batch, ToSet(done), alive) /\ ed \in Editor /\ ed.posts = <<>>
        /\ \A c \in shown : c \in BufferId /\ ed.buffers[c].open
    BY EditorIsFine DEF IInv
  <1>3. \A c \in shown' : c \in BufferId /\ ed'.buffers[c].open
    BY <1>1, <1>2
  <1> QED BY <1>1, <1>2, <1>3, QuietSettles, UnchangedMoves

\* A buffer that closes keeps the invariant.
LEMMA CloseKeeps ==
  ASSUME IInv, NEW b \in BufferId, Close(b)
  PROVE  IInv' /\ Moved(ed, ed')
  <1>1. /\ Fine(ed, queue, batch, ToSet(done), alive) /\ ed \in Editor /\ ed.posts = <<>>
        /\ \A c \in shown : c \in BufferId /\ ed.buffers[c].open
        /\ ed.buffers[b].open /\ ed.buffers[b] \in BufferState
    BY EditorIsFine, EditorTypes DEF IInv, Close
  <1>2. PICK x, y, f : /\ x = WithSyntax(ed, b, Detached)
                       /\ y = [ed.buffers[b] EXCEPT !.open = FALSE, !.syntax = Detached]
                       /\ f = WithBuffer(ed, b, y)
    OBVIOUS
  <1>3. Fine(x, queue, batch, ToSet(done), alive) /\ Replaced(ed, x, b, Detached)
    BY <1>1, <1>2, DetachKeeps DEF FineRenewal
  <1>4. y \in BufferState /\ y.syntax = Detached /\ y.generation = ed.buffers[b].generation
    <2>1. Detached \in SyntaxState
      BY DetachedIsSound, <1>1, EditorTypes
    <2> QED BY <1>1, <1>2, <2>1 DEF BufferState
  <1>5. f = WithBuffer(x, b, y)
    <2>1. PICK u : u = [ed.buffers[b] EXCEPT !.syntax = Detached]
      OBVIOUS
    <2>2. x = WithBuffer(ed, b, u)
      BY <1>2, <2>1 DEF WithSyntax, WithBuffer
    <2> QED BY <1>1, <1>2, <2>2, LastBufferStays
  <1>6. Fine(f, queue, batch, ToSet(done), alive) /\ Rewritten(x, f, b, y)
    <2>1. x.buffers[b].syntax = Detached /\ y.generation = x.buffers[b].generation
      BY <1>3, <1>4 DEF Replaced, SameText
    <2> QED BY <1>3, <1>4, <1>5, <2>1, BareChanges
  <1>7. /\ ed' = f /\ UNCHANGED <<queue, batch, done, alive, disconnected>>
        /\ shown' = shown \ {b}
    BY <1>2 DEF Close, WithBuffer
  <1>8. f \in Editor /\ f.posts = <<>>
    BY <1>1, <1>3, <1>6 DEF Replaced, Rewritten
  <1>9. \A c \in shown' : c \in BufferId /\ f.buffers[c].open
    BY <1>1, <1>3, <1>6, <1>7 DEF Replaced, Rewritten
  <1>10. IInv'
    BY <1>6, <1>7, <1>8, <1>9, QuietSettles
  <1>11. Moved(ed, f)
    <2>1. f.buffers[b].syntax = Detached /\ Renews(f, f)
      BY <1>4, <1>6, <1>8, ChangesCompose DEF Rewritten
    <2>2. \A c \in BufferId \ {b} : f.buffers[c].syntax = ed.buffers[c].syntax
      BY <1>3, <1>6 DEF Replaced, Rewritten
    <2> QED BY <1>1, <1>8, <2>1, <2>2, BareMoves
  <1> QED BY <1>7, <1>10, <1>11

-----------------------------------------------------------------------------
(* The results that are drained *)

\* What install_parse_results makes of the editor.
LEMMA DrainedIsFine ==
  ASSUME IInv
  PROVE  /\ FineAdvance(ed, Drained, queue, batch, {}, alive) /\ Drained \in Editor
         /\ Drained.posts = <<>> /\ ed \in Editor /\ Moved(ed, Drained)
         /\ \A b \in shown : b \in BufferId /\ Drained.buffers[b].open
  <1>1. /\ Fine(ed, queue, batch, ToSet(done), alive) /\ ed \in Editor /\ ed.posts = <<>>
        /\ done \in Seq(Results) /\ \A d \in ToSet(done) : d.describes = d.generation
        /\ \A b \in shown : b \in BufferId /\ ed.buffers[b].open
    BY EditorIsFine DEF IInv
  <1>2. FineAdvance(ed, Drained, queue, batch, {}, alive)
    BY <1>1, DrainedKeeps
  <1>3. PICK f : f = Drained
    OBVIOUS
  <1>4. f \in Editor /\ f.posts = <<>> /\ Advances(ed, f)
    BY <1>1, <1>2, <1>3 DEF FineAdvance, Fine, Sound
  <1>5. Moved(ed, f)
    BY <1>1, <1>4, ChangesMove
  <1>6. \A b \in shown : b \in BufferId /\ f.buffers[b].open
    BY <1>1, <1>4 DEF Advances, SameText
  <1> QED BY <1>1, <1>2, <1>3, <1>4, <1>5, <1>6

\* install_parse_results keeps the invariant.
LEMMA InstallParseResultsKeeps ==
  ASSUME IInv, InstallParseResults
  PROVE  IInv' /\ Moved(ed, ed')
  <1>1. PICK f : f = Drained
    OBVIOUS
  <1>2. /\ Fine(f, queue, batch, {}, alive) /\ f \in Editor
        /\ f.posts = <<>> /\ Moved(ed, f)
        /\ \A b \in shown : b \in BufferId /\ f.buffers[b].open
    BY <1>1, DrainedIsFine DEF FineAdvance
  <1>3. /\ ed' = f /\ done' = <<>> /\ disconnected' = (disconnected \/ ~alive)
        /\ queue' = queue /\ batch' = batch /\ alive' = alive /\ shown' = shown
    BY <1>1 DEF InstallParseResults
  <1>4. /\ queue \in Seq(Requests) /\ disconnected \in BOOLEAN /\ alive \in BOOLEAN
        /\ disconnected => ~alive
    BY DEF IInv, Channels
  <1>5. f = [f EXCEPT !.posts = <<>>] /\ queue = queue \o f.posts
    BY <1>2, <1>4, EditorUnposted
  <1>6. <<>> \in Seq(Results) /\ ToSet(<<>>) = {}
    BY DEF ToSet
  <1>7. Settles(f, {})
    BY <1>2, <1>3, <1>4, <1>5, <1>6 DEF Settles
  <1> QED BY <1>2, <1>3, <1>7, SettlesKeeps

\* reparse_stale_buffers keeps the invariant.
LEMMA ReparseStaleBuffersKeeps ==
  ASSUME IInv, ReparseStaleBuffers
  PROVE  IInv' /\ Moved(ed, ed')
  <1>1. PICK d, e : /\ d = Drained
                    /\ e = IF disconnected \/ ~alive THEN d ELSE PostAll(d, shown)
                    /\ Sent(e) /\ done' = <<>> /\ disconnected' = (disconnected \/ ~alive)
                    /\ batch' = batch /\ alive' = alive /\ shown' = shown
    BY DEF ReparseStaleBuffers
  <1>2. /\ Fine(d, queue, batch, {}, alive) /\ d \in Editor /\ Advances(ed, d)
        /\ d.posts = <<>> /\ ed \in Editor
        /\ \A b \in shown : b \in BufferId /\ d.buffers[b].open
    BY <1>1, DrainedIsFine DEF FineAdvance
  <1>3. FineRenewal(d, e, queue, batch, {}, alive)
    <2>1. Renews(d, d)
      BY <1>2, ChangesCompose
    <2>2. CASE disconnected \/ ~alive
      BY <1>1, <1>2, <2>1, <2>2 DEF FineRenewal
    <2>3. CASE ~(disconnected \/ ~alive)
      <3>1. shown \in SUBSET BufferId /\ e = PostAll(d, shown)
        BY <1>1, <1>2, <2>3
      <3> QED BY <1>2, <3>1, PostAllKeeps
    <2> QED BY <2>2, <2>3
  <1>4. Fine(e, queue, batch, {}, alive) /\ Renews(d, e) /\ e \in Editor
    BY <1>3 DEF FineRenewal, Fine, Sound
  <1>5. \A b \in shown : b \in BufferId /\ e.buffers[b].open
    BY <1>2, <1>4 DEF Renews, SameText
  <1>6. /\ alive \in BOOLEAN /\ disconnected \in BOOLEAN /\ (disconnected => ~alive)
    BY DEF IInv, Channels
  <1>7. Settles(e, {})
    <2>1. <<>> \in Seq(Results) /\ ToSet(<<>>) = {}
      BY DEF ToSet
    <2>2. ed' = [e EXCEPT !.posts = <<>>]
      BY <1>1 DEF Sent
    <2>3. queue' \in {queue, queue \o e.posts} /\ (alive => queue' = queue \o e.posts)
      BY <1>1, <1>6 DEF Sent
    <2> QED BY <1>1, <1>4, <1>5, <1>6, <2>1, <2>2, <2>3 DEF Settles
  <1>8. IInv' /\ ed'.buffers = e.buffers
    BY <1>7, SettlesKeeps
  <1>9. Moved(ed, e)
    BY <1>2, <1>4, ChangesMove
  <1> QED BY <1>8, <1>9 DEF Moved

-----------------------------------------------------------------------------
(* Steps of the worker *)

\* A step of the worker keeps the invariant if what is on its way stays known
\* and waited for.
LEMMA WorkerStepKeeps ==
  ASSUME IInv, UNCHANGED <<ed, disconnected, shown>>, Channels', Awaits',
         \A m \in OnTheirWay' : Known(m, ed)
  PROVE  IInv' /\ Moved(ed, ed')
  <1>1. Sound(ed, OnTheirWay) /\ ed \in Editor
    BY DEF IInv, Sound
  <1>2. PICK M : M = OnTheirWay'
    OBVIOUS
  <1>3. Sound(ed, M)
    BY <1>1, <1>2 DEF Sound
  <1>4. Sound(ed, OnTheirWay)'
    BY <1>2, <1>3
  <1> QED BY <1>1, <1>4, UnchangedMoves DEF IInv

\* What the worker has received is one request for a buffer, as good as the last
\* that was sent for it.
LEMMA WorkerReceiveKeeps ==
  ASSUME IInv, WorkerReceive
  PROVE  IInv' /\ Moved(ed, ed')
  <1>1. PICK C, none : /\ C = Coalesced(queue) /\ none = <<>> /\ batch' = C /\ queue' = none
                       /\ batch = {} /\ alive
                       /\ UNCHANGED <<ed, done, alive, disconnected, shown>>
    BY DEF WorkerReceive
  <1>2. /\ queue \in Seq(Requests) /\ InOrder(queue) /\ Awaited(ed, queue, {}, ToSet(done))
        /\ DOMAIN queue = 1 .. Len(queue) /\ Len(queue) \in Nat
    BY <1>1 DEF IInv, Channels, Awaits
  <1>3. KeptOf(C, queue, Len(queue))
    BY <1>1, <1>2, CoalescedKeeps
  <1>4. C \subseteq ToSet(queue) /\ C \subseteq Requests
    BY <1>2, <1>3 DEF KeptOf, ToSet
  <1>5. none \in Seq(Requests) /\ ToSet(none) = {} /\ 1 .. Len(none) = {}
    BY <1>1 DEF ToSet
  <1>6. Channels'
    BY <1>1, <1>4, <1>5 DEF IInv, Channels
  <1>7. \A m \in OnTheirWay' : Known(m, ed)
    <2>1. OnTheirWay' \subseteq OnTheirWay
      BY <1>1, <1>4, <1>5 DEF OnTheirWay
    <2> QED BY <2>1 DEF IInv, Sound
  <1>8. Awaited(ed, none, C, ToSet(done))
    <2> SUFFICES ASSUME NEW b \in BufferId, NEW s, s = ed.buffers[b].syntax,
                        s.in_flight # None
                 PROVE  HeldIn(b, s, none, C, ToSet(done))
      BY DEF Awaited
    <2>1. CASE WaitedIn(b, s, queue)
      <3>1. PICK i \in 1 .. Len(queue) :
              /\ queue[i].bid = b /\ Answers(queue[i], s)
              /\ \A j \in (i + 1) .. Len(queue) : queue[j].bid # b
        BY <2>1 DEF WaitedIn
      <3>2. PICK h \in C : /\ h.bid = b /\ h.generation = queue[i].generation
                           /\ h.config = queue[i].config
        BY <1>3, <3>1 DEF KeptOf
      <3>3. Answers(h, s)
        BY <3>1, <3>2 DEF Answers
      <3>4. \A m \in C : m.bid = b => m = h
        BY <1>3, <3>2 DEF KeptOf
      <3> QED BY <1>5, <3>2, <3>3, <3>4 DEF HeldIn
    <2>2. CASE HeldIn(b, s, queue, {}, ToSet(done))
      <3>1. \A m \in C : m.bid # b
        BY <1>2, <1>4, <2>2 DEF HeldIn, ToSet
      <3> QED BY <1>5, <2>2, <3>1 DEF HeldIn
    <2> QED BY <1>2, <2>1, <2>2 DEF Awaited
  <1>9. Awaits'
    <2>1. InOrder(none)
      BY <1>5 DEF InOrder
    <2>2. \A r, h \in C : r.bid = h.bid => r = h
      BY <1>3 DEF KeptOf
    <2> QED BY <1>1, <1>8, <2>1, <2>2 DEF Awaits
  <1> QED BY <1>1, <1>6, <1>7, <1>9, WorkerStepKeeps

\* The result of a request answers what the request was sent for.
LEMMA WorkerParseKeeps ==
  ASSUME IInv, WorkerParse
  PROVE  IInv' /\ Moved(ed, ed')
  <1>1. PICK r \in batch, ok \in BOOLEAN :
          /\ done' = Append(done, Parsed(r, ok)) /\ batch' = batch \ {r} /\ alive
          /\ UNCHANGED <<ed, queue, alive, disconnected, shown>>
    BY DEF WorkerParse
  <1>2. PICK d, D : d = Parsed(r, ok) /\ D = ToSet(done)
    OBVIOUS
  <1>3. /\ d \in Results /\ d.bid = r.bid /\ d.generation = r.generation
        /\ d.config = r.config /\ d.snapshot = r.snapshot /\ d.describes = d.generation
    BY <1>1, <1>2, ParsedResult DEF IInv, Channels
  <1>4. done \in Seq(Results) /\ done' \in Seq(Results) /\ ToSet(done') = D \cup {d}
    <2>1. done \in Seq(Results)
      BY DEF IInv, Channels
    <2>2. Append(done, d) \in Seq(Results)
      BY <1>3, <2>1
    <2>3. ToSet(Append(done, d)) = D \cup {d}
      BY <1>2, <1>3, <2>1, SetOfAppended
    <2> QED BY <1>1, <1>2, <2>1, <2>2, <2>3
  <1>5. Channels'
    BY <1>1, <1>2, <1>3, <1>4 DEF IInv, Channels
  <1>6. \A m \in OnTheirWay' : Known(m, ed)
    <2>1. \A m \in OnTheirWay : Known(m, ed)
      BY DEF IInv, Sound
    <2>2. OnTheirWay' \subseteq OnTheirWay \cup {d}
      BY <1>1, <1>2, <1>4 DEF OnTheirWay
    <2>3. Known(r, ed)
      BY <1>1, <2>1 DEF OnTheirWay
    <2>4. Known(d, ed)
      BY <1>3, <2>3 DEF Known, Behind
    <2> QED BY <2>1, <2>2, <2>4
  <1>7. Awaited(ed, queue, batch \ {r}, D \cup {d})
    <2> SUFFICES ASSUME NEW b \in BufferId, NEW s, s = ed.buffers[b].syntax,
                        s.in_flight # None
                 PROVE  \/ WaitedIn(b, s, queue)
                        \/ HeldIn(b, s, queue, batch \ {r}, D \cup {d})
      BY DEF Awaited
    <2>1. WaitedIn(b, s, queue) \/ HeldIn(b, s, queue, batch, D)
      BY <1>1, <1>2 DEF IInv, Awaits, Awaited
    <2>2. Answers(r, s) => Answers(d, s)
      BY <1>3 DEF Answers
    <2>3. HeldIn(b, s, queue, batch, D) => HeldIn(b, s, queue, batch \ {r}, D \cup {d})
      BY <1>3, <2>2 DEF HeldIn
    <2> QED BY <2>1, <2>3
  <1>8. Awaits'
    <2>1. InOrder(queue) /\ \A g, h \in batch : g.bid = h.bid => g = h
      BY <1>1 DEF IInv, Awaits
    <2> QED BY <1>1, <1>4, <1>7, <2>1 DEF Awaits
  <1> QED BY <1>1, <1>5, <1>6, <1>8, WorkerStepKeeps

\* A worker that dies takes what it was sent with it, and nothing waits for it.
LEMMA WorkerDiesKeeps ==
  ASSUME IInv, WorkerDies
  PROVE  IInv' /\ Moved(ed, ed')
  <1>1. PICK none : /\ none = <<>> /\ queue' = none /\ batch' = {} /\ alive' = FALSE
                    /\ UNCHANGED <<ed, done, disconnected, shown>>
    BY DEF WorkerDies
  <1>2. none \in Seq(Requests) /\ ToSet(none) = {}
    BY <1>1 DEF ToSet
  <1>3. Channels'
    BY <1>1, <1>2 DEF IInv, Channels
  <1>4. \A m \in OnTheirWay' : Known(m, ed)
    BY <1>1, <1>2 DEF IInv, Sound, OnTheirWay
  <1>5. Awaits'
    BY <1>1 DEF Awaits
  <1> QED BY <1>1, <1>3, <1>4, <1>5, WorkerStepKeeps

-----------------------------------------------------------------------------
(* The specification *)

\* The editor starts with nothing asked for.
LEMMA InitKeeps == Init => IInv
  <1> SUFFICES ASSUME Init PROVE IInv
    OBVIOUS
  <1>1. PICK buf, none : /\ buf = [open |-> TRUE, generation |-> 1, size |-> "small",
                                   language |-> NoLanguage, syntax |-> Detached]
                         /\ none = <<>>
    OBVIOUS
  <1>2. /\ ed = [buffers |-> [b \in BufferId |-> buf],
                 grammars |-> [l \in LanguageId |-> NoGrammar],
                 snapshot |-> 1, configs |-> 0, posts |-> none]
        /\ queue = none /\ batch = {} /\ done = none /\ alive = TRUE
        /\ disconnected = FALSE /\ shown = BufferId
    BY <1>1 DEF Init
  <1>3. /\ none \in Seq(Requests) /\ none \in Seq(Results) /\ ToSet(none) = {}
        /\ 1 .. Len(none) = {}
    BY <1>1 DEF ToSet
  <1>4. MaxGeneration \in Nat /\ MaxGeneration # 0
    BY ParseWorkerAssumption DEF ParseWorkerAssumption
  <1>5. /\ Detached \in SyntaxState /\ ClaimsOf(Detached, 1, NoLanguage, 1)
        /\ Detached.in_flight = None
    BY DetachedIsSound DEF Detached, None
  <1>6. buf \in BufferState /\ Claims(buf, 1)
    BY <1>1, <1>4, <1>5 DEF BufferState, Claims, Sizes
  <1>7. /\ ed \in Editor /\ ed.posts = none /\ ed.snapshot = 1
        /\ \A b \in BufferId : ed.buffers[b] = buf
        /\ \A l \in LanguageId : ed.grammars[l] = NoGrammar
    <2>1. NoGrammar \in Grammar
      BY DEF NoGrammar, Grammar, Slots, None
    <2> QED BY <1>2, <1>3, <1>6, <2>1 DEF Editor
  <1>8. LoadedHaveConfigs(ed)
    BY <1>7 DEF LoadedHaveConfigs, NoGrammar
  <1>9. Sound(ed, OnTheirWay)
    BY <1>2, <1>3, <1>6, <1>7, <1>8 DEF Sound, OnTheirWay
  <1>10. Channels
    BY <1>2, <1>3 DEF Channels
  <1>11. Awaits
    <2>1. InOrder(queue)
      BY <1>2, <1>3 DEF InOrder
    <2>2. Awaited(ed, queue, batch, ToSet(done))
      BY <1>1, <1>5, <1>7 DEF Awaited
    <2> QED BY <1>2, <2>1, <2>2 DEF Awaits
  <1> QED BY <1>1, <1>2, <1>7, <1>9, <1>10, <1>11 DEF IInv

\* Every step keeps the invariant, and moves no layers back.
LEMMA NextKeeps == IInv /\ [Next]_vars => IInv' /\ Moved(ed, ed')
  <1> SUFFICES ASSUME IInv, [Next]_vars PROVE IInv' /\ Moved(ed, ed')
    OBVIOUS
  <1>1. CASE UNCHANGED vars
    <2>1. IInv'
      BY <1>1 DEF vars, IInv, Sound, OnTheirWay, Channels, Awaits
    <2> QED BY <1>1, <2>1, UnchangedMoves DEF vars, IInv, Sound
  <1>2. ASSUME NEW b \in BufferId, NEW size \in Sizes, NEW recorded \in BOOLEAN,
               Edit(b, size, recorded)
        PROVE  IInv' /\ Moved(ed, ed')
    BY <1>2, EditKeeps
  <1>3. ASSUME NEW b \in BufferId, NEW l \in LanguageId \cup {NoLanguage}, SetLanguage(b, l)
        PROVE  IInv' /\ Moved(ed, ed')
    BY <1>3, SetLanguageKeeps
  <1>4. ASSUME NEW b \in BufferId, EnsureSyntaxCurrent(b)
        PROVE  IInv' /\ Moved(ed, ed')
    BY <1>4, EnsureSyntaxCurrentKeeps
  <1>5. ASSUME NEW b \in BufferId, Hide(b) \/ Show(b)
        PROVE  IInv' /\ Moved(ed, ed')
    BY <1>5, PanesKeep
  <1>6. ASSUME NEW b \in BufferId, Close(b)
        PROVE  IInv' /\ Moved(ed, ed')
    BY <1>6, CloseKeeps
  <1>7. ASSUME NEW l \in LanguageId, NEW slot \in Slots, RegisterGrammar(l, slot)
        PROVE  IInv' /\ Moved(ed, ed')
    BY <1>7, RegisterGrammarKeeps
  <1>8. CASE InstallParseResults
    BY <1>8, InstallParseResultsKeeps
  <1>9. CASE ReparseStaleBuffers
    BY <1>9, ReparseStaleBuffersKeeps
  <1>10. CASE WorkerReceive
    BY <1>10, WorkerReceiveKeeps
  <1>11. CASE WorkerParse
    BY <1>11, WorkerParseKeeps
  <1>12. CASE WorkerDies
    BY <1>12, WorkerDiesKeeps
  <1> QED
    BY <1>1, <1>2, <1>3, <1>4, <1>5, <1>6, <1>7, <1>8, <1>9, <1>10, <1>11, <1>12 DEF Next

\* The invariant holds in every state.
THEOREM IInvAlways == Spec => []IInv
  <1>1. Init => IInv
    BY InitKeeps
  <1>2. IInv /\ [Next]_vars => IInv'
    BY NextKeeps
  <1> QED BY <1>1, <1>2, PTL DEF Spec

\* The state is well formed, and what a buffer waits for is on its way while the
\* worker runs: coalescing and discarded results leave no buffer waiting.
THEOREM TypeCorrect == Spec => []TypeOK
  <1>1. IInv => TypeOK
    <2> SUFFICES ASSUME IInv PROVE TypeOK
      OBVIOUS
    <2>1. /\ ed \in Editor /\ ed.posts = <<>> /\ (disconnected => ~alive)
          /\ shown \subseteq {b \in BufferId : ed.buffers[b].open}
          /\ \A b \in BufferId : Claims(ed.buffers[b], ed.snapshot)
      BY DEF IInv, Sound, Channels
    <2>2. ASSUME alive, NEW b \in BufferId, NEW s, s = ed.buffers[b].syntax,
                 s.in_flight # None
          PROVE  \E m \in Range(queue) \cup batch \cup Range(done) :
                   m.bid = b /\ m.config = s.config /\ m.generation = s.in_flight
      <3>1. WaitedIn(b, s, queue) \/ HeldIn(b, s, queue, batch, ToSet(done))
        BY <2>2 DEF IInv, Awaits, Awaited
      <3>2. ASSUME NEW i \in 1 .. Len(queue), queue[i].bid = b, Answers(queue[i], s)
            PROVE  \E m \in Range(queue) : m.bid = b /\ Answers(m, s)
        <4>1. queue \in Seq(Requests)
          BY DEF IInv, Channels
        <4> QED BY <3>2, <4>1 DEF Range
      <3>3. Range(done) = ToSet(done)
        BY DEF Range, ToSet
      <3>4. \E m \in Range(queue) \cup batch \cup Range(done) : m.bid = b /\ Answers(m, s)
        BY <3>1, <3>2, <3>3 DEF WaitedIn, HeldIn
      <3> QED BY <3>4 DEF Answers
    <2>3. ASSUME NEW b \in BufferId, NEW s, s = ed.buffers[b].syntax
          PROVE  /\ ed.buffers[b].size \in Sizes
                 /\ ed.buffers[b].language \in LanguageId \cup {NoLanguage}
                 /\ {s.parsed_gen, s.in_flight, s.committed.generation} \subseteq Generations
                 /\ s.committed.at \in {"none", "baked", "parsed"}
                 /\ s.min_snapshot <= ed.snapshot
                 /\ ~Attached(ed, b) => s = Detached
      <3>1. /\ ClaimsOf(s, ed.buffers[b].generation, ed.buffers[b].language, ed.snapshot)
            /\ ed.buffers[b].generation <= MaxGeneration
        BY <2>1, <2>3 DEF Claims
      <3>2. /\ s \in SyntaxState /\ s.committed \in Layers
            /\ ed.buffers[b] \in BufferState /\ ed.buffers[b].generation \in Nat
        BY <2>1, <2>3, EditorTypes
      <3>3. /\ s.parsed_gen \in Nat /\ s.in_flight \in Nat /\ s.committed.generation \in Nat
            /\ s.committed.at \in {"none", "baked", "parsed"}
        BY <3>2 DEF SyntaxState, Layers
      <3>4. {s.parsed_gen, s.in_flight, s.committed.generation} \subseteq Generations
        <4>1. MaxGeneration \in Nat
          BY ParseWorkerAssumption DEF ParseWorkerAssumption
        <4> QED BY <3>1, <3>2, <3>3, <4>1 DEF ClaimsOf, Generations
      <3>5. ed.buffers[b].size \in Sizes /\ ed.buffers[b].language \in LanguageId \cup {NoLanguage}
        BY <3>2 DEF BufferState
      <3> QED BY <2>3, <3>1, <3>3, <3>4, <3>5 DEF ClaimsOf, Attached
    <2>4. \A l \in LanguageId : ed.grammars[l].slot \in Slots
      BY <2>1, EditorTypes DEF Grammar
    <2> QED BY <2>1, <2>2, <2>3, <2>4 DEF TypeOK
  <1> QED BY <1>1, IInvAlways, PTL

\* The layers of a buffer describe the text they claim to, and no text it has not
\* had.
THEOREM LayersDescribeAlways == Spec => []LayersDescribeTheirText
  <1>1. IInv => LayersDescribeTheirText
    BY DEF IInv, Sound, Claims, ClaimsOf, LayersDescribeTheirText
  <1> QED BY <1>1, IInvAlways, PTL

\* The layers of a buffer go back neither to an older text nor, for one text, to
\* carried ones or to fewer grammars.
THEOREM LayersMoveForwardAlways == Spec => LayersMoveForward
  <1>1. IInv /\ [Next]_vars =>
          \A b \in BufferId : Ahead(ed.buffers[b].syntax, ed'.buffers[b].syntax)
    BY NextKeeps DEF Moved
  <1>2. ASSUME IInv, [Next]_vars
        PROVE  [\A b \in BufferId :
                  LET s == ed.buffers[b].syntax
                      t == ed'.buffers[b].syntax
                  IN (/\ s.config = t.config /\ s.committed.at # "none"
                      /\ t.committed.at # "none") =>
                       /\ t.committed.generation >= s.committed.generation
                       /\ t.committed.snapshot >= s.committed.snapshot
                       /\ (/\ t.committed.generation = s.committed.generation
                           /\ s.committed.at = "parsed") => t.committed.at = "parsed"
               ]_vars
    BY <1>1, <1>2 DEF Ahead, Forward, Newer
  <1> QED BY <1>2, IInvAlways, PTL DEF Spec, LayersMoveForward

=============================================================================
