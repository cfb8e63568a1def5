-------------------------- MODULE LspSessionProofs --------------------------
(***************************************************************************)
(* For any buffers, servers, requests and bounds: a server knows the text  *)
(* of the buffers attached to it, as of the changes not yet sent, and      *)
(* nothing else; a request reaches it after that text; and a callback runs *)
(* only about a text that has not moved on.                                *)
(***************************************************************************)
EXTENDS LspSession, CollectionsProofs, TLAPS

-----------------------------------------------------------------------------
(* What the editor is made of *)

Messages ==
  [kind : {"open", "whole", "ranged", "saved", "close"}, bid : BufferId, from : Nat, to : Nat]

Told == [BufferId -> Int]

Questions == [request : DeliveryId, knew : Int]

Clients ==
  [state : Live \union {"none"}, name : ServerName \union {"none"}, sync : Syncs,
   queued : Seq(Messages), initialize : BOOLEAN,
   pending : SUBSET DeliveryId, ended : SUBSET DeliveryId,
   told : Told, asked : SUBSET Questions]

Texts == Nat \ {0}

Edits == Texts \X Texts

Docs == [opened : Nat, attached : SUBSET ServerId, pending : Seq(Edits)]

Statuses == {"none", "waiting", "queued", "called", "dropped"}

Deliveries ==
  [status : Statuses, bid : BufferId, version : Nat,
   allow_stale : BOOLEAN, keyed : BOOLEAN, waiting : SUBSET ServerId]

EditorStates ==
  [text : [BufferId -> Texts], open : [BufferId -> BOOLEAN], named : [BufferId -> Nat],
   wanted : [BufferId -> SUBSET ServerName], docs : [BufferId -> Docs],
   clients : [ServerId -> Clients], next : 1 .. MaxServers + 1,
   stopped : SUBSET ServerName, deliveries : [DeliveryId -> Deliveries],
   calls : Seq(DeliveryId)]

Events ==
  [kind : {"eof"}] \union [kind : {"initialized"}, sync : Syncs \union {"refused"}]
    \union [kind : {"answer"}, request : DeliveryId]

-----------------------------------------------------------------------------
(* The invariant *)

\* A client queues only until its server runs, and before that it knows no
\* way to sync, sends no ranges and asks nothing.
SoundClient(c) ==
  /\ c.state \notin Live => c = NoClient
  /\ c.state = "starting" => c.sync = "full" /\ c.asked = {}
  /\ c.queued # <<>> => c.state = "starting"
  /\ \A i \in DOMAIN c.queued : c.queued[i].kind # "ranged"
  /\ c.ended = {}

\* The changes of a document not yet sent lead to its text, one by one.
Chained(doc, text) ==
  /\ \A i \in 2 .. Len(doc.pending) : doc.pending[i][1] = doc.pending[i - 1][2]
  /\ doc.pending # <<>> => doc.pending[Len(doc.pending)][2] = text
  /\ doc.attached = {} => doc = NoDoc

ExpectedOf(doc, text) ==
  IF doc.pending = <<>> THEN text ELSE doc.pending[1][1]

\* What a server knows of a document it is attached to, or not, if it runs.
Follows(c, b, attached, expected) ==
  c.state \in {"starting", "running"} =>
    LET known == Knows(c)[b] IN
    IF ~attached THEN known = Closed
    ELSE IF c.sync = "none" THEN known > Closed
    ELSE known = expected

\* A server runs while a buffer is attached to it, one per name; but for those
\* of `retired`, which a step has yet to stop.
Staffed(e, retired) ==
  /\ \A s \in ServerId : Referenced(e, s) => e.clients[s].state \in Live
  /\ \A s \in ServerId : e.clients[s].state \in Live => Referenced(e, s) \/ s \in retired
  /\ \A s, t \in ServerId :
       e.clients[s].state \in Live /\ e.clients[t].state \in Live
         /\ e.clients[s].name = e.clients[t].name => s = t
  /\ \A s \in ServerId : s >= e.next => e.clients[s].state = "none"

\* A delivery waits for servers that owe it an answer, and its callback is
\* queued when it waits for none.
Owed(e) ==
  /\ \A d \in DeliveryId :
       /\ e.deliveries[d].status = "waiting" <=> e.deliveries[d].waiting # {}
       /\ \A s \in e.deliveries[d].waiting :
            e.clients[s].state = "running" /\ d \in e.clients[s].pending
  /\ \A i \in DOMAIN e.calls : e.deliveries[e.calls[i]].status \notin {"none", "waiting"}
  /\ \E n \in 0 .. MaxRequests : \A d \in DeliveryId : e.deliveries[d].status # "none" <=> d <= n

\* A server that was asked knew the text it was asked about.
Informed(e) ==
  \A s \in ServerId : \A q \in e.clients[s].asked :
    /\ e.deliveries[q.request].status # "none"
    /\ e.clients[s].state = "running" /\ e.clients[s].sync # "none" =>
         q.knew = e.deliveries[q.request].version

Sound(e, retired) ==
  /\ e \in EditorStates
  /\ \A s \in ServerId : SoundClient(e.clients[s])
  /\ \A b \in BufferId : Chained(e.docs[b], e.text[b])
  /\ \A s \in ServerId, b \in BufferId :
       Follows(e.clients[s], b, s \in e.docs[b].attached, ExpectedOf(e.docs[b], e.text[b]))
  /\ Staffed(e, retired)
  /\ Owed(e)
  /\ Informed(e)

IInv ==
  /\ events \in [ServerId -> Seq(Events)]
  /\ Sound(ed, {})

-----------------------------------------------------------------------------
(* What a server knows *)

\* Reading a message changes what is known of one document.
LEMMA HeardOne ==
  ASSUME NEW told \in Told, NEW m \in Messages
  PROVE  /\ Heard(told, m) \in Told
         /\ \A b \in BufferId : b # m.bid => Heard(told, m)[b] = told[b]
  BY DEF Heard, Told, Messages, Confused

HeardStep == [p \in Told \X Messages |-> Heard(p[1], p[2])]

\* The step of Read.
LEMMA HeardStepIs ==
  /\ HeardStep \in [Told \X Messages -> Told]
  /\ \A told \in Told, m \in Messages : HeardStep[<<told, m>>] = Heard(told, m)
  BY HeardOne DEF HeardStep

\* What a server knows when it has read what is queued.
Read(told, queued) == FoldLeft(Heard, told, queued)

\* What it knows of, by what it has read.
ReadsOver(it, told, queued) ==
  it = [s \in SUBSET DOMAIN queued |->
         IF s = {} THEN told ELSE Heard(it[s \ {Max(s)}], queued[Max(s)])]

\* What it knows after each message.
Readings(h, told, queued) == LeftHistory(h, Told, told, queued, HeardStep)

\* A sequence has a greatest place in each set of its places.
LEMMA LastPlace ==
  ASSUME NEW X, NEW seq \in Seq(X), NEW s \in SUBSET DOMAIN seq, s # {}
  PROVE  Max(s) \in DOMAIN seq /\ seq[Max(s)] \in X /\ s \ {Max(s)} \in SUBSET DOMAIN seq
  <1>1. Len(seq) \in Nat /\ DOMAIN seq = 1 .. Len(seq)
    OBVIOUS
  <1>2. Max(s) \in s
    BY <1>1, MaxIsOne
  <1> QED BY <1>1, <1>2

\* The queue is read message by message.
LEMMA ReadHistory ==
  ASSUME NEW told \in Told, NEW queued \in Seq(Messages)
  PROVE  \E h : Readings(h, told, queued) /\ Read(told, queued) = h[Len(queued)]
  <1>1. PICK f : LeftFoldIn(f, Told, told, queued, HeardStep)
    BY HeardStepIs, LeftFoldExists
  <1>2. ReadsOver(f, told, queued)
    <2>1. ASSUME NEW s \in SUBSET DOMAIN queued, s # {}
          PROVE  f[s] = Heard(f[s \ {Max(s)}], queued[Max(s)])
      <3>1. f[s \ {Max(s)}] \in Told /\ queued[Max(s)] \in Messages
        BY <1>1, <2>1, LastPlace DEF LeftFoldIn
      <3>2. f[s] = HeardStep[<<f[s \ {Max(s)}], queued[Max(s)]>>]
        BY <1>1, <2>1, <3>1 DEF LeftFoldIn, LeftFold
      <3> QED BY <3>1, <3>2, HeardStepIs
    <2>2. f = [s \in SUBSET DOMAIN queued |-> f[s]] /\ f[{}] = told
      BY <1>1 DEF LeftFoldIn, LeftFold
    <2> QED BY <2>1, <2>2 DEF ReadsOver
  <1>3. PICK it : ReadsOver(it, told, queued) /\ Read(told, queued) = it[DOMAIN queued]
    <2>1. Read(told, queued) = (CHOOSE it : ReadsOver(it, told, queued))[DOMAIN queued]
      BY DEF Read, FoldLeft, MapThenFoldSet, ReadsOver
    <2> QED BY <1>2, <2>1
  <1>4. LeftFold(it, Told, told, queued, HeardStep)
    <2>1. ASSUME NEW s \in SUBSET DOMAIN queued, s # {}, it[s \ {Max(s)}] \in Told
          PROVE  it[s] = HeardStep[<<it[s \ {Max(s)}], queued[Max(s)]>>]
      <3>1. queued[Max(s)] \in Messages
        BY <2>1, LastPlace
      <3>2. it[s] = Heard(it[s \ {Max(s)}], queued[Max(s)])
        BY <1>3, <2>1 DEF ReadsOver
      <3> QED BY <2>1, <3>1, <3>2, HeardStepIs
    <2>2. it = [s \in SUBSET DOMAIN queued |-> it[s]] /\ it[{}] = told
      BY <1>3 DEF ReadsOver
    <2> QED BY <2>1, <2>2 DEF LeftFold
  <1>a. HeardStep \in [Told \X Messages -> Told]
    BY HeardStepIs
  <1>5. \E h : LeftHistoryTo(h, Told, told, queued, HeardStep, it)
    BY <1>4, <1>a, LeftFoldHistory
  <1> QED BY <1>3, <1>5 DEF Readings, LeftHistoryTo

\* With nothing queued, a server knows what it was told.
LEMMA ReadNothing ==
  ASSUME NEW told \in Told
  PROVE  Read(told, <<>>) = told
  <1>1. <<>> \in Seq(Messages) /\ Len(<<>>) = 0
    OBVIOUS
  <1>2. PICK h : Readings(h, told, <<>>) /\ Read(told, <<>>) = h[0]
    BY <1>1, ReadHistory
  <1> QED BY <1>2 DEF Readings, LeftHistory

\* The last of a queue is read after what comes before it.
LEMMA ReadLast ==
  ASSUME NEW told \in Told, NEW p \in Seq(Messages), NEW q \in Seq(Messages),
         NEW n \in Nat, Len(p) = n, Len(q) = n + 1, \A i \in 1 .. n : p[i] = q[i]
  PROVE  Read(told, p) \in Told /\ Read(told, q) = Heard(Read(told, p), q[n + 1])
  <1>1. PICK g : Readings(g, told, p) /\ Read(told, p) = g[n]
    BY ReadHistory
  <1>2. PICK m : m = n + 1 /\ m \in Nat /\ m - 1 = n /\ m \in 1 .. Len(q)
    OBVIOUS
  <1>3. PICK h : Readings(h, told, q) /\ Read(told, q) = h[m]
    BY <1>2, ReadHistory
  <1>4. g[n] = h[n]
    <2>1. LeftHistory(g, Told, told, p, HeardStep) /\ LeftHistory(h, Told, told, q, HeardStep)
      BY <1>1, <1>3 DEF Readings
    <2>2. Len(p) \in Nat /\ Len(q) \in Nat /\ n <= Len(p) /\ n <= Len(q)
      OBVIOUS
    <2> QED BY <2>1, <2>2, LeftHistoriesAgree
  <1>5. g[n] \in Told
    BY <1>1 DEF Readings, LeftHistory
  <1>6. h[m] = HeardStep[<<h[n], q[m]>>]
    BY <1>2, <1>3 DEF Readings, LeftHistory
  <1>7. q[m] \in Messages
    BY <1>2
  <1> QED BY <1>1, <1>2, <1>3, <1>4, <1>5, <1>6, <1>7, HeardStepIs

-----------------------------------------------------------------------------
(* What a client does with a message *)

\* The clients whose server is to know what it is sent.
Hears(c) == c.state \in {"starting", "running"}

\* A message changes what a client's server knows, and nothing else of it.
SameClient(c, f) ==
  /\ f.state = c.state /\ f.name = c.name /\ f.sync = c.sync
  /\ f.initialize = c.initialize /\ f.asked = c.asked
  /\ f.pending = c.pending /\ f.ended = c.ended

\* f is c, its server told something of document b.
Tells(c, f, b) ==
  /\ f \in Clients /\ SoundClient(f) /\ SameClient(c, f)
  /\ Hears(c) => \A x \in BufferId : x # b => Knows(f)[x] = Knows(c)[x]

\* What a client's server knows is well typed.
LEMMA KnowsTyped ==
  ASSUME NEW c \in Clients
  PROVE  /\ c.told \in Told /\ c.queued \in Seq(Messages)
         /\ Knows(c) = Read(c.told, c.queued) /\ Knows(c) \in Told
  <1>1. c.told \in Told /\ c.queued \in Seq(Messages)
    BY DEF Clients
  <1>2. PICK h : Readings(h, c.told, c.queued) /\ Read(c.told, c.queued) = h[Len(c.queued)]
    BY <1>1, ReadHistory
  <1>3. Len(c.queued) \in 0 .. Len(c.queued)
    BY <1>1
  <1>4. Read(c.told, c.queued) \in Told
    BY <1>2, <1>3 DEF Readings, LeftHistory
  <1>5. Knows(c) = Read(c.told, c.queued)
    BY DEF Knows, Read
  <1> QED BY <1>1, <1>4, <1>5

\* A server that is told nothing more knows what it did.
LEMMA TellsNothing ==
  ASSUME NEW c \in Clients, SoundClient(c), NEW b
  PROVE  Tells(c, c, b)
  BY DEF Tells, SameClient

\* What is told of a document adds up.
LEMMA TellsCompose ==
  ASSUME NEW c, NEW f, NEW g, NEW b, Tells(c, f, b), Tells(f, g, b)
  PROVE  Tells(c, g, b)
  BY DEF Tells, SameClient, Hears

\* The queue of a client, when a message is sent or queued.
LEMMA SendTyped ==
  ASSUME NEW c \in Clients, NEW m \in Messages
  PROVE  SendOrQueue(c, m) \in Clients
  <1>1. /\ c.queued \in Seq(Messages) /\ c.told \in Told /\ Append(c.queued, m) \in Seq(Messages)
        /\ Heard(c.told, m) \in Told
    BY HeardOne DEF Clients
  <1>2. c.queued # <<>> => [c.queued EXCEPT ![Len(c.queued)] = m] \in Seq(Messages)
    BY <1>1
  <1>3. Superseded(c.queued, m) # 0 => /\ c.queued # <<>>
                                       /\ Superseded(c.queued, m) = Len(c.queued)
    BY DEF Superseded
  <1>4. CASE c.state = "running"
    BY <1>1, <1>4 DEF SendOrQueue, Clients
  <1>5. CASE c.state = "starting" /\ Superseded(c.queued, m) = 0
    BY <1>1, <1>5 DEF SendOrQueue, Clients
  <1>6. CASE c.state = "starting" /\ Superseded(c.queued, m) # 0
    BY <1>1, <1>2, <1>3, <1>6 DEF SendOrQueue, Clients
  <1>7. CASE c.state # "starting" /\ c.state # "running"
    BY <1>7 DEF SendOrQueue
  <1> QED BY <1>4, <1>5, <1>6, <1>7

\* A whole text leaves a server that has the document with that text, whatever
\* whole text it replaces in the queue.
LEMMA WholeReplaces ==
  ASSUME NEW told \in Told, NEW l \in Messages, NEW m \in Messages,
         l.kind = "whole", m.kind = "whole", l.bid = m.bid, Heard(told, l)[m.bid] > Closed
  PROVE  Heard(told, m) = Heard(Heard(told, l), m)
  <1>1. told[m.bid] # Closed /\ told[m.bid] # Confused /\ m.bid \in BufferId
    BY DEF Heard, Closed, Confused, Told, Messages
  <1>2. Heard(told, m) = [told EXCEPT ![m.bid] = m.to]
    BY <1>1 DEF Heard
  <1>3. Heard(told, l) = [told EXCEPT ![m.bid] = l.to] /\ l.to # Closed /\ l.to # Confused
    <2>1. Heard(told, l) = [told EXCEPT ![m.bid] = l.to]
      BY <1>1 DEF Heard
    <2>2. l.to > Closed
      BY <1>1, <2>1 DEF Told
    <2>3. l.to \in Nat
      BY DEF Messages
    <2> QED BY <2>1, <2>2, <2>3 DEF Closed, Confused
  <1>4. Heard(Heard(told, l), m) = [Heard(told, l) EXCEPT ![m.bid] = m.to]
    BY <1>1, <1>3 DEF Heard, Told
  <1> QED BY <1>1, <1>2, <1>3, <1>4 DEF Told

\* A message is read after what was sent and queued before it; the text it
\* replaces in the queue makes no difference.
LEMMA SendReads ==
  ASSUME NEW c \in Clients, SoundClient(c), NEW m \in Messages, Hears(c),
         m.kind = "whole" => Knows(c)[m.bid] > Closed
  PROVE  Knows(SendOrQueue(c, m)) = Heard(Knows(c), m)
  <1>0. PICK f, q, n : f = SendOrQueue(c, m) /\ q = c.queued /\ n = Len(q)
    OBVIOUS
  <1>1. q \in Seq(Messages) /\ c.told \in Told /\ Knows(c) = Read(c.told, q)
    BY <1>0, KnowsTyped
  <1>2. Knows(f) = Read(f.told, f.queued)
    BY DEF Knows, Read
  <1>3. CASE c.state = "running"
    <2>1. q = <<>> /\ Heard(c.told, m) \in Told
      BY <1>0, <1>1, <1>3, HeardOne DEF SoundClient
    <2>2. f.told = Heard(c.told, m) /\ f.queued = <<>>
      BY <1>0, <1>3, <2>1 DEF SendOrQueue, Clients
    <2> QED BY <1>0, <1>1, <1>2, <2>1, <2>2, ReadNothing
  <1>4. CASE c.state = "starting" /\ Superseded(q, m) = 0
    <2>1. f.told = c.told /\ f.queued = Append(q, m)
      BY <1>0, <1>4 DEF SendOrQueue, Clients
    <2>a. Append(q, m) \in Seq(Messages)
      BY <1>1
    <2>2. PICK p \in Seq(Messages) : p = Append(q, m)
      BY <2>a
    <2>3. n \in Nat /\ Len(q) = n /\ Len(p) = n + 1 /\ p[n + 1] = m /\ \A i \in 1 .. n : q[i] = p[i]
      BY <1>0, <1>1, <2>2
    <2>4. Read(c.told, p) = Heard(Read(c.told, q), p[n + 1])
      BY <1>1, <2>3, ReadLast
    <2> QED BY <1>0, <1>1, <1>2, <2>1, <2>2, <2>3, <2>4
  <1>5. CASE c.state = "starting" /\ Superseded(q, m) # 0
    <2>1. /\ q # <<>> /\ Superseded(q, m) = n /\ m.kind = "whole"
          /\ q[n].bid = m.bid /\ q[n].kind \in {"whole", "ranged"}
      BY <1>0, <1>5 DEF Superseded, Last
    <2>2. n \in Nat /\ n # 0 /\ n \in DOMAIN q /\ q[n] \in Messages
      BY <1>0, <1>1, <2>1
    <2>3. q[n].kind = "whole"
      BY <1>0, <2>1, <2>2 DEF SoundClient
    <2>4. f.told = c.told /\ f.queued = [q EXCEPT ![n] = m]
      BY <1>0, <1>5, <2>1 DEF SendOrQueue, Clients
    <2>a. SubSeq(q, 1, n - 1) \in Seq(Messages)
      BY <1>0, <1>1, <2>2
    <2>5. PICK p \in Seq(Messages) : p = SubSeq(q, 1, n - 1)
      BY <2>a
    <2>6. PICK k \in Nat : k = n - 1 /\ n = k + 1
      BY <2>2
    <2>7. Len(p) = k /\ \A i \in 1 .. k : p[i] = q[i]
      BY <1>1, <2>5, <2>6
    <2>b. [q EXCEPT ![n] = m] \in Seq(Messages)
      BY <1>1, <2>2
    <2>8. PICK r \in Seq(Messages) : r = [q EXCEPT ![n] = m]
      BY <2>b
    <2>9. Len(r) = k + 1 /\ r[k + 1] = m /\ \A i \in 1 .. k : p[i] = r[i]
      BY <1>0, <1>1, <2>2, <2>6, <2>7, <2>8
    <2> DEFINE before == Read(c.told, p)
    <2>10. before \in Told /\ Read(c.told, q) = Heard(before, q[n])
           /\ Read(c.told, r) = Heard(before, m)
      <3>1. before \in Told /\ Read(c.told, q) = Heard(before, q[k + 1])
        BY <1>0, <1>1, <2>6, <2>7, ReadLast
      <3>2. Read(c.told, r) = Heard(before, r[k + 1])
        BY <1>1, <2>7, <2>9, ReadLast
      <3> QED BY <2>6, <2>9, <3>1, <3>2
    <2>11. Heard(before, q[n])[m.bid] > Closed
      BY <1>1, <2>1, <2>10
    <2>12. Heard(before, m) = Heard(Heard(before, q[n]), m)
      <3> HIDE DEF before
      <3> QED BY <2>1, <2>2, <2>3, <2>10, <2>11, WholeReplaces
    <2> HIDE DEF before
    <2> QED BY <1>0, <1>1, <1>2, <2>4, <2>8, <2>10, <2>12
  <1> QED BY <1>0, <1>3, <1>4, <1>5 DEF Hears

\* A client stays sound when it is given a message, and its server knows no
\* other document differently.
LEMMA SendKeeps ==
  ASSUME NEW c \in Clients, SoundClient(c), NEW m \in Messages,
         Hears(c) => (m.kind = "whole" => Knows(c)[m.bid] > Closed),
         c.state = "starting" => m.kind # "ranged"
  PROVE  /\ Tells(c, SendOrQueue(c, m), m.bid)
         /\ Hears(c) => Knows(SendOrQueue(c, m)) = Heard(Knows(c), m)
  <1>0. PICK f : f = SendOrQueue(c, m)
    OBVIOUS
  <1>1. f \in Clients /\ SameClient(c, f)
    <2>1. SameClient(c, f)
      BY <1>0 DEF SendOrQueue, SameClient, Clients
    <2> QED BY <1>0, <2>1, SendTyped
  <1>2. Hears(c) => Knows(f) = Heard(Knows(c), m)
    BY <1>0, SendReads
  <1>3. Hears(c) => \A x \in BufferId : x # m.bid => Knows(f)[x] = Knows(c)[x]
    BY <1>2, KnowsTyped, HeardOne
  <1>4. SoundClient(f)
    <2>1. c.state = f.state /\ f.sync = c.sync /\ f.asked = c.asked /\ f.ended = c.ended
      BY <1>1 DEF SameClient
    <2>2. c.state \notin Live => f = c
      BY <1>0 DEF SendOrQueue, Live
    <2>3. f.queued # <<>> => f.state = "starting"
      BY <1>0 DEF SendOrQueue, SoundClient, Clients
    <2>4. \A i \in DOMAIN f.queued : f.queued[i].kind # "ranged"
      <3>1. c.queued \in Seq(Messages)
        BY DEF Clients
      <3>2. CASE c.state = "starting" /\ Superseded(c.queued, m) = 0
        <4>1. f.queued = Append(c.queued, m)
          BY <1>0, <3>2 DEF SendOrQueue, Clients
        <4> QED BY <3>1, <3>2, <4>1 DEF SoundClient
      <3>3. CASE c.state = "starting" /\ Superseded(c.queued, m) # 0
        <4>1. f.queued = [c.queued EXCEPT ![Superseded(c.queued, m)] = m]
          BY <1>0, <3>3 DEF SendOrQueue, Clients
        <4> QED BY <3>1, <3>3, <4>1 DEF SoundClient
      <3>4. CASE c.state # "starting"
        <4>1. f.queued = c.queued
          BY <1>0, <3>4 DEF SendOrQueue, Clients
        <4> QED BY <4>1 DEF SoundClient
      <3> QED BY <3>2, <3>3, <3>4
    <2> QED BY <2>1, <2>2, <2>3, <2>4 DEF SoundClient
  <1> QED BY <1>0, <1>1, <1>2, <1>3, <1>4 DEF Tells

-----------------------------------------------------------------------------
(* A client is sent the changes of a document *)

RangedStep(b) == [p \in Clients \X Edits |-> SendOrQueue(p[1], Ranged(b, p[2]))]

\* The changes are messages, each of which leaves a client.
LEMMA RangedStepIs ==
  ASSUME NEW b \in BufferId
  PROVE  /\ RangedStep(b) \in [Clients \X Edits -> Clients]
         /\ \A c \in Clients, edit \in Edits :
              /\ Ranged(b, edit) \in Messages
              /\ RangedStep(b)[<<c, edit>>] = SendOrQueue(c, Ranged(b, edit))
  <1>1. \A edit \in Edits : Ranged(b, edit) \in Messages
    BY DEF Ranged, Messages, Edits, Texts
  <1> QED BY <1>1, SendTyped DEF RangedStep

\* A client, sent the changes of a document.
SendRanges(c, b, pending) ==
  FoldLeft(LAMBDA acc, edit : SendOrQueue(acc, Ranged(b, edit)), c, pending)

\* The client, by the changes it is sent.
RangesOver(it, c, b, pending) ==
  it = [s \in SUBSET DOMAIN pending |->
         IF s = {} THEN c ELSE SendOrQueue(it[s \ {Max(s)}], Ranged(b, pending[Max(s)]))]

\* The client after each change.
Ranges(h, c, b, pending) == LeftHistory(h, Clients, c, pending, RangedStep(b))

\* The changes are sent one by one.
LEMMA RangesHistory ==
  ASSUME NEW c \in Clients, NEW b \in BufferId, NEW pending \in Seq(Edits)
  PROVE  \E h : Ranges(h, c, b, pending) /\ SendRanges(c, b, pending) = h[Len(pending)]
  <1>1. RangedStep(b) \in [Clients \X Edits -> Clients]
    BY RangedStepIs
  <1>2. PICK f : LeftFoldIn(f, Clients, c, pending, RangedStep(b))
    BY <1>1, LeftFoldExists
  <1>3. RangesOver(f, c, b, pending)
    <2>1. ASSUME NEW s \in SUBSET DOMAIN pending, s # {}
          PROVE  f[s] = SendOrQueue(f[s \ {Max(s)}], Ranged(b, pending[Max(s)]))
      <3>1. f[s \ {Max(s)}] \in Clients /\ pending[Max(s)] \in Edits
        BY <1>2, <2>1, LastPlace DEF LeftFoldIn
      <3>2. f[s] = RangedStep(b)[<<f[s \ {Max(s)}], pending[Max(s)]>>]
        BY <1>2, <2>1, <3>1 DEF LeftFoldIn, LeftFold
      <3> QED BY <3>1, <3>2, RangedStepIs
    <2>2. f = [s \in SUBSET DOMAIN pending |-> f[s]] /\ f[{}] = c
      BY <1>2 DEF LeftFoldIn, LeftFold
    <2> QED BY <2>1, <2>2 DEF RangesOver
  <1>4. PICK it : RangesOver(it, c, b, pending)
                  /\ SendRanges(c, b, pending) = it[DOMAIN pending]
    <2>1. SendRanges(c, b, pending) = (CHOOSE it : RangesOver(it, c, b, pending))[DOMAIN pending]
      BY DEF SendRanges, FoldLeft, MapThenFoldSet, RangesOver
    <2> QED BY <1>3, <2>1
  <1>5. LeftFold(it, Clients, c, pending, RangedStep(b))
    <2>1. ASSUME NEW s \in SUBSET DOMAIN pending, s # {}, it[s \ {Max(s)}] \in Clients
          PROVE  it[s] = RangedStep(b)[<<it[s \ {Max(s)}], pending[Max(s)]>>]
      <3>1. pending[Max(s)] \in Edits
        BY <2>1, LastPlace
      <3>2. it[s] = SendOrQueue(it[s \ {Max(s)}], Ranged(b, pending[Max(s)]))
        BY <1>4, <2>1 DEF RangesOver
      <3> QED BY <2>1, <3>1, <3>2, RangedStepIs
    <2>2. it = [s \in SUBSET DOMAIN pending |-> it[s]] /\ it[{}] = c
      BY <1>4 DEF RangesOver
    <2> QED BY <2>1, <2>2 DEF LeftFold
  <1>6. \E h : LeftHistoryTo(h, Clients, c, pending, RangedStep(b), it)
    BY <1>1, <1>5, LeftFoldHistory
  <1> QED BY <1>4, <1>6 DEF Ranges, LeftHistoryTo

\* The changes of a document lead from what is expected of it to its text.
Leads(pending, text) ==
  /\ pending \in Seq(Edits) /\ pending # <<>>
  /\ \A i \in 2 .. Len(pending) : pending[i][1] = pending[i - 1][2]
  /\ pending[Len(pending)][2] = text

\* A server that has the text before the changes has the text after them.
LEMMA RangesKeep ==
  ASSUME NEW c \in Clients, SoundClient(c), NEW b \in BufferId,
         NEW pending, NEW text, Leads(pending, text),
         c.state # "starting", Hears(c) => Knows(c)[b] = pending[1][1]
  PROVE  /\ Tells(c, SendRanges(c, b, pending), b)
         /\ Hears(c) => Knows(SendRanges(c, b, pending))[b] = text
  <1> DEFINE n == Len(pending)
             reached(k) == IF k = 0 THEN pending[1][1] ELSE pending[k][2]
             W == [k \in 0 .. n |->
                     {f \in Clients : Tells(c, f, b) /\ (Hears(c) => Knows(f)[b] = reached(k))}]
  <1>0. n \in Nat /\ n # 0 /\ pending \in Seq(Edits) /\ \A k \in 1 .. n : pending[k] \in Edits
    BY DEF Leads
  <1>1. PICK h : Ranges(h, c, b, pending) /\ SendRanges(c, b, pending) = h[n]
    BY <1>0, RangesHistory
  <1>2. c \in W[0]
    BY <1>0, TellsNothing
  <1>3. ASSUME NEW k \in 1 .. n, NEW f \in Clients, f \in W[k - 1]
        PROVE  RangedStep(b)[<<f, pending[k]>>] \in W[k]
    <2>0. k - 1 \in 0 .. n /\ k \in 0 .. n /\ pending[k] \in Edits
      BY <1>0
    <2>1. Tells(c, f, b) /\ (Hears(c) => Knows(f)[b] = reached(k - 1))
      BY <1>3, <2>0
    <2>2. reached(k - 1) = pending[k][1] /\ reached(k) = pending[k][2]
      <3>1. CASE k = 1
        BY <3>1
      <3>2. CASE k # 1
        <4>1. k \in 2 .. n
          BY <1>0, <3>2
        <4> QED BY <4>1, <1>0 DEF Leads
      <3> QED BY <3>1, <3>2
    <2>a. Ranged(b, pending[k]) \in Messages
      BY <2>0, RangedStepIs
    <2>b. /\ pending[k][1] \in Texts /\ pending[k][2] \in Texts
          /\ pending[k][1] # Closed /\ pending[k][1] # Confused
      BY <2>0 DEF Edits, Texts, Closed, Confused
    <2>c. /\ Ranged(b, pending[k]).kind = "ranged" /\ Ranged(b, pending[k]).bid = b
          /\ Ranged(b, pending[k]).from = pending[k][1] /\ Ranged(b, pending[k]).to = pending[k][2]
      BY DEF Ranged
    <2>3. PICK m : m = Ranged(b, pending[k]) /\ m \in Messages /\ m.kind = "ranged" /\ m.bid = b
                   /\ m.from = pending[k][1] /\ m.to = pending[k][2] /\ m.from # Closed /\ m.from # Confused
      BY <2>a, <2>b, <2>c
    <2>4. RangedStep(b)[<<f, pending[k]>>] = SendOrQueue(f, m)
      BY <2>0, <2>3, RangedStepIs
    <2>5. SoundClient(f) /\ (Hears(c) <=> Hears(f)) /\ f.state # "starting"
      BY <2>1 DEF Tells, SameClient, Hears
    <2>6. Tells(f, SendOrQueue(f, m), b)
          /\ (Hears(f) => Knows(SendOrQueue(f, m)) = Heard(Knows(f), m))
      BY <2>3, <2>5, SendKeeps
    <2>7. Tells(c, SendOrQueue(f, m), b) /\ SendOrQueue(f, m) \in Clients
      BY <2>1, <2>6, TellsCompose, SendTyped, <2>3
    <2>8. Hears(c) => Heard(Knows(f), m)[b] = pending[k][2]
      <3>1. Knows(f) \in Told
        BY KnowsTyped
      <3> HIDE DEF reached
      <3> QED BY <2>1, <2>2, <2>3, <3>1 DEF Heard, Told
    <2>9. Hears(c) => Knows(SendOrQueue(f, m))[b] = reached(k)
      <3> HIDE DEF reached
      <3> QED BY <2>2, <2>5, <2>6, <2>8
    <2> HIDE DEF reached
    <2> QED BY <2>0, <2>4, <2>7, <2>9
  <1>4. h[n] \in W[n]
    <2>1. LeftHistory(h, Clients, c, pending, RangedStep(b))
      BY <1>1 DEF Ranges
    <2> HIDE DEF W
    <2> QED BY <1>0, <1>2, <1>3, <2>1, LeftHistoryReaches
  <1>5. reached(n) = text /\ n \in 0 .. n
    BY <1>0 DEF Leads
  <1> HIDE DEF reached
  <1> QED BY <1>1, <1>4, <1>5


\* Flushing brings a server of a document up to its text.
LEMMA FlushToKeeps ==
  ASSUME NEW c \in Clients, SoundClient(c), NEW b \in BufferId,
         NEW pending, NEW text \in Texts, Leads(pending, text),
         Follows(c, b, TRUE, pending[1][1])
  PROVE  /\ Tells(c, FlushTo(c, b, text, pending), b)
         /\ Follows(FlushTo(c, b, text, pending), b, TRUE, text)
  <1>1. CASE c.sync = "none"
    <2>1. FlushTo(c, b, text, pending) = c
      BY <1>1 DEF FlushTo
    <2>2. Follows(c, b, TRUE, text)
      BY <1>1 DEF Follows
    <2> QED BY <2>1, <2>2, TellsNothing
  <1>2. CASE c.sync = "full"
    <2>a. /\ Whole(b, text) \in Messages /\ Whole(b, text).kind = "whole"
          /\ Whole(b, text).bid = b /\ Whole(b, text).to = text
      BY DEF Whole, Messages, Texts
    <2>1. PICK m : m = Whole(b, text) /\ m \in Messages /\ m.kind = "whole" /\ m.bid = b
                   /\ m.to = text
      BY <2>a
    <2>2. PICK f : f = SendOrQueue(c, m) /\ FlushTo(c, b, text, pending) = f
      BY <1>2, <2>1 DEF FlushTo
    <2>3. pending[1][1] \in Texts
      BY DEF Leads, Edits
    <2>4. Hears(c) => Knows(c)[b] = pending[1][1]
      BY <1>2 DEF Hears, Follows
    <2>5. Tells(c, f, b) /\ (Hears(c) => Knows(f) = Heard(Knows(c), m))
      <3>1. Hears(c) => (m.kind = "whole" => Knows(c)[m.bid] > Closed)
        BY <2>1, <2>3, <2>4 DEF Closed, Texts
      <3>2. c.state = "starting" => m.kind # "ranged"
        BY <2>1
      <3> QED BY <2>1, <2>2, <3>1, <3>2, SendKeeps
    <2>6. Hears(c) => Knows(f)[b] = text
      <3>1. Knows(c) \in Told
        BY KnowsTyped
      <3> QED BY <2>1, <2>3, <2>4, <2>5, <3>1 DEF Heard, Told, Texts, Closed, Confused
    <2>7. Follows(f, b, TRUE, text)
      BY <1>2, <2>5, <2>6 DEF Follows, Hears, Tells, SameClient
    <2> QED BY <2>2, <2>5, <2>7
  <1>3. CASE c.sync = "incremental"
    <2>1. PICK f : f = SendRanges(c, b, pending) /\ FlushTo(c, b, text, pending) = f
      BY <1>3 DEF FlushTo, SendRanges
    <2>2. c.state # "starting" /\ (Hears(c) => Knows(c)[b] = pending[1][1])
      BY <1>3 DEF SoundClient, Follows, Hears
    <2>3. Tells(c, f, b) /\ (Hears(c) => Knows(f)[b] = text)
      BY <2>1, <2>2, RangesKeep
    <2>4. Follows(f, b, TRUE, text)
      BY <1>3, <2>3 DEF Follows, Hears, Tells, SameClient
    <2> QED BY <2>1, <2>3, <2>4
  <1>4. c.sync \in {"none", "full", "incremental"}
    BY DEF Clients, Syncs
  <1> QED BY <1>1, <1>2, <1>3, <1>4

-----------------------------------------------------------------------------
(* What the editor does to a document *)

\* The editor goes on with the same texts, plans and deliveries.
Writes(e, f) ==
  /\ f.text = e.text /\ f.open = e.open /\ f.named = e.named /\ f.wanted = e.wanted
  /\ f.stopped = e.stopped /\ f.deliveries = e.deliveries /\ f.calls = e.calls
  /\ f.next = e.next

\* Servers are told of document b, which changes hands.
Retells(e, f, b) ==
  /\ Writes(e, f)
  /\ \A s \in ServerId : Tells(e.clients[s], f.clients[s], b)
  /\ \A x \in BufferId : x # b => f.docs[x] = e.docs[x]

\* What is told adds up.
LEMMA RetellsCompose ==
  ASSUME NEW e, NEW f, NEW g, NEW b, Retells(e, f, b), Retells(f, g, b)
  PROVE  Retells(e, g, b)
  <1>1. Writes(e, g)
    BY DEF Retells, Writes
  <1>2. \A s \in ServerId : Tells(e.clients[s], g.clients[s], b)
    BY TellsCompose DEF Retells
  <1> QED BY <1>1, <1>2 DEF Retells

\* What holds of document b and of its servers after they are told.
FollowedIn(f, b) ==
  /\ Chained(f.docs[b], f.text[b])
  /\ \A s \in ServerId :
       Follows(f.clients[s], b, s \in f.docs[b].attached, ExpectedOf(f.docs[b], f.text[b]))

\* The editor stays sound when servers are told of a document, if they follow
\* it and the attachments are those of running servers.
LEMMA RetellsKeep ==
  ASSUME NEW e, NEW f, NEW R, NEW P, NEW b \in BufferId, Sound(e, R), Retells(e, f, b),
         f \in EditorStates, FollowedIn(f, b), Staffed(f, P)
  PROVE  Sound(f, P)
  <1>1. \A s \in ServerId : SoundClient(f.clients[s])
    BY DEF Retells, Tells
  <1>2. \A x \in BufferId : Chained(f.docs[x], f.text[x])
    BY DEF Retells, Writes, FollowedIn, Sound
  <1>3. ASSUME NEW s \in ServerId, NEW x \in BufferId
        PROVE  Follows(f.clients[s], x, s \in f.docs[x].attached, ExpectedOf(f.docs[x], f.text[x]))
    <2>1. CASE x = b
      BY <2>1 DEF FollowedIn
    <2>2. CASE x # b
      <3>1. f.docs[x] = e.docs[x] /\ f.text[x] = e.text[x]
        BY <2>2 DEF Retells, Writes
      <3>2. Follows(e.clients[s], x, s \in e.docs[x].attached, ExpectedOf(e.docs[x], e.text[x]))
        BY DEF Sound
      <3>3. Tells(e.clients[s], f.clients[s], b)
        BY DEF Retells
      <3>4. /\ f.clients[s].state = e.clients[s].state /\ f.clients[s].sync = e.clients[s].sync
            /\ Hears(e.clients[s]) => Knows(f.clients[s])[x] = Knows(e.clients[s])[x]
        BY <2>2, <3>3 DEF Tells, SameClient
      <3> QED BY <3>1, <3>2, <3>4 DEF Follows, Hears
    <2> QED BY <2>1, <2>2
  <1>4. \A s \in ServerId :
          /\ f.clients[s].state = e.clients[s].state /\ f.clients[s].sync = e.clients[s].sync
          /\ f.clients[s].pending = e.clients[s].pending
          /\ f.clients[s].asked = e.clients[s].asked
    BY DEF Retells, Tells, SameClient
  <1>5. f.deliveries = e.deliveries /\ f.calls = e.calls
    BY DEF Retells, Writes
  <1>a. \A d \in DeliveryId : e.deliveries[d].waiting \in SUBSET ServerId
    BY DEF Sound, EditorStates, Deliveries
  <1>6. Owed(f)
    <2>1. Owed(e)
      BY DEF Sound
    <2> QED BY <1>4, <1>5, <1>a, <2>1 DEF Owed
  <1>7. Informed(f)
    <2>1. Informed(e)
      BY DEF Sound
    <2> QED BY <1>4, <1>5, <2>1 DEF Informed
  <1> QED BY <1>1, <1>2, <1>3, <1>6, <1>7 DEF Sound

\* The attachments of a document are to running servers if they were.
LEMMA StaffedSame ==
  ASSUME NEW e, NEW f, NEW R, NEW b \in BufferId, Staffed(e, R), Retells(e, f, b),
         f.docs[b].attached = e.docs[b].attached
  PROVE  Staffed(f, R)
  <1>1. \A s \in ServerId : /\ f.clients[s].state = e.clients[s].state
                            /\ f.clients[s].name = e.clients[s].name
    BY DEF Retells, Tells, SameClient
  <1>2. \A s \in ServerId : Referenced(f, s) <=> Referenced(e, s)
    BY DEF Retells, Referenced
  <1>3. f.next = e.next
    BY DEF Retells, Writes
  <1> QED BY <1>1, <1>2, <1>3 DEF Staffed

\* What lsp_flush_buffer leaves.
Flushed(e, f, b) ==
  /\ Retells(e, f, b)
  /\ f.docs[b].pending = <<>>
  /\ f.docs[b].attached = e.docs[b].attached /\ f.docs[b].opened = e.docs[b].opened

\* The parts of an editor.
LEMMA EditorParts ==
  ASSUME NEW e \in EditorStates
  PROVE  /\ \A s \in ServerId : e.clients[s] \in Clients
         /\ \A b \in BufferId :
              /\ e.docs[b] \in Docs /\ e.docs[b].attached \in SUBSET ServerId
              /\ e.docs[b].pending \in Seq(Edits) /\ e.text[b] \in Texts
         /\ \A d \in DeliveryId : e.deliveries[d] \in Deliveries
         /\ e.calls \in Seq(DeliveryId)
  BY DEF EditorStates, Docs

\* lsp_flush_buffer of a document with changes to send.
LEMMA FlushIs ==
  ASSUME NEW e \in EditorStates, NEW b \in BufferId, e.docs[b].pending # <<>>,
         NEW f, f = Flush(e, b)
  PROVE  /\ Writes(e, f)
         /\ f.docs = [e.docs EXCEPT ![b] = [@ EXCEPT !.pending = <<>>]]
         /\ f.clients = [s \in ServerId |->
              IF s \in e.docs[b].attached
                THEN FlushTo(e.clients[s], b, e.text[b], e.docs[b].pending)
                ELSE e.clients[s]]
         /\ (f.docs \in [BufferId -> Docs] /\ f.clients \in [ServerId -> Clients]) =>
              f \in EditorStates
  BY DEF Flush, EditorStates, Writes

\* lsp_flush_buffer brings the servers of a document up to its text.
LEMMA FlushKeeps ==
  ASSUME NEW e, NEW R, Sound(e, R), NEW b \in BufferId
  PROVE  Sound(Flush(e, b), R) /\ Flushed(e, Flush(e, b), b)
  <1>0. e \in EditorStates /\ \A s \in ServerId : SoundClient(e.clients[s])
    BY DEF Sound
  <1>a. \A s \in ServerId : e.clients[s] \in Clients
    BY <1>0, EditorParts
  <1>1. CASE e.docs[b].pending = <<>>
    <2>1. Flush(e, b) = e
      BY <1>1 DEF Flush
    <2>2. Retells(e, e, b)
      BY <1>0, <1>a, TellsNothing DEF Retells, Writes
    <2> QED BY <1>1, <2>1, <2>2 DEF Flushed
  <1>2. CASE e.docs[b].pending # <<>>
    <2>0. PICK f, doc, text : f = Flush(e, b) /\ doc = e.docs[b] /\ text = e.text[b]
      OBVIOUS
    <2>1. doc \in Docs /\ doc.attached \in SUBSET ServerId /\ doc.pending \in Seq(Edits)
          /\ text \in Texts /\ doc.pending # <<>>
      BY <1>0, <1>2, <2>0, EditorParts
    <2>2. Leads(doc.pending, text) /\ doc.attached # {} /\ ExpectedOf(doc, text) = doc.pending[1][1]
      <3>1. Chained(doc, text)
        BY <2>0 DEF Sound
      <3>2. doc.attached # {}
        BY <2>1, <3>1 DEF Chained, NoDoc
      <3> QED BY <2>1, <3>1, <3>2 DEF Leads, Chained, ExpectedOf
    <2>3. /\ Writes(e, f)
          /\ f.docs = [e.docs EXCEPT ![b] = [@ EXCEPT !.pending = <<>>]]
          /\ f.clients = [s \in ServerId |->
               IF s \in doc.attached THEN FlushTo(e.clients[s], b, text, doc.pending)
                                     ELSE e.clients[s]]
          /\ (f.docs \in [BufferId -> Docs] /\ f.clients \in [ServerId -> Clients]) =>
               f \in EditorStates
      BY <1>0, <1>2, <2>0, FlushIs
    <2>4. ASSUME NEW s \in ServerId
          PROVE  /\ Tells(e.clients[s], f.clients[s], b)
                 /\ Follows(f.clients[s], b, s \in doc.attached, text)
      <3>1. Follows(e.clients[s], b, s \in doc.attached, doc.pending[1][1])
        BY <2>0, <2>2 DEF Sound
      <3>2. CASE s \in doc.attached
        <4>1. f.clients[s] = FlushTo(e.clients[s], b, text, doc.pending)
          BY <2>3, <3>2
        <4>2. Follows(e.clients[s], b, TRUE, doc.pending[1][1])
          BY <3>1, <3>2
        <4>3. Follows(f.clients[s], b, TRUE, text) /\ Tells(e.clients[s], f.clients[s], b)
          BY <1>0, <1>a, <2>1, <2>2, <4>1, <4>2, FlushToKeeps
        <4> QED BY <3>2, <4>3
      <3>3. CASE s \notin doc.attached
        <4>1. f.clients[s] = e.clients[s]
          BY <2>3, <3>3
        <4>2. Follows(f.clients[s], b, s \in doc.attached, text)
          BY <3>1, <3>3, <4>1 DEF Follows
        <4>3. Tells(e.clients[s], f.clients[s], b)
          BY <1>0, <1>a, <4>1, TellsNothing
        <4> QED BY <4>2, <4>3
      <3> QED BY <3>2, <3>3
    <2>5. f.docs[b] = [doc EXCEPT !.pending = <<>>] /\ \A x \in BufferId : x # b => f.docs[x] = e.docs[x]
      BY <1>0, <2>0, <2>3 DEF EditorStates
    <2>6. f.docs[b] \in Docs /\ f.docs[b].pending = <<>> /\ f.docs[b].attached = doc.attached
          /\ f.docs[b].opened = doc.opened
      <3>1. <<>> \in Seq(Edits)
        OBVIOUS
      <3> QED BY <2>1, <2>5, <3>1 DEF Docs
    <2>7. f.docs \in [BufferId -> Docs]
      BY <1>0, <2>3, <2>5, <2>6 DEF EditorStates
    <2>8. f.clients \in [ServerId -> Clients]
      <3>1. \A s \in ServerId : f.clients[s] \in Clients
        BY <2>4 DEF Tells
      <3> QED BY <2>3, <3>1
    <2>9. f \in EditorStates
      BY <2>3, <2>7, <2>8
    <2>10. Flushed(e, f, b)
      BY <2>0, <2>3, <2>4, <2>5, <2>6 DEF Flushed, Retells
    <2>11. Chained(f.docs[b], f.text[b])
      <3>1. Len(<<>>) = 0 /\ 2 .. 0 = {}
        OBVIOUS
      <3> QED BY <2>2, <2>6, <3>1 DEF Chained
    <2>12. FollowedIn(f, b)
      <3>1. ExpectedOf(f.docs[b], f.text[b]) = text
        BY <2>0, <2>3, <2>6 DEF ExpectedOf, Writes
      <3> QED BY <2>4, <2>6, <2>11, <3>1 DEF FollowedIn
    <2>13. Staffed(f, R)
      <3>1. Staffed(e, R)
        BY DEF Sound
      <3> QED BY <2>0, <2>6, <2>10, <3>1, StaffedSame DEF Flushed
    <2>14. Sound(f, R)
      BY <2>9, <2>10, <2>12, <2>13, RetellsKeep DEF Flushed
    <2> QED BY <2>0, <2>10, <2>14
  <1> QED BY <1>1, <1>2

-----------------------------------------------------------------------------
(* Attaching, detaching and saving *)

\* More servers may be left to stop.
LEMMA SoundMore ==
  ASSUME NEW e, NEW R, NEW P, Sound(e, R), R \subseteq P
  PROVE  Sound(e, P)
  <1>1. Staffed(e, P)
    BY DEF Sound, Staffed
  <1> QED BY <1>1 DEF Sound

\* What it is to send m, of document b, to some of its servers.
SentTo(clients, sent, sids, m, b) ==
  /\ sent \in [ServerId -> Clients]
  /\ \A s \in ServerId :
       /\ Tells(clients[s], sent[s], b)
       /\ s \notin sids => sent[s] = clients[s]
       /\ s \in sids /\ Hears(clients[s]) => Knows(sent[s])[b] = Heard(Knows(clients[s]), m)[b]

\* A message that says something of document b to some of its servers.
LEMMA SendToKeeps ==
  ASSUME NEW e, NEW R, Sound(e, R), NEW b \in BufferId, NEW sids \in SUBSET ServerId,
         NEW m \in Messages, m.bid = b, m.kind \notin {"whole", "ranged"},
         NEW clients, clients = SendTo(e.clients, sids, m)
  PROVE  SentTo(e.clients, clients, sids, m, b)
  <1>0. \A s \in ServerId : e.clients[s] \in Clients /\ SoundClient(e.clients[s])
    BY EditorParts DEF Sound
  <1>1. ASSUME NEW s \in ServerId
        PROVE  /\ Tells(e.clients[s], clients[s], b)
               /\ s \notin sids => clients[s] = e.clients[s]
               /\ s \in sids /\ Hears(e.clients[s]) =>
                    Knows(clients[s])[b] = Heard(Knows(e.clients[s]), m)[b]
    <2>1. CASE s \in sids
      <3>1. clients[s] = SendOrQueue(e.clients[s], m)
        BY <2>1 DEF SendTo
      <3>2. /\ Tells(e.clients[s], SendOrQueue(e.clients[s], m), m.bid)
            /\ Hears(e.clients[s]) =>
                 Knows(SendOrQueue(e.clients[s], m)) = Heard(Knows(e.clients[s]), m)
        <4>1. Hears(e.clients[s]) => (m.kind = "whole" => Knows(e.clients[s])[m.bid] > Closed)
          OBVIOUS
        <4>2. e.clients[s].state = "starting" => m.kind # "ranged"
          OBVIOUS
        <4> QED BY <1>0, <4>1, <4>2, SendKeeps
      <3> QED BY <2>1, <3>1, <3>2
    <2>2. CASE s \notin sids
      <3>1. clients[s] = e.clients[s]
        BY <2>2 DEF SendTo
      <3> QED BY <1>0, <2>2, <3>1, TellsNothing
    <2> QED BY <2>1, <2>2
  <1>2. clients \in [ServerId -> Clients]
    <2>1. \A s \in ServerId : clients[s] \in Clients
      BY <1>1 DEF Tells
    <2>2. clients = [s \in ServerId |-> clients[s]]
      BY DEF SendTo
    <2> QED BY <2>1, <2>2
  <1> QED BY <1>1, <1>2 DEF SentTo

\* What a server knows of a document, changes sent: no less than the document.
LEMMA KnowsOpen ==
  ASSUME NEW c \in Clients, NEW b \in BufferId, NEW text \in Texts,
         Follows(c, b, TRUE, text), Hears(c)
  PROVE  /\ Knows(c) \in Told
         /\ Knows(c)[b] # Closed /\ Knows(c)[b] # Confused
  <1>1. Knows(c) \in Told
    BY KnowsTyped
  <1>2. Knows(c)[b] > Closed
    BY <1>1 DEF Follows, Hears, Texts, Closed, Told
  <1> QED BY <1>1, <1>2 DEF Told, Closed, Confused

\* The editor lsp_attach leaves.
Attaches(e, g, f, b, sid) ==
  /\ Writes(g, f)
  /\ f.docs = [g.docs EXCEPT ![b] = [g.docs[b] EXCEPT
       !.attached = g.docs[b].attached \union {sid}, !.opened = e.named[b]]]
  /\ f.clients = SendTo(g.clients, {sid}, Open(b, e.text[b]))
  /\ (f.docs \in [BufferId -> Docs] /\ f.clients \in [ServerId -> Clients]) =>
       f \in EditorStates

\* It does.
LEMMA AttachIs ==
  ASSUME NEW e, NEW b \in BufferId, NEW sid \in ServerId, NEW g \in EditorStates, g = Flush(e, b),
         NEW f, f = Attach(e, b, sid)
  PROVE  Attaches(e, g, f, b, sid)
  BY DEF Attach, EditorStates, Writes, Docs, Attaches

\* lsp_attach opens the document on the server.
LEMMA AttachKeeps ==
  ASSUME NEW e, NEW R, Sound(e, R), NEW b \in BufferId, NEW sid \in ServerId,
         sid \notin e.docs[b].attached, e.clients[sid].state \in Live
  PROVE  /\ Sound(Attach(e, b, sid), R \ {sid}) /\ Retells(e, Attach(e, b, sid), b)
         /\ Attach(e, b, sid).docs[b].attached = e.docs[b].attached \union {sid}
  <1>0. PICK f, g, text : f = Attach(e, b, sid) /\ g = Flush(e, b) /\ text = e.text[b]
    OBVIOUS
  <1>1. Sound(g, R) /\ Flushed(e, g, b)
    BY <1>0, FlushKeeps
  <1>2. e \in EditorStates /\ g \in EditorStates /\ text \in Texts /\ e.named[b] \in Nat
    BY <1>0, <1>1 DEF Sound, EditorStates
  <1>3. /\ Writes(g, f)
        /\ f.docs = [g.docs EXCEPT ![b] = [g.docs[b] EXCEPT
             !.attached = g.docs[b].attached \union {sid}, !.opened = e.named[b]]]
        /\ f.clients = SendTo(g.clients, {sid}, Open(b, text))
        /\ (f.docs \in [BufferId -> Docs] /\ f.clients \in [ServerId -> Clients]) =>
             f \in EditorStates
    <2>1. Attaches(e, g, f, b, sid)
      BY <1>0, <1>2, AttachIs
    <2> QED BY <1>0, <2>1 DEF Attaches
  <1>4. PICK doc : doc = g.docs[b] /\ doc \in Docs /\ doc.pending = <<>>
                   /\ doc.attached = e.docs[b].attached /\ doc.attached \in SUBSET ServerId
    BY <1>1, <1>2, EditorParts DEF Flushed
  <1>5. /\ f.docs[b] \in Docs /\ f.docs[b].pending = <<>>
        /\ f.docs[b].attached = doc.attached \union {sid}
    <2>1. PICK attached \in SUBSET ServerId : attached = doc.attached \union {sid}
      BY <1>4
    <2>2. f.docs[b] = [doc EXCEPT !.attached = attached, !.opened = e.named[b]]
      BY <1>2, <1>3, <1>4, <2>1 DEF EditorStates
    <2>3. doc = [opened |-> doc.opened, attached |-> doc.attached, pending |-> doc.pending]
      BY <1>4 DEF Docs
    <2>4. f.docs[b] = [opened |-> e.named[b], attached |-> attached, pending |-> <<>>]
      BY <1>4, <2>2, <2>3
    <2>5. <<>> \in Seq(Edits)
      OBVIOUS
    <2> QED BY <1>2, <2>1, <2>4, <2>5 DEF Docs
  <1>6. \A x \in BufferId : x # b => f.docs[x] = g.docs[x]
    BY <1>2, <1>3 DEF EditorStates
  <1>7. PICK m \in Messages : m = Open(b, text) /\ m.bid = b /\ m.kind = "open" /\ m.to = text
    <2>1. /\ Open(b, text) \in Messages /\ Open(b, text).bid = b
          /\ Open(b, text).kind = "open" /\ Open(b, text).to = text
      BY <1>2 DEF Open, Messages, Texts
    <2> QED BY <2>1
  <1>a. SentTo(g.clients, f.clients, {sid}, m, b)
    <2>1. m.kind \notin {"whole", "ranged"} /\ {sid} \in SUBSET ServerId
      BY <1>7
    <2>2. f.clients = SendTo(g.clients, {sid}, m)
      BY <1>3, <1>7
    <2> QED BY <1>1, <1>7, <2>1, <2>2, SendToKeeps
  <1>8. /\ f.clients \in [ServerId -> Clients]
        /\ \A s \in ServerId :
             /\ Tells(g.clients[s], f.clients[s], b)
             /\ s # sid => f.clients[s] = g.clients[s]
             /\ s = sid /\ Hears(g.clients[s]) =>
                  Knows(f.clients[s])[b] = Heard(Knows(g.clients[s]), m)[b]
    BY <1>a DEF SentTo
  <1>9. f.docs \in [BufferId -> Docs]
    BY <1>2, <1>3, <1>5, <1>6 DEF EditorStates
  <1>10. f \in EditorStates
    BY <1>3, <1>8, <1>9
  <1>11. Retells(g, f, b)
    BY <1>3, <1>6, <1>8 DEF Retells
  <1>12. f.text[b] = text /\ g.text[b] = text
    BY <1>0, <1>1, <1>3 DEF Flushed, Retells, Writes
  <1>13. Chained(f.docs[b], f.text[b])
    <2>1. Len(<<>>) = 0 /\ 2 .. 0 = {}
      OBVIOUS
    <2> QED BY <1>5, <2>1 DEF Chained
  <1>14. ASSUME NEW s \in ServerId
         PROVE  Follows(f.clients[s], b, s \in f.docs[b].attached, ExpectedOf(f.docs[b], f.text[b]))
    <2>1. ExpectedOf(f.docs[b], f.text[b]) = text /\ ExpectedOf(doc, text) = text
      BY <1>4, <1>5, <1>12 DEF ExpectedOf
    <2>2. Follows(g.clients[s], b, s \in doc.attached, text)
      BY <1>1, <1>4, <1>12, <2>1 DEF Sound
    <2>3. CASE s # sid
      BY <1>5, <1>8, <2>1, <2>2, <2>3
    <2>4. CASE s = sid
      <3>1. Hears(g.clients[s]) => Knows(g.clients[s])[b] = Closed /\ Knows(g.clients[s]) \in Told
        <4>1. g.clients[s] \in Clients
          BY <1>2, EditorParts
        <4> QED BY <1>4, <2>2, <2>4, <4>1, KnowsTyped DEF Follows, Hears
      <3>2. Hears(g.clients[s]) => Knows(f.clients[s])[b] = text
        BY <1>7, <1>8, <2>4, <3>1 DEF Heard, Told, Closed, Confused
      <3>3. f.clients[s].state = g.clients[s].state
        BY <1>8 DEF Tells, SameClient
      <3> QED BY <1>2, <1>5, <2>1, <2>4, <3>2, <3>3 DEF Follows, Hears, Texts, Closed
    <2> QED BY <2>3, <2>4
  <1>15. Staffed(f, R \ {sid})
    <2>1. \A s \in ServerId : /\ f.clients[s].state = g.clients[s].state
                              /\ f.clients[s].name = g.clients[s].name
                              /\ g.clients[s].state = e.clients[s].state
      BY <1>1, <1>8 DEF Flushed, Retells, Tells, SameClient
    <2>2. \A s \in ServerId : Referenced(f, s) <=> Referenced(g, s) \/ s = sid
      BY <1>4, <1>5, <1>6 DEF Referenced
    <2>3. Staffed(g, R) /\ f.next = g.next
      BY <1>1, <1>3 DEF Sound, Writes
    <2> QED BY <2>1, <2>2, <2>3 DEF Staffed
  <1>16. Sound(f, R \ {sid})
    <2>1. FollowedIn(f, b)
      BY <1>13, <1>14 DEF FollowedIn
    <2> QED BY <1>1, <1>10, <1>11, <1>15, <2>1, RetellsKeep
  <1>17. Retells(e, f, b)
    BY <1>1, <1>11, RetellsCompose DEF Flushed
  <1> QED BY <1>0, <1>4, <1>5, <1>16, <1>17

\* The editor that detaching servers leaves.
Detaches(e, g, f, b, sids) ==
  /\ Writes(g, f)
  /\ f.docs = [g.docs EXCEPT ![b] =
       IF e.docs[b].attached \ sids = {} THEN NoDoc
       ELSE [g.docs[b] EXCEPT !.attached = e.docs[b].attached \ sids]]
  /\ f.clients = SendTo(g.clients, sids, Close(b))
  /\ (f.docs \in [BufferId -> Docs] /\ f.clients \in [ServerId -> Clients]) =>
       f \in EditorStates

\* It does.
LEMMA DetachIs ==
  ASSUME NEW e, NEW b \in BufferId, NEW sids, sids # {}, NEW g \in EditorStates, g = Flush(e, b),
         NEW f, f = DetachEach(e, b, sids)
  PROVE  Detaches(e, g, f, b, sids)
  BY DEF DetachEach, EditorStates, Writes, Docs, Detaches

\* lsp_detach closes the document on the servers it leaves.
LEMMA DetachKeeps ==
  ASSUME NEW e, NEW R, Sound(e, R), NEW b \in BufferId,
         NEW sids, sids \subseteq e.docs[b].attached
  PROVE  /\ Sound(DetachEach(e, b, sids), R \union sids) /\ Retells(e, DetachEach(e, b, sids), b)
         /\ DetachEach(e, b, sids).docs[b].attached = e.docs[b].attached \ sids
  <1>0. PICK f, g, text : f = DetachEach(e, b, sids) /\ g = Flush(e, b) /\ text = e.text[b]
    OBVIOUS
  <1>1. Sound(g, R) /\ Flushed(e, g, b)
    BY <1>0, FlushKeeps
  <1>2. e \in EditorStates /\ g \in EditorStates /\ text \in Texts
    BY <1>0, <1>1 DEF Sound, EditorStates
  <1>b. e.docs[b].attached \in SUBSET ServerId
    BY <1>2, EditorParts
  <1>c. CASE sids = {}
    <2>1. f = e /\ R \union sids = R
      BY <1>0, <1>c DEF DetachEach
    <2>2. Retells(e, e, b)
      <3>1. \A s \in ServerId : e.clients[s] \in Clients /\ SoundClient(e.clients[s])
        BY <1>2, EditorParts DEF Sound
      <3> QED BY <3>1, TellsNothing DEF Retells, Writes
    <2> QED BY <1>0, <1>c, <2>1, <2>2
  <1>d. CASE sids # {}
    <2>3. /\ Writes(g, f)
          /\ f.docs = [g.docs EXCEPT ![b] =
               IF e.docs[b].attached \ sids = {} THEN NoDoc
               ELSE [g.docs[b] EXCEPT !.attached = e.docs[b].attached \ sids]]
          /\ f.clients = SendTo(g.clients, sids, Close(b))
          /\ (f.docs \in [BufferId -> Docs] /\ f.clients \in [ServerId -> Clients]) =>
               f \in EditorStates
      <3>1. Detaches(e, g, f, b, sids)
        BY <1>0, <1>2, <1>d, DetachIs
      <3> QED BY <1>0, <3>1 DEF Detaches
    <2>4. PICK doc : doc = g.docs[b] /\ doc \in Docs /\ doc.pending = <<>>
                     /\ doc.attached = e.docs[b].attached /\ doc.attached \in SUBSET ServerId
      BY <1>1, <1>2, EditorParts DEF Flushed
    <2>a. PICK left \in SUBSET ServerId : left = doc.attached \ sids
      BY <2>4
    <2>5. /\ f.docs[b] \in Docs /\ f.docs[b].pending = <<>>
          /\ f.docs[b].attached = left /\ (left = {} => f.docs[b] = NoDoc)
      <3>1. f.docs[b] = IF left = {} THEN NoDoc ELSE [doc EXCEPT !.attached = left]
        BY <1>2, <2>3, <2>4, <2>a DEF EditorStates
      <3>2. doc = [opened |-> doc.opened, attached |-> doc.attached, pending |-> doc.pending]
            /\ doc.opened \in Nat
        BY <2>4 DEF Docs
      <3>3. f.docs[b] = IF left = {} THEN NoDoc
                        ELSE [opened |-> doc.opened, attached |-> left, pending |-> <<>>]
        BY <2>4, <3>1, <3>2
      <3>4. <<>> \in Seq(Edits)
        OBVIOUS
      <3> QED BY <2>a, <3>2, <3>3, <3>4 DEF Docs, NoDoc
    <2>6. \A x \in BufferId : x # b => f.docs[x] = g.docs[x]
      BY <1>2, <2>3 DEF EditorStates
    <2>7. PICK m \in Messages : m = Close(b) /\ m.bid = b /\ m.kind = "close" /\ m.to = Closed
      <3>1. /\ Close(b) \in Messages /\ Close(b).bid = b
            /\ Close(b).kind = "close" /\ Close(b).to = Closed
        BY DEF Close, Messages, Closed
      <3> QED BY <3>1
    <2>8. SentTo(g.clients, f.clients, sids, m, b)
      <3>1. m.kind \notin {"whole", "ranged"} /\ sids \in SUBSET ServerId
        BY <1>b, <2>7
      <3>2. f.clients = SendTo(g.clients, sids, m)
        BY <2>3, <2>7
      <3> QED BY <1>1, <2>7, <3>1, <3>2, SendToKeeps
    <2>9. /\ f.clients \in [ServerId -> Clients]
          /\ \A s \in ServerId :
               /\ Tells(g.clients[s], f.clients[s], b)
               /\ s \notin sids => f.clients[s] = g.clients[s]
               /\ s \in sids /\ Hears(g.clients[s]) =>
                    Knows(f.clients[s])[b] = Heard(Knows(g.clients[s]), m)[b]
      BY <2>8 DEF SentTo
    <2>10. f.docs \in [BufferId -> Docs]
      BY <1>2, <2>3, <2>5, <2>6 DEF EditorStates
    <2>11. f \in EditorStates
      BY <2>3, <2>9, <2>10
    <2>12. Retells(g, f, b)
      BY <2>3, <2>6, <2>9 DEF Retells
    <2>13. f.text[b] = text /\ g.text[b] = text
      BY <1>0, <1>1, <2>3 DEF Flushed, Retells, Writes
    <2>14. Chained(f.docs[b], f.text[b])
      <3>1. Len(<<>>) = 0 /\ 2 .. 0 = {}
        OBVIOUS
      <3> QED BY <2>5, <3>1 DEF Chained
    <2>15. ASSUME NEW s \in ServerId
           PROVE  Follows(f.clients[s], b, s \in f.docs[b].attached, ExpectedOf(f.docs[b], f.text[b]))
      <3>1. ExpectedOf(f.docs[b], f.text[b]) = text /\ ExpectedOf(doc, text) = text
        BY <2>4, <2>5, <2>13 DEF ExpectedOf
      <3>2. Follows(g.clients[s], b, s \in doc.attached, text)
        BY <1>1, <2>4, <2>13, <3>1 DEF Sound
      <3>3. CASE s \notin sids
        <4>1. s \in f.docs[b].attached <=> s \in doc.attached
          BY <2>5, <2>a, <3>3
        <4>2. f.clients[s] = g.clients[s]
          BY <2>9, <3>3
        <4> QED BY <3>1, <3>2, <4>1, <4>2 DEF Follows
      <3>4. CASE s \in sids
        <4>0. s \in doc.attached /\ s \notin f.docs[b].attached
          BY <2>4, <2>5, <2>a, <3>4
        <4>1. Hears(g.clients[s]) => /\ Knows(g.clients[s]) \in Told
                                     /\ Knows(g.clients[s])[b] # Closed
                                     /\ Knows(g.clients[s])[b] # Confused
          <5>1. g.clients[s] \in Clients
            BY <1>2, EditorParts
          <5>2. Follows(g.clients[s], b, TRUE, text)
            BY <3>2, <4>0 DEF Follows
          <5> QED BY <1>2, <5>1, <5>2, KnowsOpen
        <4>2. Hears(g.clients[s]) => Knows(f.clients[s])[b] = Closed
          BY <2>7, <2>9, <3>4, <4>1 DEF Heard, Told
        <4>3. f.clients[s].state = g.clients[s].state
          BY <2>9 DEF Tells, SameClient
        <4> QED BY <4>0, <4>2, <4>3 DEF Follows, Hears
      <3> QED BY <3>3, <3>4
    <2>16. Staffed(f, R \union sids)
      <3>1. \A s \in ServerId : /\ f.clients[s].state = g.clients[s].state
                                /\ f.clients[s].name = g.clients[s].name
        BY <2>9 DEF Tells, SameClient
      <3>2. \A s \in ServerId : /\ Referenced(f, s) => Referenced(g, s)
                                /\ Referenced(g, s) => Referenced(f, s) \/ s \in sids
        BY <2>4, <2>5, <2>6, <2>a DEF Referenced
      <3>3. Staffed(g, R) /\ f.next = g.next
        BY <1>1, <2>3 DEF Sound, Writes
      <3> QED BY <3>1, <3>2, <3>3 DEF Staffed
    <2>17. Sound(f, R \union sids)
      <3>1. FollowedIn(f, b)
        BY <2>14, <2>15 DEF FollowedIn
      <3> QED BY <1>1, <2>11, <2>12, <2>16, <3>1, RetellsKeep
    <2>18. Retells(e, f, b)
      BY <1>1, <2>12, RetellsCompose DEF Flushed
    <2> QED BY <1>0, <2>4, <2>5, <2>a, <2>17, <2>18
  <1> QED BY <1>c, <1>d

\* A saved document is no other document to its servers.
LEMMA SaveKeeps ==
  ASSUME NEW e, NEW R, Sound(e, R), NEW b \in BufferId,
         NEW f, f = [e EXCEPT !.clients = SendTo(@, e.docs[b].attached, Saved(b))]
  PROVE  Sound(f, R) /\ Retells(e, f, b)
  <1>1. e \in EditorStates
    BY DEF Sound
  <1>2. e.docs[b].attached \in SUBSET ServerId /\ e.text[b] \in Texts
    BY <1>1, EditorParts
  <1>3. /\ Writes(e, f) /\ f.docs = e.docs
        /\ f.clients = SendTo(e.clients, e.docs[b].attached, Saved(b))
        /\ f.clients \in [ServerId -> Clients] => f \in EditorStates
    BY <1>1 DEF Writes, EditorStates
  <1>4. PICK m \in Messages : m = Saved(b) /\ m.bid = b /\ m.kind = "saved"
    <2>1. Saved(b) \in Messages /\ Saved(b).bid = b /\ Saved(b).kind = "saved"
      BY DEF Saved, Messages, Closed
    <2> QED BY <2>1
  <1>5. SentTo(e.clients, f.clients, e.docs[b].attached, m, b)
    <2>1. m.kind \notin {"whole", "ranged"}
      BY <1>4
    <2> QED BY <1>2, <1>3, <1>4, <2>1, SendToKeeps
  <1>6. f \in EditorStates /\ Retells(e, f, b)
    BY <1>3, <1>5 DEF SentTo, Retells
  <1>7. ASSUME NEW s \in ServerId
        PROVE  Follows(f.clients[s], b, s \in f.docs[b].attached, ExpectedOf(f.docs[b], f.text[b]))
    <2>1. f.docs[b] = e.docs[b] /\ f.text[b] = e.text[b]
      BY <1>3 DEF Writes
    <2>2. Follows(e.clients[s], b, s \in e.docs[b].attached, ExpectedOf(e.docs[b], e.text[b]))
      BY DEF Sound
    <2>3. CASE s \notin e.docs[b].attached
      BY <1>5, <2>1, <2>2, <2>3 DEF SentTo
    <2>4. CASE s \in e.docs[b].attached
      <3>0. PICK expected : expected = ExpectedOf(e.docs[b], e.text[b]) /\ expected \in Texts
        <4>1. CASE e.docs[b].pending = <<>>
          BY <1>2, <4>1 DEF ExpectedOf
        <4>2. CASE e.docs[b].pending # <<>>
          <5>1. e.docs[b].pending \in Seq(Edits)
            BY <1>1, EditorParts
          <5>2. e.docs[b].pending[1] \in Edits
            BY <4>2, <5>1
          <5> QED BY <4>2, <5>2 DEF ExpectedOf, Edits
        <4> QED BY <4>1, <4>2
      <3>1. Hears(e.clients[s]) => /\ Knows(e.clients[s]) \in Told
                                   /\ Knows(e.clients[s])[b] # Closed
                                   /\ Knows(e.clients[s])[b] # Confused
        <4>1. e.clients[s] \in Clients
          BY <1>1, EditorParts
        <4>2. Follows(e.clients[s], b, TRUE, expected)
          BY <2>2, <2>4, <3>0 DEF Follows
        <4> QED BY <3>0, <4>1, <4>2, KnowsOpen
      <3>2. Hears(e.clients[s]) => Knows(f.clients[s])[b] = Knows(e.clients[s])[b]
        BY <1>4, <1>5, <2>4, <3>1 DEF SentTo, Heard, Told
      <3>3. f.clients[s].state = e.clients[s].state /\ f.clients[s].sync = e.clients[s].sync
        BY <1>5 DEF SentTo, Tells, SameClient
      <3> QED BY <2>1, <2>2, <3>2, <3>3 DEF Follows, Hears
    <2> QED BY <2>3, <2>4
  <1>8. FollowedIn(f, b)
    <2>1. Chained(f.docs[b], f.text[b])
      BY <1>3 DEF Sound, Writes
    <2> QED BY <1>7, <2>1 DEF FollowedIn
  <1>9. Staffed(f, R)
    <2>1. Staffed(e, R)
      BY DEF Sound
    <2>2. f.docs[b].attached = e.docs[b].attached
      BY <1>3
    <2> QED BY <1>6, <2>1, <2>2, StaffedSame
  <1> QED BY <1>6, <1>8, <1>9, RetellsKeep


-----------------------------------------------------------------------------
(* Deliveries *)

\* A finite set has a sequence of its elements.
LEMMA SetToSeqOf ==
  ASSUME NEW S, IsFiniteSet(S)
  PROVE  SetToSeq(S) \in Seq(S)
  <1>1. Cardinality(S) \in Nat /\ ExistsBijection(1 .. Cardinality(S), S)
    BY FS_CardinalityType
  <1>2. PICK f \in [1 .. Cardinality(S) -> S] : IsInjective(f)
    BY <1>1 DEF ExistsBijection, Bijection, Injection
  <1>3. SetToSeq(S) \in [1 .. Cardinality(S) -> S]
    BY <1>2 DEF SetToSeq
  <1> QED BY <1>1, <1>3

\* No callback is run.
RunsNothing(e, f) ==
  \A d \in DeliveryId : f.deliveries[d].status = "called" => e.deliveries[d].status = "called"

\* Nothing is run by what runs nothing twice.
LEMMA RunsNothingTwice ==
  ASSUME NEW e, NEW f, NEW g, RunsNothing(e, f), RunsNothing(f, g)
  PROVE  RunsNothing(e, g)
  BY DEF RunsNothing

\* Nothing is run while servers are told of a document.
LEMMA WritesRunNothing ==
  ASSUME NEW e, NEW f, Writes(e, f)
  PROVE  RunsNothing(e, f)
  BY DEF RunsNothing, Writes

\* What is sound of an editor, its deliveries aside.
Standing(e, retired) ==
  /\ e \in EditorStates
  /\ \A s \in ServerId : SoundClient(e.clients[s])
  /\ \A b \in BufferId : Chained(e.docs[b], e.text[b])
  /\ \A s \in ServerId, b \in BufferId :
       Follows(e.clients[s], b, s \in e.docs[b].attached, ExpectedOf(e.docs[b], e.text[b]))
  /\ Staffed(e, retired)
  /\ Informed(e)

\* It is the rest.
LEMMA SoundIs ==
  ASSUME NEW e, NEW R
  PROVE  Sound(e, R) <=> Standing(e, R) /\ Owed(e)
  BY DEF Sound, Standing

\* What is owed, some of it by what servers have ended.
Owing(e, ended) ==
  /\ ended \in [ServerId -> SUBSET DeliveryId]
  /\ \A d \in DeliveryId :
       /\ e.deliveries[d].status = "waiting" <=> e.deliveries[d].waiting # {}
       /\ \A s \in e.deliveries[d].waiting :
            \/ e.clients[s].state = "running" /\ d \in e.clients[s].pending
            \/ d \in ended[s]
  /\ \A i \in DOMAIN e.calls : e.deliveries[e.calls[i]].status \notin {"none", "waiting"}
  /\ \E n \in 0 .. MaxRequests : \A d \in DeliveryId : e.deliveries[d].status # "none" <=> d <= n

\* The deliveries are about what they were, and those there were.
Delivers(e, f) ==
  /\ f.text = e.text /\ f.docs = e.docs /\ f.clients = e.clients /\ f.next = e.next
  /\ \A d \in DeliveryId :
       /\ f.deliveries[d].version = e.deliveries[d].version
       /\ f.deliveries[d].status = "none" <=> e.deliveries[d].status = "none"

\* The rest stands when only deliveries end.
LEMMA DeliversKeep ==
  ASSUME NEW e, NEW f, NEW R, Standing(e, R), Delivers(e, f), f \in EditorStates
  PROVE  Standing(f, R)
  <1>1. Staffed(f, R)
    BY DEF Standing, Staffed, Delivers, Referenced
  <1>2. Informed(f)
    <2>1. e \in EditorStates
      BY DEF Standing
    <2>2. \A s \in ServerId : \A q \in e.clients[s].asked : q.request \in DeliveryId
      <3>1. \A s \in ServerId : e.clients[s].asked \in SUBSET Questions
        BY <2>1, EditorParts DEF Clients
      <3> QED BY <3>1 DEF Questions
    <2> QED BY <2>2 DEF Standing, Informed, Delivers
  <1> QED BY <1>1, <1>2 DEF Standing, Delivers

\* What lsp_dispatch_completed does.
FillsSlots(e, f, ended) ==
  /\ f.text = e.text /\ f.docs = e.docs /\ f.clients = e.clients /\ f.next = e.next
  /\ \A d \in DeliveryId :
       f.deliveries[d] = [e.deliveries[d] EXCEPT
         !.waiting = LeftOf(e, ended)[d],
         !.status = IF d \in AdmittedOf(e, ended) THEN "queued"
                    ELSE IF d \in FinishedOf(e, ended) THEN "dropped"
                    ELSE e.deliveries[d].status]
  /\ f.calls = e.calls \o SetToSeq(AdmittedOf(e, ended))
  /\ (f.calls \in Seq(DeliveryId)
        /\ \A d \in DeliveryId : f.deliveries[d] \in Deliveries) => f \in EditorStates

\* It does.
LEMMA FillSlotsIs ==
  ASSUME NEW e \in EditorStates, NEW ended, NEW f, f = FillSlots(e, ended)
  PROVE  FillsSlots(e, f, ended)
  BY DEF FillSlots, FillsSlots, EditorStates

\* lsp_dispatch_completed leaves the deliveries that are still owed an answer.
LEMMA FillSlotsKeep ==
  ASSUME NEW e, NEW R, NEW ended, Standing(e, R), Owing(e, ended)
  PROVE  Sound(FillSlots(e, ended), R) /\ RunsNothing(e, FillSlots(e, ended))
  <1> DEFINE left == LeftOf(e, ended)
             finished == FinishedOf(e, ended)
             admitted == AdmittedOf(e, ended)
  <1>0. PICK f : f = FillSlots(e, ended)
    OBVIOUS
  <1>1. e \in EditorStates
    BY DEF Standing
  <1>2. FillsSlots(e, f, ended)
    BY <1>0, <1>1, FillSlotsIs
  <1>a. /\ \A d \in DeliveryId : left[d] \subseteq e.deliveries[d].waiting
        /\ admitted \subseteq finished /\ finished \subseteq DeliveryId
        /\ \A d \in finished : e.deliveries[d].waiting # {} /\ left[d] = {}
        /\ \A d \in DeliveryId \ finished : e.deliveries[d].waiting # {} => left[d] # {}
        /\ \A d \in DeliveryId : \A s \in left[d] : d \notin ended[s]
    BY DEF LeftOf, FinishedOf, AdmittedOf
  <1> DEFINE statusOf(d) == IF d \in admitted THEN "queued"
                            ELSE IF d \in finished THEN "dropped" ELSE e.deliveries[d].status
  <1>3. \A d \in DeliveryId :
          f.deliveries[d] = [e.deliveries[d] EXCEPT !.waiting = left[d], !.status = statusOf(d)]
    BY <1>2 DEF FillsSlots
  <1> HIDE DEF left, finished, admitted
  <1>4. ASSUME NEW d \in DeliveryId
        PROVE  /\ f.deliveries[d] \in Deliveries
               /\ f.deliveries[d].waiting = left[d] /\ f.deliveries[d].status = statusOf(d)
               /\ f.deliveries[d].version = e.deliveries[d].version
    <2>1. PICK x \in Deliveries : x = e.deliveries[d]
      BY <1>1, EditorParts
    <2>2. statusOf(d) \in Statuses
      BY <2>1 DEF Statuses, Deliveries
    <2>3. PICK w \in SUBSET ServerId : w = left[d]
      BY <1>a, <2>1 DEF Deliveries
    <2>4. PICK st \in Statuses : st = statusOf(d)
      BY <2>2
    <2> HIDE DEF statusOf
    <2>5. f.deliveries[d] = [x EXCEPT !.waiting = w, !.status = st]
      BY <1>3, <2>1, <2>3, <2>4
    <2> QED BY <2>1, <2>3, <2>4, <2>5 DEF Deliveries
  <1>5. /\ f.calls = e.calls \o SetToSeq(admitted) /\ SetToSeq(admitted) \in Seq(admitted)
        /\ f.calls \in Seq(DeliveryId)
    <2>1. IsFiniteSet(DeliveryId)
      BY FS_Interval, LspSessionAssumption DEF DeliveryId
    <2>2. IsFiniteSet(admitted) /\ admitted \in SUBSET DeliveryId
      BY <1>a, <2>1, FS_Subset
    <2>3. SetToSeq(admitted) \in Seq(admitted)
      BY <2>2, SetToSeqOf
    <2>4. e.calls \in Seq(DeliveryId)
      BY <1>1, EditorParts
    <2>5. f.calls = e.calls \o SetToSeq(admitted)
      BY <1>2 DEF FillsSlots, admitted
    <2>6. SetToSeq(admitted) \in Seq(DeliveryId)
      BY <2>2, <2>3
    <2> QED BY <2>3, <2>4, <2>5, <2>6
  <1>6. f \in EditorStates
    BY <1>2, <1>4, <1>5 DEF FillsSlots
  <1>b. \A d \in DeliveryId : d \in finished => e.deliveries[d].status = "waiting"
    BY <1>a DEF Owing
  <1>7. Delivers(e, f)
    <2>1. \A d \in DeliveryId : f.deliveries[d].status = "none" <=> e.deliveries[d].status = "none"
      BY <1>4, <1>a, <1>b
    <2>2. \A d \in DeliveryId : f.deliveries[d].version = e.deliveries[d].version
      BY <1>4
    <2>3. f.text = e.text /\ f.docs = e.docs /\ f.clients = e.clients /\ f.next = e.next
      BY <1>2 DEF FillsSlots
    <2> QED BY <2>1, <2>2, <2>3 DEF Delivers
  <1>8. Standing(f, R)
    BY <1>6, <1>7, DeliversKeep
  <1>9. ASSUME NEW d \in DeliveryId
        PROVE  /\ f.deliveries[d].status = "waiting" <=> f.deliveries[d].waiting # {}
               /\ \A s \in f.deliveries[d].waiting :
                    f.clients[s].state = "running" /\ d \in f.clients[s].pending
    <2>1. f.clients = e.clients
      BY <1>7 DEF Delivers
    <2>2. e.deliveries[d].status = "waiting" <=> e.deliveries[d].waiting # {}
      BY DEF Owing
    <2>3. \A s \in left[d] : e.clients[s].state = "running" /\ d \in e.clients[s].pending
      BY <1>a DEF Owing
    <2>4. CASE d \in finished
      BY <1>4, <1>a, <2>4
    <2>5. CASE d \notin finished
      BY <1>4, <1>a, <2>1, <2>2, <2>3, <2>5
    <2> QED BY <1>4, <2>1, <2>3, <2>4, <2>5
  <1>10. ASSUME NEW i \in DOMAIN f.calls
         PROVE  f.deliveries[f.calls[i]].status \notin {"none", "waiting"}
    <2>1. PICK p \in Seq(DeliveryId) : p = e.calls
      BY <1>1, EditorParts
    <2>2. PICK q \in Seq(admitted) : q = SetToSeq(admitted)
      BY <1>5
    <2>3. f.calls = p \o q
      BY <1>5, <2>1, <2>2
    <2>4. CASE i \in 1 .. Len(p)
      <3>1. f.calls[i] = p[i] /\ p[i] \in DeliveryId /\ i \in DOMAIN p
        BY <2>1, <2>2, <2>3, <2>4
      <3>2. e.deliveries[p[i]].status \notin {"none", "waiting"}
        BY <2>1, <3>1 DEF Owing
      <3> QED BY <1>4, <1>b, <3>1, <3>2
    <2>5. CASE i \notin 1 .. Len(p)
      <3>1. f.calls[i] = q[i - Len(p)] /\ i - Len(p) \in 1 .. Len(q)
        BY <2>1, <2>2, <2>3, <2>5
      <3>2. f.calls[i] \in admitted
        BY <2>2, <3>1
      <3> QED BY <1>4, <1>a, <3>2
    <2> QED BY <2>4, <2>5
  <1>11. Owed(f)
    <2>1. \E n \in 0 .. MaxRequests : \A d \in DeliveryId :
            f.deliveries[d].status # "none" <=> d <= n
      BY <1>7 DEF Owing, Delivers
    <2> QED BY <1>9, <1>10, <2>1 DEF Owed
  <1>12. RunsNothing(e, f)
    BY <1>4 DEF RunsNothing
  <1> QED BY <1>0, <1>8, <1>11, <1>12, SoundIs

-----------------------------------------------------------------------------
(* Stopping and cancelling *)

\* The clients, some of them gone.
Gone(clients, sids) ==
  [s \in ServerId |-> IF s \in sids THEN NoClient ELSE clients[s]]

\* What the clients that go have ended.
EndedBy(clients, sids) ==
  [s \in ServerId |-> IF s \in sids THEN PendingStopped(clients[s]).ended ELSE {}]

\* A client that is gone is sound.
LEMMA NoClientIs ==
  NoClient \in Clients /\ SoundClient(NoClient) /\ NoClient.state = "none" /\ NoClient.asked = {}
  <1>1. <<>> \in Seq(Messages) /\ DOMAIN (<<>>) = {}
    OBVIOUS
  <1>2. [b \in BufferId |-> Closed] \in Told
    BY DEF Told, Closed
  <1> QED BY <1>1, <1>2 DEF NoClient, Clients, SoundClient, Live, Syncs

\* lsp_stop_instance, of servers no buffer is attached to.
LEMMA StopInstancesKeep ==
  ASSUME NEW e, NEW R, Sound(e, R), NEW sids \in SUBSET ServerId,
         \A s \in sids : ~Referenced(e, s)
  PROVE  /\ Sound(StopInstances(e, sids), R \ sids)
         /\ RunsNothing(e, StopInstances(e, sids))
         /\ StopInstances(e, sids).docs = e.docs
  <1>0. PICK g, ended : /\ g = [e EXCEPT !.clients = Gone(e.clients, sids)]
                        /\ ended = EndedBy(e.clients, sids)
    OBVIOUS
  <1>1. StopInstances(e, sids) = FillSlots(g, ended)
    BY <1>0 DEF StopInstances, Gone, EndedBy
  <1>2. e \in EditorStates /\ \A s \in ServerId : e.clients[s] \in Clients
    BY EditorParts DEF Sound
  <1>3. /\ g.text = e.text /\ g.docs = e.docs /\ g.deliveries = e.deliveries
        /\ g.calls = e.calls /\ g.next = e.next
        /\ \A s \in ServerId : g.clients[s] = IF s \in sids THEN NoClient ELSE e.clients[s]
        /\ g \in EditorStates
    <2>1. Gone(e.clients, sids) \in [ServerId -> Clients]
      BY <1>2, NoClientIs DEF Gone
    <2>2. g.clients = Gone(e.clients, sids)
      BY <1>0, <1>2 DEF EditorStates
    <2>3. \A s \in ServerId : g.clients[s] = IF s \in sids THEN NoClient ELSE e.clients[s]
      BY <2>2 DEF Gone
    <2> HIDE DEF Gone
    <2>4. g \in EditorStates /\ g.text = e.text /\ g.docs = e.docs /\ g.deliveries = e.deliveries
          /\ g.calls = e.calls /\ g.next = e.next
      BY <1>0, <1>2, <2>1 DEF EditorStates
    <2> QED BY <2>3, <2>4
  <1>4. Standing(g, R \ sids)
    <2>1. \A s \in ServerId : SoundClient(g.clients[s])
      BY <1>3, NoClientIs DEF Sound
    <2>2. \A b \in BufferId : Chained(g.docs[b], g.text[b])
      BY <1>3 DEF Sound
    <2>3. ASSUME NEW s \in ServerId, NEW b \in BufferId
          PROVE  Follows(g.clients[s], b, s \in g.docs[b].attached, ExpectedOf(g.docs[b], g.text[b]))
      <3>1. CASE s \in sids
        <4>1. g.clients[s].state = "none"
          BY <1>3, <3>1, NoClientIs
        <4> QED BY <4>1 DEF Follows
      <3>2. CASE s \notin sids
        <4>1. g.clients[s] = e.clients[s]
          BY <1>3, <3>2
        <4>2. Follows(e.clients[s], b, s \in e.docs[b].attached, ExpectedOf(e.docs[b], e.text[b]))
          BY DEF Sound
        <4> QED BY <1>3, <4>1, <4>2
      <3> QED BY <3>1, <3>2
    <2>4. Staffed(g, R \ sids)
      <3>1. Staffed(e, R)
        BY DEF Sound
      <3>2. \A s \in ServerId : Referenced(g, s) <=> Referenced(e, s)
        BY <1>3 DEF Referenced
      <3>3. \A s \in ServerId : g.clients[s].state \in Live => s \notin sids /\ g.clients[s] = e.clients[s]
        BY <1>3, NoClientIs DEF Live
      <3>4. \A s \in ServerId : s \notin sids => g.clients[s] = e.clients[s]
        BY <1>3
      <3>5. \A s \in ServerId : s \in sids => g.clients[s].state = "none"
        BY <1>3, NoClientIs
      <3> QED BY <1>3, <3>1, <3>2, <3>3, <3>4, <3>5 DEF Staffed
    <2>5. Informed(g)
      <3>1. Informed(e)
        BY DEF Sound
      <3>2. \A s \in ServerId : g.clients[s].asked # {} => g.clients[s] = e.clients[s]
        BY <1>3, NoClientIs
      <3> QED BY <1>3, <3>1, <3>2 DEF Informed
    <2> QED BY <1>3, <2>1, <2>2, <2>3, <2>4, <2>5 DEF Standing
  <1>5. Owing(g, ended)
    <2>1. Owed(e)
      BY DEF Sound
    <2>2. \A s \in ServerId : /\ s \in sids => ended[s] = e.clients[s].ended \union e.clients[s].pending
                              /\ s \notin sids => ended[s] = {}
      BY <1>0, <1>2 DEF EndedBy, PendingStopped, Clients
    <2>3. ended \in [ServerId -> SUBSET DeliveryId]
      <3>1. \A s \in ServerId : ended[s] \in SUBSET DeliveryId
        BY <1>2, <2>2 DEF Clients
      <3>2. ended = [s \in ServerId |-> ended[s]]
        BY <1>0 DEF EndedBy
      <3> QED BY <3>1, <3>2
    <2>4. ASSUME NEW d \in DeliveryId, NEW s \in e.deliveries[d].waiting
          PROVE  \/ g.clients[s].state = "running" /\ d \in g.clients[s].pending
                 \/ d \in ended[s]
      <3>1. s \in ServerId
        BY <1>2, EditorParts DEF Deliveries
      <3>2. e.clients[s].state = "running" /\ d \in e.clients[s].pending
        BY <2>1 DEF Owed
      <3> QED BY <1>3, <2>2, <3>1, <3>2
    <2> QED BY <1>3, <2>1, <2>3, <2>4 DEF Owing, Owed
  <1>6. Sound(FillSlots(g, ended), R \ sids) /\ RunsNothing(g, FillSlots(g, ended))
    BY <1>4, <1>5, FillSlotsKeep
  <1>7. RunsNothing(e, FillSlots(g, ended))
    BY <1>3, <1>6 DEF RunsNothing
  <1>8. FillSlots(g, ended).docs = e.docs
    <2>1. FillsSlots(g, FillSlots(g, ended), ended)
      BY <1>3, FillSlotsIs
    <2> QED BY <1>3, <2>1 DEF FillsSlots
  <1> QED BY <1>1, <1>6, <1>7, <1>8

\* Of the servers left to stop, those that no buffer is attached to are.
LEMMA StopUnreferencedKeeps ==
  ASSUME NEW e, NEW sids \in SUBSET ServerId, Sound(e, sids)
  PROVE  Sound(StopUnreferenced(e, sids), {}) /\ RunsNothing(e, StopUnreferenced(e, sids))
  <1>0. PICK gone \in SUBSET ServerId : gone = {s \in sids : ~Referenced(e, s)}
    OBVIOUS
  <1>1. PICK f : f = StopInstances(e, gone) /\ f = StopUnreferenced(e, sids)
    BY <1>0 DEF StopUnreferenced
  <1>2. Sound(f, sids \ gone) /\ RunsNothing(e, f) /\ f.docs = e.docs
    <2>1. \A s \in gone : ~Referenced(e, s)
      BY <1>0
    <2>2. /\ Sound(StopInstances(e, gone), sids \ gone)
          /\ RunsNothing(e, StopInstances(e, gone)) /\ StopInstances(e, gone).docs = e.docs
      BY <2>1, StopInstancesKeep
    <2> QED BY <1>1, <2>2
  <1>3. \A s \in sids \ gone : Referenced(f, s)
    BY <1>0, <1>2 DEF Referenced
  <1>4. Staffed(f, {})
    BY <1>2, <1>3 DEF Sound, Staffed
  <1>5. Sound(f, {})
    BY <1>2, <1>4 DEF Sound
  <1> QED BY <1>1, <1>2, <1>5

\* The deliveries drop_delivery is to drop.
UnderKey(e, b) ==
  {d \in DeliveryId : /\ e.deliveries[d].status = "waiting" /\ e.deliveries[d].keyed
                      /\ e.deliveries[d].bid = b}

\* What drop_delivery does.
Cancels(e, f, b) ==
  /\ f.text = e.text /\ f.docs = e.docs /\ f.next = e.next /\ f.calls = e.calls
  /\ f.deliveries = [d \in DeliveryId |->
       IF d \in UnderKey(e, b) THEN [e.deliveries[d] EXCEPT !.status = "dropped", !.waiting = {}]
       ELSE e.deliveries[d]]
  /\ f.clients = [s \in ServerId |->
       [e.clients[s] EXCEPT !.pending =
          e.clients[s].pending \ {d \in UnderKey(e, b) : s \in e.deliveries[d].waiting}]]
  /\ (f.deliveries \in [DeliveryId -> Deliveries] /\ f.clients \in [ServerId -> Clients]) =>
       f \in EditorStates

\* It does.
LEMMA CancelIs ==
  ASSUME NEW e \in EditorStates, NEW b, NEW f, f = CancelSuperseded(e, b)
  PROVE  Cancels(e, f, b)
  BY DEF CancelSuperseded, Cancels, EditorStates, UnderKey

\* drop_delivery leaves the other deliveries what they are owed.
LEMMA CancelKeeps ==
  ASSUME NEW e, NEW R, Sound(e, R), NEW b
  PROVE  /\ Sound(CancelSuperseded(e, b), R) /\ RunsNothing(e, CancelSuperseded(e, b))
         /\ CancelSuperseded(e, b).docs = e.docs
         /\ \A d \in DeliveryId :
              CancelSuperseded(e, b).deliveries[d].status = "none"
                <=> e.deliveries[d].status = "none"
  <1>0. PICK f, under : f = CancelSuperseded(e, b) /\ under = UnderKey(e, b)
    OBVIOUS
  <1>1. e \in EditorStates /\ \A s \in ServerId : e.clients[s] \in Clients /\ SoundClient(e.clients[s])
    BY EditorParts DEF Sound
  <1>2. Cancels(e, f, b)
    BY <1>0, <1>1, CancelIs
  <1>3. under \subseteq DeliveryId /\ \A d \in under : e.deliveries[d].status = "waiting"
    BY <1>0 DEF UnderKey
  <1>4. ASSUME NEW s \in ServerId
        PROVE  /\ f.clients[s] \in Clients /\ SoundClient(f.clients[s])
               /\ Knows(f.clients[s]) = Knows(e.clients[s])
               /\ f.clients[s].state = e.clients[s].state /\ f.clients[s].name = e.clients[s].name
               /\ f.clients[s].sync = e.clients[s].sync /\ f.clients[s].asked = e.clients[s].asked
               /\ \A d \in DeliveryId \ under :
                    d \in e.clients[s].pending => d \in f.clients[s].pending
    <2>1. PICK c \in Clients : c = e.clients[s]
      BY <1>1
    <2>2. PICK left \in SUBSET DeliveryId :
            /\ left = c.pending \ {d \in under : s \in e.deliveries[d].waiting}
            /\ c.state \notin Live => left = c.pending
      <3>1. c.pending \ {d \in under : s \in e.deliveries[d].waiting} \in SUBSET DeliveryId
        BY <2>1 DEF Clients
      <3>2. c.state \notin Live => c.pending = {}
        BY <1>1, <2>1 DEF SoundClient, NoClient
      <3> QED BY <3>1, <3>2
    <2>3. f.clients[s] = [c EXCEPT !.pending = left]
      BY <1>0, <1>2, <2>1, <2>2 DEF Cancels
    <2>4. /\ f.clients[s] \in Clients /\ f.clients[s].told = c.told
          /\ f.clients[s].queued = c.queued /\ f.clients[s].ended = c.ended
          /\ f.clients[s].state = c.state /\ f.clients[s].name = c.name
          /\ f.clients[s].sync = c.sync /\ f.clients[s].asked = c.asked
          /\ f.clients[s].pending = left /\ (c.state \notin Live => f.clients[s] = c)
      <3>1. [c EXCEPT !.pending = c.pending] = c
        BY DEF Clients
      <3>2. c.state \notin Live => f.clients[s] = c
        BY <2>2, <2>3, <3>1
      <3> QED BY <2>3, <3>2 DEF Clients
    <2>5. SoundClient(f.clients[s])
      BY <1>1, <2>1, <2>4 DEF SoundClient
    <2>6. Knows(f.clients[s]) = Knows(e.clients[s])
      BY <2>1, <2>4 DEF Knows
    <2> QED BY <2>1, <2>2, <2>4, <2>5, <2>6
  <1>5. ASSUME NEW d \in DeliveryId
        PROVE  /\ f.deliveries[d] \in Deliveries
               /\ f.deliveries[d].version = e.deliveries[d].version
               /\ d \in under => f.deliveries[d].status = "dropped" /\ f.deliveries[d].waiting = {}
               /\ d \notin under => f.deliveries[d] = e.deliveries[d]
    <2>1. PICK x \in Deliveries : x = e.deliveries[d]
      BY <1>1, EditorParts
    <2>2. f.deliveries[d] = IF d \in under THEN [x EXCEPT !.status = "dropped", !.waiting = {}]
                            ELSE x
      BY <1>0, <1>2, <2>1 DEF Cancels
    <2> QED BY <2>1, <2>2 DEF Deliveries, Statuses
  <1>6. f \in EditorStates
    <2>1. f.clients \in [ServerId -> Clients]
      BY <1>2, <1>4 DEF Cancels
    <2>2. f.deliveries \in [DeliveryId -> Deliveries]
      BY <1>2, <1>5 DEF Cancels
    <2> QED BY <1>2, <2>1, <2>2 DEF Cancels
  <1>7. f.text = e.text /\ f.docs = e.docs /\ f.next = e.next /\ f.calls = e.calls
    BY <1>2 DEF Cancels
  <1>8. \A d \in DeliveryId : /\ f.deliveries[d].status = "none" <=> e.deliveries[d].status = "none"
                              /\ f.deliveries[d].status = "waiting" => d \notin under
    BY <1>3, <1>5
  <1>9. Staffed(f, R)
    <2>1. \A s \in ServerId : Referenced(f, s) <=> Referenced(e, s)
      BY <1>7 DEF Referenced
    <2> QED BY <1>4, <1>7, <2>1 DEF Sound, Staffed
  <1>10. Owed(f)
    <2>1. Owed(e)
      BY DEF Sound
    <2>2. ASSUME NEW d \in DeliveryId
          PROVE  /\ f.deliveries[d].status = "waiting" <=> f.deliveries[d].waiting # {}
                 /\ \A s \in f.deliveries[d].waiting :
                      f.clients[s].state = "running" /\ d \in f.clients[s].pending
      <3>1. CASE d \in under
        BY <1>5, <3>1
      <3>2. CASE d \notin under
        <4>1. e.deliveries[d].waiting \in SUBSET ServerId
          BY <1>1, EditorParts DEF Deliveries
        <4> QED BY <1>4, <1>5, <2>1, <3>2, <4>1 DEF Owed
      <3> QED BY <3>1, <3>2
    <2>3. ASSUME NEW i \in DOMAIN f.calls
          PROVE  f.deliveries[f.calls[i]].status \notin {"none", "waiting"}
      <3>1. e.calls \in Seq(DeliveryId)
        BY <1>1, EditorParts
      <3>2. f.calls[i] \in DeliveryId /\ f.calls[i] = e.calls[i] /\ i \in DOMAIN e.calls
        BY <1>7, <3>1
      <3> QED BY <1>5, <2>1, <3>2 DEF Owed
    <2>4. \E n \in 0 .. MaxRequests : \A d \in DeliveryId :
            f.deliveries[d].status # "none" <=> d <= n
      BY <1>8, <2>1 DEF Owed
    <2> QED BY <2>2, <2>3, <2>4 DEF Owed
  <1>11. Informed(f)
    <2>1. Informed(e)
      BY DEF Sound
    <2>2. \A s \in ServerId : \A q \in e.clients[s].asked : q.request \in DeliveryId
      BY <1>1 DEF Clients, Questions
    <2> QED BY <1>4, <1>5, <1>8, <2>1, <2>2 DEF Informed
  <1>12. ASSUME NEW s \in ServerId, NEW x \in BufferId
         PROVE  Follows(f.clients[s], x, s \in f.docs[x].attached, ExpectedOf(f.docs[x], f.text[x]))
    <2>1. Follows(e.clients[s], x, s \in e.docs[x].attached, ExpectedOf(e.docs[x], e.text[x]))
      BY DEF Sound
    <2> QED BY <1>4, <1>7, <2>1 DEF Follows
  <1>13. \A x \in BufferId : Chained(f.docs[x], f.text[x])
    BY <1>7 DEF Sound
  <1>14. Sound(f, R)
    BY <1>4, <1>6, <1>9, <1>10, <1>11, <1>12, <1>13 DEF Sound
  <1>15. RunsNothing(e, f)
    BY <1>5 DEF RunsNothing
  <1> QED BY <1>0, <1>7, <1>8, <1>14, <1>15

-----------------------------------------------------------------------------
(* Plans, and the servers they ask for *)

\* The same texts, documents, servers and deliveries, whatever is planned.
Replans(e, f) ==
  /\ f.text = e.text /\ f.docs = e.docs /\ f.clients = e.clients /\ f.next = e.next
  /\ f.deliveries = e.deliveries /\ f.calls = e.calls

\* A plan says nothing about servers that run.
LEMMA ReplansKeep ==
  ASSUME NEW e, NEW f \in EditorStates, NEW R, Sound(e, R), Replans(e, f)
  PROVE  Sound(f, R) /\ RunsNothing(e, f)
  <1>1. Staffed(f, R)
    BY DEF Sound, Replans, Staffed, Referenced
  <1>2. Owed(f) /\ Informed(f)
    BY DEF Sound, Replans, Owed, Informed
  <1> QED BY <1>1, <1>2 DEF Sound, Replans, RunsNothing

\* The editor with a server started.
Spawned(e, name) == [e EXCEPT !.clients[e.next] = Starting(name), !.next = @ + 1]

\* A server that starts knows nothing.
LEMMA StartingIs ==
  ASSUME NEW name \in ServerName, NEW c, c = Starting(name)
  PROVE  /\ c \in Clients /\ SoundClient(c) /\ c.state = "starting" /\ c.name = name
         /\ c.asked = {}
         /\ \A b \in BufferId : Knows(c)[b] = Closed
  <1>1. NoClient \in Clients
    BY NoClientIs
  <1>2. <<>> \in Seq(Messages) /\ DOMAIN (<<>>) = {}
    OBVIOUS
  <1>3. [b \in BufferId |-> Closed] \in Told
    BY DEF Told, Closed
  <1>4. c = [state |-> "starting", name |-> name, sync |-> "full",
             queued |-> <<>>, initialize |-> TRUE, pending |-> {}, ended |-> {},
             told |-> [b \in BufferId |-> Closed], asked |-> {}]
    BY DEF Starting, NoClient
  <1>5. c \in Clients /\ SoundClient(c)
    BY <1>2, <1>3, <1>4 DEF Clients, SoundClient, Live, Syncs
  <1>6. Knows(c) = [b \in BufferId |-> Closed]
    BY <1>3, <1>4, ReadNothing DEF Knows, Read
  <1>7. \A b \in BufferId : Knows(c)[b] = Closed
    BY <1>6
  <1>8. c.state = "starting" /\ c.name = name /\ c.asked = {}
    BY <1>4
  <1> QED BY <1>5, <1>7, <1>8

\* A server is started for a name that has none.
LEMMA SpawnKeeps ==
  ASSUME NEW e, NEW R, Sound(e, R), NEW name \in ServerName, Find(e, name) = {},
         e.next \in ServerId
  PROVE  /\ Sound(Spawned(e, name), R \union {e.next})
         /\ RunsNothing(e, Spawned(e, name))
         /\ Spawned(e, name).docs = e.docs
         /\ Spawned(e, name).clients[e.next].state \in Live
         /\ \A b \in BufferId : e.next \notin e.docs[b].attached
  <1>0. PICK f, sid, c : f = Spawned(e, name) /\ sid = e.next /\ c = Starting(name)
    OBVIOUS
  <1>1. e \in EditorStates /\ sid \in ServerId /\ MaxServers \in Nat
    BY <1>0, LspSessionAssumption DEF Sound
  <1>2. /\ c \in Clients /\ SoundClient(c) /\ c.state = "starting" /\ c.name = name
        /\ c.asked = {}
        /\ \A b \in BufferId : Knows(c)[b] = Closed
    BY <1>0, StartingIs
  <1>3. /\ f \in EditorStates /\ f.text = e.text /\ f.docs = e.docs /\ f.deliveries = e.deliveries
        /\ f.calls = e.calls /\ f.next = sid + 1
        /\ f.clients[sid] = c /\ \A s \in ServerId : s # sid => f.clients[s] = e.clients[s]
    <2>1. e.clients \in [ServerId -> Clients] /\ e.next = sid /\ sid + 1 \in 1 .. MaxServers + 1
      BY <1>0, <1>1 DEF EditorStates, ServerId
    <2>2. PICK clients \in [ServerId -> Clients] : clients = [e.clients EXCEPT ![sid] = c]
      BY <1>1, <1>2, <2>1
    <2>3. PICK n \in 1 .. MaxServers + 1 : n = sid + 1
      BY <2>1
    <2>4. f = [e EXCEPT !.clients = clients, !.next = n]
      BY <1>0, <2>1, <2>2, <2>3 DEF Spawned
    <2>5. /\ f \in EditorStates /\ f.text = e.text /\ f.docs = e.docs
          /\ f.deliveries = e.deliveries /\ f.calls = e.calls /\ f.next = n /\ f.clients = clients
      BY <1>1, <2>4 DEF EditorStates
    <2>6. clients[sid] = c /\ \A s \in ServerId : s # sid => clients[s] = e.clients[s]
      BY <1>1, <2>1, <2>2
    <2> QED BY <2>3, <2>5, <2>6
  <1>4. e.clients[sid].state = "none" /\ \A b \in BufferId : sid \notin e.docs[b].attached
    <2>1. Staffed(e, R)
      BY DEF Sound
    <2>2. sid >= e.next
      BY <1>0, <1>1 DEF ServerId
    <2>3. e.clients[sid].state = "none"
      BY <1>1, <2>1, <2>2 DEF Staffed
    <2>4. ~Referenced(e, sid)
      BY <1>1, <2>1, <2>3 DEF Staffed, Live
    <2> QED BY <2>3, <2>4 DEF Referenced
  <1>5. ASSUME NEW s \in ServerId, NEW b \in BufferId
        PROVE  Follows(f.clients[s], b, s \in f.docs[b].attached, ExpectedOf(f.docs[b], f.text[b]))
    <2>1. CASE s = sid
      BY <1>2, <1>3, <1>4, <2>1 DEF Follows
    <2>2. CASE s # sid
      BY <1>3, <2>2 DEF Sound
    <2> QED BY <2>1, <2>2
  <1>6. Staffed(f, R \union {sid})
    <2>1. Staffed(e, R)
      BY DEF Sound
    <2>2. \A s \in ServerId : Referenced(f, s) <=> Referenced(e, s)
      BY <1>3 DEF Referenced
    <2>3. ~Referenced(e, sid)
      BY <1>4 DEF Referenced
    <2>4. \A s \in ServerId : e.clients[s].state \in Live => e.clients[s].name # name
      BY DEF Find
    <2>5. \A s \in ServerId : Referenced(f, s) => f.clients[s].state \in Live
      BY <1>3, <2>1, <2>2, <2>3 DEF Staffed
    <2>6. \A s \in ServerId : f.clients[s].state \in Live => Referenced(f, s) \/ s \in R \union {sid}
      BY <1>3, <2>1, <2>2 DEF Staffed
    <2>7. ASSUME NEW s \in ServerId, NEW t \in ServerId, f.clients[s].state \in Live,
                 f.clients[t].state \in Live, f.clients[s].name = f.clients[t].name
          PROVE  s = t
      BY <1>2, <1>3, <2>1, <2>4, <2>7 DEF Staffed
    <2>8. ASSUME NEW s \in ServerId, s >= f.next
          PROVE  f.clients[s].state = "none"
      <3>1. s # sid /\ s >= sid
        BY <1>1, <1>3, <2>8 DEF ServerId
      <3> QED BY <1>0, <1>3, <2>1, <3>1 DEF Staffed
    <2> QED BY <2>5, <2>6, <2>7, <2>8 DEF Staffed
  <1>7. Owed(f)
    <2>1. Owed(e)
      BY DEF Sound
    <2>2. \A d \in DeliveryId : e.deliveries[d].waiting \in SUBSET ServerId
      BY <1>1, EditorParts DEF Deliveries
    <2>3. \A d \in DeliveryId : sid \notin e.deliveries[d].waiting
      BY <1>4, <2>1 DEF Owed
    <2> QED BY <1>3, <2>1, <2>2, <2>3 DEF Owed
  <1>8. Informed(f)
    <2>1. Informed(e)
      BY DEF Sound
    <2> QED BY <1>2, <1>3, <2>1 DEF Informed
  <1>9. \A s \in ServerId : SoundClient(f.clients[s])
    BY <1>2, <1>3 DEF Sound
  <1>10. \A b \in BufferId : Chained(f.docs[b], f.text[b])
    BY <1>3 DEF Sound
  <1>11. Sound(f, R \union {sid})
    BY <1>3, <1>5, <1>6, <1>7, <1>8, <1>9, <1>10 DEF Sound
  <1>12. RunsNothing(e, f) /\ f.clients[sid].state \in Live
    BY <1>2, <1>3 DEF RunsNothing, Live
  <1> QED BY <1>0, <1>3, <1>4, <1>11, <1>12

\* lsp_instance_for attaches a buffer to the one server of a name.
LEMMA AttachToKeeps ==
  ASSUME NEW e, NEW R, Sound(e, R), NEW b \in BufferId, NEW name \in ServerName, NEW broken
  PROVE  Sound(AttachTo(e, b, name, broken), R) /\ RunsNothing(e, AttachTo(e, b, name, broken))
  <1>0. PICK f, found : f = AttachTo(e, b, name, broken) /\ found = Find(e, name)
    OBVIOUS
  <1>1. CASE found = {} /\ (name \in broken \/ e.next \notin ServerId)
    <2>1. f = e
      BY <1>0, <1>1 DEF AttachTo
    <2> QED BY <1>0, <2>1 DEF RunsNothing
  <1>2. CASE found = {} /\ name \notin broken /\ e.next \in ServerId
    <2>1. PICK g, sid : g = Spawned(e, name) /\ sid = e.next
      OBVIOUS
    <2>2. f = Attach(g, b, sid)
      BY <1>0, <1>2, <2>1 DEF AttachTo, Spawned
    <2>3. /\ Sound(g, R \union {sid}) /\ RunsNothing(e, g)
          /\ g.clients[sid].state \in Live /\ sid \notin g.docs[b].attached /\ sid \in ServerId
      BY <1>0, <1>2, <2>1, SpawnKeeps
    <2>4. Sound(f, (R \union {sid}) \ {sid}) /\ Retells(g, f, b)
      BY <2>2, <2>3, AttachKeeps
    <2>5. Sound(f, R)
      BY <2>4, SoundMore
    <2>6. RunsNothing(e, f)
      BY <2>3, <2>4, WritesRunNothing, RunsNothingTwice DEF Retells
    <2> QED BY <1>0, <2>5, <2>6
  <1>3. CASE found # {}
    <2>1. PICK sid : sid = (CHOOSE s \in found : TRUE)
      OBVIOUS
    <2>2. sid \in found
      BY <1>3, <2>1
    <2>3. sid \in ServerId /\ e.clients[sid].state \in Live
      BY <1>0, <2>2 DEF Find
    <2>4. f = IF sid \in e.docs[b].attached THEN e ELSE Attach(e, b, sid)
      BY <1>0, <1>3, <2>1 DEF AttachTo
    <2>5. CASE sid \in e.docs[b].attached
      <3>1. f = e
        BY <2>4, <2>5
      <3> QED BY <1>0, <3>1 DEF RunsNothing
    <2>6. CASE sid \notin e.docs[b].attached
      <3>1. Sound(f, R \ {sid}) /\ Retells(e, f, b)
        BY <2>3, <2>4, <2>6, AttachKeeps
      <3> QED BY <1>0, <3>1, SoundMore, WritesRunNothing DEF Retells
    <2> QED BY <2>5, <2>6
  <1> QED BY <1>1, <1>2, <1>3

-----------------------------------------------------------------------------
(* Reconciling *)

\* The editors that are sound and have run nothing since e.
SoundSince(e, R) == {f \in EditorStates : Sound(f, R) /\ RunsNothing(e, f)}

\* An editor has run nothing since itself.
LEMMA SoundSinceIs ==
  ASSUME NEW e, NEW R
  PROVE  /\ Sound(e, R) => e \in SoundSince(e, R)
         /\ \A f : f \in SoundSince(e, R) <=> Sound(f, R) /\ RunsNothing(e, f)
  BY DEF SoundSince, Sound, RunsNothing

AttachStep(e, R, b, names, broken) ==
  [p \in names \X SoundSince(e, R) |-> AttachTo(p[2], b, p[1], broken)]

\* A buffer is attached to the server of each name in turn.
AttachesOver(it, e, b, names, broken) ==
  it = [s \in SUBSET names |->
         IF s = {} THEN e
         ELSE AttachTo(it[s \ {CHOOSE x \in s : TRUE}], b, CHOOSE x \in s : TRUE, broken)]

\* The step of AttachAll.
LEMMA AttachStepIs ==
  ASSUME NEW e, NEW R, NEW b \in BufferId, NEW names \in SUBSET ServerName, NEW broken
  PROVE  /\ AttachStep(e, R, b, names, broken) \in [names \X SoundSince(e, R) -> SoundSince(e, R)]
         /\ \A name \in names, f \in SoundSince(e, R) :
              AttachStep(e, R, b, names, broken)[<<name, f>>] = AttachTo(f, b, name, broken)
  <1>1. ASSUME NEW name \in names, NEW f \in SoundSince(e, R)
        PROVE  AttachTo(f, b, name, broken) \in SoundSince(e, R)
    <2>1. Sound(f, R) /\ RunsNothing(e, f)
      BY SoundSinceIs
    <2>2. Sound(AttachTo(f, b, name, broken), R) /\ RunsNothing(f, AttachTo(f, b, name, broken))
      BY <2>1, AttachToKeeps
    <2> QED BY <2>1, <2>2, RunsNothingTwice, SoundSinceIs
  <1> QED BY <1>1 DEF AttachStep

\* Attaching a buffer to the servers of some names keeps the editor sound.
LEMMA AttachAllKeeps ==
  ASSUME NEW e, NEW R, Sound(e, R), NEW b \in BufferId, NEW names \in SUBSET ServerName,
         NEW broken
  PROVE  Sound(AttachAll(e, b, names, broken), R)
         /\ RunsNothing(e, AttachAll(e, b, names, broken))
  <1> DEFINE V == SoundSince(e, R)
             step == AttachStep(e, R, b, names, broken)
  <1>1. IsFiniteSet(names)
    BY LspSessionAssumption, FS_Subset
  <1>2. step \in [names \X V -> V] /\ e \in V
    BY AttachStepIs, SoundSinceIs
  <1>a. \A name \in names, f \in V : step[<<name, f>>] = AttachTo(f, b, name, broken)
    BY DEF AttachStep
  <1> HIDE DEF V, step
  <1>3. PICK g : SetFoldIn(g, V, e, names, step)
    BY <1>1, <1>2, SetFoldExists
  <1>b. \A s \in SUBSET names : s # {} =>
          (CHOOSE x \in s : TRUE) \in names /\ s \ {CHOOSE x \in s : TRUE} \in SUBSET names
    OBVIOUS
  <1>4. AttachesOver(g, e, b, names, broken)
    <2>1. ASSUME NEW s \in SUBSET names, s # {}
          PROVE  g[s] = AttachTo(g[s \ {CHOOSE x \in s : TRUE}], b, CHOOSE x \in s : TRUE, broken)
      <3>1. PICK x \in names : x = CHOOSE y \in s : TRUE
        BY <1>b, <2>1
      <3>2. g[s \ {x}] \in V /\ g[s] = step[<<x, g[s \ {x}]>>]
        BY <1>3, <1>b, <2>1, <3>1 DEF SetFoldIn, SetFold
      <3> QED BY <1>a, <3>1, <3>2
    <2>2. g = [s \in SUBSET names |-> g[s]] /\ g[{}] = e
      BY <1>3 DEF SetFoldIn, SetFold
    <2> QED BY <2>1, <2>2 DEF AttachesOver
  <1>5. PICK it : AttachesOver(it, e, b, names, broken)
                  /\ AttachAll(e, b, names, broken) = it[names]
    <2>1. AttachAll(e, b, names, broken)
            = (CHOOSE it : AttachesOver(it, e, b, names, broken))[names]
      BY DEF AttachAll, FoldSet, MapThenFoldSet, AttachesOver
    <2> QED BY <1>4, <2>1
  <1>6. SetFold(it, V, e, names, step)
    <2>1. ASSUME NEW s \in SUBSET names, s # {}, it[s \ {CHOOSE x \in s : TRUE}] \in V
          PROVE  it[s] = step[<<CHOOSE x \in s : TRUE, it[s \ {CHOOSE x \in s : TRUE}]>>]
      <3>1. PICK x \in names : x = CHOOSE y \in s : TRUE
        BY <1>b, <2>1
      <3>2. it[s] = AttachTo(it[s \ {x}], b, x, broken)
        BY <1>5, <2>1, <3>1 DEF AttachesOver
      <3> QED BY <1>a, <2>1, <3>1, <3>2
    <2>2. it = [s \in SUBSET names |-> it[s]] /\ it[{}] = e
      BY <1>5 DEF AttachesOver
    <2> QED BY <2>1, <2>2 DEF SetFold
  <1>7. it[names] \in V
    <2> DEFINE W == [s \in SUBSET names |-> V]
    <2>1. \A s \in SUBSET names : W[s] \subseteq V
      OBVIOUS
    <2>2. e \in W[{}]
      BY <1>2
    <2>3. \A s \in SUBSET names : \A x \in s : \A v \in W[s \ {x}] : step[<<x, v>>] \in W[s]
      BY <1>2
    <2>4. W[names] = V
      OBVIOUS
    <2> HIDE DEF W
    <2> QED BY <1>1, <1>6, <2>1, <2>2, <2>3, <2>4, SetFoldReaches
  <1> QED BY <1>5, <1>7, SoundSinceIs DEF V

\* The servers a buffer leaves were attached to it.
LEMMA RetiredIs ==
  ASSUME NEW e, NEW b, e \in EditorStates, b \in BufferId
  PROVE  Retired(e, b) \in SUBSET ServerId /\ Retired(e, b) \subseteq e.docs[b].attached
         /\ Wanted(e, b) \in SUBSET ServerName
  <1>1. e.docs[b].attached \in SUBSET ServerId
    BY EditorParts
  <1>2. e.wanted[b] \in SUBSET ServerName
    BY DEF EditorStates
  <1> QED BY <1>1, <1>2 DEF Retired, Wanted

\* lsp_reconcile_one leaves the servers of a buffer that are to be stopped.
LEMMA ReconcileOneKeeps ==
  ASSUME NEW e, NEW R, Sound(e, R), NEW b \in BufferId, NEW broken
  PROVE  /\ Sound(ReconcileOne(e, b, broken), R \union Retired(e, b))
         /\ RunsNothing(e, ReconcileOne(e, b, broken))
  <1>1. Retired(e, b) \subseteq e.docs[b].attached /\ Wanted(e, b) \in SUBSET ServerName
    BY RetiredIs DEF Sound
  <1>2. PICK f : f = DetachEach(e, b, Retired(e, b))
    OBVIOUS
  <1>3. Sound(f, R \union Retired(e, b)) /\ Retells(e, f, b)
    BY <1>1, <1>2, DetachKeeps
  <1>4. ReconcileOne(e, b, broken) = AttachAll(f, b, Wanted(e, b), broken)
    BY <1>2 DEF ReconcileOne
  <1>5. RunsNothing(e, f)
    BY <1>3, WritesRunNothing DEF Retells
  <1> QED BY <1>1, <1>3, <1>4, <1>5, AttachAllKeeps, RunsNothingTwice

\* lsp_reconcile_buffer stops those no other buffer is attached to.
LEMMA ReconcileBufferKeeps ==
  ASSUME NEW e, Sound(e, {}), NEW b \in BufferId, NEW broken
  PROVE  Sound(ReconcileBuffer(e, b, broken), {}) /\ RunsNothing(e, ReconcileBuffer(e, b, broken))
  <1>1. PICK f, sids : f = ReconcileOne(e, b, broken) /\ sids = Retired(e, b)
    OBVIOUS
  <1>2. sids \in SUBSET ServerId
    BY <1>1, RetiredIs DEF Sound
  <1>3. Sound(f, sids) /\ RunsNothing(e, f)
    <2>1. {} \union sids = sids
      OBVIOUS
    <2> QED BY <1>1, <2>1, ReconcileOneKeeps
  <1>4. ReconcileBuffer(e, b, broken) = StopUnreferenced(f, sids)
    BY <1>1 DEF ReconcileBuffer
  <1> QED BY <1>2, <1>3, <1>4, StopUnreferencedKeeps, RunsNothingTwice

\* What ReconcileAll has done so far: the editor, and the servers to be stopped.
Reconciled(e) ==
  {acc \in [ed : EditorStates, retired : SUBSET ServerId] :
     Sound(acc.ed, acc.retired) /\ RunsNothing(e, acc.ed)}

\* It goes on with a buffer.
ReconcileMore(acc, b, broken) ==
  [ed |-> ReconcileOne(acc.ed, b, broken), retired |-> acc.retired \union Retired(acc.ed, b)]

ReconcileStep(e, broken) ==
  [p \in BufferId \X Reconciled(e) |-> ReconcileMore(p[2], p[1], broken)]

\* The step of ReconcileAll.
LEMMA ReconcileStepIs ==
  ASSUME NEW e, NEW broken
  PROVE  ReconcileStep(e, broken) \in [BufferId \X Reconciled(e) -> Reconciled(e)]
  <1>1. ASSUME NEW b \in BufferId, NEW acc \in Reconciled(e)
        PROVE  ReconcileMore(acc, b, broken) \in Reconciled(e)
    <2>1. PICK f, R : f = acc.ed /\ R = acc.retired
      OBVIOUS
    <2>2. Sound(f, R) /\ RunsNothing(e, f) /\ f \in EditorStates /\ R \in SUBSET ServerId
      BY <2>1 DEF Reconciled
    <2>3. PICK g, P : g = ReconcileOne(f, b, broken) /\ P = R \union Retired(f, b)
      OBVIOUS
    <2>4. P \in SUBSET ServerId
      BY <2>2, <2>3, RetiredIs
    <2>5. Sound(g, P) /\ RunsNothing(e, g)
      BY <2>2, <2>3, ReconcileOneKeeps, RunsNothingTwice
    <2>6. g \in EditorStates
      BY <2>5 DEF Sound
    <2>7. ReconcileMore(acc, b, broken) = [ed |-> g, retired |-> P]
      BY <2>1, <2>3 DEF ReconcileMore
    <2> QED BY <2>4, <2>5, <2>6, <2>7 DEF Reconciled
  <1> QED BY <1>1 DEF ReconcileStep

\* The buffers are reconciled in turn.
ReconcilesOver(it, e, broken) ==
  it = [s \in SUBSET BufferId |->
         IF s = {} THEN [ed |-> e, retired |-> {}]
         ELSE ReconcileMore(it[s \ {CHOOSE x \in s : TRUE}], CHOOSE x \in s : TRUE, broken)]

\* A set of buffers has one, and it leaves the rest.
LEMMA OneOfBuffers ==
  \A s \in SUBSET BufferId : s # {} =>
    (CHOOSE x \in s : TRUE) \in BufferId /\ s \ {CHOOSE x \in s : TRUE} \in SUBSET BufferId
  OBVIOUS

\* Reconciling every buffer keeps the editor sound.
LEMMA ReconcileAllKeeps ==
  ASSUME NEW e, Sound(e, {}), NEW broken
  PROVE  Sound(ReconcileAll(e, broken), {}) /\ RunsNothing(e, ReconcileAll(e, broken))
  <1> DEFINE V == Reconciled(e)
             step == ReconcileStep(e, broken)
  <1>0. PICK base : base = [ed |-> e, retired |-> {}]
    OBVIOUS
  <1>1. IsFiniteSet(BufferId)
    BY LspSessionAssumption
  <1>2. step \in [BufferId \X V -> V]
    BY ReconcileStepIs
  <1>3. base \in V
    <2>1. e \in EditorStates /\ RunsNothing(e, e)
      BY DEF Sound, RunsNothing
    <2> QED BY <1>0, <2>1 DEF Reconciled
  <1>a. \A b \in BufferId, acc \in V : step[<<b, acc>>] = ReconcileMore(acc, b, broken)
    BY DEF ReconcileStep
  <1> HIDE DEF V, step
  <1>4. PICK g : SetFoldIn(g, V, base, BufferId, step)
    BY <1>1, <1>2, <1>3, SetFoldExists
  <1>5. ReconcilesOver(g, e, broken)
    <2>1. ASSUME NEW s \in SUBSET BufferId, s # {}
          PROVE  g[s] = ReconcileMore(g[s \ {CHOOSE x \in s : TRUE}], CHOOSE x \in s : TRUE, broken)
      <3>1. PICK x \in BufferId : x = CHOOSE y \in s : TRUE
        BY <2>1
      <3>2. g[s \ {x}] \in V /\ g[s] = step[<<x, g[s \ {x}]>>]
        BY <1>4, <2>1, <3>1 DEF SetFoldIn, SetFold
      <3> QED BY <1>a, <3>1, <3>2
    <2>2. g = [s \in SUBSET BufferId |-> g[s]] /\ g[{}] = base
      BY <1>4 DEF SetFoldIn, SetFold
    <2> QED BY <1>0, <2>1, <2>2 DEF ReconcilesOver
  <1>6. PICK it : /\ ReconcilesOver(it, e, broken)
                  /\ ReconcileAll(e, broken) = StopUnreferenced(it[BufferId].ed, it[BufferId].retired)
    <2>1. PICK done : done = (CHOOSE it : ReconcilesOver(it, e, broken))[BufferId]
      OBVIOUS
    <2>2. ReconcileAll(e, broken) = StopUnreferenced(done.ed, done.retired)
      BY <2>1 DEF ReconcileAll, FoldSet, MapThenFoldSet, ReconcilesOver, ReconcileMore
    <2> QED BY <1>5, <2>1, <2>2
  <1>7. SetFold(it, V, base, BufferId, step)
    <2>1. ASSUME NEW s \in SUBSET BufferId, s # {}, it[s \ {CHOOSE x \in s : TRUE}] \in V
          PROVE  it[s] = step[<<CHOOSE x \in s : TRUE, it[s \ {CHOOSE x \in s : TRUE}]>>]
      <3>1. PICK x \in BufferId : x = CHOOSE y \in s : TRUE
        BY <2>1
      <3>2. it[s] = ReconcileMore(it[s \ {x}], x, broken)
        BY <1>6, <2>1, <3>1, OneOfBuffers DEF ReconcilesOver
      <3> QED BY <1>a, <2>1, <3>1, <3>2
    <2>2. it = [s \in SUBSET BufferId |-> it[s]] /\ it[{}] = base
      BY <1>0, <1>6 DEF ReconcilesOver
    <2> QED BY <2>1, <2>2 DEF SetFold
  <1>8. it[BufferId] \in V
    <2> DEFINE W == [s \in SUBSET BufferId |-> V]
    <2>1. \A s \in SUBSET BufferId : W[s] \subseteq V
      OBVIOUS
    <2>2. base \in W[{}]
      BY <1>3
    <2>3. \A s \in SUBSET BufferId : \A x \in s : \A v \in W[s \ {x}] : step[<<x, v>>] \in W[s]
      BY <1>2
    <2>4. W[BufferId] = V
      OBVIOUS
    <2> HIDE DEF W
    <2> QED BY <1>1, <1>7, <2>1, <2>2, <2>3, <2>4, SetFoldReaches
  <1>9. PICK f, R : f = it[BufferId].ed /\ R = it[BufferId].retired
    OBVIOUS
  <1>10. Sound(f, R) /\ RunsNothing(e, f) /\ R \in SUBSET ServerId
    BY <1>8, <1>9 DEF V, Reconciled
  <1> QED BY <1>6, <1>9, <1>10, StopUnreferencedKeeps, RunsNothingTwice

-----------------------------------------------------------------------------
(* Stopping the servers of a name *)

\* The servers, found, of a buffer are detached.
DetachFound(f, b, found) == DetachEach(f, b, f.docs[b].attached \cap found)

DetachStep(e, found) ==
  [p \in BufferId \X SoundSince(e, found) |-> DetachFound(p[2], p[1], found)]

\* Detaching the servers found keeps the editor sound, but for them.
LEMMA DetachFoundKeeps ==
  ASSUME NEW e, NEW found, NEW b \in BufferId, NEW f \in SoundSince(e, found)
  PROVE  /\ DetachFound(f, b, found) \in SoundSince(e, found)
         /\ DetachFound(f, b, found).docs[b].attached \cap found = {}
         /\ \A x \in BufferId : x # b => DetachFound(f, b, found).docs[x] = f.docs[x]
  <1>1. Sound(f, found) /\ RunsNothing(e, f)
    BY SoundSinceIs
  <1>2. PICK sids, g : sids = f.docs[b].attached \cap found /\ g = DetachEach(f, b, sids)
    OBVIOUS
  <1>3. Sound(g, found \union sids) /\ Retells(f, g, b)
        /\ g.docs[b].attached = f.docs[b].attached \ sids
    <2>1. sids \subseteq f.docs[b].attached
      BY <1>2
    <2>2. /\ Sound(DetachEach(f, b, sids), found \union sids) /\ Retells(f, DetachEach(f, b, sids), b)
          /\ DetachEach(f, b, sids).docs[b].attached = f.docs[b].attached \ sids
      BY <1>1, <2>1, DetachKeeps
    <2> QED BY <1>2, <2>2
  <1>4. found \union sids = found
    BY <1>2
  <1>5. RunsNothing(e, g)
    BY <1>1, <1>3, WritesRunNothing, RunsNothingTwice DEF Retells
  <1>6. g \in SoundSince(e, found)
    BY <1>3, <1>4, <1>5, SoundSinceIs
  <1>7. DetachFound(f, b, found) = g
    BY <1>2 DEF DetachFound
  <1> QED BY <1>2, <1>3, <1>6, <1>7 DEF Retells

\* The servers found are detached from each buffer in turn.
DetachesOver(it, e, found) ==
  it = [s \in SUBSET BufferId |->
         IF s = {} THEN e
         ELSE DetachFound(it[s \ {CHOOSE x \in s : TRUE}], CHOOSE x \in s : TRUE, found)]

\* lsp_stop_targets stops the servers of a name, once no buffer is attached.
LEMMA StopTargetsKeeps ==
  ASSUME NEW e, Sound(e, {}), NEW name
  PROVE  Sound(StopTargets(e, name), {}) /\ RunsNothing(e, StopTargets(e, name))
  <1>0. PICK found \in SUBSET ServerId : found = Find(e, name)
    BY DEF Find
  <1> DEFINE V == SoundSince(e, found)
             step == DetachStep(e, found)
             W == [s \in SUBSET BufferId |->
                     {f \in V : \A x \in s : f.docs[x].attached \cap found = {}}]
  <1>1. IsFiniteSet(BufferId)
    BY LspSessionAssumption
  <1>2. step \in [BufferId \X V -> V]
    BY DetachFoundKeeps DEF DetachStep
  <1>3. e \in V
    <2>1. Sound(e, found)
      BY SoundMore
    <2> QED BY <2>1, SoundSinceIs
  <1>a. \A b \in BufferId, f \in V : step[<<b, f>>] = DetachFound(f, b, found)
    BY DEF DetachStep
  <1>b. \A s \in SUBSET BufferId : W[s] \subseteq V
    OBVIOUS
  <1>c. e \in W[{}]
    BY <1>3
  <1>d. ASSUME NEW s \in SUBSET BufferId, NEW x \in s, NEW f \in W[s \ {x}]
        PROVE  step[<<x, f>>] \in W[s]
    <2>1. f \in V /\ \A y \in s \ {x} : f.docs[y].attached \cap found = {}
      OBVIOUS
    <2>2. PICK g : g = step[<<x, f>>] /\ g = DetachFound(f, x, found)
      BY <1>a, <2>1
    <2>3. /\ g \in V /\ g.docs[x].attached \cap found = {}
          /\ \A y \in BufferId : y # x => g.docs[y] = f.docs[y]
      BY <2>1, <2>2, DetachFoundKeeps
    <2>4. \A y \in s : g.docs[y].attached \cap found = {}
      BY <2>1, <2>3
    <2> QED BY <2>2, <2>3, <2>4
  <1>e. W[BufferId] = {f \in V : \A x \in BufferId : f.docs[x].attached \cap found = {}}
    OBVIOUS
  <1> HIDE DEF V, step, W
  <1>4. PICK g : SetFoldIn(g, V, e, BufferId, step)
    BY <1>1, <1>2, <1>3, SetFoldExists
  <1>5. DetachesOver(g, e, found)
    <2>1. ASSUME NEW s \in SUBSET BufferId, s # {}
          PROVE  g[s] = DetachFound(g[s \ {CHOOSE x \in s : TRUE}], CHOOSE x \in s : TRUE, found)
      <3>1. PICK x \in BufferId : x = CHOOSE y \in s : TRUE
        BY <2>1
      <3>2. g[s \ {x}] \in V /\ g[s] = step[<<x, g[s \ {x}]>>]
        BY <1>4, <2>1, <3>1 DEF SetFoldIn, SetFold
      <3> QED BY <1>a, <3>1, <3>2
    <2>2. g = [s \in SUBSET BufferId |-> g[s]] /\ g[{}] = e
      BY <1>4 DEF SetFoldIn, SetFold
    <2> QED BY <2>1, <2>2 DEF DetachesOver
  <1>6. PICK it : DetachesOver(it, e, found)
                  /\ StopTargets(e, name) = StopInstances(it[BufferId], found)
    <2>1. PICK done : done = (CHOOSE it : DetachesOver(it, e, found))[BufferId]
      OBVIOUS
    <2>2. StopTargets(e, name) = StopInstances(done, found)
      BY <1>0, <2>1 DEF StopTargets, FoldSet, MapThenFoldSet, DetachesOver, DetachFound
    <2> QED BY <1>5, <2>1, <2>2
  <1>7. SetFold(it, V, e, BufferId, step)
    <2>1. ASSUME NEW s \in SUBSET BufferId, s # {}, it[s \ {CHOOSE x \in s : TRUE}] \in V
          PROVE  it[s] = step[<<CHOOSE x \in s : TRUE, it[s \ {CHOOSE x \in s : TRUE}]>>]
      <3>1. PICK x \in BufferId : x = CHOOSE y \in s : TRUE
        BY <2>1
      <3>2. it[s] = DetachFound(it[s \ {x}], x, found)
        BY <1>6, <2>1, <3>1, OneOfBuffers DEF DetachesOver
      <3> QED BY <1>a, <2>1, <3>1, <3>2
    <2>2. it = [s \in SUBSET BufferId |-> it[s]] /\ it[{}] = e
      BY <1>6 DEF DetachesOver
    <2> QED BY <2>1, <2>2 DEF SetFold
  <1>8. it[BufferId] \in W[BufferId]
    BY <1>1, <1>7, <1>b, <1>c, <1>d, SetFoldReaches
  <1>9. PICK f : f = it[BufferId]
    OBVIOUS
  <1>10. /\ Sound(f, found) /\ RunsNothing(e, f)
         /\ \A x \in BufferId : f.docs[x].attached \cap found = {}
    BY <1>8, <1>9, <1>e, SoundSinceIs DEF V
  <1>11. \A s \in found : ~Referenced(f, s)
    BY <1>10 DEF Referenced
  <1>12. Sound(StopInstances(f, found), found \ found) /\ RunsNothing(f, StopInstances(f, found))
    BY <1>10, <1>11, StopInstancesKeep
  <1>13. found \ found = {}
    OBVIOUS
  <1> QED BY <1>6, <1>9, <1>10, <1>12, <1>13, RunsNothingTwice

-----------------------------------------------------------------------------
(* Flushing every document *)

\* The editors that have told servers of documents, attached as they were.
FlushedSince(e, R) ==
  {f \in EditorStates :
     /\ Sound(f, R) /\ Writes(e, f)
     /\ \A x \in BufferId : f.docs[x].attached = e.docs[x].attached}

FlushStep(e, R) == [p \in BufferId \X FlushedSince(e, R) |-> Flush(p[2], p[1])]

\* Flushing a document leaves the others with what they have to send.
LEMMA FlushStepKeeps ==
  ASSUME NEW e, NEW R, NEW b \in BufferId, NEW f \in FlushedSince(e, R)
  PROVE  /\ Flush(f, b) \in FlushedSince(e, R)
         /\ Flush(f, b).docs[b].pending = <<>>
         /\ \A x \in BufferId : x # b => Flush(f, b).docs[x] = f.docs[x]
  <1>1. Sound(f, R) /\ Writes(e, f)
        /\ \A x \in BufferId : f.docs[x].attached = e.docs[x].attached
    BY DEF FlushedSince
  <1>2. PICK g : g = Flush(f, b)
    OBVIOUS
  <1>3. Sound(g, R) /\ Flushed(f, g, b)
    BY <1>1, <1>2, FlushKeeps
  <1>4. /\ Writes(f, g) /\ g.docs[b].pending = <<>> /\ g.docs[b].attached = f.docs[b].attached
        /\ \A x \in BufferId : x # b => g.docs[x] = f.docs[x]
    BY <1>3 DEF Flushed, Retells
  <1>5. Writes(e, g)
    BY <1>1, <1>4 DEF Writes
  <1>6. \A x \in BufferId : g.docs[x].attached = e.docs[x].attached
    BY <1>1, <1>4
  <1>7. g \in EditorStates
    BY <1>3 DEF Sound
  <1> QED BY <1>2, <1>3, <1>4, <1>5, <1>6, <1>7 DEF FlushedSince

\* The documents are flushed in turn.
FlushesOver(it, e) ==
  it = [s \in SUBSET BufferId |->
         IF s = {} THEN e
         ELSE Flush(it[s \ {CHOOSE x \in s : TRUE}], CHOOSE x \in s : TRUE)]

\* What a flush of every document leaves.
FlushedAll(e, f) ==
  /\ Writes(e, f)
  /\ \A x \in BufferId : f.docs[x].attached = e.docs[x].attached /\ f.docs[x].pending = <<>>

\* Flushing every document brings every server up to the text.
LEMMA FlushPendingKeeps ==
  ASSUME NEW e, NEW R, Sound(e, R)
  PROVE  Sound(FlushPending(e), R) /\ FlushedAll(e, FlushPending(e))
  <1> DEFINE V == FlushedSince(e, R)
             step == FlushStep(e, R)
             W == [s \in SUBSET BufferId |-> {f \in V : \A x \in s : f.docs[x].pending = <<>>}]
  <1>1. IsFiniteSet(BufferId)
    BY LspSessionAssumption
  <1>2. step \in [BufferId \X V -> V]
    BY FlushStepKeeps DEF FlushStep
  <1>3. e \in V
    BY DEF FlushedSince, Sound, Writes
  <1>a. \A b \in BufferId, f \in V : step[<<b, f>>] = Flush(f, b)
    BY DEF FlushStep
  <1>b. \A s \in SUBSET BufferId : W[s] \subseteq V
    OBVIOUS
  <1>c. e \in W[{}]
    BY <1>3
  <1>d. ASSUME NEW s \in SUBSET BufferId, NEW x \in s, NEW f \in W[s \ {x}]
        PROVE  step[<<x, f>>] \in W[s]
    <2>1. f \in V /\ \A y \in s \ {x} : f.docs[y].pending = <<>>
      OBVIOUS
    <2>2. PICK g : g = step[<<x, f>>] /\ g = Flush(f, x)
      BY <1>a, <2>1
    <2>3. /\ g \in V /\ g.docs[x].pending = <<>>
          /\ \A y \in BufferId : y # x => g.docs[y] = f.docs[y]
      BY <2>1, <2>2, FlushStepKeeps
    <2>4. \A y \in s : g.docs[y].pending = <<>>
      BY <2>1, <2>3
    <2> QED BY <2>2, <2>3, <2>4
  <1>e. W[BufferId] = {f \in V : \A x \in BufferId : f.docs[x].pending = <<>>}
    OBVIOUS
  <1> HIDE DEF V, step, W
  <1>4. PICK g : SetFoldIn(g, V, e, BufferId, step)
    BY <1>1, <1>2, <1>3, SetFoldExists
  <1>5. FlushesOver(g, e)
    <2>1. ASSUME NEW s \in SUBSET BufferId, s # {}
          PROVE  g[s] = Flush(g[s \ {CHOOSE x \in s : TRUE}], CHOOSE x \in s : TRUE)
      <3>1. PICK x \in BufferId : x = CHOOSE y \in s : TRUE
        BY <2>1
      <3>2. g[s \ {x}] \in V /\ g[s] = step[<<x, g[s \ {x}]>>]
        BY <1>4, <2>1, <3>1 DEF SetFoldIn, SetFold
      <3> QED BY <1>a, <3>1, <3>2
    <2>2. g = [s \in SUBSET BufferId |-> g[s]] /\ g[{}] = e
      BY <1>4 DEF SetFoldIn, SetFold
    <2> QED BY <2>1, <2>2 DEF FlushesOver
  <1>6. PICK it : FlushesOver(it, e) /\ FlushPending(e) = it[BufferId]
    <2>1. FlushPending(e) = (CHOOSE it : FlushesOver(it, e))[BufferId]
      BY DEF FlushPending, FoldSet, MapThenFoldSet, FlushesOver
    <2> QED BY <1>5, <2>1
  <1>7. SetFold(it, V, e, BufferId, step)
    <2>1. ASSUME NEW s \in SUBSET BufferId, s # {}, it[s \ {CHOOSE x \in s : TRUE}] \in V
          PROVE  it[s] = step[<<CHOOSE x \in s : TRUE, it[s \ {CHOOSE x \in s : TRUE}]>>]
      <3>1. PICK x \in BufferId : x = CHOOSE y \in s : TRUE
        BY <2>1
      <3>2. it[s] = Flush(it[s \ {x}], x)
        BY <1>6, <2>1, <3>1, OneOfBuffers DEF FlushesOver
      <3> QED BY <1>a, <2>1, <3>1, <3>2
    <2>2. it = [s \in SUBSET BufferId |-> it[s]] /\ it[{}] = e
      BY <1>6 DEF FlushesOver
    <2> QED BY <2>1, <2>2 DEF SetFold
  <1>8. it[BufferId] \in W[BufferId]
    BY <1>1, <1>7, <1>b, <1>c, <1>d, SetFoldReaches
  <1>9. PICK f : f = it[BufferId]
    OBVIOUS
  <1>10. f \in FlushedSince(e, R) /\ \A x \in BufferId : f.docs[x].pending = <<>>
    BY <1>8, <1>9, <1>e DEF V
  <1> QED BY <1>6, <1>9, <1>10 DEF FlushedAll, FlushedSince

-----------------------------------------------------------------------------
(* Draining *)

\* What a drain makes of a client that runs: it never forgets what its server
\* knows, nor a request in flight without ending it.
Drains(c, f) ==
  /\ f \in Clients /\ f.name = c.name /\ f.asked = c.asked /\ f.state \in Live
  /\ f.state = "starting" => c.state = "starting"
  /\ f.state = "starting" => f.sync = c.sync
  /\ f.sync # c.sync => c.state = "starting"
  /\ Hears(f) => Hears(c) /\ Knows(f) = Knows(c)
  /\ f.queued # <<>> => f.state = "starting" /\ f.queued = c.queued
  /\ c.ended \subseteq f.ended
  /\ \A d \in c.pending : c.state = "running" =>
       (f.state = "running" /\ d \in f.pending) \/ d \in f.ended

\* The clients a drain works on.
Drainable(c) == c \in Clients /\ c.state \in Live /\ (c.queued # <<>> => c.state = "starting")

\* Draining adds up.
LEMMA DrainsCompose ==
  ASSUME NEW c, NEW f, NEW g, Drains(c, f), Drains(f, g)
  PROVE  Drains(c, g)
  <1>1. c.ended \subseteq g.ended
    BY DEF Drains
  <1>2. \A d \in c.pending : c.state = "running" =>
          (g.state = "running" /\ d \in g.pending) \/ d \in g.ended
    BY DEF Drains
  <1>3. /\ g \in Clients /\ g.name = c.name /\ g.asked = c.asked /\ g.state \in Live
        /\ g.state = "starting" => c.state = "starting"
        /\ g.state = "starting" => g.sync = c.sync
        /\ g.sync # c.sync => c.state = "starting"
        /\ Hears(g) => Hears(c) /\ Knows(g) = Knows(c)
    BY DEF Drains
  <1>4. g.queued # <<>> => g.state = "starting" /\ g.queued = c.queued
    BY DEF Drains
  <1> QED BY <1>1, <1>2, <1>3, <1>4 DEF Drains

\* A client that is left alone is drained, and what is drained can be again.
LEMMA DrainsNothing ==
  ASSUME NEW c, Drainable(c)
  PROVE  Drains(c, c)
  BY DEF Drains, Drainable

\* The parts of a client.
LEMMA ClientParts ==
  ASSUME NEW c \in Clients
  PROVE  /\ c = [state |-> c.state, name |-> c.name, sync |-> c.sync, queued |-> c.queued,
                 initialize |-> c.initialize, pending |-> c.pending, ended |-> c.ended,
                 told |-> c.told, asked |-> c.asked]
         /\ c.state \in Live \union {"none"} /\ c.name \in ServerName \union {"none"}
         /\ c.sync \in Syncs /\ c.queued \in Seq(Messages) /\ c.initialize \in BOOLEAN
         /\ c.pending \in SUBSET DeliveryId /\ c.ended \in SUBSET DeliveryId
         /\ c.told \in Told /\ c.asked \in SUBSET Questions
  BY DEF Clients

\* A crash ends what is in flight.
LEMMA CrashedDrains ==
  ASSUME NEW c, Drainable(c)
  PROVE  Drains(c, Crashed(c))
  <1>1. PICK f : f = Crashed(c)
    OBVIOUS
  <1>2. c \in Clients
    BY DEF Drainable
  <1>3. PICK ended \in SUBSET DeliveryId : ended = c.ended \union c.pending
    BY <1>2, ClientParts
  <1>4. f = [state |-> "crashed", name |-> c.name, sync |-> c.sync, queued |-> <<>>,
             initialize |-> c.initialize, pending |-> {}, ended |-> ended,
             told |-> c.told, asked |-> c.asked]
    <2>1. PICK p : p = PendingStopped(c)
      OBVIOUS
    <2>2. p = [state |-> c.state, name |-> c.name, sync |-> c.sync, queued |-> c.queued,
               initialize |-> c.initialize, pending |-> {}, ended |-> ended,
               told |-> c.told, asked |-> c.asked]
      BY <1>2, <1>3, <2>1 DEF PendingStopped, Clients
    <2>3. f = [p EXCEPT !.state = "crashed", !.queued = <<>>]
      BY <1>1, <2>1 DEF Crashed
    <2> QED BY <2>2, <2>3
  <1>5. <<>> \in Seq(Messages)
    OBVIOUS
  <1>6. f \in Clients
    <2>1. c.name \in ServerName \union {"none"} /\ c.sync \in Syncs /\ c.initialize \in BOOLEAN
          /\ c.told \in Told /\ c.asked \in SUBSET Questions
      BY <1>2, ClientParts
    <2> QED BY <1>4, <1>5, <2>1 DEF Clients, Live
  <1>7. /\ f.name = c.name /\ f.asked = c.asked /\ f.state = "crashed" /\ f.sync = c.sync
        /\ f.queued = <<>> /\ f.ended = c.ended \union c.pending
    BY <1>3, <1>4
  <1> QED BY <1>1, <1>6, <1>7 DEF Drains, Live, Hears

\* What was queued is written when the server runs, and is what it knows.
LEMMA BecomeRunningDrains ==
  ASSUME NEW c, Drainable(c), c.state = "starting", NEW sync \in Syncs
  PROVE  Drains(c, BecomeRunning(c, sync))
  <1>1. PICK f, told : f = BecomeRunning(c, sync) /\ told = Knows(c)
    OBVIOUS
  <1>2. c \in Clients
    BY DEF Drainable
  <1>3. told \in Told
    BY <1>1, <1>2, KnowsTyped
  <1>4. f = [c EXCEPT !.state = "running", !.sync = sync, !.told = told, !.queued = <<>>]
    BY <1>1 DEF BecomeRunning
  <1>5. <<>> \in Seq(Messages)
    OBVIOUS
  <1>6. f \in Clients
    BY <1>2, <1>3, <1>4, <1>5 DEF Clients, Live
  <1>7. /\ f.name = c.name /\ f.asked = c.asked /\ f.state = "running" /\ f.queued = <<>>
        /\ f.ended = c.ended /\ f.pending = c.pending /\ f.told = told
    BY <1>2, <1>4 DEF Clients
  <1>8. Knows(f) = Knows(c)
    BY <1>1, <1>3, <1>7, ReadNothing DEF Knows, Read
  <1> QED BY <1>1, <1>6, <1>7, <1>8 DEF Drains, Live, Hears

\* The handshake's request is answered or given up.
LEMMA InitializeDrains ==
  ASSUME NEW c, Drainable(c), NEW initialize \in BOOLEAN, NEW late \in SUBSET c.pending
  PROVE  Drains(c, [c EXCEPT !.pending = c.pending \ late, !.ended = c.ended \union late,
                             !.initialize = initialize])
  <1>2. c \in Clients
    BY DEF Drainable
  <1>3. PICK pending \in SUBSET DeliveryId : pending = c.pending \ late
    BY <1>2, ClientParts
  <1>4. PICK ended \in SUBSET DeliveryId : ended = c.ended \union late
    BY <1>2, ClientParts
  <1>5. PICK f : f = [c EXCEPT !.pending = pending, !.ended = ended, !.initialize = initialize]
    OBVIOUS
  <1>6. f \in Clients
    BY <1>2, <1>5 DEF Clients
  <1>7. /\ f.name = c.name /\ f.asked = c.asked /\ f.state = c.state /\ f.sync = c.sync
        /\ f.queued = c.queued /\ f.ended = ended /\ f.pending = pending /\ f.told = c.told
    BY <1>2, <1>5 DEF Clients
  <1>8. Knows(f) = Knows(c)
    BY <1>7 DEF Knows
  <1>9. Drains(c, f)
    BY <1>3, <1>4, <1>6, <1>7, <1>8 DEF Drains, Drainable, Hears
  <1> QED BY <1>3, <1>4, <1>5, <1>9

\* What is drained can be drained again.
LEMMA DrainsDrainable ==
  ASSUME NEW c, NEW f, Drains(c, f)
  PROVE  Drainable(f)
  BY DEF Drains, Drainable

\* An event of the server drains its client.
LEMMA OnEventDrains ==
  ASSUME NEW c, Drainable(c), NEW ev \in Events
  PROVE  Drains(c, OnEvent(c, ev))
  <1>0. c \in Clients
    BY DEF Drainable
  <1>1. CASE ev.kind = "eof"
    BY <1>1, CrashedDrains, DrainsNothing DEF OnEvent
  <1>2. CASE ev.kind = "initialized"
    <2>1. ev.sync \in Syncs \union {"refused"}
      BY <1>2 DEF Events
    <2>2. CASE ~c.initialize
      <3>1. OnEvent(c, ev) = c
        BY <1>2, <2>2 DEF OnEvent
      <3> QED BY <3>1, DrainsNothing
    <2>3. CASE c.initialize
      <3>1. PICK f : f = [c EXCEPT !.initialize = FALSE]
        OBVIOUS
      <3>2. OnEvent(c, ev) = Handshaken(f, ev.sync)
        BY <1>2, <2>3, <3>1 DEF OnEvent
      <3>3. Drains(c, f)
        <4>1. Drains(c, [c EXCEPT !.pending = c.pending \ {}, !.ended = c.ended \union {},
                                  !.initialize = FALSE])
          <5>1. {} \in SUBSET c.pending /\ FALSE \in BOOLEAN
            OBVIOUS
          <5> QED BY <5>1, InitializeDrains
        <4>2. f = [c EXCEPT !.pending = c.pending \ {}, !.ended = c.ended \union {},
                            !.initialize = FALSE]
          BY <1>0, <3>1 DEF Clients
        <4> QED BY <4>1, <4>2
      <3>4. Drainable(f)
        BY <3>3, DrainsDrainable
      <3>5. Drains(f, Handshaken(f, ev.sync))
        <4>1. CASE f.state # "starting"
          BY <3>4, <4>1, DrainsNothing DEF Handshaken
        <4>2. CASE f.state = "starting" /\ ev.sync = "refused"
          BY <3>4, <4>2, CrashedDrains DEF Handshaken
        <4>3. CASE f.state = "starting" /\ ev.sync # "refused"
          BY <2>1, <3>4, <4>3, BecomeRunningDrains DEF Handshaken
        <4> QED BY <4>1, <4>2, <4>3
      <3> QED BY <3>2, <3>3, <3>5, DrainsCompose
    <2> QED BY <2>2, <2>3
  <1>3. CASE ev.kind = "answer"
    <2>1. PICK late \in SUBSET c.pending : late = c.pending \cap {ev.request}
      OBVIOUS
    <2>2. c.pending \ {ev.request} = c.pending \ late
      BY <2>1
    <2>3. OnEvent(c, ev) = [c EXCEPT !.pending = c.pending \ late, !.ended = c.ended \union late]
      BY <1>3, <2>1, <2>2 DEF OnEvent
    <2>4. [c EXCEPT !.pending = c.pending \ late, !.ended = c.ended \union late]
            = [c EXCEPT !.pending = c.pending \ late, !.ended = c.ended \union late,
                        !.initialize = c.initialize]
      BY <1>0 DEF Clients
    <2>5. c.initialize \in BOOLEAN
      BY <1>0, ClientParts
    <2>6. PICK initialize \in BOOLEAN : initialize = c.initialize
      BY <2>5
    <2>7. Drains(c, [c EXCEPT !.pending = c.pending \ late, !.ended = c.ended \union late,
                              !.initialize = initialize])
      BY InitializeDrains
    <2> QED BY <2>3, <2>4, <2>6, <2>7
  <1>4. ev.kind \in {"eof", "initialized", "answer"}
    BY DEF Events
  <1> QED BY <1>1, <1>2, <1>3, <1>4

\* A request whose deadline has passed ends, and so may the handshake.
LEMMA TakeCompletedDrains ==
  ASSUME NEW c, Drainable(c), NEW sid
  PROVE  Drains(c, TakeCompleted(c, sid))
  <1>1. PICK late \in SUBSET c.pending : late = {d \in c.pending : <<sid, d>> \in expired}
    OBVIOUS
  <1>a. c.initialize \in BOOLEAN
    BY ClientParts DEF Drainable
  <1>2. PICK unanswered \in BOOLEAN :
          unanswered = (c.initialize /\ <<sid, Initialize>> \in expired)
    BY <1>a
  <1>3. PICK initialize \in BOOLEAN : initialize = (c.initialize /\ ~unanswered)
    BY <1>a
  <1>4. PICK f : f = [c EXCEPT !.pending = c.pending \ late, !.ended = c.ended \union late,
                               !.initialize = initialize]
    OBVIOUS
  <1>5. TakeCompleted(c, sid) = IF unanswered /\ c.state = "starting" THEN Crashed(f) ELSE f
    BY <1>1, <1>2, <1>3, <1>4, Zenon DEF TakeCompleted
  <1>6. Drains(c, f)
    BY <1>4, InitializeDrains
  <1>7. Drains(f, Crashed(f))
    BY <1>6, DrainsDrainable, CrashedDrains
  <1> QED BY <1>5, <1>6, <1>7, DrainsCompose

\* The clients that drain c so far.
DrainedFrom(c) == {f \in Clients : Drains(c, f)}

OnEventStep(c) == [p \in DrainedFrom(c) \X Events |-> OnEvent(p[1], p[2])]

\* The step of DrainServer.
LEMMA OnEventStepIs ==
  ASSUME NEW c
  PROVE  /\ OnEventStep(c) \in [DrainedFrom(c) \X Events -> DrainedFrom(c)]
         /\ \A f \in DrainedFrom(c), ev \in Events :
              OnEventStep(c)[<<f, ev>>] = OnEvent(f, ev)
  <1>1. ASSUME NEW f \in DrainedFrom(c), NEW ev \in Events
        PROVE  OnEvent(f, ev) \in DrainedFrom(c)
    <2>1. Drains(c, f)
      BY DEF DrainedFrom
    <2>2. Drains(f, OnEvent(f, ev))
      BY <2>1, DrainsDrainable, OnEventDrains
    <2>3. Drains(c, OnEvent(f, ev))
      BY <2>1, <2>2, DrainsCompose
    <2> QED BY <2>3 DEF DrainedFrom, Drains
  <1> QED BY <1>1 DEF OnEventStep

\* The events of a server are read one by one.
HandlesOver(it, c, evs) ==
  it = [s \in SUBSET DOMAIN evs |->
         IF s = {} THEN c ELSE OnEvent(it[s \ {Max(s)}], evs[Max(s)])]

\* Reading what a server wrote drains its client.
LEMMA EventsDrain ==
  ASSUME NEW c, Drainable(c), NEW evs \in Seq(Events)
  PROVE  Drains(c, FoldLeft(OnEvent, c, evs))
  <1> DEFINE V == DrainedFrom(c)
             step == OnEventStep(c)
             n == Len(evs)
  <1>1. step \in [V \X Events -> V] /\ c \in V
    BY OnEventStepIs, DrainsNothing DEF DrainedFrom, Drainable
  <1>2. \A f \in V, ev \in Events : step[<<f, ev>>] = OnEvent(f, ev)
    BY OnEventStepIs
  <1>a. n \in Nat /\ n \in 0 .. n /\ \A k \in 1 .. n : evs[k] \in Events
    OBVIOUS
  <1> HIDE DEF V, step
  <1>3. PICK g : LeftFoldIn(g, V, c, evs, step)
    BY <1>1, LeftFoldExists
  <1>4. HandlesOver(g, c, evs)
    <2>1. ASSUME NEW s \in SUBSET DOMAIN evs, s # {}
          PROVE  g[s] = OnEvent(g[s \ {Max(s)}], evs[Max(s)])
      <3>1. g[s \ {Max(s)}] \in V /\ evs[Max(s)] \in Events
        BY <1>3, <2>1, LastPlace DEF LeftFoldIn
      <3>2. g[s] = step[<<g[s \ {Max(s)}], evs[Max(s)]>>]
        BY <1>3, <2>1, <3>1 DEF LeftFoldIn, LeftFold
      <3> QED BY <1>2, <3>1, <3>2
    <2>2. g = [s \in SUBSET DOMAIN evs |-> g[s]] /\ g[{}] = c
      BY <1>3 DEF LeftFoldIn, LeftFold
    <2> QED BY <2>1, <2>2 DEF HandlesOver
  <1>5. PICK it : HandlesOver(it, c, evs) /\ FoldLeft(OnEvent, c, evs) = it[DOMAIN evs]
    <2>1. FoldLeft(OnEvent, c, evs) = (CHOOSE it : HandlesOver(it, c, evs))[DOMAIN evs]
      BY DEF FoldLeft, MapThenFoldSet, HandlesOver
    <2> QED BY <1>4, <2>1
  <1>6. LeftFold(it, V, c, evs, step)
    <2>1. ASSUME NEW s \in SUBSET DOMAIN evs, s # {}, it[s \ {Max(s)}] \in V
          PROVE  it[s] = step[<<it[s \ {Max(s)}], evs[Max(s)]>>]
      <3>1. evs[Max(s)] \in Events
        BY <2>1, LastPlace
      <3>2. it[s] = OnEvent(it[s \ {Max(s)}], evs[Max(s)])
        BY <1>5, <2>1 DEF HandlesOver
      <3> QED BY <1>2, <2>1, <3>1, <3>2
    <2>2. it = [s \in SUBSET DOMAIN evs |-> it[s]] /\ it[{}] = c
      BY <1>5 DEF HandlesOver
    <2> QED BY <2>1, <2>2 DEF LeftFold
  <1>7. PICK h : LeftHistoryTo(h, V, c, evs, step, it)
    BY <1>1, <1>6, LeftFoldHistory
  <1>8. h[n] \in V /\ h[n] = it[DOMAIN evs]
    BY <1>7, <1>a DEF LeftHistoryTo, LeftHistory
  <1> QED BY <1>5, <1>8 DEF V, DrainedFrom

\* A drain of a server that runs drains its client.
LEMMA DrainServerDrains ==
  ASSUME NEW c, Drainable(c), NEW sid \in ServerId, events \in [ServerId -> Seq(Events)]
  PROVE  Drains(c, DrainServer(c, sid))
  <1>1. PICK evs \in Seq(Events) : evs = events[sid]
    OBVIOUS
  <1>2. PICK f : f = FoldLeft(OnEvent, c, evs)
    OBVIOUS
  <1>3. DrainServer(c, sid) = TakeCompleted(f, sid)
    BY <1>1, <1>2 DEF DrainServer, Drainable
  <1>4. Drains(c, f) /\ Drainable(f)
    BY <1>2, EventsDrain, DrainsDrainable
  <1>5. Drains(f, TakeCompleted(f, sid))
    BY <1>4, TakeCompletedDrains
  <1> QED BY <1>3, <1>4, <1>5, DrainsCompose

\* What drain_lsp makes of a client, with what it ended taken.
TakenFrom(c, sid) == [DrainServer(c, sid) EXCEPT !.ended = {}]

\* What is left of a client when what it ended is taken.
DrainedTo(c, h, ended) ==
  /\ h \in Clients /\ SoundClient(h) /\ h.name = c.name /\ h.asked = c.asked
  /\ h.state \in Live <=> c.state \in Live
  /\ h.state = "none" <=> c.state = "none"
  /\ h.sync # c.sync => c.state = "starting"
  /\ h.state = "running" => Hears(c)
  /\ Hears(h) => Hears(c) /\ Knows(h) = Knows(c)
  /\ ended \in SUBSET DeliveryId
  /\ \A d \in c.pending : c.state = "running" => (h.state = "running" /\ d \in h.pending) \/ d \in ended

\* drain_lsp leaves each client sound.
LEMMA TakenFromIs ==
  ASSUME NEW c \in Clients, SoundClient(c), NEW sid \in ServerId,
         events \in [ServerId -> Seq(Events)]
  PROVE  DrainedTo(c, TakenFrom(c, sid), DrainServer(c, sid).ended)
  <1>1. PICK f, h : f = DrainServer(c, sid) /\ h = [f EXCEPT !.ended = {}]
    OBVIOUS
  <1>2. CASE c.state \notin Live
    <2>1. f = c
      BY <1>1, <1>2 DEF DrainServer
    <2>2. c = NoClient
      BY <1>2 DEF SoundClient
    <2>3. h = NoClient
      <3>1. [c EXCEPT !.ended = c.ended] = c
        BY DEF Clients
      <3>2. c.ended = {}
        BY DEF SoundClient
      <3> QED BY <1>1, <2>1, <2>2, <3>1, <3>2
    <2>4. NoClient \in Clients /\ SoundClient(NoClient) /\ NoClient.state = "none"
          /\ NoClient.asked = {} /\ NoClient.ended = {}
      BY NoClientIs DEF NoClient
    <2>5. DrainedTo(NoClient, NoClient, {})
      BY <2>4 DEF DrainedTo
    <2> QED BY <1>1, <2>1, <2>2, <2>3, <2>4, <2>5 DEF TakenFrom
  <1>3. CASE c.state \in Live
    <2>1. Drainable(c)
      BY <1>3 DEF Drainable, SoundClient
    <2>2. Drains(c, f)
      BY <1>1, <2>1, DrainServerDrains
    <2>3. f \in Clients
      BY <2>2 DEF Drains
    <2>4. /\ h \in Clients /\ h.name = f.name /\ h.asked = f.asked /\ h.state = f.state
          /\ h.sync = f.sync /\ h.queued = f.queued /\ h.told = f.told /\ h.pending = f.pending
          /\ h.ended = {}
      BY <1>1, <2>3 DEF Clients
    <2>5. Knows(h) = Knows(f)
      BY <2>4 DEF Knows
    <2>6. SoundClient(h)
      <3>1. h.state \in Live
        BY <2>2, <2>4 DEF Drains
      <3>2. h.state = "starting" => h.sync = "full" /\ h.asked = {}
        BY <2>2, <2>4 DEF Drains, SoundClient
      <3>3. h.queued # <<>> => h.state = "starting" /\ h.queued = c.queued
        BY <2>2, <2>4 DEF Drains
      <3>4. \A i \in DOMAIN h.queued : h.queued[i].kind # "ranged"
        <4>1. CASE h.queued = <<>>
          <5>1. DOMAIN (<<>>) = {}
            OBVIOUS
          <5> QED BY <4>1, <5>1
        <4>2. CASE h.queued # <<>>
          BY <3>3, <4>2 DEF SoundClient
        <4> QED BY <4>1, <4>2
      <3> QED BY <2>4, <3>1, <3>2, <3>3, <3>4 DEF SoundClient
    <2>7. f.ended \in SUBSET DeliveryId
      BY <2>3, ClientParts
    <2>8. DrainedTo(c, h, f.ended)
      BY <1>3, <2>2, <2>4, <2>5, <2>6, <2>7 DEF DrainedTo, Drains, Hears, Live
    <2> QED BY <1>1, <2>8 DEF TakenFrom
  <1> QED BY <1>2, <1>3

\* What drain_lsp does to the clients.
DrainsAll(e, g, ended) ==
  /\ g.text = e.text /\ g.docs = e.docs /\ g.deliveries = e.deliveries /\ g.calls = e.calls
  /\ g.next = e.next
  /\ g.clients = [s \in ServerId |-> TakenFrom(e.clients[s], s)]
  /\ ended = [s \in ServerId |-> DrainServer(e.clients[s], s).ended]
  /\ g.clients \in [ServerId -> Clients] => g \in EditorStates

\* It does.
LEMMA DrainedIs ==
  ASSUME NEW e \in EditorStates
  PROVE  \E g, ended : DrainsAll(e, g, ended) /\ Drained(e) = FillSlots(g, ended)
  <1>1. PICK clients, ended :
          /\ clients = [s \in ServerId |-> TakenFrom(e.clients[s], s)]
          /\ ended = [s \in ServerId |-> DrainServer(e.clients[s], s).ended]
    OBVIOUS
  <1>2. PICK g : g = [e EXCEPT !.clients = clients]
    OBVIOUS
  <1>3. Drained(e) = FillSlots(g, ended)
    BY <1>1, <1>2 DEF Drained, TakenFrom
  <1>4. DrainsAll(e, g, ended)
    BY <1>1, <1>2 DEF DrainsAll, EditorStates
  <1> QED BY <1>3, <1>4

\* drain_lsp keeps the editor sound.
LEMMA DrainedKeeps ==
  ASSUME NEW e, NEW R, Sound(e, R), events \in [ServerId -> Seq(Events)]
  PROVE  Sound(Drained(e), R) /\ RunsNothing(e, Drained(e))
  <1>1. e \in EditorStates
    BY DEF Sound
  <1>2. PICK g, ended : DrainsAll(e, g, ended) /\ Drained(e) = FillSlots(g, ended)
    BY <1>1, DrainedIs
  <1>3. ASSUME NEW s \in ServerId
        PROVE  DrainedTo(e.clients[s], g.clients[s], ended[s])
    <2>1. e.clients[s] \in Clients /\ SoundClient(e.clients[s])
      BY <1>1, EditorParts DEF Sound
    <2>2. g.clients[s] = TakenFrom(e.clients[s], s) /\ ended[s] = DrainServer(e.clients[s], s).ended
      BY <1>2 DEF DrainsAll
    <2> QED BY <2>1, <2>2, TakenFromIs
  <1>4. /\ g.text = e.text /\ g.docs = e.docs /\ g.deliveries = e.deliveries
        /\ g.calls = e.calls /\ g.next = e.next
    BY <1>2 DEF DrainsAll
  <1>5. g \in EditorStates
    <2>1. \A s \in ServerId : g.clients[s] \in Clients
      BY <1>3 DEF DrainedTo
    <2>2. g.clients = [s \in ServerId |-> g.clients[s]]
      BY <1>2 DEF DrainsAll
    <2>3. g.clients \in [ServerId -> Clients]
      BY <2>1, <2>2
    <2> QED BY <1>2, <2>3 DEF DrainsAll
  <1>6. Standing(g, R)
    <2>1. \A s \in ServerId : SoundClient(g.clients[s])
      BY <1>3 DEF DrainedTo
    <2>2. \A b \in BufferId : Chained(g.docs[b], g.text[b])
      BY <1>4 DEF Sound
    <2>3. ASSUME NEW s \in ServerId, NEW b \in BufferId
          PROVE  Follows(g.clients[s], b, s \in g.docs[b].attached, ExpectedOf(g.docs[b], g.text[b]))
      <3>1. PICK doc, expected : doc = e.docs[b] /\ expected = ExpectedOf(doc, e.text[b])
        OBVIOUS
      <3>2. PICK c, h : c = e.clients[s] /\ h = g.clients[s]
        OBVIOUS
      <3>3. Follows(c, b, s \in doc.attached, expected) /\ DrainedTo(c, h, ended[s])
        BY <1>3, <3>1, <3>2 DEF Sound
      <3>4. h.sync # c.sync => c.sync = "full"
        <4>1. SoundClient(c)
          BY <3>2 DEF Sound
        <4> QED BY <3>3, <4>1 DEF DrainedTo, SoundClient
      <3>5. expected > Closed
        <4>1. doc.pending \in Seq(Edits) /\ e.text[b] \in Texts
          BY <1>1, <3>1, EditorParts
        <4>2. CASE doc.pending = <<>>
          BY <3>1, <4>1, <4>2 DEF ExpectedOf, Texts, Closed
        <4>3. CASE doc.pending # <<>>
          <5>1. doc.pending[1] \in Edits
            BY <4>1, <4>3
          <5> QED BY <3>1, <4>3, <5>1 DEF ExpectedOf, Edits, Texts, Closed
        <4> QED BY <4>2, <4>3
      <3>6. Follows(h, b, s \in doc.attached, expected)
        <4>1. Hears(h) => Hears(c) /\ Knows(h) = Knows(c)
          BY <3>3 DEF DrainedTo
        <4>2. CASE s \notin doc.attached
          BY <3>3, <4>1, <4>2 DEF Follows, Hears
        <4>3. CASE s \in doc.attached /\ h.sync = c.sync
          BY <3>3, <4>1, <4>3 DEF Follows, Hears
        <4>4. CASE s \in doc.attached /\ h.sync # c.sync
          BY <3>3, <3>4, <3>5, <4>1, <4>4 DEF Follows, Hears
        <4> QED BY <4>2, <4>3, <4>4
      <3> QED BY <1>4, <3>1, <3>2, <3>6
    <2>4. Staffed(g, R)
      <3>1. Staffed(e, R)
        BY DEF Sound
      <3>2. \A s \in ServerId : Referenced(g, s) <=> Referenced(e, s)
        BY <1>4 DEF Referenced
      <3>3. \A s \in ServerId : /\ g.clients[s].state \in Live <=> e.clients[s].state \in Live
                                /\ g.clients[s].name = e.clients[s].name
                                /\ e.clients[s].state = "none" => g.clients[s].state = "none"
        BY <1>3 DEF DrainedTo
      <3> QED BY <1>4, <3>1, <3>2, <3>3 DEF Staffed
    <2>5. Informed(g)
      <3>1. Informed(e)
        BY DEF Sound
      <3>2. ASSUME NEW s \in ServerId, NEW q \in g.clients[s].asked
            PROVE  /\ q \in e.clients[s].asked
                   /\ g.clients[s].state = "running" /\ g.clients[s].sync # "none" =>
                        e.clients[s].state = "running" /\ e.clients[s].sync # "none"
        <4>1. DrainedTo(e.clients[s], g.clients[s], ended[s]) /\ SoundClient(e.clients[s])
          BY <1>3 DEF Sound
        <4>2. q \in e.clients[s].asked /\ e.clients[s].state # "starting"
          BY <4>1 DEF DrainedTo, SoundClient
        <4> QED BY <4>1, <4>2 DEF DrainedTo, Hears
      <3> QED BY <1>4, <3>1, <3>2 DEF Informed
    <2> QED BY <1>5, <2>1, <2>2, <2>3, <2>4, <2>5 DEF Standing
  <1>7. Owing(g, ended)
    <2>1. Owed(e)
      BY DEF Sound
    <2>2. ended \in [ServerId -> SUBSET DeliveryId]
      <3>1. \A s \in ServerId : ended[s] \in SUBSET DeliveryId
        BY <1>3 DEF DrainedTo
      <3>2. ended = [s \in ServerId |-> ended[s]]
        BY <1>2 DEF DrainsAll
      <3> QED BY <3>1, <3>2
    <2>3. ASSUME NEW d \in DeliveryId, NEW s \in e.deliveries[d].waiting
          PROVE  \/ g.clients[s].state = "running" /\ d \in g.clients[s].pending
                 \/ d \in ended[s]
      <3>1. s \in ServerId
        BY <1>1, EditorParts DEF Deliveries
      <3>2. e.clients[s].state = "running" /\ d \in e.clients[s].pending
        BY <2>1 DEF Owed
      <3> QED BY <1>3, <3>1, <3>2 DEF DrainedTo
    <2> QED BY <1>4, <2>1, <2>2, <2>3 DEF Owing, Owed
  <1>8. Sound(FillSlots(g, ended), R) /\ RunsNothing(g, FillSlots(g, ended))
    BY <1>6, <1>7, FillSlotsKeep
  <1>9. RunsNothing(e, FillSlots(g, ended))
    BY <1>4, <1>8 DEF RunsNothing
  <1> QED BY <1>2, <1>8, <1>9

-----------------------------------------------------------------------------
(* Edits, requests, callbacks and answers *)

\* LspDocuments::record, of an edit of a buffer.
Recorded(e, b) ==
  [e EXCEPT !.text[b] = @ + 1,
            !.docs[b].pending = IF e.docs[b].attached = {} THEN @
                                ELSE Append(@, <<e.text[b], e.text[b] + 1>>)]

\* An edit is one more change to send, to the servers there are.
LEMMA RecordedKeeps ==
  ASSUME NEW e, NEW R, Sound(e, R), NEW b \in BufferId
  PROVE  Sound(Recorded(e, b), R) /\ RunsNothing(e, Recorded(e, b))
  <1>0. PICK f, doc, text : f = Recorded(e, b) /\ doc = e.docs[b] /\ text = e.text[b]
    OBVIOUS
  <1>1. e \in EditorStates /\ doc \in Docs /\ text \in Texts /\ doc.pending \in Seq(Edits)
        /\ doc = [opened |-> doc.opened, attached |-> doc.attached, pending |-> doc.pending]
    BY <1>0, EditorParts DEF Sound, Docs
  <1>a. text + 1 \in Texts /\ <<text, text + 1>> \in Edits
    BY <1>1 DEF Texts, Edits
  <1>b. Append(doc.pending, <<text, text + 1>>) \in Seq(Edits)
    BY <1>1, <1>a
  <1>2. PICK pending \in Seq(Edits) :
          pending = IF doc.attached = {} THEN doc.pending
                    ELSE Append(doc.pending, <<text, text + 1>>)
    BY <1>1, <1>b
  <1>3. PICK texts, docs : texts = [e.text EXCEPT ![b] = text + 1]
                           /\ docs = [e.docs EXCEPT ![b] = [doc EXCEPT !.pending = pending]]
    OBVIOUS
  <1>4. f = [e EXCEPT !.text = texts, !.docs = docs]
    BY <1>0, <1>2, <1>3 DEF Recorded
  <1>5. texts \in [BufferId -> Texts] /\ texts[b] = text + 1
        /\ \A x \in BufferId : x # b => texts[x] = e.text[x]
    BY <1>1, <1>3, <1>a DEF EditorStates
  <1>c. [doc EXCEPT !.pending = pending]
          = [opened |-> doc.opened, attached |-> doc.attached, pending |-> pending]
    BY <1>1
  <1>d. doc.opened \in Nat /\ doc.attached \in SUBSET ServerId
    BY <1>1 DEF Docs
  <1>6. PICK new : new = [doc EXCEPT !.pending = pending] /\ new \in Docs /\ new.pending = pending
                   /\ new.attached = doc.attached
    BY <1>c, <1>d DEF Docs
  <1>7. docs \in [BufferId -> Docs] /\ docs[b] = new
        /\ \A x \in BufferId : x # b => docs[x] = e.docs[x]
    BY <1>1, <1>3, <1>6 DEF EditorStates
  <1>8. /\ f \in EditorStates /\ f.text = texts /\ f.docs = docs /\ f.clients = e.clients
        /\ f.deliveries = e.deliveries /\ f.calls = e.calls /\ f.next = e.next
    BY <1>1, <1>4, <1>5, <1>7 DEF EditorStates
  <1>9. Chained(doc, text)
    BY <1>0 DEF Sound
  <1>10. Chained(new, text + 1)
    <2>1. CASE doc.attached = {}
      <3>1. doc = NoDoc /\ pending = doc.pending
        BY <1>2, <1>9, <2>1 DEF Chained
      <3>2. new = NoDoc /\ NoDoc.pending = <<>>
        <4>1. [doc EXCEPT !.pending = doc.pending] = doc
          BY <1>1
        <4> QED BY <1>6, <3>1, <4>1 DEF NoDoc
      <3>3. Len(<<>>) = 0 /\ 2 .. 0 = {}
        OBVIOUS
      <3> QED BY <3>2, <3>3 DEF Chained
    <2>2. CASE doc.attached # {}
      <3>1. PICK n \in Nat : n = Len(doc.pending)
        BY <1>1
      <3>2. /\ Len(pending) = n + 1 /\ pending[n + 1] = <<text, text + 1>>
            /\ \A i \in 1 .. n : pending[i] = doc.pending[i]
        BY <1>1, <1>2, <1>a, <2>2, <3>1
      <3>3. ASSUME NEW i \in 2 .. Len(pending)
            PROVE  pending[i][1] = pending[i - 1][2]
        <4>1. CASE i = n + 1
          <5>1. i - 1 = n /\ n \in 1 .. n /\ doc.pending # <<>>
            BY <1>1, <3>1, <3>2, <4>1
          <5>2. doc.pending[n][2] = text
            BY <1>9, <3>1, <5>1 DEF Chained
          <5> QED BY <3>2, <4>1, <5>1, <5>2
        <4>2. CASE i # n + 1
          <5>1. i \in 2 .. n /\ i \in 1 .. n /\ i - 1 \in 1 .. n
            BY <3>2, <4>2
          <5>2. doc.pending[i][1] = doc.pending[i - 1][2]
            BY <1>9, <3>1, <5>1 DEF Chained
          <5> QED BY <3>2, <5>1, <5>2
        <4> QED BY <4>1, <4>2
      <3>4. pending[Len(pending)][2] = text + 1
        BY <3>2
      <3> QED BY <1>6, <2>2, <3>3, <3>4 DEF Chained
    <2> QED BY <2>1, <2>2
  <1>11. doc.attached # {} => ExpectedOf(new, text + 1) = ExpectedOf(doc, text)
    <2>1. CASE doc.attached # {} /\ doc.pending = <<>>
      <3>1. pending = Append(<<>>, <<text, text + 1>>) /\ pending # <<>>
        BY <1>1, <1>2, <2>1
      <3>2. pending[1] = <<text, text + 1>>
        BY <3>1
      <3> QED BY <1>6, <2>1, <3>1, <3>2 DEF ExpectedOf
    <2>2. CASE doc.attached # {} /\ doc.pending # <<>>
      <3>1. pending[1] = doc.pending[1] /\ pending # <<>>
        BY <1>1, <1>2, <1>a, <2>2
      <3> QED BY <1>6, <2>2, <3>1 DEF ExpectedOf
    <2> QED BY <2>1, <2>2
  <1>12. ASSUME NEW s \in ServerId, NEW x \in BufferId
         PROVE  Follows(f.clients[s], x, s \in f.docs[x].attached, ExpectedOf(f.docs[x], f.text[x]))
    <2>1. Follows(e.clients[s], x, s \in e.docs[x].attached, ExpectedOf(e.docs[x], e.text[x]))
      BY DEF Sound
    <2>2. CASE x # b
      BY <1>5, <1>7, <1>8, <2>1, <2>2
    <2>3. CASE x = b /\ s \notin doc.attached
      <3>1. s \notin f.docs[x].attached /\ s \notin e.docs[x].attached
        BY <1>0, <1>6, <1>7, <1>8, <2>3
      <3> QED BY <1>8, <2>1, <3>1 DEF Follows
    <2>4. CASE x = b /\ s \in doc.attached
      <3>1. ExpectedOf(f.docs[x], f.text[x]) = ExpectedOf(e.docs[x], e.text[x])
        BY <1>0, <1>5, <1>7, <1>8, <1>11, <2>4
      <3>2. f.docs[x].attached = e.docs[x].attached
        BY <1>0, <1>6, <1>7, <1>8, <2>4
      <3> QED BY <1>8, <2>1, <3>1, <3>2
    <2> QED BY <2>2, <2>3, <2>4
  <1>13. \A x \in BufferId : Chained(f.docs[x], f.text[x])
    BY <1>5, <1>7, <1>8, <1>10 DEF Sound
  <1>14. Staffed(f, R)
    <2>1. \A x \in BufferId : f.docs[x].attached = e.docs[x].attached
      BY <1>0, <1>6, <1>7, <1>8
    <2>2. \A s \in ServerId : Referenced(f, s) <=> Referenced(e, s)
      BY <2>1 DEF Referenced
    <2> QED BY <1>8, <2>2 DEF Sound, Staffed
  <1>15. Owed(f) /\ Informed(f)
    BY <1>8 DEF Sound, Owed, Informed
  <1>16. RunsNothing(e, f)
    BY <1>8 DEF RunsNothing
  <1> QED BY <1>0, <1>8, <1>12, <1>13, <1>14, <1>15, <1>16 DEF Sound

\* start_request: the changes of every document are sent first.
LEMMA StartRequestKeeps ==
  ASSUME NEW e, NEW R, Sound(e, R), NEW b \in BufferId, NEW keyed
  PROVE  /\ Sound(StartRequest(e, b, keyed), R) /\ RunsNothing(e, StartRequest(e, b, keyed))
         /\ StartRequest(e, b, keyed).docs[b].pending = <<>>
         /\ \A d \in DeliveryId : StartRequest(e, b, keyed).deliveries[d].status = "none"
                                    <=> e.deliveries[d].status = "none"
  <1>1. PICK f, g : f = FlushPending(e) /\ g = StartRequest(e, b, keyed)
    OBVIOUS
  <1>2. Sound(f, R) /\ FlushedAll(e, f)
    BY <1>1, FlushPendingKeeps
  <1>3. /\ RunsNothing(e, f) /\ f.docs[b].pending = <<>> /\ f.deliveries = e.deliveries
    BY <1>2, WritesRunNothing DEF FlushedAll, Writes
  <1>4. CASE ~keyed
    <2>1. g = f
      BY <1>1, <1>4 DEF StartRequest
    <2> QED BY <1>1, <1>2, <1>3, <2>1
  <1>5. CASE keyed
    <2>1. g = CancelSuperseded(f, b)
      BY <1>1, <1>5 DEF StartRequest
    <2>2. /\ Sound(g, R) /\ RunsNothing(f, g) /\ g.docs = f.docs
          /\ \A d \in DeliveryId : g.deliveries[d].status = "none" <=> f.deliveries[d].status = "none"
      BY <1>2, <2>1, CancelKeeps
    <2> QED BY <1>1, <1>3, <2>2, RunsNothingTwice
  <1> QED BY <1>4, <1>5

\* A request is filed, of some servers, or queued if there are none to ask.
Files(e, f, b, d, x, sids) ==
  /\ f.text = e.text /\ f.docs = e.docs /\ f.next = e.next
  /\ f.deliveries = [e.deliveries EXCEPT ![d] = x]
  /\ f.clients = [s \in ServerId |->
       IF s \in sids THEN Asked(e.clients[s], d, b) ELSE e.clients[s]]
  /\ f.calls = IF sids = {} THEN Append(e.calls, d) ELSE e.calls
  /\ (f.deliveries \in [DeliveryId -> Deliveries] /\ f.clients \in [ServerId -> Clients]
        /\ f.calls \in Seq(DeliveryId)) => f \in EditorStates

\* A client that is asked stays what it was.
LEMMA AskedIs ==
  ASSUME NEW c \in Clients, SoundClient(c), c.state = "running", NEW d \in DeliveryId,
         NEW b \in BufferId, NEW f, f = Asked(c, d, b)
  PROVE  /\ f \in Clients /\ SoundClient(f) /\ Knows(f) = Knows(c) /\ f.state = "running"
         /\ f.name = c.name /\ f.sync = c.sync /\ f.pending = c.pending \union {d}
         /\ f.asked = c.asked \union {[request |-> d, knew |-> Knows(c)[b]]}
  <1>1. c.queued = <<>> /\ c.told \in Told
    BY ClientParts DEF SoundClient
  <1>2. Knows(c) = c.told
    BY <1>1, KnowsTyped, ReadNothing
  <1>3. PICK pending \in SUBSET DeliveryId : pending = c.pending \union {d}
    BY ClientParts
  <1>4. c.told[b] \in Int
    BY <1>1 DEF Told
  <1>5. PICK asked \in SUBSET Questions :
          asked = c.asked \union {[request |-> d, knew |-> c.told[b]]}
    <2>1. [request |-> d, knew |-> c.told[b]] \in Questions
      BY <1>4 DEF Questions
    <2>2. c.asked \in SUBSET Questions
      BY ClientParts
    <2> QED BY <2>1, <2>2
  <1>6. f = [c EXCEPT !.pending = pending, !.asked = asked]
    BY <1>3, <1>5 DEF Asked
  <1>7. /\ f \in Clients /\ f.state = c.state /\ f.name = c.name /\ f.sync = c.sync
        /\ f.pending = pending /\ f.asked = asked /\ f.told = c.told /\ f.queued = c.queued
        /\ f.ended = c.ended
    BY <1>6 DEF Clients
  <1>8. SoundClient(f)
    BY <1>7 DEF SoundClient, Live
  <1>9. Knows(f) = Knows(c)
    BY <1>7 DEF Knows
  <1> QED BY <1>2, <1>3, <1>5, <1>7, <1>8, <1>9

\* A request that is filed is owed by the servers asked, which knew its text.
LEMMA FilesKeep ==
  ASSUME NEW e, NEW R, Sound(e, R), NEW b \in BufferId, e.docs[b].pending = <<>>,
         NEW d \in DeliveryId, \A y \in DeliveryId : e.deliveries[y].status # "none" <=> y < d,
         NEW sids, \A s \in sids : s \in e.docs[b].attached /\ e.clients[s].state = "running",
         NEW x \in Deliveries, x.version = e.text[b], x.waiting = sids,
         x.status = IF sids = {} THEN "queued" ELSE "waiting",
         NEW f, Files(e, f, b, d, x, sids)
  PROVE  Sound(f, R) /\ RunsNothing(e, f)
  <1>1. e \in EditorStates /\ \A s \in ServerId : e.clients[s] \in Clients /\ SoundClient(e.clients[s])
    BY EditorParts DEF Sound
  <1>2. ASSUME NEW s \in ServerId
        PROVE  /\ f.clients[s] \in Clients /\ SoundClient(f.clients[s])
               /\ Knows(f.clients[s]) = Knows(e.clients[s])
               /\ f.clients[s].state = e.clients[s].state /\ f.clients[s].name = e.clients[s].name
               /\ f.clients[s].sync = e.clients[s].sync
               /\ f.clients[s].pending =
                    e.clients[s].pending \union (IF s \in sids THEN {d} ELSE {})
               /\ f.clients[s].asked = e.clients[s].asked \union
                    (IF s \in sids THEN {[request |-> d, knew |-> Knows(e.clients[s])[b]]} ELSE {})
    <2>1. CASE s \in sids
      <3>1. f.clients[s] = Asked(e.clients[s], d, b)
        BY <2>1 DEF Files
      <3>2. e.clients[s].state = "running"
        BY <2>1
      <3>3. PICK c \in Clients : c = e.clients[s]
        BY <1>1
      <3>4. PICK g : g = f.clients[s] /\ g = Asked(c, d, b)
        BY <3>1, <3>3
      <3>5. /\ g \in Clients /\ SoundClient(g) /\ Knows(g) = Knows(c) /\ g.state = "running"
            /\ g.name = c.name /\ g.sync = c.sync /\ g.pending = c.pending \union {d}
            /\ g.asked = c.asked \union {[request |-> d, knew |-> Knows(c)[b]]}
        BY <1>1, <3>2, <3>3, <3>4, AskedIs
      <3> QED BY <2>1, <3>2, <3>3, <3>4, <3>5
    <2>2. CASE s \notin sids
      <3>1. f.clients[s] = e.clients[s]
        BY <2>2 DEF Files
      <3> QED BY <1>1, <2>2, <3>1
    <2> QED BY <2>1, <2>2
  <1>3. f.deliveries[d] = x /\ \A y \in DeliveryId : y # d => f.deliveries[y] = e.deliveries[y]
    BY <1>1 DEF Files, EditorStates
  <1>4. f.text = e.text /\ f.docs = e.docs /\ f.next = e.next
        /\ f.calls = IF sids = {} THEN Append(e.calls, d) ELSE e.calls
    BY DEF Files
  <1>5. e.calls \in Seq(DeliveryId) /\ f.calls \in Seq(DeliveryId)
    BY <1>1, <1>4, EditorParts
  <1>6. f \in EditorStates
    <2>1. f.clients \in [ServerId -> Clients]
      BY <1>2 DEF Files
    <2>2. f.deliveries \in [DeliveryId -> Deliveries]
      BY <1>1 DEF Files, EditorStates
    <2> QED BY <1>5, <2>1, <2>2 DEF Files
  <1>a. e.deliveries[d].status = "none" /\ d \in Nat /\ d \in 1 .. MaxRequests /\ MaxRequests \in Nat
    BY LspSessionAssumption DEF DeliveryId
  <1>7. Owed(f)
    <2>1. Owed(e)
      BY DEF Sound
    <2>2. ASSUME NEW y \in DeliveryId
          PROVE  /\ f.deliveries[y].status = "waiting" <=> f.deliveries[y].waiting # {}
                 /\ \A s \in f.deliveries[y].waiting :
                      f.clients[s].state = "running" /\ y \in f.clients[s].pending
      <3>1. CASE y = d
        <4>1. \A s \in sids : s \in ServerId
          BY <1>1, EditorParts
        <4> QED BY <1>2, <1>3, <3>1, <4>1
      <3>2. CASE y # d
        <4>1. e.deliveries[y].waiting \in SUBSET ServerId
          BY <1>1, EditorParts DEF Deliveries
        <4> QED BY <1>2, <1>3, <2>1, <3>2, <4>1 DEF Owed
      <3> QED BY <3>1, <3>2
    <2>3. ASSUME NEW i \in DOMAIN f.calls
          PROVE  f.deliveries[f.calls[i]].status \notin {"none", "waiting"}
      <3>1. CASE i \in DOMAIN e.calls
        <4>1. f.calls[i] = e.calls[i] /\ e.calls[i] \in DeliveryId
          BY <1>4, <1>5, <3>1
        <4>2. e.deliveries[e.calls[i]].status \notin {"none", "waiting"}
          BY <2>1, <3>1 DEF Owed
        <4> QED BY <1>3, <1>a, <4>1, <4>2
      <3>2. CASE i \notin DOMAIN e.calls
        <4>1. sids = {} /\ f.calls = Append(e.calls, d)
          BY <1>4, <3>2
        <4>2. f.calls[i] = d
          BY <1>5, <3>2, <4>1
        <4> QED BY <1>3, <4>1, <4>2
      <3> QED BY <3>1, <3>2
    <2>4. \A y \in DeliveryId : f.deliveries[y].status # "none" <=> y <= d
      <3>1. \A y \in DeliveryId : y \in Nat
        BY DEF DeliveryId
      <3> QED BY <1>3, <1>a, <3>1
    <2>5. d \in 0 .. MaxRequests
      BY <1>a
    <2> QED BY <2>2, <2>3, <2>4, <2>5 DEF Owed
  <1>8. Informed(f)
    <2>1. Informed(e)
      BY DEF Sound
    <2>2. ASSUME NEW s \in ServerId, NEW q \in f.clients[s].asked
          PROVE  /\ f.deliveries[q.request].status # "none"
                 /\ f.clients[s].state = "running" /\ f.clients[s].sync # "none" =>
                      q.knew = f.deliveries[q.request].version
      <3>1. CASE q \in e.clients[s].asked
        <4>1. q.request \in DeliveryId
          BY <1>1, <3>1 DEF Clients, Questions
        <4>2. e.deliveries[q.request].status # "none"
          BY <2>1, <3>1 DEF Informed
        <4>3. f.deliveries[q.request] = e.deliveries[q.request]
          BY <1>3, <1>a, <4>1, <4>2
        <4> QED BY <1>2, <2>1, <3>1, <4>2, <4>3 DEF Informed
      <3>2. CASE q \notin e.clients[s].asked
        <4>1. s \in sids /\ q = [request |-> d, knew |-> Knows(e.clients[s])[b]]
          BY <1>2, <3>2
        <4>2. s \in e.docs[b].attached /\ e.clients[s].state = "running"
          BY <4>1
        <4>3. Follows(e.clients[s], b, s \in e.docs[b].attached, ExpectedOf(e.docs[b], e.text[b]))
          BY DEF Sound
        <4>4. e.clients[s].sync # "none" => Knows(e.clients[s])[b] = e.text[b]
          BY <4>2, <4>3 DEF Follows, ExpectedOf
        <4> QED BY <1>2, <1>3, <4>1, <4>4
      <3> QED BY <3>1, <3>2
    <2> QED BY <2>2 DEF Informed
  <1>9. Staffed(f, R)
    <2>1. \A s \in ServerId : Referenced(f, s) <=> Referenced(e, s)
      BY <1>4 DEF Referenced
    <2> QED BY <1>2, <1>4, <2>1 DEF Sound, Staffed
  <1>10. ASSUME NEW s \in ServerId, NEW y \in BufferId
         PROVE  Follows(f.clients[s], y, s \in f.docs[y].attached, ExpectedOf(f.docs[y], f.text[y]))
    <2>1. Follows(e.clients[s], y, s \in e.docs[y].attached, ExpectedOf(e.docs[y], e.text[y]))
      BY DEF Sound
    <2> QED BY <1>2, <1>4, <2>1 DEF Follows
  <1>11. \A y \in BufferId : Chained(f.docs[y], f.text[y])
    BY <1>4 DEF Sound
  <1>12. RunsNothing(e, f)
    BY <1>3 DEF RunsNothing
  <1> QED BY <1>2, <1>6, <1>7, <1>8, <1>9, <1>10, <1>11, <1>12 DEF Sound

\* The deliveries end, or stay what they were.
Ends(e, f) ==
  /\ f.text = e.text /\ f.docs = e.docs /\ f.clients = e.clients /\ f.next = e.next
  /\ f.calls \in Seq(DeliveryId)
  /\ \A i \in DOMAIN f.calls : \E j \in DOMAIN e.calls : f.calls[i] = e.calls[j]
  /\ \A d \in DeliveryId :
       \/ f.deliveries[d] = e.deliveries[d]
       \/ /\ f.deliveries[d].version = e.deliveries[d].version
          /\ f.deliveries[d].status \in {"called", "dropped"}
          /\ f.deliveries[d].waiting = {} /\ e.deliveries[d].status # "none"

\* Deliveries that end are owed nothing more.
LEMMA EndsKeep ==
  ASSUME NEW e, NEW R, Sound(e, R), NEW f \in EditorStates, Ends(e, f)
  PROVE  Sound(f, R)
  <1>1. Standing(e, R) /\ Owed(e)
    BY SoundIs
  <1>2. Delivers(e, f)
    <2>1. ASSUME NEW d \in DeliveryId
          PROVE  /\ f.deliveries[d].version = e.deliveries[d].version
                 /\ f.deliveries[d].status = "none" <=> e.deliveries[d].status = "none"
      BY DEF Ends
    <2> QED BY <2>1 DEF Ends, Delivers
  <1>3. Standing(f, R)
    BY <1>1, <1>2, DeliversKeep
  <1>4. Owed(f)
    <2>1. ASSUME NEW d \in DeliveryId
          PROVE  /\ f.deliveries[d].status = "waiting" <=> f.deliveries[d].waiting # {}
                 /\ \A s \in f.deliveries[d].waiting :
                      f.clients[s].state = "running" /\ d \in f.clients[s].pending
      <3>1. f.clients = e.clients
        BY DEF Ends
      <3>2. CASE f.deliveries[d] = e.deliveries[d]
        BY <1>1, <3>1, <3>2 DEF Owed
      <3>3. CASE f.deliveries[d] # e.deliveries[d]
        BY <3>3 DEF Ends
      <3> QED BY <3>2, <3>3
    <2>2. ASSUME NEW i \in DOMAIN f.calls
          PROVE  f.deliveries[f.calls[i]].status \notin {"none", "waiting"}
      <3>1. PICK j \in DOMAIN e.calls : f.calls[i] = e.calls[j]
        BY DEF Ends
      <3>2. PICK d \in DeliveryId : d = f.calls[i]
        BY DEF Ends
      <3>3. e.deliveries[d].status \notin {"none", "waiting"}
        BY <1>1, <3>1, <3>2 DEF Owed
      <3>4. f.deliveries[d].status \notin {"none", "waiting"}
        BY <3>3 DEF Ends
      <3> QED BY <3>2, <3>4
    <2>3. \E n \in 0 .. MaxRequests : \A d \in DeliveryId : f.deliveries[d].status # "none" <=> d <= n
      BY <1>1, <1>2 DEF Owed, Delivers
    <2> QED BY <2>1, <2>2, <2>3 DEF Owed
  <1> QED BY <1>3, <1>4, SoundIs

\* What run_guarded makes of the callback at the head of the queue.
Ran(e, status) ==
  [e EXCEPT !.calls = Tail(@), !.deliveries[Head(e.calls)].status = status]

\* A callback that has its turn leaves the queue, and its delivery ends.
LEMMA RanKeeps ==
  ASSUME NEW e, NEW R, Sound(e, R), e.calls # <<>>, NEW status \in {"called", "dropped"}
  PROVE  /\ Sound(Ran(e, status), R)
         /\ Head(e.calls) \in DeliveryId
         /\ Ran(e, status).deliveries[Head(e.calls)].status = status
         /\ \A d \in DeliveryId : d # Head(e.calls) =>
              Ran(e, status).deliveries[d] = e.deliveries[d]
  <1>0. PICK f, d : f = Ran(e, status) /\ d = Head(e.calls)
    OBVIOUS
  <1>1. e \in EditorStates /\ Owed(e)
    BY DEF Sound
  <1>2. e.calls \in Seq(DeliveryId)
    BY <1>1, EditorParts
  <1>3. /\ d \in DeliveryId /\ 1 \in DOMAIN e.calls /\ d = e.calls[1]
        /\ Tail(e.calls) \in Seq(DeliveryId)
        /\ \A i \in DOMAIN Tail(e.calls) : Tail(e.calls)[i] = e.calls[i + 1] /\ i + 1 \in DOMAIN e.calls
    BY <1>0, <1>2
  <1>4. PICK x \in Deliveries : x = e.deliveries[d]
    BY <1>1, <1>3, EditorParts
  <1>5. x.status \notin {"none", "waiting"} /\ x.waiting = {}
    <2>1. e.deliveries[e.calls[1]].status \notin {"none", "waiting"}
      BY <1>1, <1>3 DEF Owed
    <2> QED BY <1>1, <1>3, <1>4, <2>1 DEF Owed
  <1>6. PICK y : y = [x EXCEPT !.status = status]
    OBVIOUS
  <1>7. y \in Deliveries /\ y.status = status /\ y.version = x.version /\ y.waiting = x.waiting
    BY <1>4, <1>6 DEF Deliveries, Statuses
  <1>8. PICK deliveries \in [DeliveryId -> Deliveries] : deliveries = [e.deliveries EXCEPT ![d] = y]
    BY <1>1, <1>7 DEF EditorStates
  <1>9. f = [e EXCEPT !.calls = Tail(e.calls), !.deliveries = deliveries]
    BY <1>0, <1>4, <1>6, <1>8 DEF Ran
  <1>10. /\ f \in EditorStates /\ f.text = e.text /\ f.docs = e.docs /\ f.clients = e.clients
         /\ f.next = e.next /\ f.calls = Tail(e.calls) /\ f.deliveries = deliveries
    BY <1>1, <1>3, <1>8, <1>9 DEF EditorStates
  <1>11. deliveries[d] = y /\ \A z \in DeliveryId : z # d => deliveries[z] = e.deliveries[z]
    BY <1>1, <1>3, <1>8 DEF EditorStates
  <1>12. Ends(e, f)
    <2>1. \A z \in DeliveryId :
            \/ f.deliveries[z] = e.deliveries[z]
            \/ /\ f.deliveries[z].version = e.deliveries[z].version
               /\ f.deliveries[z].status \in {"called", "dropped"}
               /\ f.deliveries[z].waiting = {} /\ e.deliveries[z].status # "none"
      BY <1>4, <1>5, <1>7, <1>10, <1>11
    <2>2. \A i \in DOMAIN f.calls : \E j \in DOMAIN e.calls : f.calls[i] = e.calls[j]
      BY <1>3, <1>10
    <2> QED BY <1>3, <1>10, <2>1, <2>2 DEF Ends
  <1>13. Sound(f, R)
    BY <1>10, <1>12, EndsKeep
  <1> QED BY <1>0, <1>3, <1>7, <1>10, <1>11, <1>13

\* The editor whose scripts are gone.
Disposed(e) ==
  [e EXCEPT !.stopped = {},
            !.deliveries = [d \in DeliveryId |->
               IF e.deliveries[d].status = "waiting"
                 THEN [e.deliveries[d] EXCEPT !.status = "dropped", !.waiting = {}]
                 ELSE e.deliveries[d]]]

\* reset_config drops the deliveries that wait.
LEMMA DisposedKeeps ==
  ASSUME NEW e, NEW R, Sound(e, R)
  PROVE  Sound(Disposed(e), R) /\ RunsNothing(e, Disposed(e))
  <1>0. PICK f : f = Disposed(e)
    OBVIOUS
  <1>1. e \in EditorStates /\ e.calls \in Seq(DeliveryId)
    BY EditorParts DEF Sound
  <1>2. PICK deliveries : deliveries = [d \in DeliveryId |->
               IF e.deliveries[d].status = "waiting"
                 THEN [e.deliveries[d] EXCEPT !.status = "dropped", !.waiting = {}]
                 ELSE e.deliveries[d]]
    OBVIOUS
  <1>3. ASSUME NEW d \in DeliveryId
        PROVE  /\ deliveries[d] \in Deliveries
               /\ \/ deliveries[d] = e.deliveries[d]
                  \/ /\ deliveries[d].version = e.deliveries[d].version
                     /\ deliveries[d].status = "dropped"
                     /\ deliveries[d].waiting = {} /\ e.deliveries[d].status # "none"
    <2>1. PICK x \in Deliveries : x = e.deliveries[d]
      BY <1>1, EditorParts
    <2>2. deliveries[d] = IF x.status = "waiting" THEN [x EXCEPT !.status = "dropped", !.waiting = {}]
                          ELSE x
      BY <1>2, <2>1
    <2>3. CASE x.status = "waiting"
      <3>1. deliveries[d] = [x EXCEPT !.status = "dropped", !.waiting = {}]
        BY <2>2, <2>3
      <3>2. deliveries[d] \in Deliveries /\ deliveries[d].version = x.version
            /\ deliveries[d].status = "dropped" /\ deliveries[d].waiting = {}
        BY <3>1 DEF Deliveries, Statuses
      <3> QED BY <2>1, <2>3, <3>2
    <2>4. CASE x.status # "waiting"
      BY <2>1, <2>2, <2>4
    <2> QED BY <2>3, <2>4
  <1>4. deliveries \in [DeliveryId -> Deliveries]
    BY <1>2, <1>3
  <1>5. f = [e EXCEPT !.stopped = {}, !.deliveries = deliveries]
    BY <1>0, <1>2 DEF Disposed
  <1>6. /\ f \in EditorStates /\ f.text = e.text /\ f.docs = e.docs /\ f.clients = e.clients
        /\ f.next = e.next /\ f.calls = e.calls /\ f.deliveries = deliveries
    BY <1>1, <1>4, <1>5 DEF EditorStates
  <1>7. Ends(e, f)
    BY <1>1, <1>3, <1>6 DEF Ends
  <1>8. RunsNothing(e, f)
    BY <1>3, <1>6 DEF RunsNothing
  <1> QED BY <1>0, <1>6, <1>7, <1>8, EndsKeep

\* The editor with a question answered.
Answered(e, sid, q) == [e EXCEPT !.clients[sid].asked = @ \ {q}]

\* A server that answers knows what it did.
LEMMA AnsweredKeeps ==
  ASSUME NEW e, NEW R, Sound(e, R), NEW sid \in ServerId, NEW q
  PROVE  Sound(Answered(e, sid, q), R) /\ RunsNothing(e, Answered(e, sid, q))
  <1>0. PICK f, c : f = Answered(e, sid, q) /\ c = e.clients[sid]
    OBVIOUS
  <1>1. e \in EditorStates /\ c \in Clients /\ SoundClient(c)
    BY <1>0, EditorParts DEF Sound
  <1>2. PICK asked \in SUBSET Questions : asked = c.asked \ {q}
    BY <1>1, ClientParts
  <1>3. PICK g : g = [c EXCEPT !.asked = asked]
    OBVIOUS
  <1>4. /\ g \in Clients /\ g.state = c.state /\ g.name = c.name /\ g.sync = c.sync
        /\ g.pending = c.pending /\ g.asked = asked /\ g.told = c.told /\ g.queued = c.queued
        /\ g.ended = c.ended
    BY <1>1, <1>3 DEF Clients
  <1>5. Knows(g) = Knows(c)
    BY <1>4 DEF Knows
  <1>6. SoundClient(g)
    <2>1. c.state \notin Live => g = NoClient
      <3>1. [c EXCEPT !.asked = c.asked] = c
        BY <1>1 DEF Clients
      <3>2. c.state \notin Live => asked = c.asked
        BY <1>1, <1>2 DEF SoundClient, NoClient
      <3> QED BY <1>1, <1>3, <3>1, <3>2 DEF SoundClient
    <2>2. c.state = "starting" => g.sync = "full" /\ g.asked = {}
      BY <1>1, <1>2, <1>4 DEF SoundClient
    <2> QED BY <1>1, <1>4, <2>1, <2>2 DEF SoundClient
  <1>7. PICK clients \in [ServerId -> Clients] : clients = [e.clients EXCEPT ![sid] = g]
    BY <1>1, <1>4 DEF EditorStates
  <1>8. f = [e EXCEPT !.clients = clients]
    BY <1>0, <1>2, <1>3, <1>7 DEF Answered
  <1>9. /\ f \in EditorStates /\ f.text = e.text /\ f.docs = e.docs /\ f.clients = clients
        /\ f.next = e.next /\ f.calls = e.calls /\ f.deliveries = e.deliveries
    BY <1>1, <1>7, <1>8 DEF EditorStates
  <1>10. clients[sid] = g /\ \A s \in ServerId : s # sid => clients[s] = e.clients[s]
    BY <1>1, <1>7 DEF EditorStates
  <1>11. \A s \in ServerId :
           /\ SoundClient(f.clients[s]) /\ Knows(f.clients[s]) = Knows(e.clients[s])
           /\ f.clients[s].state = e.clients[s].state /\ f.clients[s].name = e.clients[s].name
           /\ f.clients[s].sync = e.clients[s].sync /\ f.clients[s].pending = e.clients[s].pending
           /\ f.clients[s].asked \subseteq e.clients[s].asked
    <2>1. \A s \in ServerId : SoundClient(e.clients[s])
      BY DEF Sound
    <2> QED BY <1>0, <1>2, <1>4, <1>5, <1>6, <1>9, <1>10, <2>1
  <1>12. Staffed(f, R)
    <2>1. \A s \in ServerId : Referenced(f, s) <=> Referenced(e, s)
      BY <1>9 DEF Referenced
    <2> QED BY <1>9, <1>11, <2>1 DEF Sound, Staffed
  <1>13. Owed(f)
    <2>1. \A d \in DeliveryId : e.deliveries[d].waiting \in SUBSET ServerId
      BY <1>1, EditorParts DEF Deliveries
    <2> QED BY <1>9, <1>11, <2>1 DEF Sound, Owed
  <1>14. Informed(f)
    BY <1>9, <1>11 DEF Sound, Informed
  <1>15. ASSUME NEW s \in ServerId, NEW b \in BufferId
         PROVE  Follows(f.clients[s], b, s \in f.docs[b].attached, ExpectedOf(f.docs[b], f.text[b]))
    <2>1. Follows(e.clients[s], b, s \in e.docs[b].attached, ExpectedOf(e.docs[b], e.text[b]))
      BY DEF Sound
    <2> QED BY <1>9, <1>11, <2>1 DEF Follows
  <1>16. \A b \in BufferId : Chained(f.docs[b], f.text[b])
    BY <1>9 DEF Sound
  <1>17. Sound(f, R) /\ RunsNothing(e, f)
    BY <1>9, <1>11, <1>12, <1>13, <1>14, <1>15, <1>16 DEF Sound, RunsNothing
  <1> QED BY <1>0, <1>17

-----------------------------------------------------------------------------
(* The steps *)

\* An editor step that leaves a sound editor keeps the invariant.
LEMMA EditorKeeps ==
  ASSUME IInv, NEW e, Sound(e, {}), Editor(e)
  PROVE  IInv' /\ ed' = e
  <1>1. ed' = e /\ Sound(ed', {})
    BY DEF Editor
  <1>2. events' \in [ServerId -> Seq(Events)]
    <2>1. <<>> \in Seq(Events)
      OBVIOUS
    <2> QED BY <2>1 DEF Editor, IInv
  <1> QED BY <1>1, <1>2 DEF IInv

\* A change of plan is followed by a reconciliation of the buffer.
LEMMA ReplanKeeps ==
  ASSUME IInv, NEW b \in BufferId, NEW names \in SUBSET ServerName, NEW named \in 1 .. 2,
         Replan(b, names, named)
  PROVE  IInv' /\ RunsNothing(ed, ed')
  <1>1. PICK broken : Editor(ReconcileBuffer([ed EXCEPT !.wanted[b] = names, !.named[b] = named],
                                             b, broken))
    BY DEF Replan
  <1>2. PICK e, f : e = ed /\ f = [e EXCEPT !.wanted[b] = names, !.named[b] = named]
    OBVIOUS
  <1>3. Sound(e, {}) /\ e \in EditorStates
    BY <1>2 DEF IInv, Sound
  <1>4. f \in EditorStates /\ Replans(e, f)
    <2>1. named \in Nat
      OBVIOUS
    <2>2. PICK wanteds \in [BufferId -> SUBSET ServerName], nameds \in [BufferId -> Nat] :
            wanteds = [e.wanted EXCEPT ![b] = names] /\ nameds = [e.named EXCEPT ![b] = named]
      BY <1>3, <2>1 DEF EditorStates
    <2>3. f = [e EXCEPT !.wanted = wanteds, !.named = nameds]
      BY <1>2, <2>2
    <2> QED BY <1>3, <2>2, <2>3 DEF Replans, EditorStates
  <1>5. Sound(f, {}) /\ RunsNothing(e, f)
    BY <1>3, <1>4, ReplansKeep
  <1>6. PICK g : g = ReconcileBuffer(f, b, broken)
    OBVIOUS
  <1>7. Sound(g, {}) /\ RunsNothing(e, g)
    BY <1>5, <1>6, ReconcileBufferKeeps, RunsNothingTwice
  <1>8. Editor(g)
    BY <1>1, <1>2, <1>6
  <1>9. IInv' /\ ed' = g
    BY <1>7, <1>8, EditorKeeps
  <1> QED BY <1>2, <1>7, <1>9

\* What is stopped is written down.
LEMMA StoppedKeeps ==
  ASSUME NEW e, Sound(e, {}), NEW stopped \in SUBSET ServerName,
         NEW f, f = [e EXCEPT !.stopped = stopped]
  PROVE  Sound(f, {}) /\ RunsNothing(e, f)
  <1>1. e \in EditorStates
    BY DEF Sound
  <1>2. f \in EditorStates /\ Replans(e, f)
    BY <1>1 DEF Replans, EditorStates
  <1> QED BY <1>2, ReplansKeep

\* :lsp-stop.
LEMMA StopServersKeeps ==
  ASSUME IInv, NEW name \in ServerName, StopServers(name)
  PROVE  IInv' /\ RunsNothing(ed, ed')
  <1>1. PICK e, f : e = ed /\ f = StopTargets(e, name)
    OBVIOUS
  <1>2. Sound(e, {}) /\ Sound(f, {}) /\ RunsNothing(e, f)
    BY <1>1, StopTargetsKeeps DEF IInv
  <1>3. PICK stopped \in SUBSET ServerName :
          stopped = IF Find(e, name) = {} THEN f.stopped ELSE f.stopped \union {name}
    <2>1. f.stopped \in SUBSET ServerName
      BY <1>2 DEF Sound, EditorStates
    <2> QED BY <2>1
  <1>4. PICK g : g = [f EXCEPT !.stopped = stopped]
    OBVIOUS
  <1>5. Sound(g, {}) /\ RunsNothing(e, g)
    BY <1>2, <1>4, StoppedKeeps, RunsNothingTwice
  <1>6. Editor(g)
    BY <1>1, <1>3, <1>4 DEF StopServers
  <1>7. IInv' /\ ed' = g
    BY <1>5, <1>6, EditorKeeps
  <1> QED BY <1>1, <1>5, <1>7

\* :lsp-restart.
LEMMA RestartServersKeeps ==
  ASSUME IInv, NEW name \in ServerName, RestartServers(name)
  PROVE  IInv' /\ RunsNothing(ed, ed')
  <1>1. PICK e, f : e = ed /\ f = StopTargets(e, name)
    OBVIOUS
  <1>2. Sound(e, {}) /\ Sound(f, {}) /\ RunsNothing(e, f)
    BY <1>1, StopTargetsKeeps DEF IInv
  <1>3. PICK stopped \in SUBSET ServerName : stopped = f.stopped \ {name}
    <2>1. f.stopped \in SUBSET ServerName
      BY <1>2 DEF Sound, EditorStates
    <2> QED BY <2>1
  <1>4. PICK g : g = [f EXCEPT !.stopped = stopped]
    OBVIOUS
  <1>5. Sound(g, {}) /\ RunsNothing(e, g)
    BY <1>2, <1>4, StoppedKeeps, RunsNothingTwice
  <1>6. PICK broken : Editor(ReconcileAll(g, broken))
    BY <1>1, <1>3, <1>4 DEF RestartServers
  <1>7. PICK h : h = ReconcileAll(g, broken)
    OBVIOUS
  <1>8. Sound(h, {}) /\ RunsNothing(e, h)
    BY <1>5, <1>7, ReconcileAllKeeps, RunsNothingTwice
  <1>9. IInv' /\ ed' = h
    BY <1>6, <1>7, <1>8, EditorKeeps
  <1> QED BY <1>1, <1>8, <1>9

\* The LSP part of a written buffer.
LEMMA SaveStepKeeps ==
  ASSUME IInv, NEW b \in BufferId, Save(b)
  PROVE  IInv' /\ RunsNothing(ed, ed')
  <1>1. PICK e, f : e = ed /\ f = FlushPending(e)
    OBVIOUS
  <1>2. Sound(f, {}) /\ FlushedAll(e, f)
    BY <1>1, FlushPendingKeeps DEF IInv
  <1>3. PICK g : g = [f EXCEPT !.clients = SendTo(@, f.docs[b].attached, Saved(b))]
    OBVIOUS
  <1>4. Sound(g, {}) /\ Retells(f, g, b)
    BY <1>2, <1>3, SaveKeeps
  <1>5. RunsNothing(e, g)
    BY <1>2, <1>4, WritesRunNothing, RunsNothingTwice DEF FlushedAll, Retells
  <1>6. f.docs[b].attached = e.docs[b].attached
    BY <1>2 DEF FlushedAll
  <1>7. Editor(g)
    BY <1>1, <1>3, <1>6 DEF Save
  <1>8. IInv' /\ ed' = g
    BY <1>4, <1>7, EditorKeeps
  <1> QED BY <1>1, <1>5, <1>8

\* A buffer that closes leaves its servers, and those it leaves idle stop.
LEMMA CloseBufferKeeps ==
  ASSUME IInv, NEW b \in BufferId, CloseBuffer(b)
  PROVE  IInv' /\ RunsNothing(ed, ed')
  <1>1. PICK e, sids : e = ed /\ sids = e.docs[b].attached
    OBVIOUS
  <1>2. Sound(e, {}) /\ sids \in SUBSET ServerId
    BY <1>1, EditorParts DEF IInv, Sound
  <1>3. PICK f : f = DetachEach(e, b, sids)
    OBVIOUS
  <1>4. Sound(f, sids) /\ RunsNothing(e, f)
    <2>1. sids \subseteq e.docs[b].attached
      BY <1>1
    <2>2. Sound(f, {} \union sids) /\ Retells(e, f, b)
      BY <1>2, <1>3, <2>1, DetachKeeps
    <2>3. {} \union sids = sids
      OBVIOUS
    <2> QED BY <2>2, <2>3, WritesRunNothing DEF Retells
  <1>5. PICK g : g = StopUnreferenced(f, sids)
    OBVIOUS
  <1>6. Sound(g, {}) /\ RunsNothing(e, g)
    BY <1>2, <1>4, <1>5, StopUnreferencedKeeps, RunsNothingTwice
  <1>7. PICK h : h = [g EXCEPT !.open[b] = FALSE]
    OBVIOUS
  <1>8. Sound(h, {}) /\ RunsNothing(e, h)
    <2>1. g \in EditorStates
      BY <1>6 DEF Sound
    <2>2. h \in EditorStates /\ Replans(g, h)
      BY <1>7, <2>1 DEF Replans, EditorStates
    <2> QED BY <1>6, <2>2, ReplansKeep, RunsNothingTwice
  <1>9. Editor(h)
    BY <1>1, <1>3, <1>5, <1>7 DEF CloseBuffer
  <1>10. IInv' /\ ed' = h
    BY <1>8, <1>9, EditorKeeps
  <1> QED BY <1>1, <1>8, <1>10

\* A reload drops what waits, and every buffer is reconciled.
LEMMA ReloadKeeps ==
  ASSUME IInv, Reload
  PROVE  IInv' /\ RunsNothing(ed, ed')
  <1>1. PICK e, f : e = ed /\ f = Disposed(e)
    OBVIOUS
  <1>2. Sound(e, {}) /\ Sound(f, {}) /\ RunsNothing(e, f)
    BY <1>1, DisposedKeeps DEF IInv
  <1>3. PICK g : g = ReconcileAll(f, {})
    OBVIOUS
  <1>4. Sound(g, {}) /\ RunsNothing(e, g)
    BY <1>2, <1>3, ReconcileAllKeeps, RunsNothingTwice
  <1>5. Editor(g)
    BY <1>1, <1>3 DEF Reload, Disposed
  <1>6. IInv' /\ ed' = g
    BY <1>4, <1>5, EditorKeeps
  <1> QED BY <1>1, <1>4, <1>6

\* A delivery that is none is one.
LEMMA NoDeliveryIs ==
  NoDelivery \in Deliveries /\ NoDelivery.status = "none" /\ NoDelivery.waiting = {}
  <1>1. PICK b \in BufferId : b = CHOOSE x \in BufferId : TRUE
    BY LspSessionAssumption
  <1>2. PICK n : n = NoDelivery
    OBVIOUS
  <1>3. n = [status |-> "none", bid |-> b, version |-> Closed, allow_stale |-> FALSE,
             keyed |-> FALSE, waiting |-> {}]
    BY <1>1, <1>2 DEF NoDelivery
  <1>4. n \in Deliveries /\ n.status = "none" /\ n.waiting = {}
    BY <1>3 DEF Deliveries, Statuses, Closed
  <1> QED BY <1>2, <1>4

\* What is filed of a request, and of one that no server can answer.
Filed(e, b, keyed, stale, sids) ==
  [NoDelivery EXCEPT !.status = "waiting", !.bid = b, !.version = e.text[b],
                     !.allow_stale = stale, !.keyed = keyed, !.waiting = sids]

FiledAtOnce(e, b, keyed, stale) ==
  [Filed(e, b, keyed, stale, {}) EXCEPT !.status = "queued", !.allow_stale = TRUE]

\* Both are deliveries.
LEMMA FiledIs ==
  ASSUME NEW e \in EditorStates, NEW b \in BufferId, NEW keyed \in BOOLEAN, NEW stale \in BOOLEAN,
         NEW sids \in SUBSET ServerId
  PROVE  \E x \in Deliveries :
           /\ x = Filed(e, b, keyed, stale, sids)
           /\ x.version = e.text[b] /\ x.waiting = sids /\ x.status = "waiting"
  <1>1. PICK text \in Nat : text = e.text[b]
    BY DEF EditorStates, Texts
  <1>2. PICK n \in Deliveries : n = NoDelivery
    BY NoDeliveryIs
  <1>3. PICK x : x = [n EXCEPT !.status = "waiting", !.bid = b, !.version = text,
                               !.allow_stale = stale, !.keyed = keyed, !.waiting = sids]
    OBVIOUS
  <1>4. x \in Deliveries /\ x.version = text /\ x.waiting = sids /\ x.status = "waiting"
    BY <1>1, <1>2, <1>3 DEF Deliveries, Statuses
  <1>5. x = Filed(e, b, keyed, stale, sids)
    BY <1>1, <1>2, <1>3 DEF Filed
  <1> QED BY <1>1, <1>4, <1>5

\* Likewise.
LEMMA FiledAtOnceIs ==
  ASSUME NEW e \in EditorStates, NEW b \in BufferId, NEW keyed \in BOOLEAN, NEW stale \in BOOLEAN
  PROVE  \E x \in Deliveries :
           /\ x = FiledAtOnce(e, b, keyed, stale)
           /\ x.version = e.text[b] /\ x.waiting = {} /\ x.status = "queued"
  <1>1. {} \in SUBSET ServerId
    OBVIOUS
  <1>2. PICK y \in Deliveries :
          /\ y = Filed(e, b, keyed, stale, {})
          /\ y.version = e.text[b] /\ y.waiting = {} /\ y.status = "waiting"
    BY <1>1, FiledIs
  <1>3. PICK x : x = [y EXCEPT !.status = "queued", !.allow_stale = TRUE]
    OBVIOUS
  <1>4. x \in Deliveries /\ x.version = y.version /\ x.waiting = y.waiting /\ x.status = "queued"
    BY <1>3 DEF Deliveries, Statuses
  <1>5. x = FiledAtOnce(e, b, keyed, stale)
    BY <1>2, <1>3 DEF FiledAtOnce
  <1> QED BY <1>2, <1>4, <1>5

\* What becomes of the editor when a request of these running servers starts.
Asks(e, d, running, b, keyed, stale, f) ==
  \/ /\ running = {}
     /\ f = [e EXCEPT !.deliveries[d] = FiledAtOnce(e, b, keyed, stale),
                      !.calls = Append(@, d)]
  \/ \E sids \in {running} \union {{sid} : sid \in running} :
       /\ sids # {}
       /\ f = [e EXCEPT !.deliveries[d] = Filed(e, b, keyed, stale, sids),
                        !.clients = [s \in ServerId |-> IF s \in sids
                           THEN Asked(e.clients[s], d, b) ELSE e.clients[s]]]

\* It is what lsp_send_request does.
LEMMA RequestAsks ==
  ASSUME NEW b, NEW keyed, NEW stale, Request(b, keyed, stale)
  PROVE  Asks(StartRequest(ed, b, keyed),
              1 + Cardinality({x \in DeliveryId : ed.deliveries[x].status # "none"}),
              {sid \in StartRequest(ed, b, keyed).docs[b].attached :
                 StartRequest(ed, b, keyed).clients[sid].state = "running"},
              b, keyed, stale, ed')
  BY DEF Request, Asks, Filed, FiledAtOnce

\* A request of no server is queued at once.
LEMMA FilesNone ==
  ASSUME NEW e \in EditorStates, NEW b, NEW d \in DeliveryId, NEW x,
         NEW f, f = [e EXCEPT !.deliveries[d] = x, !.calls = Append(@, d)]
  PROVE  Files(e, f, b, d, x, {})
  <1>1. e.clients = [s \in ServerId |-> e.clients[s]]
    BY DEF EditorStates
  <1> QED BY <1>1 DEF Files, EditorStates

\* A request of some servers is asked of them.
LEMMA FilesSome ==
  ASSUME NEW e \in EditorStates, NEW b, NEW d \in DeliveryId, NEW x, NEW sids, sids # {},
         NEW f, f = [e EXCEPT !.deliveries[d] = x,
                              !.clients = [s \in ServerId |-> IF s \in sids
                                 THEN Asked(e.clients[s], d, b) ELSE e.clients[s]]]
  PROVE  Files(e, f, b, d, x, sids)
  BY DEF Files, EditorStates

\* The deliveries there were are the first, and the new one is the next.
LEMMA NextDelivery ==
  ASSUME NEW e, Owed(e), NEW d,
         d = 1 + Cardinality({x \in DeliveryId : e.deliveries[x].status # "none"})
  PROVE  \A y \in DeliveryId : e.deliveries[y].status # "none" <=> y < d
  <1>1. PICK n \in 0 .. MaxRequests : \A y \in DeliveryId : e.deliveries[y].status # "none" <=> y <= n
    BY DEF Owed
  <1>2. {x \in DeliveryId : e.deliveries[x].status # "none"} = 1 .. n
    BY <1>1, LspSessionAssumption DEF DeliveryId
  <1>3. n \in Nat /\ Cardinality(1 .. n) = n
    <2>1. n \in Nat
      BY LspSessionAssumption
    <2>2. Cardinality(1 .. n) = IF 1 > n THEN 0 ELSE n - 1 + 1
      BY <2>1, FS_Interval
    <2> QED BY <2>1, <2>2
  <1>4. d = 1 + n
    BY <1>2, <1>3
  <1> QED BY <1>1, <1>3, <1>4 DEF DeliveryId

\* lsp_send_request, of the running servers of a buffer.
LEMMA RequestKeeps ==
  ASSUME IInv, NEW b \in BufferId, NEW keyed \in BOOLEAN, NEW stale \in BOOLEAN,
         Request(b, keyed, stale)
  PROVE  IInv' /\ RunsNothing(ed, ed')
  <1>1. PICK e : e = StartRequest(ed, b, keyed)
    OBVIOUS
  <1>2. PICK d : d = 1 + Cardinality({x \in DeliveryId : ed.deliveries[x].status # "none"})
    OBVIOUS
  <1>3. PICK running : running = {sid \in e.docs[b].attached : e.clients[sid].state = "running"}
    OBVIOUS
  <1>4. /\ Sound(e, {}) /\ RunsNothing(ed, e) /\ e.docs[b].pending = <<>>
        /\ \A y \in DeliveryId : e.deliveries[y].status = "none" <=> ed.deliveries[y].status = "none"
    <2>1. PICK c : c = ed /\ Sound(c, {})
      BY DEF IInv
    <2>2. /\ Sound(StartRequest(c, b, keyed), {}) /\ RunsNothing(c, StartRequest(c, b, keyed))
          /\ StartRequest(c, b, keyed).docs[b].pending = <<>>
          /\ \A y \in DeliveryId : StartRequest(c, b, keyed).deliveries[y].status = "none"
                                     <=> c.deliveries[y].status = "none"
      BY <2>1, StartRequestKeeps
    <2> QED BY <1>1, <2>1, <2>2
  <1>5. e \in EditorStates /\ running \in SUBSET ServerId
    BY <1>3, <1>4, EditorParts DEF Sound
  <1>6. \A y \in DeliveryId : e.deliveries[y].status # "none" <=> y < d
    <2>1. PICK c : c = ed /\ Owed(c)
      BY DEF IInv, Sound
    <2>2. \A y \in DeliveryId : c.deliveries[y].status # "none" <=> y < d
      BY <1>2, <2>1, NextDelivery
    <2> QED BY <1>4, <2>1, <2>2
  <1>7. d \in DeliveryId
    BY <1>2 DEF Request
  <1>8. \E x \in Deliveries, sids \in SUBSET running :
          /\ x.version = e.text[b] /\ x.waiting = sids
          /\ x.status = IF sids = {} THEN "queued" ELSE "waiting"
          /\ Files(e, ed', b, d, x, sids)
    <2>1. PICK f : f = ed' /\ Asks(e, d, running, b, keyed, stale, f)
      BY <1>1, <1>2, <1>3, RequestAsks
    <2>2. CASE running = {}
               /\ f = [e EXCEPT !.deliveries[d] = FiledAtOnce(e, b, keyed, stale),
                                !.calls = Append(@, d)]
      <3>1. PICK x \in Deliveries :
              /\ x = FiledAtOnce(e, b, keyed, stale)
              /\ x.version = e.text[b] /\ x.waiting = {} /\ x.status = "queued"
        BY <1>5, FiledAtOnceIs
      <3>2. f = [e EXCEPT !.deliveries[d] = x, !.calls = Append(@, d)]
        BY <2>2, <3>1
      <3>3. Files(e, f, b, d, x, {})
        BY <1>5, <1>7, <3>2, FilesNone
      <3> QED BY <2>1, <3>1, <3>3
    <2>3. ASSUME NEW sids \in {running} \union {{sid} : sid \in running}, sids # {},
                 f = [e EXCEPT !.deliveries[d] = Filed(e, b, keyed, stale, sids),
                               !.clients = [s \in ServerId |-> IF s \in sids
                                  THEN Asked(e.clients[s], d, b) ELSE e.clients[s]]]
          PROVE  \E x \in Deliveries, ids \in SUBSET running :
                   /\ x.version = e.text[b] /\ x.waiting = ids
                   /\ x.status = IF ids = {} THEN "queued" ELSE "waiting"
                   /\ Files(e, f, b, d, x, ids)
      <3>1. sids \in SUBSET running
        OBVIOUS
      <3>2. sids \in SUBSET ServerId
        BY <1>5, <3>1
      <3>3. PICK x \in Deliveries :
              /\ x = Filed(e, b, keyed, stale, sids)
              /\ x.version = e.text[b] /\ x.waiting = sids /\ x.status = "waiting"
        BY <1>5, <3>2, FiledIs
      <3>4. f = [e EXCEPT !.deliveries[d] = x,
                          !.clients = [s \in ServerId |-> IF s \in sids
                             THEN Asked(e.clients[s], d, b) ELSE e.clients[s]]]
        BY <2>3, <3>3
      <3>5. Files(e, f, b, d, x, sids)
        BY <1>5, <1>7, <2>3, <3>4, FilesSome
      <3> QED BY <2>3, <3>1, <3>3, <3>5
    <2>4. \E x \in Deliveries, sids \in SUBSET running :
            /\ x.version = e.text[b] /\ x.waiting = sids
            /\ x.status = IF sids = {} THEN "queued" ELSE "waiting"
            /\ Files(e, f, b, d, x, sids)
      BY <2>1, <2>2, <2>3, Zenon DEF Asks
    <2> QED BY <2>1, <2>4
  <1>9. PICK x \in Deliveries, sids \in SUBSET running :
          /\ x.version = e.text[b] /\ x.waiting = sids
          /\ x.status = IF sids = {} THEN "queued" ELSE "waiting"
          /\ Files(e, ed', b, d, x, sids)
    BY <1>8
  <1>10. PICK f : f = ed' /\ Files(e, f, b, d, x, sids)
    BY <1>9
  <1>11. \A s \in sids : s \in e.docs[b].attached /\ e.clients[s].state = "running"
    BY <1>3
  <1>12. Sound(f, {}) /\ RunsNothing(e, f)
    BY <1>4, <1>6, <1>7, <1>9, <1>10, <1>11, FilesKeep
  <1>13. events' = events
    BY DEF Request
  <1>14. RunsNothing(ed, ed')
    BY <1>4, <1>10, <1>12 DEF RunsNothing
  <1> QED BY <1>10, <1>12, <1>13, <1>14 DEF IInv

\* Nothing runs when nothing changes.
LEMMA RunsNothingSame ==
  ASSUME ed' = ed
  PROVE  RunsNothing(ed, ed')
  BY DEF RunsNothing

\* An edit.
LEMMA EditKeeps ==
  ASSUME IInv, NEW b \in BufferId, Edit(b)
  PROVE  IInv' /\ RunsNothing(ed, ed')
  <1>1. PICK e, f : e = ed /\ f = Recorded(e, b)
    OBVIOUS
  <1>2. Sound(f, {}) /\ RunsNothing(e, f)
    BY <1>1, RecordedKeeps DEF IInv
  <1>3. ed' = f /\ events' = events
    BY <1>1 DEF Edit, Recorded
  <1> QED BY <1>1, <1>2, <1>3 DEF IInv

\* run_guarded: the callback at the head of the queue.
LEMMA RunCallKeeps ==
  ASSUME IInv, RunCall
  PROVE  /\ IInv'
         /\ \A d \in DeliveryId :
              ed'.deliveries[d].status = "called" =>
                \/ ed.deliveries[d].status = "called"
                \/ Admits(ed, d)
  <1>1. PICK e, d : e = ed /\ d = Head(e.calls)
    OBVIOUS
  <1>2. PICK status \in {"called", "dropped"} :
          status = IF Admits(e, d) THEN "called" ELSE "dropped"
    OBVIOUS
  <1>3. PICK f : f = Ran(e, status)
    OBVIOUS
  <1>4. e.calls # <<>> /\ ed' = f /\ events' = events
    BY <1>1, <1>2, <1>3 DEF RunCall, StillAdmitted, Ran
  <1>5. Sound(e, {})
    BY <1>1 DEF IInv
  <1>6. /\ Sound(Ran(e, status), {})
        /\ Head(e.calls) \in DeliveryId
        /\ Ran(e, status).deliveries[Head(e.calls)].status = status
        /\ \A x \in DeliveryId : x # Head(e.calls) =>
             Ran(e, status).deliveries[x] = e.deliveries[x]
    BY <1>4, <1>5, RanKeeps
  <1>7. /\ Sound(f, {}) /\ d \in DeliveryId /\ f.deliveries[d].status = status
        /\ \A x \in DeliveryId : x # d => f.deliveries[x] = e.deliveries[x]
    BY <1>1, <1>3, <1>6
  <1>8. \A x \in DeliveryId : f.deliveries[x].status = "called" =>
          e.deliveries[x].status = "called" \/ Admits(e, x)
    BY <1>2, <1>7
  <1>9. IInv'
    BY <1>4, <1>7 DEF IInv
  <1> QED BY <1>1, <1>4, <1>8, <1>9

\* drain_lsp, once the changes before it are sent.
LEMMA DrainKeeps ==
  ASSUME IInv, Drain
  PROVE  IInv' /\ RunsNothing(ed, ed')
  <1>1. PICK e, f, g : e = ed /\ f = FlushPending(e) /\ g = Drained(f)
    OBVIOUS
  <1>2. Sound(f, {}) /\ FlushedAll(e, f)
    BY <1>1, FlushPendingKeeps DEF IInv
  <1>3. Sound(g, {}) /\ RunsNothing(f, g)
    BY <1>1, <1>2, DrainedKeeps DEF IInv
  <1>4. RunsNothing(e, g)
    BY <1>2, <1>3, WritesRunNothing, RunsNothingTwice DEF FlushedAll
  <1>5. ed' = g
    BY <1>1 DEF Drain
  <1>6. events' \in [ServerId -> Seq(Events)]
    <2>1. <<>> \in Seq(Events)
      OBVIOUS
    <2> QED BY <2>1 DEF Drain
  <1> QED BY <1>1, <1>3, <1>4, <1>5, <1>6 DEF IInv

\* What a server writes is one more event.
LEMMA WrittenIs ==
  ASSUME IInv, NEW sid \in ServerId, NEW ev \in Events,
         events' = [events EXCEPT ![sid] = Append(@, ev)]
  PROVE  events' \in [ServerId -> Seq(Events)]
  <1>1. PICK old \in [ServerId -> Seq(Events)] : old = events
    BY DEF IInv
  <1>2. Append(old[sid], ev) \in Seq(Events)
    BY <1>1
  <1> QED BY <1>1, <1>2

\* The answer to initialize.
LEMMA AnswerInitializeKeeps ==
  ASSUME IInv, NEW sid \in ServerId, NEW sync \in Syncs \union {"refused"},
         AnswerInitialize(sid, sync)
  PROVE  IInv' /\ RunsNothing(ed, ed')
  <1>1. ed' = ed
    BY DEF AnswerInitialize
  <1>2. PICK ev \in Events : ev = [kind |-> "initialized", sync |-> sync]
    BY DEF Events
  <1>3. events' = [events EXCEPT ![sid] = Append(@, ev)]
    BY <1>2 DEF AnswerInitialize
  <1>4. events' \in [ServerId -> Seq(Events)]
    BY <1>3, WrittenIs
  <1>5. Sound(ed', {})
    BY <1>1 DEF IInv
  <1> QED BY <1>1, <1>4, <1>5, RunsNothingSame DEF IInv

\* An answer to a request.
LEMMA AnswerKeeps ==
  ASSUME IInv, NEW sid \in ServerId, NEW q, Answer(sid, q)
  PROVE  IInv' /\ RunsNothing(ed, ed')
  <1>1. PICK e, f : e = ed /\ f = Answered(e, sid, q)
    OBVIOUS
  <1>2. Sound(e, {}) /\ Sound(f, {}) /\ RunsNothing(e, f)
    BY <1>1, AnsweredKeeps DEF IInv
  <1>3. ed' = f
    BY <1>1 DEF Answer, Answered
  <1>4. q.request \in DeliveryId
    <2>1. PICK c \in Clients : c = e.clients[sid]
      BY <1>2, EditorParts DEF Sound
    <2>2. q \in c.asked
      BY <1>1, <2>1 DEF Answer
    <2>3. q \in Questions
      BY <2>1, <2>2 DEF Clients
    <2> QED BY <2>3 DEF Questions
  <1>5. PICK ev \in Events : ev = [kind |-> "answer", request |-> q.request]
    BY <1>4 DEF Events
  <1>6. events' = [events EXCEPT ![sid] = Append(@, ev)]
    BY <1>5 DEF Answer
  <1>7. events' \in [ServerId -> Seq(Events)]
    BY <1>6, WrittenIs
  <1> QED BY <1>1, <1>2, <1>3, <1>7 DEF IInv

\* A process that dies.
LEMMA DieKeeps ==
  ASSUME IInv, NEW sid \in ServerId, Die(sid)
  PROVE  IInv' /\ RunsNothing(ed, ed')
  <1>1. ed' = ed
    BY DEF Die
  <1>2. PICK ev \in Events : ev = [kind |-> "eof"]
    BY DEF Events
  <1>3. events' = [events EXCEPT ![sid] = Append(@, ev)]
    BY <1>2 DEF Die
  <1>4. events' \in [ServerId -> Seq(Events)]
    BY <1>3, WrittenIs
  <1>5. Sound(ed', {})
    BY <1>1 DEF IInv
  <1> QED BY <1>1, <1>4, <1>5, RunsNothingSame DEF IInv

\* What leaves the editor and the events alone.
LEMMA StillKeeps ==
  ASSUME IInv, ed' = ed, events' = events
  PROVE  IInv' /\ RunsNothing(ed, ed')
  BY RunsNothingSame DEF IInv

\* What a step that is no callback's turn does to the callbacks.
Quiet == RunsNothing(ed, ed')

-----------------------------------------------------------------------------
(* The invariant is inductive *)

\* It holds at the start, before any server.
LEMMA InitIInv ==
  ASSUME Init
  PROVE  IInv
  <1>1. PICK e : e = ed
    OBVIOUS
  <1>2. /\ e = [text |-> [b \in BufferId |-> 1], open |-> [b \in BufferId |-> TRUE],
                named |-> [b \in BufferId |-> 1], wanted |-> [b \in BufferId |-> {}],
                docs |-> [b \in BufferId |-> NoDoc],
                clients |-> [sid \in ServerId |-> NoClient], next |-> 1, stopped |-> {},
                deliveries |-> [d \in DeliveryId |-> NoDelivery], calls |-> <<>>]
    BY <1>1 DEF Init
  <1>3. NoDoc \in Docs /\ NoDoc.attached = {} /\ NoDoc.pending = <<>>
    BY DEF NoDoc, Docs
  <1>4. /\ NoClient \in Clients /\ SoundClient(NoClient) /\ NoClient.state = "none"
        /\ NoClient.asked = {}
    BY NoClientIs DEF NoClient
  <1>5. /\ e.text = [b \in BufferId |-> 1] /\ e.docs = [b \in BufferId |-> NoDoc]
        /\ e.clients = [sid \in ServerId |-> NoClient]
        /\ e.deliveries = [d \in DeliveryId |-> NoDelivery] /\ e.calls = <<>>
    BY <1>2
  <1>6. e \in EditorStates
    <2>1. 1 \in 1 .. MaxServers + 1 /\ 1 \in Texts /\ 1 \in Nat /\ <<>> \in Seq(DeliveryId)
      BY LspSessionAssumption DEF Texts
    <2>2. /\ [b \in BufferId |-> 1] \in [BufferId -> Texts]
          /\ [b \in BufferId |-> 1] \in [BufferId -> Nat]
          /\ [b \in BufferId |-> TRUE] \in [BufferId -> BOOLEAN]
          /\ [b \in BufferId |-> {}] \in [BufferId -> SUBSET ServerName]
          /\ [b \in BufferId |-> NoDoc] \in [BufferId -> Docs]
          /\ [sid \in ServerId |-> NoClient] \in [ServerId -> Clients]
          /\ [d \in DeliveryId |-> NoDelivery] \in [DeliveryId -> Deliveries]
      BY <1>3, <1>4, <2>1, NoDeliveryIs
    <2> QED BY <1>2, <2>1, <2>2 DEF EditorStates
  <1>7. \A b \in BufferId : Chained(e.docs[b], e.text[b])
    <2>1. Len(<<>>) = 0 /\ 2 .. 0 = {}
      OBVIOUS
    <2>2. \A b \in BufferId : Chained(NoDoc, e.text[b])
      BY <1>3, <2>1 DEF Chained
    <2> QED BY <1>5, <2>2
  <1>8. \A s \in ServerId, b \in BufferId :
          Follows(e.clients[s], b, s \in e.docs[b].attached, ExpectedOf(e.docs[b], e.text[b]))
    <2>1. \A s \in ServerId : e.clients[s] = NoClient
      BY <1>5
    <2> QED BY <1>4, <2>1 DEF Follows
  <1>9. Staffed(e, {})
    <2>1. \A s \in ServerId : ~Referenced(e, s)
      BY <1>3, <1>5 DEF Referenced
    <2>2. \A s \in ServerId : e.clients[s].state = "none"
      BY <1>4, <1>5
    <2> QED BY <2>1, <2>2 DEF Staffed, Live
  <1>10. Owed(e)
    <2>1. \A d \in DeliveryId : e.deliveries[d].status = "none" /\ e.deliveries[d].waiting = {}
      BY <1>5, NoDeliveryIs
    <2>2. DOMAIN e.calls = {}
      <3>1. DOMAIN (<<>>) = {}
        OBVIOUS
      <3> QED BY <1>5, <3>1
    <2>3. 0 \in 0 .. MaxRequests /\ \A d \in DeliveryId : ~(d <= 0)
      BY LspSessionAssumption DEF DeliveryId
    <2> QED BY <2>1, <2>2, <2>3 DEF Owed
  <1>11. Informed(e) /\ \A s \in ServerId : SoundClient(e.clients[s])
    BY <1>4, <1>5 DEF Informed
  <1>12. Sound(e, {})
    BY <1>6, <1>7, <1>8, <1>9, <1>10, <1>11 DEF Sound
  <1>13. events \in [ServerId -> Seq(Events)]
    <2>1. <<>> \in Seq(Events)
      OBVIOUS
    <2> QED BY <2>1 DEF Init
  <1> QED BY <1>1, <1>12, <1>13 DEF IInv

\* Every step keeps it, and only a callback's turn runs one.
LEMMA StepKeeps ==
  ASSUME IInv, [Next]_vars
  PROVE  IInv' /\ (Quiet \/ RunCall)
  <1> USE DEF Quiet
  <1>1. CASE UNCHANGED vars
    BY <1>1, StillKeeps DEF vars
  <1>2. ASSUME NEW b \in BufferId, Edit(b) PROVE IInv' /\ Quiet
    BY <1>2, EditKeeps
  <1>3. ASSUME NEW b \in BufferId, Save(b) PROVE IInv' /\ Quiet
    BY <1>3, SaveStepKeeps
  <1>4. ASSUME NEW b \in BufferId, CloseBuffer(b) PROVE IInv' /\ Quiet
    BY <1>4, CloseBufferKeeps
  <1>5. ASSUME NEW b \in BufferId, NEW names \in SUBSET ServerName, NEW named \in 1 .. 2,
               Replan(b, names, named)
        PROVE  IInv' /\ Quiet
    BY <1>5, ReplanKeeps
  <1>6. ASSUME NEW b \in BufferId, NEW keyed \in BOOLEAN, NEW stale \in BOOLEAN,
               Request(b, keyed, stale)
        PROVE  IInv' /\ Quiet
    BY <1>6, RequestKeeps
  <1>7. ASSUME NEW name \in ServerName, StopServers(name) PROVE IInv' /\ Quiet
    BY <1>7, StopServersKeeps
  <1>8. ASSUME NEW name \in ServerName, RestartServers(name) PROVE IInv' /\ Quiet
    BY <1>8, RestartServersKeeps
  <1>9. CASE Reload
    BY <1>9, ReloadKeeps
  <1>10. CASE RunCall
    BY <1>10, RunCallKeeps
  <1>11. CASE Drain
    BY <1>11, DrainKeeps
  <1>12. ASSUME NEW sid \in ServerId, NEW sync \in Syncs \union {"refused"},
                AnswerInitialize(sid, sync)
         PROVE  IInv' /\ Quiet
    BY <1>12, AnswerInitializeKeeps
  <1>13. ASSUME NEW sid \in ServerId, NEW q, Answer(sid, q) PROVE IInv' /\ Quiet
    BY <1>13, AnswerKeeps
  <1>14. ASSUME NEW sid \in ServerId, Die(sid) PROVE IInv' /\ Quiet
    BY <1>14, DieKeeps
  <1>15. ASSUME NEW sid, NEW d, Expire(sid, d) PROVE IInv' /\ Quiet
    BY <1>15, StillKeeps DEF Expire
  <1> HIDE DEF Quiet
  <1> QED
    BY <1>1, <1>2, <1>3, <1>4, <1>5, <1>6, <1>7, <1>8, <1>9, <1>10, <1>11, <1>12, <1>13, <1>14,
       <1>15 DEF Next

\* The invariant gives the types, one process per name, for as long as a buffer
\* is attached to it, and servers that run for whoever waits for them.
LEMMA IInvTypes ==
  ASSUME IInv
  PROVE  TypeOK
  <1>1. PICK e : e = ed /\ Sound(e, {})
    BY DEF IInv
  <1>2. e \in EditorStates /\ Staffed(e, {}) /\ Owed(e)
    BY <1>1 DEF Sound
  <1>3. \A sid \in ServerId : e.clients[sid].state \in Live <=> Referenced(e, sid)
    BY <1>2 DEF Staffed
  <1>4. ASSUME NEW name \in ServerName
        PROVE  Cardinality(Find(e, name)) <= 1
    <2>1. \A s, t \in Find(e, name) : s = t
      BY <1>2 DEF Find, Staffed
    <2>2. CASE Find(e, name) = {}
      BY <2>2, FS_EmptySet
    <2>3. CASE Find(e, name) # {}
      <3>1. PICK s \in Find(e, name) : TRUE
        BY <2>3
      <3>2. Find(e, name) = {s}
        BY <2>1, <3>1
      <3>3. Cardinality({s}) = 1
        BY FS_Singleton
      <3> QED BY <3>2, <3>3
    <2> QED BY <2>2, <2>3
  <1>5. \A d \in DeliveryId :
          /\ e.deliveries[d].status = "waiting" <=> e.deliveries[d].waiting # {}
          /\ \A sid \in e.deliveries[d].waiting :
               e.clients[sid].state = "running" /\ d \in e.clients[sid].pending
    BY <1>2 DEF Owed
  <1>6. ASSUME NEW sid \in ServerId
        PROVE  LET c == e.clients[sid] IN
               /\ c.state \in Live \union {"none"}
               /\ c.sync \in Syncs
               /\ c.pending \subseteq DeliveryId
               /\ c.queued # <<>> => c.state = "starting"
               /\ c.ended = {}
    <2>1. PICK c \in Clients : c = e.clients[sid]
      BY <1>2, EditorParts
    <2>2. SoundClient(c)
      BY <1>1, <2>1 DEF Sound
    <2>3. c.state \in Live \union {"none"} /\ c.sync \in Syncs /\ c.pending \in SUBSET DeliveryId
      BY DEF Clients
    <2> QED BY <2>1, <2>2, <2>3 DEF SoundClient
  <1>7. \A b \in BufferId : e.docs[b].attached = {} => e.docs[b] = NoDoc
    BY <1>1 DEF Sound, Chained
  <1>8. \A d \in DeliveryId :
          e.deliveries[d].status \in {"none", "waiting", "queued", "called", "dropped"}
    BY <1>2, EditorParts DEF Deliveries, Statuses
  <1>9. e.next \in 1 .. MaxServers + 1
    BY <1>2 DEF EditorStates
  <1> QED BY <1>1, <1>3, <1>4, <1>5, <1>6, <1>7, <1>8, <1>9 DEF TypeOK

\* It gives what the servers know.
LEMMA IInvFollows ==
  ASSUME IInv
  PROVE  ServersFollowTheText
  <1>1. ASSUME NEW sid \in ServerId, NEW b \in BufferId,
               ed.clients[sid].state \in {"starting", "running"}
        PROVE  LET known == Knows(ed.clients[sid])[b] IN
               IF sid \notin ed.docs[b].attached THEN known = Closed
               ELSE IF ed.clients[sid].sync = "none" THEN known > Closed
               ELSE known = Expected(b)
    <2>1. Follows(ed.clients[sid], b, sid \in ed.docs[b].attached,
                  ExpectedOf(ed.docs[b], ed.text[b]))
      BY DEF IInv, Sound
    <2>2. ExpectedOf(ed.docs[b], ed.text[b]) = Expected(b)
      BY DEF ExpectedOf, Expected
    <2>3. CASE sid \in ed.docs[b].attached
      BY <1>1, <2>1, <2>2, <2>3 DEF Follows
    <2>4. CASE sid \notin ed.docs[b].attached
      BY <1>1, <2>1, <2>4 DEF Follows
    <2> QED BY <2>3, <2>4
  <1> QED BY <1>1 DEF ServersFollowTheText

\* The invariant always holds.
THEOREM IInvAlways == Spec => []IInv
  <1>1. Init => IInv
    BY InitIInv
  <1>2. IInv /\ [Next]_vars => IInv'
    BY StepKeeps
  <1> QED BY <1>1, <1>2, PTL DEF Spec

\* TypeOK of lsp_instance_for, lsp_detach, lsp_stop_instance and the table of
\* deliveries: a server process lives exactly as long as a buffer is attached to
\* it, there is one per name, and what a delivery waits for is owed by servers
\* that run.
THEOREM TypeCorrect == Spec => []TypeOK
  <1>1. IInv => TypeOK
    BY IInvTypes
  <1> QED BY <1>1, IInvAlways, PTL

\* Once it has read everything written and queued for it, a server that runs or
\* starts knows each attached buffer's text, as of the changes lsp_flush_buffer
\* has yet to send, and has no other document open: through handshakes,
\* coalescing, late attachment, renames, stops and restarts.
THEOREM ServersFollowTheTextAlways == Spec => []ServersFollowTheText
  <1>1. IInv => ServersFollowTheText
    BY IInvFollows
  <1> QED BY <1>1, IInvAlways, PTL

\* A server that reads a request of start_request already knows the text the
\* request is about.
THEOREM RequestsFollowTheirTextAlways == Spec => []RequestsFollowTheirText
  <1>1. IInv => RequestsFollowTheirText
    <2>1. ASSUME IInv PROVE RequestsFollowTheirText
      <3>1. PICK e : e = ed /\ Informed(e)
        BY <2>1 DEF IInv, Sound
      <3> QED BY <3>1 DEF Informed, RequestsFollowTheirText
    <2> QED BY <2>1
  <1> QED BY <1>1, IInvAlways, PTL

\* run_guarded never runs a callback about a text that moved on between the
\* drain that queued it and its turn, nor one about a buffer closed since,
\* unless the script allowed it.
THEOREM CallbacksSeeTheirTextAlways == Spec => CallbacksSeeTheirText
  <1> DEFINE Sees == \A d \in DeliveryId : LET x == ed.deliveries[d] IN
                       (x.status = "queued" /\ ed'.deliveries[d].status = "called"
                          /\ ~x.allow_stale) =>
                         ed.open[x.bid] /\ ed.text[x.bid] = x.version
  <1>1. ASSUME IInv, [Next]_vars
        PROVE  Sees
    <2>1. CASE Quiet
      <3>1. \A d \in DeliveryId : ed'.deliveries[d].status = "called" =>
              ed.deliveries[d].status = "called"
        BY <2>1 DEF Quiet, RunsNothing
      <3> QED BY <3>1
    <2>2. CASE RunCall
      <3>1. \A d \in DeliveryId :
              ed'.deliveries[d].status = "called" =>
                ed.deliveries[d].status = "called" \/ Admits(ed, d)
        BY <1>1, <2>2, RunCallKeeps
      <3> QED BY <3>1 DEF Admits
    <2> QED BY <1>1, <2>1, <2>2, StepKeeps
  <1>2. IInv /\ [Next]_vars => [Sees]_vars
    BY <1>1
  <1> QED BY <1>2, IInvAlways, PTL DEF Spec, CallbacksSeeTheirText
=============================================================================
