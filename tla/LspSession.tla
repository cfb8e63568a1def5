----------------------------- MODULE LspSession ----------------------------
(***************************************************************************)
(* Language servers: a client per server process (hume-lsp/src/client.rs), *)
(* the documents it is told about and which servers a buffer is attached   *)
(* to (hume-editor/src/editor/lsp/{document,attach,sync,drain}.rs), and    *)
(* the requests scripts wait for (lsp/bridge.rs), with the servers.        *)
(*                                                                         *)
(* What the editor writes reaches a server in the order it was written, so *)
(* the `told` of a client holds what its server knows of each document     *)
(* once it has read everything, and `asked` the requests it has yet to     *)
(* answer.  What a server writes waits in `events` for a drain.  A text is *)
(* its generation.  A request is named by its delivery, on every server it *)
(* went to.  Diagnostics, progress, server requests and what a list entry  *)
(* excludes are left out.                                                  *)
(***************************************************************************)
EXTENDS Integers, Sequences, SequencesExt, FiniteSets, FiniteSetsExt

CONSTANTS
  BufferId,
  ServerName,
  MaxServers,   \* bound: processes started
  MaxEdits,     \* bound: edits of all buffers
  MaxRequests,  \* bound: requests of scripts
  MaxCommands   \* bound: plans, stops, saves, closes and reloads

ASSUME LspSessionAssumption ==
  /\ IsFiniteSet(BufferId) /\ BufferId # {}
  /\ IsFiniteSet(ServerName)
  /\ {MaxServers, MaxEdits, MaxRequests, MaxCommands} \subseteq Nat

ServerId == 1..MaxServers
DeliveryId == 1..MaxRequests
Initialize == 0     \* the name of the handshake's request

VARIABLES
  ed,       \* the editor
  events,   \* what each server wrote and no drain has read
  up,       \* the servers whose process runs
  expired,  \* the requests whose deadline has passed
  edits, commands

vars == <<ed, events, up, expired, edits, commands>>

-----------------------------------------------------------------------------
(* What a server knows of a document.                                      *)

Closed == 0
Confused == -1  \* it was told what makes no sense

Open(b, v) == [kind |-> "open", bid |-> b, from |-> v, to |-> v]
Whole(b, v) == [kind |-> "whole", bid |-> b, from |-> v, to |-> v]
Ranged(b, edit) == [kind |-> "ranged", bid |-> b, from |-> edit[1], to |-> edit[2]]
Saved(b) == [kind |-> "saved", bid |-> b, from |-> Closed, to |-> Closed]
Close(b) == [kind |-> "close", bid |-> b, from |-> Closed, to |-> Closed]

Heard(told, m) ==
  LET known == told[m.bid]
      sound == /\ m.kind = "open" <=> known = Closed
               /\ m.kind = "ranged" => known = m.from
  IN [told EXCEPT ![m.bid] =
        IF ~sound \/ known = Confused THEN Confused
        ELSE IF m.kind = "saved" THEN known ELSE m.to]

-----------------------------------------------------------------------------
(* LspClient, with what its server was told and asked.                     *)

NoClient == [state |-> "none", name |-> "none", sync |-> "full",
             queued |-> <<>>, initialize |-> FALSE,
             pending |-> {}, ended |-> {},
             told |-> [b \in BufferId |-> Closed], asked |-> {}]

Live == {"starting", "running", "crashed"}

(* new and start_handshake.                                                *)
Starting(name) ==
  [NoClient EXCEPT !.state = "starting", !.name = name, !.initialize = TRUE]

(* What a server knows once it has read everything written and queued.     *)
Knows(c) == FoldLeft(Heard, c.told, c.queued)

(* A plausible bug: any queued change of the document is replaced.         *)
SupersedesEarlier(queued, m) ==
  IF m.kind = "whole" /\ \E i \in DOMAIN queued :
       queued[i].kind = "whole" /\ queued[i].bid = m.bid
    THEN CHOOSE i \in DOMAIN queued : queued[i].kind = "whole" /\ queued[i].bid = m.bid
    ELSE 0

(* The queued message a new one replaces, by `supersedes`: only the last.  *)
Superseded(queued, m) ==
  IF /\ queued # <<>> /\ m.kind = "whole"
     /\ Last(queued).kind \in {"whole", "ranged"} /\ Last(queued).bid = m.bid
    THEN Len(queued) ELSE 0

SendOrQueue(c, m) ==
  LET i == Superseded(c.queued, m)
  IN IF c.state = "running" THEN [c EXCEPT !.told = Heard(@, m)]
     ELSE IF c.state = "starting"
       THEN [c EXCEPT !.queued = IF i = 0 THEN Append(@, m) ELSE [@ EXCEPT ![i] = m]]
     ELSE c

(* A plausible bug: a crash leaves what is in flight to its deadline, and  *)
(* forgets it.                                                             *)
PendingForgotten(c) == [c EXCEPT !.pending = {}]

(* drain_pending: what is in flight ends as stopped.                       *)
PendingStopped(c) == [c EXCEPT !.pending = {}, !.ended = @ \union c.pending]

(* The Crashed action.                                                     *)
Crashed(c) == [PendingStopped(c) EXCEPT !.state = "crashed", !.queued = <<>>]

(* The BecameRunning action: what was queued is written.                   *)
BecomeRunning(c, sync) ==
  [c EXCEPT !.state = "running", !.sync = sync, !.told = Knows(c), !.queued = <<>>]

Handshaken(c, sync) ==
  IF c.state # "starting" THEN c
  ELSE IF sync = "refused" THEN Crashed(c)
  ELSE BecomeRunning(c, sync)

OnEvent(c, ev) ==
  IF ev.kind = "eof"
    THEN IF c.state \in {"starting", "running"} THEN Crashed(c) ELSE c
  ELSE IF ev.kind = "initialized"
    THEN IF c.initialize THEN Handshaken([c EXCEPT !.initialize = FALSE], ev.sync) ELSE c
  ELSE [c EXCEPT !.pending = @ \ {ev.request},
                 !.ended = @ \union (c.pending \cap {ev.request})]

(* take_completed: the requests whose deadline passed end too.             *)
TakeCompleted(c, sid) ==
  LET late == {d \in c.pending : <<sid, d>> \in expired}
      unanswered == c.initialize /\ <<sid, Initialize>> \in expired
      swept == [c EXCEPT !.pending = @ \ late, !.ended = @ \union late,
                         !.initialize = @ /\ ~unanswered]
  IN IF unanswered /\ c.state = "starting" THEN Crashed(swept) ELSE swept

DrainServer(c, sid) ==
  IF c.state \in Live THEN TakeCompleted(FoldLeft(OnEvent, c, events[sid]), sid) ELSE c

-----------------------------------------------------------------------------
(* Deliveries: what waits for a request's answers.                         *)

NoDelivery == [status |-> "none", bid |-> CHOOSE b \in BufferId : TRUE,
               version |-> Closed, allow_stale |-> FALSE, keyed |-> FALSE,
               waiting |-> {}]

(* anchor_admits.                                                          *)
Admits(e, d) ==
  LET anchor == e.deliveries[d] IN
  \/ anchor.allow_stale
  \/ e.open[anchor.bid] /\ e.text[anchor.bid] = anchor.version

(* Deliveries::fill, of what each server ended: what each delivery waits   *)
(* for still, and those whose last slot that was.                          *)
LeftOf(e, ended) ==
  [d \in DeliveryId |-> {sid \in e.deliveries[d].waiting : d \notin ended[sid]}]

FinishedOf(e, ended) ==
  {d \in DeliveryId : e.deliveries[d].waiting # {} /\ LeftOf(e, ended)[d] = {}}

AdmittedOf(e, ended) == {d \in FinishedOf(e, ended) : Admits(e, d)}

(* lsp_dispatch_completed: finish_delivery queues the callbacks admitted.  *)
(* In what order one step queues them is left open.                        *)
FillSlots(e, ended) ==
  LET status(d) == IF d \in AdmittedOf(e, ended) THEN "queued"
                   ELSE IF d \in FinishedOf(e, ended) THEN "dropped"
                   ELSE e.deliveries[d].status
  IN [e EXCEPT
        !.deliveries = [d \in DeliveryId |->
           [e.deliveries[d] EXCEPT !.waiting = LeftOf(e, ended)[d], !.status = status(d)]],
        !.calls = @ \o SetToSeq(AdmittedOf(e, ended))]

(* drop_delivery, for the delivery in flight under the key.                *)
CancelSuperseded(e, b) ==
  LET under == {d \in DeliveryId : LET x == e.deliveries[d] IN
                  x.status = "waiting" /\ x.keyed /\ x.bid = b}
  IN [e EXCEPT
        !.deliveries = [d \in DeliveryId |->
           IF d \in under THEN [e.deliveries[d] EXCEPT !.status = "dropped", !.waiting = {}]
           ELSE e.deliveries[d]],
        !.clients = [s \in ServerId |->
           [e.clients[s] EXCEPT !.pending =
              @ \ {d \in under : s \in e.deliveries[d].waiting}]]]

-----------------------------------------------------------------------------
(* Documents and attachments.                                              *)

NoDoc == [opened |-> 0, attached |-> {}, pending |-> <<>>]

(* The clients, with m sent to those of `sids`.                            *)
SendTo(clients, sids, m) ==
  [sid \in ServerId |-> IF sid \in sids THEN SendOrQueue(clients[sid], m) ELSE clients[sid]]

FlushTo(c, b, text, pending) ==
  IF c.sync = "none" THEN c
  ELSE IF c.sync = "full" THEN SendOrQueue(c, Whole(b, text))
  ELSE FoldLeft(LAMBDA acc, edit : SendOrQueue(acc, Ranged(b, edit)), c, pending)

(* lsp_flush_buffer.                                                       *)
Flush(e, b) ==
  LET doc == e.docs[b]
      flushed(c) == FlushTo(c, b, e.text[b], doc.pending)
  IN IF doc.pending = <<>> THEN e
     ELSE [e EXCEPT !.docs[b].pending = <<>>,
                    !.clients = [sid \in ServerId |->
                       IF sid \in doc.attached THEN flushed(e.clients[sid])
                       ELSE e.clients[sid]]]

FlushPending(e) == FoldSet(LAMBDA b, acc : Flush(acc, b), e, BufferId)

(* lsp_attach.                                                             *)
Attach(e, b, sid) ==
  LET flushed == Flush(e, b) IN
  [flushed EXCEPT !.clients = SendTo(@, {sid}, Open(b, e.text[b])),
                  !.docs[b].attached = @ \union {sid},
                  !.docs[b].opened = e.named[b]]

(* lsp_detach, for each of sids.                                           *)
DetachEach(e, b, sids) ==
  LET flushed == Flush(e, b)
      left == e.docs[b].attached \ sids
  IN IF sids = {} THEN e
     ELSE [flushed EXCEPT !.clients = SendTo(@, sids, Close(b)),
                          !.docs[b] = IF left = {} THEN NoDoc
                                      ELSE [@ EXCEPT !.attached = left]]

(* lsp_stop_instance, of each of sids: take_completed, then drain_pending. *)
(* What the killed process knew is forgotten.                              *)
StopInstances(e, sids) ==
  FillSlots([e EXCEPT !.clients = [sid \in ServerId |->
               IF sid \in sids THEN NoClient ELSE e.clients[sid]]],
            [sid \in ServerId |-> IF sid \in sids THEN PendingStopped(e.clients[sid]).ended
                                  ELSE {}])

Referenced(e, sid) == \E b \in BufferId : sid \in e.docs[b].attached

(* A plausible bug: a buffer that is detached leaves its servers running.  *)
StopNothing(e, sids) == e

StopUnreferenced(e, sids) == StopInstances(e, {sid \in sids : ~Referenced(e, sid)})

Find(e, name) == {sid \in ServerId : /\ e.clients[sid].state \in Live
                                     /\ e.clients[sid].name = name}

(* lsp_instance_for, and the attachment of b to it.                        *)
AttachTo(e, b, name, broken) ==
  LET found == Find(e, name)
      sid == IF found = {} THEN e.next ELSE CHOOSE s \in found : TRUE
      spawned == [e EXCEPT !.clients[e.next] = Starting(name), !.next = @ + 1]
  IN IF found = {}
       THEN IF name \in broken \/ e.next \notin ServerId THEN e
            ELSE Attach(spawned, b, sid)
     ELSE IF sid \in e.docs[b].attached THEN e
     ELSE Attach(e, b, sid)

AttachAll(e, b, names, broken) ==
  FoldSet(LAMBDA name, acc : AttachTo(acc, b, name, broken), e, names)

(* lsp_reconcile_one: the servers b is to have, and those it leaves.       *)
Wanted(e, b) == IF e.open[b] THEN e.wanted[b] \ e.stopped ELSE {}

Retired(e, b) ==
  LET moved == e.docs[b].opened # e.named[b] IN
  {sid \in e.docs[b].attached : moved \/ e.clients[sid].name \notin Wanted(e, b)}

ReconcileOne(e, b, broken) ==
  AttachAll(DetachEach(e, b, Retired(e, b)), b, Wanted(e, b), broken)

ReconcileBuffer(e, b, broken) ==
  StopUnreferenced(ReconcileOne(e, b, broken), Retired(e, b))

ReconcileAll(e, broken) ==
  LET done == FoldSet(LAMBDA b, acc : [ed |-> ReconcileOne(acc.ed, b, broken),
                                       retired |-> acc.retired \union Retired(acc.ed, b)],
                      [ed |-> e, retired |-> {}], BufferId)
  IN StopUnreferenced(done.ed, done.retired)

(* lsp_stop_targets.                                                       *)
StopTargets(e, name) ==
  LET found == Find(e, name)
      detached == FoldSet(LAMBDA b, acc :
                            DetachEach(acc, b, acc.docs[b].attached \cap found),
                          e, BufferId)
  IN StopInstances(detached, found)

-----------------------------------------------------------------------------
(* drain_lsp.                                                              *)
Drained(e) ==
  LET drained == [sid \in ServerId |-> DrainServer(e.clients[sid], sid)]
  IN FillSlots([e EXCEPT !.clients = [sid \in ServerId |-> [drained[sid] EXCEPT !.ended = {}]]],
               [sid \in ServerId |-> drained[sid].ended])

-----------------------------------------------------------------------------
Init ==
  /\ ed = [text |-> [b \in BufferId |-> 1], open |-> [b \in BufferId |-> TRUE],
           named |-> [b \in BufferId |-> 1], wanted |-> [b \in BufferId |-> {}],
           docs |-> [b \in BufferId |-> NoDoc],
           clients |-> [sid \in ServerId |-> NoClient], next |-> 1, stopped |-> {},
           deliveries |-> [d \in DeliveryId |-> NoDelivery], calls |-> <<>>]
  /\ events = [sid \in ServerId |-> <<>>]
  /\ up = ServerId
  /\ expired = {}
  /\ edits = 0
  /\ commands = 0

(* What an editor step leaves alone; a process it stops is killed and what *)
(* it wrote is lost.                                                       *)
Editor(e) ==
  LET killed == {sid \in ServerId : /\ ed.clients[sid].state \in Live
                                    /\ e.clients[sid].state = "none"}
  IN /\ ed' = e
     /\ up' = up \ killed
     /\ events' = [sid \in ServerId |-> IF sid \in killed THEN <<>> ELSE events[sid]]

Command == commands < MaxCommands /\ commands' = commands + 1

(* An edit, and LspDocuments::record.                                      *)
Edit(b) ==
  /\ edits < MaxEdits
  /\ ed.open[b]
  /\ edits' = edits + 1
  /\ ed' = [ed EXCEPT !.text[b] = @ + 1,
              !.docs[b].pending = IF ed.docs[b].attached = {} THEN @
                                  ELSE Append(@, <<ed.text[b], ed.text[b] + 1>>)]
  /\ UNCHANGED <<events, up, expired, commands>>

(* The buffer's language, path or its language's list changes.             *)
Replan(b, names, named) ==
  /\ Command
  /\ ed.open[b]
  /\ names # ed.wanted[b] \/ named # ed.named[b]
  /\ \E broken \in SUBSET (names \ {ed.clients[s].name : s \in ServerId}) :
       Editor(ReconcileBuffer([ed EXCEPT !.wanted[b] = names, !.named[b] = named],
                              b, broken))
  /\ UNCHANGED <<expired, edits>>

(* :lsp-stop, and :lsp-restart.                                            *)
StopServers(name) ==
  /\ Command
  /\ Editor([StopTargets(ed, name) EXCEPT
               !.stopped = IF Find(ed, name) = {} THEN @ ELSE @ \union {name}])
  /\ UNCHANGED <<expired, edits>>

RestartServers(name) ==
  /\ Command
  /\ \E broken \in SUBSET {name} :
       Editor(ReconcileAll([StopTargets(ed, name) EXCEPT !.stopped = @ \ {name}], broken))
  /\ UNCHANGED <<expired, edits>>

(* The LSP part of a written buffer.                                       *)
Save(b) ==
  /\ Command
  /\ ed.open[b] /\ ed.docs[b].attached # {}
  /\ Editor([FlushPending(ed) EXCEPT
               !.clients = SendTo(@, ed.docs[b].attached, Saved(b))])
  /\ UNCHANGED <<expired, edits>>

(* lsp_buffer_closing, as the buffer goes.                                 *)
CloseBuffer(b) ==
  LET sids == ed.docs[b].attached
      detached == DetachEach(ed, b, sids)
  IN /\ Command
     /\ ed.open[b]
     /\ Editor([StopUnreferenced(detached, sids) EXCEPT !.open[b] = FALSE])
     /\ UNCHANGED <<expired, edits>>

(* reset_config and resync_config_state: the new config plans the same.    *)
Reload ==
  LET dropped(d) == IF d.status = "waiting"
                      THEN [d EXCEPT !.status = "dropped", !.waiting = {}] ELSE d
  IN /\ Command
     /\ Editor(ReconcileAll([ed EXCEPT !.stopped = {},
          !.deliveries = [d \in DeliveryId |-> dropped(ed.deliveries[d])]], {}))
     /\ UNCHANGED <<expired, edits>>

(* A plausible bug: a request does not wait for the changes before it.     *)
StartWithoutFlush(e, b, keyed) == IF keyed THEN CancelSuperseded(e, b) ELSE e

(* start_request.                                                          *)
StartRequest(e, b, keyed) ==
  IF keyed THEN CancelSuperseded(FlushPending(e), b) ELSE FlushPending(e)

(* send_request, and what the server knows of b when it reads it.          *)
Asked(c, d, b) ==
  [c EXCEPT !.pending = @ \union {d},
            !.asked = @ \union {[request |-> d, knew |-> c.told[b]]}]

(* lsp_send_request: to one of the running servers, or to all.  With none, *)
(* the callback is queued with the reason, whatever happens before it runs.*)
Request(b, keyed, stale) ==
  LET e == StartRequest(ed, b, keyed)
      d == 1 + Cardinality({x \in DeliveryId : ed.deliveries[x].status # "none"})
      running == {sid \in e.docs[b].attached : e.clients[sid].state = "running"}
      filed(sids) == [NoDelivery EXCEPT !.status = "waiting", !.bid = b,
                        !.version = e.text[b], !.allow_stale = stale,
                        !.keyed = keyed, !.waiting = sids]
  IN /\ d \in DeliveryId
     /\ ed.open[b]
     /\ \/ /\ running = {}
           /\ ed' = [e EXCEPT !.deliveries[d] =
                       [filed({}) EXCEPT !.status = "queued", !.allow_stale = TRUE],
                     !.calls = Append(@, d)]
        \/ \E sids \in {running} \union {{sid} : sid \in running} :
             /\ sids # {}
             /\ ed' = [e EXCEPT !.deliveries[d] = filed(sids),
                  !.clients = [s \in ServerId |-> IF s \in sids
                     THEN Asked(e.clients[s], d, b) ELSE e.clients[s]]]
     /\ UNCHANGED <<events, up, expired, edits, commands>>

(* A plausible bug: what the drain admitted needs no second look.          *)
StillAdmittedAlways(e, d) == TRUE

StillAdmitted(e, d) == Admits(e, d)

(* run_guarded: the anchor is asked again when the callback's turn comes.  *)
RunCall ==
  /\ ed.calls # <<>>
  /\ LET d == Head(ed.calls) IN
       ed' = [ed EXCEPT !.calls = Tail(@), !.deliveries[d].status =
                IF StillAdmitted(ed, d) THEN "called" ELSE "dropped"]
  /\ UNCHANGED <<events, up, expired, edits, commands>>

Drain ==
  /\ ed' = Drained(FlushPending(ed))
  /\ events' = [sid \in ServerId |-> <<>>]
  /\ expired' = {}
  /\ UNCHANGED <<up, edits, commands>>

-----------------------------------------------------------------------------
(* The servers and the clock.                                              *)

Started(sid) == sid \in up /\ ed.clients[sid].state \in Live

(* The answer to initialize, once.                                         *)
AnswerInitialize(sid, sync) ==
  /\ Started(sid)
  /\ ed.clients[sid].initialize
  /\ \A i \in DOMAIN events[sid] : events[sid][i].kind # "initialized"
  /\ events' = [events EXCEPT ![sid] = Append(@, [kind |-> "initialized", sync |-> sync])]
  /\ UNCHANGED <<ed, up, expired, edits, commands>>

(* An answer or an error; a server may answer what was cancelled.          *)
Answer(sid, q) ==
  /\ Started(sid)
  /\ q \in ed.clients[sid].asked
  /\ ed' = [ed EXCEPT !.clients[sid].asked = @ \ {q}]
  /\ events' = [events EXCEPT ![sid] =
                  Append(@, [kind |-> "answer", request |-> q.request])]
  /\ UNCHANGED <<up, expired, edits, commands>>

Die(sid) ==
  /\ Started(sid)
  /\ up' = up \ {sid}
  /\ events' = [events EXCEPT ![sid] = Append(@, [kind |-> "eof"])]
  /\ UNCHANGED <<ed, expired, edits, commands>>

Expire(sid, d) ==
  /\ IF d = Initialize THEN ed.clients[sid].initialize
                       ELSE d \in ed.clients[sid].pending
  /\ <<sid, d>> \notin expired
  /\ expired' = expired \union {<<sid, d>>}
  /\ UNCHANGED <<ed, events, up, edits, commands>>

Syncs == {"none", "full", "incremental"}

Next ==
  \/ \E b \in BufferId :
       \/ Edit(b) \/ Save(b) \/ CloseBuffer(b)
       \/ \E names \in SUBSET ServerName, named \in 1..2 : Replan(b, names, named)
       \/ \E keyed, stale \in BOOLEAN : Request(b, keyed, stale)
  \/ \E name \in ServerName : StopServers(name) \/ RestartServers(name)
  \/ Reload
  \/ RunCall
  \/ Drain
  \/ \E sid \in ServerId :
       \/ \E sync \in Syncs \union {"refused"} : AnswerInitialize(sid, sync)
       \/ \E q \in ed.clients[sid].asked : Answer(sid, q)
       \/ Die(sid)
       \/ \E d \in DeliveryId \union {Initialize} : Expire(sid, d)

(* A drain has something to do.                                            *)
DrainReady ==
  \/ \E b \in BufferId : ed.docs[b].pending # <<>>
  \/ \E sid \in ServerId :
       \/ events[sid] # <<>>
       \/ ed.clients[sid].initialize /\ <<sid, Initialize>> \in expired
       \/ \E d \in ed.clients[sid].pending : <<sid, d>> \in expired

(* Time passes, and the main loop wakes for the earliest deadline, drains  *)
(* and runs what it queued.  Nothing is asked of a server.  A drain leaves *)
(* DrainReady false, and changes nothing when it is: the first conjunct    *)
(* is WF_vars(Drain) without the ENABLED, which TLC is slow at.            *)
Fairness ==
  /\ []<>~DrainReady
  /\ WF_vars(RunCall)
  /\ \A sid \in ServerId, d \in DeliveryId : WF_vars(Expire(sid, d))

Spec == Init /\ [][Next]_vars

FairSpec == Spec /\ Fairness

-----------------------------------------------------------------------------
(* Properties.                                                             *)

(* Besides the types: a process lives as long as some buffer is attached   *)
(* to it, one per name, and every attachment is to one that does; every    *)
(* server a delivery still waits for runs and owes it an answer.           *)
TypeOK ==
  /\ \A sid \in ServerId : ed.clients[sid].state \in Live <=> Referenced(ed, sid)
  /\ \A name \in ServerName : Cardinality(Find(ed, name)) <= 1
  /\ \A d \in DeliveryId :
       /\ ed.deliveries[d].status = "waiting" <=> ed.deliveries[d].waiting # {}
       /\ \A sid \in ed.deliveries[d].waiting :
            ed.clients[sid].state = "running" /\ d \in ed.clients[sid].pending
  /\ \A sid \in ServerId : LET c == ed.clients[sid] IN
       /\ c.state \in Live \union {"none"}
       /\ c.sync \in Syncs
       /\ c.pending \subseteq DeliveryId
       /\ c.queued # <<>> => c.state = "starting"
       /\ c.ended = {}
  /\ \A b \in BufferId : ed.docs[b].attached = {} => ed.docs[b] = NoDoc
  /\ \A d \in DeliveryId :
       ed.deliveries[d].status \in {"none", "waiting", "queued", "called", "dropped"}
  /\ ed.next \in 1..MaxServers + 1

(* What a server knows once it has read everything written and queued for  *)
(* it: each attached buffer's text as of the changes not yet sent, and no  *)
(* other document.  The handshake, coalescing, attaching late, detaching,  *)
(* renaming and restarting never leave it with another text, and never     *)
(* change a document it does not have open.                                *)
Expected(b) == IF ed.docs[b].pending = <<>> THEN ed.text[b]
               ELSE ed.docs[b].pending[1][1]

ServersFollowTheText ==
  \A sid \in ServerId, b \in BufferId :
    ed.clients[sid].state \in {"starting", "running"} =>
      LET known == Knows(ed.clients[sid])[b] IN
      IF sid \notin ed.docs[b].attached THEN known = Closed
      ELSE IF ed.clients[sid].sync = "none" THEN known > Closed
      ELSE known = Expected(b)

(* A request reaches a server that already knows the text it asks about.   *)
RequestsFollowTheirText ==
  \A sid \in ServerId : \A q \in ed.clients[sid].asked :
    LET c == ed.clients[sid] IN
    c.state = "running" /\ c.sync # "none" =>
      q.knew = ed.deliveries[q.request].version

(* No callback runs about a text that has moved on since it was asked,     *)
(* unless it asked to, though the text may move between the drain that     *)
(* queued it and its turn.                                                 *)
CallbacksSeeTheirText ==
  [][\A d \in DeliveryId : LET x == ed.deliveries[d] IN
       (x.status = "queued" /\ ed'.deliveries[d].status = "called" /\ ~x.allow_stale) =>
         ed.open[x.bid] /\ ed.text[x.bid] = x.version]_vars

(* Every request ends, by an answer, a timeout, a crash or a stop, whether *)
(* or not a server ever answers.                                           *)
RequestsEnd ==
  \A d \in DeliveryId :
    ed.deliveries[d].status \in {"waiting", "queued"} ~>
      ed.deliveries[d].status \in {"called", "dropped"}

=============================================================================
