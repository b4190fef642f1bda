-------------------------------- MODULE EventBus --------------------------------
(***************************************************************************)
(* Publication to WebSocket clients: class EventBus of engine/event_bus.py *)
(* and the endpoint scan_events of api/websocket.py that consumes it.      *)
(*                                                                         *)
(* An event is its sequence number.  Everything runs on one event loop:    *)
(* publish holds its lock across no suspension, so it is one action; a     *)
(* connection suspends in its sends, in queue.get and in receive_text, and *)
(* is cut there.  A connection is served by two tasks, the endpoint itself *)
(* (handler) and the task it creates to forward events (forwarder).  A     *)
(* client connects once: connecting again is another connection.           *)
(***************************************************************************)
EXTENDS Naturals, Sequences

CONSTANTS
  Clients,        \* the connections
  MaxQueueSize,   \* max_queue_size
  MaxEvents       \* bound: events published in a behaviour

ASSUME QueueAssumption == MaxQueueSize \in Nat \ {0}
ASSUME EventsAssumption == MaxEvents \in Nat

VARIABLES
  sequence,     \* _sequence; _latest is the envelope that has this number
  subscribers,  \* _subscribers: the connections whose queue is in the list
  queue,        \* each connection's asyncio.Queue
  handler,      \* where scan_events is
  forwarder,    \* where forward_events is
  inHand,       \* the envelope being sent, 0 for none
  snapshot,     \* latest, the envelope sent before subscribing, 0 for none
  since,        \* _sequence when the connection subscribed
  forwarded     \* the events the client got from its forwarder

vars == <<sequence, subscribers, queue, handler, forwarder, inHand, snapshot, since, forwarded>>

\* "closed" is the end the endpoint knows, WebSocketDisconnect (or a snapshot
\* that could not be sent); "raised" any other exception of receive_text.
Handlers == {"none", "snapshot", "receiving", "closed", "raised"}

\* "closing" is a subscribe() generator that nobody iterates any more and
\* whose `finally` has not run yet.
Forwarders == {"none", "created", "waiting", "sending", "failed", "closing", "done"}

\* The types, and the size of a queue.
TypeOK ==
  /\ sequence \in 0..MaxEvents
  /\ subscribers \subseteq Clients
  /\ queue \in [Clients -> Seq(1..MaxEvents)]
  /\ \A c \in Clients : Len(queue[c]) <= MaxQueueSize
  /\ handler \in [Clients -> Handlers]
  /\ forwarder \in [Clients -> Forwarders]
  /\ inHand \in [Clients -> 0..MaxEvents]
  /\ snapshot \in [Clients -> 0..MaxEvents]
  /\ since \in [Clients -> 0..MaxEvents]
  /\ forwarded \in [Clients -> Seq(1..MaxEvents)]

Init ==
  /\ sequence = 0
  /\ subscribers = {}
  /\ queue = [c \in Clients |-> <<>>]
  /\ handler = [c \in Clients |-> "none"]
  /\ forwarder = [c \in Clients |-> "none"]
  /\ inHand = [c \in Clients |-> 0]
  /\ snapshot = [c \in Clients |-> 0]
  /\ since = [c \in Clients |-> 0]
  /\ forwarded = [c \in Clients |-> <<>>]

-------------------------------------------------------------------------------
(***************************************************************************)
(* The bus.                                                                *)
(***************************************************************************)

\* Mutant: one too late.
FullLate(c) == Len(queue[c]) > MaxQueueSize

Full(c) == Len(queue[c]) = MaxQueueSize

\* Mutant: a full queue misses the event and stays subscribed.
publish_skipping ==
  /\ sequence < MaxEvents
  /\ sequence' = sequence + 1
  /\ queue' = [c \in Clients |->
                 IF c \in subscribers /\ ~Full(c)
                   THEN Append(queue[c], sequence + 1) ELSE queue[c]]
  /\ UNCHANGED <<subscribers, handler, forwarder, inHand, snapshot, since, forwarded>>

\* A queue that is full is dropped from the list, and nobody is told.
publish ==
  /\ sequence < MaxEvents
  /\ sequence' = sequence + 1
  /\ queue' = [c \in Clients |->
                 IF c \in subscribers /\ ~Full(c)
                   THEN Append(queue[c], sequence + 1) ELSE queue[c]]
  /\ subscribers' = {c \in subscribers : ~Full(c)}
  /\ UNCHANGED <<handler, forwarder, inHand, snapshot, since, forwarded>>

\* Mutant: whoever subscribes is given the last event once more.
subscribe_replaying(c) ==
  /\ forwarder[c] = "created"
  /\ forwarder' = [forwarder EXCEPT ![c] = "waiting"]
  /\ subscribers' = subscribers \cup {c}
  /\ since' = [since EXCEPT ![c] = sequence]
  /\ queue' = [queue EXCEPT ![c] = IF sequence = 0 THEN @ ELSE Append(@, sequence)]
  /\ UNCHANGED <<sequence, handler, inHand, snapshot, forwarded>>

\* The first step of forward_events runs subscribe up to queue.get.
subscribe(c) ==
  /\ forwarder[c] = "created"
  /\ forwarder' = [forwarder EXCEPT ![c] = "waiting"]
  /\ subscribers' = subscribers \cup {c}
  /\ since' = [since EXCEPT ![c] = sequence]
  /\ UNCHANGED <<sequence, queue, handler, inHand, snapshot, forwarded>>

\* The `finally` of subscribe, when the generator is collected: at once for a
\* forwarder that was cancelled, only with the connection for one that failed,
\* whose exception keeps its frames.
unsubscribe(c) ==
  /\ \/ forwarder[c] = "closing"
     \/ forwarder[c] = "failed" /\ handler[c] \in {"closed", "raised"}
  /\ forwarder' = [forwarder EXCEPT ![c] = "done"]
  /\ subscribers' = subscribers \ {c}
  /\ UNCHANGED <<sequence, queue, handler, inHand, snapshot, since, forwarded>>

-------------------------------------------------------------------------------
(***************************************************************************)
(* scan_events and forward_events.                                         *)
(***************************************************************************)

\* accept, and the snapshot if anything has been published yet.
Accept(c) ==
  /\ handler[c] = "none"
  /\ IF sequence = 0
       THEN /\ handler' = [handler EXCEPT ![c] = "receiving"]
            /\ forwarder' = [forwarder EXCEPT ![c] = "created"]
            /\ UNCHANGED snapshot
       ELSE /\ handler' = [handler EXCEPT ![c] = "snapshot"]
            /\ snapshot' = [snapshot EXCEPT ![c] = sequence]
            /\ UNCHANGED forwarder
  /\ UNCHANGED <<sequence, subscribers, queue, inHand, since, forwarded>>

\* The snapshot is on its way.  What is published meanwhile reaches nobody here.
SnapshotSent(c) ==
  /\ handler[c] = "snapshot"
  /\ handler' = [handler EXCEPT ![c] = "receiving"]
  /\ forwarder' = [forwarder EXCEPT ![c] = "created"]
  /\ UNCHANGED <<sequence, subscribers, queue, inHand, snapshot, since, forwarded>>

\* The client has gone before: the endpoint raises.
SnapshotFails(c) ==
  /\ handler[c] = "snapshot"
  /\ handler' = [handler EXCEPT ![c] = "closed"]
  /\ snapshot' = [snapshot EXCEPT ![c] = 0]
  /\ UNCHANGED <<sequence, subscribers, queue, forwarder, inHand, since, forwarded>>

Take(c) ==
  /\ forwarder[c] = "waiting"
  /\ queue[c] # <<>>
  /\ inHand' = [inHand EXCEPT ![c] = Head(queue[c])]
  /\ queue' = [queue EXCEPT ![c] = Tail(@)]
  /\ forwarder' = [forwarder EXCEPT ![c] = "sending"]
  /\ UNCHANGED <<sequence, subscribers, handler, snapshot, since, forwarded>>

\* send_json returns; how long that takes is up to the client.  Where the
\* endpoint has raised, the server has closed the socket.
Sent(c) ==
  /\ forwarder[c] = "sending"
  /\ handler[c] # "raised"
  /\ forwarded' = [forwarded EXCEPT ![c] = Append(@, inHand[c])]
  /\ inHand' = [inHand EXCEPT ![c] = 0]
  /\ forwarder' = [forwarder EXCEPT ![c] = "waiting"]
  /\ UNCHANGED <<sequence, subscribers, queue, handler, snapshot, since>>

\* send_json raises: the task ends, the queue stays in the list.
SendFails(c) ==
  /\ forwarder[c] = "sending"
  /\ inHand' = [inHand EXCEPT ![c] = 0]
  /\ forwarder' = [forwarder EXCEPT ![c] = "failed"]
  /\ UNCHANGED <<sequence, subscribers, queue, handler, snapshot, since, forwarded>>

\* What cancelling leaves of a forwarder: nothing ran yet, or subscribe is
\* left at queue.get (its `finally` runs) or at its yield (it is collected),
\* or the task had failed before.
Cancelled(label) ==
  CASE label = "created" -> "done"
    [] label \in {"waiting", "sending"} -> "closing"
    [] OTHER -> label

\* Mutant: the forwarder is not cancelled with the connection.
DisconnectLeaving(c) ==
  /\ handler[c] = "receiving"
  /\ handler' = [handler EXCEPT ![c] = "closed"]
  /\ UNCHANGED <<sequence, subscribers, queue, forwarder, inHand, snapshot, since, forwarded>>

\* WebSocketDisconnect: the forwarder is cancelled and waited for.
Disconnect(c) ==
  /\ handler[c] = "receiving"
  /\ handler' = [handler EXCEPT ![c] = "closed"]
  /\ forwarder' = [forwarder EXCEPT ![c] = Cancelled(@)]
  /\ inHand' = [inHand EXCEPT ![c] = 0]
  /\ UNCHANGED <<sequence, subscribers, queue, snapshot, since, forwarded>>

\* receive_text raises something else, as it does on a binary frame: the
\* endpoint ends, and its forwarder lives on.
ReceiveRaises(c) ==
  /\ handler[c] = "receiving"
  /\ handler' = [handler EXCEPT ![c] = "raised"]
  /\ UNCHANGED <<sequence, subscribers, queue, forwarder, inHand, snapshot, since, forwarded>>

-------------------------------------------------------------------------------
ForwarderStep(c) == subscribe(c) \/ Take(c) \/ unsubscribe(c)

ClientStep(c) ==
  \/ Accept(c) \/ SnapshotSent(c) \/ SnapshotFails(c)
  \/ Sent(c) \/ SendFails(c) \/ Disconnect(c) \/ ReceiveRaises(c)

Next == publish \/ \E c \in Clients : ForwarderStep(c) \/ ClientStep(c)

Spec == Init /\ [][Next]_vars

\* The loop runs the forwarder and collects it, and a send ends one way or the
\* other.  Nobody promises that a client connects, or that it disconnects.
Fairness ==
  \A c \in Clients : WF_vars(ForwarderStep(c)) /\ WF_vars(Sent(c) \/ SendFails(c))

FairSpec == Spec /\ Fairness

-------------------------------------------------------------------------------
(***************************************************************************)
(* Properties.                                                             *)
(***************************************************************************)

InHand(c) == IF inHand[c] = 0 THEN <<>> ELSE <<inHand[c]>>

\* A client gets every event published since its forwarder subscribed, once
\* and in order, until its queue overflows, however slow it is and whoever
\* else comes and goes; after an overflow it has a prefix of them.
StreamFaithful ==
  \A c \in Clients : forwarder[c] \in {"waiting", "sending"} =>
    LET stream == forwarded[c] \o InHand(c) \o queue[c]
    IN  /\ stream = [k \in 1..Len(stream) |-> since[c] + k]
        /\ c \in subscribers => since[c] + Len(stream) = sequence

\* What the client has got: the snapshot, once it is sent, and what its
\* forwarder sent.
Received(c) ==
  (IF snapshot[c] = 0 \/ handler[c] = "snapshot" THEN <<>> ELSE <<snapshot[c]>>) \o forwarded[c]

Promise == INSTANCE EventStream WITH
             published <- sequence,
             received  <- [c \in Clients |-> Received(c)],
             following <- [c \in Clients |-> forwarded[c] # <<>>]

\* The bus keeps the promise of the numbers: a client can tell by them what it
\* missed.  Between snapshot and subscription a gap may open, but never does
\* an event come twice or out of order, whatever is published meanwhile.
StreamSpec == Promise!Spec

\* A forwarder with nothing to send.
Idle(c) == forwarder[c] \in {"created", "waiting"} /\ queue[c] = <<>>

\* A connection that ends as the endpoint expects leaves no queue in the bus,
\* whatever its forwarder was doing.  One that ends by another exception of
\* receive_text leaves a forwarder that nobody has cancelled, but its queue not
\* beyond the next event, so that publish does not fill queues for ever.
SubscriptionEnds ==
  \A c \in Clients :
    handler[c] = "closed" \/ (handler[c] = "raised" /\ ~Idle(c)) ~> c \notin subscribers

\* A forwarder that waits on a queue nobody fills any more.
Deaf(c) == forwarder[c] = "waiting" /\ queue[c] = <<>> /\ c \notin subscribers

\* LLD.md:470: a slow subscriber is disconnected after an overflow.  A client
\* whose queue the bus has dropped, and who would wait for ever, is let go.
OverflowDisconnects == \A c \in Clients : Deaf(c) ~> handler[c] # "receiving"
===============================================================================
