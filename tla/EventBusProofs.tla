----------------------------- MODULE EventBusProofs -----------------------------
(***************************************************************************)
(* Type correctness of the bus, and what its clients get: every event from *)
(* their subscription on, once and in order, until their queue overflows;  *)
(* and that the bus implements what its numbers promise (EventStream).     *)
(***************************************************************************)
EXTENDS EventBus, SequenceTheorems, TLAPS

-------------------------------------------------------------------------------
(***************************************************************************)
(* Types.                                                                  *)
(***************************************************************************)

\* What taking the head and adding at the end do to a sequence.
LEMMA QueueType ==
  ASSUME NEW S, NEW q \in Seq(S), NEW e \in S
  PROVE  /\ Append(q, e) \in Seq(S) /\ Len(Append(q, e)) = Len(q) + 1 /\ Len(q) \in Nat
         /\ q # <<>> => Head(q) \in S /\ Tail(q) \in Seq(S) /\ Len(Tail(q)) = Len(q) - 1
BY AppendProperties, HeadTailProperties, LenProperties

\* A publication adds one event to the queues that have room for it.
LEMMA PublishType == ASSUME TypeOK, publish PROVE TypeOK'
<1>1. sequence' \in 0..MaxEvents /\ sequence + 1 \in 1..MaxEvents
  BY EventsAssumption DEF TypeOK, publish
<1>2. ASSUME NEW c \in Clients
      PROVE  queue'[c] \in Seq(1..MaxEvents) /\ Len(queue'[c]) <= MaxQueueSize
  <2>1. queue[c] \in Seq(1..MaxEvents) /\ Len(queue[c]) <= MaxQueueSize
    BY DEF TypeOK
  <2>2. /\ Append(queue[c], sequence + 1) \in Seq(1..MaxEvents)
        /\ Len(Append(queue[c], sequence + 1)) = Len(queue[c]) + 1
        /\ Len(queue[c]) \in Nat
    BY <1>1, <2>1, QueueType
  <2>3. CASE c \in subscribers /\ ~Full(c)
    <3>1. queue'[c] = Append(queue[c], sequence + 1)
      BY <2>3 DEF publish
    <3>2. Len(queue[c]) # MaxQueueSize
      BY <2>3 DEF Full
    <3> QED
      BY <2>1, <2>2, <3>1, <3>2, QueueAssumption
  <2>4. CASE ~(c \in subscribers /\ ~Full(c))
    <3>1. queue'[c] = queue[c]
      BY <2>4 DEF publish
    <3> QED
      BY <2>1, <3>1
  <2> QED
    BY <2>3, <2>4
<1>3. queue' \in [Clients -> Seq(1..MaxEvents)]
  BY <1>2 DEF publish
<1> QED
  BY <1>1, <1>2, <1>3 DEF TypeOK, publish

\* A step of one connection keeps the types, if what it sends is an event.
LEMMA ConnectionType ==
  ASSUME TypeOK, NEW c \in Clients, ForwarderStep(c) \/ ClientStep(c),
         forwarder[c] = "sending" => inHand[c] # 0
  PROVE  TypeOK'
<1> USE DEF TypeOK, Handlers, Forwarders
<1>1. ASSUME subscribe(c) \/ unsubscribe(c) \/ Accept(c) \/ SnapshotSent(c) \/ SnapshotFails(c)
      PROVE  TypeOK'
  <2>1. CASE subscribe(c) \/ unsubscribe(c)
    BY <2>1 DEF subscribe, unsubscribe
  <2>2. CASE Accept(c)
    BY <2>2 DEF Accept
  <2>3. CASE SnapshotSent(c)
    BY <2>3 DEF SnapshotSent
  <2>4. CASE SnapshotFails(c)
    BY <2>4, EventsAssumption DEF SnapshotFails
  <2> QED
    BY <1>1, <2>1, <2>2, <2>3, <2>4
<1>2. ASSUME Take(c) PROVE TypeOK'
  <2>1. /\ Head(queue[c]) \in 1..MaxEvents
        /\ Tail(queue[c]) \in Seq(1..MaxEvents)
        /\ Len(Tail(queue[c])) <= MaxQueueSize
    <3>1. queue[c] \in Seq(1..MaxEvents) /\ queue[c] # <<>> /\ Len(queue[c]) <= MaxQueueSize
      BY <1>2 DEF Take
    <3>2. /\ Head(queue[c]) \in 1..MaxEvents
          /\ Tail(queue[c]) \in Seq(1..MaxEvents)
          /\ Len(Tail(queue[c])) = Len(queue[c]) - 1
          /\ Len(queue[c]) \in Nat
      BY <3>1, HeadTailProperties, LenProperties
    <3> HIDE DEF TypeOK
    <3> QED
      BY <3>1, <3>2, QueueAssumption
  <2>2. queue' \in [Clients -> Seq(1..MaxEvents)] /\ inHand' \in [Clients -> 0..MaxEvents]
    BY <1>2, <2>1 DEF Take
  <2>3. \A d \in Clients : Len(queue'[d]) <= MaxQueueSize
    BY <1>2, <2>1 DEF Take
  <2> QED
    BY <1>2, <2>2, <2>3 DEF Take
<1>3. ASSUME Sent(c) PROVE TypeOK'
  <2>1. forwarded' \in [Clients -> Seq(1..MaxEvents)]
    <3>1. inHand[c] \in 1..MaxEvents /\ forwarded[c] \in Seq(1..MaxEvents)
      BY <1>3, EventsAssumption DEF Sent
    <3>2. Append(forwarded[c], inHand[c]) \in Seq(1..MaxEvents)
      BY <3>1, AppendProperties
    <3> QED
      BY <1>3, <3>2 DEF Sent
  <2> QED
    BY <1>3, <2>1, EventsAssumption DEF Sent
<1>4. ASSUME SendFails(c) PROVE TypeOK'
  BY <1>4, EventsAssumption DEF SendFails
<1>5. ASSUME Disconnect(c) PROVE TypeOK'
  BY <1>5, EventsAssumption DEF Disconnect, Cancelled
<1>6. ASSUME ReceiveRaises(c) PROVE TypeOK'
  BY <1>6 DEF ReceiveRaises
<1> QED
  BY <1>1, <1>2, <1>3, <1>4, <1>5, <1>6 DEF ForwarderStep, ClientStep

\* A bus without subscribers.
LEMMA InitType == Init => TypeOK
BY EventsAssumption, QueueAssumption DEF Init, TypeOK, Handlers, Forwarders

-------------------------------------------------------------------------------
(***************************************************************************)
(* The stream of a connection: what its client has, what is being sent and *)
(* what is queued, in this order.                                          *)
(***************************************************************************)

Stream(c) == forwarded[c] \o InHand(c) \o queue[c]
Counts(s, from) == s = [k \in 1..Len(s) |-> from + k]

\* The next number at the end of a count.
LEMMA CountOn ==
  ASSUME NEW s \in Seq(Nat), NEW from \in Nat, Counts(s, from)
  PROVE  Counts(Append(s, from + Len(s) + 1), from)
BY DEF Counts

\* An event queued ends the stream.
LEMMA StreamGrows ==
  ASSUME NEW f \in Seq(Nat), NEW h \in Seq(Nat), NEW q \in Seq(Nat), NEW e \in Nat
  PROVE  f \o h \o Append(q, e) = Append(f \o h \o q, e)
<1>1. f \o h \in Seq(Nat) /\ f \o h \o q \in Seq(Nat) /\ <<e>> \in Seq(Nat)
  BY ConcatProperties
<1>2. Append(q, e) = q \o <<e>> /\ Append(f \o h \o q, e) = (f \o h \o q) \o <<e>>
  BY <1>1, AppendIsConcat
<1> QED
  BY <1>1, <1>2, ConcatAssociative

\* An event taken from the queue keeps its place in the stream.
LEMMA StreamTaken ==
  ASSUME NEW f \in Seq(Nat), NEW q \in Seq(Nat), q # <<>>
  PROVE  f \o <<Head(q)>> \o Tail(q) = f \o <<>> \o q
<1>1. Head(q) \in Nat /\ Tail(q) \in Seq(Nat) /\ <<Head(q)>> \in Seq(Nat)
  BY HeadTailProperties
<1>2. <<Head(q)>> \o Tail(q) = q
  OBVIOUS
<1>3. f \o <<Head(q)>> \o Tail(q) = f \o (<<Head(q)>> \o Tail(q))
  BY <1>1, ConcatAssociative
<1>4. f \o <<>> = f
  BY ConcatEmptySeq
<1> QED
  BY <1>2, <1>3, <1>4

\* And so does an event sent.
LEMMA StreamSent ==
  ASSUME NEW f \in Seq(Nat), NEW q \in Seq(Nat), NEW e \in Nat
  PROVE  Append(f, e) \o <<>> \o q = f \o <<e>> \o q
<1>1. Append(f, e) = f \o <<e>> /\ f \o <<e>> \in Seq(Nat)
  BY AppendIsConcat, ConcatProperties
<1> QED
  BY <1>1, ConcatEmptySeq

\* A connection has no queue and no stream before it subscribes, has an event
\* in hand only while it sends it, and counts on from where it subscribed,
\* which is no earlier than its snapshot and not beyond what is published.
ConnectionInv(c) ==
  /\ handler[c] \in {"none", "snapshot"} => forwarder[c] = "none"
  /\ handler[c] = "none" => snapshot[c] = 0
  /\ snapshot[c] <= sequence
  /\ forwarder[c] \in {"none", "created"} =>
       c \notin subscribers /\ queue[c] = <<>> /\ forwarded[c] = <<>>
  /\ inHand[c] # 0 <=> forwarder[c] = "sending"
  /\ forwarder[c] \in {"waiting", "sending"} =>
       /\ snapshot[c] <= since[c]
       /\ Counts(Stream(c), since[c])
       /\ since[c] + Len(Stream(c)) <= sequence
       /\ c \in subscribers => since[c] + Len(Stream(c)) = sequence

BusInv == TypeOK /\ \A c \in Clients : ConnectionInv(c)

\* The parts of a stream are sequences of numbers.
LEMMA StreamType ==
  ASSUME TypeOK, NEW c \in Clients
  PROVE  /\ forwarded[c] \in Seq(Nat) /\ InHand(c) \in Seq(Nat) /\ queue[c] \in Seq(Nat)
         /\ Stream(c) \in Seq(Nat)
         /\ since[c] \in Nat /\ sequence \in Nat /\ snapshot[c] \in Nat
<1>1. /\ forwarded[c] \in Seq(1..MaxEvents) /\ queue[c] \in Seq(1..MaxEvents)
      /\ since[c] \in Nat /\ sequence \in Nat /\ snapshot[c] \in Nat /\ inHand[c] \in Nat
  BY EventsAssumption DEF TypeOK
<1>2. 1..MaxEvents \subseteq Nat
  BY EventsAssumption
<1>3. forwarded[c] \in Seq(Nat) /\ queue[c] \in Seq(Nat)
  BY <1>1, <1>2, SeqMonotonic
<1>4. InHand(c) \in Seq(Nat)
  BY <1>1 DEF InHand
<1> QED
  BY <1>1, <1>3, <1>4, ConcatProperties DEF Stream

\* A connection that a step does not touch.
LEMMA Untouched ==
  ASSUME NEW d \in Clients, ConnectionInv(d), sequence' = sequence,
         d \in subscribers' <=> d \in subscribers,
         queue'[d] = queue[d], handler'[d] = handler[d], forwarder'[d] = forwarder[d],
         inHand'[d] = inHand[d], snapshot'[d] = snapshot[d], since'[d] = since[d],
         forwarded'[d] = forwarded[d]
  PROVE  ConnectionInv(d)'
<1>1. Stream(d)' = Stream(d)
  BY DEF Stream, InHand
<1> QED
  BY <1>1 DEF ConnectionInv, Counts

\* An event published ends the streams of the subscribers that have room, and
\* those that have none are subscribers no longer.
LEMMA PublishInv ==
  ASSUME BusInv, publish, NEW d \in Clients
  PROVE  ConnectionInv(d)'
<1> USE DEF BusInv
<1>1. CASE d \in subscribers /\ ~Full(d)
  <2>1. queue'[d] = Append(queue[d], sequence + 1) /\ d \in subscribers'
    BY <1>1 DEF publish, TypeOK
  <2>2. Stream(d)' = Append(Stream(d), sequence + 1)
    <3>1. Stream(d)' = forwarded[d] \o InHand(d) \o Append(queue[d], sequence + 1)
      BY <2>1 DEF publish, Stream, InHand
    <3>2. /\ forwarded[d] \in Seq(Nat) /\ InHand(d) \in Seq(Nat) /\ queue[d] \in Seq(Nat)
          /\ sequence + 1 \in Nat
      BY StreamType
    <3> QED
      BY <3>1, <3>2, StreamGrows DEF Stream
  <2>3. ASSUME forwarder[d] \in {"waiting", "sending"}
        PROVE  /\ Counts(Stream(d), since[d])'
               /\ since'[d] + Len(Stream(d)') = sequence'
    <3>1. Counts(Stream(d), since[d]) /\ since[d] + Len(Stream(d)) = sequence
      BY <1>1, <2>3 DEF ConnectionInv
    <3>2. Counts(Append(Stream(d), sequence + 1), since[d])
      BY <3>1, StreamType, CountOn
    <3>3. Len(Append(Stream(d), sequence + 1)) = Len(Stream(d)) + 1 /\ Len(Stream(d)) \in Nat
      BY StreamType
    <3>4. since' = since /\ sequence' = sequence + 1
      BY DEF publish
    <3>5. since'[d] + Len(Stream(d)') = sequence'
      BY <2>2, <3>1, <3>3, <3>4, StreamType
    <3> QED
      BY <2>2, <3>2, <3>4, <3>5 DEF Counts
  <2>4. snapshot[d] <= sequence' /\ snapshot' = snapshot /\ since' = since
    BY StreamType DEF publish, ConnectionInv
  <2>5. since'[d] + Len(Stream(d)') = sequence' => since'[d] + Len(Stream(d)') <= sequence'
    BY StreamType DEF publish
  <2> QED
    BY <1>1, <2>3, <2>4, <2>5 DEF publish, ConnectionInv
<1>2. CASE d \notin subscribers \/ Full(d)
  <2>1. queue'[d] = queue[d] /\ d \notin subscribers'
    BY <1>2 DEF publish, TypeOK
  <2>2. Stream(d)' = Stream(d)
    BY <2>1 DEF publish, Stream, InHand
  <2>3. Len(Stream(d)) \in Nat
    BY StreamType, LenProperties
  <2>4. /\ snapshot[d] <= sequence => snapshot'[d] <= sequence'
        /\ since[d] + Len(Stream(d)) <= sequence => since'[d] + Len(Stream(d)') <= sequence'
    BY <2>2, <2>3, StreamType DEF publish
  <2> QED
    BY <2>1, <2>2, <2>4 DEF publish, ConnectionInv, Counts
<1> QED
  BY <1>1, <1>2

\* A connection subscribes with an empty stream, which counts from there.
LEMMA SubscribeInv ==
  ASSUME BusInv, NEW c \in Clients, subscribe(c)
  PROVE  ConnectionInv(c)'
<1> USE DEF BusInv
<1>1. queue[c] = <<>> /\ forwarded[c] = <<>> /\ inHand[c] = 0
  BY DEF subscribe, ConnectionInv
<1>2. Stream(c)' = <<>>
  <2>1. <<>> \o <<>> = <<>>
    BY EmptySeq, ConcatEmptySeq
  <2>2. Stream(c)' = <<>> \o <<>> \o <<>>
    BY <1>1 DEF subscribe, Stream, InHand
  <2> QED
    BY <2>1, <2>2
<1>3. since'[c] = sequence /\ sequence' = sequence /\ sequence \in Nat
  BY StreamType DEF subscribe, TypeOK
<1>4. Counts(<<>>, sequence) /\ Len(<<>>) = 0
  BY DEF Counts
<1>5. handler'[c] \notin {"none", "snapshot"} /\ forwarder'[c] = "waiting" /\ inHand'[c] = 0
  BY <1>1 DEF subscribe, TypeOK, ConnectionInv
<1>6. snapshot'[c] <= since'[c] /\ snapshot'[c] <= sequence'
  BY <1>3 DEF subscribe, ConnectionInv
<1>7. since'[c] + Len(Stream(c)') = sequence' /\ since'[c] + Len(Stream(c)') <= sequence'
  BY <1>2, <1>3, <1>4
<1> QED
  BY <1>2, <1>3, <1>4, <1>5, <1>6, <1>7 DEF ConnectionInv, Counts

\* What is taken from the queue and what is sent stay where they were in the
\* stream.
LEMMA SendingInv ==
  ASSUME BusInv, NEW c \in Clients, Take(c) \/ Sent(c)
  PROVE  ConnectionInv(c)'
<1> USE DEF BusInv
<1>1. Stream(c)' = Stream(c)
  <2>1. CASE Take(c)
    <3>1. Head(queue[c]) \in 1..MaxEvents /\ inHand[c] = 0
      BY <2>1, HeadTailProperties DEF Take, TypeOK, ConnectionInv
    <3>2. InHand(c) = <<>> /\ InHand(c)' = <<Head(queue[c])>>
      BY <2>1, <3>1 DEF Take, TypeOK, InHand
    <3>3. queue'[c] = Tail(queue[c]) /\ forwarded' = forwarded /\ queue[c] # <<>>
      BY <2>1 DEF Take, TypeOK
    <3>4. forwarded[c] \in Seq(Nat) /\ queue[c] \in Seq(Nat) /\ 0 \in Nat /\ <<>> \in Seq(Nat)
      BY StreamType, EmptySeq
    <3>5. forwarded[c] \o <<Head(queue[c])>> \o Tail(queue[c]) = forwarded[c] \o <<>> \o queue[c]
      BY <3>3, <3>4, StreamTaken
    <3> QED
      BY <3>2, <3>3, <3>5 DEF Stream
  <2>2. CASE Sent(c)
    <3>1. inHand[c] # 0 /\ inHand[c] \in Nat
      BY <2>2, EventsAssumption DEF Sent, TypeOK, ConnectionInv
    <3>2. InHand(c) = <<inHand[c]>> /\ InHand(c)' = <<>>
      BY <2>2, <3>1 DEF Sent, TypeOK, InHand
    <3>3. forwarded'[c] = Append(forwarded[c], inHand[c]) /\ queue' = queue
      BY <2>2 DEF Sent, TypeOK
    <3>4. forwarded[c] \in Seq(Nat) /\ queue[c] \in Seq(Nat) /\ <<>> \in Seq(Nat)
      BY StreamType, EmptySeq
    <3>5. Append(forwarded[c], inHand[c]) \o <<>> \o queue[c] = forwarded[c] \o <<inHand[c]>> \o queue[c]
      BY <3>1, <3>4, StreamSent
    <3> QED
      BY <3>2, <3>3, <3>5 DEF Stream
  <2> QED
    BY <2>1, <2>2
<1>2. /\ forwarder[c] \in {"waiting", "sending"} /\ forwarder'[c] \in {"waiting", "sending"}
      /\ inHand'[c] # 0 <=> forwarder'[c] = "sending"
      /\ handler' = handler /\ subscribers' = subscribers /\ since' = since
      /\ sequence' = sequence /\ snapshot' = snapshot
  <2>1. CASE Take(c)
    <3>1. Head(queue[c]) \in 1..MaxEvents
      BY <2>1, HeadTailProperties DEF Take, TypeOK
    <3> QED
      BY <2>1, <3>1 DEF Take, TypeOK
  <2>2. CASE Sent(c)
    BY <2>2 DEF Sent, TypeOK
  <2> QED
    BY <2>1, <2>2
<1> QED
  BY <1>1, <1>2 DEF ConnectionInv, Counts

\* Where a connection does not stream, there is nothing to count.
LEMMA QuietInv ==
  ASSUME BusInv, NEW c \in Clients,
         \/ unsubscribe(c) \/ Accept(c) \/ SnapshotSent(c) \/ SnapshotFails(c)
         \/ SendFails(c) \/ Disconnect(c) \/ ReceiveRaises(c)
  PROVE  ConnectionInv(c)'
<1> USE DEF BusInv, TypeOK, ConnectionInv, Forwarders
<1>1. CASE unsubscribe(c)
  BY <1>1 DEF unsubscribe
<1>2. CASE Accept(c) \/ SnapshotSent(c) \/ SnapshotFails(c)
  BY <1>2 DEF Accept, SnapshotSent, SnapshotFails
<1>3. CASE SendFails(c)
  BY <1>3 DEF SendFails
<1>4. CASE Disconnect(c)
  BY <1>4 DEF Disconnect, Cancelled
<1>5. CASE ReceiveRaises(c)
  <2>1. /\ handler[c] = "receiving" /\ handler'[c] = "raised"
        /\ sequence' = sequence /\ subscribers' = subscribers /\ queue' = queue
        /\ forwarder' = forwarder /\ inHand' = inHand /\ snapshot' = snapshot
        /\ since' = since /\ forwarded' = forwarded
    BY <1>5 DEF ReceiveRaises
  <2> QED
    BY <2>1 DEF Stream, InHand
<1> QED
  BY <1>1, <1>2, <1>3, <1>4, <1>5

\* Every step keeps the invariant.
LEMMA BusInvStep == ASSUME BusInv, [Next]_vars PROVE BusInv'
<1>1. TypeOK'
  <2>1. TypeOK /\ UNCHANGED vars => TypeOK'
    BY DEF TypeOK, vars
  <2> QED
    BY <2>1, PublishType, ConnectionType DEF Next, BusInv, ConnectionInv
<1>2. ASSUME NEW d \in Clients PROVE ConnectionInv(d)'
  <2>1. ASSUME UNCHANGED vars PROVE ConnectionInv(d)'
    BY <2>1, Untouched DEF vars, BusInv
  <2>2. ASSUME NEW c \in Clients, ForwarderStep(c) \/ ClientStep(c), c # d
        PROVE  ConnectionInv(d)'
    <3>1. /\ sequence' = sequence /\ (d \in subscribers' <=> d \in subscribers)
          /\ queue'[d] = queue[d] /\ handler'[d] = handler[d] /\ forwarder'[d] = forwarder[d]
          /\ inHand'[d] = inHand[d] /\ snapshot'[d] = snapshot[d] /\ since'[d] = since[d]
          /\ forwarded'[d] = forwarded[d]
      BY <2>2 DEF BusInv, TypeOK, ForwarderStep, ClientStep, subscribe, Take, unsubscribe,
         Accept, SnapshotSent, SnapshotFails, Sent, SendFails, Disconnect, ReceiveRaises
    <3> QED
      BY <3>1, Untouched DEF BusInv
  <2>3. ASSUME ForwarderStep(d) \/ ClientStep(d) PROVE ConnectionInv(d)'
    BY <2>3, SubscribeInv, SendingInv, QuietInv DEF ForwarderStep, ClientStep
  <2> QED
    BY <2>1, <2>2, <2>3, PublishInv DEF Next
<1> QED
  BY <1>1, <1>2 DEF BusInv

\* Nobody is connected at first.
LEMMA BusInvInit == Init => BusInv
BY InitType DEF Init, BusInv, ConnectionInv

\* Every variable of the bus keeps its type, and no queue outgrows its bound.
THEOREM BusTypes == Spec => []TypeOK
<1>1. BusInv /\ [Next]_vars => BusInv'
  BY BusInvStep
<1>2. BusInv => TypeOK
  BY DEF BusInv
<1> QED
  BY <1>1, <1>2, BusInvInit, PTL DEF Spec

\* Until its queue overflows, a client gets every event published since it
\* subscribed, once and in order; after an overflow it has a prefix of them:
\* for any number of clients, any queue size and any number of events.
THEOREM StreamIsFaithful == Spec => []StreamFaithful
<1>1. BusInv /\ [Next]_vars => BusInv'
  BY BusInvStep
<1>2. BusInv => StreamFaithful
  BY DEF BusInv, ConnectionInv, StreamFaithful, Stream, Counts
<1> QED
  BY <1>1, <1>2, BusInvInit, PTL DEF Spec

-------------------------------------------------------------------------------
(***************************************************************************)
(* The numbers a client sees: every step of the bus is a step of the       *)
(* promise to its clients, or none.                                        *)
(***************************************************************************)

\* The head of the stream while an event is sent: the last one forwarded and
\* the one in hand are next to each other, and both are published.
LEMMA StreamHead ==
  ASSUME BusInv, NEW c \in Clients, forwarder[c] = "sending"
  PROVE  /\ inHand[c] = since[c] + Len(forwarded[c]) + 1
         /\ forwarded[c] # <<>> =>
              forwarded[c][Len(forwarded[c])] = since[c] + Len(forwarded[c])
         /\ inHand[c] <= sequence /\ snapshot[c] <= since[c]
<1> DEFINE f == forwarded[c]
           q == queue[c]
           e == inHand[c]
           from == since[c]
<1>1. f \in Seq(Nat) /\ q \in Seq(Nat) /\ e \in Nat \ {0} /\ from \in Nat /\ sequence \in Nat
  <2>1. inHand[c] \in Nat
    BY EventsAssumption DEF BusInv, TypeOK
  <2> QED
    BY <2>1, StreamType DEF BusInv, ConnectionInv
<1>2. Stream(c) = f \o <<e>> \o q
  BY <1>1 DEF Stream, InHand
<1>3. /\ Counts(f \o <<e>> \o q, from)
      /\ from + Len(f \o <<e>> \o q) <= sequence
      /\ snapshot[c] <= from
  BY <1>2 DEF BusInv, ConnectionInv
<1> HIDE DEF f, q, e, from
<1>4. /\ Len(f \o <<e>> \o q) = Len(f) + 1 + Len(q) /\ Len(f) \in Nat /\ Len(q) \in Nat
      /\ (f \o <<e>> \o q)[Len(f) + 1] = e
      /\ f # <<>> => Len(f) # 0 /\ (f \o <<e>> \o q)[Len(f)] = f[Len(f)]
  BY <1>1
<1>5. \A k \in 1..(Len(f) + 1 + Len(q)) : (f \o <<e>> \o q)[k] = from + k
  BY <1>3, <1>4 DEF Counts
<1>6. e = from + Len(f) + 1
  BY <1>1, <1>4, <1>5
<1>7. f # <<>> => f[Len(f)] = from + Len(f)
  BY <1>1, <1>4, <1>5
<1>8. e <= sequence
  BY <1>1, <1>3, <1>4, <1>6
<1> QED
  BY <1>3, <1>6, <1>7, <1>8 DEF f, q, e, from

\* What a client has got is a sequence of numbers.
LEMMA ReceivedType ==
  ASSUME BusInv
  PROVE  [c \in Clients |-> Received(c)] \in [Clients -> Seq(Nat)]
<1>1. ASSUME NEW c \in Clients PROVE Received(c) \in Seq(Nat)
  <2>1. forwarded[c] \in Seq(Nat) /\ snapshot[c] \in Nat
    BY StreamType DEF BusInv
  <2> QED
    BY <2>1 DEF Received
<1> QED
  BY <1>1

\* The last number a client has got: the last one forwarded, or else the
\* snapshot, or none.
LEMMA LatestReceived ==
  ASSUME BusInv, NEW c \in Clients, handler[c] # "snapshot"
  PROVE  Promise!Latest(c) =
           IF forwarded[c] # <<>> THEN forwarded[c][Len(forwarded[c])] ELSE snapshot[c]
<1>1. forwarded[c] \in Seq(Nat) /\ snapshot[c] \in Nat
  BY StreamType DEF BusInv
<1>2. CASE snapshot[c] = 0
  <2>1. Received(c) = forwarded[c]
    BY <1>1, <1>2 DEF Received
  <2> QED
    BY <1>2, <2>1 DEF Promise!Latest
<1>3. CASE snapshot[c] # 0
  <2>1. Received(c) = <<snapshot[c]>> \o forwarded[c]
    BY <1>3 DEF Received
  <2>2. Received(c) # <<>> /\ Len(Received(c)) = 1 + Len(forwarded[c]) /\ Len(forwarded[c]) \in Nat
    BY <1>1, <2>1
  <2>3. CASE forwarded[c] = <<>>
    <3>1. Received(c)[Len(Received(c))] = snapshot[c]
      BY <1>1, <2>1, <2>2, <2>3
    <3> QED
      BY <2>2, <2>3, <3>1 DEF Promise!Latest
  <2>4. CASE forwarded[c] # <<>>
    <3>1. Received(c)[Len(Received(c))] = forwarded[c][Len(forwarded[c])]
      BY <1>1, <2>1, <2>2, <2>4
    <3> QED
      BY <2>2, <2>4, <3>1 DEF Promise!Latest
  <2> QED
    BY <2>3, <2>4
<1> QED
  BY <1>2, <1>3

\* A step that sends nothing to anybody.
LEMMA NothingSent ==
  ASSUME BusInv, sequence' = sequence,
         \A d \in Clients : Received(d)' = Received(d) /\ forwarded'[d] = forwarded[d]
  PROVE  UNCHANGED Promise!vars
BY DEF Promise!vars

\* The snapshot is the first number a client gets.
LEMMA SnapshotIsFirst ==
  ASSUME BusInv, NEW c \in Clients, SnapshotSent(c)
  PROVE  Promise!Snapshot(c) \/ UNCHANGED Promise!vars
<1>1. /\ forwarded[c] = <<>> /\ snapshot[c] \in Nat /\ snapshot[c] <= sequence
      /\ forwarded' = forwarded /\ snapshot' = snapshot /\ sequence' = sequence
      /\ sequence \in Nat
  BY StreamType DEF SnapshotSent, BusInv, ConnectionInv
<1>2. handler[c] = "snapshot" /\ handler' = [handler EXCEPT ![c] = "receiving"]
  BY DEF SnapshotSent
<1>3. /\ handler'[c] = "receiving"
      /\ \A d \in Clients : d # c => handler'[d] = handler[d]
  BY <1>2 DEF BusInv, TypeOK
<1>4. Received(c) = <<>>
  BY <1>1, <1>2 DEF Received
<1>5. \A d \in Clients : d # c => Received(d)' = Received(d)
  BY <1>1, <1>3 DEF Received
<1>6. CASE snapshot[c] = 0
  <2>1. Received(c)' = Received(c)
    BY <1>1, <1>3, <1>4, <1>6 DEF Received
  <2> QED
    BY <1>1, <1>5, <2>1, NothingSent
<1>7. CASE snapshot[c] # 0
  <2>1. Received(c)' = Append(Received(c), snapshot[c])
    BY <1>1, <1>3, <1>4, <1>7 DEF Received
  <2>2. Promise!Deliver(c, snapshot[c])
    BY <1>5, <2>1 DEF Promise!Deliver
  <2>3. snapshot[c] \in 1..sequence
    BY <1>1, <1>7
  <2> QED
    BY <1>1, <1>4, <2>2, <2>3 DEF Promise!Snapshot
<1> QED
  BY <1>6, <1>7

\* What a forwarder sends is the client's first event after its snapshot, or
\* the one after its last.
LEMMA ForwardedIsNext ==
  ASSUME BusInv, NEW c \in Clients, Sent(c)
  PROVE  Promise!Join(c) \/ Promise!Follow(c)
<1> DEFINE e == inHand[c]
<1>1. /\ forwarder[c] = "sending" /\ forwarded' = [forwarded EXCEPT ![c] = Append(@, e)]
      /\ snapshot' = snapshot /\ handler' = handler /\ sequence' = sequence
  BY DEF Sent
<1>2. /\ e = since[c] + Len(forwarded[c]) + 1 /\ e <= sequence /\ snapshot[c] <= since[c]
      /\ forwarded[c] # <<>> => forwarded[c][Len(forwarded[c])] = since[c] + Len(forwarded[c])
  BY <1>1, StreamHead
<1>3. /\ forwarded[c] \in Seq(Nat) /\ Len(forwarded[c]) \in Nat /\ since[c] \in Nat
      /\ sequence \in Nat /\ snapshot[c] \in Nat
  BY StreamType, LenProperties DEF BusInv
<1>4. e \in 1..sequence
  BY <1>2, <1>3
<1>5. handler[c] # "snapshot"
  BY <1>1 DEF BusInv, ConnectionInv
<1>6. /\ forwarded'[c] = Append(forwarded[c], e)
      /\ \A d \in Clients : d # c => forwarded'[d] = forwarded[d]
  BY <1>1 DEF BusInv, TypeOK
<1>7. Promise!Deliver(c, e)
  <2>1. Received(c)' = Append(Received(c), e)
    <3> DEFINE s == IF snapshot[c] = 0 \/ handler[c] = "snapshot" THEN <<>> ELSE <<snapshot[c]>>
    <3>1. Received(c) = s \o forwarded[c] /\ Received(c)' = s \o Append(forwarded[c], e)
      BY <1>1, <1>6 DEF Received
    <3>2. s \in Seq(Nat) /\ e \in Nat
      BY <1>3, <1>4
    <3> HIDE DEF s, e
    <3>3. s \o Append(forwarded[c], e) = Append(s \o forwarded[c], e)
      <4>1. <<>> \in Seq(Nat) /\ s \o <<>> = s
        BY <3>2, EmptySeq, ConcatEmptySeq
      <4> QED
        BY <1>3, <3>2, <4>1, StreamGrows
    <3> QED
      BY <3>1, <3>3
  <2>2. \A d \in Clients : d # c => Received(d)' = Received(d)
    BY <1>1, <1>6 DEF Received
  <2> QED
    BY <2>1, <2>2 DEF Promise!Deliver
<1>8. /\ forwarded'[c] # <<>>
      /\ \A d \in Clients : d # c => (forwarded'[d] # <<>>) = (forwarded[d] # <<>>)
  BY <1>3, <1>4, <1>6
<1>9. CASE forwarded[c] = <<>>
  <2>1. e > Promise!Latest(c)
    BY <1>2, <1>3, <1>5, <1>9, LatestReceived
  <2>2. [d \in Clients |-> forwarded'[d] # <<>>]
          = [[d \in Clients |-> forwarded[d] # <<>>] EXCEPT ![c] = TRUE]
    BY <1>8
  <2> QED
    BY <1>1, <1>4, <1>7, <1>9, <2>1, <2>2 DEF Promise!Join
<1>10. CASE forwarded[c] # <<>>
  <2>1. Promise!Latest(c) = since[c] + Len(forwarded[c])
    BY <1>2, <1>5, <1>10, LatestReceived
  <2>2. e = Promise!Latest(c) + 1 /\ Promise!Latest(c) < sequence
    BY <1>2, <1>3, <2>1
  <2>3. [d \in Clients |-> forwarded'[d] # <<>>] = [d \in Clients |-> forwarded[d] # <<>>]
    BY <1>8, <1>10
  <2> QED
    BY <1>1, <1>7, <1>10, <2>2, <2>3 DEF Promise!Follow
<1> QED
  BY <1>9, <1>10

\* Publishing, and all the rest.
LEMMA BusStepMaps ==
  ASSUME BusInv, [Next]_vars
  PROVE  Promise!Next \/ UNCHANGED Promise!vars
<1>1. ASSUME publish PROVE Promise!Publish
  BY <1>1 DEF publish, Promise!Publish, Received
<1>2. ASSUME UNCHANGED vars PROVE UNCHANGED Promise!vars
  BY <1>2 DEF vars, Promise!vars, Received
<1>3. ASSUME NEW c \in Clients,
             \/ subscribe(c) \/ unsubscribe(c) \/ Take(c)
             \/ SendFails(c) \/ Disconnect(c) \/ ReceiveRaises(c)
      PROVE  UNCHANGED Promise!vars
  <2>1. sequence' = sequence /\ forwarded' = forwarded /\ snapshot' = snapshot
    BY <1>3 DEF subscribe, unsubscribe, Take, SendFails, Disconnect, ReceiveRaises
  <2>2. \A d \in Clients : handler'[d] = "snapshot" <=> handler[d] = "snapshot"
    BY <1>3 DEF subscribe, unsubscribe, Take, SendFails, Disconnect, ReceiveRaises,
       BusInv, TypeOK
  <2> QED
    BY <2>1, <2>2, NothingSent DEF Received
<1>4. ASSUME NEW c \in Clients, Accept(c) \/ SnapshotFails(c)
      PROVE  UNCHANGED Promise!vars
  <2>1. sequence' = sequence /\ forwarded' = forwarded
    BY <1>4 DEF Accept, SnapshotFails
  <2>2. \A d \in Clients : d # c => handler'[d] = handler[d] /\ snapshot'[d] = snapshot[d]
    BY <1>4 DEF Accept, SnapshotFails, BusInv, TypeOK
  <2>3. /\ snapshot[c] = 0 \/ handler[c] = "snapshot"
        /\ snapshot'[c] = 0 \/ handler'[c] = "snapshot"
    BY <1>4 DEF Accept, SnapshotFails, BusInv, TypeOK, ConnectionInv
  <2> QED
    BY <2>1, <2>2, <2>3, NothingSent DEF Received
<1> QED
  BY <1>1, <1>2, <1>3, <1>4, SnapshotIsFirst, ForwardedIsNext
     DEF Next, ForwarderStep, ClientStep, Promise!Next

\* Nobody has got anything at first.
LEMMA BusInitMaps == Init => Promise!Init
<1> SUFFICES ASSUME Init PROVE Promise!Init
  OBVIOUS
<1>1. <<>> \o <<>> = <<>>
  BY EmptySeq, ConcatEmptySeq
<1>2. \A c \in Clients : snapshot[c] = 0 /\ forwarded[c] = <<>>
  BY DEF Init
<1>3. \A c \in Clients : Received(c) = <<>>
  BY <1>1, <1>2 DEF Received
<1>4. \A c \in Clients : (forwarded[c] # <<>>) = FALSE
  BY <1>2
<1>5. [c \in Clients |-> Received(c)] = [c \in Clients |-> <<>>]
  BY <1>3
<1>6. [c \in Clients |-> forwarded[c] # <<>>] = [c \in Clients |-> FALSE]
  BY <1>4, Zenon
<1> QED
  BY <1>5, <1>6 DEF Init, Promise!Init

\* The bus implements the promise of the numbers: every client gets at most a
\* snapshot and then a run of consecutive events, all later than the snapshot,
\* so that between snapshot and subscription events may be missed but none is
\* repeated or late: for any number of clients, any queue size, any events.
THEOREM BusImplementsStream == Spec => StreamSpec
<1>1. BusInv /\ [Next]_vars => BusInv'
  BY BusInvStep
<1>2. BusInv /\ [Next]_vars => Promise!Next \/ UNCHANGED Promise!vars
  BY BusStepMaps
<1> QED
  BY <1>1, <1>2, BusInvInit, BusInitMaps, PTL DEF Spec, StreamSpec, Promise!Spec
===============================================================================
