------------------------------ MODULE EventStream ------------------------------
(***************************************************************************)
(* What the numbers on the events promise to a client, with no queue, task *)
(* or connection in sight.  A client first gets the event of the moment,   *)
(* if there is one, then follows: its first followed event may skip some,  *)
(* but never repeats or precedes the snapshot, and from there on it gets   *)
(* every event in its turn for as long as it gets any.  Nothing arrives    *)
(* before it is published.                                                 *)
(***************************************************************************)
EXTENDS Naturals, Sequences

CONSTANT Clients

VARIABLES
  published,   \* events published so far
  received,    \* the numbers each client has got, in the order it got them
  following    \* whether it got more than a snapshot

vars == <<published, received, following>>

Latest(c) == IF received[c] = <<>> THEN 0 ELSE received[c][Len(received[c])]

Init ==
  /\ published = 0
  /\ received = [c \in Clients |-> <<>>]
  /\ following = [c \in Clients |-> FALSE]

Publish ==
  /\ published' = published + 1
  /\ UNCHANGED <<received, following>>

Deliver(c, n) == received' = [received EXCEPT ![c] = Append(@, n)]

Snapshot(c) ==
  /\ received[c] = <<>>
  /\ \E n \in 1..published : Deliver(c, n)
  /\ UNCHANGED <<published, following>>

\* The only place for a gap.
Join(c) ==
  /\ ~following[c]
  /\ \E n \in 1..published : n > Latest(c) /\ Deliver(c, n)
  /\ following' = [following EXCEPT ![c] = TRUE]
  /\ UNCHANGED published

Follow(c) ==
  /\ following[c]
  /\ Latest(c) < published
  /\ Deliver(c, Latest(c) + 1)
  /\ UNCHANGED <<published, following>>

Next == Publish \/ \E c \in Clients : Snapshot(c) \/ Join(c) \/ Follow(c)

Spec == Init /\ [][Next]_vars
===============================================================================
