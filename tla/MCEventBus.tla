------------------------------- MODULE MCEventBus -------------------------------
(***************************************************************************)
(* EventBus with two connections, a queue of two and a handful of events.  *)
(***************************************************************************)
EXTENDS EventBus, TLC

\* Connections are interchangeable.
Interchangeable == Permutations(Clients)
===============================================================================
