----------------------------- MODULE FileSelection -----------------------------
(***************************************************************************)
(* What a walk owes its caller, with no tree, stack or directory in sight. *)
(* Of the files that are wanted each is given, once, or missed through an  *)
(* error of the file system.  What has been given is not missed later, and *)
(* what has been missed is not given later.  The walk is over when nothing *)
(* is left of the files wanted, and not before, unless it breaks off;      *)
(* after that nothing is given.                                            *)
(***************************************************************************)
EXTENDS Naturals, Sequences

VARIABLES
  wanted,   \* the files the caller asks for
  given,    \* those it has been given, in the order it got them
  missed,   \* those it will not get
  errors,   \* how often the file system has failed
  phase     \* "going", "over" or "broken"

vars == <<wanted, given, missed, errors, phase>>

Left == wanted \ (missed \cup {given[k] : k \in DOMAIN given})

Init ==
  /\ given = <<>>
  /\ missed = {}
  /\ errors = 0
  /\ phase = "going"

Give ==
  /\ phase = "going"
  /\ \E n \in Left : given' = Append(given, n)
  /\ UNCHANGED <<wanted, missed, errors, phase>>

\* One error may cost a file, a directory with all that lies below it, or
\* nothing that is wanted.
Miss ==
  /\ phase = "going"
  /\ errors' = errors + 1
  /\ \E lost \in SUBSET Left : missed' = missed \cup lost
  /\ UNCHANGED <<wanted, given, phase>>

Finish ==
  /\ phase = "going" /\ Left = {}
  /\ phase' = "over"
  /\ UNCHANGED <<wanted, given, missed, errors>>

BreakOff ==
  /\ phase = "going"
  /\ phase' = "broken"
  /\ UNCHANGED <<wanted, given, missed, errors>>

Next == Give \/ Miss \/ Finish \/ BreakOff

Spec == Init /\ [][Next]_vars
===============================================================================
