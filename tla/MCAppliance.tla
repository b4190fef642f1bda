----------------------------- MODULE MCAppliance -----------------------------
(***************************************************************************)
(* Appliance with small values: the same model values are the partitions   *)
(* of the helpers and the drives of the engine.                            *)
(***************************************************************************)
EXTENDS Appliance, TLC

\* Drives are interchangeable: no action or invariant tells them apart.
Interchangeable == Permutations(Drives)
==============================================================================
