-------------------------------- MODULE MCScan --------------------------------
(***************************************************************************)
(* ScanProperties with small values: scan and drive identifiers are model  *)
(* values, size classes are numbers.  Size 1 passes every limit, size 2    *)
(* is above the limits of hashing and YARA, size 3 is skipped.             *)
(***************************************************************************)
EXTENDS ScanProperties, TLC

\* Identifiers are interchangeable: no action or invariant tells them apart.
Interchangeable == Permutations(ScanIds) \cup Permutations(Drives)
===============================================================================
