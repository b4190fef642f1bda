------------------------------ MODULE ScanLedger ------------------------------
(***************************************************************************)
(* What the scan history promises to whoever reads it, with no engine, no  *)
(* event loop and no failure in sight.  A scan is opened once, collects    *)
(* detections while it runs, and is closed once with a final status; after *)
(* that nothing about it ever changes.  The threat total it is closed with *)
(* is the number of detections on record; only a failed scan may count one *)
(* more, the detection whose own insertion failed.                         *)
(***************************************************************************)
EXTENDS Naturals

CONSTANT ScanIds

VARIABLES
  status,   \* where each scan is in its life
  found,    \* detections on record
  total     \* the threat total its row shows

vars == <<status, found, total>>

Final == {"completed", "cancelled", "failed"}

Init ==
  /\ status = [i \in ScanIds |-> "absent"]
  /\ found = [i \in ScanIds |-> 0]
  /\ total = [i \in ScanIds |-> 0]

Open(i) ==
  /\ status[i] = "absent"
  /\ status' = [status EXCEPT ![i] = "running"]
  /\ UNCHANGED <<found, total>>

Detect(i) ==
  /\ status[i] = "running"
  /\ found' = [found EXCEPT ![i] = @ + 1]
  /\ UNCHANGED <<status, total>>

Tally(i) ==
  /\ status[i] = "running"
  /\ total' = [total EXCEPT ![i] = found[i]]
  /\ UNCHANGED <<status, found>>

Close(i, s) ==
  /\ status[i] = "running"
  /\ status' = [status EXCEPT ![i] = s]
  /\ \E n \in {found[i], found[i] + 1} :
       /\ s # "failed" => n = found[i]
       /\ total' = [total EXCEPT ![i] = n]
  /\ UNCHANGED found

Next ==
  \E i \in ScanIds :
    \/ Open(i)
    \/ Detect(i)
    \/ Tally(i)
    \/ \E s \in Final : Close(i, s)

Spec == Init /\ [][Next]_vars
=============================================================================
