-------------------------- MODULE HistoryRepository --------------------------
(***************************************************************************)
(* The SQLite history of the appliance (history/repository.py): the tables *)
(* `scans`, `detections` and `events`.  Every method of the class opens a  *)
(* connection, runs one statement and commits, so each is one atomic       *)
(* change of one table; a method that raises changes nothing.  The module  *)
(* holds the state and the operations only: who calls them, and when, is   *)
(* the business of the modules that extend it.                             *)
(*                                                                         *)
(* A row keeps what properties tell apart: its status, the counters        *)
(* files_scanned and threat_count, and whether the two report paths are    *)
(* set (the controller sets both or neither).  A detection is counted, an  *)
(* event is counted under its event_type.                                  *)
(***************************************************************************)
EXTENDS Naturals

CONSTANT ScanIds   \* the scan identifiers that generate_scan_id can return

VARIABLES scans, detections, events

FinalStatuses == {"completed", "cancelled", "failed"}

\* "absent" stands for the missing row; the others are ScanStatus.
ScanStatus == {"absent", "running"} \cup FinalStatuses

EventTypes == {"scan_started", "file_skipped", "threat_detected",
               "files_skipped", "scan_error"}

Row == [status : ScanStatus, files : Nat, threats : Nat, report : BOOLEAN]

NoRow == [status |-> "absent", files |-> 0, threats |-> 0, report |-> FALSE]

EmptyHistory ==
  /\ scans = [i \in ScanIds |-> NoRow]
  /\ detections = [i \in ScanIds |-> 0]
  /\ events = [i \in ScanIds |-> [t \in EventTypes |-> 0]]

HistoryTypeOK ==
  /\ scans \in [ScanIds -> Row]
  /\ detections \in [ScanIds -> Nat]
  /\ events \in [ScanIds -> [EventTypes -> Nat]]

Closed(i) == scans[i].status \in FinalStatuses

(***************************************************************************)
(* The operations, each on its own table.                                  *)
(***************************************************************************)

\* INSERT of a primary key: the row must not be there yet.
create_scan(i) ==
  /\ scans[i] = NoRow
  /\ scans' = [scans EXCEPT ![i].status = "running"]

\* An UPDATE of a missing row changes nothing.
update_scan_progress(i, files, threats) ==
  scans' = IF scans[i] = NoRow
    THEN scans
    ELSE [scans EXCEPT ![i] = [@ EXCEPT !.files = files, !.threats = threats]]

\* Mutant: the UPDATE leaves the status out.
finish_scan_figures(i, result) ==
  scans' = [scans EXCEPT ![i] = [result EXCEPT !.status = scans[i].status]]

\* Mutant: the UPDATE has lost its WHERE.
finish_scan_everywhere(i, result) ==
  scans' = [j \in ScanIds |-> IF scans[j] = NoRow THEN NoRow ELSE result]

finish_scan(i, result) ==
  scans' = IF scans[i] = NoRow THEN scans ELSE [scans EXCEPT ![i] = result]

\* PRAGMA foreign_keys=ON: the scan row must exist.
insert_detection(i) ==
  /\ scans[i] # NoRow
  /\ detections' = [detections EXCEPT ![i] = @ + 1]

insert_event(i, type) == events' = [events EXCEPT ![i][type] = @ + 1]
=============================================================================
