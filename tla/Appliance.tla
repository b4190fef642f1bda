------------------------------ MODULE Appliance ------------------------------
(***************************************************************************)
(* The appliance: the engine of `ScanController` and the mount helpers of  *)
(* `MountHelper`, which share the token and meet at POST /internal/drive.  *)
(* A step is one of the helpers, devices and systemd, which leaves the     *)
(* engine alone; a step of a scan, which leaves the helpers alone; a       *)
(* request, which needs a listening engine; the delivery of a notification, *)
(* which is internal_drive_event; or the end and the start of the process. *)
(***************************************************************************)
EXTENDS ScanProperties, MountHelper

CONSTANT Answers   \* what the operator answers at a prompt

ASSUME DevicesAreDrives == Devices = Drives
ASSUME AnswersAssumption == Answers \subseteq ThreatAction

VARIABLES
  root,    \* the argument `root` of each scan's coroutine, as its drive
  pulled   \* history: scans whose drive was pulled out before they had read it all

applianceVars == <<vars, mountVars, root, pulled>>

ApplianceTypeOK ==
  /\ MountTypeOK
  /\ root \in [ScanIds -> Drives \cup {None}]
  /\ pulled \subseteq ScanIds
  /\ stopping => ~listening

ApplianceInit ==
  /\ Init
  /\ MountInit
  /\ root = [i \in ScanIds |-> None]
  /\ pulled = {}

-------------------------------------------------------------------------------
\* Where a scan has a file in hand, and so its directory open.
FileInHand == {"clamWait", "clamKill", "hash", "detect", "alert", "promptWait",
               "yara", "yaraWait", "yaraKill", "hits", "count"}

\* umount fails on these: at the head of the loop a directory may be open or not.
BusyPaths(walking) ==
  {root[i] : i \in {k \in ScanIds :
      pc[k] \in FileInHand \cup (IF walking THEN {"next"} ELSE {})}}

\* A scan reads from a drive that is not there any more as from one that is:
\* what fails is skipped, so no step of the scan depends on it.
PullOut(d) ==
  /\ Unplug(d)
  /\ pulled' = pulled \cup
       {i \in ScanIds : pc[i] \in {"created", "next"} \cup FileInHand /\ root[i] = d}
  /\ UNCHANGED <<vars, root>>

HelperStep ==
  /\ \E d \in Devices :
       \/ Plug(d) \/ SystemdStep(d) \/ MounterStep(d)
       \/ \E walking \in BOOLEAN : UnmounterStep(d, BusyPaths(walking))
  /\ UNCHANGED <<vars, root, pulled>>

\* Mutant: a new process is started before the old one has ended.
StartEngineEarly ==
  /\ EngineStart
  /\ UNCHANGED <<vars, root, pulled>>

\* create_app: the token first, then the socket.
StartEngine ==
  /\ ~stopping
  /\ EngineStart
  /\ UNCHANGED <<vars, root, pulled>>

-------------------------------------------------------------------------------
DriveOf(n) == IF n.event = "mounted" THEN n.device ELSE None

\* Notifications are separate requests: they are handled in any order.  The
\* handler ignores the event if a scan is running.
Deliver(n) ==
  /\ inbox[n] > 0
  /\ inbox' = [inbox EXCEPT ![n] = @ - 1]
  /\ internal_drive_event(DriveOf(n))
  /\ usage' = IF DriveFrozen THEN "rough" ELSE usage
  /\ UNCHANGED <<busVars, diskVars, procVars, token, listening, root, pulled>>

\* POST /scan: `rooted` stands for a scan_root elsewhere than on a drive.
StartScan(i, rooted) ==
  /\ listening
  /\ start_scan(i, rooted) \/ start_scan_raises(i, rooted)
  /\ root' = [root EXCEPT ![i] = IF rooted THEN None ELSE drive]
  /\ UNCHANGED <<mountVars, pulled>>

\* DELETE /scan and POST /scan/threat-action.
OperatorRequest ==
  /\ listening
  /\ cancel_scan \/ \E a \in Answers : handle_threat_action(a)
  /\ UNCHANGED <<mountVars, root, pulled>>

ScanRuns ==
  /\ \E i \in ScanIds : EnginesStep(i) \/ ScanStep(i)
  /\ UNCHANGED <<mountVars, root, pulled>>

\* The sockets close with the process, and a new one knows of no drive.
EngineEnds ==
  /\ Crash \/ Interrupt
  /\ listening' = FALSE
  /\ inbox' = [n \in Notice |-> 0]
  /\ usage' = IF Settled /\ plugged = {} THEN usage ELSE "rough"
  /\ UNCHANGED <<busVars, diskVars, procVars, token, root, pulled>>

EngineRestarts == Restart /\ UNCHANGED <<mountVars, root, pulled>>

ApplianceNext ==
  \/ HelperStep \/ StartEngine
  \/ \E d \in Devices : PullOut(d)
  \/ \E n \in Notice : Deliver(n)
  \/ \E i \in ScanIds, rooted \in BOOLEAN : StartScan(i, rooted)
  \/ OperatorRequest \/ ScanRuns \/ EngineEnds \/ EngineRestarts

ApplianceSpec == ApplianceInit /\ [][ApplianceNext]_applianceVars

-------------------------------------------------------------------------------
(***************************************************************************)
(* Properties.                                                             *)
(***************************************************************************)

\* Where every change is given its time and nothing fails, the drive that the
\* engine offers when all helpers have ended is one that is in.  As long as
\* there has been one drive at a time, everybody agrees on it: the drive in
\* the slot, the only live mount, drive.json, and the drive the engine offers
\* are the same, whatever scans have been started, prompted or cancelled, and
\* whichever process has come and gone meanwhile.
DriveFollows ==
  Settled /\ usage # "rough" =>
    /\ drive = None \/ drive \in plugged
    /\ usage = "single" =>
         \/ /\ plugged = {} /\ drive = None /\ driveJson = "absent"
            /\ \A d \in Devices : mounts[d] = "none"
         \/ \E d \in plugged :
              /\ plugged = {d} /\ drive = d /\ driveJson = d
              /\ mounts = [e \in Devices |-> IF e = d THEN "live" ELSE "none"]

-------------------------------------------------------------------------------
(***************************************************************************)
(* Requirements the code does not meet; each has a run that refutes it.    *)
(***************************************************************************)

\* SRS.md:676, :687: a medium that is removed is unmounted.  Where every
\* change was given its time and nothing failed, a mount has its device.
RemovedIsUnmounted ==
  Settled /\ usage # "rough" =>
    \A d \in Devices : mounts[d] # "none" => d \in plugged

\* SRS.md:682, HLD.md:695: a scan whose medium is removed is given up, with an
\* error.  It is not recorded as completed.
PulledOutNotCompleted ==
  \A i \in pulled : scans[i].status # "completed"
==============================================================================
