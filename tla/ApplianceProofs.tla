---------------------------- MODULE ApplianceProofs ----------------------------
(***************************************************************************)
(* The composition takes nothing from the engine and adds nothing to it:   *)
(* the engine of the appliance is the one of ScanController, for any       *)
(* number of devices, plugs and restarts, so that what is proved of Spec   *)
(* holds in the appliance.  The types of the rest of it, and the agreement *)
(* of the slot, the mounts, drive.json and the engine on the drive.        *)
(***************************************************************************)
EXTENDS Appliance, ScanSafetyProofs

-------------------------------------------------------------------------------
(***************************************************************************)
(* The appliance implements ScanController.                                *)
(***************************************************************************)

\* What a notification says of the drive is what set_drive can be given.
LEMMA DriveOfType ==
  ASSUME NEW n \in Notice
  PROVE  DriveOf(n) \in Drives \cup {None}
BY DevicesAreDrives DEF Notice, DriveOf

\* A step of the appliance is a step of the engine or leaves the engine alone.
LEMMA ApplianceStepIsNext ==
  ASSUME [ApplianceNext]_applianceVars
  PROVE  [Next]_vars
<1>1. ASSUME HelperStep \/ StartEngine \/ UNCHANGED applianceVars PROVE UNCHANGED vars
  BY <1>1 DEF HelperStep, StartEngine, applianceVars
<1>2. ASSUME NEW d \in Devices, PullOut(d) PROVE UNCHANGED vars
  BY <1>2 DEF PullOut
<1>3. ASSUME NEW n \in Notice, Deliver(n) PROVE Next
  BY <1>3, DriveOfType DEF Deliver, Next, Request
<1>4. ASSUME NEW i \in ScanIds, NEW rooted \in BOOLEAN, StartScan(i, rooted) PROVE Next
  BY <1>4 DEF StartScan, Next, Request
<1>5. ASSUME OperatorRequest PROVE Next
  BY <1>5, AnswersAssumption DEF OperatorRequest, Next, Request
<1>6. ASSUME ScanRuns \/ EngineEnds \/ EngineRestarts PROVE Next
  BY <1>6 DEF ScanRuns, EngineEnds, EngineRestarts, Next
<1> QED
  BY <1>1, <1>2, <1>3, <1>4, <1>5, <1>6 DEF ApplianceNext

\* In the appliance the engine behaves as ScanController says: the helpers,
\* the devices and the delivery of notifications only choose when its drive
\* events come.
THEOREM ApplianceRunsEngine == ApplianceSpec => Spec
<1>1. ApplianceInit => Init
  BY DEF ApplianceInit
<1>2. [ApplianceNext]_applianceVars => [Next]_vars
  BY ApplianceStepIsNext
<1> QED
  BY <1>1, <1>2, PTL DEF ApplianceSpec, Spec

-------------------------------------------------------------------------------
(***************************************************************************)
(* Types of the helpers, and the socket that closes with its process.      *)
(***************************************************************************)

\* A helper goes from label to label.
LEMMA HelperType ==
  ASSUME MountTypeOK, NEW j \in Job, NEW d \in Devices, NEW label \in Label,
         HelperGoto(j, d, label)
  PROVE  helper' \in [Job -> [Devices -> Label]]
BY DEF MountTypeOK, HelperGoto

\* Devices that come and go.
LEMMA DeviceType ==
  ASSUME MountTypeOK, NEW d \in Devices, Plug(d) \/ Unplug(d)
  PROVE  MountTypeOK'
<1> USE DEF MountTypeOK, procVars, linkVars, diskVars
<1>1. ASSUME Plug(d) PROVE MountTypeOK'
  BY <1>1, PlugAssumption DEF Plug
<1>2. ASSUME Unplug(d) PROVE MountTypeOK'
  <2>1. mounts' \in [Devices -> {"none", "live", "dead"}]
    BY <1>2 DEF Unplug
  <2> QED
    BY <1>2, <2>1 DEF Unplug
<1> QED
  BY <1>1, <1>2

\* udev and systemd, starting and stopping the helpers of a device.
LEMMA SystemdType ==
  ASSUME MountTypeOK, NEW d \in Devices, SystemdStep(d)
  PROVE  MountTypeOK'
<1> USE DEF busVars, linkVars, diskVars, Label, Job
<1>1. ASSUME StartUnmounter(d) PROVE MountTypeOK'
  <2>1. helper' \in [Job -> [Devices -> Label]]
    BY <1>1, HelperType DEF StartUnmounter
  <2> QED
    BY <1>1, <2>1 DEF StartUnmounter, MountTypeOK
<1>2. ASSUME StartMounter(d) PROVE MountTypeOK'
  <2>1. helper' \in [Job -> [Devices -> Label]]
    BY <1>2, HelperType DEF StartMounter
  <2> QED
    BY <1>2, <2>1 DEF StartMounter, MountTypeOK
<1>3. ASSUME StopMounter(d) PROVE MountTypeOK'
  <2>1. helper' \in [Job -> [Devices -> Label]]
    BY <1>3, HelperType DEF StopMounter
  <2> QED
    BY <1>3, <2>1 DEF StopMounter, MountTypeOK
<1> QED
  BY <1>1, <1>2, <1>3 DEF SystemdStep

\* A helper that tells the engine adds one notification to the inbox.
LEMMA NotifyType ==
  ASSUME MountTypeOK, NEW j \in Job, NEW d \in Devices, Notify(j, d)
  PROVE  MountTypeOK'
<1>1. helper' \in [Job -> [Devices -> Label]]
  BY HelperType DEF Notify, Label
<1>2. inbox' \in [Notice -> Nat]
  <2>1. NoticeOf(j, d) \in Notice
    BY DEF NoticeOf, Notice
  <2> QED
    BY <2>1 DEF Notify, MountTypeOK
<1>3. usage' \in {"single", "calm", "rough"}
  BY DEF Notify, MountTypeOK
<1> QED
  BY <1>1, <1>2, <1>3 DEF Notify, MountTypeOK, busVars, diskVars

\* The steps of a mount helper.
LEMMA MounterType ==
  ASSUME MountTypeOK, NEW d \in Devices, MounterStep(d)
  PROVE  MountTypeOK'
<1> USE DEF busVars, linkVars, diskVars
<1>0. "mount" \in Job /\ {"none", "mount", "truncate", "write", "notify"} \subseteq Label
  BY DEF Job, Label
<1>1. ASSUME InspectDevice(d) \/ MounterFails(d) PROVE MountTypeOK'
  <2>1. helper' \in [Job -> [Devices -> Label]]
    BY <1>0, <1>1, HelperType DEF InspectDevice, MounterFails
  <2> QED
    BY <1>1, <2>1 DEF InspectDevice, MounterFails, MountTypeOK
<1>2. ASSUME MountDevice(d) PROVE MountTypeOK'
  <2>1. helper' \in [Job -> [Devices -> Label]]
    BY <1>0, <1>2, HelperType DEF MountDevice
  <2>2. mounts' \in [Devices -> {"none", "live", "dead"}]
    BY <1>2 DEF MountDevice, MountTypeOK
  <2> QED
    BY <1>2, <2>1, <2>2 DEF MountDevice, MountTypeOK
<1>3. ASSUME TruncateState(d) PROVE MountTypeOK'
  <2>1. helper' \in [Job -> [Devices -> Label]]
    BY <1>0, <1>3, HelperType DEF TruncateState
  <2> QED
    BY <1>3, <2>1 DEF TruncateState, MountTypeOK
<1>4. ASSUME WriteState(d) PROVE MountTypeOK'
  <2>1. helper' \in [Job -> [Devices -> Label]]
    BY <1>0, <1>4, HelperType DEF WriteState
  <2>2. driveJson' \in Devices \cup {"absent", "empty", "garbled"}
    BY <1>4 DEF WriteState, MountTypeOK
  <2> QED
    BY <1>4, <2>1, <2>2 DEF WriteState, MountTypeOK
<1> QED
  BY <1>0, <1>1, <1>2, <1>3, <1>4, NotifyType DEF MounterStep

\* The steps of an unmount helper.
LEMMA UnmounterType ==
  ASSUME MountTypeOK, NEW d \in Devices, NEW busyPaths, UnmounterStep(d, busyPaths)
  PROVE  MountTypeOK'
<1> USE DEF busVars, linkVars, diskVars
<1>0. /\ "unmount" \in Job
      /\ {"none", "inspect", "read", "umount", "exists", "unlink", "notify"} \subseteq Label
  BY DEF Job, Label
<1>1. ASSUME LookForState(d) \/ ReadStateFails(d) \/ InspectRemoved(d) \/ CheckStateExists(d)
      PROVE  MountTypeOK'
  <2>1. helper' \in [Job -> [Devices -> Label]]
    BY <1>0, <1>1, HelperType DEF LookForState, ReadStateFails, InspectRemoved,
       CheckStateExists
  <2> QED
    BY <1>1, <2>1 DEF LookForState, ReadStateFails, InspectRemoved, CheckStateExists,
       MountTypeOK
<1>2. ASSUME ReadState(d) PROVE MountTypeOK'
  <2>1. helper' \in [Job -> [Devices -> Label]]
    BY <1>0, <1>2, HelperType DEF ReadState
  <2>2. target' \in [Devices -> Devices]
    BY <1>2 DEF ReadState, MountTypeOK
  <2> QED
    BY <1>2, <2>1, <2>2 DEF ReadState, MountTypeOK
<1>3. ASSUME Umount(d, target[d] \in busyPaths) PROVE MountTypeOK'
  <2>1. helper' \in [Job -> [Devices -> Label]]
    BY <1>0, <1>3, HelperType DEF Umount
  <2>2. target' \in [Devices -> Devices]
    BY <1>3 DEF Umount, MountTypeOK
  <2>3. /\ mounts' \in [Devices -> {"none", "live", "dead"}]
        /\ usage' \in {"single", "calm", "rough"}
    BY <1>3 DEF Umount, MountTypeOK
  <2> QED
    BY <1>3, <2>1, <2>2, <2>3 DEF Umount, MountTypeOK
<1>4. ASSUME UnlinkState(d) PROVE MountTypeOK'
  <2>1. helper' \in [Job -> [Devices -> Label]]
    BY <1>0, <1>4, HelperType DEF UnlinkState
  <2> QED
    BY <1>4, <2>1 DEF UnlinkState, MountTypeOK
<1> QED
  BY <1>0, <1>1, <1>2, <1>3, <1>4, NotifyType DEF UnmounterStep

\* The start of the engine, with its token and its socket.
LEMMA EngineStartType ==
  ASSUME MountTypeOK, EngineStart
  PROVE  MountTypeOK'
BY DEF MountTypeOK, EngineStart, CreateToken, WriteToken, Listen, busVars, diskVars, procVars

\* The handling of a notification takes it out of the inbox.
LEMMA DeliverType ==
  ASSUME MountTypeOK, NEW n \in Notice, Deliver(n)
  PROVE  MountTypeOK'
<1>1. inbox' \in [Notice -> Nat]
  BY DEF Deliver, MountTypeOK
<1> QED
  BY <1>1 DEF Deliver, MountTypeOK, busVars, diskVars, procVars

\* A process that is going to end has no socket to accept with.
LEMMA SocketCloses ==
  ASSUME TypeOK, ApplianceTypeOK, [ApplianceNext]_applianceVars
  PROVE  stopping' => ~listening'
<1> USE DEF ApplianceTypeOK
<1>1. ASSUME HelperStep PROVE stopping' = stopping /\ listening' = listening
  BY <1>1 DEF HelperStep, SystemdStep, MounterStep, UnmounterStep, Plug, StartUnmounter,
     StartMounter, StopMounter, InspectDevice, MounterFails, MountDevice, TruncateState,
     WriteState, LookForState, ReadState, ReadStateFails, InspectRemoved, Umount,
     CheckStateExists, UnlinkState, Notify, linkVars, vars, env
<1>2. ASSUME StartEngine PROVE ~stopping'
  BY <1>2 DEF StartEngine, vars, env
<1>3. ASSUME NEW d \in Devices, PullOut(d) PROVE stopping' = stopping /\ listening' = listening
  BY <1>3 DEF PullOut, Unplug, linkVars, vars, env
<1>4. ASSUME NEW n \in Notice, Deliver(n) PROVE stopping' = stopping /\ listening' = listening
  BY <1>4 DEF Deliver, internal_drive_event, env
<1>5. ASSUME NEW i \in ScanIds, NEW rooted \in BOOLEAN, StartScan(i, rooted)
      PROVE  ~stopping'
  BY <1>5 DEF StartScan, start_scan, start_scan_raises, Serving, env
<1>6. ASSUME OperatorRequest PROVE ~stopping'
  BY <1>6 DEF OperatorRequest, cancel_scan, handle_threat_action, Serving, env
<1>7. ASSUME ScanRuns PROVE stopping' = stopping /\ listening' = listening
  <2>1. listening' = listening
    BY <1>7 DEF ScanRuns, mountVars, linkVars
  <2>2. ASSUME NEW i \in ScanIds, EnginesStep(i) PROVE stopping' = stopping
    BY <2>2 DEF EnginesStep, ClamAnswer, ClamTimeout, YaraAnswer, YaraTimeout, YaraKilled, env
  <2>3. ASSUME NEW i \in ScanIds, ScanStep(i) PROVE stopping' = stopping
    BY <2>3 DEF ScanStep, Begin, Exhausted, NextCancelled, NextSkipped, NextFile,
       SkipTimedOut, Hash, Detect, Alert, ResumeContinue, ResumeDetails, ResumeStop,
       StartYara, SkipYara, NextHit, Count, WriteTxt, WriteHtml, LogSkipped, Except,
       Finish, FinishRaises, Settle, Raise, CountRaises, Fault, env
  <2> QED
    BY <1>7, <2>1, <2>2, <2>3 DEF ScanRuns
<1>8. ASSUME EngineEnds PROVE ~listening'
  BY <1>8 DEF EngineEnds
<1>9. ASSUME EngineRestarts PROVE ~listening'
  BY <1>9 DEF EngineRestarts, Restart, mountVars, linkVars
<1>10. CASE UNCHANGED applianceVars
  BY <1>10 DEF applianceVars, vars, env, mountVars, linkVars
<1> QED
  BY <1>1, <1>2, <1>3, <1>4, <1>5, <1>6, <1>7, <1>8, <1>9, <1>10 DEF ApplianceNext

\* Every step of the appliance.
LEMMA ApplianceTypeStep ==
  ASSUME TypeOK, ApplianceTypeOK, [ApplianceNext]_applianceVars
  PROVE  ApplianceTypeOK'
<1> USE DEF ApplianceTypeOK
<1>1. stopping' => ~listening'
  BY SocketCloses
<1>2. ASSUME HelperStep PROVE ApplianceTypeOK'
  BY <1>1, <1>2, DeviceType, SystemdType, MounterType, UnmounterType DEF HelperStep
<1>3. ASSUME StartEngine PROVE ApplianceTypeOK'
  BY <1>1, <1>3, EngineStartType DEF StartEngine
<1>4. ASSUME NEW d \in Devices, PullOut(d) PROVE ApplianceTypeOK'
  BY <1>1, <1>4, DeviceType DEF PullOut
<1>5. ASSUME NEW n \in Notice, Deliver(n) PROVE ApplianceTypeOK'
  BY <1>1, <1>5, DeliverType DEF Deliver
<1>6. ASSUME NEW i \in ScanIds, NEW rooted \in BOOLEAN, StartScan(i, rooted)
      PROVE  ApplianceTypeOK'
  <2>1. MountTypeOK'
    BY <1>6 DEF StartScan, mountVars, busVars, diskVars, procVars, linkVars, MountTypeOK
  <2>2. root' \in [ScanIds -> Drives \cup {None}]
    BY <1>6 DEF StartScan, TypeOK, FieldsTypeOK
  <2> QED
    BY <1>1, <1>6, <2>1, <2>2 DEF StartScan
<1>7. ASSUME OperatorRequest \/ ScanRuns \/ EngineRestarts \/ UNCHANGED applianceVars
      PROVE  ApplianceTypeOK'
  <2>1. UNCHANGED <<mountVars, root, pulled>>
    BY <1>7 DEF OperatorRequest, ScanRuns, EngineRestarts, applianceVars
  <2> QED
    BY <1>1, <2>1 DEF mountVars, busVars, diskVars, procVars, linkVars, MountTypeOK
<1>8. ASSUME EngineEnds PROVE ApplianceTypeOK'
  <2>1. MountTypeOK'
    BY <1>8 DEF EngineEnds, busVars, diskVars, procVars, MountTypeOK
  <2> QED
    BY <1>1, <1>8, <2>1 DEF EngineEnds
<1> QED
  BY <1>2, <1>3, <1>4, <1>5, <1>6, <1>7, <1>8 DEF ApplianceNext

\* The appliance as it is switched on.
LEMMA ApplianceTypeInit == ApplianceInit => ApplianceTypeOK
<1> SUFFICES ASSUME ApplianceInit PROVE ApplianceTypeOK
  OBVIOUS
<1>1. MountTypeOK
  <2>1. helper \in [Job -> [Devices -> Label]]
    BY DEF ApplianceInit, MountInit, Label
  <2>2. /\ mounts \in [Devices -> {"none", "live", "dead"}]
        /\ target \in [Devices -> Devices]
        /\ inbox \in [Notice -> Nat]
    BY DEF ApplianceInit, MountInit
  <2>3. plugs \in 0..MaxPlugs
    BY PlugAssumption DEF ApplianceInit, MountInit
  <2>4. /\ plugged \subseteq Devices /\ arrivals \subseteq plugged
        /\ departures \subseteq Devices /\ writers \subseteq Devices
        /\ driveJson \in Devices \cup {"absent", "empty", "garbled"}
        /\ token \in {"absent", "empty", "written"}
        /\ listening \in BOOLEAN
        /\ usage \in {"single", "calm", "rough"}
    BY DEF ApplianceInit, MountInit
  <2> QED
    BY <2>1, <2>2, <2>3, <2>4 DEF MountTypeOK
<1> QED
  BY <1>1 DEF ApplianceInit, MountInit, ApplianceTypeOK

\* The helpers, the devices and the files between them keep their types in
\* every interleaving, and a process that has been told to end accepts no
\* connection, which is why no helper can hand it a notification.
THEOREM ApplianceTypes == ApplianceSpec => []ApplianceTypeOK
<1>1. [ApplianceNext]_applianceVars => [Next]_vars
  BY ApplianceStepIsNext
<1>2. ApplianceInit => Init
  BY DEF ApplianceInit
<1>3. TypeOK /\ ApplianceTypeOK /\ [ApplianceNext]_applianceVars => ApplianceTypeOK'
  BY ApplianceTypeStep
<1> QED
  BY <1>1, <1>2, <1>3, ApplianceTypeInit, TypeInit, TypeStep, PTL DEF ApplianceSpec

-------------------------------------------------------------------------------
(***************************************************************************)
(* Who agrees on the drive.  First, what holds for as long as every change *)
(* is given its time: only a drive that is in is on its way to the engine, *)
(* and one that the engine offers although it has gone is being removed.   *)
(***************************************************************************)

\* On its way from the slot to the engine, and back.
Fetching(d) ==
  \/ d \in arrivals
  \/ helper["mount"][d] # "none"
  \/ inbox[NoticeOf("mount", d)] > 0

Removing(d) ==
  \/ d \in departures
  \/ helper["unmount"][d] # "none"
  \/ inbox[NoticeOf("unmount", d)] > 0

OfferInv ==
  usage # "rough" =>
    /\ \A d \in Devices : Fetching(d) => d \in plugged
    /\ drive = None \/ drive \in plugged \/ \E d \in Devices : Removing(d)
    /\ stopping => drive = None

\* A helper that goes to a label leaves the others where they are.
LEMMA HelperMoves ==
  ASSUME MountTypeOK, NEW j \in Job, NEW d \in Devices, NEW label, HelperGoto(j, d, label)
  PROVE  \A k \in Job, e \in Devices :
           helper'[k][e] = IF k = j /\ e = d THEN label ELSE helper[k][e]
BY DEF MountTypeOK, HelperGoto

\* Where everything has settled, no drive is on its way.
LEMMA SettledIsQuiet ==
  ASSUME MountTypeOK, NEW d \in Devices, Settled
  PROVE  ~Fetching(d) /\ ~Removing(d)
<1>1. \A j \in Job : NoticeOf(j, d) \in Notice
  BY DEF NoticeOf, Notice
<1> QED
  BY <1>1 DEF Settled, NothingInFlight, HelperAt, Fetching, Removing, Job

\* What the devices, systemd and the helpers do.
LEMMA HelperOffer ==
  ASSUME MountTypeOK, OfferInv, drive' = drive, stopping' = stopping,
         NEW d \in Devices, NEW busy,
         Plug(d) \/ Unplug(d) \/ SystemdStep(d) \/ MounterStep(d) \/ UnmounterStep(d, busy)
  PROVE  OfferInv'
<1>a. /\ {"mount", "unmount"} = Job /\ "mount" \in Job /\ "unmount" \in Job
      /\ \A j \in Job, e \in Devices : NoticeOf(j, e) \in Notice
  BY DEF Job, NoticeOf, Notice
<1>b. \A e \in Devices : NoticeOf("mount", e) # NoticeOf("unmount", e)
  BY DEF NoticeOf
<1>c. \A e, f \in Devices, j, k \in Job : NoticeOf(j, e) = NoticeOf(k, f) => e = f /\ j = k
  BY <1>a DEF NoticeOf
<1> SUFFICES ASSUME usage' # "rough" PROVE OfferInv'
  BY DEF OfferInv
<1>1. CASE Plug(d)
  <2>1. Settled /\ usage # "rough" /\ plugged' = plugged \cup {d} /\ arrivals' = arrivals \cup {d}
        /\ UNCHANGED <<departures, procVars, linkVars>>
    BY <1>1 DEF Plug
  <2> QED
    BY <2>1 DEF OfferInv, Fetching, Removing, procVars, linkVars
<1>2. CASE Unplug(d)
  <2>1. Settled /\ usage # "rough" /\ plugged' = plugged \ {d} /\ arrivals' = arrivals \ {d}
        /\ departures' = departures \cup {d} /\ UNCHANGED <<procVars, linkVars>>
    BY <1>2 DEF Unplug
  <2>2. \A e \in Devices : ~Fetching(e)
    BY <2>1, SettledIsQuiet
  <2> QED
    BY <2>1, <2>2 DEF OfferInv, Fetching, Removing, procVars, linkVars
<1>3. CASE StartUnmounter(d)
  <2>1. /\ usage # "rough" /\ departures' = departures \ {d} /\ HelperGoto("unmount", d, "look")
        /\ UNCHANGED <<plugged, arrivals, linkVars>>
    BY <1>3 DEF StartUnmounter
  <2>2. \A k \in Job, e \in Devices :
           helper'[k][e] = IF k = "unmount" /\ e = d THEN "look" ELSE helper[k][e]
    BY <1>a, <2>1, HelperMoves
  <2> QED
    BY <1>a, <2>1, <2>2 DEF OfferInv, Fetching, Removing, linkVars
<1>4. CASE StartMounter(d)
  <2>1. /\ usage # "rough" /\ d \in arrivals /\ arrivals' = arrivals \ {d}
        /\ HelperGoto("mount", d, "inspect") /\ UNCHANGED <<plugged, departures, linkVars>>
    BY <1>4 DEF StartMounter
  <2>2. \A k \in Job, e \in Devices :
           helper'[k][e] = IF k = "mount" /\ e = d THEN "inspect" ELSE helper[k][e]
    BY <1>a, <2>1, HelperMoves
  <2> QED
    BY <1>a, <2>1, <2>2 DEF OfferInv, Fetching, Removing, linkVars
<1>5. CASE StopMounter(d) \/ MounterFails(d) \/ ReadStateFails(d)
  BY <1>5 DEF StopMounter, MounterFails, ReadStateFails
<1>6. ASSUME NEW j \in Job, Notify(j, d) PROVE OfferInv'
  <2>1. /\ usage # "rough" /\ inbox' = [inbox EXCEPT ![NoticeOf(j, d)] = @ + 1]
        /\ HelperAt(j, d, "notify") /\ HelperGoto(j, d, "none") /\ UNCHANGED busVars
    BY <1>6 DEF Notify
  <2>2. \A k \in Job, e \in Devices :
           helper'[k][e] = IF k = j /\ e = d THEN "none" ELSE helper[k][e]
    BY <2>1, HelperMoves
  <2>3. \A n \in Notice : inbox'[n] = IF n = NoticeOf(j, d) THEN inbox[n] + 1 ELSE inbox[n]
    BY <2>1 DEF MountTypeOK
  <2>4. \A n \in Notice : inbox[n] \in Nat
    BY DEF MountTypeOK
  <2>5. \A e \in Devices : Fetching(e)' => Fetching(e)
    BY <1>a, <1>c, <2>1, <2>2, <2>3 DEF Fetching, HelperAt, busVars
  <2>6. \A e \in Devices : Removing(e) => Removing(e)'
    BY <1>a, <1>c, <2>1, <2>2, <2>3, <2>4 DEF Removing, busVars
  <2> QED
    BY <2>1, <2>5, <2>6 DEF OfferInv, busVars
<1>7. ASSUME \/ InspectDevice(d) \/ MountDevice(d) \/ TruncateState(d) \/ WriteState(d)
      PROVE OfferInv'
  <2>1. PICK label \in Label : label # "none" /\ HelperGoto("mount", d, label)
    BY <1>7 DEF InspectDevice, MountDevice, TruncateState, WriteState, Label
  <2>2. /\ UNCHANGED <<busVars, inbox, usage>> /\ helper["mount"][d] # "none"
    BY <1>7 DEF InspectDevice, MountDevice, TruncateState, WriteState, HelperAt, linkVars
  <2>3. \A k \in Job, e \in Devices :
           helper'[k][e] = IF k = "mount" /\ e = d THEN label ELSE helper[k][e]
    BY <1>a, <2>1, HelperMoves
  <2> QED
    BY <1>a, <2>1, <2>2, <2>3 DEF OfferInv, Fetching, Removing, busVars
<1>8. ASSUME \/ LookForState(d) \/ ReadState(d) \/ InspectRemoved(d) \/ Umount(d, busy)
             \/ CheckStateExists(d) \/ UnlinkState(d)
             \/ Umount(d, target[d] \in busy)
      PROVE OfferInv'
  <2>1. PICK label \in Label : label # "none" /\ HelperGoto("unmount", d, label)
    BY <1>8 DEF LookForState, ReadState, InspectRemoved, Umount, CheckStateExists,
       UnlinkState, Label
  <2>2. UNCHANGED <<busVars, inbox>> /\ usage # "rough"
    BY <1>8 DEF LookForState, ReadState, InspectRemoved, Umount, CheckStateExists,
       UnlinkState, linkVars
  <2>3. \A k \in Job, e \in Devices :
           helper'[k][e] = IF k = "unmount" /\ e = d THEN label ELSE helper[k][e]
    BY <1>a, <2>1, HelperMoves
  <2> QED
    BY <1>a, <2>1, <2>2, <2>3 DEF OfferInv, Fetching, Removing, busVars
<1> QED
  BY <1>a, <1>1, <1>2, <1>3, <1>4, <1>5, <1>6, <1>7, <1>8 DEF SystemdStep, MounterStep, UnmounterStep

\* The steps of the engine that are no drive event leave the drive alone.
LEMMA DriveStays ==
  ASSUME NEW i \in ScanIds, NEW rooted \in BOOLEAN,
         \/ EnginesStep(i) \/ ScanStep(i) \/ start_scan(i, rooted) \/ start_scan_raises(i, rooted)
         \/ cancel_scan \/ \E a \in ThreatAction : handle_threat_action(a)
  PROVE  drive' = drive /\ stopping' = stopping
<1>1. ASSUME \/ start_scan(i, rooted) \/ start_scan_raises(i, rooted)
             \/ cancel_scan \/ \E a \in ThreatAction : handle_threat_action(a)
      PROVE  drive' = drive /\ stopping' = stopping
  BY <1>1 DEF start_scan, start_scan_raises, cancel_scan, handle_threat_action, env
<1>2. ASSUME EnginesStep(i) PROVE drive' = drive /\ stopping' = stopping
  BY <1>2 DEF EnginesStep, ClamAnswer, ClamTimeout, YaraAnswer, YaraTimeout, YaraKilled,
     env, fields
<1>3. ASSUME ScanStep(i) PROVE drive' = drive /\ stopping' = stopping
  BY <1>3 DEF ScanStep, Begin, Exhausted, NextCancelled, NextSkipped, NextFile,
     SkipTimedOut, Hash, Detect, Alert, ResumeContinue, ResumeDetails, ResumeStop,
     StartYara, SkipYara, NextHit, Count, WriteTxt, WriteHtml, LogSkipped, Except,
     Finish, FinishRaises, Settle, Raise, CountRaises, Fault, env, fields
<1> QED
  BY <1>1, <1>2, <1>3

\* A step of the appliance is one of the devices and helpers, the handling of
\* a notification, the end of a process, or one that neither looks at.
DeviceStep ==
  /\ \E d \in Devices, busy \in SUBSET (Drives \cup {None}) :
       Plug(d) \/ Unplug(d) \/ SystemdStep(d) \/ MounterStep(d) \/ UnmounterStep(d, busy)
  /\ drive' = drive /\ stopping' = stopping

Unrelated ==
  /\ UNCHANGED <<busVars, diskVars, procVars, inbox, usage>>
  /\ \/ drive' = drive /\ stopping' = stopping
     \/ stopping /\ drive' = None /\ stopping' = FALSE

\* There is no other step.
LEMMA ApplianceStepKinds ==
  ASSUME TypeOK, ApplianceTypeOK, [ApplianceNext]_applianceVars
  PROVE  DeviceStep \/ Unrelated \/ EngineEnds \/ \E n \in Notice : Deliver(n)
<1>1. ASSUME HelperStep PROVE DeviceStep
  <2>1. \A walking \in BOOLEAN : BusyPaths(walking) \in SUBSET (Drives \cup {None})
    BY DEF BusyPaths, ApplianceTypeOK
  <2>2. drive' = drive /\ stopping' = stopping
    BY <1>1 DEF HelperStep, vars, fields, env
  <2> QED
    BY <1>1, <2>1, <2>2 DEF HelperStep, DeviceStep
<1>2. ASSUME NEW d \in Devices, PullOut(d) PROVE DeviceStep
  <2>1. drive' = drive /\ stopping' = stopping /\ {} \in SUBSET (Drives \cup {None})
    BY <1>2 DEF PullOut, vars, fields, env
  <2> QED
    BY <1>2, <2>1 DEF PullOut, DeviceStep
<1>3. ASSUME StartEngine PROVE Unrelated
  BY <1>3 DEF StartEngine, EngineStart, CreateToken, WriteToken, Listen, Unrelated, vars,
     fields, env
<1>4. ASSUME OperatorRequest PROVE Unrelated
  <2>1. UNCHANGED mountVars
    BY <1>4 DEF OperatorRequest
  <2>2. drive' = drive /\ stopping' = stopping
    BY <1>4 DEF OperatorRequest, cancel_scan, handle_threat_action, env
  <2> QED
    BY <2>1, <2>2 DEF Unrelated, mountVars, linkVars
<1>5. ASSUME \/ \E i \in ScanIds, rooted \in BOOLEAN : StartScan(i, rooted)
             \/ ScanRuns
      PROVE  Unrelated
  <2>1. UNCHANGED mountVars
    BY <1>5 DEF ScanRuns, StartScan
  <2>2. drive' = drive /\ stopping' = stopping
    BY <1>5, DriveStays DEF ScanRuns, StartScan
  <2> QED
    BY <2>1, <2>2 DEF Unrelated, mountVars, linkVars
<1>6. ASSUME EngineRestarts PROVE Unrelated
  BY <1>6 DEF EngineRestarts, Restart, FreshController, Unrelated, mountVars, linkVars
<1>7. CASE UNCHANGED applianceVars
  BY <1>7 DEF applianceVars, Unrelated, mountVars, linkVars, vars, fields, env
<1> QED
  BY <1>1, <1>2, <1>3, <1>4, <1>5, <1>6, <1>7 DEF ApplianceNext

\* What is handled is an event that was on its way.
LEMMA DeliverOffer ==
  ASSUME MountTypeOK, OfferInv, NEW n \in Notice, Deliver(n)
  PROVE  OfferInv'
<1> SUFFICES ASSUME usage' # "rough" PROVE OfferInv'
  BY DEF OfferInv
<1>1. /\ usage # "rough" /\ ~DriveFrozen /\ inbox[n] > 0 /\ ~stopping' /\ drive' = DriveOf(n)
      /\ UNCHANGED <<busVars, procVars>>
    BY DEF Deliver, internal_drive_event, set_drive, Serving, env
<1>2. \A m \in Notice : inbox'[m] = IF m = n THEN inbox[n] - 1 ELSE inbox[m]
  BY DEF Deliver, MountTypeOK
<1>3. \A j \in Job, d \in Devices : NoticeOf(j, d) \in Notice
  BY DEF NoticeOf, Notice
<1>4. \A d \in Devices : Fetching(d)' => Fetching(d)
  BY <1>1, <1>2, <1>3 DEF Fetching, Job, busVars, procVars
<1>5. drive' = None \/ drive' \in plugged'
  <2>1. CASE n.event = "mounted"
    <3>1. n.device \in Devices /\ n = NoticeOf("mount", n.device)
      BY <2>1 DEF Notice, NoticeOf
    <3>2. n.device \in plugged
      BY <1>1, <3>1 DEF OfferInv, Fetching
    <3> QED
      BY <1>1, <2>1, <3>2 DEF DriveOf, busVars
  <2>2. CASE n.event # "mounted"
    BY <1>1, <2>2 DEF DriveOf
  <2> QED
    BY <2>1, <2>2
<1> QED
  BY <1>1, <1>4, <1>5 DEF OfferInv, busVars

\* Every step of the appliance.
LEMMA OfferStep ==
  ASSUME TypeOK, ApplianceTypeOK, OfferInv, [ApplianceNext]_applianceVars
  PROVE  OfferInv'
<1>0. MountTypeOK
  BY DEF ApplianceTypeOK
<1>1. ASSUME DeviceStep PROVE OfferInv'
  BY <1>0, <1>1, HelperOffer DEF DeviceStep
<1>2. ASSUME Unrelated PROVE OfferInv'
  BY <1>2 DEF Unrelated, OfferInv, Fetching, Removing, busVars, procVars
<1>3. ASSUME EngineEnds PROVE OfferInv'
  <2> SUFFICES ASSUME usage' # "rough" PROVE OfferInv'
    BY DEF OfferInv
  <2>1. Settled /\ plugged = {} /\ usage # "rough" /\ UNCHANGED <<busVars, procVars>>
    BY <1>3 DEF EngineEnds
  <2>2. \A d \in Devices : ~Fetching(d) /\ ~Removing(d)
    BY <1>0, <2>1, SettledIsQuiet
  <2>3. drive = None
    BY <2>1, <2>2 DEF OfferInv
  <2>4. drive' = None
    BY <1>3, <2>3 DEF EngineEnds, Crash, Interrupt, FreshController, fields
  <2>5. \A d \in Devices : ~Fetching(d)'
    <3>1. \A d \in Devices : inbox'[NoticeOf("mount", d)] = 0
      BY <1>3 DEF EngineEnds, NoticeOf, Notice
    <3> QED
      BY <2>1, <2>2, <3>1 DEF Fetching, busVars, procVars
  <2> QED
    BY <2>4, <2>5 DEF OfferInv
<1> QED
  BY <1>0, <1>1, <1>2, <1>3, ApplianceStepKinds, DeliverOffer

-------------------------------------------------------------------------------
(***************************************************************************)
(* Second, one device at a time: it comes in, is mounted, written down,    *)
(* announced and offered, and the same backwards.  Each phase has one      *)
(* thing under way, and says what the slot, the mounts, drive.json and the *)
(* engine have of it.                                                      *)
(***************************************************************************)

NoMount == [e \in Devices |-> "none"]
MountOf(d, condition) == [e \in Devices |-> IF e = d THEN condition ELSE "none"]
Disk(ms, json, ws) == mounts = ms /\ driveJson = json /\ writers = ws

NoHelper == \A j \in Job, e \in Devices : helper[j][e] = "none"
OnlyHelper(j, d) ==
  /\ helper[j][d] # "none"
  /\ \A k \in Job, e \in Devices : k # j \/ e # d => helper[k][e] = "none"
OnlyNotice(n) == \A m \in Notice : inbox[m] = IF m = n THEN 1 ELSE 0

Empty ==
  /\ arrivals = {} /\ departures = {} /\ NoHelper /\ NothingInFlight
  /\ plugged = {} /\ drive = None /\ Disk(NoMount, "absent", {})

Arrived(d) ==
  /\ arrivals = {d} /\ departures = {} /\ NoHelper /\ NothingInFlight
  /\ plugged = {d} /\ drive = None /\ Disk(NoMount, "absent", {})

Mounting(d) ==
  /\ arrivals = {} /\ departures = {} /\ OnlyHelper("mount", d) /\ NothingInFlight
  /\ plugged = {d} /\ drive = None
  /\ \/ helper["mount"][d] \in {"inspect", "mount"} /\ Disk(NoMount, "absent", {})
     \/ helper["mount"][d] = "truncate" /\ Disk(MountOf(d, "live"), "absent", {})
     \/ helper["mount"][d] = "write" /\ Disk(MountOf(d, "live"), "empty", {d})
     \/ helper["mount"][d] = "notify" /\ Disk(MountOf(d, "live"), d, {})

Announced(d) ==
  /\ arrivals = {} /\ departures = {} /\ NoHelper /\ OnlyNotice(NoticeOf("mount", d))
  /\ plugged = {d} /\ drive = None /\ Disk(MountOf(d, "live"), d, {})

Offered(d) ==
  /\ arrivals = {} /\ departures = {} /\ NoHelper /\ NothingInFlight
  /\ plugged = {d} /\ drive = d /\ Disk(MountOf(d, "live"), d, {})

Departed(d) ==
  /\ arrivals = {} /\ departures = {d} /\ NoHelper /\ NothingInFlight
  /\ plugged = {} /\ drive = d /\ Disk(MountOf(d, "dead"), d, {})

Unmounting(d) ==
  /\ arrivals = {} /\ departures = {} /\ OnlyHelper("unmount", d) /\ NothingInFlight
  /\ plugged = {} /\ drive = d
  /\ \/ helper["unmount"][d] \in {"look", "read", "umount"} /\ Disk(MountOf(d, "dead"), d, {})
     \/ helper["unmount"][d] \in {"exists", "unlink"} /\ Disk(NoMount, d, {})
     \/ helper["unmount"][d] = "notify" /\ Disk(NoMount, "absent", {})

Withdrawn(d) ==
  /\ arrivals = {} /\ departures = {} /\ NoHelper /\ OnlyNotice(NoticeOf("unmount", d))
  /\ plugged = {} /\ drive = d /\ Disk(NoMount, "absent", {})

Phase(d) ==
  \/ Arrived(d) \/ Mounting(d) \/ Announced(d) \/ Offered(d)
  \/ Departed(d) \/ Unmounting(d) \/ Withdrawn(d)

InOnePhase == Empty \/ \E d \in Devices : Phase(d)

SingleInv == usage = "single" => InOnePhase /\ \A d \in Devices : target[d] = d

\* What is under way tells the phase.
LEMMA PhaseOf ==
  ASSUME MountTypeOK, InOnePhase, NEW d \in Devices
  PROVE  /\ helper["mount"][d] # "none" => Mounting(d)
         /\ helper["unmount"][d] # "none" => Unmounting(d)
         /\ d \in arrivals => Arrived(d)
         /\ d \in departures => Departed(d)
         /\ inbox[NoticeOf("mount", d)] > 0 => Announced(d)
         /\ inbox[NoticeOf("unmount", d)] > 0 => Withdrawn(d)
<1>a. /\ "mount" \in Job /\ "unmount" \in Job
      /\ \A j \in Job, e \in Devices : NoticeOf(j, e) \in Notice
      /\ \A e, f \in Devices, j, k \in Job : NoticeOf(j, e) = NoticeOf(k, f) => e = f /\ j = k
  BY DEF Job, NoticeOf, Notice
<1>1. CASE Empty
  BY <1>a, <1>1 DEF Empty, NoHelper, NothingInFlight
<1>2. ASSUME NEW e \in Devices, Arrived(e) \/ Offered(e) \/ Departed(e)
      PROVE  /\ helper["mount"][d] = "none" /\ helper["unmount"][d] = "none"
             /\ inbox[NoticeOf("mount", d)] = 0 /\ inbox[NoticeOf("unmount", d)] = 0
             /\ d \in arrivals => Arrived(d)
             /\ d \in departures => Departed(d)
  BY <1>a, <1>2 DEF Arrived, Offered, Departed, NoHelper, NothingInFlight
<1>3. ASSUME NEW e \in Devices, Mounting(e) \/ Unmounting(e)
      PROVE  /\ d \notin arrivals /\ d \notin departures
             /\ inbox[NoticeOf("mount", d)] = 0 /\ inbox[NoticeOf("unmount", d)] = 0
             /\ helper["mount"][d] # "none" => Mounting(d)
             /\ helper["unmount"][d] # "none" => Unmounting(d)
  <2>1. CASE Mounting(e)
    <3>1. OnlyHelper("mount", e) /\ arrivals = {} /\ departures = {} /\ NothingInFlight
      BY <2>1 DEF Mounting
    <3> QED
      BY <1>a, <2>1, <3>1 DEF OnlyHelper, NothingInFlight
  <2>2. CASE Unmounting(e)
    <3>1. OnlyHelper("unmount", e) /\ arrivals = {} /\ departures = {} /\ NothingInFlight
      BY <2>2 DEF Unmounting
    <3> QED
      BY <1>a, <2>2, <3>1 DEF OnlyHelper, NothingInFlight
  <2> QED
    BY <1>3, <2>1, <2>2
<1>4. ASSUME NEW e \in Devices, Announced(e) \/ Withdrawn(e)
      PROVE  /\ d \notin arrivals /\ d \notin departures
             /\ helper["mount"][d] = "none" /\ helper["unmount"][d] = "none"
             /\ inbox[NoticeOf("mount", d)] > 0 => Announced(d)
             /\ inbox[NoticeOf("unmount", d)] > 0 => Withdrawn(d)
  <2>1. CASE Announced(e)
    <3>1. OnlyNotice(NoticeOf("mount", e)) /\ arrivals = {} /\ departures = {} /\ NoHelper
      BY <2>1 DEF Announced
    <3> QED
      BY <1>a, <2>1, <3>1 DEF OnlyNotice, NoHelper
  <2>2. CASE Withdrawn(e)
    <3>1. OnlyNotice(NoticeOf("unmount", e)) /\ arrivals = {} /\ departures = {} /\ NoHelper
      BY <2>2 DEF Withdrawn
    <3> QED
      BY <1>a, <2>2, <3>1 DEF OnlyNotice, NoHelper
  <2> QED
    BY <1>4, <2>1, <2>2
<1> QED
  BY <1>1, <1>2, <1>3, <1>4 DEF InOnePhase, Phase

\* Where all has settled, the slot is empty or its drive is offered.
LEMMA SettledPhase ==
  ASSUME MountTypeOK, InOnePhase, Settled
  PROVE  Empty \/ \E d \in Devices : Offered(d)
<1>a. /\ "mount" \in Job /\ "unmount" \in Job
      /\ \A j \in Job, e \in Devices : NoticeOf(j, e) \in Notice
  BY DEF Job, NoticeOf, Notice
<1>1. ASSUME NEW d \in Devices, Phase(d) PROVE Offered(d)
  BY <1>a, <1>1 DEF Phase, Settled, HelperAt, NothingInFlight, Arrived, Mounting, Announced,
     Departed, Unmounting, Withdrawn, OnlyHelper, OnlyNotice
<1> QED
  BY <1>1 DEF InOnePhase

\* The one helper starts, goes on and ends.
LEMMA OneHelperMoves ==
  ASSUME MountTypeOK, NEW j \in Job, NEW d \in Devices, NEW label,
         NoHelper \/ OnlyHelper(j, d), HelperGoto(j, d, label)
  PROVE  /\ helper'[j][d] = label
         /\ label # "none" => OnlyHelper(j, d)'
         /\ label = "none" => NoHelper'
<1>1. \A k \in Job, e \in Devices :
         helper'[k][e] = IF k = j /\ e = d THEN label ELSE helper[k][e]
  BY HelperMoves
<1>2. \A k \in Job, e \in Devices : k # j \/ e # d => helper[k][e] = "none"
  BY DEF NoHelper, OnlyHelper
<1> QED
  BY <1>1, <1>2 DEF NoHelper, OnlyHelper

\* A drive is plugged in, or pulled out, when all has settled.
LEMMA DevicePhase ==
  ASSUME MountTypeOK, InOnePhase, drive' = drive, usage' = "single", NEW d \in Devices,
         Plug(d) \/ Unplug(d)
  PROVE  InOnePhase'
<1>1. CASE Plug(d)
  <2>1. Settled /\ plugged = {}
    BY <1>1 DEF Plug, MountTypeOK
  <2>2. Empty
    BY <2>1, SettledPhase DEF Offered
  <2>3. Arrived(d)'
    BY <1>1, <2>2 DEF Plug, Empty, Arrived, NoHelper, NothingInFlight, Disk, NoMount,
       procVars, linkVars, diskVars
  <2> QED
    BY <2>3 DEF InOnePhase, Phase
<1>2. CASE Unplug(d)
  <2>1. Settled /\ d \in plugged
    BY <1>2 DEF Unplug
  <2>2. Offered(d)
    BY <2>1, SettledPhase DEF Offered, Empty
  <2>3. mounts' = MountOf(d, "dead")
    BY <1>2, <2>2 DEF Unplug, Offered, Disk, MountOf
  <2>4. Departed(d)'
    <3>1. Disk(MountOf(d, "dead"), d, {})'
      BY <1>2, <2>2, <2>3 DEF Unplug, Offered, Disk, MountOf
    <3> QED
      BY <1>2, <2>2, <3>1 DEF Unplug, Offered, Departed, NoHelper, NothingInFlight,
         procVars, linkVars
  <2> QED
    BY <2>4 DEF InOnePhase, Phase
<1> QED
  BY <1>1, <1>2

\* The helper of the drive is started.
LEMMA SystemdPhase ==
  ASSUME MountTypeOK, InOnePhase, drive' = drive, usage' = "single", NEW d \in Devices,
         SystemdStep(d)
  PROVE  InOnePhase'
<1>a. "mount" \in Job /\ "unmount" \in Job
  BY DEF Job
<1>1. CASE StartMounter(d)
  <2>1. Arrived(d)
    BY <1>1, PhaseOf DEF StartMounter
  <2>2. OnlyHelper("mount", d)' /\ helper'["mount"][d] = "inspect"
    BY <1>a, <1>1, <2>1, OneHelperMoves DEF StartMounter, Arrived
  <2>3. Mounting(d)'
    BY <1>1, <2>1, <2>2 DEF StartMounter, Arrived, Mounting, Disk, NoMount, NothingInFlight,
       diskVars, linkVars
  <2> QED
    BY <2>3 DEF InOnePhase, Phase
<1>2. CASE StartUnmounter(d)
  <2>1. Departed(d)
    BY <1>2, PhaseOf DEF StartUnmounter
  <2>2. OnlyHelper("unmount", d)' /\ helper'["unmount"][d] = "look"
    BY <1>a, <1>2, <2>1, OneHelperMoves DEF StartUnmounter, Departed
  <2>3. Unmounting(d)'
    BY <1>2, <2>1, <2>2 DEF StartUnmounter, Departed, Unmounting, Disk, MountOf,
       NothingInFlight, diskVars, linkVars
  <2> QED
    BY <2>3 DEF InOnePhase, Phase
<1>3. CASE StopMounter(d)
  BY <1>3 DEF StopMounter
<1> QED
  BY <1>1, <1>2, <1>3 DEF SystemdStep

\* It is mounted, written down and announced.
LEMMA MounterPhase ==
  ASSUME MountTypeOK, InOnePhase, drive' = drive, usage' = "single", NEW d \in Devices,
         MounterStep(d)
  PROVE  InOnePhase'
<1>a. "mount" \in Job /\ NoticeOf("mount", d) \in Notice
  BY DEF Job, NoticeOf, Notice
<1>b. Mounting(d)
  <2>1. helper["mount"][d] # "none"
    BY DEF MounterStep, InspectDevice, MounterFails, MountDevice, TruncateState, WriteState,
       Notify, HelperAt
  <2> QED
    BY <2>1, PhaseOf
<1>c. OnlyHelper("mount", d)
  BY <1>b DEF Mounting
<1>1. CASE InspectDevice(d)
  <2>1. OnlyHelper("mount", d)' /\ helper'["mount"][d] = "mount"
    BY <1>a, <1>c, <1>1, OneHelperMoves DEF InspectDevice
  <2>2. Disk(NoMount, "absent", {})
    BY <1>b, <1>1 DEF InspectDevice, HelperAt, Mounting
  <2>3. Mounting(d)'
    BY <1>b, <1>1, <2>1, <2>2 DEF InspectDevice, Mounting, Disk, NoMount, NothingInFlight,
       busVars, diskVars, linkVars
  <2> QED
    BY <2>3 DEF InOnePhase, Phase
<1>2. CASE MounterFails(d)
  BY <1>2 DEF MounterFails
<1>3. CASE MountDevice(d)
  <2>1. OnlyHelper("mount", d)' /\ helper'["mount"][d] = "truncate"
    BY <1>a, <1>c, <1>3, OneHelperMoves DEF MountDevice
  <2>2. Disk(NoMount, "absent", {})
    BY <1>b, <1>3 DEF MountDevice, HelperAt, Mounting
  <2>3. mounts' = MountOf(d, "live")
    BY <1>3, <2>2 DEF MountDevice, Disk, NoMount, MountOf
  <2>4. Disk(MountOf(d, "live"), "absent", {})'
    BY <1>3, <2>2, <2>3 DEF MountDevice, Disk, MountOf
  <2>5. Mounting(d)'
    BY <1>b, <1>3, <2>1, <2>4 DEF MountDevice, Mounting, NothingInFlight, busVars, linkVars
  <2> QED
    BY <2>5 DEF InOnePhase, Phase
<1>4. CASE TruncateState(d)
  <2>1. OnlyHelper("mount", d)' /\ helper'["mount"][d] = "write"
    BY <1>a, <1>c, <1>4, OneHelperMoves DEF TruncateState
  <2>2. Disk(MountOf(d, "live"), "absent", {})
    BY <1>b, <1>4 DEF TruncateState, HelperAt, Mounting
  <2>3. Disk(MountOf(d, "live"), "empty", {d})'
    BY <1>4, <2>2 DEF TruncateState, Disk, MountOf
  <2>4. Mounting(d)'
    BY <1>b, <1>4, <2>1, <2>3 DEF TruncateState, Mounting, NothingInFlight, busVars, linkVars
  <2> QED
    BY <2>4 DEF InOnePhase, Phase
<1>5. CASE WriteState(d)
  <2>1. OnlyHelper("mount", d)' /\ helper'["mount"][d] = "notify"
    BY <1>a, <1>c, <1>5, OneHelperMoves DEF WriteState
  <2>2. Disk(MountOf(d, "live"), "empty", {d})
    BY <1>b, <1>5 DEF WriteState, HelperAt, Mounting
  <2>3. Disk(MountOf(d, "live"), d, {})'
    BY <1>5, <2>2 DEF WriteState, Disk, MountOf
  <2>4. Mounting(d)'
    BY <1>b, <1>5, <2>1, <2>3 DEF WriteState, Mounting, NothingInFlight, busVars, linkVars
  <2> QED
    BY <2>4 DEF InOnePhase, Phase
<1>6. CASE Notify("mount", d)
  <2>1. NoHelper'
    BY <1>a, <1>c, <1>6, OneHelperMoves DEF Notify
  <2>2. Disk(MountOf(d, "live"), d, {})
    BY <1>b, <1>6 DEF Notify, HelperAt, Mounting
  <2>3. OnlyNotice(NoticeOf("mount", d))'
    <3>1. inbox' = [inbox EXCEPT ![NoticeOf("mount", d)] = @ + 1]
      BY <1>6 DEF Notify
    <3>2. \A m \in Notice : inbox[m] = 0
      BY <1>b DEF Mounting, NothingInFlight
    <3>3. \A m \in Notice : inbox'[m] = IF m = NoticeOf("mount", d) THEN 1 ELSE 0
      BY <1>a, <3>1, <3>2 DEF MountTypeOK
    <3> QED
      BY <3>3 DEF OnlyNotice, NoticeOf
  <2>4. Announced(d)'
    BY <1>b, <1>6, <2>1, <2>2, <2>3 DEF Notify, Mounting, Announced, Disk, MountOf, busVars,
       diskVars
  <2> QED
    BY <2>4 DEF InOnePhase, Phase
<1> QED
  BY <1>1, <1>2, <1>3, <1>4, <1>5, <1>6 DEF MounterStep

\* It is unmounted, forgotten and withdrawn.
LEMMA UnmounterPhase ==
  ASSUME MountTypeOK, InOnePhase, \A e \in Devices : target[e] = e, drive' = drive,
         usage' = "single", NEW d \in Devices, NEW busy, UnmounterStep(d, busy)
  PROVE  InOnePhase'
<1>a. "unmount" \in Job /\ NoticeOf("unmount", d) \in Notice
  BY DEF Job, NoticeOf, Notice
<1>b. Unmounting(d)
  <2>1. helper["unmount"][d] # "none"
    BY DEF UnmounterStep, LookForState, ReadState, ReadStateFails, InspectRemoved, Umount,
       CheckStateExists, UnlinkState, Notify, HelperAt
  <2> QED
    BY <2>1, PhaseOf
<1>c. OnlyHelper("unmount", d)
  BY <1>b DEF Unmounting
<1>d. d # "absent"
  BY DeviceAssumption
<1>1. CASE LookForState(d) \/ ReadState(d)
  <2>1. Disk(MountOf(d, "dead"), d, {})
    BY <1>b, <1>1 DEF LookForState, ReadState, HelperAt, Unmounting
  <2>2. OnlyHelper("unmount", d)' /\ helper'["unmount"][d] \in {"read", "umount"}
    BY <1>a, <1>c, <1>d, <1>1, <2>1, OneHelperMoves DEF LookForState, ReadState, Disk
  <2>3. Unmounting(d)'
    BY <1>b, <1>1, <2>1, <2>2 DEF LookForState, ReadState, Unmounting, Disk, MountOf,
       NothingInFlight, busVars, diskVars, linkVars
  <2> QED
    BY <2>3 DEF InOnePhase, Phase
<1>2. CASE ReadStateFails(d) \/ InspectRemoved(d)
  BY <1>b, <1>2 DEF ReadStateFails, InspectRemoved, HelperAt, Unmounting
<1>3. CASE Umount(d, target[d] \in busy)
  <2>1. Disk(MountOf(d, "dead"), d, {})
    BY <1>b, <1>3 DEF Umount, HelperAt, Unmounting
  <2>2. OnlyHelper("unmount", d)' /\ helper'["unmount"][d] = "exists"
    BY <1>a, <1>c, <1>3, OneHelperMoves DEF Umount
  <2>3. mounts' = NoMount
    BY <1>3, <2>1 DEF Umount, Disk, MountOf, NoMount
  <2>4. Disk(NoMount, d, {})'
    BY <1>3, <2>1, <2>3 DEF Umount, Disk, NoMount
  <2>5. Unmounting(d)'
    BY <1>b, <1>3, <2>2, <2>4 DEF Umount, Unmounting, NothingInFlight, busVars, linkVars
  <2> QED
    BY <2>5 DEF InOnePhase, Phase
<1>4. CASE CheckStateExists(d)
  <2>1. Disk(NoMount, d, {})
    BY <1>b, <1>4 DEF CheckStateExists, HelperAt, Unmounting
  <2>2. OnlyHelper("unmount", d)' /\ helper'["unmount"][d] = "unlink"
    BY <1>a, <1>c, <1>d, <1>4, <2>1, OneHelperMoves DEF CheckStateExists, Disk
  <2>3. Unmounting(d)'
    BY <1>b, <1>4, <2>1, <2>2 DEF CheckStateExists, Unmounting, Disk, NoMount,
       NothingInFlight, busVars, diskVars, linkVars
  <2> QED
    BY <2>3 DEF InOnePhase, Phase
<1>5. CASE UnlinkState(d)
  <2>1. Disk(NoMount, d, {})
    BY <1>b, <1>5 DEF UnlinkState, HelperAt, Unmounting
  <2>2. OnlyHelper("unmount", d)' /\ helper'["unmount"][d] = "notify"
    BY <1>a, <1>c, <1>d, <1>5, <2>1, OneHelperMoves DEF UnlinkState, Disk
  <2>3. Disk(NoMount, "absent", {})'
    BY <1>5, <2>1 DEF UnlinkState, Disk, NoMount
  <2>4. Unmounting(d)'
    BY <1>b, <1>5, <2>2, <2>3 DEF UnlinkState, Unmounting, NothingInFlight, busVars, linkVars
  <2> QED
    BY <2>4 DEF InOnePhase, Phase
<1>6. CASE Notify("unmount", d)
  <2>1. NoHelper'
    BY <1>a, <1>c, <1>6, OneHelperMoves DEF Notify
  <2>2. Disk(NoMount, "absent", {})
    BY <1>b, <1>6 DEF Notify, HelperAt, Unmounting
  <2>3. OnlyNotice(NoticeOf("unmount", d))'
    <3>1. inbox' = [inbox EXCEPT ![NoticeOf("unmount", d)] = @ + 1]
      BY <1>6 DEF Notify
    <3>2. \A m \in Notice : inbox[m] = 0
      BY <1>b DEF Unmounting, NothingInFlight
    <3>3. \A m \in Notice : inbox'[m] = IF m = NoticeOf("unmount", d) THEN 1 ELSE 0
      BY <1>a, <3>1, <3>2 DEF MountTypeOK
    <3> QED
      BY <3>3 DEF OnlyNotice, NoticeOf
  <2>4. Withdrawn(d)'
    BY <1>b, <1>6, <2>1, <2>2, <2>3 DEF Notify, Unmounting, Withdrawn, Disk, NoMount, busVars,
       diskVars
  <2> QED
    BY <2>4 DEF InOnePhase, Phase
<1> QED
  BY <1>1, <1>2, <1>3, <1>4, <1>5, <1>6 DEF UnmounterStep

\* An unmounter unmounts the drive that has gone: drive.json names no other.
LEMMA TargetStays ==
  ASSUME MountTypeOK, InOnePhase, \A e \in Devices : target[e] = e, usage' = "single",
         NEW d \in Devices, NEW busy,
         Plug(d) \/ Unplug(d) \/ SystemdStep(d) \/ MounterStep(d) \/ UnmounterStep(d, busy)
  PROVE  \A e \in Devices : target'[e] = e
<1>1. CASE ReadState(d)
  <2>1. Unmounting(d)
    BY <1>1, PhaseOf DEF ReadState, HelperAt
  <2>2. driveJson = d
    BY <1>1, <2>1 DEF ReadState, HelperAt, Unmounting, Disk
  <2> QED
    BY <1>1, <2>2 DEF ReadState, MountTypeOK
<1>2. CASE Umount(d, target[d] \in busy)
  BY <1>2 DEF Umount, MountTypeOK
<1>3. CASE ~ReadState(d) /\ ~Umount(d, target[d] \in busy)
  <2>1. target' = target
    BY <1>3 DEF Plug, Unplug, SystemdStep, MounterStep, UnmounterStep, StartUnmounter,
       StartMounter, StopMounter, InspectDevice, MounterFails, MountDevice, TruncateState,
       WriteState, LookForState, ReadStateFails, InspectRemoved, CheckStateExists,
       UnlinkState, Notify, procVars
  <2> QED
    BY <2>1
<1> QED
  BY <1>1, <1>2, <1>3

\* The engine offers the drive, and withdraws it.
LEMMA DeliverPhase ==
  ASSUME MountTypeOK, InOnePhase, usage' = "single", NEW n \in Notice, Deliver(n)
  PROVE  InOnePhase'
<1>1. /\ ~DriveFrozen /\ inbox[n] > 0 /\ drive' = DriveOf(n)
      /\ UNCHANGED <<busVars, diskVars, procVars>>
  BY DEF Deliver, internal_drive_event, set_drive
<1>2. \A m \in Notice : inbox'[m] = IF m = n THEN inbox[n] - 1 ELSE inbox[m]
  BY DEF Deliver, MountTypeOK
<1>3. CASE n.event = "mounted"
  <2>1. n.device \in Devices /\ n = NoticeOf("mount", n.device)
    BY <1>3 DEF Notice, NoticeOf
  <2>2. Announced(n.device)
    BY <1>1, <2>1, PhaseOf
  <2>3. NothingInFlight'
    BY <1>2, <2>1, <2>2 DEF Announced, OnlyNotice, NothingInFlight
  <2>4. Offered(n.device)'
    BY <1>1, <1>3, <2>2, <2>3 DEF Announced, Offered, DriveOf, NoHelper, Disk, MountOf,
       busVars, diskVars, procVars
  <2> QED
    BY <2>1, <2>4 DEF InOnePhase, Phase
<1>4. CASE n.event # "mounted"
  <2>1. n.device \in Devices /\ n = NoticeOf("unmount", n.device)
    BY <1>4 DEF Notice, NoticeOf
  <2>2. Withdrawn(n.device)
    BY <1>1, <2>1, PhaseOf
  <2>3. NothingInFlight'
    BY <1>2, <2>1, <2>2 DEF Withdrawn, OnlyNotice, NothingInFlight
  <2>4. Empty'
    BY <1>1, <1>4, <2>2, <2>3 DEF Withdrawn, Empty, DriveOf, NoHelper, Disk, NoMount,
       busVars, diskVars, procVars
  <2> QED
    BY <2>4 DEF InOnePhase
<1> QED
  BY <1>3, <1>4

\* Every step of the appliance.
LEMMA PhaseStep ==
  ASSUME TypeOK, ApplianceTypeOK, OfferInv, SingleInv, [ApplianceNext]_applianceVars
  PROVE  SingleInv'
<1>0. MountTypeOK
  BY DEF ApplianceTypeOK
<1> SUFFICES ASSUME usage' = "single"
             PROVE  InOnePhase' /\ \A d \in Devices : target'[d] = d
  BY DEF SingleInv
<1>1. ASSUME DeviceStep PROVE InOnePhase' /\ \A d \in Devices : target'[d] = d
  <2>1. PICK d \in Devices, busy \in SUBSET (Drives \cup {None}) :
          Plug(d) \/ Unplug(d) \/ SystemdStep(d) \/ MounterStep(d) \/ UnmounterStep(d, busy)
    BY <1>1 DEF DeviceStep
  <2>2. usage = "single" /\ drive' = drive
    BY <1>0, <1>1, <2>1 DEF DeviceStep, MountTypeOK, Plug, Unplug, SystemdStep, MounterStep,
       UnmounterStep, StartUnmounter, StartMounter, StopMounter, InspectDevice, MounterFails,
       MountDevice, TruncateState, WriteState, LookForState, ReadState, ReadStateFails,
       InspectRemoved, Umount, CheckStateExists, UnlinkState, Notify
  <2>3. InOnePhase /\ \A e \in Devices : target[e] = e
    BY <2>2 DEF SingleInv
  <2> QED
    BY <1>0, <2>1, <2>2, <2>3, DevicePhase, SystemdPhase, MounterPhase, UnmounterPhase,
       TargetStays
<1>2. ASSUME Unrelated PROVE InOnePhase' /\ \A d \in Devices : target'[d] = d
  <2>1. /\ usage = "single" /\ drive' = drive
        /\ UNCHANGED <<busVars, diskVars, procVars, inbox>>
    BY <1>2 DEF Unrelated, OfferInv
  <2>2. InOnePhase /\ \A e \in Devices : target[e] = e
    BY <2>1 DEF SingleInv
  <2> QED
    BY <2>1, <2>2 DEF InOnePhase, Phase, Empty, Arrived, Mounting, Announced, Offered, Departed,
       Unmounting, Withdrawn, NoHelper, OnlyHelper, OnlyNotice, NothingInFlight, Disk, NoMount,
       MountOf, busVars, diskVars, procVars
<1>3. ASSUME NEW n \in Notice, Deliver(n)
      PROVE  InOnePhase' /\ \A d \in Devices : target'[d] = d
  <2>1. usage = "single" /\ target' = target
    BY <1>3 DEF Deliver, procVars
  <2> QED
    BY <1>0, <1>3, <2>1, DeliverPhase DEF SingleInv
<1>4. ASSUME EngineEnds PROVE InOnePhase' /\ \A d \in Devices : target'[d] = d
  <2>1. usage = "single" /\ Settled /\ plugged = {} /\ UNCHANGED <<busVars, diskVars, procVars>>
    BY <1>4 DEF EngineEnds
  <2>2. Empty
    BY <1>0, <2>1, SettledPhase DEF SingleInv, Offered
  <2>3. drive' = None
    BY <1>4, <2>2 DEF EngineEnds, Crash, Interrupt, FreshController, fields, Empty
  <2>4. NothingInFlight'
    BY <1>4 DEF EngineEnds, NothingInFlight
  <2>5. Empty'
    BY <2>1, <2>2, <2>3, <2>4 DEF Empty, NoHelper, Disk, NoMount, busVars, diskVars, procVars
  <2> QED
    BY <2>1, <2>5 DEF InOnePhase, SingleInv, procVars
<1>5. DeviceStep \/ Unrelated \/ EngineEnds \/ \E n \in Notice : Deliver(n)
  BY ApplianceStepKinds
<1> QED
  BY <1>1, <1>2, <1>3, <1>4, <1>5

\* The slot is empty when the appliance is switched on.
LEMMA DriveInit == ApplianceInit => OfferInv /\ SingleInv
<1> SUFFICES ASSUME ApplianceInit PROVE OfferInv /\ SingleInv
  OBVIOUS
<1>a. "mount" \in Job /\ "unmount" \in Job /\ \A j \in Job, d \in Devices : NoticeOf(j, d) \in Notice
  BY DEF Job, NoticeOf, Notice
<1>1. NoHelper /\ NothingInFlight
  BY DEF ApplianceInit, MountInit, NoHelper, NothingInFlight
<1>2. drive = None /\ stopping = FALSE
  BY DEF ApplianceInit, Init
<1>3. Empty
  BY <1>1, <1>2 DEF ApplianceInit, MountInit, Empty, Disk, NoMount
<1>4. OfferInv
  BY <1>a, <1>1, <1>2 DEF ApplianceInit, MountInit, OfferInv, Fetching, NoHelper,
     NothingInFlight
<1> QED
  BY <1>3, <1>4 DEF SingleInv, InOnePhase, ApplianceInit, MountInit

\* What the two invariants say where all has settled.
LEMMA AgreedWhenSettled ==
  ASSUME MountTypeOK, OfferInv, SingleInv
  PROVE  DriveFollows
<1> SUFFICES ASSUME Settled, usage # "rough" PROVE DriveFollows
  BY DEF DriveFollows
<1>1. drive = None \/ drive \in plugged
  BY SettledIsQuiet DEF OfferInv
<1>2. ASSUME usage = "single"
      PROVE  \/ /\ plugged = {} /\ drive = None /\ driveJson = "absent"
                /\ \A d \in Devices : mounts[d] = "none"
             \/ \E d \in plugged :
                  /\ plugged = {d} /\ drive = d /\ driveJson = d
                  /\ mounts = [e \in Devices |-> IF e = d THEN "live" ELSE "none"]
  BY <1>2, SettledPhase DEF SingleInv, Empty, Offered, Disk, NoMount, MountOf
<1> QED
  BY <1>1, <1>2 DEF DriveFollows

\* Where every change is given its time and nothing fails, the drive the engine
\* offers when all has settled is one that is in; and as long as there has been
\* one at a time, the slot, the mount, drive.json and the engine agree on it,
\* for any number of devices, plugs, scans and restarts of the engine.
THEOREM DriveIsFollowed == ApplianceSpec => []DriveFollows
<1>1. [ApplianceNext]_applianceVars => [Next]_vars
  BY ApplianceStepIsNext
<1>2. ApplianceInit => Init
  BY DEF ApplianceInit
<1>3. TypeOK /\ ApplianceTypeOK /\ [ApplianceNext]_applianceVars => ApplianceTypeOK'
  BY ApplianceTypeStep
<1>4. TypeOK /\ ApplianceTypeOK /\ OfferInv /\ [ApplianceNext]_applianceVars => OfferInv'
  BY OfferStep
<1>5. TypeOK /\ ApplianceTypeOK /\ OfferInv /\ SingleInv /\ [ApplianceNext]_applianceVars
      => SingleInv'
  BY PhaseStep
<1>6. ApplianceTypeOK /\ OfferInv /\ SingleInv => DriveFollows
  BY AgreedWhenSettled DEF ApplianceTypeOK
<1> QED
  BY <1>1, <1>2, <1>3, <1>4, <1>5, <1>6, ApplianceTypeInit, DriveInit, TypeInit, TypeStep, PTL
     DEF ApplianceSpec
===============================================================================
