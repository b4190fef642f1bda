----------------------------- MODULE MountHelper -----------------------------
(***************************************************************************)
(* The mount helper (mount/mount_manager.py with device_detector.py and    *)
(* notify_engine.py), the token file it shares with the engine             *)
(* (api/dependencies.py), and the udev rules and systemd units that start  *)
(* it.  Every arrival and every removal of a device is a process of its    *)
(* own: the processes share /proc/mounts, drive.json and the token, hold   *)
(* no lock, and tell the engine by one HTTP request that is not repeated.  *)
(*                                                                         *)
(* helper["mount"][d] and helper["unmount"][d] are where these processes   *)
(* are.  The code is cut where it reads or changes what the others share.  *)
(* A device stands for one partition, and for its own mount path.  The     *)
(* module holds the helpers and the devices; `Appliance` adds the engine.  *)
(***************************************************************************)
EXTENDS Naturals

CONSTANTS
  Devices,    \* the partitions that can be plugged in
  MaxPlugs    \* bound: how often a device is plugged in

ASSUME PlugAssumption == MaxPlugs \in Nat
ASSUME DeviceAssumption == Devices \cap {"absent", "empty", "garbled"} = {}

VARIABLES
  plugged,     \* the devices that are in
  arrivals,    \* devices whose service systemd has still to start
  departures,  \* devices whose removal udev has still to handle
  plugs,       \* how often a device has been plugged in
  mounts,      \* mount path of each device: "dead" when the device has gone
  driveJson,   \* what drive.json says
  writers,     \* mounters that have the present drive.json open for writing
  helper,      \* where the processes are
  target,      \* mount_path of each unmounter, as the device it belongs to
  token,       \* internal.token: "empty" between its creation and the write
  listening,   \* the engine accepts connections
  inbox,       \* notifications on their way to the engine: how many of each
  usage        \* history: how gently the devices have been handled so far

busVars   == <<plugged, arrivals, departures, plugs>>
diskVars  == <<mounts, driveJson, writers>>
procVars  == <<helper, target>>
linkVars  == <<token, listening, inbox>>
mountVars == <<busVars, diskVars, procVars, linkVars, usage>>

Job == {"mount", "unmount"}
Label == {"none", "inspect", "mount", "truncate", "write", "look", "read",
          "umount", "exists", "unlink", "notify"}
Notice == [event : {"mounted", "removed"}, device : Devices]

MountTypeOK ==
  /\ plugged \subseteq Devices
  /\ arrivals \subseteq plugged
  /\ departures \subseteq Devices
  /\ plugs \in 0..MaxPlugs
  /\ mounts \in [Devices -> {"none", "live", "dead"}]
  /\ driveJson \in Devices \cup {"absent", "empty", "garbled"}
  /\ writers \subseteq Devices
  /\ helper \in [Job -> [Devices -> Label]]
  /\ target \in [Devices -> Devices]
  /\ token \in {"absent", "empty", "written"}
  /\ listening \in BOOLEAN
  /\ inbox \in [Notice -> Nat]
  /\ usage \in {"single", "calm", "rough"}

\* At boot: /run is empty and the engine is not up yet.
MountInit ==
  /\ plugged = {} /\ arrivals = {} /\ departures = {} /\ plugs = 0
  /\ mounts = [d \in Devices |-> "none"]
  /\ driveJson = "absent"
  /\ writers = {}
  /\ helper = [j \in Job |-> [d \in Devices |-> "none"]]
  /\ target = [d \in Devices |-> d]
  /\ token = "absent"
  /\ listening = FALSE
  /\ inbox = [n \in Notice |-> 0]
  /\ usage = "single"

HelperAt(job, d, label) == helper[job][d] = label
HelperGoto(job, d, label) == helper' = [helper EXCEPT ![job][d] = label]

NothingInFlight == \A n \in Notice : inbox[n] = 0

\* Every helper has ended, and nothing is on its way to start one or to the engine.
Settled ==
  /\ arrivals = {} /\ departures = {}
  /\ \A j \in Job, d \in Devices : HelperAt(j, d, "none")
  /\ NothingInFlight

-------------------------------------------------------------------------------
(***************************************************************************)
(* The devices.  `usage` is "single" as long as there has been one device  *)
(* at a time, each plugged in and pulled out when all had settled, and     *)
(* nothing has failed; "calm" when there has been more than one device;    *)
(* "rough" once anything else has happened.                                *)
(***************************************************************************)

Plug(d) ==
  /\ d \notin plugged
  /\ plugs < MaxPlugs
  /\ plugs' = plugs + 1
  /\ plugged' = plugged \cup {d}
  /\ arrivals' = arrivals \cup {d}
  /\ usage' = CASE ~Settled -> "rough"
                [] Settled /\ plugged # {} /\ usage = "single" -> "calm"
                [] OTHER -> usage
  /\ UNCHANGED <<departures, diskVars, procVars, linkVars>>

\* The mount stays when its device goes.  A service that has not been started
\* is not started any more; a second removal comes when udev has taken the first.
Unplug(d) ==
  /\ d \in plugged
  /\ d \notin departures
  /\ plugged' = plugged \ {d}
  /\ arrivals' = arrivals \ {d}
  /\ departures' = departures \cup {d}
  /\ mounts' = [mounts EXCEPT ![d] = IF @ = "live" THEN "dead" ELSE @]
  /\ usage' = IF Settled THEN usage ELSE "rough"
  /\ UNCHANGED <<plugs, driveJson, writers, procVars, linkVars>>

\* 99-portable-av.rules, ACTION=="remove": RUN+= starts the helper, and udev
\* handles the next event of the device when it has ended.
StartUnmounter(d) ==
  /\ d \in departures
  /\ HelperAt("unmount", d, "none")
  /\ departures' = departures \ {d}
  /\ HelperGoto("unmount", d, "look")
  /\ UNCHANGED <<plugged, arrivals, plugs, diskVars, target, linkVars, usage>>

\* ACTION=="add": the device wants portable-av-mount@.service.
StartMounter(d) ==
  /\ d \in arrivals \ departures
  /\ \A j \in Job : HelperAt(j, d, "none")
  /\ arrivals' = arrivals \ {d}
  /\ HelperGoto("mount", d, "inspect")
  /\ UNCHANGED <<plugged, departures, plugs, diskVars, target, linkVars, usage>>

\* BindsTo=dev-%i.device: systemd stops the service of a device that has gone,
\* after udev has handled the removal.
StopMounter(d) ==
  /\ ~HelperAt("mount", d, "none")
  /\ d \notin departures
  /\ HelperAt("unmount", d, "none")
  /\ d \notin plugged \/ d \in arrivals
  /\ HelperGoto("mount", d, "none")
  /\ writers' = writers \ {d}
  /\ usage' = "rough"
  /\ UNCHANGED <<busVars, mounts, driveJson, target, linkVars>>

-------------------------------------------------------------------------------
(***************************************************************************)
(* main --device d: resolve, inspect, mount_readonly, _write_drive_state.  *)
(***************************************************************************)

\* lsblk and blkid find the partition.
InspectDevice(d) ==
  /\ HelperAt("mount", d, "inspect")
  /\ d \in plugged
  /\ HelperGoto("mount", d, "mount")
  /\ UNCHANGED <<busVars, diskVars, target, linkVars, usage>>

\* DeviceDetectorError (the partition is not there), MountManagerError (its
\* filesystem is not supported, mount fails): exit 1, nobody is told.
MounterFails(d) ==
  /\ \/ HelperAt("mount", d, "inspect")
     \/ HelperAt("mount", d, "mount") /\ mounts[d] = "none"
  /\ HelperGoto("mount", d, "none")
  /\ usage' = "rough"
  /\ UNCHANGED <<busVars, diskVars, target, linkVars>>

\* _is_mounted: a path that is in /proc/mounts is not mounted again, whether
\* the device of that mount is there or not.
MountDevice(d) ==
  /\ HelperAt("mount", d, "mount")
  /\ IF mounts[d] = "none"
       THEN d \in plugged /\ mounts' = [mounts EXCEPT ![d] = "live"]
       ELSE UNCHANGED mounts
  /\ HelperGoto("mount", d, "truncate")
  /\ UNCHANGED <<busVars, driveJson, writers, target, linkVars, usage>>

\* write_text, its open: drive.json is created, or emptied in place.
TruncateState(d) ==
  /\ HelperAt("mount", d, "truncate")
  /\ driveJson' = "empty"
  /\ writers' = writers \cup {d}
  /\ HelperGoto("mount", d, "write")
  /\ UNCHANGED <<busVars, mounts, target, linkVars, usage>>

\* write_text, its write: lost if the file has been unlinked since, and laid
\* over the text of another mounter if that one has written since.
WriteState(d) ==
  /\ HelperAt("mount", d, "write")
  /\ CASE d \notin writers -> UNCHANGED driveJson
       [] d \in writers /\ driveJson = "empty" -> driveJson' = d
       [] OTHER -> driveJson' \in {d, "garbled"}
  /\ writers' = writers \ {d}
  /\ HelperGoto("mount", d, "notify")
  /\ UNCHANGED <<busVars, mounts, target, linkVars, usage>>

-------------------------------------------------------------------------------
(***************************************************************************)
(* main --unmount --device d: unmount.                                     *)
(***************************************************************************)

\* _read_drive_state, is_file().
LookForState(d) ==
  /\ HelperAt("unmount", d, "look")
  /\ HelperGoto("unmount", d, IF driveJson = "absent" THEN "inspect" ELSE "read")
  /\ UNCHANGED <<busVars, diskVars, target, linkVars, usage>>

\* _read_drive_state, read_text() and loads(): whatever device drive.json
\* names is the one to unmount.
ReadState(d) ==
  /\ HelperAt("unmount", d, "read")
  /\ driveJson \in Devices
  /\ target' = [target EXCEPT ![d] = driveJson]
  /\ HelperGoto("unmount", d, "umount")
  /\ UNCHANGED <<busVars, diskVars, linkVars, usage>>

\* The file has gone since (FileNotFoundError) or is not JSON (JSONDecodeError).
\* main catches neither.
ReadStateFails(d) ==
  /\ HelperAt("unmount", d, "read")
  /\ driveJson \notin Devices
  /\ HelperGoto("unmount", d, "none")
  /\ usage' = "rough"
  /\ UNCHANGED <<busVars, diskVars, target, linkVars>>

\* Without drive.json the device itself is asked, which has just been removed:
\* unless it is back already, DeviceDetectorError ends main before the engine is told.
InspectRemoved(d) ==
  /\ HelperAt("unmount", d, "inspect")
  /\ IF d \in plugged
       THEN HelperGoto("unmount", d, "umount") /\ UNCHANGED usage
       ELSE HelperGoto("unmount", d, "none") /\ usage' = "rough"
  /\ UNCHANGED <<busVars, diskVars, target, linkVars>>

\* umount with check=False: the failure of a busy mount goes unnoticed.
Umount(d, busy) ==
  /\ HelperAt("unmount", d, "umount")
  /\ IF busy /\ mounts[target[d]] # "none"
       THEN usage' = "rough" /\ UNCHANGED mounts
       ELSE mounts' = [mounts EXCEPT ![target[d]] = "none"] /\ UNCHANGED usage
  /\ target' = [target EXCEPT ![d] = d]
  /\ HelperGoto("unmount", d, "exists")
  /\ UNCHANGED <<busVars, driveJson, writers, linkVars>>

CheckStateExists(d) ==
  /\ HelperAt("unmount", d, "exists")
  /\ HelperGoto("unmount", d, IF driveJson = "absent" THEN "notify" ELSE "unlink")
  /\ UNCHANGED <<busVars, diskVars, target, linkVars, usage>>

\* Mutant: drive.json is left behind.
UnlinkStateNot(d) ==
  /\ HelperAt("unmount", d, "unlink")
  /\ HelperGoto("unmount", d, "notify")
  /\ UNCHANGED <<busVars, diskVars, target, linkVars, usage>>

\* Another helper may have unlinked it meanwhile: FileNotFoundError, not caught.
UnlinkState(d) ==
  /\ HelperAt("unmount", d, "unlink")
  /\ driveJson' = "absent"
  /\ writers' = {}
  /\ IF driveJson = "absent"
       THEN HelperGoto("unmount", d, "none") /\ usage' = "rough"
       ELSE HelperGoto("unmount", d, "notify") /\ UNCHANGED usage
  /\ UNCHANGED <<busVars, mounts, target, linkVars>>

-------------------------------------------------------------------------------
(***************************************************************************)
(* Telling the engine.                                                     *)
(***************************************************************************)

NoticeOf(job, d) ==
  [event |-> IF job = "mount" THEN "mounted" ELSE "removed", device |-> d]

\* _internal_token and notify_drive_event.  Without a token file main gives
\* up, an empty token is refused (401), an engine that is not up refuses the
\* connection: the notification is lost.  Otherwise the helper ends with the
\* answer, or after five seconds without one, and the request is handled when
\* the event loop comes to it.
Notify(job, d) ==
  /\ HelperAt(job, d, "notify")
  /\ IF token = "written" /\ listening
       THEN inbox' = [inbox EXCEPT ![NoticeOf(job, d)] = @ + 1] /\ UNCHANGED usage
       ELSE usage' = "rough" /\ UNCHANGED inbox
  /\ HelperGoto(job, d, "none")
  /\ UNCHANGED <<busVars, diskVars, target, token, listening>>

-------------------------------------------------------------------------------
(***************************************************************************)
(* The start of the engine: _ensure_internal_token, and then uvicorn.  A   *)
(* token that is there is used again; an empty file is written anew.       *)
(***************************************************************************)

CreateToken ==
  /\ ~listening
  /\ token = "absent"
  /\ token' = "empty"
  /\ UNCHANGED <<busVars, diskVars, procVars, listening, inbox, usage>>

WriteToken ==
  /\ ~listening
  /\ token = "empty"
  /\ token' = "written"
  /\ UNCHANGED <<busVars, diskVars, procVars, listening, inbox, usage>>

Listen ==
  /\ ~listening
  /\ token = "written"
  /\ listening' = TRUE
  /\ UNCHANGED <<busVars, diskVars, procVars, token, inbox, usage>>

-------------------------------------------------------------------------------
MounterStep(d) ==
  \/ InspectDevice(d) \/ MounterFails(d) \/ MountDevice(d)
  \/ TruncateState(d) \/ WriteState(d) \/ Notify("mount", d)

\* busyPaths: the mounts in which somebody has a file or a directory open.
UnmounterStep(d, busyPaths) ==
  \/ LookForState(d) \/ ReadState(d) \/ ReadStateFails(d) \/ InspectRemoved(d)
  \/ Umount(d, target[d] \in busyPaths)
  \/ CheckStateExists(d) \/ UnlinkState(d) \/ Notify("unmount", d)

SystemdStep(d) == StartUnmounter(d) \/ StartMounter(d) \/ StopMounter(d)

EngineStart == CreateToken \/ WriteToken \/ Listen
==============================================================================
