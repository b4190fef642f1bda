---------------------------- MODULE ScanController ----------------------------
(***************************************************************************)
(* The scan engine: class ScanController of engine/scan_controller.py with *)
(* the adapters it awaits, the history it writes, the reports it leaves    *)
(* on disk and the requests that reach it from the HTTP API.               *)
(*                                                                         *)
(* One asyncio loop runs everything.  A request handler never suspends     *)
(* between its first and its last change (its awaits are on locks that are *)
(* free and on EventBus.publish, which does not wait), so a handler is one *)
(* action, taken only when no scan coroutine is between two suspensions    *)
(* (LoopFree).  The coroutine _run_scan suspends only before its first     *)
(* step, while a subprocess runs, and at a threat prompt (Suspended); from *)
(* one suspension to the next it is cut into the steps that change the     *)
(* database, the disk or what a reader thread can see (Busy), because a    *)
(* crash or an exception may fall between any two of them.                 *)
(*                                                                         *)
(* Data is abstracted: a file is its size class, a ClamAV answer is        *)
(* infected or not, a YARA answer is a number of matches, byte totals and  *)
(* file names are left out, and reports keep their figures only.           *)
(***************************************************************************)
EXTENDS HistoryRepository

CONSTANTS
  None,              \* Python's None
  Drives,            \* the drives that can be mounted
  FileSizes,         \* size classes of the files on a drive
  MaxFileSize,       \* config.scan.max_file_size_bytes
  HashMaxFileSize,   \* config.scan.hash_max_file_size_bytes
  YaraMaxFileSize,   \* config.scan.yara_max_file_size_bytes
  YaraEnabled,       \* config.scan.yara_enabled
  ProgressEvery,     \* the history is updated every so many files (10)
  MaxFiles,          \* bound: candidates the enumerator yields in one scan
  MaxHits,           \* bound: matches in one YARA answer
  MaxFaults,         \* bound: operations that raise, over a whole behaviour
  MaxRestarts        \* bound: crashes and interrupts of the process

ASSUME SizeAssumption ==
  /\ FileSizes \subseteq Nat
  /\ {MaxFileSize, HashMaxFileSize, YaraMaxFileSize} \subseteq Nat
  /\ YaraEnabled \in BOOLEAN
ASSUME ProgressAssumption == ProgressEvery \in Nat \ {0}
ASSUME BoundAssumption == {MaxFiles, MaxHits, MaxFaults, MaxRestarts} \subseteq Nat

VARIABLES
  state,            \* _state
  activeScan,       \* _active_scan_id
  drive,            \* _drive
  cancelRequested,  \* _cancel_requested
  threatAction,     \* _threat_action
  actionEvent,      \* _threat_action_event.is_set()
  scanTask,         \* _scan_task: the scan whose task was created last
  progress,         \* _progress, as GET /scan/progress returns it
  latest,           \* the last event published: its type and scan
  pc,               \* where each scan's coroutine is
  loc,              \* the locals of each scan's coroutine
  reports,          \* reports/<scan_id>/ on disk
  stopping,         \* SIGINT received: the loop is cancelling its tasks
  faults,           \* operations that have raised so far
  restarts          \* crashes and interrupts so far

fields  == <<state, activeScan, drive, cancelRequested, threatAction,
             actionEvent, scanTask>>
history == <<scans, detections, events>>
env     == <<stopping, faults, restarts>>
vars    == <<fields, progress, latest, pc, loc, reports, history, env>>

ScanState == {"idle", "mounted", "menu", "scanning", "threat_prompt", "complete"}
ScanStage == {"enumerating", "hashing", "clamav", "yara", "reporting", "complete"}
ThreatAction == {"pending", "continue", "stop", "details"}

PublishedTypes ==
  {"scan_started", "scan_cancelled", "scan_progress", "stage_changed",
   "threat_detected", "scan_error", "scan_completed", "drive_mounted",
   "drive_removed"}

ASSUME NoneAssumption ==
  None \notin ScanIds \cup Drives \cup ScanStage \cup ThreatAction \cup PublishedTypes

Suspended == {"created", "clamWait", "clamKill", "promptWait", "yaraWait", "yaraKill"}
Busy == {"next", "hash", "detect", "alert", "yara", "hits", "count", "report",
         "html", "skips", "except", "finish", "settle"}
PCs == Suspended \cup Busy \cup {"none", "done"}

Live(i) == pc[i] \in Suspended \cup Busy
LoopFree == \A i \in ScanIds : pc[i] \notin Busy

(***************************************************************************)
(* The locals of _run_scan.  `files`, `threats`, `skipped` and `status`    *)
(* carry the source's names; `yielded` counts the candidates taken from    *)
(* the enumerator; `size` and `by` are the current candidate's size and    *)
(* the engine whose detection is being handled; `hits` are the matches of  *)
(* the current answer still to handle; `report` says both paths are set.   *)
(***************************************************************************)
Locals == [files : Nat, threats : Nat, skipped : Nat, status : FinalStatuses,
           yielded : Nat, size : FileSizes \cup {None}, hits : Nat,
           by : {"clamav", "yara", None}, report : BOOLEAN]

FreshLocals == [files |-> 0, threats |-> 0, skipped |-> 0,
                status |-> "completed", yielded |-> 0, size |-> None,
                hits |-> 0, by |-> None, report |-> FALSE]

Figures == [status : FinalStatuses, files : Nat, threats : Nat, found : Nat]
ASSUME FiguresAssumption == None \notin Figures
ReportDir == [txt : Figures \cup {None}, html : Figures \cup {None}]
EmptyDir == [txt |-> None, html |-> None]

ScanProgress == [scan : ScanIds \cup {None}, state : ScanState,
                 stage : ScanStage \cup {None}, files : Nat, threats : Nat]
EventEnvelope == [type : PublishedTypes \cup {None}, scan : ScanIds \cup {None}]

ProgressAt(i, st, stg, n, t) ==
  [scan |-> i, state |-> st, stage |-> stg, files |-> n, threats |-> t]

NoProgress == ProgressAt(None, "idle", None, 0, 0)
NoEvent == [type |-> None, scan |-> None]

FieldsTypeOK ==
  /\ state \in ScanState
  /\ activeScan \in ScanIds \cup {None}
  /\ drive \in Drives \cup {None}
  /\ cancelRequested \in BOOLEAN
  /\ threatAction \in ThreatAction \cup {None}
  /\ actionEvent \in BOOLEAN
  /\ scanTask \in ScanIds \cup {None}

ViewTypeOK ==
  /\ progress \in ScanProgress
  /\ latest \in EventEnvelope
  /\ reports \in [ScanIds -> ReportDir]

TaskTypeOK ==
  /\ pc \in [ScanIds -> PCs]
  /\ loc \in [ScanIds -> Locals]

EnvTypeOK ==
  /\ stopping \in BOOLEAN
  /\ faults \in Nat
  /\ restarts \in Nat

\* The types of all variables: the history, the fields, what readers see, the
\* coroutines and the environment.
TypeOK == HistoryTypeOK /\ FieldsTypeOK /\ ViewTypeOK /\ TaskTypeOK /\ EnvTypeOK

\* What __init__ leaves behind, at the start of the process and of every restart.
FreshController ==
  /\ state' = "idle"
  /\ activeScan' = None
  /\ drive' = None
  /\ cancelRequested' = FALSE
  /\ threatAction' = None
  /\ actionEvent' = FALSE
  /\ scanTask' = None
  /\ progress' = NoProgress
  /\ latest' = NoEvent

Init ==
  /\ EmptyHistory
  /\ state = "idle"
  /\ activeScan = None
  /\ drive = None
  /\ cancelRequested = FALSE
  /\ threatAction = None
  /\ actionEvent = FALSE
  /\ scanTask = None
  /\ progress = NoProgress
  /\ latest = NoEvent
  /\ pc = [i \in ScanIds |-> "none"]
  /\ loc = [i \in ScanIds |-> FreshLocals]
  /\ reports = [i \in ScanIds |-> EmptyDir]
  /\ stopping = FALSE
  /\ faults = 0
  /\ restarts = 0

-------------------------------------------------------------------------------
(***************************************************************************)
(* Helpers shared by the handlers and the coroutine.                       *)
(***************************************************************************)

Goto(i, label) == pc' = [pc EXCEPT ![i] = label]

SetLocals(i, locals) == loc' = [loc EXCEPT ![i] = locals]

publish(type, i) == latest' = [type |-> type, scan |-> i]

\* Mutant: the stage moves and the state shown to clients does not.
set_progress_stage(stage) ==
  /\ progress' = [progress EXCEPT !.stage = stage]
  /\ publish("stage_changed", progress.scan)

\* Mutant: figures that are not passed are taken for zero.
set_progress_resetting(stage) ==
  /\ progress' = ProgressAt(progress.scan, "scanning", stage, 0, 0)
  /\ publish(IF progress.stage = stage THEN "scan_progress" ELSE "stage_changed",
             progress.scan)

\* _set_progress: the stage event follows the progress event when the stage moves.
set_progress(stage) ==
  /\ progress' = [progress EXCEPT !.state = "scanning", !.stage = stage]
  /\ publish(IF progress.stage = stage THEN "scan_progress" ELSE "stage_changed",
             progress.scan)

\* Mutant: the file that is about to be examined is counted.
set_figures_early(stage, n, t) ==
  /\ progress' = [progress EXCEPT !.state = "scanning", !.stage = stage,
                                  !.files = n + 1, !.threats = t]
  /\ publish(IF progress.stage = stage THEN "scan_progress" ELSE "stage_changed",
             progress.scan)

\* The same, when the caller passes the figures as well.
set_figures(stage, n, t) ==
  /\ progress' = [progress EXCEPT !.state = "scanning", !.stage = stage,
                                  !.files = n, !.threats = t]
  /\ publish(IF progress.stage = stage THEN "scan_progress" ELSE "stage_changed",
             progress.scan)

\* An operation raises: the bound on how often is in the guard.
Fault == faults < MaxFaults /\ faults' = faults + 1

\* Mutant: the guard asks the state, not the task.
TaskRunningByState == scanTask # None /\ state = "scanning"

\* `self._scan_task and not self._scan_task.done()`
TaskRunning == scanTask # None /\ pc[scanTask] \in Suspended \cup Busy

-------------------------------------------------------------------------------
(***************************************************************************)
(* The request handlers.  A request that is refused changes nothing, so a  *)
(* refusal is a stuttering step; the guards are the refusals.              *)
(***************************************************************************)

Serving == LoopFree /\ ~stopping

\* set_drive ignores the event while a scan is running (and only then).
DriveFrozen == state = "scanning"

set_drive(d) ==
  IF DriveFrozen
    THEN UNCHANGED <<drive, state>>
    ELSE /\ drive' = d
         /\ state' = IF d = None THEN "idle" ELSE "mounted"

\* POST /internal/drive: the event is published whatever set_drive did with it.
internal_drive_event(d) ==
  /\ Serving
  /\ set_drive(d)
  /\ publish(IF d = None THEN "drive_removed" ELSE "drive_mounted", None)
  /\ UNCHANGED <<activeScan, cancelRequested, threatAction, actionEvent,
                 scanTask, progress, pc, loc, reports, history, env>>

\* A scan_root in the request stands in for both the state and the drive.
StartAllowed(rooted) ==
  /\ ~TaskRunning
  /\ \/ rooted
     \/ state \in {"mounted", "menu", "complete"} /\ drive # None

\* The fields are set before the first operation that can raise.
AdmitScan(i) ==
  /\ activeScan' = i
  /\ state' = "scanning"
  /\ cancelRequested' = FALSE
  /\ threatAction' = None
  /\ actionEvent' = FALSE
  /\ progress' = ProgressAt(i, "scanning", "enumerating", 0, 0)

start_scan(i, rooted) ==
  /\ Serving
  /\ pc[i] = "none"
  /\ StartAllowed(rooted)
  /\ AdmitScan(i)
  /\ create_scan(i)
  /\ insert_event(i, "scan_started")
  /\ scanTask' = i
  /\ Goto(i, "created")
  /\ publish("scan_started", i)
  /\ UNCHANGED <<drive, detections, loc, reports, env>>

\* create_scan or insert_event raises: the request fails and no task is created.
start_scan_raises(i, rooted) ==
  /\ Serving
  /\ pc[i] = "none"
  /\ StartAllowed(rooted)
  /\ AdmitScan(i)
  /\ Fault
  /\ create_scan(i) \/ UNCHANGED scans
  /\ Goto(i, "done")
  /\ UNCHANGED <<drive, scanTask, latest, detections, events, loc, reports,
                 stopping, restarts>>

cancel_scan ==
  /\ Serving
  /\ cancelRequested' = TRUE
  /\ IF state = "threat_prompt"
       THEN threatAction' = "stop" /\ actionEvent' = TRUE
       ELSE UNCHANGED <<threatAction, actionEvent>>
  /\ IF activeScan = None
       THEN UNCHANGED latest
       ELSE publish("scan_cancelled", activeScan)
  /\ UNCHANGED <<state, activeScan, drive, scanTask, progress, pc, loc, reports,
                 history, env>>

\* Mutant: "pending" takes an answer back.
handle_threat_action_pending(action) ==
  /\ Serving
  /\ state = "threat_prompt"
  /\ threatAction' = action
  /\ actionEvent' = (action # "pending")
  /\ UNCHANGED <<state, activeScan, drive, cancelRequested, scanTask, progress,
                 latest, pc, loc, reports, history, env>>

handle_threat_action(action) ==
  /\ Serving
  /\ state = "threat_prompt"
  /\ threatAction' = action
  /\ actionEvent' = TRUE
  /\ UNCHANGED <<state, activeScan, drive, cancelRequested, scanTask, progress,
                 latest, pc, loc, reports, history, env>>

-------------------------------------------------------------------------------
(***************************************************************************)
(* The coroutine _run_scan, and _record_detection and _await_threat_action *)
(* which it calls.  At(i, label) holds when i's coroutine is the one to    *)
(* run next: a suspended coroutine resumes only when no other one is busy. *)
(***************************************************************************)

At(i, label) ==
  /\ pc[i] = label
  /\ label \in Suspended => LoopFree

\* break or end of the loop: the stage moves and the reports come next.
LeaveLoop(i) ==
  /\ set_progress("reporting")
  /\ Goto(i, "report")

\* Mutant: the flag is reset by the coroutine instead of by start_scan.
BeginResettingFlag(i) ==
  /\ At(i, "created") /\ ~stopping
  /\ cancelRequested' = FALSE
  /\ set_progress("enumerating")
  /\ Goto(i, "next")
  /\ UNCHANGED <<state, activeScan, drive, threatAction, actionEvent, scanTask,
                 loc, reports, history, env>>

Begin(i) ==
  /\ At(i, "created") /\ ~stopping
  /\ set_progress("enumerating")
  /\ Goto(i, "next")
  /\ UNCHANGED <<fields, loc, reports, history, env>>

\* The enumerator is exhausted.  A directory it cannot read is skipped
\* silently, so this may come at any time.
Exhausted(i) ==
  /\ At(i, "next")
  /\ LeaveLoop(i)
  /\ UNCHANGED <<fields, loc, reports, history, env>>

\* Cancellation is noticed only here, when one more candidate has been yielded.
NextCancelled(i) ==
  /\ At(i, "next")
  /\ loc[i].yielded < MaxFiles
  /\ cancelRequested
  /\ SetLocals(i, [loc[i] EXCEPT !.yielded = loc[i].yielded + 1,
                                 !.status = "cancelled"])
  /\ LeaveLoop(i)
  /\ UNCHANGED <<fields, reports, history, env>>

TooLarge(size) == size > MaxFileSize

NextSkipped(i, size) ==
  /\ At(i, "next")
  /\ loc[i].yielded < MaxFiles
  /\ ~cancelRequested
  /\ TooLarge(size)
  /\ SetLocals(i, [loc[i] EXCEPT !.yielded = loc[i].yielded + 1,
                                 !.skipped = loc[i].skipped + 1])
  /\ UNCHANGED <<fields, progress, latest, pc, reports, history, env>>

\* Without a ClamAV executable the adapter answers clean at once, and does not suspend.
NextFile(i, size, installed) ==
  /\ At(i, "next")
  /\ loc[i].yielded < MaxFiles
  /\ ~cancelRequested
  /\ ~TooLarge(size)
  /\ SetLocals(i, [loc[i] EXCEPT !.yielded = loc[i].yielded + 1,
                                 !.size = size,
                                 !.hits = 0, !.by = "clamav"])
  /\ set_figures("clamav", loc[i].files, loc[i].threats)
  /\ Goto(i, IF installed THEN "clamWait" ELSE "hash")
  /\ UNCHANGED <<fields, reports, history, env>>

\* The subprocess ended in time.  Any exit code without a signature counts as clean.
ClamAnswer(i, infected) ==
  /\ At(i, "clamWait") /\ ~stopping
  /\ SetLocals(i, [loc[i] EXCEPT !.hits = IF infected THEN 1 ELSE 0])
  /\ Goto(i, "hash")
  /\ UNCHANGED <<fields, progress, latest, reports, history, env>>

\* per_file_timeout_sec has passed: the subprocess is killed and waited for.
ClamTimeout(i) ==
  /\ At(i, "clamWait") /\ ~stopping
  /\ Goto(i, "clamKill")
  /\ UNCHANGED <<fields, progress, latest, loc, reports, history, env>>

\* timed_out: the file is skipped, with an event in the history.
SkipTimedOut(i) ==
  /\ At(i, "clamKill") /\ ~stopping
  /\ insert_event(i, "file_skipped")
  /\ Goto(i, "next")
  /\ UNCHANGED <<fields, progress, latest, loc, reports, scans, detections, env>>

\* The hash is recorded with detections only; a file that cannot be read has none.
Hash(i) ==
  /\ At(i, "hash")
  /\ IF loc[i].size <= HashMaxFileSize
       THEN set_progress("hashing")
       ELSE UNCHANGED <<progress, latest>>
  /\ IF loc[i].hits > 0
       THEN /\ SetLocals(i, [loc[i] EXCEPT !.threats = loc[i].threats + 1, !.hits = 0])
            /\ Goto(i, "detect")
       ELSE Goto(i, "yara") /\ UNCHANGED loc
  /\ UNCHANGED <<fields, reports, history, env>>

\* _record_detection, its first statement.
Detect(i) ==
  /\ At(i, "detect")
  /\ insert_detection(i)
  /\ Goto(i, "alert")
  /\ UNCHANGED <<fields, progress, latest, loc, reports, scans, events, env>>

\* Mutant: the event is not cleared before the wait.
PromptUncleared ==
  /\ state' = "threat_prompt"
  /\ progress' = [progress EXCEPT !.state = "threat_prompt"]
  /\ UNCHANGED actionEvent

\* One turn of the loop in _await_threat_action, up to the wait.
Prompt ==
  /\ state' = "threat_prompt"
  /\ progress' = [progress EXCEPT !.state = "threat_prompt"]
  /\ actionEvent' = FALSE

\* Mutant: the clients are told, the history is not.
AlertUnrecorded(i) ==
  /\ At(i, "alert")
  /\ publish("threat_detected", i)
  /\ Prompt
  /\ Goto(i, "promptWait")
  /\ UNCHANGED <<activeScan, drive, cancelRequested, threatAction, scanTask,
                 loc, reports, history, env>>

\* The rest of _record_detection, and the prompt that follows it.
Alert(i) ==
  /\ At(i, "alert")
  /\ insert_event(i, "threat_detected")
  /\ publish("threat_detected", i)
  /\ Prompt
  /\ Goto(i, "promptWait")
  /\ UNCHANGED <<activeScan, drive, cancelRequested, threatAction, scanTask,
                 loc, reports, scans, detections, env>>

Answer == IF threatAction = None THEN "stop" ELSE threatAction

Answered(i) == At(i, "promptWait") /\ actionEvent /\ ~stopping

\* Mutant: the state stays at the prompt.
ResumeContinueStateless(i) ==
  /\ Answered(i)
  /\ Answer = "continue"
  /\ Goto(i, IF loc[i].by = "clamav" THEN "yara" ELSE "hits")
  /\ UNCHANGED <<fields, progress, latest, loc, reports, history, env>>

ResumeContinue(i) ==
  /\ Answered(i)
  /\ Answer = "continue"
  /\ state' = "scanning"
  /\ Goto(i, IF loc[i].by = "clamav" THEN "yara" ELSE "hits")
  /\ UNCHANGED <<activeScan, drive, cancelRequested, threatAction, actionEvent,
                 scanTask, progress, latest, loc, reports, history, env>>

\* threat_action is not reset: the loop prompts again.
ResumeDetails(i) ==
  /\ Answered(i)
  /\ Answer = "details"
  /\ Prompt
  /\ UNCHANGED <<activeScan, drive, cancelRequested, threatAction, scanTask,
                 latest, pc, loc, reports, history, env>>

\* Anything else stops the scan, whose status stays "completed".
ResumeStop(i) ==
  /\ Answered(i)
  /\ Answer \notin {"continue", "details"}
  /\ LeaveLoop(i)
  /\ UNCHANGED <<fields, loc, reports, history, env>>

UseYara(size) == YaraEnabled /\ size <= YaraMaxFileSize

\* Without rules or an executable the adapter returns no result, and does not suspend.
StartYara(i, installed) ==
  /\ At(i, "yara")
  /\ UseYara(loc[i].size)
  /\ set_progress("yara")
  /\ SetLocals(i, [loc[i] EXCEPT !.by = "yara"])
  /\ Goto(i, IF installed THEN "yaraWait" ELSE "hits")
  /\ UNCHANGED <<fields, reports, history, env>>

SkipYara(i) ==
  /\ At(i, "yara")
  /\ ~UseYara(loc[i].size)
  /\ Goto(i, "count")
  /\ UNCHANGED <<fields, progress, latest, loc, reports, history, env>>

YaraAnswer(i, matches) ==
  /\ At(i, "yaraWait") /\ ~stopping
  /\ SetLocals(i, [loc[i] EXCEPT !.hits = matches])
  /\ Goto(i, "hits")
  /\ UNCHANGED <<fields, progress, latest, reports, history, env>>

YaraTimeout(i) ==
  /\ At(i, "yaraWait") /\ ~stopping
  /\ Goto(i, "yaraKill")
  /\ UNCHANGED <<fields, progress, latest, loc, reports, history, env>>

\* Mutant: a YARA timeout skips the file, as a ClamAV timeout does.
YaraKilledSkipping(i) ==
  /\ At(i, "yaraKill") /\ ~stopping
  /\ Goto(i, "next")
  /\ UNCHANGED <<fields, progress, latest, loc, reports, history, env>>

\* A YARA timeout is one clean result: nothing is recorded about it.
YaraKilled(i) ==
  /\ At(i, "yaraKill") /\ ~stopping
  /\ Goto(i, "hits")
  /\ UNCHANGED <<fields, progress, latest, loc, reports, history, env>>

NextHit(i) ==
  /\ At(i, "hits")
  /\ IF loc[i].hits > 0
       THEN /\ SetLocals(i, [loc[i] EXCEPT !.threats = loc[i].threats + 1,
                                      !.hits = loc[i].hits - 1])
            /\ Goto(i, "detect")
       ELSE Goto(i, "count") /\ UNCHANGED loc
  /\ UNCHANGED <<fields, progress, latest, reports, history, env>>

\* The file is done; every ProgressEvery files the history row follows.
Count(i) ==
  /\ At(i, "count")
  /\ SetLocals(i, [loc[i] EXCEPT !.files = loc[i].files + 1, !.size = None, !.by = None])
  /\ IF (loc[i].files + 1) % ProgressEvery = 0
       THEN update_scan_progress(i, loc[i].files + 1, loc[i].threats)
       ELSE UNCHANGED scans
  /\ Goto(i, "next")
  /\ UNCHANGED <<fields, progress, latest, reports, detections, events, env>>

\* Mutant: the figures are those of the row, which is behind.
ReportFiguresFromRow(i) ==
  [status |-> loc[i].status, files |-> scans[i].files,
   threats |-> scans[i].threats, found |-> detections[i]]

\* What write_reports renders: the local figures over the row, and the
\* detections the history holds.
ReportFigures(i) ==
  [status |-> loc[i].status, files |-> loc[i].files,
   threats |-> loc[i].threats, found |-> detections[i]]

WriteTxt(i) ==
  /\ At(i, "report")
  /\ reports' = [reports EXCEPT ![i].txt = ReportFigures(i)]
  /\ Goto(i, "html")
  /\ UNCHANGED <<fields, progress, latest, loc, history, env>>

WriteHtml(i) ==
  /\ At(i, "html")
  /\ reports' = [reports EXCEPT ![i].html = ReportFigures(i)]
  /\ SetLocals(i, [loc[i] EXCEPT !.report = TRUE])
  /\ Goto(i, IF loc[i].skipped > 0 THEN "skips" ELSE "finish")
  /\ UNCHANGED <<fields, progress, latest, history, env>>

LogSkipped(i) ==
  /\ At(i, "skips")
  /\ insert_event(i, "files_skipped")
  /\ Goto(i, "finish")
  /\ UNCHANGED <<fields, progress, latest, loc, reports, scans, detections, env>>

\* Mutant: the error is logged, and the status left as it was.
ExceptForgiving(i) ==
  /\ At(i, "except")
  /\ publish("scan_error", i)
  /\ \/ insert_event(i, "scan_error") /\ UNCHANGED faults
     \/ Fault /\ UNCHANGED events
  /\ Goto(i, "finish")
  /\ UNCHANGED <<fields, progress, loc, reports, scans, detections, stopping,
                 restarts>>

\* Mutant: an exception of the handler itself gets past `finally`.
ExceptUncaught(i) ==
  /\ At(i, "except")
  /\ SetLocals(i, [loc[i] EXCEPT !.status = "failed"])
  /\ publish("scan_error", i)
  /\ \/ insert_event(i, "scan_error") /\ Goto(i, "finish") /\ UNCHANGED faults
     \/ Fault /\ Goto(i, "done") /\ UNCHANGED events
  /\ UNCHANGED <<fields, progress, reports, scans, detections, stopping,
                 restarts>>

\* except Exception: its insert_event may raise in turn, and `finally` still runs.
Except(i) ==
  /\ At(i, "except")
  /\ SetLocals(i, [loc[i] EXCEPT !.status = "failed"])
  /\ publish("scan_error", i)
  /\ \/ insert_event(i, "scan_error") /\ UNCHANGED faults
     \/ Fault /\ UNCHANGED events
  /\ Goto(i, "finish")
  /\ UNCHANGED <<fields, progress, reports, scans, detections, stopping,
                 restarts>>

\* Mutant: a status that ScanStatus does not have.
ScanFinishInterrupted(i) ==
  [status |-> IF stopping THEN "interrupted" ELSE loc[i].status,
   files |-> loc[i].files, threats |-> loc[i].threats, report |-> loc[i].report]

\* Mutant: the threat count shown to clients, which is behind at a prompt.
ScanFinishFromProgress(i) ==
  [status |-> loc[i].status, files |-> loc[i].files,
   threats |-> progress.threats, report |-> loc[i].report]

\* What `finally` writes into the row.
ScanFinish(i) ==
  [status |-> loc[i].status, files |-> loc[i].files,
   threats |-> loc[i].threats, report |-> loc[i].report]

\* finally: the row is closed first.
Finish(i) ==
  /\ At(i, "finish")
  /\ finish_scan(i, ScanFinish(i))
  /\ Goto(i, "settle")
  /\ UNCHANGED <<fields, progress, latest, loc, reports, detections, events, env>>

\* finish_scan raises: the task ends with the fields as they are.
FinishRaises(i) ==
  /\ At(i, "finish")
  /\ Fault
  /\ SetLocals(i, FreshLocals)
  /\ Goto(i, "done")
  /\ UNCHANGED <<fields, progress, latest, reports, history, stopping,
                 restarts>>

\* Mutant: the state is left to whoever comes next.
ReleaseIdOnly == activeScan' = None /\ UNCHANGED state

Release == activeScan' = None /\ state' = "complete"

\* finally, after the row: the fields, the event, and the end of the task.
Settle(i) ==
  /\ At(i, "settle")
  /\ Release
  /\ progress' = ProgressAt(i, "complete", "complete", loc[i].files, loc[i].threats)
  /\ publish("scan_completed", i)
  /\ SetLocals(i, FreshLocals)
  /\ Goto(i, "done")
  /\ UNCHANGED <<drive, cancelRequested, threatAction, actionEvent, scanTask,
                 reports, history, env>>

\* Where an operation inside the `try` can raise before it changes anything:
\* the enumerator, a subprocess, a history statement, a report file.
CanRaise == {"next", "clamWait", "clamKill", "detect", "alert", "yaraWait",
             "report", "html", "skips"}

Raise(i) ==
  /\ \E label \in CanRaise :
       /\ At(i, label)
       /\ label \in Suspended => ~stopping
  /\ Fault
  /\ Goto(i, "except")
  /\ UNCHANGED <<fields, progress, latest, loc, reports, history, stopping,
                 restarts>>

\* update_scan_progress raises, when files_scanned has been counted already.
CountRaises(i) ==
  /\ At(i, "count")
  /\ (loc[i].files + 1) % ProgressEvery = 0
  /\ Fault
  /\ SetLocals(i, [loc[i] EXCEPT !.files = loc[i].files + 1])
  /\ Goto(i, "except")
  /\ UNCHANGED <<fields, progress, latest, reports, history, stopping,
                 restarts>>

-------------------------------------------------------------------------------
(***************************************************************************)
(* The process.  SIGINT makes asyncio.run cancel every task: CancelledError *)
(* is raised where a coroutine is suspended, which no `except` clause of   *)
(* _run_scan catches, so only its `finally` runs; a task that has not      *)
(* started never does.  A crash (or SIGKILL, or the power) may come        *)
(* anywhere.  What systemd starts next finds the database and the reports. *)
(***************************************************************************)

Stopped(label) ==
  CASE label = "created" -> "done"
    [] label \in Suspended \ {"created"} -> "finish"
    [] OTHER -> label

Interrupt ==
  /\ Serving
  /\ restarts < MaxRestarts
  /\ restarts' = restarts + 1
  /\ stopping' = TRUE
  /\ pc' = [i \in ScanIds |-> Stopped(pc[i])]
  /\ UNCHANGED <<fields, progress, latest, loc, reports, history, faults>>

Restart ==
  /\ stopping
  /\ \A i \in ScanIds : ~Live(i)
  /\ stopping' = FALSE
  /\ FreshController
  /\ UNCHANGED <<pc, loc, reports, history, faults, restarts>>

Crash ==
  /\ restarts < MaxRestarts
  /\ restarts' = restarts + 1
  /\ stopping' = FALSE
  /\ pc' = [i \in ScanIds |-> IF Live(i) THEN "done" ELSE pc[i]]
  /\ loc' = [i \in ScanIds |-> FreshLocals]
  /\ FreshController
  /\ UNCHANGED <<reports, history, faults>>

-------------------------------------------------------------------------------
Request ==
  \/ \E d \in Drives \cup {None} : internal_drive_event(d)
  \/ \E i \in ScanIds, rooted \in BOOLEAN :
       start_scan(i, rooted) \/ start_scan_raises(i, rooted)
  \/ cancel_scan
  \/ \E a \in ThreatAction : handle_threat_action(a)

EnginesStep(i) ==
  \/ \E infected \in BOOLEAN : ClamAnswer(i, infected)
  \/ ClamTimeout(i)
  \/ \E matches \in 0..MaxHits : YaraAnswer(i, matches)
  \/ YaraTimeout(i)
  \/ YaraKilled(i)

ScanStep(i) ==
  \/ Begin(i) \/ Exhausted(i) \/ NextCancelled(i)
  \/ \E size \in FileSizes : NextSkipped(i, size)
  \/ \E size \in FileSizes, installed \in BOOLEAN : NextFile(i, size, installed)
  \/ SkipTimedOut(i) \/ Hash(i) \/ Detect(i) \/ Alert(i)
  \/ ResumeContinue(i) \/ ResumeDetails(i) \/ ResumeStop(i)
  \/ \E installed \in BOOLEAN : StartYara(i, installed)
  \/ SkipYara(i) \/ NextHit(i) \/ Count(i)
  \/ WriteTxt(i) \/ WriteHtml(i) \/ LogSkipped(i)
  \/ Except(i) \/ Finish(i) \/ FinishRaises(i) \/ Settle(i)
  \/ Raise(i) \/ CountRaises(i)

Next ==
  \/ Request
  \/ \E i \in ScanIds : EnginesStep(i) \/ ScanStep(i)
  \/ Interrupt \/ Restart \/ Crash

Spec == Init /\ [][Next]_vars

\* The event loop runs a coroutine that can run, and a subprocess ends or is
\* killed when its time is up.  Nobody promises that requests arrive.
Fairness == \A i \in ScanIds : WF_vars(EnginesStep(i) \/ ScanStep(i))

FairSpec == Spec /\ Fairness
===============================================================================
