# Portable antivirus appliance: a TLA+ model

This directory models the portable antivirus appliance (`src/portable_av`): the
scan controller with the engines it runs, the history it writes and the reports
it leaves; the walk over the files of a drive; the event bus with its WebSocket
clients; the command line scan; and the mount helpers that come and go with the
drives. TLC checks the models on small instances; TLAPS proves every safety
property of them for every value of the constants, among them that the history,
the bus and the walk implement what they promise (three abstract
specifications), and that the two programs built around the controller keep what
is proved of it.

## 1. The system

The appliance mounts a USB drive read-only, scans its files with ClamAV and
YARA, stops at every detection for the operator's answer, keeps a history in
SQLite and writes a text and an HTML report. One process, the engine, runs a
FastAPI application on one asyncio event loop. Short-lived mount helper
processes, started by udev and systemd, tell it about drives.

| Component | State | Operations | Modelled in |
|---|---|---|---|
| Scan controller (`engine/scan_controller.py`) | state, active scan, drive, cancel flag, answer and its event, task, progress | set_drive, start_scan, cancel_scan, handle_threat_action, the coroutine _run_scan | `ScanController` |
| History (`history/repository.py`) | tables scans, detections, events | one statement per method | `HistoryRepository`, `ScanLedger` |
| Reports (`reports/report_writer.py`) | two files per scan | write_reports | steps of `ScanController` |
| Engines (`engine/clamav_adapter.py`, `engine/yara_adapter.py`) | a subprocess each | scan_file with a timeout; what exit codes and lines become | steps of `ScanController`, `EngineOutput` |
| Enumerator (`engine/file_enumerator.py`) | a stack of directories | enumerate | `FileWalk`, `FileSelection`; any candidates at all in `ScanController` |
| Hashing, percentage (`engine/hashing.py`, `engine/progress.py`) | none | hash_file | a stage of `ScanController` |
| Event bus and WebSocket (`engine/event_bus.py`, `api/websocket.py`) | sequence, queues, two tasks per connection | publish, subscribe, scan_events | `EventBus`, `EventStream` |
| Scan and internal routes (`api/routes_scan.py`, `api/routes_internal.py`) | none | one request each | the requests of `ScanController`, accepted while `Appliance` listens |
| Start of the process, internal token (`api/app.py`, `api/dependencies.py`) | the token file, the socket | build_app_state, run | `FreshController`, `MountHelper` |
| Mount helper (`mount/*`, `deploy/udev`, `deploy/systemd`) | drive.json, the mounts, a process per arrival and removal | mount_readonly, unmount, notify | `MountHelper`, `Appliance` |
| Command line (`engine/cli.py`) | a main coroutine and a watcher, which poll | start, answer, wait, print | `HeadlessScan` |
| Status and drive routes | none | read the fields from worker threads | not modelled |
| Configuration, identifiers, errors | read once | - | constants and model values |
| Display, update, history and configuration routes | stubs | - | nothing to model |

How they interact: requests and the scan coroutine share the controller's
fields on the event loop. The coroutine calls the history, the reports and the
engines directly, and publishes through the bus. Clients read progress by HTTP
or follow the bus. The mount helpers share drive.json, the mounts and the token
file without a lock, and call the internal route. The command line scan has a
controller of its own, without bus, drive or API.

What is hard about it:

* Handlers run between any two suspensions of the coroutine. A suspension
  lasts as long as a subprocess or, at a prompt, as long as the operator takes.
* Two fields, `_state` and `_scan_task`, say in different ways that a scan is
  running, and the guards of the handlers use one or the other.
* The history, the files and the fields change one after another: a step may
  raise between them, and the process may die between them.
* Ctrl-C raises CancelledError, which `except Exception` does not catch.
* A bus must not wait for a slow client and must not lose order for the others.
* Helper processes overlap, fail half-way, are killed by systemd, and send one
  notification that may be lost, late, or ignored.
* Errors of the file system and of the engines are swallowed one by one: what a
  scan has not seen does not show.

What makes each component correct:

* controller: one scan at a time; cancellations and answers are not lost; the
  drive of a working scan stays; what it shows is what the coroutine does and
  how far it is; every scan ends, with the status it has earned, and releases it;
* pipeline: every file counted once; totals equal to the detections on record;
* history: rows opened once, closed once, never changed afterwards; detections
  and their announcements agree;
* reports: where the row names them they exist and agree with it;
* bus: each client gets a gapless, ordered prefix behind its snapshot; nothing
  leaks;
* walk and adapters: every file the mode asks for, once; what an engine finds
  is on record;
* command: every prompt is answered, the command ends, and prints what the
  history says;
* mount helpers: mounts, drive.json and the engine's drive agree with the slot.

## 2. Modules

| Module | What it is |
|---|---|
| `HistoryRepository` | the three tables and the statements on them, used by `ScanController` |
| `ScanController` | the engine: variables, one action per handler and per step, specification, types |
| `ScanProperties` | what the engine should guarantee, and the requirements it does not meet |
| `ScanLedger` | the abstract specification: what the history promises to its readers |
| `FileWalk` | the enumerator over a file tree |
| `FileSelection` | the abstract specification: what a walk owes its caller |
| `EngineOutput` | what the engines print and what the adapters make of it |
| `HeadlessScan` | the command line scan: `ScanController` with `FileWalk`, `EngineOutput` and two polling coroutines |
| `MountHelper` | devices, udev and systemd, the mount and unmount processes, the token |
| `Appliance` | `ScanController` with `MountHelper`: the drive events come from the helpers |
| `EventBus` | the bus and the WebSocket endpoint, with their properties |
| `EventStream` | the abstract specification: what the numbers on the events promise to a client |
| `MCScan`, `MCHeadless`, `MCAppliance`, `MCEventBus` | these for TLC |
| `ScanControllerProofs` | type correctness of the engine |
| `ScanSafetyProofs` | one scan at a time; cancellations and answers are kept |
| `ScanLedgerProofs` | the engine implements `ScanLedger`; threats are announced in the history |
| `ScanOutcomeProofs` | files, reports, completion, the shown state and figures and the final status agree with the coroutine and the history |
| `ApplianceProofs` | the appliance implements `ScanController`; types of the rest of it; agreement on the drive |
| `WalkProofs` | the walk yields what it should, for every tree, and implements `FileSelection` |
| `HeadlessProofs` | the same of the walk in the command, which implements `ScanController`; its watcher, its last line, and its detections |
| `EventBusProofs` | types and streams of the bus, which implements `EventStream` |

### ScanController

A request handler is one action. Its only awaits are on locks that are free and
on `EventBus.publish`, which does not wait, so no other coroutine runs during
it. A refused request changes nothing and is a stuttering step; the action's
guard is the negation of the refusal. `LoopFree` says that no scan coroutine is
between two suspensions; only then can a handler run.

`pc[i]` is the place of scan i's coroutine. The labels in `Suspended` are its
awaits: before its first step, while ClamAV or YARA runs (`clamWait`,
`yaraWait`) or is being killed (`clamKill`, `yaraKill`), and at the prompt
(`promptWait`). The labels in `Busy` cut the code between them wherever it
changes the database, the disk or what clients see, because an exception or a
crash may fall there: `next` (the loop head), `hash`, `detect` and `alert` (the
two halves of `_record_detection`), `yara`, `hits` (the loop over matches),
`count`, `report` and `html`, `skips`, `except`, `finish` and `settle` (the two
halves of `finally`). `loc[i]` holds the coroutine's locals.

Failures: `Raise`, `CountRaises`, `Except`, `FinishRaises` and
`start_scan_raises` let any operation that can raise do so, up to `MaxFaults`
times. `Interrupt` is SIGINT: the task is cancelled where it is suspended, and
only `finally` runs. `Crash` is anything that ends the process at once,
SIGTERM included: uvicorn raises it again with the default handler after its
own shutdown, before asyncio.run gets to cancel tasks. `Restart` and `Crash`
end with the fields of a new controller and with the database and the reports
as they were.

`faults` and `restarts` count how often something raised or ended the process.

Data that no property tells apart is left out: names, byte totals, hashes,
messages, the scan's mode, timestamps. A file is its size class, which decides
between skipping, hashing and YARA. A ClamAV answer is infected or not, a YARA
answer a number of matches. The storage threshold only refuses a start.
A scan started with a `scan_root` needs no drive (`rooted`).

### FileWalk, EngineOutput and HeadlessScan

`FileWalk` is the generator `enumerate`: a stack of directories, the entries of
the open one in any order, and an action for every place where an operation may
raise. `lost` records what an OSError hid; `BadTime` is the one exception that
is no OSError and comes out of the generator. Links and special files are
entries of the tree that are never yielded. `FileSelection` is what its caller
sees of it: wanted files that are given or missed, one after another.

`EngineOutput` gives for a file the runs of clamscan and yara that can occur
(exit code, lines) and what `_parse_signature`, `clean` and the loop over lines
make of them: a failed ClamAV is clean; a path with `FOUND` in it is a
signature; every line of two words is a match, those of matched strings and of
warnings too.

`HeadlessScan` conjoins these with the actions of `ScanController`: the size in
`NextFile` is that of the file the walk has yielded, the answer in `ClamAnswer`
comes from a run, an exception at `next` comes from the walk. The main coroutine
(`MainStarts`, `Poll`) and the watcher (`WatcherAnswers`, `WatcherDies`) act
when the scan's coroutine is suspended; `MainFails` and `PollFails` are the
calls of the main one that raise. The histories `flagged`, `excused` and
`noisy` record which files have detections, which an engine did not examine
(timeout, failure, not installed), and about which yara printed more than
matches.

### MountHelper and Appliance

A helper process is a label per device, for mounting and for unmounting, cut
where it reads or changes what others share: `_is_mounted`, the opening of
drive.json, which empties it, the write into it, the test for it, reading it,
`umount`, the second test, `unlink`, the notification. `writers` are those that
have drive.json open, because a write into an unlinked file is lost and one
behind another's may leave garbage. Exits follow the code: an exception that
`main` does not catch ends the helper as the ones it catches do, without a
notification. udev starts a removal's helper and waits for it, systemd starts
the service of a device and stops it when the device goes (`StopMounter`).

A notification is a request in `inbox`: the engine takes them in any order
(`Deliver`), and they are lost if the token is not there yet, if the engine does
not listen, or with the process. `set_drive` then ignores one that comes during
a scan. `Umount` fails if the scan has a directory of the drive open.

`usage` is a history variable. It is "single" while there has been one device at
a time, each plugged in and pulled out when all helpers had ended, and nothing
has failed; "calm" when devices have been in together; "rough" once a step has
failed, a notification has been lost or ignored, or a device has been handled
before the last change was through. Nothing is claimed of "rough" histories
about agreement: the code never repeats or compares anything, so one lost
notification is enough for a drive that is offered and not there.

### EventBus

An event is its sequence number. `publish` is one action: its lock is never
contended. A connection has two tasks, `handler` (scan_events) and `forwarder`
(forward_events). The forwarder may be cancelled before it starts, at
queue.get, or inside send_json; in the last case the subscribe() generator is
left at its `yield` and its `finally` runs when it is collected (`closing`). A
forwarder whose send raised keeps its frames alive through its exception, so
its queue leaves the list with the connection only. The endpoint expects
WebSocketDisconnect and nothing else: where `receive_text` raises otherwise
(`ReceiveRaises`; a frame that is not text does it) nobody cancels the forwarder.
It lives on, and its queue with it, until a send to the connection fails: an
event that comes later, or one that is in hand or queued. So `SubscriptionEnds`
promises for such a connection that the queue does not outlive the next event, no
more. `snapshot` is the endpoint's
local `latest`; what a client has got (`Received`) is that, once it is sent, and
what its forwarder sent.

`EventStream` is what a client can rely on when it looks at the numbers. It gets
the event of the moment at most once and first (`Snapshot`); the first event it
follows may skip some but is later than the snapshot (`Join`); from there each
one is the next (`Follow`). The gap is in the code: the endpoint reads the last
event before it subscribes, and awaits a send in between.

## 3. Runs

| Run | Configuration | Checks |
|---|---|---|
| `requests` | `MCScan_requests.cfg` | TypeOK, SingleScan, CompletionAnnounced, NothingLeftOpen, CancelNotForgotten, AnswerKept, DriveHeld, EndedStays |
| `pipeline` | `MCScan_pipeline.cfg` | StateMatchesTask, FilesAccounted, ReportBacked, ThreatsAnnounced, FiguresShown, OutcomeJustified, EndAnnounced, FiguresGrow, LedgerSpec, ScanAdvances, RowClosed |
| `headless` | `MCHeadless.cfg` | HeadlessTypeOK, WalkExact, WalkSpec, DetectionsExact, WatcherAlive, PrintsFinalStatus, CommandReturns |
| `appliance` | `MCAppliance.cfg` | ApplianceTypeOK, DriveFollows |
| `event_bus` | `MCEventBus.cfg` | TypeOK, StreamFaithful, StreamSpec, SubscriptionEnds |

Bounds. `requests` has two scans, because a second scan can disturb the first
and can inherit its fields; two drives, so that one can replace the other; one
file each, one fault and one end of the process anywhere. `pipeline` has three
files: with `ProgressEvery = 2` (10 in the code) the row is updated once, a
file follows the update, and all size classes occur in one scan; two matches in
one YARA answer prompt twice for one file; two faults, so that the except
clause can fail as well, under fairness for the two liveness properties.
`headless` has six trees: between them nested directories, a directory after
another on the stack, files the mode leaves out, a link, a special file, every
size class, a virus, a rule with strings, a path with FOUND and a time that
datetime does not have. One read error falls on any operation of the walk; of
the two faults one is reserved for the walk's own exception, the other comes
anywhere. `appliance` has two drives, plugged in twice in all: one after the
other, the same one twice, or one beside the other, and one end of the engine at
any time. Its scan has no files, so that the runs of helpers against a scan
that is idle, starting, ending and failing stay within reach; prompts beside
drive events are in `requests`. With one drive in use, DriveFollows has also
been checked with three and four plugs without scans.
`event_bus` has a queue of two and four events, so that an overflow occurs while
an event is being sent and others are queued. Identifiers are symmetric where
only safety is checked. Deadlock is checked in the scan runs (a drive event is
always possible; in the appliance a cancellation is, or a start), and not for
the bus, whose events run out, nor for the command, which ends.

Fairness. A coroutine that can run does run, and a subprocess ends or is killed
when its time is up: `WF` of each scan's steps. The code enforces the timeout
with asyncio.wait_for; that a killed subprocess ends is assumed. Requests and
answers are not fair, so a prompt may wait for ever, and `ScanAdvances` says that
nothing else does. In the bus, the forwarder runs, and a send returns or raises
(uvicorn closes a connection that answers no ping); connecting and
disconnecting are not fair. In the command the scan's steps, the main loop and
the watcher are each weakly fair: they are coroutines that wake from sleeps. An
appliance has no fairness: its properties are safety.

### Requirements the code does not meet

Each has a run that finds the shortest behaviour.

| Run | Property | What happens |
|---|---|---|
| `prompt_after_drive_event` | PromptAnswerable | a drive event at a prompt overwrites the state; every answer is then refused and the scan waits for ever |
| `cancel_then_prompt` | CancelCompletes | a cancellation during a file that turns out infected leads to a prompt |
| `interrupted_report` | CompletedHasReport | Ctrl-C records the scan as completed, without reports |
| `crashed_row` | IncompleteRecorded | the row of a scan that a crash has ended says running for ever |
| `pulled_out` | PulledOutNotCompleted | a scan whose drive is pulled out ends over nothing and is recorded as completed; the removal is ignored |
| `stale_mount` | RemovedIsUnmounted | with two drives in, the removal of the first unmounts the second, which drive.json names, and leaves the first mounted |
| `slow_client` | OverflowDisconnects | a client whose queue overflowed stays connected and hears nothing |

`StateMatchesTask` holds in spite of `prompt_after_drive_event` because it speaks
of `progress.state`, which drive events leave alone, and of `_state` only away
from the prompt. `EndedStays` speaks of rows that have been closed: what the code
makes of the row of a crashed scan, which NFR-011 wants recorded as INTERRUPTED,
is the matter of `crashed_row`. That run has fairness, so that it is the code and
not an idle engine that leaves the row: the step that is missing is missing from
every later start.

These gaps have no run:

* A start in which `create_scan` or `insert_event` raises leaves the state at
  scanning with no task, as an exception of `finish_scan` does. Drive events are
  then ignored and a start without `scan_root` is refused until the process ends,
  where NFR-010 (`SRS.md:319`) and `SRS.md:688` want the system back in IDLE.
  `NothingLeftOpen` says that nothing else leaves the state so.
* The threats shown lag behind. `_record_detection` records a threat and prompts,
  and the count goes into the progress after the loop's turn: at the prompt, the
  threat it asks about is on record and not among those shown. `LLD.md:516-520`
  publishes the progress before the prompt, and FR-040 (`SRS.md:243`) has all
  displays updated at once (also `SRS.md:403` and `SRS.md:436`). `FiguresShown`
  says that they are never more than on record, not how far behind they may be.
* A drive event ignored during a scan is never made up for, which `pulled_out`
  shows from the side of the scan.
* The queue of a connection whose `receive_text` has raised stays in the bus until
  the next event.

`WatcherAlive` speaks of scans that are alive: where `finish_scan` raises after
a prompt, `_state` and `progress.state` disagree for good and the watcher does
die, but there is nothing left to answer. For the same reason `CommandReturns`
excepts a scan whose row could not be closed: the command then polls for ever.
`DetectionsExact` excepts the files an engine has not examined, which the code
reports as clean.

## 4. Proofs

The constants have the assumptions that their modules name and no more: the
bounds are arbitrary naturals, the sets of scans, drives, devices, trees and size
classes are arbitrary but for what those assumptions say. `NoneAssumption` and `FiguresAssumption` say that None is none of the
values it is told apart from.

* `TypeCorrect`: Spec => []TypeOK. One lemma per action, one step per group of
  variables, over lemmas on the helpers (`set_progress`, `insert_event`, ...).
* `OneScanAtATime`: Spec => []SingleScan. The invariant is inductive with the
  types. `CoroutineStep` shows that every step of a coroutine moves its own
  place only and keeps the names; `NoSecondStart` that a live scan refuses a
  start.
* `CancellationKept` and `AcceptedAnswerKept`: the action properties
  CancelNotForgotten and AnswerKept. start_scan is the only step that clears
  the flag and the event, and OneScanAtATime says it cannot happen while a scan
  lives; and a coroutine comes to life in start_scan only, with the flag clear
  (`FreshFlag`). The answer also needs `AnswerGiven`: the event is set only with one.
* `HistoryIsLedger`: Spec => LedgerSpec. The ledger's total is right when a row
  closes only because of where the coroutine was: the inductive invariant
  `LedgerInv` ties each row to its coroutine's place (`RowFollows`) and the
  local `threats` to the detections on record (`ThreatsFollow`), with one of
  difference between counting and recording. `create_scan`,
  `insert_detection`, `update_scan_progress` and `finish_scan` are the ledger's
  Open, Detect, Tally and Close; every other step is a stutter.
* `EveryFileAccounted`: Spec => []FilesAccounted. FilesAccounted speaks of the
  loop head only. Its invariant `FilesInv` says that between a yield and the
  next one there is one file in hand (`FileInHand`), so every path through the
  engines and the prompts must count it once.
* `ReportsAreBacked`: Spec => []ReportBacked. Reports are written before the row
  is closed; `ReportInv` says that the locals they were rendered from stay until
  then, unless the scan fails, and with `LedgerInv` that a closed row and its
  detections do not change.
* `CompletionIsClosed` and `NothingIsLeftOpen`: []CompletionAnnounced and
  []NothingLeftOpen. `AnnouncedInv` adds that the row is closed at `settle`.
  `NothingOpen` is the half about rows; `StateBacked` is the half about the state:
  it says scanning or prompting only with a live coroutine, or where the active
  scan is `Abandoned`, its row not opened or not closed.
* `StateIsTaskState`: Spec => []StateMatchesTask. StateMatchesTask is about
  suspended coroutines. By `ViewInv` the progress may be behind only between
  two suspensions, until the stage moves after a prompt.
* `DriveIsHeld`: Spec => DriveHeld. set_drive looks at `_state`, never at the
  task. That it refuses while a coroutine works is `ViewInv` again: `_state`
  says scanning wherever the coroutine is suspended but at the prompt, and no
  request runs elsewhere.
* `EndedScansStay`: Spec => EndedStays, of scans whose row is closed. A step of a coroutine leaves the row of
  every other scan alone (`OthersKeep`), a start opens the row of a scan that
  was never requested (`StartKeeps`), and a scan that is done is neither.
* `EveryEndIsAnnounced`: Spec => EndAnnounced. A coroutine ends in `Settle`, with
  its row closed, or in one of the exempt steps; every other failure, that of
  the except clause too, leads to `finish` (`EndStep`).
* `ThreatsAreAnnounced`: Spec => []ThreatsAnnounced. By `AlertsInv` the
  announcements are one behind the detections at `alert`, and equal to them
  everywhere else but where a scan is on its way to fail: SIGINT finds the
  coroutine at a suspension, and `alert` is none.
* `FiguresAreShown` and `FiguresOnlyGrow`: []FiguresShown and FiguresGrow. Three
  copies of the figures are kept, the locals, the progress and the row.
  `FiguresInv` says that the locals lead: the progress has the files of the
  locals while a file is in hand, never more threats, and fewer from a detection
  until its prompt is answered (`ShownFollow`); the row is never ahead and is
  equal at `settle` (`WrittenFollow`); and a progress that says complete belongs
  to a closed row with its figures (`ShownComplete`).
* `OutcomeIsJustified`: Spec => []OutcomeJustified. `OutcomeInv` follows the
  local `status`: it is failed only where something has raised; an error on
  record comes with it; and it is cancelled only behind the flag, which nobody
  takes back while the scan lives. `ErrorShown` adds
  the error that was announced and could not be recorded: whoever published
  `scan_error` last is on its way to a row closed as failed.
* `ApplianceRunsEngine` and `HeadlessRunsEngine`: ApplianceSpec => Spec and
  HeadlessSpec => Spec. Each step of the composition is a step of the engine or
  leaves its variables alone, so the theorems above hold of the appliance and of
  the command. In the command this needs the walk's types: at a yield there is
  a file of the tree in hand, with a size the engine may meet.
* `WalkIsExact`: HeadlessSpec => []WalkExact, for every tree, any order of the
  entries and any number of errors. TreeAssumption gives each entry its path, so
  that no induction over the tree is needed. By the inductive invariant
  `WalkInv` each entry is ahead of the walk (pending, or below a pending
  directory or one on the stack), hidden by an error, or yielded if it is to be
  scanned (`Placed`). An entry is ahead for one reason only (`OneReason`), so
  that taking its reason off the frontier settles it: this is where a directory
  pushed twice, or one pushed and still pending, would break the proof.
* `WalkIsSelection`: HeadlessSpec => WalkSpec. WalkExact speaks of the end;
  the refinement says of every step that it gives a file that was left, or
  misses files that were left through one error, or does neither. What is left
  is what is ahead (`LeftIsAhead`, from `WalkInv`), and an error hides only what
  is ahead (`ErrorHidesAhead`), never a file that has been given.
* `WatcherLives` and `PrintsHistory`: HeadlessSpec => []WatcherAlive and
  []PrintsFinalStatus. The step of the command being one of the engine, the
  engine's invariants hold at every state (`EngineInv`). To them `CommandInv`
  adds what only the command has: no drive event comes to it, so at a prompt
  `_state` says so and the answer is not refused; and the progress leaves
  "scanning" only behind a closed row with the same count.
* `DetectionsAreExact`: HeadlessSpec => []DetectionsExact, from the disk to the
  history. A file is `Judged` when it has been flagged, excused, found too large,
  or has nothing to be detected. `FindInv` says that all files the walk has
  yielded before the current one are judged, and of the current one, for each
  place of the coroutine, what the engines have said and have left to say
  (`CurrentFollows`); a scan that was told to go on leaves the loop only behind
  the walk's end, or fails. With `WalkIsExact` that reaches every file of the tree.
  It rests on the fields of a file that count rules and strings being naturals
  (`RulesAssumption`).
* `ApplianceTypes`: ApplianceSpec => []ApplianceTypeOK, one lemma per group of
  helpers; that a process which is to end does not listen needs every action.
* `HeadlessTypes`: HeadlessSpec => []HeadlessTypeOK. That only entries of the tree
  are excused and flagged needs the scan's places (`FindInv`): an engine is asked
  with a file in hand only.
* `DriveIsFollowed`: ApplianceSpec => []DriveFollows, for any number of devices,
  plugs, scans and ends of the engine. `OfferInv` says, for as long as nothing is
  rushed and nothing fails, that only a drive that is in is on its way to the
  engine, and that one the engine offers although it has gone is being removed.
  As long as there has been one device at a time `SingleInv` names the phase it
  is in (`Arrived`, `Mounting`, `Announced`, `Offered`, `Departed`, `Unmounting`,
  `Withdrawn`, or the slot is `Empty`), each with the one thing that is under way
  and what the slot, the mounts, drive.json and the engine have of the drive.
  What is under way tells the phase (`PhaseOf`), and each action leads from its
  phase to the next. It needs that no device is called like a condition of
  drive.json (`DeviceAssumption`).
* `BusTypes` and `StreamIsFaithful`: []TypeOK and []StreamFaithful of the bus, for
  any number of clients, any queue size and any number of events. By
  `ConnectionInv` a connection has no queue and no stream before it subscribes,
  an event is in hand exactly while it is being sent, and what has been sent, is
  in hand and is queued counts on from the subscription without a gap.
* `BusImplementsStream`: Spec => StreamSpec, by the same invariant, which also
  says that nobody has more than is published, nor subscribes before what the
  snapshot shows. The event in hand follows the last one forwarded
  (`StreamHead`), so `Sent` is the client's `Join` or its `Follow`;
  `SnapshotSent` is its `Snapshot`, publishing is `Publish`, and every other
  step is a stutter.

Every safety property that a passing run checks is proved. Only model-checked is
liveness (ScanAdvances, RowClosed, SubscriptionEnds, CommandReturns), which is
out of the prover's reach.

## 5. Not modelled, and the plan

Not modelled:

* The status readers. `GET /status` and `GET /drive` read two or three fields
  from a worker thread, one reference each, and change nothing. A torn answer is
  possible and no document forbids it, so a model would only restate that.
* Authentication, validation, serialization, schemas and templates: functions
  of one request, without state.
* Which of several partitions of a device is taken, labels and sizes: values
  that are passed on.
* Configuration, paths, logging and errors: read once or stateless.
* Display and update packages, history and configuration routes: stubs.
* The install script and the display simulator; power and hardware.
* What ClamAV and YARA detect, what the kernel does to a file that is read
  from a device that has gone: external, any outcome is allowed.

Next: an abstract specification of the drive as an operator sees it (in, offered,
gone), which `Appliance` would implement where nothing is rushed, in place of the
invariant `DriveFollows`; and the events of a scan as `EventBus` publishes them,
in the order in which `ScanController` does, so that what a client can conclude
of a scan from its stream can be stated.
