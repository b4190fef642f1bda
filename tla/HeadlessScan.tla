----------------------------- MODULE HeadlessScan -----------------------------
(***************************************************************************)
(* The command line scan (_run_scan of engine/cli.py): one scan of one     *)
(* tree, from the files on disk to the status the command prints.  The     *)
(* scan controller of `ScanController` runs without a bus, a drive and an  *)
(* API.  It takes its candidates from the generator of `FileWalk` and its  *)
(* answers from the adapters of `EngineOutput`.  Two more coroutines share *)
(* the event loop with the scan: the main one, which polls for the end,    *)
(* and a watcher, which polls for prompts and answers them.                *)
(***************************************************************************)
EXTENDS ScanProperties, FileWalk, EngineOutput

VARIABLES
  autoContinue,   \* --auto-continue
  main,           \* where the main coroutine is, or how the command has ended
  watcher,        \* the task auto_continue_on_threat
  printed,        \* the last line, "Finished: ...", or None
  flagged,        \* history: files with a detection on record
  excused,        \* history: files that an engine has not examined
  noisy           \* history: files about which yara has printed more than matches

cliVars == <<autoContinue, main, watcher, printed>>
logVars == <<flagged, excused, noisy>>
headlessVars == <<vars, walkVars, cliVars, logVars>>

HeadlessTypeOK ==
  /\ WalkTypeOK
  /\ autoContinue \in BOOLEAN
  /\ main \in {"start", "polling", "done", "failed", "killed"}
  /\ watcher \in {"asleep", "dead", "cancelled"}
  /\ printed \in [status : ScanStatus, threats : Nat] \cup {None}
  /\ {flagged, excused, noisy} \subseteq SUBSET Nodes

ASSUME SizesAssumption ==
  \A tree \in Trees : \A n \in DOMAIN tree : tree[n].size \in FileSizes
ASSUME RulesAssumption ==
  \A tree \in Trees : \A n \in DOMAIN tree : {tree[n].rules, tree[n].strings} \subseteq Nat

HeadlessInit ==
  /\ Init
  /\ WalkInit
  /\ autoContinue \in BOOLEAN
  /\ main = "start"
  /\ watcher = "asleep"
  /\ printed = None
  /\ flagged = {} /\ excused = {} /\ noisy = {}

-------------------------------------------------------------------------------
(***************************************************************************)
(* The main coroutine and the watcher.                                     *)
(***************************************************************************)

MainStarts(i) ==
  /\ main = "start"
  /\ start_scan(i, TRUE)
  /\ main' = "polling"
  /\ UNCHANGED <<walkVars, autoContinue, watcher, printed, logVars>>

\* start_scan raises: the exception ends main, and asyncio.run cancels the watcher.
MainFails(i) ==
  /\ main = "start"
  /\ start_scan_raises(i, TRUE)
  /\ main' = "failed"
  /\ watcher' = "cancelled"
  /\ UNCHANGED <<walkVars, autoContinue, printed, logVars>>

\* Mutant: the main loop ends at a prompt as well.
PollEndsAtPrompt ==
  /\ main = "polling" /\ Serving
  /\ progress.state # "scanning"
  /\ main' = "done"
  /\ watcher' = "cancelled"
  /\ printed' = [status |-> scans[scanTask].status, threats |-> progress.threats]
  /\ UNCHANGED <<vars, walkVars, autoContinue, logVars>>

\* Mutant: the state of the engine is printed for the status of the scan.
PollPrintsState ==
  /\ main = "polling" /\ Serving
  /\ progress.state \in {"complete", "idle"}
  /\ main' = "done"
  /\ watcher' = "cancelled"
  /\ printed' = [status |-> progress.state, threats |-> progress.threats]
  /\ UNCHANGED <<vars, walkVars, autoContinue, logVars>>

\* Every half second, until the progress says that the scan is over.
Poll ==
  /\ main = "polling" /\ Serving
  /\ progress.state \in {"complete", "idle"}
  /\ main' = "done"
  /\ watcher' = "cancelled"
  /\ printed' = [status |-> scans[scanTask].status, threats |-> progress.threats]
  /\ UNCHANGED <<vars, walkVars, autoContinue, logVars>>

\* get_scan raises behind the loop: the exception ends main, with nothing printed.
PollFails ==
  /\ main = "polling" /\ Serving
  /\ progress.state \in {"complete", "idle"}
  /\ main' = "failed"
  /\ watcher' = "cancelled"
  /\ UNCHANGED <<vars, walkVars, autoContinue, printed, logVars>>

\* Mutant: only --auto-continue answers.
WatcherContinuesOnly ==
  /\ watcher = "asleep" /\ Serving
  /\ progress.state = "threat_prompt" /\ autoContinue
  /\ handle_threat_action("continue")
  /\ UNCHANGED <<walkVars, cliVars, logVars>>

\* Every tenth of a second, while the progress says that there is a prompt.
WatcherAnswers ==
  /\ watcher = "asleep" /\ Serving
  /\ progress.state = "threat_prompt"
  /\ handle_threat_action(IF autoContinue THEN "continue" ELSE "stop")
  /\ UNCHANGED <<walkVars, cliVars, logVars>>

\* handle_threat_action refuses the answer: the exception ends the watcher,
\* and nobody sees it.
WatcherDies ==
  /\ watcher = "asleep" /\ Serving
  /\ progress.state = "threat_prompt" /\ state # "threat_prompt"
  /\ watcher' = "dead"
  /\ UNCHANGED <<vars, walkVars, autoContinue, main, printed, logVars>>

\* Ctrl-C and anything worse: main ends where it waits, and the watcher with it.
CommandKilled ==
  /\ main \in {"start", "polling"}
  /\ Interrupt \/ Crash
  /\ main' = "killed"
  /\ watcher' = "cancelled"
  /\ UNCHANGED <<walkVars, autoContinue, printed, logVars>>

-------------------------------------------------------------------------------
(***************************************************************************)
(* The scan, with the walk and the engines.                                *)
(***************************************************************************)

File == disk[Current]

Excuse(excuse) == excused' = excused \cup (IF excuse THEN {Current} ELSE {})

\* The generator runs when the coroutine asks it for the next candidate.
Walk(i) ==
  /\ At(i, "next")
  /\ WalkStep
  /\ UNCHANGED <<vars, cliVars, logVars>>

\* The next candidate, if the generator has one.
Take(i) ==
  \/ /\ TakeFile
     /\ NextSkipped(i, File.size)
     /\ UNCHANGED <<cliVars, logVars>>
  \/ \E installed \in BOOLEAN :
       /\ TakeFile
       /\ NextFile(i, File.size, installed)
       /\ Excuse(~installed)
       /\ UNCHANGED <<cliVars, flagged, noisy>>

AskClam(i) ==
  /\ pc[i] = "clamWait"
  /\ \E run \in ClamRuns(File) :
       /\ ClamAnswer(i, ~ClamClean(run))
       /\ Excuse(run.exit = 2)
  /\ UNCHANGED <<walkVars, cliVars, flagged, noisy>>

AskYara(i) ==
  /\ pc[i] = "yaraWait"
  /\ \E run \in YaraRuns(File) :
       /\ YaraMatches(run) \in 0..MaxHits
       /\ YaraAnswer(i, YaraMatches(run))
       /\ Excuse(run.exit # 0)
       /\ noisy' = noisy \cup
            (IF YaraMatches(run) > MatchLines(File) THEN {Current} ELSE {})
  /\ UNCHANGED <<walkVars, cliVars, flagged>>

\* The other steps in which an engine does not examine the file.
EngineFails(i) ==
  /\ \/ SkipTimedOut(i) \/ YaraKilled(i)
     \/ StartYara(i, FALSE)
  /\ Excuse(TRUE)
  /\ UNCHANGED <<walkVars, cliVars, flagged, noisy>>

Flag(i) ==
  /\ Detect(i)
  /\ flagged' = flagged \cup {Current}
  /\ UNCHANGED <<walkVars, cliVars, excused, noisy>>

\* The loop ends with the generator, or with an exception out of it; and
\* one of MaxFaults is kept for that.
LoopEnds(i) ==
  /\ \/ walk = "over" /\ Exhausted(i)
     \/ walk = "broken" /\ pc[i] = "next" /\ Raise(i)
  /\ UNCHANGED <<walkVars, cliVars, logVars>>

SpareFault == faults + 1 < MaxFaults \/ walk = "broken"

ScanFails(i) ==
  /\ SpareFault
  /\ \/ pc[i] # "next" /\ Raise(i)
     \/ CountRaises(i) \/ FinishRaises(i)
  /\ UNCHANGED <<walkVars, cliVars, logVars>>

\* The steps that neither the walk nor the log depends on.
ScanGoesOn(i) ==
  /\ \/ Begin(i) \/ ClamTimeout(i) \/ Hash(i) \/ Alert(i)
     \/ ResumeContinue(i) \/ ResumeDetails(i) \/ ResumeStop(i)
     \/ StartYara(i, TRUE) \/ SkipYara(i) \/ YaraTimeout(i)
     \/ NextHit(i) \/ Count(i)
     \/ WriteTxt(i) \/ WriteHtml(i) \/ LogSkipped(i)
     \/ Except(i) \/ Finish(i) \/ Settle(i)
  /\ UNCHANGED <<walkVars, cliVars, logVars>>

HeadlessScanStep(i) ==
  \/ Walk(i) \/ Take(i) \/ AskClam(i) \/ AskYara(i) \/ EngineFails(i)
  \/ Flag(i) \/ LoopEnds(i) \/ ScanFails(i) \/ ScanGoesOn(i)

HeadlessNext ==
  \/ \E i \in ScanIds : MainStarts(i) \/ MainFails(i) \/ HeadlessScanStep(i)
  \/ Poll \/ PollFails \/ WatcherAnswers \/ WatcherDies \/ CommandKilled

HeadlessSpec == HeadlessInit /\ [][HeadlessNext]_headlessVars

\* The event loop runs the three coroutines; sleeps and subprocesses end.
HeadlessFairness ==
  /\ \A i \in ScanIds : WF_headlessVars(HeadlessScanStep(i))
  /\ WF_headlessVars(Poll)
  /\ WF_headlessVars(WatcherAnswers \/ WatcherDies)

HeadlessFairSpec == HeadlessSpec /\ HeadlessFairness

-------------------------------------------------------------------------------
(***************************************************************************)
(* Properties.                                                             *)
(***************************************************************************)

\* What an engine that is asked about the file would find.
Detectable(n) ==
  disk[n].clam \/ (disk[n].rules > 0 /\ UseYara(disk[n].size))

\* What makes the adapters flag a file.
Suspicious(n) == disk[n].clam \/ disk[n].rules > 0 \/ disk[n].odd \/ n \in noisy

\* From disk to history: when a scan that was told to go on at each threat
\* ends as completed, the files with detections on record are those that an
\* engine detects, among the files that the mode asks for, that are not too
\* large, that no read error has hidden and that the engines have examined.
\* What else is flagged has a path with FOUND in it, or lines of YARA's that
\* are no matches.
DetectionsExact ==
  /\ main = "done" /\ printed.status = "completed" /\ autoContinue =>
       \A n \in Nodes \ excused :
         ShouldScan(n) /\ ~Hidden(n) /\ ~TooLarge(disk[n].size) /\ Detectable(n)
           => n \in flagged
  /\ \A n \in flagged : ShouldScan(n) /\ Suspicious(n)

\* The watcher decides by progress.state, handle_threat_action by _state:
\* they agree whenever the watcher looks during the scan, so its answer is
\* not refused and no prompt is left to nobody.  (Where finish_scan raises
\* after a prompt they disagree for good, but then the scan is over.)
WatcherAlive == watcher = "dead" => ~Live(scanTask)

\* The command prints what the history holds: it reads the row when it has
\* been closed, and the count it takes from the progress is the row's.
PrintsFinalStatus ==
  main = "done" =>
    /\ Closed(scanTask)
    /\ printed = [status |-> scans[scanTask].status, threats |-> scans[scanTask].threats]

\* The command comes to its end, through every prompt; unless closing the row
\* has raised, when it polls for ever for a scan that is over.
CommandReturns ==
  main = "polling" ~>
    \/ main # "polling"
    \/ scans[scanTask].status = "running" /\ ~Live(scanTask)
===============================================================================
