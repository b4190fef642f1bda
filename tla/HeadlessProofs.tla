----------------------------- MODULE HeadlessProofs -----------------------------
(***************************************************************************)
(* The command line scan takes its candidates from a walk and its answers  *)
(* from parsed output, and is still the engine of ScanController: what is  *)
(* proved of Spec holds of the command, for any trees.                     *)
(* That gives it the invariants of the engine, from which it follows that  *)
(* its watcher is not refused, that it prints what the history holds, and  *)
(* that the history holds what there is to detect on the disk.             *)
(***************************************************************************)
EXTENDS HeadlessScan, ScanOutcomeProofs, WalkProofs

-------------------------------------------------------------------------------
(***************************************************************************)
(* The command takes the steps of a walk, and none that disturbs it.       *)
(***************************************************************************)

\* A step of the command is one of the walk, or leaves the walk alone.
LEMMA HeadlessTakesWalkSteps ==
  [HeadlessNext]_headlessVars => WalkStep \/ TakeFile \/ UNCHANGED walkVars
BY DEF HeadlessNext, headlessVars, MainStarts, MainFails, Poll, PollFails, WatcherAnswers,
   WatcherDies, CommandKilled, HeadlessScanStep, Walk, Take, AskClam, AskYara,
   EngineFails, Flag, LoopEnds, ScanFails, ScanGoesOn

\* So it keeps the invariant of the walk.
LEMMA HeadlessWalkStep ==
  ASSUME WalkInv, [HeadlessNext]_headlessVars
  PROVE  WalkInv'
BY HeadlessTakesWalkSteps, WalkInvStep

\* The walk has not begun when the command starts.
LEMMA HeadlessWalkInit == HeadlessInit => WalkInv
BY WalkInvInit DEF HeadlessInit

\* Of any tree, in whichever order the file system has its entries and
\* wherever an OSError hides some of them, the scan is given what the mode asks
\* for: no file twice, none that the mode leaves out, and by the end every one
\* that no error has hidden.
THEOREM WalkIsExact == HeadlessSpec => []WalkExact
<1>1. WalkInv /\ [HeadlessNext]_headlessVars => WalkInv'
  BY HeadlessWalkStep
<1> QED
  BY <1>1, HeadlessWalkInit, WalkInvExact, PTL DEF HeadlessSpec

\* The walk of the command implements FileSelection, for every tree and any
\* number of errors: a file asked for is given once or missed through an error,
\* for good either way, and the walk is not over before nothing is left.
THEOREM WalkIsSelection == HeadlessSpec => WalkSpec
<1>1. WalkInv /\ [HeadlessNext]_headlessVars => WalkInv'
  BY HeadlessWalkStep
<1>2. WalkInv /\ [HeadlessNext]_headlessVars => Selection!Next \/ UNCHANGED Selection!vars
  BY HeadlessTakesWalkSteps, WalkStepMaps
<1>3. HeadlessInit => Selection!Init
  BY WalkInitMaps DEF HeadlessInit
<1> QED
  BY <1>1, <1>2, <1>3, HeadlessWalkInit, PTL DEF HeadlessSpec, WalkSpec, Selection!Spec

\* The file in hand is an entry of a tree, with a size the engine may meet.
LEMMA FileInHandSize ==
  ASSUME WalkInv, walk = "yield"
  PROVE  File.size \in FileSizes
<1>1. Current \in Nodes
  BY DEF WalkInv, WalkTypeOK, Current
<1> QED
  BY <1>1, SizesAssumption DEF WalkInv, WalkTypeOK, File, Nodes

-------------------------------------------------------------------------------
(***************************************************************************)
(* The command implements ScanController.                                  *)
(***************************************************************************)

\* The candidate that the walk gives is one that ScanController may be given.
LEMMA TakeIsScanStep ==
  ASSUME WalkInv, NEW i \in ScanIds, Take(i)
  PROVE  ScanStep(i)
<1>1. File.size \in FileSizes
  BY FileInHandSize DEF Take, TakeFile
<1> QED
  BY <1>1 DEF Take, ScanStep

\* The answers that the adapters make of the output are answers of engines.
LEMMA AskIsEnginesStep ==
  ASSUME NEW i \in ScanIds, AskClam(i) \/ AskYara(i)
  PROVE  EnginesStep(i)
<1>1. ASSUME AskClam(i) PROVE EnginesStep(i)
  <2>1. PICK run \in ClamRuns(File) : ClamAnswer(i, ~ClamClean(run))
    BY <1>1 DEF AskClam
  <2>2. CASE ClamClean(run)
    <3>1. ClamAnswer(i, FALSE)
      BY <2>1, <2>2 DEF ClamAnswer
    <3> QED
      BY <3>1 DEF EnginesStep
  <2>3. CASE ~ClamClean(run)
    <3>1. ClamAnswer(i, TRUE)
      BY <2>1, <2>3 DEF ClamAnswer
    <3> QED
      BY <3>1 DEF EnginesStep
  <2> QED
    BY <2>2, <2>3
<1>2. ASSUME AskYara(i) PROVE EnginesStep(i)
  <2>1. PICK run \in YaraRuns(File) :
          YaraMatches(run) \in 0..MaxHits /\ YaraAnswer(i, YaraMatches(run))
    BY <1>2 DEF AskYara
  <2> QED
    BY <2>1 DEF EnginesStep
<1> QED
  BY <1>1, <1>2

\* Every step of the scan in the command is one of the scan in the engine, or
\* one of the walk that the engine does not see.
LEMMA HeadlessScanStepKind ==
  ASSUME WalkInv, NEW i \in ScanIds, HeadlessScanStep(i)
  PROVE  EnginesStep(i) \/ ScanStep(i) \/ UNCHANGED vars
<1>1. CASE Walk(i)
  BY <1>1 DEF Walk
<1>2. CASE Take(i)
  BY <1>2, TakeIsScanStep
<1>3. CASE AskClam(i) \/ AskYara(i)
  BY <1>3, AskIsEnginesStep
<1>4. CASE EngineFails(i)
  BY <1>4 DEF EngineFails, EnginesStep, ScanStep
<1>5. CASE Flag(i) \/ LoopEnds(i) \/ ScanFails(i)
  BY <1>5 DEF Flag, LoopEnds, ScanFails, ScanStep
<1>6. CASE ScanGoesOn(i)
  BY <1>6 DEF ScanGoesOn, EnginesStep, ScanStep
<1> QED
  BY <1>1, <1>2, <1>3, <1>4, <1>5, <1>6 DEF HeadlessScanStep

\* Every step of the command is one of the engine, or one it does not see.
LEMMA HeadlessStepIsNext ==
  ASSUME WalkInv, [HeadlessNext]_headlessVars
  PROVE  [Next]_vars
<1>1. ASSUME NEW i \in ScanIds, MainStarts(i) \/ MainFails(i) PROVE Next
  BY <1>1 DEF MainStarts, MainFails, Next, Request
<1>2. ASSUME Poll \/ PollFails \/ WatcherDies PROVE UNCHANGED vars
  BY <1>2 DEF Poll, PollFails, WatcherDies
<1>3. ASSUME WatcherAnswers PROVE Next
  <2>1. {"continue", "stop"} \subseteq ThreatAction
    BY DEF ThreatAction
  <2> QED
    BY <1>3, <2>1 DEF WatcherAnswers, Next, Request
<1>4. ASSUME CommandKilled PROVE Next
  BY <1>4 DEF CommandKilled, Next
<1>5. CASE UNCHANGED headlessVars
  BY <1>5 DEF headlessVars
<1> QED
  BY <1>1, <1>2, <1>3, <1>4, <1>5, HeadlessScanStepKind DEF HeadlessNext, Next

\* The command line scan is a run of the engine: the walk, the parsing and the
\* two polling coroutines do nothing to it that a request or an engine may
\* not do.
THEOREM HeadlessRunsEngine == HeadlessSpec => Spec
<1>1. HeadlessInit => Init
  BY DEF HeadlessInit
<1>2. WalkInv /\ [HeadlessNext]_headlessVars => [Next]_vars
  BY HeadlessStepIsNext
<1>3. WalkInv /\ [HeadlessNext]_headlessVars => WalkInv'
  BY HeadlessWalkStep
<1> QED
  BY <1>1, <1>2, <1>3, HeadlessWalkInit, PTL DEF HeadlessSpec, Spec

-------------------------------------------------------------------------------
(***************************************************************************)
(* The three coroutines of the command.  No drive event comes to it, so a  *)
(* prompt keeps its state; the watcher is refused only when the scan is    *)
(* over; and the progress says "complete" only behind the row.             *)
(***************************************************************************)

\* The scan of the command has ended, and the progress says what the row does.
Over ==
  /\ Closed(scanTask) /\ ~Live(scanTask)
  /\ progress.threats = scans[scanTask].threats

\* The scan of the command on its way: its prompt can be answered, and its row
\* has been closed before the progress moves.
InProgress ==
  /\ scanTask \in ScanIds
  /\ progress.state \in {"scanning", "threat_prompt"} \/ Over
  /\ pc[scanTask] = "promptWait" => state = "threat_prompt"
  /\ pc[scanTask] = "settle" =>
       Closed(scanTask) /\ scans[scanTask].threats = loc[scanTask].threats

CommandInv ==
  /\ main = "start" => progress.state = "idle" /\ \A i \in ScanIds : ~Live(i)
  /\ main = "polling" => InProgress
  /\ main = "done" => scanTask \in ScanIds /\ ~Live(scanTask) /\ PrintsFinalStatus
  /\ main \in {"start", "polling", "done", "failed", "killed"}
  /\ watcher # "cancelled" => main \in {"start", "polling"}
  /\ watcher = "dead" => main = "polling" /\ ~Live(scanTask)

EngineInv == TypeOK /\ SingleScan /\ LedgerInv /\ ViewInv

\* Only Finish leads to `settle`, only a prompt to the wait for an answer, and
\* only Settle takes the progress back.
LEMMA ScanShows ==
  ASSUME TypeOK, NEW i \in ScanIds, EnginesStep(i) \/ ScanStep(i), ~Settle(i), ~Finish(i),
         progress.state \in {"scanning", "threat_prompt"}
  PROVE  /\ progress'.state \in {"scanning", "threat_prompt"}
         /\ pc'[i] # "settle"
         /\ pc'[i] = "promptWait" => state' = "threat_prompt"
<1> DEFINE Shown == /\ progress'.state \in {"scanning", "threat_prompt"}
                    /\ pc'[i] # "settle"
                    /\ pc'[i] = "promptWait" => state' = "threat_prompt"
<1>a. pc \in [ScanIds -> PCs] /\ progress \in ScanProgress
  BY DEF TypeOK, TaskTypeOK, ViewTypeOK
<1> USE <1>a DEF At, Goto
<1>1. ASSUME EnginesStep(i) PROVE Shown
  BY <1>1 DEF EnginesStep, ClamAnswer, ClamTimeout, YaraAnswer, YaraTimeout, YaraKilled
<1>2. ASSUME Begin(i) \/ Exhausted(i) \/ NextCancelled(i) \/ ResumeStop(i) PROVE Shown
  BY <1>2, ProgressSet DEF Begin, Exhausted, NextCancelled, ResumeStop, LeaveLoop
<1>3. ASSUME NEW size \in FileSizes, NEW installed \in BOOLEAN, NextFile(i, size, installed)
      PROVE  Shown
  BY <1>3, ProgressSet DEF NextFile
<1>4. ASSUME NEW installed \in BOOLEAN, StartYara(i, installed) PROVE Shown
  BY <1>4, ProgressSet DEF StartYara
<1>5. ASSUME Hash(i) PROVE Shown
  BY <1>5, ProgressSet DEF Hash
<1>6. ASSUME Alert(i) \/ ResumeDetails(i) PROVE Shown
  BY <1>6 DEF Alert, ResumeDetails, Answered, Prompt, ScanProgress
<1>7. ASSUME ResumeContinue(i) PROVE Shown
  BY <1>7 DEF ResumeContinue, Answered
<1>8. ASSUME \/ \E size \in FileSizes : NextSkipped(i, size)
             \/ SkipTimedOut(i) \/ Detect(i) \/ SkipYara(i) \/ NextHit(i) \/ Count(i)
             \/ WriteTxt(i) \/ WriteHtml(i) \/ LogSkipped(i) \/ Except(i) \/ FinishRaises(i)
             \/ Raise(i) \/ CountRaises(i)
      PROVE  Shown
  <2>1. progress' = progress /\ pc'[i] \notin {"settle", "promptWait"}
    BY <1>8 DEF NextSkipped, SkipTimedOut, Detect, SkipYara, NextHit, Count, WriteTxt,
       WriteHtml, LogSkipped, Except, FinishRaises, Raise, CountRaises
  <2> QED
    BY <2>1
<1> QED
  BY <1>1, <1>2, <1>3, <1>4, <1>5, <1>6, <1>7, <1>8 DEF ScanStep

\* A step of the scan leaves its row and the progress as the main coroutine and
\* the watcher need them.
LEMMA ScanInProgress ==
  ASSUME EngineInv, InProgress, NEW i \in ScanIds, EnginesStep(i) \/ ScanStep(i)
  PROVE  InProgress'
<1>1. OwnStep(i)
  BY CoroutineStep DEF EngineInv
<1>2. scanTask = i /\ scanTask' = i /\ Live(i)
  BY <1>1 DEF OwnStep, EngineInv, SingleScan
<1>3. progress.state \in {"scanning", "threat_prompt"}
  BY <1>2 DEF InProgress, Over
<1>a. /\ pc \in [ScanIds -> PCs] /\ progress \in ScanProgress
      /\ scans \in [ScanIds -> Row] /\ loc \in [ScanIds -> Locals] /\ loc[i] \in Locals
      /\ RowFollows(i)
  BY DEF EngineInv, TypeOK, TaskTypeOK, ViewTypeOK, HistoryTypeOK, LedgerInv
<1>4. CASE Settle(i)
  <2>1. /\ scans' = scans /\ pc'[i] = "done" /\ progress'.threats = loc[i].threats
        /\ pc[i] = "settle"
    BY <1>4, <1>a DEF Settle, At, Goto, history, ProgressAt
  <2>2. Closed(i) /\ scans[i].threats = loc[i].threats
    BY <1>2, <2>1 DEF InProgress
  <2> QED
    BY <1>2, <2>1, <2>2 DEF InProgress, Over, Closed, Live, Suspended, Busy
<1>5. CASE Finish(i)
  <2>1. /\ pc[i] = "finish" /\ pc'[i] = "settle" /\ progress' = progress /\ loc' = loc
        /\ finish_scan(i, ScanFinish(i))
    BY <1>5, <1>a DEF Finish, At, Goto
  <2>2. scans[i] # NoRow
    BY <1>2, <1>a, <2>1 DEF RowFollows, NoRow
  <2>3. scans'[i] = ScanFinish(i)
    BY <1>a, <2>1, <2>2 DEF finish_scan
  <2>4. Closed(i)' /\ scans'[i].threats = loc'[i].threats
    BY <1>a, <2>1, <2>3 DEF ScanFinish, Closed, Locals
  <2> QED
    BY <1>2, <1>3, <2>1, <2>4 DEF InProgress
<1>6. ASSUME ~Settle(i), ~Finish(i) PROVE InProgress'
  <2> QED
    BY <1>2, <1>3, <1>6, ScanShows DEF EngineInv, InProgress
<1> QED
  BY <1>4, <1>5, <1>6

\* What only others see leaves the command's invariant alone.
LEMMA UnseenByCommand ==
  ASSUME UNCHANGED vars
  PROVE  /\ InProgress => InProgress'
         /\ scanTask' = scanTask /\ progress' = progress /\ scans' = scans /\ pc' = pc
BY DEF vars, history, fields, InProgress, Over, Closed, Live

\* What the command does for itself, while its scan is in progress.
LEMMA CommandInvStep ==
  ASSUME EngineInv, WalkInv, CommandInv, [HeadlessNext]_headlessVars
  PROVE  CommandInv'
<1> USE DEF CommandInv
<1>1. ASSUME NEW i \in ScanIds, MainStarts(i) PROVE CommandInv'
  <2>1. /\ scanTask' = i /\ progress'.state = "scanning" /\ main' = "polling"
        /\ watcher' = watcher /\ pc'[i] = "created" /\ main = "start"
    BY <1>1 DEF MainStarts, start_scan, AdmitScan, ProgressAt, Goto, EngineInv, TypeOK,
       TaskTypeOK
  <2> QED
    BY <2>1 DEF InProgress
<1>2. ASSUME NEW i \in ScanIds, MainFails(i) PROVE CommandInv'
  BY <1>2 DEF MainFails
<1>3. ASSUME NEW i \in ScanIds, HeadlessScanStep(i) PROVE CommandInv'
  <2>1. main' = main /\ watcher' = watcher /\ printed' = printed
    BY <1>3 DEF HeadlessScanStep, Walk, Take, AskClam, AskYara, EngineFails, Flag,
       LoopEnds, ScanFails, ScanGoesOn, cliVars
  <2>2. EnginesStep(i) \/ ScanStep(i) \/ UNCHANGED vars
    BY <1>3, HeadlessScanStepKind
  <2>3. CASE UNCHANGED vars
    BY <2>1, <2>3, UnseenByCommand DEF PrintsFinalStatus, Closed, Live
  <2>4. CASE EnginesStep(i) \/ ScanStep(i)
    <3>1. Live(i) /\ scanTask = i
      BY <2>4, CoroutineStep DEF OwnStep, EngineInv, SingleScan
    <3>2. main \notin {"start", "done"} /\ watcher # "dead"
      BY <3>1
    <3> QED
      BY <2>1, <2>4, <3>2, ScanInProgress
  <2> QED
    BY <2>2, <2>3, <2>4
<1>4. ASSUME Poll PROVE CommandInv'
  <2>1. Over /\ scanTask \in ScanIds
    BY <1>4 DEF Poll, InProgress
  <2>2. /\ main' = "done" /\ watcher' = "cancelled"
        /\ printed' = [status |-> scans[scanTask].status, threats |-> progress.threats]
    BY <1>4 DEF Poll
  <2>3. scanTask' = scanTask /\ scans' = scans /\ pc' = pc
    BY <1>4, UnseenByCommand DEF Poll
  <2> QED
    BY <2>1, <2>2, <2>3 DEF Over, PrintsFinalStatus, Closed, Live
<1>5. ASSUME WatcherAnswers PROVE CommandInv'
  BY <1>5 DEF WatcherAnswers, handle_threat_action, cliVars, InProgress, Over, Closed, Live,
     history
<1>6. ASSUME WatcherDies PROVE CommandInv'
  <2>1. main = "polling" /\ scanTask \in ScanIds
    BY <1>6 DEF WatcherDies, InProgress
  <2>2. ~Live(scanTask)
    BY <1>6, <2>1 DEF WatcherDies, EngineInv, ViewInv, ViewFollows, InProgress, Serving,
       LoopFree, Live, Suspended, Waiting
  <2> QED
    BY <1>6, <2>1, <2>2, UnseenByCommand DEF WatcherDies, Live
<1>7. ASSUME CommandKilled PROVE CommandInv'
  BY <1>7 DEF CommandKilled
<1>8. ASSUME PollFails PROVE CommandInv'
  BY <1>8 DEF PollFails
<1>9. CASE UNCHANGED headlessVars
  BY <1>9, UnseenByCommand DEF headlessVars, cliVars, PrintsFinalStatus, Closed, Live
<1> QED
  BY <1>1, <1>2, <1>3, <1>4, <1>5, <1>6, <1>7, <1>8, <1>9 DEF HeadlessNext

\* At first there is no scan.
LEMMA CommandInvInit == HeadlessInit => CommandInv
BY DEF HeadlessInit, Init, NoProgress, ProgressAt, CommandInv, Live, Suspended, Busy

\* All that the command's properties rest on.
CommandIInv == EngineInv /\ WalkInv /\ CommandInv

\* It holds of every state of the command.
LEMMA CommandIsSound == HeadlessSpec => []CommandIInv
<1>1. HeadlessInit => CommandIInv
  BY HeadlessWalkInit, CommandInvInit, TypeInit, SingleInit, LedgerInvInit, ViewInvInit
     DEF CommandIInv, EngineInv, HeadlessInit
<1>2. CommandIInv /\ [HeadlessNext]_headlessVars => CommandIInv'
  <2> SUFFICES ASSUME CommandIInv, [HeadlessNext]_headlessVars PROVE CommandIInv'
    OBVIOUS
  <2>1. [Next]_vars
    BY HeadlessStepIsNext DEF CommandIInv
  <2> QED
    BY <2>1, HeadlessWalkStep, CommandInvStep, TypeStep, SingleStep, LedgerInvStep,
       ViewInvStep DEF CommandIInv, EngineInv
<1> QED
  BY <1>1, <1>2, PTL DEF HeadlessSpec

\* The watcher of the command looks at progress.state and answers by _state:
\* its answer is refused, and the watcher ends, only once the scan is over.
THEOREM WatcherLives == HeadlessSpec => []WatcherAlive
<1>1. CommandIInv => WatcherAlive
  BY DEF CommandIInv, CommandInv, WatcherAlive
<1> QED
  BY <1>1, CommandIsSound, PTL

\* What the command prints when its scan is over is what the history holds.
THEOREM PrintsHistory == HeadlessSpec => []PrintsFinalStatus
<1>1. CommandIInv => PrintsFinalStatus
  BY DEF CommandIInv, CommandInv, PrintsFinalStatus
<1> QED
  BY <1>1, CommandIsSound, PTL

-------------------------------------------------------------------------------
(***************************************************************************)
(* From disk to history.  A file that the walk has yielded is judged when  *)
(* nothing more will be recorded about it and nothing is missing; of the   *)
(* file in hand CurrentFollows says what the engines have left to say.     *)
(***************************************************************************)

Judged(n) ==
  n \in excused \cup flagged \/ TooLarge(disk[n].size) \/ ~Detectable(n)

AllJudged == \A a \in DOMAIN yielded : Judged(yielded[a])
EarlierJudged == \A a \in DOMAIN yielded : a # Len(yielded) => Judged(yielded[a])

CurrentFollows(i) ==
  /\ loc[i].size = File.size
  /\ loc[i].hits > 0 => Suspicious(Current)
  /\ pc[i] = "hash" => Judged(Current) \/ loc[i].hits > 0 \/ ~File.clam
  /\ pc[i] = "detect" => Suspicious(Current)
  /\ pc[i] \in {"alert", "promptWait"} => Current \in flagged
  /\ pc[i] \in {"yara", "yaraWait", "yaraKill"} => Judged(Current) \/ ~File.clam
  /\ pc[i] = "hits" => Judged(Current) \/ loc[i].hits > 0
  /\ pc[i] = "count" => Judged(Current)

\* The walk has come to its end, and so has what is to be said of its files.
AllSeen == walk = "over" /\ AllJudged

\* Where the scan has left the loop.
Leaving == {"report", "html", "skips", "finish", "settle"}

LoopFinds(i) ==
  /\ pc[i] = "created" => walk # "yield" /\ AllJudged
  /\ pc[i] = "next" => EarlierJudged /\ (walk # "yield" => AllJudged)
  /\ pc[i] \in FileInHand =>
       walk = "entry" /\ yielded # <<>> /\ EarlierJudged /\ CurrentFollows(i)

\* What a scan that was told to go on has seen by its end.
EndFinds(i) ==
  autoContinue =>
    /\ pc[i] \in Leaving /\ loc[i].status = "completed" => AllSeen
    /\ scans[i].status = "completed" => AllSeen

FlaggedRight == \A n \in flagged : n \in Nodes /\ ShouldScan(n) /\ Suspicious(n)

FindInv ==
  /\ autoContinue => threatAction \in {None, "continue"}
  /\ FlaggedRight
  /\ main = "start" => yielded = <<>> /\ walk # "yield"
  /\ main = "polling" => LoopFinds(scanTask) /\ EndFinds(scanTask)
  /\ main = "done" /\ printed.status = "completed" /\ autoContinue => AllSeen
  /\ main \in {"failed", "killed"} =>
       \A i \in ScanIds : pc[i] \in {"none", "finish", "settle", "done"}

\* The last file that was yielded is an entry that the mode asks for.
LEMMA CurrentIsAsked ==
  ASSUME WalkInv, yielded # <<>>
  PROVE  /\ Current \in Nodes /\ ShouldScan(Current)
         /\ File.rules \in Nat /\ File.strings \in Nat
         /\ Len(yielded) \in DOMAIN yielded
<1>1. yielded \in Seq(Nodes) /\ Len(yielded) \in DOMAIN yielded
  BY DEF WalkInv, WalkTypeOK
<1>2. ShouldScan(Current)
  BY <1>1, WalkInvExact DEF WalkExact, Current
<1>3. Current \in Nodes /\ disk \in Trees
  BY <1>1 DEF Current, WalkInv, WalkTypeOK
<1> QED
  BY <1>1, <1>2, <1>3, RulesAssumption DEF File, Nodes

\* With the file in hand all are judged.
LEMMA LastJudged ==
  ASSUME EarlierJudged, yielded # <<>> => Judged(Current)
  PROVE  AllJudged
BY DEF EarlierJudged, AllJudged, Current

\* What has been said of a file is not taken back.
LEMMA JudgedStays ==
  ASSUME UNCHANGED walkVars,
         excused \subseteq excused', flagged \subseteq flagged', noisy \subseteq noisy'
  PROVE  /\ \A n \in Nodes : /\ Judged(n) => Judged(n)'
                             /\ Suspicious(n) => Suspicious(n)'
                             /\ ShouldScan(n) => ShouldScan(n)'
         /\ AllJudged => AllJudged'
         /\ EarlierJudged => EarlierJudged'
         /\ Nodes' = Nodes /\ Current' = Current /\ File' = File
<1>1. disk' = disk /\ mode' = mode /\ yielded' = yielded
  BY DEF walkVars
<1>2. Nodes' = Nodes /\ Current' = Current /\ File' = File
  BY <1>1 DEF Nodes, Current, File
<1>3. \A n : (Judged(n) => Judged(n)') /\ (Suspicious(n) => Suspicious(n)')
             /\ (ShouldScan(n) => ShouldScan(n)')
  BY <1>1 DEF Judged, Detectable, Suspicious, ShouldScan
<1> QED
  BY <1>1, <1>2, <1>3 DEF AllJudged, EarlierJudged

\* The walk yields one file at a time, and nothing once it has ended.
LEMMA WalkYields ==
  ASSUME WalkInv, WalkStep
  PROVE  /\ disk' = disk /\ mode' = mode /\ walk \notin {"yield", "over"}
         /\ \/ yielded' = yielded /\ walk' # "yield"
            \/ walk' = "yield" /\ \E n \in Nodes : yielded' = Append(yielded, n)
BY DEF WalkStep, OpenDirectory, OpenFails, WalkEnds, ReadFails, CloseDirectory,
   PushDirectory, SkipEntry, YieldFile, EntryFails, BadTime

\* While the scan waits for its next file, those before it have been judged.
LEMMA FindsWalk ==
  ASSUME EngineInv, WalkInv, NEW i \in ScanIds, LoopFinds(i), EndFinds(i), Walk(i)
  PROVE  LoopFinds(i)' /\ EndFinds(i)' /\ (FlaggedRight => FlaggedRight')
<1>1. /\ pc[i] = "next" /\ WalkStep /\ pc' = pc /\ loc' = loc /\ scans' = scans
      /\ autoContinue' = autoContinue
      /\ flagged' = flagged /\ excused' = excused /\ noisy' = noisy
  BY DEF Walk, At, vars, history, cliVars, logVars
<1>2. /\ disk' = disk /\ mode' = mode /\ walk \notin {"yield", "over"}
      /\ \/ yielded' = yielded /\ walk' # "yield"
         \/ walk' = "yield" /\ \E n \in Nodes : yielded' = Append(yielded, n)
  BY <1>1, WalkYields
<1>3. \A n : (Judged(n) <=> Judged(n)') /\ (Suspicious(n) <=> Suspicious(n)')
             /\ (ShouldScan(n) <=> ShouldScan(n)')
  BY <1>1, <1>2 DEF Judged, Detectable, Suspicious, ShouldScan
<1>4. AllJudged
  BY <1>1, <1>2 DEF LoopFinds
<1>5. EarlierJudged' /\ (walk' # "yield" => AllJudged')
  <2>1. CASE yielded' = yielded /\ walk' # "yield"
    BY <1>3, <1>4, <2>1 DEF AllJudged, EarlierJudged
  <2>2. CASE walk' = "yield" /\ \E n \in Nodes : yielded' = Append(yielded, n)
    <3>1. PICK n \in Nodes : yielded' = Append(yielded, n)
      BY <2>2
    <3>2. yielded \in Seq(Nodes)
      BY DEF WalkInv, WalkTypeOK
    <3>3. \A a \in DOMAIN yielded' : a # Len(yielded') => a \in DOMAIN yielded /\ yielded'[a] = yielded[a]
      BY <3>1, <3>2
    <3> QED
      BY <1>3, <1>4, <2>2, <3>3 DEF AllJudged, EarlierJudged
  <2> QED
    BY <1>2, <2>1, <2>2
<1>6. scans[i].status = "running"
  BY <1>1 DEF EngineInv, LedgerInv, RowFollows, Live, Busy
<1>7. FlaggedRight => FlaggedRight'
  BY <1>1, <1>2, <1>3 DEF FlaggedRight, Nodes
<1> QED
  BY <1>1, <1>5, <1>6, <1>7 DEF LoopFinds, EndFinds, FileInHand, Leaving

\* A file that is taken is in hand, or has been judged by its size.
LEMMA FindsTake ==
  ASSUME EngineInv, WalkInv, NEW i \in ScanIds, LoopFinds(i), EndFinds(i), Take(i)
  PROVE  LoopFinds(i)' /\ EndFinds(i)' /\ (FlaggedRight => FlaggedRight')
<1>1. /\ pc[i] = "next" /\ TakeFile /\ scans' = scans /\ autoContinue' = autoContinue
      /\ flagged' = flagged /\ excused \subseteq excused' /\ noisy' = noisy
      /\ \/ NextSkipped(i, File.size)
         \/ \E installed \in BOOLEAN : NextFile(i, File.size, installed) /\ Excuse(~installed)
  BY DEF Take, NextSkipped, NextFile, At, history, cliVars, logVars, Excuse
<1>2. /\ disk' = disk /\ mode' = mode /\ yielded' = yielded /\ walk' = "entry"
      /\ yielded # <<>> /\ EarlierJudged
  BY <1>1 DEF TakeFile, WalkInv, WalkTypeOK, LoopFinds
<1>3. \A n : (Judged(n) => Judged(n)') /\ (Suspicious(n) => Suspicious(n)')
             /\ (ShouldScan(n) => ShouldScan(n)')
  BY <1>1, <1>2 DEF Judged, Detectable, Suspicious, ShouldScan
<1>4. Current' = Current /\ File' = File /\ EarlierJudged'
  BY <1>2, <1>3 DEF Current, File, EarlierJudged
<1>5. scans[i].status = "running"
  BY <1>1 DEF EngineInv, LedgerInv, RowFollows, Live, Busy
<1>a. loc \in [ScanIds -> Locals] /\ pc \in [ScanIds -> PCs]
  BY DEF EngineInv, TypeOK, TaskTypeOK
<1>6. CASE NextSkipped(i, File.size)
  <2>1. Judged(Current) /\ pc' = pc
    BY <1>6 DEF NextSkipped, Judged, File
  <2>2. AllJudged'
    BY <1>2, <1>3, <2>1, LastJudged DEF AllJudged
  <2> QED
    BY <1>1, <1>2, <1>3, <1>4, <1>5, <2>1, <2>2
       DEF LoopFinds, EndFinds, FlaggedRight, FileInHand, Leaving, Nodes
<1>7. ASSUME NEW installed \in BOOLEAN, NextFile(i, File.size, installed), Excuse(~installed)
      PROVE  LoopFinds(i)' /\ EndFinds(i)' /\ (FlaggedRight => FlaggedRight')
  <2>1. /\ loc'[i].size = File.size /\ loc'[i].hits = 0
        /\ pc'[i] = IF installed THEN "clamWait" ELSE "hash"
        /\ ~installed => Current \in excused'
    BY <1>7, <1>a DEF NextFile, SetLocals, Goto, Excuse, Locals
  <2>2. ~installed => Judged(Current)'
    BY <1>4, <2>1 DEF Judged
  <2>3. CurrentFollows(i)'
    BY <1>4, <2>1, <2>2 DEF CurrentFollows
  <2> QED
    BY <1>1, <1>2, <1>3, <1>4, <1>5, <2>1, <2>3
       DEF LoopFinds, EndFinds, FlaggedRight, FileInHand, Leaving, Nodes
<1> QED
  BY <1>1, <1>6, <1>7

\* The loop is left by its end, by a cancellation or by an answer; from there the
\* status stays, unless it becomes "failed".
LEMMA LeavingStep ==
  ASSUME TypeOK, NEW i \in ScanIds, EnginesStep(i) \/ ScanStep(i),
         ~Exhausted(i), ~NextCancelled(i), ~ResumeStop(i),
         pc'[i] \in Leaving, loc'[i].status = "completed"
  PROVE  pc[i] \in Leaving /\ loc[i].status = "completed"
<1>a. pc \in [ScanIds -> PCs] /\ loc \in [ScanIds -> Locals] /\ loc[i] \in Locals
  BY DEF TypeOK, TaskTypeOK
<1> USE <1>a DEF Leaving, At, Goto, SetLocals, Locals
<1>1. ~EnginesStep(i)
  BY DEF EnginesStep, ClamAnswer, ClamTimeout, YaraAnswer, YaraTimeout, YaraKilled
<1>2. ~Begin(i) /\ ~SkipTimedOut(i) /\ ~Hash(i) /\ ~Detect(i) /\ ~Alert(i)
  BY DEF Begin, SkipTimedOut, Hash, Detect, Alert
<1>3. ~ResumeContinue(i) /\ ~ResumeDetails(i) /\ ~SkipYara(i) /\ ~NextHit(i) /\ ~Count(i)
  BY DEF ResumeContinue, ResumeDetails, Answered, SkipYara, NextHit, Count
<1>4. /\ \A size \in FileSizes : ~NextSkipped(i, size)
      /\ \A size \in FileSizes, installed \in BOOLEAN : ~NextFile(i, size, installed)
      /\ \A installed \in BOOLEAN : ~StartYara(i, installed)
  BY DEF NextSkipped, NextFile, StartYara
<1>5. ~Raise(i) /\ ~CountRaises(i) /\ ~FinishRaises(i) /\ ~Settle(i)
  BY DEF Raise, CountRaises, FinishRaises, Settle
<1>6. ~Except(i)
  BY DEF Except
<1>7. CASE WriteTxt(i) \/ WriteHtml(i) \/ LogSkipped(i) \/ Finish(i)
  BY <1>7 DEF WriteTxt, WriteHtml, LogSkipped, Finish
<1> QED
  BY <1>1, <1>2, <1>3, <1>4, <1>5, <1>6, <1>7 DEF ScanStep

\* A row is completed by Finish, and the coroutine has left the loop by then.
LEMMA RowStep ==
  ASSUME EngineInv, NEW i \in ScanIds, EnginesStep(i) \/ ScanStep(i),
         scans'[i].status = "completed"
  PROVE  pc[i] \in Leaving /\ (loc[i].status = "completed" \/ scans[i].status = "completed")
<1>1. Live(i) /\ RowFollows(i)
  BY CoroutineStep DEF EngineInv, OwnStep, LedgerInv
<1>2. CASE Finish(i)
  <2>1. pc[i] = "finish" /\ finish_scan(i, ScanFinish(i)) /\ scans \in [ScanIds -> Row]
    BY <1>2 DEF Finish, At, EngineInv, TypeOK, HistoryTypeOK
  <2>2. scans'[i] = scans[i] \/ scans'[i] = ScanFinish(i)
    BY <2>1 DEF finish_scan
  <2> QED
    BY <2>1, <2>2 DEF ScanFinish, Leaving
<1>3. CASE ~Finish(i)
  <2>1. scans'[i].status = scans[i].status
    <3>1. CASE Count(i)
      BY <3>1, CountRow DEF EngineInv
    <3>2. CASE ~Count(i)
      <4>1. scans' = scans
        BY <1>3, <3>2 DEF EnginesStep, ScanStep, ClamAnswer, ClamTimeout, YaraAnswer,
           YaraTimeout, YaraKilled, Begin, Exhausted, NextCancelled, NextSkipped,
           NextFile, SkipTimedOut, Hash, Detect, Alert, ResumeContinue, ResumeDetails,
           ResumeStop, StartYara, SkipYara, NextHit, WriteTxt, WriteHtml, LogSkipped,
           Except, FinishRaises, Settle, Raise, CountRaises, history
      <4> QED
        BY <4>1
    <3> QED
      BY <3>1, <3>2
  <2>2. pc[i] = "settle"
    BY <1>1, <2>1 DEF RowFollows
  <2> QED
    BY <2>1, <2>2 DEF Leaving
<1> QED
  BY <1>2, <1>3

\* The steps in which the walk stands still and more may be said of its files.
Still ==
  /\ UNCHANGED walkVars /\ autoContinue' = autoContinue
  /\ excused \subseteq excused' /\ flagged \subseteq flagged' /\ noisy \subseteq noisy'

\* In all of these, what has been seen by the end remains so; and a scan that
\* was told to go on leaves its loop only where the walk has ended.
LEMMA EndStays ==
  ASSUME EngineInv, AnswerGiven, autoContinue => threatAction \in {None, "continue"},
         NEW i \in ScanIds, EnginesStep(i) \/ ScanStep(i), ~NextCancelled(i), Still,
         Exhausted(i) => walk = "over", LoopFinds(i), EndFinds(i)
  PROVE  EndFinds(i)'
<1> SUFFICES ASSUME autoContinue,
                    \/ pc'[i] \in Leaving /\ loc'[i].status = "completed"
                    \/ scans'[i].status = "completed"
             PROVE  AllSeen'
  BY DEF EndFinds, Still
<1>1. AllSeen => AllSeen'
  BY JudgedStays DEF Still, AllSeen, walkVars
<1>2. ASSUME Exhausted(i) PROVE AllSeen
  BY <1>2 DEF Exhausted, At, LoopFinds, AllSeen
<1>3. ~ResumeStop(i)
  BY NoneAssumption DEF ResumeStop, Answered, Answer, AnswerGiven, ThreatAction
<1>4. CASE ~Exhausted(i) /\ pc'[i] \in Leaving /\ loc'[i].status = "completed"
  BY <1>1, <1>3, <1>4, LeavingStep DEF EngineInv, EndFinds
<1>5. CASE scans'[i].status = "completed"
  BY <1>1, <1>5, RowStep DEF EndFinds
<1> QED
  BY <1>1, <1>2, <1>4, <1>5

\* The file in hand stays in hand while the walk stands still.
LEMMA InHandStays ==
  ASSUME WalkInv, NEW i \in ScanIds, LoopFinds(i), pc[i] \in FileInHand, Still
  PROVE  /\ CurrentFollows(i)
         /\ walk' = "entry" /\ yielded' # <<>> /\ EarlierJudged'
         /\ Judged(Current)' => AllJudged'
         /\ Judged(Current) => Judged(Current)'
         /\ Suspicious(Current) => Suspicious(Current)'
         /\ Current' = Current /\ File' = File /\ File = disk[Current]
         /\ Current \in Nodes /\ ShouldScan(Current)
         /\ File.rules \in Nat /\ File.strings \in Nat
<1>1. walk = "entry" /\ yielded # <<>> /\ EarlierJudged /\ CurrentFollows(i)
  BY DEF LoopFinds
<1>2. /\ walk' = walk /\ yielded' = yielded /\ EarlierJudged'
      /\ Current' = Current /\ File' = File
      /\ Current \in Nodes /\ ShouldScan(Current)
      /\ File.rules \in Nat /\ File.strings \in Nat
  BY <1>1, JudgedStays, CurrentIsAsked DEF Still, walkVars
<1>3. /\ Judged(Current) => Judged(Current)'
      /\ Suspicious(Current) => Suspicious(Current)'
  BY <1>2, JudgedStays DEF Still, Judged, Suspicious, Detectable
<1>4. Judged(Current)' => AllJudged'
  BY <1>2 DEF EarlierJudged, AllJudged, Current
<1> QED
  BY <1>1, <1>2, <1>3, <1>4 DEF File

\* A file whose engine has failed or was not there has been excused.
LEMMA ExcusedIsJudged ==
  ASSUME UNCHANGED walkVars, Excuse(TRUE)
  PROVE  Judged(Current)'
BY DEF Excuse, walkVars, Judged, Current

\* ClamAV's answer: a clean one of a run that did not fail is about a file that it
\* does not know.
LEMMA FindsClam ==
  ASSUME EngineInv, WalkInv, NEW i \in ScanIds, LoopFinds(i), AskClam(i)
  PROVE  Still /\ LoopFinds(i)' /\ flagged' = flagged
<1>1. PICK run \in ClamRuns(File) : ClamAnswer(i, ~ClamClean(run)) /\ Excuse(run.exit = 2)
  BY DEF AskClam
<1>2. Still /\ pc[i] = "clamWait" /\ flagged' = flagged
  BY <1>1 DEF AskClam, Still, Excuse, cliVars
<1>3. pc[i] \in FileInHand
  BY <1>2 DEF FileInHand
<1>a. loc \in [ScanIds -> Locals] /\ pc \in [ScanIds -> PCs]
  BY DEF EngineInv, TypeOK, TaskTypeOK
<1>4. /\ pc'[i] = "hash" /\ loc'[i].size = loc[i].size
      /\ loc'[i].hits = IF ~ClamClean(run) THEN 1 ELSE 0
  BY <1>1, <1>a DEF ClamAnswer, SetLocals, Goto, Locals
<1>5. ~ClamClean(run) => Suspicious(Current)
  BY <1>1, <1>2, <1>3, InHandStays DEF ClamRuns, ClamRun, ClamClean, HasSignature, Suspicious
<1>6. ClamClean(run) => ~File.clam \/ Judged(Current)'
  <2>1. run.exit = 2 => Judged(Current)'
    BY <1>1, <1>2, ExcusedIsJudged DEF Still
  <2>2. ClamClean(run) /\ run.exit # 2 => ~File.clam
    BY <1>1 DEF ClamRuns, ClamRun, ClamClean, HasSignature
  <2> QED
    BY <2>1, <2>2
<1>7. CurrentFollows(i)'
  BY <1>2, <1>3, <1>4, <1>5, <1>6, InHandStays DEF CurrentFollows
<1> QED
  BY <1>2, <1>3, <1>4, <1>7, InHandStays DEF LoopFinds, FileInHand

\* What rules match shows in the lines, and lines beyond them are noise.
LEMMA LinesShowRules ==
  ASSUME NEW file, file.rules \in Nat, file.strings \in Nat
  PROVE  /\ MatchLines(file) \in Nat
         /\ file.rules > 0 <=> MatchLines(file) > 0
<1>1. file.rules = 0 => file.rules * (1 + file.strings) = 0
  OBVIOUS
<1>2. file.rules > 0 => file.rules * (1 + file.strings) >= 1 + file.strings
  OBVIOUS
<1>3. file.rules * (1 + file.strings) \in Nat
  OBVIOUS
<1> QED
  BY <1>1, <1>2, <1>3 DEF MatchLines

\* YARA's answer: a run that did not fail has a match if a rule matches.
LEMMA FindsYara ==
  ASSUME EngineInv, WalkInv, NEW i \in ScanIds, LoopFinds(i), AskYara(i)
  PROVE  Still /\ LoopFinds(i)' /\ flagged' = flagged
<1>1. PICK run \in YaraRuns(File) :
        /\ YaraMatches(run) \in 0..MaxHits
        /\ YaraAnswer(i, YaraMatches(run)) /\ Excuse(run.exit # 0)
        /\ noisy' = noisy \cup
             (IF YaraMatches(run) > MatchLines(File) THEN {Current} ELSE {})
  BY DEF AskYara
<1>2. Still /\ pc[i] = "yaraWait" /\ flagged' = flagged
  BY <1>1 DEF AskYara, Still, Excuse, cliVars
<1>3. pc[i] \in FileInHand
  BY <1>2 DEF FileInHand
<1>a. loc \in [ScanIds -> Locals] /\ pc \in [ScanIds -> PCs]
  BY DEF EngineInv, TypeOK, TaskTypeOK
<1>4. pc'[i] = "hits" /\ loc'[i].size = loc[i].size /\ loc'[i].hits = YaraMatches(run)
  BY <1>1, <1>a DEF YaraAnswer, SetLocals, Goto, Locals
<1>b. /\ Current' = Current /\ File' = File /\ File = disk[Current] /\ disk' = disk
      /\ File.rules \in Nat /\ File.strings \in Nat
  BY <1>2, <1>3, InHandStays DEF Still, walkVars
<1>c. MatchLines(File) \in Nat /\ (File.rules > 0 <=> MatchLines(File) > 0)
  BY <1>b, LinesShowRules
<1>5. YaraMatches(run) > 0 => Suspicious(Current)'
  <2>1. CASE File.rules > 0
    BY <1>b, <2>1 DEF Suspicious
  <2>2. CASE MatchLines(File) = 0
    BY <1>1, <1>b, <2>2 DEF Suspicious
  <2> QED
    BY <1>b, <1>c, <2>1, <2>2
<1>6. YaraMatches(run) > 0 \/ Judged(Current)'
  <2>1. run.exit # 0 => Judged(Current)'
    BY <1>1, <1>2, ExcusedIsJudged DEF Still
  <2>2. run.exit = 0 => YaraMatches(run) >= MatchLines(File)
    BY <1>1, <1>c DEF YaraRuns, YaraRun, YaraMatches
  <2>3. ~File.clam /\ File.rules = 0 => Judged(Current)'
    BY <1>b DEF Judged, Detectable
  <2>4. Judged(Current) \/ ~File.clam
    BY <1>2, <1>3, InHandStays DEF CurrentFollows
  <2> QED
    BY <1>1, <1>2, <1>3, <1>b, <1>c, <2>1, <2>2, <2>3, <2>4, InHandStays
<1>7. CurrentFollows(i)'
  BY <1>2, <1>3, <1>4, <1>5, <1>6, InHandStays DEF CurrentFollows
<1> QED
  BY <1>2, <1>3, <1>4, <1>7, InHandStays DEF LoopFinds, FileInHand

\* An engine that has not examined the file excuses it.
LEMMA FindsFailure ==
  ASSUME EngineInv, WalkInv, NEW i \in ScanIds, LoopFinds(i), EngineFails(i)
  PROVE  Still /\ LoopFinds(i)' /\ flagged' = flagged
<1>1. Still /\ Judged(Current)' /\ flagged' = flagged
  BY ExcusedIsJudged DEF EngineFails, Still, Excuse, cliVars
<1>a. loc \in [ScanIds -> Locals] /\ pc \in [ScanIds -> PCs]
  BY DEF EngineInv, TypeOK, TaskTypeOK
<1>2. CASE SkipTimedOut(i)
  <2>1. pc[i] \in FileInHand /\ pc'[i] = "next"
    BY <1>2, <1>a DEF SkipTimedOut, At, Goto, FileInHand
  <2> QED
    BY <1>1, <2>1, InHandStays DEF LoopFinds, FileInHand
<1>3. CASE YaraKilled(i) \/ StartYara(i, FALSE)
  <2>1. /\ pc[i] \in FileInHand /\ pc'[i] = "hits"
        /\ loc'[i].size = loc[i].size /\ loc'[i].hits = loc[i].hits
    BY <1>3, <1>a DEF YaraKilled, StartYara, At, Goto, SetLocals, FileInHand, Locals
  <2>2. CurrentFollows(i)'
    BY <1>1, <2>1, InHandStays DEF CurrentFollows
  <2> QED
    BY <1>1, <2>1, <2>2, InHandStays DEF LoopFinds, FileInHand
<1> QED
  BY <1>2, <1>3 DEF EngineFails

\* A detection is recorded about the file in hand, which has given cause for it.
LEMMA FindsFlag ==
  ASSUME EngineInv, WalkInv, NEW i \in ScanIds, LoopFinds(i), Flag(i)
  PROVE  Still /\ LoopFinds(i)' /\ (FlaggedRight => FlaggedRight')
<1>1. /\ Still /\ flagged' = flagged \cup {Current}
      /\ pc[i] = "detect" /\ pc[i] \in FileInHand /\ pc'[i] = "alert" /\ loc' = loc
  BY DEF Flag, Still, cliVars, Detect, At, Goto, FileInHand, EngineInv, TypeOK, TaskTypeOK
<1>2. CurrentFollows(i)'
  BY <1>1, InHandStays DEF CurrentFollows
<1>3. LoopFinds(i)'
  BY <1>1, <1>2, InHandStays DEF LoopFinds, FileInHand
<1>4. Suspicious(Current)
  BY <1>1, InHandStays DEF CurrentFollows
<1>5. FlaggedRight => FlaggedRight'
  BY <1>1, <1>4, InHandStays, JudgedStays DEF FlaggedRight, Still
<1> QED
  BY <1>1, <1>3, <1>5

\* The other steps of the scan.
LEMMA FindsOther ==
  ASSUME EngineInv, WalkInv, NEW i \in ScanIds, LoopFinds(i),
         LoopEnds(i) \/ ScanFails(i) \/ ScanGoesOn(i)
  PROVE  Still /\ LoopFinds(i)' /\ flagged' = flagged
<1>1. Still /\ flagged' = flagged
  BY DEF LoopEnds, ScanFails, ScanGoesOn, Still, cliVars, logVars
<1> SUFFICES LoopFinds(i)'
  BY <1>1
<1>a. loc \in [ScanIds -> Locals] /\ loc[i] \in Locals /\ pc \in [ScanIds -> PCs]
  BY DEF EngineInv, TypeOK, TaskTypeOK
<1>2. ASSUME pc[i] \in FileInHand, pc'[i] \in FileInHand, CurrentFollows(i)'
      PROVE  LoopFinds(i)'
  BY <1>1, <1>2, InHandStays DEF LoopFinds, FileInHand
<1>3. ASSUME pc'[i] \notin {"created", "next"} \cup FileInHand PROVE LoopFinds(i)'
  BY <1>3 DEF LoopFinds
<1> USE <1>a DEF At, Goto, SetLocals, Locals
<1>4. CASE Begin(i)
  <2>1. pc[i] = "created" /\ pc'[i] = "next" /\ walk # "yield" /\ AllJudged
    BY <1>4 DEF Begin, LoopFinds
  <2>2. AllJudged' /\ EarlierJudged'
    BY <1>1, <2>1, JudgedStays DEF Still, AllJudged, EarlierJudged
  <2> QED
    BY <2>1, <2>2 DEF LoopFinds, FileInHand
<1>5. CASE ClamTimeout(i) \/ YaraTimeout(i) \/ Alert(i) \/ ResumeDetails(i)
  <2>1. /\ loc' = loc /\ pc[i] \in FileInHand /\ pc'[i] \in FileInHand
        /\ <<pc[i], pc'[i]>> \in {<<"clamWait", "clamKill">>, <<"yaraWait", "yaraKill">>,
             <<"alert", "promptWait">>, <<"promptWait", "promptWait">>}
    BY <1>5 DEF ClamTimeout, YaraTimeout, Alert, ResumeDetails, Answered, FileInHand
  <2>2. CurrentFollows(i)'
    BY <1>1, <2>1, InHandStays, JudgedStays DEF CurrentFollows, Still
  <2> QED
    BY <1>2, <2>1, <2>2
<1>6. CASE Hash(i)
  <2>1. /\ pc[i] = "hash" /\ pc[i] \in FileInHand /\ loc'[i].size = loc[i].size
        /\ \/ loc[i].hits > 0 /\ loc'[i].hits = 0 /\ pc'[i] = "detect"
           \/ ~(loc[i].hits > 0) /\ loc'[i].hits = loc[i].hits /\ pc'[i] = "yara"
    <3>1. pc[i] = "hash" /\ loc[i].hits \in Nat
      BY <1>6 DEF Hash
    <3>2. CASE loc[i].hits > 0
      BY <1>6, <3>1, <3>2 DEF Hash, FileInHand
    <3>3. CASE ~(loc[i].hits > 0)
      BY <1>6, <3>1, <3>3 DEF Hash, FileInHand
    <3> QED
      BY <3>2, <3>3
  <2>2. CurrentFollows(i)'
    BY <1>1, <2>1, InHandStays DEF CurrentFollows
  <2> QED
    BY <1>2, <2>1, <2>2 DEF FileInHand
<1>7. CASE ResumeContinue(i)
  <2>1. /\ pc[i] = "promptWait" /\ pc[i] \in FileInHand /\ loc' = loc
        /\ pc'[i] \in {"yara", "hits"}
    BY <1>7 DEF ResumeContinue, Answered, FileInHand
  <2>2. Judged(Current)
    BY <1>1, <2>1, InHandStays DEF CurrentFollows, Judged
  <2>3. CurrentFollows(i)'
    BY <1>1, <2>1, <2>2, InHandStays DEF CurrentFollows
  <2> QED
    BY <1>2, <2>1, <2>3 DEF FileInHand
<1>8. CASE StartYara(i, TRUE)
  <2>1. /\ pc[i] = "yara" /\ pc[i] \in FileInHand /\ pc'[i] = "yaraWait"
        /\ loc'[i].size = loc[i].size /\ loc'[i].hits = loc[i].hits
    BY <1>8 DEF StartYara, FileInHand
  <2>2. CurrentFollows(i)'
    BY <1>1, <2>1, InHandStays DEF CurrentFollows
  <2> QED
    BY <1>2, <2>1, <2>2 DEF FileInHand
<1>9. CASE SkipYara(i)
  <2>1. /\ pc[i] = "yara" /\ pc[i] \in FileInHand /\ pc'[i] = "count" /\ loc' = loc
        /\ ~UseYara(loc[i].size)
    BY <1>9 DEF SkipYara, FileInHand
  <2>2. Judged(Current)
    BY <1>1, <2>1, InHandStays DEF CurrentFollows, Judged, Detectable
  <2>3. CurrentFollows(i)'
    BY <1>1, <2>1, <2>2, InHandStays DEF CurrentFollows
  <2> QED
    BY <1>2, <2>1, <2>3 DEF FileInHand
<1>10. CASE NextHit(i)
  <2>1. /\ pc[i] = "hits" /\ pc[i] \in FileInHand /\ loc'[i].size = loc[i].size
        /\ \/ loc[i].hits > 0 /\ loc'[i].hits = loc[i].hits - 1 /\ pc'[i] = "detect"
           \/ ~(loc[i].hits > 0) /\ loc'[i].hits = loc[i].hits /\ pc'[i] = "count"
    <3>1. pc[i] = "hits" /\ loc[i].hits \in Nat
      BY <1>10 DEF NextHit
    <3>2. CASE loc[i].hits > 0
      <4>1. /\ loc'[i] = [loc[i] EXCEPT !.threats = loc[i].threats + 1,
                                        !.hits = loc[i].hits - 1]
            /\ pc'[i] = "detect"
        BY <1>10, <3>2 DEF NextHit
      <4>2. loc'[i].size = loc[i].size /\ loc'[i].hits = loc[i].hits - 1
        BY <4>1
      <4> QED
        BY <3>1, <3>2, <4>1, <4>2 DEF FileInHand
    <3>3. CASE ~(loc[i].hits > 0)
      BY <1>10, <3>1, <3>3 DEF NextHit, FileInHand
    <3> QED
      BY <3>2, <3>3
  <2>2. CurrentFollows(i)'
    BY <1>1, <2>1, InHandStays DEF CurrentFollows
  <2> QED
    BY <1>2, <2>1, <2>2 DEF FileInHand
<1>11. CASE Count(i)
  <2>1. pc[i] = "count" /\ pc[i] \in FileInHand /\ pc'[i] = "next"
    BY <1>11 DEF Count, FileInHand
  <2>2. Judged(Current)'
    BY <1>1, <2>1, InHandStays DEF CurrentFollows
  <2> QED
    BY <1>1, <2>1, <2>2, InHandStays DEF LoopFinds, FileInHand
<1>12. CASE \/ Exhausted(i) \/ Raise(i) \/ CountRaises(i) \/ FinishRaises(i)
            \/ ResumeStop(i) \/ WriteTxt(i) \/ WriteHtml(i) \/ LogSkipped(i)
            \/ Except(i) \/ Finish(i) \/ Settle(i)
  <2>1. pc'[i] \notin {"created", "next"} \cup FileInHand
    BY <1>12 DEF Exhausted, Raise, CountRaises, FinishRaises, ResumeStop, LeaveLoop,
       WriteTxt, WriteHtml, LogSkipped, Except, Finish, Settle, FileInHand
  <2> QED
    BY <1>3, <2>1
<1> QED
  BY <1>1, <1>4, <1>5, <1>6, <1>7, <1>8, <1>9, <1>10, <1>11, <1>12
     DEF LoopEnds, ScanFails, ScanGoesOn

\* Where the scan asks for a file and gets none, the loop ends with the walk.
LEMMA OnlyLoopEnds ==
  ASSUME EngineInv, WalkInv, NEW i \in ScanIds, HeadlessScanStep(i), ~Walk(i), ~Take(i)
  PROVE  /\ EnginesStep(i) \/ ScanStep(i)
         /\ ~NextCancelled(i)
         /\ Exhausted(i) => walk = "over"
<1>a. pc \in [ScanIds -> PCs] /\ loc \in [ScanIds -> Locals] /\ loc[i] \in Locals
  BY DEF EngineInv, TypeOK, TaskTypeOK
<1>1. EnginesStep(i) \/ ScanStep(i)
  BY AskIsEnginesStep DEF HeadlessScanStep, EngineFails, Flag, LoopEnds, ScanFails,
     ScanGoesOn, EnginesStep, ScanStep
<1>2. ASSUME pc[i] = "next" PROVE LoopEnds(i)
  <2> USE <1>2 DEF At
  <2>1. ~AskClam(i) /\ ~AskYara(i) /\ ~EngineFails(i) /\ ~Flag(i) /\ ~ScanFails(i)
    BY DEF AskClam, AskYara, EngineFails, SkipTimedOut, YaraKilled, StartYara, Flag,
       Detect, ScanFails, CountRaises, FinishRaises
  <2>2. ~ScanGoesOn(i)
    BY DEF ScanGoesOn, Begin, ClamTimeout, Hash, Alert, ResumeContinue, ResumeDetails,
       ResumeStop, Answered, StartYara, SkipYara, YaraTimeout, NextHit, Count, WriteTxt,
       WriteHtml, LogSkipped, Except, Finish, Settle
  <2> QED
    BY <2>1, <2>2 DEF HeadlessScanStep
<1>3. ASSUME Exhausted(i) PROVE walk = "over"
  <2>1. pc[i] = "next" /\ pc'[i] = "report"
    BY <1>3, <1>a DEF Exhausted, At, LeaveLoop, Goto
  <2> QED
    BY <1>2, <1>a, <2>1 DEF LoopEnds, Raise, Goto
<1>4. ~NextCancelled(i)
  <2> SUFFICES ASSUME NextCancelled(i) PROVE FALSE
    OBVIOUS
  <2>1. pc[i] = "next" /\ loc'[i].yielded = loc[i].yielded + 1 /\ loc[i].yielded \in Nat
    BY <1>a DEF NextCancelled, At, SetLocals, Locals
  <2>2. loc' = loc
    BY <1>2, <2>1 DEF LoopEnds, Exhausted, Raise
  <2> QED
    BY <2>1, <2>2
<1> QED
  BY <1>1, <1>3, <1>4

\* Every step of the scan in the command.
LEMMA FindsStep ==
  ASSUME EngineInv, AnswerGiven, WalkInv, autoContinue => threatAction \in {None, "continue"},
         NEW i \in ScanIds, LoopFinds(i), EndFinds(i), HeadlessScanStep(i)
  PROVE  LoopFinds(i)' /\ EndFinds(i)' /\ (FlaggedRight => FlaggedRight')
<1>1. ASSUME Still, flagged' = flagged, FlaggedRight PROVE FlaggedRight'
  BY <1>1, JudgedStays DEF FlaggedRight, Still
<1>2. CASE Walk(i) \/ Take(i)
  BY <1>2, FindsWalk, FindsTake
<1>3. CASE ~Walk(i) /\ ~Take(i)
  <2>1. Still /\ LoopFinds(i)' /\ (FlaggedRight => FlaggedRight')
    BY <1>1, <1>3, FindsClam, FindsYara, FindsFailure, FindsFlag, FindsOther
       DEF HeadlessScanStep
  <2>2. ~Exhausted(i) \/ walk = "over"
    BY <1>3, OnlyLoopEnds
  <2>3. ~NextCancelled(i)
    BY <1>3, OnlyLoopEnds
  <2>4. EnginesStep(i) \/ ScanStep(i)
    BY <1>3, OnlyLoopEnds
  <2> QED
    BY <2>1, <2>2, <2>3, <2>4, EndStays
<1> QED
  BY <1>2, <1>3

\* The last steps of a scan say nothing about its files.
LEMMA LastSteps ==
  ASSUME EngineInv, NEW i \in ScanIds, HeadlessScanStep(i), pc[i] \in {"finish", "settle"}
  PROVE  UNCHANGED <<walkVars, logVars>> /\ pc'[i] \in {"settle", "done"}
<1>a. pc \in [ScanIds -> PCs]
  BY DEF EngineInv, TypeOK, TaskTypeOK
<1>1. ~Walk(i) /\ ~Take(i) /\ ~AskClam(i) /\ ~AskYara(i)
  BY DEF Walk, Take, NextSkipped, NextFile, AskClam, AskYara, At
<1>2. ~EngineFails(i) /\ ~Flag(i) /\ ~LoopEnds(i)
  BY DEF EngineFails, SkipTimedOut, YaraKilled, StartYara, Flag, Detect, LoopEnds, Exhausted, At
<1>3. CASE ScanFails(i)
  BY <1>3, <1>a DEF ScanFails, Raise, CanRaise, CountRaises, FinishRaises, At, Goto
<1>4. CASE ScanGoesOn(i)
  <2>1. Finish(i) \/ Settle(i)
    BY <1>4 DEF ScanGoesOn, Begin, ClamTimeout, Hash, Alert, ResumeContinue, ResumeDetails,
       ResumeStop, Answered, StartYara, SkipYara, YaraTimeout, NextHit, Count, WriteTxt,
       WriteHtml, LogSkipped, Except, At
  <2> QED
    BY <1>4, <1>a, <2>1 DEF ScanGoesOn, Finish, Settle, Goto
<1> QED
  BY <1>1, <1>2, <1>3, <1>4 DEF HeadlessScanStep

\* Every step of the command keeps it.
LEMMA FindInvStep ==
  ASSUME EngineInv, AnswerGiven, WalkInv, CommandInv, FindInv, [HeadlessNext]_headlessVars
  PROVE  FindInv'
<1>a. main \in {"start", "polling", "done", "failed", "killed"}
  BY DEF CommandInv
<1> USE DEF FindInv
<1>1. ASSUME NEW i \in ScanIds, MainStarts(i) PROVE FindInv'
  <2>1. /\ main = "start" /\ main' = "polling" /\ threatAction' = None
        /\ UNCHANGED <<walkVars, autoContinue, logVars>>
        /\ scanTask' = i /\ pc'[i] = "created" /\ scans'[i].status = "running"
    BY <1>1 DEF MainStarts, start_scan, AdmitScan, create_scan, Goto, EngineInv, TypeOK,
       TaskTypeOK, HistoryTypeOK, Row
  <2>2. FlaggedRight'
    BY <2>1, JudgedStays DEF FlaggedRight, logVars
  <2>3. yielded' = <<>> /\ walk' # "yield" /\ AllJudged'
    BY <2>1 DEF walkVars, AllJudged
  <2> QED
    BY <2>1, <2>2, <2>3 DEF LoopFinds, EndFinds, FileInHand, Leaving
<1>2. ASSUME NEW i \in ScanIds, MainFails(i) PROVE FindInv'
  <2>1. /\ main = "start" /\ main' = "failed" /\ threatAction' = None
        /\ UNCHANGED <<walkVars, autoContinue, logVars>>
        /\ pc' = [pc EXCEPT ![i] = "done"] /\ pc \in [ScanIds -> PCs]
    BY <1>2 DEF MainFails, start_scan_raises, AdmitScan, Goto, EngineInv, TypeOK, TaskTypeOK
  <2>2. \A j \in ScanIds : pc'[j] \in {"none", "done"}
    BY <2>1 DEF CommandInv, Live, PCs
  <2> QED
    BY <2>1, <2>2, JudgedStays DEF FlaggedRight, logVars
<1>3. ASSUME NEW i \in ScanIds, HeadlessScanStep(i) PROVE FindInv'
  <2>1. /\ main' = main /\ autoContinue' = autoContinue
        /\ EnginesStep(i) \/ ScanStep(i) \/ (UNCHANGED vars /\ At(i, "next"))
    BY <1>3, OnlyLoopEnds, TakeIsScanStep DEF HeadlessScanStep, Walk, Take, AskClam, AskYara,
       EngineFails, Flag, LoopEnds, ScanFails, ScanGoesOn, cliVars
  <2>2. Live(i) /\ scanTask' = scanTask /\ threatAction' = threatAction
    BY <2>1, CoroutineStep DEF OwnStep, EngineInv, At, Live, Busy, vars, fields
  <2>3. scanTask = i /\ main \notin {"start", "done"}
    BY <2>2 DEF EngineInv, SingleScan, CommandInv
  <2>4. CASE main = "polling"
    BY <1>3, <2>1, <2>2, <2>3, <2>4, FindsStep
  <2>5. CASE main # "polling"
    <3>1. pc[i] \in {"finish", "settle"} /\ main \in {"failed", "killed"}
      BY <2>2, <2>3, <2>5, <1>a DEF Live, Suspended, Busy
    <3>2. UNCHANGED <<walkVars, logVars>> /\ pc'[i] \in {"settle", "done"}
      BY <1>3, <3>1, LastSteps
    <3>3. \A j \in ScanIds : pc'[j] = pc[j] \/ j = i
      BY <2>1, <2>2, CoroutineStep DEF OwnStep, EngineInv, vars
    <3> QED
      BY <2>1, <2>2, <2>5, <3>1, <3>2, <3>3, JudgedStays DEF FlaggedRight, logVars
  <2> QED
    BY <2>4, <2>5
<1>4. ASSUME Poll PROVE FindInv'
  <2>1. scans[scanTask].status = "completed" /\ autoContinue => AllSeen
    BY <1>4 DEF Poll, EndFinds
  <2>2. /\ main' = "done" /\ printed'.status = scans[scanTask].status
        /\ threatAction' = threatAction /\ UNCHANGED <<walkVars, autoContinue, logVars>>
    BY <1>4 DEF Poll, vars, fields
  <2>3. FlaggedRight' /\ (AllJudged => AllJudged')
    BY <2>2, JudgedStays DEF FlaggedRight, logVars
  <2> QED
    BY <2>1, <2>2, <2>3 DEF AllSeen, walkVars
<1>5. ASSUME WatcherAnswers \/ WatcherDies \/ UNCHANGED headlessVars PROVE FindInv'
  <2>1. /\ UNCHANGED <<walkVars, autoContinue, logVars>> /\ main' = main /\ printed' = printed
        /\ pc' = pc /\ loc' = loc /\ scans' = scans /\ scanTask' = scanTask
        /\ threatAction' = threatAction \/ threatAction' = (IF autoContinue THEN "continue" ELSE "stop")
    BY <1>5 DEF WatcherAnswers, WatcherDies, handle_threat_action, headlessVars, cliVars,
       vars, fields, history
  <2>2. /\ FlaggedRight' /\ (AllJudged => AllJudged') /\ (EarlierJudged => EarlierJudged')
        /\ Current' = Current /\ File' = File
    BY <2>1, JudgedStays DEF FlaggedRight, logVars
  <2>3. \A i : CurrentFollows(i) => CurrentFollows(i)'
    BY <2>1, <2>2 DEF CurrentFollows, Judged, Suspicious, Detectable, walkVars, logVars
  <2> QED
    BY <2>1, <2>2, <2>3 DEF LoopFinds, EndFinds, AllSeen, walkVars
<1>6. ASSUME PollFails PROVE FindInv'
  <2>1. Over /\ main' = "failed" /\ threatAction' = threatAction /\ pc' = pc
        /\ UNCHANGED <<walkVars, autoContinue, logVars>>
    BY <1>6 DEF PollFails, CommandInv, InProgress, vars, fields
  <2>2. \A i \in ScanIds : pc[i] \in {"none", "done"}
    <3>1. pc \in [ScanIds -> PCs] /\ \A i \in ScanIds : ~Live(i)
      BY <2>1 DEF EngineInv, TypeOK, TaskTypeOK, SingleScan, Over
    <3> QED
      BY <3>1 DEF Live, PCs
  <2> QED
    BY <2>1, <2>2, JudgedStays DEF FlaggedRight, logVars
<1>7. ASSUME CommandKilled PROVE FindInv'
  <2>1. /\ main' = "killed" /\ UNCHANGED <<walkVars, autoContinue, logVars>>
        /\ threatAction' \in {threatAction, None}
    BY <1>7 DEF CommandKilled, Interrupt, Crash, FreshController, fields
  <2>2. \A i \in ScanIds : pc'[i] \in {"none", "finish", "settle", "done"}
    <3>1. pc \in [ScanIds -> PCs]
      BY DEF EngineInv, TypeOK, TaskTypeOK
    <3>2. CASE Interrupt
      BY <3>1, <3>2 DEF Interrupt, Serving, LoopFree, Stopped, PCs, Suspended
    <3>3. CASE Crash
      BY <3>1, <3>3 DEF Crash, Live, PCs
    <3> QED
      BY <1>7, <3>2, <3>3 DEF CommandKilled
  <2> QED
    BY <2>1, <2>2, JudgedStays DEF FlaggedRight, logVars
<1> QED
  BY <1>1, <1>2, <1>3, <1>4, <1>5, <1>6, <1>7 DEF HeadlessNext

\* Nothing has been yielded and nothing found when the command starts.
LEMMA FindInvInit == HeadlessInit => FindInv
BY DEF HeadlessInit, WalkInit, Init, FindInv, FlaggedRight

\* At its end the command has found what there is to find.
LEMMA FindInvExact == ASSUME WalkInv, FindInv PROVE DetectionsExact
<1>1. \A n \in flagged : ShouldScan(n) /\ Suspicious(n)
  BY DEF FindInv, FlaggedRight
<1>2. ASSUME main = "done", printed.status = "completed", autoContinue,
             NEW n \in Nodes \ excused, ShouldScan(n), ~Hidden(n),
             ~TooLarge(disk[n].size), Detectable(n)
      PROVE  n \in flagged
  <2>1. walk = "over" /\ AllJudged
    BY <1>2 DEF FindInv, AllSeen
  <2>2. n \in {yielded[a] : a \in DOMAIN yielded}
    BY <1>2, <2>1, WalkInvExact DEF WalkExact
  <2> QED
    BY <1>2, <2>1, <2>2 DEF AllJudged, Judged
<1> QED
  BY <1>1, <1>2 DEF DetectionsExact

\* All of it together, at every state of the command.
FindIInv == CommandIInv /\ AnswerGiven /\ FindInv

\* It holds of every state of the command.
LEMMA FindIsSound == HeadlessSpec => []FindIInv
<1>1. HeadlessInit => AnswerGiven
  BY DEF HeadlessInit, Init, AnswerGiven
<1>2. FindIInv /\ CommandIInv' /\ [HeadlessNext]_headlessVars => FindIInv'
  <2> SUFFICES ASSUME FindIInv, CommandIInv', [HeadlessNext]_headlessVars PROVE FindIInv'
    OBVIOUS
  <2>1. [Next]_vars
    BY HeadlessStepIsNext DEF FindIInv, CommandIInv
  <2>2. AnswerGiven'
    BY <2>1, AnswerGivenStep DEF FindIInv, CommandIInv, EngineInv
  <2>3. FindInv'
    BY FindInvStep DEF FindIInv, CommandIInv
  <2> QED
    BY <2>2, <2>3 DEF FindIInv
<1>3. HeadlessInit /\ CommandIInv => FindIInv
  BY <1>1, FindInvInit DEF FindIInv
<1> QED
  BY <1>2, <1>3, CommandIsSound, PTL DEF HeadlessSpec

\* From disk to history, for every tree, every order of its entries, any errors
\* and faults, and whatever the engines print: a completed scan that was told
\* to go on has flagged every file that the mode asks for and an engine
\* detects, but for those the rest of DetectionsExact names; and nothing has
\* been flagged without a cause.
THEOREM DetectionsAreExact == HeadlessSpec => []DetectionsExact
<1>1. FindIInv => DetectionsExact
  BY FindInvExact DEF FindIInv, CommandIInv
<1> QED
  BY <1>1, FindIsSound, PTL

-------------------------------------------------------------------------------
(***************************************************************************)
(* Types of the command.  That what is excused and flagged are files needs *)
(* the places of the scan: an engine is asked only with a file in hand.    *)
(***************************************************************************)

\* What the command has of its own, with the files of its history.
CliTypeOK ==
  /\ autoContinue \in BOOLEAN
  /\ watcher \in {"asleep", "dead", "cancelled"}
  /\ printed \in [status : ScanStatus, threats : Nat] \cup {None}
  /\ {flagged, excused, noisy} \subseteq SUBSET Nodes

\* A step of the scan that has a file in hand has an entry of the tree.
LEMMA InHandIsEntry ==
  ASSUME FindIInv, NEW i \in ScanIds, Live(i),
         walk = "yield" \/ pc[i] \in {"clamWait", "clamKill", "yara", "yaraWait", "yaraKill", "detect"}
  PROVE  Current \in Nodes
<1>1. CASE walk = "yield"
  BY <1>1, CurrentIsAsked DEF FindIInv, CommandIInv, WalkInv, WalkTypeOK
<1>2. CASE pc[i] \in {"clamWait", "clamKill", "yara", "yaraWait", "yaraKill", "detect"}
  <2>1. scanTask = i
    BY DEF FindIInv, CommandIInv, EngineInv, SingleScan
  <2>2. main = "polling"
    BY <1>2, <2>1 DEF FindIInv, CommandIInv, CommandInv, FindInv
  <2>3. yielded # <<>>
    BY <1>2, <2>1, <2>2 DEF FindIInv, FindInv, LoopFinds, FileInHand
  <2> QED
    BY <2>3, CurrentIsAsked DEF FindIInv, CommandIInv
<1> QED
  BY <1>1, <1>2

\* Every step of the command.
LEMMA CliTypeStep ==
  ASSUME FindIInv, CliTypeOK, [HeadlessNext]_headlessVars
  PROVE  CliTypeOK'
<1>a. Nodes' = Nodes
  <2>1. UNCHANGED walkVars \/ WalkStep \/ TakeFile
    BY DEF HeadlessNext, headlessVars, MainStarts, MainFails, Poll, PollFails, WatcherAnswers,
       WatcherDies, CommandKilled, HeadlessScanStep, Walk, Take, AskClam, AskYara,
       EngineFails, Flag, LoopEnds, ScanFails, ScanGoesOn
  <2> QED
    BY <2>1, WalkYields DEF FindIInv, CommandIInv, walkVars, TakeFile, Nodes
<1> USE DEF CliTypeOK
<1>1. ASSUME NEW i \in ScanIds, MainStarts(i) \/ MainFails(i) PROVE CliTypeOK'
  BY <1>a, <1>1 DEF MainStarts, MainFails, logVars
<1>2. ASSUME Poll PROVE CliTypeOK'
  <2>1. scanTask \in ScanIds
    BY <1>2 DEF Poll, FindIInv, CommandIInv, CommandInv, InProgress
  <2>2. scans[scanTask].status \in ScanStatus /\ progress.threats \in Nat
    BY <2>1 DEF FindIInv, CommandIInv, EngineInv, TypeOK, HistoryTypeOK, ViewTypeOK, Row,
       ScanProgress
  <2> QED
    BY <1>a, <1>2, <2>2 DEF Poll, logVars
<1>3. ASSUME PollFails \/ WatcherAnswers \/ WatcherDies \/ CommandKilled PROVE CliTypeOK'
  BY <1>a, <1>3 DEF PollFails, WatcherAnswers, WatcherDies, CommandKilled, cliVars, logVars
<1>4. ASSUME NEW i \in ScanIds, HeadlessScanStep(i) PROVE CliTypeOK'
  <2>1. ASSUME Walk(i) \/ LoopEnds(i) \/ ScanFails(i) \/ ScanGoesOn(i) PROVE CliTypeOK'
    BY <1>a, <2>1 DEF Walk, LoopEnds, ScanFails, ScanGoesOn, cliVars, logVars
  <2>2. ASSUME Take(i) \/ AskClam(i) \/ AskYara(i) \/ EngineFails(i) \/ Flag(i)
        PROVE  CliTypeOK'
    <3>1. Live(i)
      BY <1>4, <2>2, CoroutineStep, TakeIsScanStep, AskIsEnginesStep
         DEF EngineFails, Flag, EnginesStep, ScanStep, OwnStep, FindIInv, CommandIInv, EngineInv
    <3>2. \/ walk = "yield"
          \/ pc[i] \in {"clamWait", "clamKill", "yara", "yaraWait", "yaraKill", "detect"}
      BY <2>2 DEF Take, TakeFile, AskClam, AskYara, EngineFails, Flag, SkipTimedOut,
         YaraKilled, StartYara, Detect, At
    <3>3. Current \in Nodes
      BY <3>1, <3>2, InHandIsEntry
    <3> QED
      BY <1>a, <2>2, <3>3 DEF Take, AskClam, AskYara, EngineFails, Flag, Excuse, cliVars,
         logVars
  <2> QED
    BY <1>4, <2>1, <2>2 DEF HeadlessScanStep
<1>5. CASE UNCHANGED headlessVars
  BY <1>a, <1>5 DEF headlessVars, cliVars, logVars
<1> QED
  BY <1>1, <1>2, <1>3, <1>4, <1>5 DEF HeadlessNext

\* The command, its walk and its history keep their types for every tree: in
\* particular the status it prints is one of the history's, and nothing but
\* entries of the tree is excused or flagged.
THEOREM HeadlessTypes == HeadlessSpec => []HeadlessTypeOK
<1>1. HeadlessInit => CliTypeOK
  BY DEF HeadlessInit, CliTypeOK
<1>2. FindIInv /\ CliTypeOK /\ [HeadlessNext]_headlessVars => CliTypeOK'
  BY CliTypeStep
<1>3. FindIInv /\ CliTypeOK => HeadlessTypeOK
  BY DEF FindIInv, CommandIInv, CommandInv, WalkInv, CliTypeOK, HeadlessTypeOK
<1> QED
  BY <1>1, <1>2, <1>3, FindIsSound, PTL DEF HeadlessSpec
===============================================================================
