---------------------------- MODULE ScanOutcomeProofs ----------------------------
(***************************************************************************)
(* How a scan ends: every file is accounted for, the reports say what the  *)
(* history says, a completion is announced when it has happened, nothing   *)
(* is left open without a fault, readers are told what the coroutine does  *)
(* and how far it is, its drive is not changed meanwhile, and the status   *)
(* its row ends with is the one it has earned.  Each theorem has an        *)
(* invariant that says where the coroutine is when its locals and the      *)
(* shared state differ.                                                    *)
(***************************************************************************)
EXTENDS ScanLedgerProofs, ScanSafetyProofs

-------------------------------------------------------------------------------
(***************************************************************************)
(* Every file is accounted for.  Between the moment the enumerator yields  *)
(* a file and the moment it asks for the next one, one file is in hand.    *)
(***************************************************************************)

FileInHand == {"clamWait", "clamKill", "hash", "detect", "alert", "promptWait", "yara",
               "yaraWait", "yaraKill", "hits", "count"}

Seen(i) == loc[i].files + loc[i].skipped + events[i]["file_skipped"]

FilesFollow(i) ==
  /\ pc[i] \in {"none", "created", "next"} => loc[i].yielded = Seen(i)
  /\ pc[i] \in FileInHand => loc[i].yielded = Seen(i) + 1

FilesInv == \A i \in ScanIds : FilesFollow(i)

\* The steps between two files: the one in hand stays in hand, or the loop is left.
LEMMA InHandStep ==
  ASSUME TypeOK, NEW i \in ScanIds, FilesFollow(i),
         \/ \E infected \in BOOLEAN : ClamAnswer(i, infected)
         \/ \E matches \in 0..MaxHits : YaraAnswer(i, matches)
         \/ \E installed \in BOOLEAN : StartYara(i, installed)
         \/ ClamTimeout(i) \/ YaraTimeout(i) \/ YaraKilled(i)
         \/ Hash(i) \/ Detect(i) \/ Alert(i) \/ ResumeContinue(i) \/ ResumeDetails(i)
         \/ ResumeStop(i) \/ SkipYara(i) \/ NextHit(i)
  PROVE  FilesFollow(i)'
<1>1. /\ loc \in [ScanIds -> Locals] /\ loc[i] \in Locals /\ pc \in [ScanIds -> PCs]
      /\ events \in [ScanIds -> [EventTypes -> Nat]]
  BY DEF TypeOK, TaskTypeOK, HistoryTypeOK
<1>2. /\ loc'[i].files = loc[i].files /\ loc'[i].skipped = loc[i].skipped
      /\ loc'[i].yielded = loc[i].yielded
  BY <1>1 DEF ClamAnswer, YaraAnswer, StartYara, ClamTimeout, YaraTimeout, YaraKilled,
     Hash, Detect, Alert, ResumeContinue, ResumeDetails, ResumeStop, SkipYara, NextHit,
     SetLocals, Locals
<1>3. events'[i]["file_skipped"] = events[i]["file_skipped"]
  BY <1>1 DEF ClamAnswer, YaraAnswer, StartYara, ClamTimeout, YaraTimeout, YaraKilled,
     Hash, Detect, Alert, ResumeContinue, ResumeDetails, ResumeStop, SkipYara, NextHit,
     history, insert_event, EventTypes
<1>4. pc[i] \in FileInHand /\ pc'[i] \in FileInHand \cup {"report"}
  BY <1>1 DEF ClamAnswer, YaraAnswer, StartYara, ClamTimeout, YaraTimeout, YaraKilled,
     Hash, Detect, Alert, ResumeContinue, ResumeDetails, ResumeStop, SkipYara, NextHit,
     Answered, LeaveLoop, At, Goto, FileInHand
<1>5. Seen(i)' = Seen(i)
  BY <1>2, <1>3 DEF Seen
<1> QED
  BY <1>2, <1>4, <1>5 DEF FilesFollow, FileInHand

\* The steps that take a file, or are done with one.
LEMMA FileStep ==
  ASSUME TypeOK, NEW i \in ScanIds, FilesFollow(i),
         \/ \E size \in FileSizes : NextSkipped(i, size)
         \/ \E size \in FileSizes, installed \in BOOLEAN : NextFile(i, size, installed)
         \/ SkipTimedOut(i) \/ Count(i)
  PROVE  FilesFollow(i)'
<1>1. /\ loc \in [ScanIds -> Locals] /\ loc[i] \in Locals /\ pc \in [ScanIds -> PCs]
      /\ events \in [ScanIds -> [EventTypes -> Nat]]
      /\ loc[i].files \in Nat /\ loc[i].skipped \in Nat /\ loc[i].yielded \in Nat
      /\ events[i]["file_skipped"] \in Nat
  BY DEF TypeOK, TaskTypeOK, HistoryTypeOK, Locals, EventTypes
<1>2. ASSUME NEW size \in FileSizes, NextSkipped(i, size) PROVE FilesFollow(i)'
  <2>1. loc'[i].yielded = loc[i].yielded + 1 /\ loc'[i].skipped = loc[i].skipped + 1
    BY <1>1, <1>2 DEF NextSkipped, SetLocals, Locals
  <2>2. loc'[i].files = loc[i].files
    BY <1>1, <1>2 DEF NextSkipped, SetLocals, Locals
  <2>3. pc[i] = "next" /\ pc'[i] = "next" /\ events' = events
    BY <1>2 DEF NextSkipped, At, history
  <2> QED
    BY <1>1, <2>1, <2>2, <2>3 DEF FilesFollow, FileInHand, Seen
<1>3. ASSUME NEW size \in FileSizes, NEW installed \in BOOLEAN, NextFile(i, size, installed)
      PROVE  FilesFollow(i)'
  <2>1. loc'[i].yielded = loc[i].yielded + 1
    BY <1>1, <1>3 DEF NextFile, SetLocals, Locals
  <2>2. loc'[i].files = loc[i].files /\ loc'[i].skipped = loc[i].skipped
    BY <1>1, <1>3 DEF NextFile, SetLocals, Locals
  <2>3. pc[i] = "next" /\ pc'[i] \in {"clamWait", "hash"} /\ events' = events
    BY <1>1, <1>3 DEF NextFile, At, Goto, history
  <2> QED
    BY <1>1, <2>1, <2>2, <2>3 DEF FilesFollow, FileInHand, Seen
<1>4. ASSUME SkipTimedOut(i) PROVE FilesFollow(i)'
  <2>1. events'[i]["file_skipped"] = events[i]["file_skipped"] + 1
    BY <1>1, <1>4 DEF SkipTimedOut, insert_event, EventTypes
  <2>2. pc[i] = "clamKill" /\ pc'[i] = "next" /\ loc' = loc
    BY <1>1, <1>4 DEF SkipTimedOut, At, Goto
  <2>3. Seen(i)' = Seen(i) + 1
    <3>1. /\ loc'[i].files = loc[i].files /\ loc'[i].skipped = loc[i].skipped
      BY <2>2
    <3>2. Seen(i)' = loc[i].files + loc[i].skipped + (events[i]["file_skipped"] + 1)
      BY <2>1, <3>1 DEF Seen
    <3> QED
      BY <1>1, <3>2 DEF Seen
  <2>4. loc[i].yielded = Seen(i) + 1
    BY <2>2 DEF FilesFollow, FileInHand
  <2> QED
    BY <2>2, <2>3, <2>4 DEF FilesFollow, FileInHand
<1>5. ASSUME Count(i) PROVE FilesFollow(i)'
  <2>1. loc'[i].files = loc[i].files + 1
    BY <1>1, <1>5 DEF Count, SetLocals, Locals
  <2>2. loc'[i].yielded = loc[i].yielded /\ loc'[i].skipped = loc[i].skipped
    BY <1>1, <1>5 DEF Count, SetLocals, Locals
  <2>3. pc[i] = "count" /\ pc'[i] = "next" /\ events' = events
    BY <1>1, <1>5 DEF Count, At, Goto
  <2> QED
    BY <1>1, <2>1, <2>2, <2>3 DEF FilesFollow, FileInHand, Seen
<1> QED
  BY <1>2, <1>3, <1>4, <1>5

\* The steps before the first file and after the last one.
LEMMA NoFileStep ==
  ASSUME TypeOK, NEW i \in ScanIds, FilesFollow(i),
         \/ Begin(i) \/ Exhausted(i) \/ NextCancelled(i) \/ WriteTxt(i) \/ WriteHtml(i)
         \/ LogSkipped(i) \/ Except(i) \/ Finish(i) \/ FinishRaises(i) \/ Settle(i)
         \/ Raise(i) \/ CountRaises(i)
  PROVE  FilesFollow(i)'
<1>1. pc \in [ScanIds -> PCs]
  BY DEF TypeOK, TaskTypeOK
<1>2. CASE Begin(i)
  BY <1>1, <1>2 DEF Begin, At, Goto, history, FilesFollow, FileInHand, Seen
<1>3. CASE ~Begin(i)
  <2>1. pc'[i] \notin {"none", "created", "next"} \cup FileInHand
    BY <1>1, <1>3 DEF Exhausted, NextCancelled, WriteTxt, WriteHtml, LogSkipped, Except,
       Finish, FinishRaises, Settle, Raise, CountRaises, LeaveLoop, Goto, FileInHand
  <2> QED
    BY <2>1 DEF FilesFollow
<1> QED
  BY <1>2, <1>3

\* Every step of the engine keeps the count.
LEMMA FilesInvStep ==
  ASSUME TypeOK, LedgerInv, FilesInv, [Next]_vars
  PROVE  FilesInv'
<1> SUFFICES ASSUME NEW j \in ScanIds PROVE FilesFollow(j)'
  BY DEF FilesInv
<1>a. FilesFollow(j) /\ pc \in [ScanIds -> PCs]
  BY DEF FilesInv, TypeOK, TaskTypeOK
<1>1. ASSUME NEW i \in ScanIds, EnginesStep(i) \/ ScanStep(i) PROVE FilesFollow(j)'
  <2>1. CASE i = j
    BY <1>1, <1>a, <2>1, InHandStep, FileStep, NoFileStep DEF EnginesStep, ScanStep
  <2>2. CASE i # j
    <3>1. Elsewhere(i) /\ events'[j] = events[j]
      BY <1>1, <2>2, CoroutineFollows, OthersKeep DEF Follows
    <3> QED
      BY <1>a, <2>2, <3>1 DEF Elsewhere, FilesFollow, Seen
  <2> QED
    BY <2>1, <2>2
<1>2. ASSUME NEW i \in ScanIds, NEW rooted \in BOOLEAN,
             start_scan(i, rooted) \/ start_scan_raises(i, rooted)
      PROVE  FilesFollow(j)'
  <2>1. loc' = loc /\ events'[j]["file_skipped"] = events[j]["file_skipped"]
    BY <1>2, StartKeeps
  <2>2. pc'[j] = pc[j] \/ (pc[j] = "none" /\ pc'[j] \in {"created", "done"})
    BY <1>2, <1>a, StartKeeps DEF start_scan, start_scan_raises, Goto
  <2> QED
    BY <1>a, <2>1, <2>2 DEF FilesFollow, Seen, FileInHand
<1>3. ASSUME \/ \E d \in Drives \cup {None} : internal_drive_event(d)
             \/ cancel_scan \/ \E a \in ThreatAction : handle_threat_action(a)
             \/ Restart \/ UNCHANGED vars
      PROVE  FilesFollow(j)'
  BY <1>3, <1>a DEF internal_drive_event, cancel_scan, handle_threat_action, Restart,
     vars, history, FilesFollow, Seen
<1>4. ASSUME Interrupt PROVE FilesFollow(j)'
  <2>1. loc' = loc /\ events' = events
    BY <1>4 DEF Interrupt, history
  <2>2. pc'[j] = pc[j] \/ pc'[j] \in {"done", "finish"}
    BY <1>4, InterruptLabels
  <2> QED
    BY <1>a, <2>1, <2>2 DEF FilesFollow, Seen, FileInHand
<1>5. ASSUME Crash PROVE FilesFollow(j)'
  <2>1. pc[j] = "none" => loc'[j] = loc[j]
    BY <1>5 DEF Crash, LedgerInv, RowFollows
  <2>2. events' = events /\ (pc'[j] = "done" \/ (pc'[j] = pc[j] /\ pc[j] \in {"none", "done"}))
    BY <1>5, <1>a DEF Crash, history, Live, PCs
  <2> QED
    BY <1>a, <2>1, <2>2 DEF FilesFollow, Seen, FileInHand
<1> QED
  BY <1>1, <1>2, <1>3, <1>4, <1>5 DEF Next, Request

\* Nothing is counted at first.
LEMMA FilesInvInit == Init => FilesInv
<1> SUFFICES ASSUME Init, NEW i \in ScanIds PROVE FilesFollow(i)
  BY DEF FilesInv
<1>1. loc[i] = FreshLocals /\ events[i]["file_skipped"] = 0 /\ pc[i] = "none"
  BY DEF Init, EmptyHistory, EventTypes
<1>2. Seen(i) = 0 /\ loc[i].yielded = 0
  BY <1>1 DEF Seen, FreshLocals
<1> QED
  BY <1>1, <1>2 DEF FilesFollow, FileInHand

\* No path through the engines, the prompts and the timeouts loses a file or
\* counts it twice: when the next candidate is asked for, each one yielded
\* has been counted, skipped as too large, or skipped with an event.
THEOREM EveryFileAccounted == Spec => []FilesAccounted
<1>1. FilesInv => FilesAccounted
  BY DEF FilesInv, FilesFollow, Seen, FilesAccounted
<1> QED
  BY <1>1, TypeInit, TypeStep, LedgerInvInit, LedgerInvStep, FilesInvInit, FilesInvStep,
     PTL DEF Spec

-------------------------------------------------------------------------------
(***************************************************************************)
(* A completion is announced when it has happened.  The row is closed one  *)
(* step before the announcement, and a closed row stays closed.            *)
(***************************************************************************)

\* A closed row is not written again.
LEMMA RowFrozen ==
  ASSUME TypeOK, LedgerInv, [Next]_vars, NEW j \in ScanIds, Closed(j)
  PROVE  scans'[j] = scans[j]
<1>a. /\ scans \in [ScanIds -> Row] /\ scans[j] # NoRow /\ scans[j].status # "running"
      /\ Live(j) => pc[j] = "settle"
  BY DEF Closed, FinalStatuses, NoRow, LedgerInv, RowFollows, TypeOK, HistoryTypeOK
<1>1. ASSUME NEW i \in ScanIds, EnginesStep(i) \/ ScanStep(i) PROVE scans'[j] = scans[j]
  <2>1. CASE Count(i) \/ Finish(i)
    <3>1. i # j
      BY <1>a, <2>1 DEF Count, Finish, At, Live, Busy
    <3> QED
      BY <1>1, <3>1, CoroutineFollows DEF Follows, Elsewhere
  <2>2. CASE ~Count(i) /\ ~Finish(i)
    BY <1>1, <2>2, QuietStep DEF Detect
  <2> QED
    BY <2>1, <2>2
<1>2. ASSUME NEW i \in ScanIds, NEW rooted \in BOOLEAN,
             start_scan(i, rooted) \/ start_scan_raises(i, rooted)
      PROVE  scans'[j] = scans[j]
  BY <1>2, <1>a DEF start_scan, start_scan_raises, create_scan
<1>3. ASSUME \/ \E d \in Drives \cup {None} : internal_drive_event(d)
             \/ cancel_scan \/ \E a \in ThreatAction : handle_threat_action(a)
             \/ Interrupt \/ Restart \/ Crash \/ UNCHANGED vars
      PROVE  scans' = scans
  BY <1>3 DEF internal_drive_event, cancel_scan, handle_threat_action, Interrupt, Restart,
     Crash, vars, history
<1> QED
  BY <1>1, <1>2, <1>3 DEF Next, Request

\* So it stays closed.
LEMMA ClosedStays ==
  ASSUME TypeOK, LedgerInv, [Next]_vars, NEW j \in ScanIds, Closed(j)
  PROVE  Closed(j)'
BY RowFrozen DEF Closed

Announced ==
  latest.type = "scan_completed" => latest.scan \in ScanIds /\ Closed(latest.scan)

AnnouncedInv ==
  /\ \A i \in ScanIds : pc[i] = "settle" => Closed(i)
  /\ Announced

\* Only Finish leads to the last step of a scan, and it closes the row.
LEMMA SettleClosed ==
  ASSUME TypeOK, LedgerInv, [Next]_vars, NEW j \in ScanIds, pc'[j] = "settle", pc[j] # "settle"
  PROVE  Closed(j)'
<1>a. /\ pc \in [ScanIds -> PCs] /\ loc[j] \in Locals /\ scans \in [ScanIds -> Row]
  BY DEF TypeOK, TaskTypeOK, HistoryTypeOK
<1>1. ASSUME NEW i \in ScanIds, EnginesStep(i) \/ ScanStep(i), ~Finish(i) PROVE pc'[j] # "settle"
  <2>1. CASE i # j
    BY <1>1, <2>1, CoroutineStep DEF OwnStep
  <2>2. CASE i = j
    BY <1>1, <1>a, <2>2 DEF EnginesStep, ScanStep, ClamAnswer, ClamTimeout, YaraAnswer,
       YaraTimeout, YaraKilled, Begin, Exhausted, NextCancelled, NextSkipped,
       NextFile, SkipTimedOut, Hash, Detect, Alert, ResumeContinue, ResumeDetails,
       ResumeStop, StartYara, SkipYara, NextHit, Count, WriteTxt, WriteHtml,
       LogSkipped, Except, FinishRaises, Settle, Raise, CountRaises, LeaveLoop, Goto
  <2> QED
    BY <2>1, <2>2
<1>2. ASSUME NEW i \in ScanIds, Finish(i) PROVE Closed(j)'
  <2>1. i = j
    BY <1>2, <1>a DEF Finish, Goto
  <2>2. scans[j].status = "running"
    BY <1>2, <2>1 DEF Finish, At, LedgerInv, RowFollows, Live, Busy
  <2>3. scans'[j] = ScanFinish(j)
    BY <1>2, <1>a, <2>1, <2>2 DEF Finish, finish_scan, NoRow
  <2> QED
    BY <1>a, <2>3 DEF Closed, ScanFinish, Locals
<1>3. ASSUME Request \/ Restart \/ Crash \/ UNCHANGED vars PROVE pc'[j] # "settle"
  BY <1>3, <1>a DEF Request, internal_drive_event, start_scan, start_scan_raises, Goto,
     cancel_scan, handle_threat_action, Restart, Crash, vars
<1>4. ASSUME Interrupt PROVE pc'[j] # "settle"
  BY <1>4, InterruptLabels
<1> QED
  BY <1>1, <1>2, <1>3, <1>4 DEF Next

\* Every step keeps the invariant of announcements.
LEMMA AnnouncedStep ==
  ASSUME TypeOK, LedgerInv, AnnouncedInv, [Next]_vars
  PROVE  AnnouncedInv'
<1>1. \A i \in ScanIds : pc'[i] = "settle" => Closed(i)'
  BY ClosedStays, SettleClosed DEF AnnouncedInv
<1>2. Announced'
  <2>1. ASSUME latest' = latest PROVE Announced'
    BY <2>1, ClosedStays DEF AnnouncedInv, Announced, Closed
  <2>2. ASSUME NEW i \in ScanIds, Settle(i) PROVE Announced'
    <3>1. latest'.scan = i /\ Closed(i)
      BY <2>2 DEF Settle, publish, At, AnnouncedInv
    <3>2. Closed(i)'
      BY <3>1, ClosedStays
    <3> QED
      BY <3>1, <3>2 DEF Announced, Closed
  <2>3. ASSUME NEW i \in ScanIds, EnginesStep(i) \/ ScanStep(i), ~Settle(i)
        PROVE  latest' = latest \/ latest'.type # "scan_completed"
    <3>1. ASSUME NEW stage, NEW n, NEW t, set_progress(stage) \/ set_figures(stage, n, t)
          PROVE  latest'.type # "scan_completed"
      BY <3>1 DEF set_progress, set_figures, publish
    <3>2. CASE Begin(i) \/ Exhausted(i) \/ NextCancelled(i) \/ ResumeStop(i)
      BY <3>1, <3>2 DEF Begin, Exhausted, NextCancelled, ResumeStop, LeaveLoop
    <3>3. CASE \E size \in FileSizes, installed \in BOOLEAN : NextFile(i, size, installed)
      BY <3>1, <3>3 DEF NextFile
    <3>4. CASE \E installed \in BOOLEAN : StartYara(i, installed)
      BY <3>1, <3>4 DEF StartYara
    <3>5. CASE Hash(i)
      BY <3>1, <3>5 DEF Hash
    <3>6. CASE Alert(i) \/ Except(i)
      BY <3>6 DEF Alert, Except, publish
    <3>7. CASE \/ EnginesStep(i) \/ \E size \in FileSizes : NextSkipped(i, size)
               \/ SkipTimedOut(i) \/ Detect(i) \/ ResumeContinue(i) \/ ResumeDetails(i)
               \/ SkipYara(i) \/ NextHit(i) \/ Count(i) \/ WriteTxt(i) \/ WriteHtml(i)
               \/ LogSkipped(i) \/ Finish(i) \/ FinishRaises(i) \/ Raise(i) \/ CountRaises(i)
      BY <3>7 DEF EnginesStep, ClamAnswer, ClamTimeout, YaraAnswer, YaraTimeout,
         YaraKilled, NextSkipped, SkipTimedOut, Detect, ResumeContinue, ResumeDetails,
         SkipYara, NextHit, Count, WriteTxt, WriteHtml, LogSkipped, Finish,
         FinishRaises, Raise, CountRaises
    <3> QED
      BY <2>3, <3>2, <3>3, <3>4, <3>5, <3>6, <3>7 DEF ScanStep
  <2>4. ASSUME Request \/ Interrupt \/ Restart \/ Crash \/ UNCHANGED vars
        PROVE  latest' = latest \/ latest'.type # "scan_completed"
    BY <2>4, NoneAssumption DEF PublishedTypes, Request, internal_drive_event, start_scan, start_scan_raises, cancel_scan,
       handle_threat_action, Interrupt, Restart, Crash, FreshController, NoEvent, vars, publish
  <2>5. (\E i \in ScanIds : Settle(i)) \/ latest' = latest \/ latest'.type # "scan_completed"
    BY <2>3, <2>4 DEF Next
  <2> QED
    BY <2>1, <2>2, <2>5 DEF Announced
<1> QED
  BY <1>1, <1>2 DEF AnnouncedInv

\* Nothing is announced at first.
LEMMA AnnouncedInit == Init => AnnouncedInv
BY NoneAssumption DEF Init, NoEvent, AnnouncedInv, Announced, PublishedTypes

\* A client that is told that a scan is over finds its row closed, also after
\* a failure or an interrupt, and whatever happens later.
THEOREM CompletionIsClosed == Spec => []CompletionAnnounced
<1>1. AnnouncedInv => CompletionAnnounced
  BY DEF AnnouncedInv, Announced, CompletionAnnounced
<1> QED
  BY <1>1, TypeInit, TypeStep, LedgerInvInit, LedgerInvStep, AnnouncedInit, AnnouncedStep,
     PTL DEF Spec

-------------------------------------------------------------------------------
(***************************************************************************)
(* Nothing is left open without a fault.                                   *)
(***************************************************************************)

NothingOpen ==
  faults = 0 /\ restarts = 0 =>
    \A i \in ScanIds : scans[i].status = "running" => Live(i)

\* Why a controller says that there is a scan: there is one, or the active one
\* has ended where its row could not be opened or closed.
Abandoned == /\ faults > 0 \/ stopping
             /\ activeScan # None /\ ~Closed(activeScan)

StateBacked ==
  state \in {"scanning", "threat_prompt"} => (\E i \in ScanIds : Live(i)) \/ Abandoned

\* A coroutine ends in its last step, or where that step raises.
LEMMA GoesOn ==
  ASSUME TypeOK, NEW i \in ScanIds, EnginesStep(i) \/ ScanStep(i), ~Settle(i), ~FinishRaises(i)
  PROVE  Live(i)'
<1>1. pc \in [ScanIds -> PCs]
  BY DEF TypeOK, TaskTypeOK
<1>2. CASE EnginesStep(i)
  BY <1>1, <1>2 DEF EnginesStep, ClamAnswer, ClamTimeout, YaraAnswer, YaraTimeout,
     YaraKilled, Goto, Live, Suspended, Busy
<1>3. CASE ScanStep(i)
  BY <1>1, <1>3 DEF ScanStep, Begin, Exhausted, NextCancelled, NextSkipped, NextFile,
     SkipTimedOut, Hash, Detect, Alert, ResumeContinue, ResumeDetails, ResumeStop,
     StartYara, SkipYara, NextHit, Count, WriteTxt, WriteHtml, LogSkipped, Except,
     Finish, Raise, CountRaises, LeaveLoop, Answered, At, Goto, Live, Suspended, Busy
<1> QED
  BY <1>2, <1>3

\* The counters of faults and of restarts only grow.
LEMMA FaultsGrow ==
  ASSUME TypeOK, [Next]_vars, faults' = 0, restarts' = 0
  PROVE  /\ faults = 0 /\ restarts = 0 /\ ~Interrupt /\ ~Crash
         /\ \A i \in ScanIds : ~FinishRaises(i)
         /\ \A i \in ScanIds, rooted \in BOOLEAN : ~start_scan_raises(i, rooted)
<1>1. faults \in Nat /\ restarts \in Nat
  BY DEF TypeOK, EnvTypeOK
<1>2. ~Interrupt /\ ~Crash
  BY <1>1 DEF Interrupt, Crash
<1>3. \A i \in ScanIds : ~FinishRaises(i)
  BY <1>1 DEF FinishRaises, Fault
<1>4. \A i \in ScanIds, rooted \in BOOLEAN : ~start_scan_raises(i, rooted)
  BY <1>1 DEF start_scan_raises, Fault
<1>5. ASSUME NEW i \in ScanIds, Except(i) \/ Raise(i) \/ CountRaises(i)
      PROVE  faults = 0 /\ restarts = 0
  BY <1>1, <1>5 DEF Except, Raise, CountRaises, Fault
<1>6. ASSUME NEW i \in ScanIds, EnginesStep(i) \/ ScanStep(i),
             ~Except(i), ~Raise(i), ~CountRaises(i), ~FinishRaises(i)
      PROVE  faults' = faults /\ restarts' = restarts
  BY <1>6 DEF EnginesStep, ScanStep, ClamAnswer, ClamTimeout, YaraAnswer, YaraTimeout,
     YaraKilled, Begin, Exhausted, NextCancelled, NextSkipped, NextFile, SkipTimedOut,
     Hash, Detect, Alert, ResumeContinue, ResumeDetails, ResumeStop, StartYara,
     SkipYara, NextHit, Count, WriteTxt, WriteHtml, LogSkipped, Finish, Settle, env
<1>7. ASSUME \/ \E d \in Drives \cup {None} : internal_drive_event(d)
             \/ \E i \in ScanIds, rooted \in BOOLEAN : start_scan(i, rooted)
             \/ cancel_scan \/ \E a \in ThreatAction : handle_threat_action(a)
             \/ Restart \/ UNCHANGED vars
      PROVE  faults' = faults /\ restarts' = restarts
  BY <1>7 DEF internal_drive_event, start_scan, cancel_scan, handle_threat_action,
     Restart, vars, env
<1> QED
  BY <1>2, <1>3, <1>4, <1>5, <1>6, <1>7 DEF Next, Request

\* Every step keeps the invariant of what is open.
LEMMA NothingOpenStep ==
  ASSUME TypeOK, LedgerInv, AnnouncedInv, NothingOpen, [Next]_vars
  PROVE  NothingOpen'
<1> SUFFICES ASSUME faults' = 0, restarts' = 0
             PROVE  \A j \in ScanIds : scans'[j].status = "running" => Live(j)'
  BY DEF NothingOpen
<1>a. /\ \A j \in ScanIds : scans[j].status = "running" => Live(j)
      /\ ~Interrupt /\ ~Crash /\ \A i \in ScanIds : ~FinishRaises(i)
      /\ \A i \in ScanIds, rooted \in BOOLEAN : ~start_scan_raises(i, rooted)
  BY FaultsGrow DEF NothingOpen
<1>1. ASSUME NEW i \in ScanIds, EnginesStep(i) \/ ScanStep(i), ~Settle(i)
      PROVE  \A j \in ScanIds : scans'[j].status = "running" => Live(j)'
  <2>1. Live(i)'
    BY <1>1, <1>a, GoesOn
  <2>2. \A j \in ScanIds \ {i} : pc'[j] = pc[j] /\ scans'[j] = scans[j]
    BY <1>1, CoroutineFollows DEF Follows, Elsewhere
  <2> QED
    BY <1>a, <2>1, <2>2 DEF Live
<1>2. ASSUME NEW i \in ScanIds, Settle(i)
      PROVE  \A j \in ScanIds : scans'[j].status = "running" => Live(j)'
  <2>1. Closed(i) /\ scans' = scans
    BY <1>2 DEF Settle, At, AnnouncedInv, history
  <2>2. \A j \in ScanIds \ {i} : pc'[j] = pc[j]
    BY <1>2 DEF Settle, Goto
  <2>3. scans[i].status # "running"
    BY <2>1 DEF Closed, FinalStatuses
  <2> QED
    BY <1>a, <2>1, <2>2, <2>3 DEF Live
<1>3. ASSUME NEW i \in ScanIds, NEW rooted \in BOOLEAN, start_scan(i, rooted)
      PROVE  \A j \in ScanIds : scans'[j].status = "running" => Live(j)'
  <2>1. Live(i)' /\ \A j \in ScanIds \ {i} : pc'[j] = pc[j] /\ scans'[j] = scans[j]
    BY <1>3 DEF start_scan, create_scan, Goto, Live, Suspended, TypeOK, TaskTypeOK, HistoryTypeOK
  <2> QED
    BY <1>a, <2>1 DEF Live
<1>4. ASSUME \/ \E d \in Drives \cup {None} : internal_drive_event(d)
             \/ cancel_scan \/ \E a \in ThreatAction : handle_threat_action(a)
             \/ Restart \/ UNCHANGED vars
      PROVE  scans' = scans /\ pc' = pc
  BY <1>4 DEF internal_drive_event, cancel_scan, handle_threat_action, Restart, vars, history
<1>5. ASSUME scans' = scans, pc' = pc
      PROVE  \A j \in ScanIds : scans'[j].status = "running" => Live(j)'
  BY <1>5, <1>a DEF Live
<1> QED
  BY <1>1, <1>2, <1>3, <1>4, <1>5, <1>a DEF Next, Request

\* Every step keeps the state backed by a scan, or by one abandoned.
LEMMA StateBackedStep ==
  ASSUME TypeOK, SingleScan, LedgerInv, StateBacked, [Next]_vars
  PROVE  StateBacked'
<1> SUFFICES ASSUME state' \in {"scanning", "threat_prompt"}
             PROVE  (\E i \in ScanIds : Live(i)') \/ Abandoned'
  BY DEF StateBacked
<1>a. /\ pc \in [ScanIds -> PCs] /\ scans \in [ScanIds -> Row]
      /\ faults \in Nat /\ None \notin ScanIds
  BY NoneAssumption DEF TypeOK, TaskTypeOK, HistoryTypeOK, EnvTypeOK
<1>1. ASSUME NEW i \in ScanIds, EnginesStep(i) \/ ScanStep(i), ~Settle(i), ~FinishRaises(i)
      PROVE  Live(i)'
  BY <1>1, GoesOn
<1>2. ASSUME NEW i \in ScanIds, Settle(i) PROVE FALSE
  BY <1>2 DEF Settle, Release
<1>3. ASSUME NEW i \in ScanIds, FinishRaises(i) PROVE Abandoned'
  <2>1. /\ pc[i] = "finish" /\ faults' = faults + 1
        /\ activeScan' = activeScan /\ scans' = scans
    BY <1>3 DEF FinishRaises, At, Fault, fields, history
  <2>2. Live(i) /\ activeScan = i /\ scans[i].status = "running"
    BY <2>1 DEF Live, Busy, SingleScan, LedgerInv, RowFollows
  <2> QED
    BY <1>a, <2>1, <2>2 DEF Abandoned, Closed, FinalStatuses
<1>4. ASSUME NEW i \in ScanIds, NEW rooted \in BOOLEAN, start_scan(i, rooted)
      PROVE  Live(i)'
  BY <1>a, <1>4 DEF start_scan, Goto, Live, Suspended
<1>5. ASSUME NEW i \in ScanIds, NEW rooted \in BOOLEAN, start_scan_raises(i, rooted)
      PROVE  Abandoned'
  <2>1. activeScan' = i /\ faults' = faults + 1 /\ scans[i] = NoRow
    BY <1>5 DEF start_scan_raises, AdmitScan, Fault, LedgerInv, RowFollows
  <2>2. scans'[i].status \in {"absent", "running"}
    BY <1>a, <1>5, <2>1 DEF start_scan_raises, create_scan, NoRow
  <2> QED
    BY <1>a, <2>1, <2>2 DEF Abandoned, Closed, FinalStatuses
<1>6. ASSUME \/ \E d \in Drives \cup {None} : internal_drive_event(d)
             \/ cancel_scan \/ \E a \in ThreatAction : handle_threat_action(a)
             \/ UNCHANGED vars
      PROVE  (\E i \in ScanIds : Live(i)') \/ Abandoned'
  <2>1. /\ scans' = scans /\ pc' = pc /\ activeScan' = activeScan
        /\ faults' = faults /\ stopping' = stopping
        /\ state' = state \/ state' \in {"idle", "mounted"}
    BY <1>6 DEF internal_drive_event, set_drive, cancel_scan, handle_threat_action, vars,
       fields, history, env
  <2> QED
    BY <2>1 DEF StateBacked, Abandoned, Closed, Live
<1>7. ASSUME Interrupt PROVE (\E i \in ScanIds : Live(i)') \/ Abandoned'
  <2>1. /\ state' = state /\ activeScan' = activeScan /\ scans' = scans /\ stopping'
    BY <1>7 DEF Interrupt, fields, history
  <2>2. CASE \E i \in ScanIds : Live(i)
    <3>1. PICK i \in ScanIds : Live(i)
      BY <2>2
    <3>2. CASE pc[i] = "created"
      <4>1. activeScan = i /\ scans[i].status = "running"
        BY <3>1, <3>2 DEF SingleScan, LedgerInv, RowFollows
      <4> QED
        BY <1>a, <2>1, <4>1 DEF Abandoned, Closed, FinalStatuses
    <3>3. CASE pc[i] # "created"
      BY <1>7, <3>1, <3>3 DEF Interrupt, Stopped, Live, Suspended, Busy
    <3> QED
      BY <3>2, <3>3
  <2>3. CASE Abandoned
    BY <2>1, <2>3 DEF Abandoned, Closed
  <2> QED
    BY <2>1, <2>2, <2>3 DEF StateBacked
<1>8. ASSUME Restart \/ Crash PROVE FALSE
  BY <1>8 DEF Restart, Crash, FreshController
<1> QED
  BY <1>1, <1>2, <1>3, <1>4, <1>5, <1>6, <1>7, <1>8 DEF Next, Request

\* Nothing is open at first.
LEMMA NothingOpenInit == Init => NothingOpen /\ StateBacked
BY DEF Init, EmptyHistory, NoRow, NothingOpen, StateBacked

\* While nothing has raised and the process has not been stopped, every way out
\* of _run_scan closes the row; and whatever has raised, a state that says that
\* there is a scan belongs to one, or to one whose row could not be opened or
\* closed.
THEOREM NothingIsLeftOpen == Spec => []NothingLeftOpen
<1>1. NothingOpen /\ StateBacked => NothingLeftOpen
  BY DEF NothingOpen, StateBacked, Abandoned, NothingLeftOpen
<1> QED
  BY <1>1, TypeInit, TypeStep, SingleInit, SingleStep, LedgerInvInit, LedgerInvStep,
     AnnouncedInit, AnnouncedStep, NothingOpenInit, NothingOpenStep, StateBackedStep,
     PTL DEF Spec

\* A step in which a coroutine ends.
EndsSeen(i) ==
  \/ /\ Closed(i)'
     /\ latest' = [type |-> "scan_completed", scan |-> i]
     /\ activeScan' = None
  \/ FinishRaises(i)
  \/ Interrupt /\ pc[i] = "created"
  \/ Crash

\* It is the last step of the coroutine, or one of the three that are exempt.
LEMMA EndStep ==
  ASSUME TypeOK, LedgerInv, AnnouncedInv, [Next]_vars, NEW i \in ScanIds, Live(i), ~Live(i)'
  PROVE  EndsSeen(i)
<1>a. pc \in [ScanIds -> PCs]
  BY DEF TypeOK, TaskTypeOK
<1>1. ASSUME NEW j \in ScanIds, EnginesStep(j) \/ ScanStep(j) PROVE EndsSeen(i)
  <2>1. i = j
    BY <1>1, CoroutineStep DEF OwnStep, Live
  <2>2. CASE Settle(i)
    <3>1. Closed(i)
      BY <2>2 DEF Settle, At, AnnouncedInv
    <3>2. Closed(i)'
      BY <3>1, ClosedStays
    <3> QED
      BY <2>2, <3>2 DEF Settle, Release, publish, EndsSeen
  <2>3. CASE ~Settle(i)
    BY <1>1, <2>1, <2>3, GoesOn DEF EndsSeen
  <2> QED
    BY <2>2, <2>3
<1>2. ASSUME Request \/ Restart \/ UNCHANGED vars PROVE FALSE
  BY <1>a, <1>2 DEF Request, internal_drive_event, start_scan, start_scan_raises, Goto,
     cancel_scan, handle_threat_action, Restart, vars, Live, Suspended, Busy
<1>3. ASSUME Interrupt PROVE pc[i] = "created"
  BY <1>3 DEF Interrupt, Stopped, Live, Suspended, Busy
<1> QED
  BY <1>1, <1>2, <1>3 DEF Next, EndsSeen

\* A scan does not end unseen: whatever raises in it, its row is closed, its end
\* announced and the controller free in the step that ends its coroutine, but
\* for an exception of finish_scan, an interrupt before its first step, and a
\* crash.
THEOREM EveryEndIsAnnounced == Spec => EndAnnounced
<1>1. TypeOK /\ LedgerInv /\ AnnouncedInv /\ [Next]_vars =>
        [\A i \in ScanIds : Live(i) /\ ~Live(i)' =>
           \/ /\ Closed(i)'
              /\ latest' = [type |-> "scan_completed", scan |-> i]
              /\ activeScan' = None
           \/ FinishRaises(i)
           \/ Interrupt /\ pc[i] = "created"
           \/ Crash]_vars
  BY EndStep DEF EndsSeen
<1> QED
  BY <1>1, TypeInit, TypeStep, LedgerInvInit, LedgerInvStep, AnnouncedInit, AnnouncedStep,
     PTL DEF Spec, EndAnnounced

-------------------------------------------------------------------------------
(***************************************************************************)
(* Readers are told what the coroutine does.  Between two suspensions the  *)
(* progress may be behind (it says "threat_prompt" until the stage moves   *)
(* after a prompt); wherever the coroutine suspends it is right.           *)
(***************************************************************************)

\* Where the coroutine waits, but not for an answer; and where it is in the loop.
Waiting == {"created", "clamWait", "clamKill", "yaraWait", "yaraKill"}
InLoop == Waiting \cup {"next", "hash", "detect", "alert", "yara", "hits", "count"}

ViewFollows(i) ==
  /\ pc[i] = "promptWait" => progress.state = "threat_prompt"
  /\ pc[i] \in Waiting => progress.state = "scanning"
  /\ pc[i] \in InLoop => state = "scanning"

ViewInv == \A i \in ScanIds : ViewFollows(i)

\* The progress says "scanning" after either of its setters.
LEMMA ProgressSet ==
  ASSUME TypeOK, NEW stage, NEW n, NEW t, set_progress(stage) \/ set_figures(stage, n, t)
  PROVE  progress'.state = "scanning"
BY DEF TypeOK, ViewTypeOK, ScanProgress, set_progress, set_figures

\* Each step of the coroutine leaves both states as its next wait needs them.
LEMMA CoroutineView ==
  ASSUME TypeOK, NEW i \in ScanIds, ViewFollows(i), EnginesStep(i) \/ ScanStep(i)
  PROVE  ViewFollows(i)'
<1>a. pc \in [ScanIds -> PCs] /\ progress \in ScanProgress
  BY DEF TypeOK, TaskTypeOK, ViewTypeOK
<1> USE <1>a DEF ViewFollows, Waiting, InLoop, At, Goto, fields
<1>1. CASE EnginesStep(i)
  BY <1>1 DEF EnginesStep, ClamAnswer, ClamTimeout, YaraAnswer, YaraTimeout, YaraKilled
<1>2. ASSUME Begin(i) PROVE ViewFollows(i)'
  BY <1>2, ProgressSet DEF Begin
<1>3. ASSUME NEW size \in FileSizes, NEW installed \in BOOLEAN, NextFile(i, size, installed)
      PROVE  ViewFollows(i)'
  BY <1>3, ProgressSet DEF NextFile
<1>4. ASSUME NEW installed \in BOOLEAN, StartYara(i, installed) PROVE ViewFollows(i)'
  BY <1>4, ProgressSet DEF StartYara
<1>5. ASSUME Hash(i) PROVE ViewFollows(i)'
  BY <1>5 DEF Hash
<1>6. ASSUME Alert(i) \/ ResumeDetails(i) PROVE ViewFollows(i)'
  BY <1>6 DEF Alert, ResumeDetails, Prompt, Answered, ScanProgress
<1>7. ASSUME ResumeContinue(i) PROVE ViewFollows(i)'
  BY <1>7 DEF ResumeContinue, Answered
<1>8. ASSUME \/ \E size \in FileSizes : NextSkipped(i, size)
             \/ SkipTimedOut(i) \/ Detect(i) \/ SkipYara(i) \/ NextHit(i) \/ Count(i)
      PROVE  ViewFollows(i)'
  <2>1. state' = state /\ pc[i] \in InLoop /\ pc'[i] \in InLoop \ Waiting
    BY <1>8 DEF NextSkipped, SkipTimedOut, Detect, SkipYara, NextHit, Count
  <2> QED
    BY <2>1
<1>9. ASSUME \/ Exhausted(i) \/ NextCancelled(i) \/ ResumeStop(i) \/ WriteTxt(i)
             \/ WriteHtml(i) \/ LogSkipped(i) \/ Except(i) \/ Finish(i) \/ FinishRaises(i)
             \/ Settle(i) \/ Raise(i) \/ CountRaises(i)
      PROVE  ViewFollows(i)'
  BY <1>9 DEF Exhausted, NextCancelled, ResumeStop, LeaveLoop, WriteTxt, WriteHtml,
     LogSkipped, Except, Finish, FinishRaises, Settle, Raise, CountRaises
<1> QED
  BY <1>1, <1>2, <1>3, <1>4, <1>5, <1>6, <1>7, <1>8, <1>9 DEF ScanStep

\* Every step keeps the invariant of what readers are told.
LEMMA ViewInvStep ==
  ASSUME TypeOK, SingleScan, ViewInv, [Next]_vars
  PROVE  ViewInv'
<1> SUFFICES ASSUME NEW j \in ScanIds PROVE ViewFollows(j)'
  BY DEF ViewInv
<1>a. ViewFollows(j) /\ pc \in [ScanIds -> PCs]
  BY DEF ViewInv, TypeOK, TaskTypeOK
<1>1. ASSUME ~Live(j)' PROVE ViewFollows(j)'
  BY <1>1 DEF Live, ViewFollows, Waiting, InLoop, Suspended, Busy
<1>2. ASSUME NEW i \in ScanIds, EnginesStep(i) \/ ScanStep(i) PROVE ViewFollows(j)'
  <2>1. OwnStep(i)
    BY <1>2, CoroutineStep
  <2>2. CASE i = j
    BY <1>2, <1>a, <2>2, CoroutineView
  <2>3. CASE i # j
    BY <1>1, <2>1, <2>3 DEF OwnStep, SingleScan, Live
  <2> QED
    BY <2>2, <2>3
<1>3. ASSUME NEW i \in ScanIds, NEW rooted \in BOOLEAN,
             start_scan(i, rooted) \/ start_scan_raises(i, rooted)
      PROVE  ViewFollows(j)'
  <2>1. ~Live(j)
    BY <1>3, NoSecondStart DEF start_scan, start_scan_raises
  <2>2. progress'.state = "scanning" /\ state' = "scanning"
    BY <1>3 DEF start_scan, start_scan_raises, AdmitScan, ProgressAt
  <2>3. pc'[j] = pc[j] \/ pc'[j] \in {"created", "done"}
    BY <1>3, <1>a DEF start_scan, start_scan_raises, Goto
  <2> QED
    BY <2>1, <2>2, <2>3 DEF Live, Suspended, Busy, ViewFollows, Waiting, InLoop
<1>4. ASSUME NEW d \in Drives \cup {None}, internal_drive_event(d) PROVE ViewFollows(j)'
  <2>1. progress' = progress /\ pc' = pc /\ (state = "scanning" => state' = state)
    BY <1>4 DEF internal_drive_event, set_drive, DriveFrozen
  <2> QED
    BY <1>a, <2>1 DEF ViewFollows
<1>5. ASSUME \/ cancel_scan \/ \E a \in ThreatAction : handle_threat_action(a)
             \/ UNCHANGED vars
      PROVE  ViewFollows(j)'
  BY <1>5, <1>a DEF cancel_scan, handle_threat_action, vars, fields, ViewFollows
<1>6. ASSUME Interrupt PROVE ViewFollows(j)'
  <2>1. progress' = progress /\ state' = state /\ (pc'[j] = pc[j] \/ pc'[j] \in {"done", "finish"})
    BY <1>6, InterruptLabels DEF Interrupt, fields
  <2> QED
    BY <1>a, <2>1 DEF ViewFollows, Waiting, InLoop
<1>7. ASSUME Restart \/ Crash PROVE ~Live(j)'
  BY <1>7 DEF Restart, Crash, Live, Suspended, Busy
<1> QED
  BY <1>1, <1>2, <1>3, <1>4, <1>5, <1>6, <1>7 DEF Next, Request

\* No coroutine is alive at first.
LEMMA ViewInvInit == Init => ViewInv
BY DEF Init, ViewInv, ViewFollows, Waiting, InLoop

\* GET /scan/progress says "threat_prompt" exactly while the coroutine waits at
\* the prompt, and _state says "scanning" for as long as it does not, so that
\* no drive event takes the drive of a working scan.
THEOREM StateIsTaskState == Spec => []StateMatchesTask
<1>1. ViewInv => StateMatchesTask
  BY DEF ViewInv, ViewFollows, StateMatchesTask, LoopFree, Live, Waiting, InLoop,
     Suspended, Busy
<1> QED
  BY <1>1, TypeInit, TypeStep, SingleInit, SingleStep, ViewInvInit, ViewInvStep, PTL DEF Spec

\* No step of a coroutine has to do with the drive.
LEMMA CoroutineKeepsDrive ==
  ASSUME NEW i \in ScanIds, EnginesStep(i) \/ ScanStep(i)
  PROVE  drive' = drive
BY DEF EnginesStep, ScanStep, fields, ClamAnswer, ClamTimeout, YaraAnswer, YaraTimeout,
       YaraKilled, Begin, Exhausted, NextCancelled, NextSkipped, NextFile, SkipTimedOut,
       Hash, Detect, Alert, ResumeContinue, ResumeDetails, ResumeStop, StartYara,
       SkipYara, NextHit, Count, WriteTxt, WriteHtml, LogSkipped, Except, Finish,
       FinishRaises, Settle, Raise, CountRaises

\* A drive event that comes while the coroutine works finds _state scanning.
LEMMA DriveStep ==
  ASSUME TypeOK, ViewInv, [Next]_vars,
         NEW i \in ScanIds, Live(i), Live(i)', pc[i] # "promptWait"
  PROVE  drive' = drive
<1>1. ASSUME NEW d \in Drives \cup {None}, internal_drive_event(d) PROVE drive' = drive
  <2>1. pc[i] \in Waiting
    BY <1>1 DEF internal_drive_event, Serving, LoopFree, Live, Suspended, Waiting
  <2>2. state = "scanning"
    BY <2>1 DEF ViewInv, ViewFollows, InLoop
  <2> QED
    BY <1>1, <2>2 DEF internal_drive_event, set_drive, DriveFrozen
<1>2. ASSUME \/ \E j \in ScanIds, rooted \in BOOLEAN :
                  start_scan(j, rooted) \/ start_scan_raises(j, rooted)
             \/ cancel_scan \/ \E a \in ThreatAction : handle_threat_action(a)
             \/ Interrupt \/ UNCHANGED vars
      PROVE  drive' = drive
  BY <1>2 DEF start_scan, start_scan_raises, cancel_scan, handle_threat_action, Interrupt,
     vars, fields
<1>3. ASSUME Restart \/ Crash PROVE FALSE
  BY <1>3 DEF Restart, Crash, Live, Suspended, Busy
<1> QED
  BY <1>1, <1>2, <1>3, CoroutineKeepsDrive DEF Next, Request

\* While its coroutine works, no drive event takes the drive of a scan or puts
\* another one in its place, although set_drive looks at _state only.
THEOREM DriveIsHeld == Spec => DriveHeld
<1>1. TypeOK /\ ViewInv /\ [Next]_vars =>
        [\A i \in ScanIds :
           Live(i) /\ Live(i)' /\ pc[i] # "promptWait" => drive' = drive]_vars
  BY DriveStep
<1>2. TypeOK /\ SingleScan /\ ViewInv /\ [Next]_vars => ViewInv'
  BY ViewInvStep
<1> QED
  BY <1>1, <1>2, TypeInit, TypeStep, SingleInit, SingleStep, ViewInvInit, PTL DEF Spec, DriveHeld

-------------------------------------------------------------------------------
(***************************************************************************)
(* The reports say what the history says.  They are written before the row *)
(* is closed, from locals that do not change in between unless the scan    *)
(* fails, and once it is closed neither changes.                           *)
(***************************************************************************)

ReportWritten(i) == reports[i].txt # None /\ reports[i].html = reports[i].txt

ReportFollows(i) ==
  /\ pc[i] \notin {"skips", "except", "finish", "settle", "done"} => ~loc[i].report
  /\ pc[i] = "html" => reports[i].txt = ReportFigures(i)
  /\ loc[i].report => ReportWritten(i)
  /\ pc[i] \in {"skips", "finish"} /\ loc[i].report /\ loc[i].status # "failed" =>
       reports[i].txt = ReportFigures(i)

RowBacked(i) ==
  Closed(i) /\ scans[i].report =>
    /\ ReportWritten(i)
    /\ scans[i].status # "failed" =>
         reports[i].txt = [status |-> scans[i].status, files |-> scans[i].files,
                           threats |-> scans[i].threats, found |-> detections[i]]

ReportInv == \A i \in ScanIds : ReportFollows(i) /\ RowBacked(i)

\* A row that no step changes is as backed as it was.
LEMMA BackedStays ==
  ASSUME NEW i \in ScanIds, RowBacked(i), scans'[i] = scans[i],
         detections'[i] = detections[i], reports'[i] = reports[i]
  PROVE  RowBacked(i)'
BY DEF RowBacked, Closed, ReportWritten

\* A row that is open needs no report.
LEMMA OpenIsBacked ==
  ASSUME NEW i \in ScanIds, scans'[i].status \notin FinalStatuses
  PROVE  RowBacked(i)'
BY DEF RowBacked, Closed

\* The steps that have to do with the reports.
LEMMA ReportStep ==
  ASSUME TypeOK, LedgerInv, NEW i \in ScanIds, ReportFollows(i), RowBacked(i),
         WriteTxt(i) \/ WriteHtml(i) \/ LogSkipped(i) \/ Except(i) \/ Finish(i)
         \/ FinishRaises(i) \/ Settle(i)
  PROVE  ReportFollows(i)' /\ RowBacked(i)'
<1>a. /\ loc \in [ScanIds -> Locals] /\ loc[i] \in Locals /\ pc \in [ScanIds -> PCs]
      /\ reports \in [ScanIds -> ReportDir] /\ reports[i] \in ReportDir
      /\ scans \in [ScanIds -> Row] /\ detections[i] \in Nat
      /\ RowFollows(i)
  BY DEF TypeOK, TaskTypeOK, HistoryTypeOK, ViewTypeOK, LedgerInv
<1>b. ReportFigures(i) # None
  BY <1>a, FiguresAssumption DEF ReportFigures, Figures, Locals
<1>c. ASSUME scans[i].status = "running" PROVE scans[i].status \notin FinalStatuses
  BY <1>c DEF FinalStatuses
<1>1. CASE WriteTxt(i)
  <2>1. pc[i] = "report" /\ pc'[i] = "html" /\ loc' = loc /\ scans' = scans /\ detections' = detections
    BY <1>1, <1>a DEF WriteTxt, At, Goto, history
  <2>2. reports'[i].txt = ReportFigures(i)
    BY <1>1, <1>a DEF WriteTxt, ReportDir
  <2>3. scans[i].status = "running"
    BY <1>a, <2>1 DEF RowFollows, Live, Busy
  <2>4. ReportFigures(i)' = ReportFigures(i)
    BY <2>1 DEF ReportFigures
  <2> QED
    BY <1>c, <2>1, <2>2, <2>3, <2>4, OpenIsBacked DEF ReportFollows
<1>2. CASE WriteHtml(i)
  <2>1. /\ pc[i] = "html" /\ pc'[i] \in {"skips", "finish"}
        /\ scans' = scans /\ detections' = detections
    BY <1>2, <1>a DEF WriteHtml, At, Goto, history
  <2>2. /\ reports'[i].html = ReportFigures(i) /\ reports'[i].txt = reports[i].txt
    BY <1>2, <1>a DEF WriteHtml, ReportDir
  <2>3. scans[i].status = "running"
    BY <1>a, <2>1 DEF RowFollows, Live, Busy
  <2>4. /\ loc'[i].status = loc[i].status /\ loc'[i].files = loc[i].files
        /\ loc'[i].threats = loc[i].threats
    BY <1>2, <1>a DEF WriteHtml, SetLocals, Locals
  <2>5. ReportFigures(i)' = ReportFigures(i)
    BY <2>1, <2>4 DEF ReportFigures
  <2>6. reports[i].txt = ReportFigures(i)
    BY <2>1 DEF ReportFollows
  <2>7. ReportWritten(i)'
    BY <1>b, <2>2, <2>6 DEF ReportWritten
  <2> QED
    BY <1>c, <2>1, <2>2, <2>3, <2>5, <2>6, <2>7, OpenIsBacked DEF ReportFollows
<1>3. CASE LogSkipped(i)
  <2>1. /\ pc[i] = "skips" /\ pc'[i] = "finish" /\ loc' = loc /\ reports' = reports
        /\ scans' = scans /\ detections' = detections
    BY <1>3, <1>a DEF LogSkipped, At, Goto
  <2>2. ReportFigures(i)' = ReportFigures(i)
    BY <2>1 DEF ReportFigures
  <2> QED
    BY <2>1, <2>2, BackedStays DEF ReportFollows, ReportWritten
<1>4. CASE Except(i)
  <2>1. /\ pc[i] = "except" /\ pc'[i] = "finish" /\ reports' = reports
        /\ scans' = scans /\ detections' = detections
    BY <1>4, <1>a DEF Except, At, Goto
  <2>2. loc'[i].status = "failed" /\ loc'[i].report = loc[i].report
    BY <1>4, <1>a DEF Except, SetLocals, Locals
  <2> QED
    BY <2>1, <2>2, BackedStays DEF ReportFollows, ReportWritten
<1>5. CASE Finish(i)
  <2>1. /\ pc[i] = "finish" /\ pc'[i] = "settle" /\ reports' = reports
        /\ loc' = loc /\ detections' = detections
    BY <1>5, <1>a DEF Finish, At, Goto
  <2>2. scans[i].status = "running"
    BY <1>a, <2>1 DEF RowFollows, Live, Busy
  <2>3. scans'[i] = ScanFinish(i)
    BY <1>5, <1>a, <2>2 DEF Finish, finish_scan, NoRow
  <2>4. /\ scans'[i].status = loc[i].status /\ scans'[i].files = loc[i].files
        /\ scans'[i].threats = loc[i].threats /\ scans'[i].report = loc[i].report
    BY <2>3 DEF ScanFinish
  <2>5. RowBacked(i)'
    BY <2>1, <2>4 DEF RowBacked, ReportFollows, ReportWritten, ReportFigures
  <2> QED
    BY <2>1, <2>5 DEF ReportFollows, ReportWritten
<1>6. CASE FinishRaises(i) \/ Settle(i)
  <2>1. /\ pc'[i] = "done" /\ reports' = reports /\ scans' = scans /\ detections' = detections
        /\ ~loc'[i].report
    BY <1>6, <1>a DEF FinishRaises, Settle, Goto, SetLocals, FreshLocals, history
  <2> QED
    BY <2>1, BackedStays DEF ReportFollows
<1> QED
  BY <1>1, <1>2, <1>3, <1>4, <1>5, <1>6

\* The others leave the reports and the choice of `report` alone.
LEMMA NoReportStep ==
  ASSUME TypeOK, LedgerInv, NEW i \in ScanIds, ReportFollows(i), RowBacked(i),
         EnginesStep(i) \/ ScanStep(i), ~WriteTxt(i), ~WriteHtml(i), ~LogSkipped(i),
         ~Except(i), ~Finish(i), ~FinishRaises(i), ~Settle(i)
  PROVE  ReportFollows(i)' /\ RowBacked(i)'
<1>a. /\ loc \in [ScanIds -> Locals] /\ loc[i] \in Locals /\ pc \in [ScanIds -> PCs]
      /\ scans \in [ScanIds -> Row]
  BY DEF TypeOK, TaskTypeOK, HistoryTypeOK
<1>1. CASE Raise(i)
  <2>1. pc'[i] = "except" /\ loc' = loc /\ reports' = reports /\ scans' = scans /\ detections' = detections
    BY <1>1, <1>a DEF Raise, Goto, history
  <2> QED
    BY <2>1, BackedStays DEF ReportFollows, ReportWritten
<1>2. CASE CountRaises(i)
  <2>1. /\ pc'[i] = "except" /\ reports' = reports /\ scans' = scans /\ detections' = detections
        /\ loc'[i].report = loc[i].report
    BY <1>2, <1>a DEF CountRaises, Goto, SetLocals, Locals, history
  <2> QED
    BY <2>1, BackedStays DEF ReportFollows, ReportWritten
<1>3. CASE ~Raise(i) /\ ~CountRaises(i)
  <2>1. CASE EnginesStep(i)
    BY <1>a, <2>1, BackedStays DEF EnginesStep, ClamAnswer, ClamTimeout, YaraAnswer,
       YaraTimeout, YaraKilled, At, Goto, SetLocals, Locals, history, ReportFollows
  <2>2. CASE ScanStep(i)
    <3>1. /\ pc[i] \notin {"skips", "except", "finish", "settle", "done", "html", "none"}
          /\ pc'[i] \notin {"skips", "except", "finish", "settle", "done", "html"}
      BY <1>3, <1>a, <2>2 DEF ScanStep, Begin, Exhausted, NextCancelled, NextSkipped,
         NextFile, SkipTimedOut, Hash, Detect, Alert, ResumeContinue, ResumeDetails,
         ResumeStop, StartYara, SkipYara, NextHit, Count, LeaveLoop, Answered, At, Goto
    <3>2. loc'[i].report = loc[i].report
      BY <1>3, <1>a, <2>2 DEF ScanStep, Begin, Exhausted, NextCancelled, NextSkipped,
         NextFile, SkipTimedOut, Hash, Detect, Alert, ResumeContinue, ResumeDetails,
         ResumeStop, StartYara, SkipYara, NextHit, Count, SetLocals, Locals
    <3>3. scans[i].status = "running"
      BY <1>3, <1>a, <2>2, <3>1 DEF LedgerInv, RowFollows, Live, TypeOK, TaskTypeOK, PCs
    <3>4. scans'[i].status = scans[i].status
      BY <2>2, CountRow, QuietStep DEF Detect
    <3>5. RowBacked(i)'
      BY <3>3, <3>4, OpenIsBacked DEF FinalStatuses
    <3> QED
      BY <3>1, <3>2, <3>5 DEF ReportFollows
  <2> QED
    BY <2>1, <2>2
<1> QED
  BY <1>1, <1>2, <1>3

\* Every step keeps the invariant of the reports.
LEMMA ReportInvStep ==
  ASSUME TypeOK, LedgerInv, ReportInv, [Next]_vars
  PROVE  ReportInv'
<1> SUFFICES ASSUME NEW j \in ScanIds PROVE ReportFollows(j)' /\ RowBacked(j)'
  BY DEF ReportInv
<1>a. ReportFollows(j) /\ RowBacked(j) /\ pc \in [ScanIds -> PCs] /\ scans \in [ScanIds -> Row]
  BY DEF ReportInv, TypeOK, TaskTypeOK, HistoryTypeOK
<1>b. ASSUME reports'[j] = reports[j], scans'[j] = scans[j], detections'[j] = detections[j],
             loc'[j] = loc[j], pc'[j] = pc[j]
      PROVE  ReportFollows(j)' /\ RowBacked(j)'
  BY <1>a, <1>b, BackedStays DEF ReportFollows, ReportWritten, ReportFigures
<1>1. ASSUME NEW i \in ScanIds, EnginesStep(i) \/ ScanStep(i)
      PROVE  ReportFollows(j)' /\ RowBacked(j)'
  <2>1. CASE i = j
    BY <1>1, <1>a, <2>1, ReportStep, NoReportStep
  <2>2. CASE i # j
    <3>1. Elsewhere(i) /\ reports'[j] = reports[j]
      BY <1>1, <2>2, CoroutineFollows, OthersKeep DEF Follows
    <3> QED
      BY <1>b, <2>2, <3>1 DEF Elsewhere
  <2> QED
    BY <2>1, <2>2
<1>2. ASSUME NEW i \in ScanIds, NEW rooted \in BOOLEAN,
             start_scan(i, rooted) \/ start_scan_raises(i, rooted)
      PROVE  ReportFollows(j)' /\ RowBacked(j)'
  <2>1. reports' = reports /\ loc' = loc /\ detections' = detections
    BY <1>2, StartKeeps
  <2>2. CASE i = j
    <3>1. scans'[j] = scans[j] \/ scans'[j].status = "running"
      BY <1>2, <1>a, <2>2 DEF start_scan, start_scan_raises, create_scan, Row
    <3>2. pc[j] = "none" /\ pc'[j] \in {"created", "done"}
      BY <1>2, <2>2, StartKeeps
    <3>3. ReportFollows(j)'
      BY <1>a, <2>1, <3>2 DEF ReportFollows, ReportWritten
    <3> QED
      BY <1>a, <2>1, <3>1, <3>3, BackedStays, OpenIsBacked DEF FinalStatuses
  <2>3. CASE i # j
    <3>1. scans'[j] = scans[j] /\ pc'[j] = pc[j]
      BY <1>2, <1>a, <2>3 DEF start_scan, start_scan_raises, create_scan, Goto
    <3> QED
      BY <1>b, <2>1, <3>1
  <2> QED
    BY <2>2, <2>3
<1>3. ASSUME \/ \E d \in Drives \cup {None} : internal_drive_event(d)
             \/ cancel_scan \/ \E a \in ThreatAction : handle_threat_action(a)
             \/ Restart \/ UNCHANGED vars
      PROVE  ReportFollows(j)' /\ RowBacked(j)'
  BY <1>3, <1>b DEF internal_drive_event, cancel_scan, handle_threat_action, Restart,
     vars, history
<1>4. ASSUME Interrupt PROVE ReportFollows(j)' /\ RowBacked(j)'
  <2>1. /\ reports' = reports /\ scans' = scans /\ detections' = detections /\ loc' = loc
    BY <1>4 DEF Interrupt, history
  <2>2. \/ pc'[j] = pc[j]
        \/ pc[j] \in Suspended /\ pc'[j] \in {"done", "finish"}
    BY <1>4, InterruptLabels DEF Suspended
  <2>3. CASE pc'[j] = pc[j]
    BY <1>b, <2>1, <2>3
  <2>4. CASE pc[j] \in Suspended /\ pc'[j] \in {"done", "finish"}
    BY <1>a, <2>1, <2>4, BackedStays DEF ReportFollows, Suspended
  <2> QED
    BY <2>2, <2>3, <2>4
<1>5. ASSUME Crash PROVE ReportFollows(j)' /\ RowBacked(j)'
  <2>1. /\ reports' = reports /\ scans' = scans /\ detections' = detections
        /\ ~loc'[j].report /\ pc'[j] \in {"done", "none"}
    BY <1>5, <1>a DEF Crash, history, FreshLocals, Live, PCs
  <2> QED
    BY <1>a, <2>1, BackedStays DEF ReportFollows
<1> QED
  BY <1>1, <1>2, <1>3, <1>4, <1>5 DEF Next, Request

\* There are no reports at first.
LEMMA ReportInvInit == Init => ReportInv
<1> SUFFICES ASSUME Init, NEW i \in ScanIds PROVE ReportFollows(i) /\ RowBacked(i)
  BY DEF ReportInv
<1>1. pc[i] = "none" /\ ~loc[i].report /\ ~scans[i].report
  BY DEF Init, EmptyHistory, NoRow, FreshLocals
<1> QED
  BY <1>1 DEF ReportFollows, RowBacked

\* Report files that a row names are on disk, agree with each other and, unless
\* the scan failed, with the row that was closed after they were written and
\* with the detections on record.
THEOREM ReportsAreBacked == Spec => []ReportBacked
<1>1. ReportInv => ReportBacked
  BY DEF ReportInv, RowBacked, ReportWritten, ReportBacked
<1> QED
  BY <1>1, TypeInit, TypeStep, LedgerInvInit, LedgerInvStep, ReportInvInit, ReportInvStep,
     PTL DEF Spec

-------------------------------------------------------------------------------
(***************************************************************************)
(* A scan that has ended stays as it is, however it ended: what still runs *)
(* is another scan, and a step of a scan touches no other.                 *)
(***************************************************************************)

Ended(i) ==
  /\ pc'[i] = "done"
  /\ scans'[i] = scans[i] /\ detections'[i] = detections[i]
  /\ events'[i] = events[i] /\ reports'[i] = reports[i]

\* No step touches a scan whose coroutine has ended, or was never created.
LEMMA EndedStep ==
  ASSUME TypeOK, LedgerInv, [Next]_vars, NEW j \in ScanIds, pc[j] = "done"
  PROVE  Ended(j)
<1>1. ASSUME NEW i \in ScanIds, EnginesStep(i) \/ ScanStep(i) PROVE Ended(j)
  <2>1. i # j
    BY <1>1, CoroutineStep DEF OwnStep, Live, Suspended, Busy
  <2> QED
    BY <1>1, <2>1, CoroutineFollows, OthersKeep DEF Follows, Elsewhere, Ended
<1>2. ASSUME NEW i \in ScanIds, NEW rooted \in BOOLEAN,
             start_scan(i, rooted) \/ start_scan_raises(i, rooted)
      PROVE  Ended(j)
  <2>1. i # j
    BY <1>2, StartKeeps
  <2>2. /\ reports' = reports /\ detections' = detections /\ events'[j] = events[j]
    BY <1>2, <2>1, StartKeeps
  <2>3. scans'[j] = scans[j] /\ pc'[j] = pc[j]
    BY <1>2, <2>1 DEF start_scan, start_scan_raises, create_scan, Goto, TypeOK,
       HistoryTypeOK, TaskTypeOK
  <2> QED
    BY <2>2, <2>3 DEF Ended
<1>3. ASSUME \/ \E d \in Drives \cup {None} : internal_drive_event(d)
             \/ cancel_scan \/ \E a \in ThreatAction : handle_threat_action(a)
             \/ Restart \/ UNCHANGED vars
      PROVE  Ended(j)
  BY <1>3 DEF internal_drive_event, cancel_scan, handle_threat_action, Restart,
     vars, history, Ended
<1>4. ASSUME Interrupt PROVE Ended(j)
  BY <1>4, InterruptLabels DEF Interrupt, history, Ended, Suspended
<1>5. ASSUME Crash PROVE Ended(j)
  BY <1>5 DEF Crash, history, Ended
<1> QED
  BY <1>1, <1>2, <1>3, <1>4, <1>5 DEF Next, Request

\* A scan that has ended with its row closed is left alone by every later scan,
\* request and restart: what its row, its detections, its events and its
\* reports say then is what they say for ever.
THEOREM EndedScansStay == Spec => EndedStays
<1>1. TypeOK /\ LedgerInv /\ [Next]_vars =>
        [\A i \in ScanIds : pc[i] = "done" /\ Closed(i) =>
           /\ pc'[i] = "done"
           /\ scans'[i] = scans[i] /\ detections'[i] = detections[i]
           /\ events'[i] = events[i] /\ reports'[i] = reports[i]]_vars
  BY EndedStep DEF Ended
<1>2. TypeOK /\ LedgerInv /\ [Next]_vars => LedgerInv'
  BY LedgerInvStep
<1> QED
  BY <1>1, <1>2, TypeInit, TypeStep, LedgerInvInit, PTL DEF Spec, EndedStays

-------------------------------------------------------------------------------
(***************************************************************************)
(* The figures.  Three copies are kept: the locals of the coroutine, what  *)
(* the progress shows and what the row holds.  The locals lead; the others *)
(* follow where a file is taken, every ten files, and at the end.          *)
(***************************************************************************)

ShownFollow(i) ==
  /\ progress.files <= loc[i].files /\ progress.threats <= loc[i].threats
  /\ pc[i] \in {"created"} \cup FileInHand => progress.files = loc[i].files
  /\ pc[i] \in {"detect", "alert", "promptWait"} => progress.threats < loc[i].threats

WrittenFollow(i) ==
  /\ scans[i].files <= loc[i].files /\ scans[i].threats <= loc[i].threats
  /\ pc[i] = "settle" => /\ scans[i].files = loc[i].files
                         /\ scans[i].threats = loc[i].threats

ShownComplete ==
  progress.stage = "complete" =>
    /\ progress.scan \in ScanIds
    /\ Closed(progress.scan)
    /\ progress.files = scans[progress.scan].files
    /\ progress.threats = scans[progress.scan].threats

FiguresInv ==
  /\ \A i \in ScanIds : Live(i) => ShownFollow(i) /\ WrittenFollow(i)
  /\ \A i \in ScanIds : progress.scan = i => pc[i] # "none"
  /\ ShownComplete

\* What stays of the figures shown, unless a file is taken or the scan settles.
LEMMA FiguresKept ==
  ASSUME TypeOK, NEW i \in ScanIds, EnginesStep(i) \/ ScanStep(i), ~Settle(i),
         \A size \in FileSizes, installed \in BOOLEAN : ~NextFile(i, size, installed)
  PROVE  /\ progress'.scan = progress.scan
         /\ progress'.files = progress.files /\ progress'.threats = progress.threats
         /\ progress'.stage = progress.stage \/ progress'.stage # "complete"
<1>a. progress \in ScanProgress
  BY DEF TypeOK, ViewTypeOK
<1> DEFINE Kept == /\ progress'.scan = progress.scan
                   /\ progress'.files = progress.files
                   /\ progress'.threats = progress.threats
                   /\ progress'.stage = progress.stage \/ progress'.stage # "complete"
<1>1. ASSUME NEW stage, set_progress(stage), stage # "complete" PROVE Kept
  BY <1>1, <1>a DEF set_progress, ScanProgress
<1>2. CASE Begin(i) \/ Exhausted(i) \/ NextCancelled(i) \/ ResumeStop(i)
  BY <1>1, <1>2 DEF Begin, Exhausted, NextCancelled, ResumeStop, LeaveLoop
<1>3. CASE Hash(i) \/ \E installed \in BOOLEAN : StartYara(i, installed)
  BY <1>1, <1>3 DEF Hash, StartYara
<1>4. CASE Alert(i) \/ ResumeDetails(i)
  BY <1>4, <1>a DEF Alert, ResumeDetails, Prompt, ScanProgress
<1>5. CASE \/ EnginesStep(i) \/ \E size \in FileSizes : NextSkipped(i, size)
           \/ SkipTimedOut(i) \/ Detect(i) \/ ResumeContinue(i)
           \/ SkipYara(i) \/ NextHit(i) \/ Count(i) \/ WriteTxt(i) \/ WriteHtml(i)
           \/ LogSkipped(i) \/ Except(i) \/ Finish(i) \/ FinishRaises(i) \/ Raise(i)
           \/ CountRaises(i)
  <2>1. progress' = progress
    BY <1>5 DEF EnginesStep, ClamAnswer, ClamTimeout, YaraAnswer, YaraTimeout, YaraKilled,
       NextSkipped, SkipTimedOut, Detect, ResumeContinue, SkipYara, NextHit, Count,
       WriteTxt, WriteHtml, LogSkipped, Except, Finish, FinishRaises, Raise, CountRaises
  <2> QED
    BY <2>1
<1> QED
  BY <1>2, <1>3, <1>4, <1>5 DEF ScanStep

\* What stays of the figures counted, unless a file or a threat is.
LEMMA CountsKept ==
  ASSUME TypeOK, NEW i \in ScanIds, EnginesStep(i) \/ ScanStep(i), ~Settle(i),
         ~FinishRaises(i), ~Count(i), ~CountRaises(i), ~Hash(i), ~NextHit(i)
  PROVE  loc'[i].files = loc[i].files /\ loc'[i].threats = loc[i].threats
<1>a. loc \in [ScanIds -> Locals] /\ loc[i] \in Locals
  BY DEF TypeOK, TaskTypeOK
<1>1. CASE EnginesStep(i)
  BY <1>a, <1>1 DEF EnginesStep, ClamAnswer, ClamTimeout, YaraAnswer, YaraTimeout,
     YaraKilled, SetLocals, Locals
<1>2. CASE ScanStep(i)
  BY <1>a, <1>2 DEF ScanStep, Begin, Exhausted, NextCancelled, NextSkipped, NextFile,
     SkipTimedOut, Detect, Alert, ResumeContinue, ResumeDetails, ResumeStop, StartYara,
     SkipYara, WriteTxt, WriteHtml, LogSkipped, Except, Finish, Raise, SetLocals, Locals
<1> QED
  BY <1>1, <1>2

\* The figures of the locals, of the progress and of the row are numbers.
LEMMA FigureTypes ==
  ASSUME TypeOK, NEW i \in ScanIds
  PROVE  /\ loc[i].files \in Nat /\ loc[i].threats \in Nat
         /\ progress.files \in Nat /\ progress.threats \in Nat
         /\ scans[i].files \in Nat /\ scans[i].threats \in Nat
BY DEF TypeOK, TaskTypeOK, ViewTypeOK, HistoryTypeOK, Locals, ScanProgress, Row

\* A file is taken: the locals are shown.
LEMMA NextFileFigures ==
  ASSUME TypeOK, NEW i \in ScanIds, NEW size \in FileSizes, NEW installed \in BOOLEAN,
         NextFile(i, size, installed)
  PROVE  /\ progress'.scan = progress.scan /\ progress'.stage = "clamav"
         /\ progress'.files = loc[i].files /\ progress'.threats = loc[i].threats
         /\ loc'[i].files = loc[i].files /\ loc'[i].threats = loc[i].threats
         /\ pc[i] = "next" /\ pc'[i] \in {"clamWait", "hash"} /\ scans' = scans
<1>a. /\ progress \in ScanProgress /\ loc \in [ScanIds -> Locals] /\ loc[i] \in Locals
      /\ pc \in [ScanIds -> PCs]
  BY DEF TypeOK, ViewTypeOK, TaskTypeOK
<1>1. /\ progress'.scan = progress.scan /\ progress'.stage = "clamav"
      /\ progress'.files = loc[i].files /\ progress'.threats = loc[i].threats
  BY <1>a DEF NextFile, set_figures, ScanProgress
<1>2. loc'[i].files = loc[i].files /\ loc'[i].threats = loc[i].threats
  BY <1>a DEF NextFile, SetLocals, Locals
<1> QED
  BY <1>a, <1>1, <1>2 DEF NextFile, At, Goto, history

\* A threat is counted, or there is none (left).
LEMMA ThreatFigures ==
  ASSUME TypeOK, NEW i \in ScanIds, Hash(i) \/ NextHit(i)
  PROVE  /\ loc'[i].files = loc[i].files /\ scans' = scans /\ pc[i] \in FileInHand
         /\ \/ pc'[i] = "detect" /\ loc'[i].threats = loc[i].threats + 1
            \/ pc'[i] \in {"yara", "count"} /\ loc'[i].threats = loc[i].threats
<1>a. loc \in [ScanIds -> Locals] /\ loc[i] \in Locals /\ pc \in [ScanIds -> PCs]
  BY DEF TypeOK, TaskTypeOK
<1>1. CASE loc[i].hits > 0
  <2>1. /\ loc'[i].files = loc[i].files /\ loc'[i].threats = loc[i].threats + 1
    BY <1>a, <1>1 DEF Hash, NextHit, SetLocals, Locals
  <2> QED
    BY <1>a, <1>1, <2>1 DEF Hash, NextHit, At, Goto, FileInHand, history
<1>2. CASE ~(loc[i].hits > 0)
  BY <1>a, <1>2 DEF Hash, NextHit, At, Goto, FileInHand, history
<1> QED
  BY <1>1, <1>2

\* A file is counted, and the row follows or does not, or could not.
LEMMA FileFigures ==
  ASSUME TypeOK, NEW i \in ScanIds, Count(i) \/ CountRaises(i)
  PROVE  /\ loc'[i].files = loc[i].files + 1 /\ loc'[i].threats = loc[i].threats
         /\ \/ scans'[i].files = scans[i].files /\ scans'[i].threats = scans[i].threats
            \/ scans'[i].files = loc[i].files + 1 /\ scans'[i].threats = loc[i].threats
         /\ pc'[i] \in {"next", "except"}
<1>a. /\ loc \in [ScanIds -> Locals] /\ loc[i] \in Locals /\ pc \in [ScanIds -> PCs]
      /\ scans \in [ScanIds -> Row] /\ scans[i] \in Row
  BY DEF TypeOK, TaskTypeOK, HistoryTypeOK
<1>1. loc'[i].files = loc[i].files + 1 /\ loc'[i].threats = loc[i].threats
  BY <1>a DEF Count, CountRaises, SetLocals, Locals
<1>2. \/ scans' = scans
      \/ scans' = [scans EXCEPT ![i] = [@ EXCEPT !.files = loc[i].files + 1,
                                                 !.threats = loc[i].threats]]
  BY DEF Count, CountRaises, update_scan_progress, history
<1>3. \/ scans'[i].files = scans[i].files /\ scans'[i].threats = scans[i].threats
      \/ scans'[i].files = loc[i].files + 1 /\ scans'[i].threats = loc[i].threats
  BY <1>a, <1>2 DEF Row
<1>4. pc'[i] \in {"next", "except"}
  BY <1>a DEF Count, CountRaises, Goto
<1> QED
  BY <1>1, <1>3, <1>4

\* The other steps between two files stay there, and before a prompt too.
LEMMA LabelsFollow ==
  ASSUME TypeOK, NEW i \in ScanIds, EnginesStep(i) \/ ScanStep(i), ~Settle(i),
         ~FinishRaises(i), ~Finish(i), ~Count(i), ~CountRaises(i), ~Hash(i), ~NextHit(i),
         \A size \in FileSizes, installed \in BOOLEAN : ~NextFile(i, size, installed)
  PROVE  /\ pc'[i] \in FileInHand => pc[i] \in FileInHand
         /\ pc'[i] \in {"detect", "alert", "promptWait"} => pc[i] \in {"detect", "alert", "promptWait"}
         /\ pc'[i] \notin {"none", "created", "settle"} /\ pc[i] # "settle"
<1>a. pc \in [ScanIds -> PCs]
  BY DEF TypeOK, TaskTypeOK
<1>1. CASE EnginesStep(i)
  BY <1>a, <1>1 DEF EnginesStep, ClamAnswer, ClamTimeout, YaraAnswer, YaraTimeout,
     YaraKilled, At, Goto, FileInHand
<1>2. CASE ScanStep(i)
  BY <1>a, <1>2 DEF ScanStep, Begin, Exhausted, NextCancelled, NextSkipped,
     SkipTimedOut, Detect, Alert, ResumeContinue, ResumeDetails, ResumeStop, StartYara,
     SkipYara, WriteTxt, WriteHtml, LogSkipped, Except, Raise, CanRaise, LeaveLoop,
     Answered, At, Goto, FileInHand
<1> QED
  BY <1>1, <1>2

\* A step of a scan keeps its own figures in line.
LEMMA CoroutineFigures ==
  ASSUME TypeOK, LedgerInv, NEW i \in ScanIds, Live(i), ShownFollow(i), WrittenFollow(i),
         EnginesStep(i) \/ ScanStep(i), Live(i)'
  PROVE  ShownFollow(i)' /\ WrittenFollow(i)'
<1>a. ~Settle(i) /\ ~FinishRaises(i)
  BY DEF Settle, FinishRaises, Goto, Live, Suspended, Busy, TypeOK, TaskTypeOK
<1> USE FigureTypes
<1>1. ASSUME NEW size \in FileSizes, NEW installed \in BOOLEAN, NextFile(i, size, installed)
      PROVE  ShownFollow(i)' /\ WrittenFollow(i)'
  BY <1>1, NextFileFigures DEF ShownFollow, WrittenFollow, FileInHand
<1>2. CASE Hash(i) \/ NextHit(i)
  <2>1. /\ progress'.files = progress.files /\ progress'.threats = progress.threats
    BY <1>2, FiguresKept DEF Hash, NextHit, NextFile, At, Goto, TypeOK, TaskTypeOK, Settle
  <2> QED
    BY <1>2, <2>1, ThreatFigures DEF ShownFollow, WrittenFollow, FileInHand
<1>3. CASE Count(i) \/ CountRaises(i)
  <2>1. /\ progress'.files = progress.files /\ progress'.threats = progress.threats
    BY <1>3 DEF Count, CountRaises
  <2> QED
    BY <1>3, <2>1, FileFigures DEF ShownFollow, WrittenFollow, FileInHand
<1>4. CASE Finish(i)
  <2>1. /\ pc[i] = "finish" /\ pc'[i] = "settle" /\ loc' = loc /\ progress' = progress
    BY <1>4 DEF Finish, At, Goto, TypeOK, TaskTypeOK
  <2>2. scans[i].status = "running" /\ scans \in [ScanIds -> Row]
    BY <2>1 DEF LedgerInv, RowFollows, Live, Busy, TypeOK, HistoryTypeOK
  <2>3. scans'[i].files = loc[i].files /\ scans'[i].threats = loc[i].threats
    BY <1>4, <2>2 DEF Finish, finish_scan, NoRow, ScanFinish
  <2> QED
    BY <2>1, <2>3 DEF ShownFollow, WrittenFollow, FileInHand
<1>5. CASE /\ ~Hash(i) /\ ~NextHit(i) /\ ~Count(i) /\ ~CountRaises(i) /\ ~Finish(i)
           /\ \A size \in FileSizes, installed \in BOOLEAN : ~NextFile(i, size, installed)
  <2>1. /\ progress'.files = progress.files /\ progress'.threats = progress.threats
        /\ loc'[i].files = loc[i].files /\ loc'[i].threats = loc[i].threats
    BY <1>a, <1>5, FiguresKept, CountsKept
  <2>2. scans' = scans
    BY <1>5, QuietStep DEF Detect
  <2> QED
    BY <1>a, <1>5, <2>1, <2>2, LabelsFollow DEF ShownFollow, WrittenFollow
<1> QED
  BY <1>1, <1>2, <1>3, <1>4, <1>5

\* What is shown as complete stays so while nothing else is shown.
LEMMA CompleteStays ==
  ASSUME TypeOK, LedgerInv, [Next]_vars, ShownComplete,
         progress'.stage = progress.stage \/ progress'.stage # "complete",
         progress'.scan = progress.scan, progress'.files = progress.files,
         progress'.threats = progress.threats
  PROVE  ShownComplete'
BY RowFrozen, ClosedStays DEF ShownComplete, Closed

\* Every step keeps what is shown as complete.
LEMMA ShownCompleteStep ==
  ASSUME TypeOK, SingleScan, LedgerInv, AnnouncedInv, FiguresInv, [Next]_vars
  PROVE  ShownComplete'
<1>a. ShownComplete /\ progress \in ScanProgress
  BY DEF FiguresInv, TypeOK, ViewTypeOK
<1>1. ASSUME NEW i \in ScanIds, EnginesStep(i) \/ ScanStep(i) PROVE ShownComplete'
  <2>1. CASE Settle(i)
    <3>1. Closed(i) /\ WrittenFollow(i) /\ pc[i] = "settle"
      BY <2>1 DEF Settle, At, AnnouncedInv, FiguresInv, Live, Busy
    <3>2. /\ progress'.scan = i /\ scans' = scans
          /\ progress'.files = loc[i].files /\ progress'.threats = loc[i].threats
      BY <2>1 DEF Settle, ProgressAt, history
    <3> QED
      BY <3>1, <3>2 DEF ShownComplete, WrittenFollow, Closed
  <2>2. ASSUME NEW size \in FileSizes, NEW installed \in BOOLEAN, NextFile(i, size, installed)
        PROVE  ShownComplete'
    BY <2>2, NextFileFigures DEF ShownComplete
  <2>3. CASE ~Settle(i) /\ \A size \in FileSizes, installed \in BOOLEAN : ~NextFile(i, size, installed)
    BY <1>a, <1>1, <2>3, FiguresKept, CompleteStays
  <2> QED
    BY <2>1, <2>2, <2>3
<1>2. ASSUME NEW i \in ScanIds, NEW rooted \in BOOLEAN,
             start_scan(i, rooted) \/ start_scan_raises(i, rooted)
      PROVE  ShownComplete'
  BY <1>2 DEF start_scan, start_scan_raises, AdmitScan, ProgressAt, ShownComplete
<1>3. ASSUME \/ \E d \in Drives \cup {None} : internal_drive_event(d)
             \/ cancel_scan \/ \E a \in ThreatAction : handle_threat_action(a)
             \/ Interrupt \/ UNCHANGED vars
      PROVE  ShownComplete'
  <2>1. progress' = progress
    BY <1>3 DEF internal_drive_event, cancel_scan, handle_threat_action, Interrupt, vars
  <2> QED
    BY <1>a, <2>1, CompleteStays
<1>4. ASSUME Restart \/ Crash PROVE ShownComplete'
  BY <1>4, NoneAssumption DEF Restart, Crash, FreshController, NoProgress, ProgressAt,
     ShownComplete, ScanStage
<1> QED
  BY <1>1, <1>2, <1>3, <1>4 DEF Next, Request

\* Every step keeps the figures in line.
LEMMA FiguresInvStep ==
  ASSUME TypeOK, SingleScan, LedgerInv, AnnouncedInv, FiguresInv, [Next]_vars
  PROVE  FiguresInv'
<1>a. pc \in [ScanIds -> PCs] /\ scans \in [ScanIds -> Row] /\ loc \in [ScanIds -> Locals]
  BY DEF TypeOK, TaskTypeOK, HistoryTypeOK
<1>1. ASSUME NEW j \in ScanIds, Live(j)' PROVE ShownFollow(j)' /\ WrittenFollow(j)'
  <2>1. ASSUME NEW i \in ScanIds, EnginesStep(i) \/ ScanStep(i)
        PROVE  ShownFollow(j)' /\ WrittenFollow(j)'
    <3>1. i = j /\ Live(i)
      BY <1>1, <2>1, CoroutineStep DEF OwnStep, SingleScan, Live
    <3> QED
      BY <1>1, <2>1, <3>1, CoroutineFigures DEF FiguresInv
  <2>2. ASSUME NEW i \in ScanIds, NEW rooted \in BOOLEAN,
               start_scan(i, rooted) \/ start_scan_raises(i, rooted)
        PROVE  ShownFollow(j)' /\ WrittenFollow(j)'
    <3>1. ~Live(j)
      BY <2>2, NoSecondStart DEF start_scan, start_scan_raises
    <3>2. i = j /\ start_scan(i, rooted)
      BY <1>1, <1>a, <2>2, <3>1 DEF start_scan, start_scan_raises, Goto, Live, Suspended, Busy
    <3>3. scans[j] = NoRow /\ loc[j] = FreshLocals /\ pc'[j] = "created"
      BY <1>a, <3>2 DEF start_scan, LedgerInv, RowFollows, Goto
    <3>4. /\ progress'.files = 0 /\ progress'.threats = 0 /\ loc' = loc
          /\ scans'[j].files = 0 /\ scans'[j].threats = 0
      BY <1>a, <3>2, <3>3 DEF start_scan, AdmitScan, ProgressAt, create_scan, NoRow
    <3> QED
      BY <3>3, <3>4 DEF ShownFollow, WrittenFollow, FreshLocals
  <2>3. ASSUME \/ \E d \in Drives \cup {None} : internal_drive_event(d)
               \/ cancel_scan \/ \E a \in ThreatAction : handle_threat_action(a)
               \/ UNCHANGED vars
        PROVE  ShownFollow(j)' /\ WrittenFollow(j)'
    <3>1. progress' = progress /\ pc' = pc /\ loc' = loc /\ scans' = scans
      BY <2>3 DEF internal_drive_event, cancel_scan, handle_threat_action, vars, history
    <3> QED
      BY <1>1, <3>1 DEF FiguresInv, ShownFollow, WrittenFollow, Live
  <2>4. ASSUME Interrupt PROVE ShownFollow(j)' /\ WrittenFollow(j)'
    <3>1. progress' = progress /\ loc' = loc /\ scans' = scans
      BY <2>4 DEF Interrupt, history
    <3>2. Live(j) /\ (pc'[j] = pc[j] \/ pc'[j] = "finish")
      BY <1>1, <2>4, InterruptLabels DEF Live, Suspended, Busy
    <3> QED
      BY <3>1, <3>2 DEF FiguresInv, ShownFollow, WrittenFollow, FileInHand
  <2>5. ASSUME Restart \/ Crash PROVE FALSE
    BY <1>1, <2>5 DEF Restart, Crash, Live, Suspended, Busy
  <2> QED
    BY <2>1, <2>2, <2>3, <2>4, <2>5 DEF Next, Request
<1>2. ASSUME NEW j \in ScanIds, progress'.scan = j PROVE pc'[j] # "none"
  <2>1. ASSUME NEW i \in ScanIds, EnginesStep(i) \/ ScanStep(i) PROVE pc'[j] # "none"
    <3>1. CASE i = j
      BY <1>a, <2>1, <3>1, GoesOn DEF Live, Suspended, Busy, Settle, FinishRaises, Goto
    <3>2. CASE i # j
      <4>1. pc'[j] = pc[j] /\ (pc'[i] = "done" \/ progress'.scan = progress.scan)
        BY <2>1, <3>2, CoroutineStep DEF OwnStep
      <4>2. progress'.scan \in {progress.scan, i}
        BY <2>1, FiguresKept, NextFileFigures DEF Settle, ProgressAt
      <4> QED
        BY <1>2, <3>2, <4>1, <4>2 DEF FiguresInv
    <3> QED
      BY <3>1, <3>2
  <2>2. ASSUME NEW i \in ScanIds, NEW rooted \in BOOLEAN,
               start_scan(i, rooted) \/ start_scan_raises(i, rooted)
        PROVE  pc'[j] # "none"
    <3>1. i = j
      BY <1>2, <2>2 DEF start_scan, start_scan_raises, AdmitScan, ProgressAt
    <3> QED
      BY <2>2, <3>1, StartKeeps
  <2>3. ASSUME \/ \E d \in Drives \cup {None} : internal_drive_event(d)
               \/ cancel_scan \/ \E a \in ThreatAction : handle_threat_action(a)
               \/ UNCHANGED vars
        PROVE  pc'[j] # "none"
    BY <1>2, <2>3 DEF internal_drive_event, cancel_scan, handle_threat_action, vars, FiguresInv
  <2>4. ASSUME Interrupt PROVE pc'[j] # "none"
    <3>1. progress' = progress
      BY <2>4 DEF Interrupt
    <3> QED
      BY <1>2, <2>4, <3>1, InterruptLabels DEF FiguresInv
  <2>5. ASSUME Restart \/ Crash PROVE FALSE
    BY <1>2, <2>5, NoneAssumption DEF Restart, Crash, FreshController, NoProgress, ProgressAt
  <2> QED
    BY <2>1, <2>2, <2>3, <2>4, <2>5 DEF Next, Request
<1> QED
  BY <1>1, <1>2, ShownCompleteStep DEF FiguresInv

\* Nothing is shown or live at first.
LEMMA FiguresInvInit == Init => FiguresInv
<1> SUFFICES ASSUME Init PROVE FiguresInv
  OBVIOUS
<1>1. \A i \in ScanIds : ~Live(i)
  BY DEF Init, Live, Suspended, Busy
<1>2. progress.stage # "complete" /\ progress.scan \notin ScanIds
  BY NoneAssumption DEF Init, NoProgress, ProgressAt, ScanStage
<1> QED
  BY <1>1, <1>2 DEF FiguresInv, ShownComplete

\* What GET /scan/progress counts is what the coroutine has counted: the files
\* exactly, the threats never more than are on record; and a scan shown as
\* complete has a closed row with these figures.
THEOREM FiguresAreShown == Spec => []FiguresShown
<1>1. TypeOK /\ LedgerInv /\ FiguresInv => FiguresShown
  <2> SUFFICES ASSUME TypeOK, LedgerInv, FiguresInv PROVE FiguresShown
    OBVIOUS
  <2>1. ASSUME LoopFree, NEW i \in ScanIds, Live(i)
        PROVE  progress.files = loc[i].files /\ progress.threats <= detections[i]
    <3>1. pc[i] \in Suspended
      BY <2>1 DEF LoopFree, Live
    <3>2. ShownFollow(i) /\ loc[i].threats = detections[i]
      BY <2>1, <3>1 DEF FiguresInv, LedgerInv, ThreatsFollow, Suspended
    <3> QED
      BY <3>1, <3>2 DEF ShownFollow, Suspended, FileInHand
  <2> QED
    BY <2>1 DEF FiguresInv, ShownComplete, FiguresShown
<1>2. TypeOK /\ SingleScan /\ LedgerInv /\ AnnouncedInv /\ FiguresInv /\ [Next]_vars => FiguresInv'
  BY FiguresInvStep
<1> QED
  BY <1>1, <1>2, TypeInit, TypeStep, SingleInit, SingleStep, LedgerInvInit, LedgerInvStep,
     AnnouncedInit, AnnouncedStep, FiguresInvInit, PTL DEF Spec

\* What is shown of a scan does not go back.
LEMMA ShownGrows ==
  ASSUME TypeOK, SingleScan, FiguresInv, [Next]_vars,
         progress.scan # None, progress'.scan = progress.scan
  PROVE  progress.files <= progress'.files /\ progress.threats <= progress'.threats
<1>a. progress.files \in Nat /\ progress.threats \in Nat
  BY DEF TypeOK, ViewTypeOK, ScanProgress
<1>1. ASSUME NEW i \in ScanIds, EnginesStep(i) \/ ScanStep(i)
      PROVE  progress.files <= progress'.files /\ progress.threats <= progress'.threats
  <2>1. Live(i) /\ ShownFollow(i)
    BY <1>1, CoroutineStep DEF OwnStep, FiguresInv
  <2>2. CASE Settle(i)
    BY <2>1, <2>2 DEF Settle, ProgressAt, ShownFollow
  <2>3. ASSUME NEW size \in FileSizes, NEW installed \in BOOLEAN, NextFile(i, size, installed)
        PROVE  progress.files <= progress'.files /\ progress.threats <= progress'.threats
    BY <2>1, <2>3, NextFileFigures DEF ShownFollow
  <2>4. CASE ~Settle(i) /\ \A size \in FileSizes, installed \in BOOLEAN : ~NextFile(i, size, installed)
    BY <1>a, <1>1, <2>4, FiguresKept
  <2> QED
    BY <2>2, <2>3, <2>4
<1>2. ASSUME NEW i \in ScanIds, NEW rooted \in BOOLEAN,
             start_scan(i, rooted) \/ start_scan_raises(i, rooted)
      PROVE  FALSE
  BY <1>2, StartKeeps DEF start_scan, start_scan_raises, AdmitScan, ProgressAt, FiguresInv
<1>3. ASSUME \/ \E d \in Drives \cup {None} : internal_drive_event(d)
             \/ cancel_scan \/ \E a \in ThreatAction : handle_threat_action(a)
             \/ Interrupt \/ UNCHANGED vars
      PROVE  progress' = progress
  BY <1>3 DEF internal_drive_event, cancel_scan, handle_threat_action, Interrupt, vars
<1>4. ASSUME Restart \/ Crash PROVE FALSE
  BY <1>4 DEF Restart, Crash, FreshController, NoProgress, ProgressAt
<1> QED
  BY <1>a, <1>1, <1>2, <1>3, <1>4 DEF Next, Request

\* Nor does what is written of one.
LEMMA WrittenGrows ==
  ASSUME TypeOK, LedgerInv, FiguresInv, [Next]_vars, NEW j \in ScanIds
  PROVE  scans[j].files <= scans'[j].files /\ scans[j].threats <= scans'[j].threats
<1>a. scans[j].files \in Nat /\ scans[j].threats \in Nat /\ scans \in [ScanIds -> Row]
  BY FigureTypes DEF TypeOK, HistoryTypeOK
<1>1. ASSUME NEW i \in ScanIds, EnginesStep(i) \/ ScanStep(i)
      PROVE  scans[j].files <= scans'[j].files /\ scans[j].threats <= scans'[j].threats
  <2>1. CASE i # j
    <3>1. scans'[j] = scans[j]
      BY <1>1, <2>1, CoroutineFollows DEF Follows, Elsewhere
    <3> QED
      BY <1>a, <3>1
  <2>2. CASE i = j
    <3>1. Live(i) /\ WrittenFollow(i)
      BY <1>1, CoroutineStep DEF OwnStep, FiguresInv
    <3>2. CASE Count(i)
      BY <1>a, <2>2, <3>1, <3>2, FigureTypes, FileFigures DEF WrittenFollow
    <3>3. CASE Finish(i)
      <4>1. scans[i].status = "running"
        BY <3>3 DEF Finish, At, LedgerInv, RowFollows, Live, Busy
      <4>2. scans'[i].files = loc[i].files /\ scans'[i].threats = loc[i].threats
        BY <1>a, <3>3, <4>1 DEF Finish, finish_scan, NoRow, ScanFinish
      <4> QED
        BY <2>2, <3>1, <4>2 DEF WrittenFollow
    <3>4. CASE ~Count(i) /\ ~Finish(i)
      <4>1. scans' = scans
        BY <1>1, <3>4, QuietStep DEF Detect
      <4> QED
        BY <1>a, <4>1
    <3> QED
      BY <3>2, <3>3, <3>4
  <2> QED
    BY <2>1, <2>2
<1>2. ASSUME NEW i \in ScanIds, NEW rooted \in BOOLEAN,
             start_scan(i, rooted) \/ start_scan_raises(i, rooted)
      PROVE  scans'[j].files = scans[j].files /\ scans'[j].threats = scans[j].threats
  BY <1>a, <1>2 DEF start_scan, start_scan_raises, create_scan, Row
<1>3. ASSUME \/ \E d \in Drives \cup {None} : internal_drive_event(d)
             \/ cancel_scan \/ \E a \in ThreatAction : handle_threat_action(a)
             \/ Interrupt \/ Restart \/ Crash \/ UNCHANGED vars
      PROVE  scans' = scans
  BY <1>3 DEF internal_drive_event, cancel_scan, handle_threat_action, Interrupt, Restart,
     Crash, vars, history
<1> QED
  BY <1>a, <1>1, <1>2, <1>3 DEF Next, Request

\* No figure of a scan, shown or written, ever goes back, whichever of its
\* writers is next and whatever else happens in between.
THEOREM FiguresOnlyGrow == Spec => FiguresGrow
<1>1. TypeOK /\ SingleScan /\ LedgerInv /\ FiguresInv /\ [Next]_vars =>
        [/\ progress.scan # None /\ progress'.scan = progress.scan =>
              progress.files <= progress'.files /\ progress.threats <= progress'.threats
         /\ \A i \in ScanIds :
              scans[i].files <= scans'[i].files /\ scans[i].threats <= scans'[i].threats]_vars
  BY ShownGrows, WrittenGrows
<1>2. TypeOK /\ SingleScan /\ LedgerInv /\ AnnouncedInv /\ FiguresInv /\ [Next]_vars => FiguresInv'
  BY FiguresInvStep
<1> QED
  BY <1>1, <1>2, TypeInit, TypeStep, SingleInit, SingleStep, LedgerInvInit, LedgerInvStep,
     AnnouncedInit, AnnouncedStep, FiguresInvInit, PTL DEF Spec, FiguresGrow

-------------------------------------------------------------------------------
(***************************************************************************)
(* The status a row is closed with.  It is the local `status`, which turns *)
(* to "cancelled" in one place and to "failed" in another, and SIGINT may  *)
(* send the coroutine to its `finally` from anywhere between.              *)
(***************************************************************************)

Errors(i) == events[i]["scan_error"]

OutcomeFollows(i) ==
  /\ pc[i] = "except" \/ loc[i].status = "failed" \/ scans[i].status = "failed" => faults > 0
  /\ pc[i] = "none" => Errors(i) = 0
  /\ Live(i) /\ Errors(i) > 0 => pc[i] \in {"finish", "settle"} /\ loc[i].status = "failed"
  /\ Closed(i) /\ scans[i].status # "failed" => Errors(i) = 0
  /\ Live(i) /\ loc[i].status = "cancelled" => cancelRequested

OutcomeInv == \A i \in ScanIds : OutcomeFollows(i)

\* The number of faults does not go back.
LEMMA FaultsKept == ASSUME TypeOK, [Next]_vars PROVE faults' \in {faults, faults + 1}
<1>1. ASSUME NEW i \in ScanIds, Except(i) \/ Raise(i) \/ CountRaises(i) \/ FinishRaises(i)
      PROVE  faults' \in {faults, faults + 1}
  BY <1>1 DEF Except, Raise, CountRaises, FinishRaises, Fault
<1>2. ASSUME NEW i \in ScanIds, EnginesStep(i) \/ ScanStep(i),
             ~Except(i), ~Raise(i), ~CountRaises(i), ~FinishRaises(i)
      PROVE  faults' = faults
  BY <1>2 DEF EnginesStep, ScanStep, ClamAnswer, ClamTimeout, YaraAnswer, YaraTimeout,
     YaraKilled, Begin, Exhausted, NextCancelled, NextSkipped, NextFile, SkipTimedOut,
     Hash, Detect, Alert, ResumeContinue, ResumeDetails, ResumeStop, StartYara,
     SkipYara, NextHit, Count, WriteTxt, WriteHtml, LogSkipped, Finish, Settle, env
<1>3. ASSUME \/ \E d \in Drives \cup {None} : internal_drive_event(d)
             \/ \E i \in ScanIds, rooted \in BOOLEAN :
                  start_scan(i, rooted) \/ start_scan_raises(i, rooted)
             \/ cancel_scan \/ \E a \in ThreatAction : handle_threat_action(a)
             \/ Interrupt \/ Restart \/ Crash \/ UNCHANGED vars
      PROVE  faults' \in {faults, faults + 1}
  BY <1>3 DEF internal_drive_event, start_scan, start_scan_raises, Fault, cancel_scan,
     handle_threat_action, Interrupt, Restart, Crash, vars, env
<1> QED
  BY <1>1, <1>2, <1>3 DEF Next, Request

\* The two places where the local `status` changes.
LEMMA StatusSet ==
  ASSUME TypeOK, NEW i \in ScanIds, EnginesStep(i) \/ ScanStep(i)
  PROVE  \/ loc'[i].status = loc[i].status
         \/ cancelRequested /\ pc'[i] = "report" /\ loc'[i].status = "cancelled"
         \/ Except(i) /\ loc'[i].status = "failed"
         \/ pc'[i] = "done" /\ loc'[i].status = "completed"
<1>a. loc \in [ScanIds -> Locals] /\ loc[i] \in Locals /\ pc \in [ScanIds -> PCs]
  BY DEF TypeOK, TaskTypeOK
<1>1. CASE NextCancelled(i)
  BY <1>a, <1>1 DEF NextCancelled, LeaveLoop, Goto, SetLocals, Locals
<1>2. CASE Except(i)
  BY <1>a, <1>2 DEF Except, SetLocals, Locals
<1>3. CASE FinishRaises(i) \/ Settle(i)
  BY <1>a, <1>3 DEF FinishRaises, Settle, Goto, SetLocals, FreshLocals
<1>4. CASE EnginesStep(i)
  BY <1>a, <1>4 DEF EnginesStep, ClamAnswer, ClamTimeout, YaraAnswer, YaraTimeout,
     YaraKilled, SetLocals, Locals
<1>5. CASE ScanStep(i) /\ ~NextCancelled(i) /\ ~Except(i) /\ ~FinishRaises(i) /\ ~Settle(i)
  BY <1>a, <1>5 DEF ScanStep, Begin, Exhausted, NextSkipped, NextFile, SkipTimedOut, Hash,
     Detect, Alert, ResumeContinue, ResumeDetails, ResumeStop, StartYara, SkipYara,
     NextHit, Count, WriteTxt, WriteHtml, LogSkipped, Finish, Raise, CountRaises,
     SetLocals, Locals
<1> QED
  BY <1>1, <1>2, <1>3, <1>4, <1>5

\* Only the except clause records an error.
LEMMA OnlyExceptRecords ==
  ASSUME TypeOK, NEW i \in ScanIds, EnginesStep(i) \/ ScanStep(i), ~Except(i)
  PROVE  Errors(i)' = Errors(i)
<1>1. events \in [ScanIds -> [EventTypes -> Nat]]
  BY DEF TypeOK, HistoryTypeOK
<1>2. ASSUME SkipTimedOut(i) \/ LogSkipped(i) \/ Alert(i) PROVE Errors(i)' = Errors(i)
  BY <1>1, <1>2 DEF SkipTimedOut, LogSkipped, Alert, insert_event, Errors, EventTypes
<1>3. ASSUME ~SkipTimedOut(i), ~LogSkipped(i), ~Alert(i) PROVE events' = events
  BY <1>3 DEF EnginesStep, ScanStep, history, ClamAnswer, ClamTimeout, YaraAnswer,
     YaraTimeout, YaraKilled, Begin, Exhausted, NextCancelled, NextSkipped,
     NextFile, Hash, Detect, ResumeContinue, ResumeDetails, ResumeStop,
     StartYara, SkipYara, NextHit, Count, WriteTxt, WriteHtml, Finish,
     FinishRaises, Settle, Raise, CountRaises
<1> QED
  BY <1>2, <1>3 DEF Errors

\* A step of a scan keeps its own status earned.
LEMMA CoroutineOutcome ==
  ASSUME TypeOK, LedgerInv, [Next]_vars, NEW i \in ScanIds, OutcomeFollows(i),
         EnginesStep(i) \/ ScanStep(i)
  PROVE  OutcomeFollows(i)'
<1>a. /\ pc \in [ScanIds -> PCs] /\ scans \in [ScanIds -> Row]
      /\ faults \in Nat /\ faults' \in {faults, faults + 1}
      /\ Errors(i) \in Nat
      /\ Live(i) /\ cancelRequested' = cancelRequested
      /\ pc[i] # "settle" => scans[i].status = "running"
  BY FaultsKept, CoroutineStep DEF TypeOK, TaskTypeOK, EnvTypeOK, HistoryTypeOK, Errors,
     EventTypes, LedgerInv, RowFollows, OwnStep
<1>1. CASE Except(i)
  <2>1. pc[i] = "except" /\ pc'[i] = "finish" /\ scans' = scans
    BY <1>a, <1>1 DEF Except, At, Goto
  <2>2. loc'[i].status = "failed"
    BY <1>1 DEF Except, SetLocals, TypeOK, TaskTypeOK, Locals
  <2> QED
    BY <1>a, <2>1, <2>2 DEF OutcomeFollows, Closed, FinalStatuses
<1>2. CASE Finish(i)
  <2>1. pc[i] = "finish" /\ pc'[i] = "settle" /\ loc' = loc
    BY <1>a, <1>2 DEF Finish, At, Goto
  <2>2. scans'[i].status = loc[i].status
    BY <1>a, <1>2, <2>1 DEF Finish, finish_scan, NoRow, ScanFinish
  <2>3. Errors(i)' = Errors(i)
    BY <1>2 DEF Finish, Errors
  <2> QED
    BY <1>a, <2>1, <2>2, <2>3 DEF OutcomeFollows, Closed
<1>3. CASE Raise(i) \/ CountRaises(i)
  <2>1. /\ pc[i] \notin {"finish", "settle"} /\ pc'[i] = "except" /\ faults' = faults + 1
        /\ scans' = scans
    BY <1>a, <1>3 DEF Raise, CountRaises, CanRaise, At, Goto, Fault, history
  <2>2. Errors(i)' = Errors(i)
    BY <1>3 DEF Raise, CountRaises, Errors, history
  <2>3. loc'[i].status = loc[i].status
    BY <1>3 DEF Raise, CountRaises, SetLocals, TypeOK, TaskTypeOK, Locals
  <2> QED
    BY <1>a, <2>1, <2>2, <2>3 DEF OutcomeFollows, Closed
<1>4. CASE FinishRaises(i) \/ Settle(i)
  <2>1. /\ pc'[i] = "done" /\ loc'[i].status = "completed" /\ scans' = scans
    BY <1>a, <1>4 DEF FinishRaises, Settle, Goto, SetLocals, FreshLocals, history, TypeOK,
       TaskTypeOK
  <2>2. Errors(i)' = Errors(i)
    BY <1>4 DEF FinishRaises, Settle, Errors, history
  <2> QED
    BY <1>a, <2>1, <2>2 DEF OutcomeFollows, Closed, Live, Suspended, Busy
<1>5. CASE /\ ~Except(i) /\ ~Finish(i) /\ ~Raise(i) /\ ~CountRaises(i)
           /\ ~FinishRaises(i) /\ ~Settle(i)
  <2>1. pc[i] \notin {"except", "finish", "settle"}
    BY <1>5 DEF EnginesStep, ScanStep, ClamAnswer, ClamTimeout, YaraAnswer,
       YaraTimeout, YaraKilled, Begin, Exhausted, NextCancelled, NextSkipped, NextFile,
       SkipTimedOut, Hash, Detect, Alert, ResumeContinue, ResumeDetails, ResumeStop,
       StartYara, SkipYara, NextHit, Count, WriteTxt, WriteHtml, LogSkipped, Answered, At
  <2>2. pc'[i] \notin {"except", "none", "done"}
    BY <1>a, <1>5 DEF EnginesStep, ScanStep, ClamAnswer, ClamTimeout, YaraAnswer,
       YaraTimeout, YaraKilled, Begin, Exhausted, NextCancelled, NextSkipped, NextFile,
       SkipTimedOut, Hash, Detect, Alert, ResumeContinue, ResumeDetails, ResumeStop,
       StartYara, SkipYara, NextHit, Count, WriteTxt, WriteHtml, LogSkipped, Answered,
       LeaveLoop, At, Goto
  <2>3. Errors(i)' = Errors(i) /\ Errors(i) = 0
    BY <1>a, <1>5, <2>1, OnlyExceptRecords DEF OutcomeFollows
  <2>4. scans'[i].status = scans[i].status
    BY <1>5, CountRow, QuietStep DEF Detect
  <2>5. \/ loc'[i].status = loc[i].status
        \/ loc'[i].status = "cancelled" /\ cancelRequested
    BY <1>5, <2>2, StatusSet
  <2> QED
    BY <1>a, <2>1, <2>2, <2>3, <2>4, <2>5 DEF OutcomeFollows, Closed
<1> QED
  BY <1>1, <1>2, <1>3, <1>4, <1>5

\* Every step keeps every status earned.
LEMMA OutcomeInvStep ==
  ASSUME TypeOK, SingleScan, LedgerInv, OutcomeInv, [Next]_vars
  PROVE  OutcomeInv'
<1> SUFFICES ASSUME NEW j \in ScanIds PROVE OutcomeFollows(j)'
  BY DEF OutcomeInv
<1>a. /\ OutcomeFollows(j) /\ RowFollows(j)
      /\ pc \in [ScanIds -> PCs] /\ scans \in [ScanIds -> Row]
      /\ faults \in Nat /\ faults' \in {faults, faults + 1}
  BY FaultsKept DEF OutcomeInv, LedgerInv, TypeOK, TaskTypeOK, HistoryTypeOK, EnvTypeOK
<1>1. ASSUME NEW i \in ScanIds, EnginesStep(i) \/ ScanStep(i) PROVE OutcomeFollows(j)'
  <2>1. CASE i = j
    BY <1>1, <1>a, <2>1, CoroutineOutcome
  <2>2. CASE i # j
    <3>1. Elsewhere(i) /\ events'[j] = events[j] /\ cancelRequested' = cancelRequested
      BY <1>1, <2>2, CoroutineFollows, OthersKeep, CoroutineStep DEF Follows, OwnStep
    <3>2. pc'[j] = pc[j] /\ loc'[j] = loc[j] /\ scans'[j] = scans[j] /\ Errors(j)' = Errors(j)
      BY <2>2, <3>1 DEF Elsewhere, Errors
    <3> QED
      BY <1>a, <3>1, <3>2 DEF OutcomeFollows, Live, Closed
  <2> QED
    BY <2>1, <2>2
<1>2. ASSUME NEW i \in ScanIds, NEW rooted \in BOOLEAN,
             start_scan(i, rooted) \/ start_scan_raises(i, rooted)
      PROVE  OutcomeFollows(j)'
  <2>1. loc' = loc /\ Errors(j)' = Errors(j) /\ ~Live(j)
    BY <1>2, NoSecondStart DEF start_scan, start_scan_raises, insert_event, Errors, TypeOK,
       HistoryTypeOK, EventTypes
  <2>2. CASE i = j
    <3>1. pc[j] = "none" /\ pc'[j] \in {"created", "done"}
      BY <1>2, <2>2, StartKeeps
    <3>2. scans'[j].status \in {"absent", "running"} /\ loc[j].status = "completed"
      BY <1>2, <1>a, <2>2, <3>1 DEF start_scan, start_scan_raises, create_scan, RowFollows,
         NoRow, FreshLocals
    <3> QED
      BY <1>a, <2>1, <3>1, <3>2 DEF OutcomeFollows, Closed, FinalStatuses
  <2>3. CASE i # j
    <3>1. pc'[j] = pc[j] /\ scans'[j] = scans[j]
      BY <1>2, <1>a, <2>3 DEF start_scan, start_scan_raises, create_scan, Goto
    <3> QED
      BY <1>a, <2>1, <3>1 DEF OutcomeFollows, Live, Closed
  <2> QED
    BY <2>2, <2>3
<1>3. ASSUME \/ \E d \in Drives \cup {None} : internal_drive_event(d)
             \/ cancel_scan \/ \E a \in ThreatAction : handle_threat_action(a)
             \/ UNCHANGED vars
      PROVE  OutcomeFollows(j)'
  <2>1. /\ pc' = pc /\ loc' = loc /\ scans' = scans /\ events' = events
        /\ cancelRequested => cancelRequested'
    BY <1>3 DEF internal_drive_event, cancel_scan, handle_threat_action, vars, history, fields
  <2> QED
    BY <1>a, <2>1 DEF OutcomeFollows, Errors, Live, Closed
<1>4. ASSUME Interrupt PROVE OutcomeFollows(j)'
  <2>1. /\ loc' = loc /\ scans' = scans /\ events' = events
        /\ cancelRequested' = cancelRequested
    BY <1>4 DEF Interrupt, history, fields
  <2>2. \/ pc'[j] = pc[j]
        \/ pc[j] \in Suspended /\ pc'[j] \in {"done", "finish"}
    BY <1>4, InterruptLabels DEF Suspended
  <2>3. pc[j] \in Suspended => Live(j) /\ pc[j] \notin {"finish", "settle"}
    BY DEF Live, Suspended
  <2>4. Errors(j)' = Errors(j)
    BY <2>1 DEF Errors
  <2> QED
    BY <1>a, <2>1, <2>2, <2>3, <2>4 DEF OutcomeFollows, Live, Closed
<1>5. ASSUME Restart \/ Crash PROVE OutcomeFollows(j)'
  <2>1. /\ scans' = scans /\ events' = events /\ ~Live(j)'
        /\ pc'[j] = "none" => pc[j] = "none"
        /\ pc'[j] # "except"
        /\ loc'[j] = loc[j] \/ loc'[j].status = "completed"
    BY <1>5, <1>a DEF Restart, Crash, history, Live, Suspended, Busy, FreshLocals
  <2> QED
    BY <1>a, <2>1 DEF OutcomeFollows, Errors, Closed
<1> QED
  BY <1>1, <1>2, <1>3, <1>4, <1>5 DEF Next, Request

\* No scan has a status at first.
LEMMA OutcomeInvInit == Init => OutcomeInv
<1> SUFFICES ASSUME Init, NEW i \in ScanIds PROVE OutcomeFollows(i)
  BY DEF OutcomeInv
<1>1. /\ Errors(i) = 0 /\ pc[i] = "none" /\ scans[i].status = "absent"
      /\ loc[i].status = "completed"
  BY DEF Init, EmptyHistory, NoRow, EventTypes, FreshLocals, Errors
<1> QED
  BY <1>1 DEF OutcomeFollows, Live, Suspended, Busy, Closed, FinalStatuses

ErrorOf(i) == [type |-> "scan_error", scan |-> i]

\* As long as the error of a scan is the last event, the scan goes nowhere but
\* to a row that says it failed.
ErrorFollows(i) ==
  latest = ErrorOf(i) =>
    /\ pc[i] \in {"finish", "settle", "done"}
    /\ Live(i) => loc[i].status = "failed"
    /\ Closed(i) => scans[i].status = "failed"

ErrorShown == \A i \in ScanIds : ErrorFollows(i)

\* What the coroutine publishes elsewhere is no error.
LEMMA OtherEvents ==
  ASSUME NEW i \in ScanIds, EnginesStep(i) \/ ScanStep(i), ~Except(i)
  PROVE  latest' = latest \/ latest'.type # "scan_error"
<1>1. ASSUME NEW stage, NEW n, NEW t, set_progress(stage) \/ set_figures(stage, n, t)
      PROVE  latest'.type # "scan_error"
  BY <1>1 DEF set_progress, set_figures, publish
<1>2. CASE Begin(i) \/ Exhausted(i) \/ NextCancelled(i) \/ ResumeStop(i)
  BY <1>1, <1>2 DEF Begin, Exhausted, NextCancelled, ResumeStop, LeaveLoop
<1>3. CASE \E size \in FileSizes, installed \in BOOLEAN : NextFile(i, size, installed)
  BY <1>1, <1>3 DEF NextFile
<1>4. CASE Hash(i) \/ \E installed \in BOOLEAN : StartYara(i, installed)
  BY <1>1, <1>4 DEF Hash, StartYara
<1>5. CASE Alert(i) \/ Settle(i)
  BY <1>5 DEF Alert, Settle, publish
<1>6. CASE \/ EnginesStep(i) \/ \E size \in FileSizes : NextSkipped(i, size)
           \/ SkipTimedOut(i) \/ Detect(i) \/ ResumeContinue(i) \/ ResumeDetails(i)
           \/ SkipYara(i) \/ NextHit(i) \/ Count(i) \/ WriteTxt(i) \/ WriteHtml(i)
           \/ LogSkipped(i) \/ Finish(i) \/ FinishRaises(i) \/ Raise(i) \/ CountRaises(i)
  BY <1>6 DEF EnginesStep, ClamAnswer, ClamTimeout, YaraAnswer, YaraTimeout,
     YaraKilled, NextSkipped, SkipTimedOut, Detect, ResumeContinue, ResumeDetails,
     SkipYara, NextHit, Count, WriteTxt, WriteHtml, LogSkipped, Finish,
     FinishRaises, Raise, CountRaises
<1> QED
  BY <1>2, <1>3, <1>4, <1>5, <1>6 DEF ScanStep

\* Every step keeps the scan of the last event on this way.
LEMMA ErrorShownStep ==
  ASSUME TypeOK, LedgerInv, ErrorShown, [Next]_vars
  PROVE  ErrorShown'
<1> SUFFICES ASSUME NEW j \in ScanIds, latest' = ErrorOf(j) PROVE ErrorFollows(j)'
  BY DEF ErrorShown, ErrorFollows, ErrorOf
<1>a. /\ pc \in [ScanIds -> PCs] /\ scans \in [ScanIds -> Row] /\ loc \in [ScanIds -> Locals]
      /\ latest'.type = "scan_error" /\ latest'.scan = j
      /\ ErrorFollows(j) /\ RowFollows(j)
  BY DEF TypeOK, TaskTypeOK, HistoryTypeOK, ErrorOf, ErrorShown, LedgerInv
<1>1. ASSUME latest = ErrorOf(j), pc'[j] = pc[j], loc'[j] = loc[j], scans'[j] = scans[j]
      PROVE  ErrorFollows(j)'
  BY <1>1, <1>a DEF ErrorFollows, Live, Closed
<1>2. ASSUME NEW i \in ScanIds, EnginesStep(i) \/ ScanStep(i) PROVE ErrorFollows(j)'
  <2>1. CASE Except(i)
    <3>1. i = j
      BY <1>a, <2>1 DEF Except, publish
    <3>2. pc[j] = "except" /\ pc'[j] = "finish" /\ scans' = scans
      BY <1>a, <2>1, <3>1 DEF Except, At, Goto
    <3>3. loc'[j].status = "failed"
      BY <1>a, <2>1, <3>1 DEF Except, SetLocals, Locals
    <3>4. ~Closed(j)
      BY <1>a, <3>2 DEF RowFollows, Live, Busy, Closed, FinalStatuses
    <3> QED
      BY <3>2, <3>3, <3>4 DEF ErrorFollows, Closed
  <2>2. CASE ~Except(i)
    <3>1. latest = ErrorOf(j)
      BY <1>2, <1>a, <2>2, OtherEvents
    <3>2. CASE i # j
      BY <1>1, <1>2, <3>1, <3>2, CoroutineFollows DEF Follows, Elsewhere
    <3>3. CASE i = j
      <4>1. Live(i) /\ pc[i] \in {"finish", "settle"} /\ loc[i].status = "failed"
        BY <1>2, <1>a, <3>1, <3>3, CoroutineStep DEF OwnStep, ErrorFollows, Live, Suspended, Busy
      <4>2. Finish(i) \/ FinishRaises(i) \/ Settle(i)
        BY <1>2, <4>1, <2>2 DEF EnginesStep, ScanStep, ClamAnswer, ClamTimeout, YaraAnswer,
           YaraTimeout, YaraKilled, Begin, Exhausted, NextCancelled, NextSkipped, NextFile,
           SkipTimedOut, Hash, Detect, Alert, ResumeContinue, ResumeDetails, ResumeStop,
           StartYara, SkipYara, NextHit, Count, WriteTxt, WriteHtml, LogSkipped, Answered,
           Raise, CountRaises, CanRaise, At
      <4>3. CASE Finish(i)
        <5>1. pc[i] = "finish" /\ pc'[i] = "settle" /\ loc' = loc
          BY <1>a, <4>3 DEF Finish, At, Goto
        <5>2. scans'[i].status = loc[i].status
          BY <1>a, <3>3, <4>1, <4>3, <5>1 DEF Finish, finish_scan, NoRow, ScanFinish, RowFollows
        <5> QED
          BY <3>3, <4>1, <5>1, <5>2 DEF ErrorFollows
      <4>4. CASE FinishRaises(i)
        <5>1. pc'[i] = "done" /\ scans' = scans
          BY <1>a, <4>4 DEF FinishRaises, Goto, history
        <5> QED
          BY <1>a, <3>1, <3>3, <5>1 DEF ErrorFollows, Live, Suspended, Busy, Closed
      <4>5. CASE Settle(i)
        BY <1>a, <4>5 DEF Settle, publish
      <4> QED
        BY <4>2, <4>3, <4>4, <4>5
    <3> QED
      BY <3>2, <3>3
  <2> QED
    BY <2>1, <2>2
<1>3. ASSUME NEW i \in ScanIds, NEW rooted \in BOOLEAN, start_scan_raises(i, rooted)
      PROVE  ErrorFollows(j)'
  <2>1. latest = ErrorOf(j) /\ loc' = loc /\ pc[i] = "none"
    BY <1>3 DEF start_scan_raises
  <2>2. i # j
    BY <1>a, <2>1 DEF ErrorFollows
  <2>3. pc'[j] = pc[j] /\ scans'[j] = scans[j]
    BY <1>a, <1>3, <2>2 DEF start_scan_raises, create_scan, Goto
  <2> QED
    BY <1>1, <2>1, <2>3
<1>4. ASSUME \/ \E d \in Drives \cup {None} : internal_drive_event(d)
             \/ \E i \in ScanIds, rooted \in BOOLEAN : start_scan(i, rooted)
             \/ cancel_scan \/ \E a \in ThreatAction : handle_threat_action(a)
             \/ UNCHANGED vars
      PROVE  ErrorFollows(j)'
  <2>1. latest'.type = "scan_error" => pc' = pc /\ loc' = loc /\ scans' = scans
    BY <1>4 DEF internal_drive_event, start_scan, cancel_scan, handle_threat_action, publish,
       vars, history
  <2>2. latest' = latest \/ latest'.type # "scan_error"
    BY <1>4 DEF internal_drive_event, start_scan, cancel_scan, handle_threat_action, publish, vars
  <2> QED
    BY <1>1, <1>a, <2>1, <2>2
<1>5. ASSUME Interrupt PROVE ErrorFollows(j)'
  <2>1. /\ latest = ErrorOf(j) /\ loc' = loc /\ scans' = scans
        /\ pc[j] \notin Busy /\ pc'[j] = Stopped(pc[j])
    BY <1>5 DEF Interrupt, Serving, LoopFree, history
  <2>2. pc[j] = "done"
    BY <1>a, <2>1 DEF ErrorFollows, Busy
  <2>3. pc'[j] = pc[j]
    BY <2>1, <2>2 DEF Stopped, Suspended
  <2> QED
    BY <1>1, <2>1, <2>3
<1>6. ASSUME Restart \/ Crash PROVE FALSE
  BY <1>6, <1>a, NoneAssumption DEF Restart, Crash, FreshController, NoEvent, PublishedTypes
<1> QED
  BY <1>2, <1>3, <1>4, <1>5, <1>6 DEF Next, Request

\* No error is shown at first.
LEMMA ErrorShownInit == Init => ErrorShown
BY NoneAssumption DEF Init, NoEvent, ErrorShown, ErrorFollows, ErrorOf, PublishedTypes

\* A row is closed with the status its scan has earned: as failed only if
\* something raised, otherwise only if no error is on record and none was
\* announced last, and a scan that is on its way to "cancelled" has a
\* cancellation that still holds.
THEOREM OutcomeIsJustified == Spec => []OutcomeJustified
<1>1. OutcomeInv /\ ErrorShown => OutcomeJustified
  BY DEF OutcomeInv, OutcomeFollows, Errors, ErrorShown, ErrorFollows, ErrorOf, OutcomeJustified
<1>2. TypeOK /\ SingleScan /\ LedgerInv /\ OutcomeInv /\ [Next]_vars => OutcomeInv'
  BY OutcomeInvStep
<1> QED
  BY <1>1, <1>2, TypeInit, TypeStep, SingleInit, SingleStep, LedgerInvInit, LedgerInvStep,
     OutcomeInvInit, ErrorShownInit, ErrorShownStep, PTL DEF Spec
===============================================================================
