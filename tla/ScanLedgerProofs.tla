---------------------------- MODULE ScanLedgerProofs ----------------------------
(***************************************************************************)
(* The engine with its history implements the ledger, for any number of    *)
(* scans, files, matches, faults and restarts.  LedgerSpec is not provable *)
(* from the types alone: that a row closes with the right total depends on *)
(* where the coroutine is between counting a threat and recording it.  The *)
(* announcements of threats in the history follow the detections the same  *)
(* way, one commit behind.                                                 *)
(***************************************************************************)
EXTENDS ScanControllerProofs

\* The row of a scan that has not been requested is not there; the row of a
\* scan whose coroutine is alive and has not closed it is open.
RowFollows(i) ==
  /\ pc[i] = "none" => scans[i] = NoRow /\ detections[i] = 0 /\ loc[i] = FreshLocals
  /\ Live(i) /\ pc[i] # "settle" => scans[i].status = "running"

\* The local `threats` counts the detections on record, but for one that is
\* about to be recorded or whose recording raised.
ThreatsFollow(i) ==
  /\ Live(i) /\ pc[i] \notin {"detect", "except", "finish", "settle"} =>
       loc[i].threats = detections[i]
  /\ pc[i] = "detect" => loc[i].threats = detections[i] + 1
  /\ pc[i] \in {"except", "finish"} =>
       loc[i].threats \in {detections[i], detections[i] + 1}
  /\ pc[i] = "finish" /\ loc[i].status # "failed" => loc[i].threats = detections[i]

LedgerInv == \A i \in ScanIds : RowFollows(i) /\ ThreatsFollow(i)

-------------------------------------------------------------------------------
(***************************************************************************)
(* The invariant.  A coroutine step changes the place, the locals and the  *)
(* rows of its own scan only, and leaves that scan as the invariant says.  *)
(***************************************************************************)

Elsewhere(i) ==
  \A j \in ScanIds \ {i} :
    /\ pc'[j] = pc[j] /\ loc'[j] = loc[j]
    /\ scans'[j] = scans[j] /\ detections'[j] = detections[j]

Follows(i) == Elsewhere(i) /\ RowFollows(i)' /\ ThreatsFollow(i)'

\* If the scan of a step follows its row, and the others are left alone, all do.
LEMMA FollowsKeeps ==
  ASSUME LedgerInv, NEW i \in ScanIds, Follows(i)
  PROVE  LedgerInv'
<1> SUFFICES ASSUME NEW j \in ScanIds PROVE RowFollows(j)' /\ ThreatsFollow(j)'
  BY DEF LedgerInv
<1>1. CASE j = i
  BY <1>1 DEF Follows
<1>2. CASE j # i
  BY <1>2 DEF Follows, Elsewhere, LedgerInv, RowFollows, ThreatsFollow, Live
<1> QED
  BY <1>1, <1>2

\* What Count does to the rows: the status stays, and so does the total
\* unless the row is brought up to date.
LEMMA CountRow ==
  ASSUME TypeOK, LedgerInv, NEW i \in ScanIds, Count(i)
  PROVE  /\ scans'[i].status = scans[i].status
         /\ scans'[i].threats \in {scans[i].threats, loc[i].threats}
         /\ \A j \in ScanIds \ {i} : scans'[j] = scans[j]
         /\ scans' \in [ScanIds -> Row]
<1> DEFINE row == [scans[i] EXCEPT !.files = loc[i].files + 1,
                                   !.threats = loc[i].threats]
<1>1. scans \in [ScanIds -> Row] /\ scans[i] \in Row
  BY DEF TypeOK, HistoryTypeOK
<1>2. row.status = scans[i].status /\ row.threats = loc[i].threats /\ row \in Row
  BY <1>1, LocalsFacts DEF Row
<1>3. scans' = scans \/ scans' = [scans EXCEPT ![i] = row]
  BY DEF Count, update_scan_progress
<1> HIDE DEF row
<1> QED
  BY <1>1, <1>2, <1>3

\* Every step of an engine or of the coroutine follows.
LEMMA CoroutineFollows ==
  ASSUME TypeOK, LedgerInv, NEW i \in ScanIds, EnginesStep(i) \/ ScanStep(i)
  PROVE  Follows(i)
<1>a. /\ RowFollows(i) /\ ThreatsFollow(i)
      /\ loc \in [ScanIds -> Locals] /\ loc[i] \in Locals /\ pc \in [ScanIds -> PCs]
      /\ scans \in [ScanIds -> Row] /\ detections \in [ScanIds -> Nat]
  BY DEF LedgerInv, TypeOK, TaskTypeOK, HistoryTypeOK
<1> USE <1>a DEF Follows, Elsewhere, RowFollows, ThreatsFollow, Live, At, Goto,
            SetLocals, Suspended, Busy, history, Locals
<1>1. ASSUME NEW infected \in BOOLEAN, ClamAnswer(i, infected) PROVE Follows(i)
  BY <1>1 DEF ClamAnswer
<1>2. ASSUME ClamTimeout(i) PROVE Follows(i)
  BY <1>2 DEF ClamTimeout
<1>3. ASSUME NEW matches \in 0..MaxHits, YaraAnswer(i, matches) PROVE Follows(i)
  BY <1>3 DEF YaraAnswer
<1>4. ASSUME YaraTimeout(i) PROVE Follows(i)
  BY <1>4 DEF YaraTimeout
<1>5. ASSUME YaraKilled(i) PROVE Follows(i)
  BY <1>5 DEF YaraKilled
<1>6. ASSUME Begin(i) PROVE Follows(i)
  BY <1>6 DEF Begin
<1>7. ASSUME Exhausted(i) PROVE Follows(i)
  BY <1>7 DEF Exhausted, LeaveLoop
<1>8. ASSUME NextCancelled(i) PROVE Follows(i)
  BY <1>8 DEF NextCancelled, LeaveLoop
<1>9. ASSUME NEW size \in FileSizes, NextSkipped(i, size) PROVE Follows(i)
  BY <1>9 DEF NextSkipped
<1>10. ASSUME NEW size \in FileSizes, NEW installed \in BOOLEAN, NextFile(i, size, installed) PROVE Follows(i)
  BY <1>10 DEF NextFile
<1>11. ASSUME SkipTimedOut(i) PROVE Follows(i)
  BY <1>11 DEF SkipTimedOut
<1>12. ASSUME Hash(i) PROVE Follows(i)
  <2>1. CASE loc[i].hits > 0
    <3> DEFINE new == [loc[i] EXCEPT !.threats = loc[i].threats + 1, !.hits = 0]
    <3>1. new.threats = loc[i].threats + 1
      OBVIOUS
    <3>2. loc' = [loc EXCEPT ![i] = new] /\ pc' = [pc EXCEPT ![i] = "detect"]
      BY <1>12, <2>1 DEF Hash
    <3> HIDE DEF new
    <3> QED
      BY <1>12, <3>1, <3>2 DEF Hash
  <2>2. CASE ~(loc[i].hits > 0)
    BY <1>12, <2>2 DEF Hash
  <2> QED
    BY <2>1, <2>2
<1>13. ASSUME Detect(i) PROVE Follows(i)
  BY <1>13 DEF Detect, insert_detection
<1>14. ASSUME Alert(i) PROVE Follows(i)
  BY <1>14 DEF Alert
<1>15. ASSUME ResumeContinue(i) PROVE Follows(i)
  BY <1>15 DEF ResumeContinue, Answered
<1>16. ASSUME ResumeDetails(i) PROVE Follows(i)
  BY <1>16 DEF ResumeDetails, Answered
<1>17. ASSUME ResumeStop(i) PROVE Follows(i)
  BY <1>17 DEF ResumeStop, LeaveLoop, Answered
<1>18. ASSUME NEW installed \in BOOLEAN, StartYara(i, installed) PROVE Follows(i)
  BY <1>18 DEF StartYara
<1>19. ASSUME SkipYara(i) PROVE Follows(i)
  BY <1>19 DEF SkipYara
<1>20. ASSUME NextHit(i) PROVE Follows(i)
  <2>1. CASE loc[i].hits > 0
    <3> DEFINE new == [loc[i] EXCEPT !.threats = loc[i].threats + 1,
                                     !.hits = loc[i].hits - 1]
    <3>1. new.threats = loc[i].threats + 1
      OBVIOUS
    <3>2. loc' = [loc EXCEPT ![i] = new] /\ pc' = [pc EXCEPT ![i] = "detect"]
      BY <1>20, <2>1 DEF NextHit
    <3> HIDE DEF new
    <3> QED
      BY <1>20, <3>1, <3>2 DEF NextHit
  <2>2. CASE ~(loc[i].hits > 0)
    BY <1>20, <2>2 DEF NextHit
  <2> QED
    BY <2>1, <2>2
<1>21. ASSUME Count(i) PROVE Follows(i)
  <2>1. scans'[i].status = scans[i].status
    BY <1>21, CountRow
  <2>2. \A j \in ScanIds \ {i} : scans'[j] = scans[j]
    BY <1>21, CountRow
  <2>3. loc'[i].threats = loc[i].threats
    BY <1>21 DEF Count
  <2>4. /\ pc[i] = "count" /\ pc' = [pc EXCEPT ![i] = "next"]
        /\ \A j \in ScanIds \ {i} : loc'[j] = loc[j]
        /\ detections' = detections
    BY <1>21 DEF Count
  <2> QED
    BY <2>1, <2>2, <2>3, <2>4
<1>22. ASSUME WriteTxt(i) PROVE Follows(i)
  BY <1>22 DEF WriteTxt
<1>23. ASSUME WriteHtml(i) PROVE Follows(i)
  BY <1>23 DEF WriteHtml
<1>24. ASSUME LogSkipped(i) PROVE Follows(i)
  BY <1>24 DEF LogSkipped
<1>25. ASSUME Except(i) PROVE Follows(i)
  BY <1>25 DEF Except
<1>26. ASSUME Finish(i) PROVE Follows(i)
  BY <1>26 DEF Finish, finish_scan, ScanFinish
<1>27. ASSUME FinishRaises(i) PROVE Follows(i)
  BY <1>27 DEF FinishRaises, FreshLocals
<1>28. ASSUME Settle(i) PROVE Follows(i)
  BY <1>28 DEF Settle, FreshLocals
<1>29. ASSUME Raise(i) PROVE Follows(i)
  BY <1>29 DEF Raise, CanRaise
<1>30. ASSUME CountRaises(i) PROVE Follows(i)
  BY <1>30 DEF CountRaises
<1> HIDE DEF Follows
<1> QED
  BY <1>1, <1>2, <1>3, <1>4, <1>5, <1>6, <1>7, <1>8, <1>9, <1>10, <1>11,
     <1>12, <1>13, <1>14, <1>15, <1>16, <1>17, <1>18, <1>19, <1>20, <1>21,
     <1>22, <1>23, <1>24, <1>25, <1>26, <1>27, <1>28, <1>29, <1>30 DEF
     EnginesStep, ScanStep

\* So does a request to start a scan, whether it is granted or raises.
LEMMA StartFollows ==
  ASSUME TypeOK, LedgerInv, NEW i \in ScanIds, NEW rooted \in BOOLEAN,
         start_scan(i, rooted) \/ start_scan_raises(i, rooted)
  PROVE  Follows(i)
<1>1. /\ RowFollows(i) /\ scans \in [ScanIds -> Row] /\ detections \in [ScanIds -> Nat]
      /\ pc \in [ScanIds -> PCs]
  BY DEF LedgerInv, TypeOK, TaskTypeOK, HistoryTypeOK
<1>2. CASE start_scan(i, rooted)
  BY <1>1, <1>2 DEF start_scan, create_scan, Goto, Follows, Elsewhere, RowFollows,
     ThreatsFollow, FreshLocals, Row
<1>3. CASE start_scan_raises(i, rooted)
  BY <1>1, <1>3 DEF start_scan_raises, create_scan, Goto, Follows, Elsewhere,
     RowFollows, ThreatsFollow, Live, Suspended, Busy, Row
<1> QED
  BY <1>2, <1>3

\* SIGINT sends a suspended coroutine to its `finally`, or ends it.
LEMMA InterruptLabels ==
  ASSUME TypeOK, Interrupt, NEW i \in ScanIds
  PROVE  \/ pc[i] \notin Suspended /\ pc'[i] = pc[i]
         \/ pc[i] = "created" /\ pc'[i] = "done"
         \/ pc[i] \in Suspended \ {"created"} /\ pc'[i] = "finish"
BY DEF Interrupt, Stopped, Suspended

\* The invariant is inductive.
LEMMA LedgerInvStep ==
  ASSUME TypeOK, LedgerInv, [Next]_vars
  PROVE  LedgerInv'
<1> USE DEF LedgerInv, RowFollows, ThreatsFollow, Live, history
<1>1. ASSUME Request PROVE LedgerInv'
  <2>1. ASSUME NEW i \in ScanIds, NEW rooted \in BOOLEAN,
               start_scan(i, rooted) \/ start_scan_raises(i, rooted)
        PROVE  LedgerInv'
    BY <2>1, StartFollows, FollowsKeeps
  <2>2. ASSUME NEW d \in Drives \cup {None}, internal_drive_event(d) PROVE LedgerInv'
    BY <2>2 DEF internal_drive_event
  <2>3. ASSUME cancel_scan PROVE LedgerInv'
    BY <2>3 DEF cancel_scan
  <2>4. ASSUME NEW a \in ThreatAction, handle_threat_action(a) PROVE LedgerInv'
    BY <2>4 DEF handle_threat_action
  <2> QED
    BY <1>1, <2>1, <2>2, <2>3, <2>4 DEF Request
<1>2. ASSUME NEW i \in ScanIds, EnginesStep(i) \/ ScanStep(i) PROVE LedgerInv'
  BY <1>2, CoroutineFollows, FollowsKeeps
<1>3. ASSUME Interrupt PROVE LedgerInv'
  BY <1>3, InterruptLabels DEF Interrupt, Suspended, Busy, TypeOK, HistoryTypeOK
<1>4. ASSUME Restart PROVE LedgerInv'
  BY <1>4 DEF Restart
<1>5. ASSUME Crash PROVE LedgerInv'
  BY <1>5 DEF Crash, Suspended, Busy
<1>6. CASE UNCHANGED vars
  BY <1>6 DEF vars
<1> QED
  BY <1>1, <1>2, <1>3, <1>4, <1>5, <1>6 DEF Next

\* No scan has a row at first.
LEMMA LedgerInvInit == Init => LedgerInv
BY DEF Init, EmptyHistory, LedgerInv, RowFollows, ThreatsFollow, Live, Suspended, Busy

-------------------------------------------------------------------------------
(***************************************************************************)
(* The refinement.  Four operations of the history move the ledger; every  *)
(* other step of the engine is a step the ledger does not see.             *)
(***************************************************************************)

\* What leaves rows and detections alone is a stutter of the ledger.
LEMMA Unseen ==
  ASSUME scans' = scans, detections' = detections
  PROVE  UNCHANGED Ledger!vars
BY DEF Ledger!vars

\* create_scan, by either request, opens.
LEMMA StartOpens ==
  ASSUME TypeOK, NEW i \in ScanIds, create_scan(i), detections' = detections
  PROVE  Ledger!Open(i)
<1>1. scans \in [ScanIds -> Row] /\ scans[i].status = "absent"
  BY DEF TypeOK, HistoryTypeOK, create_scan, NoRow
<1>2. /\ scans'[i].status = "running" /\ scans'[i].threats = scans[i].threats
      /\ \A j \in ScanIds \ {i} : scans'[j] = scans[j]
  BY <1>1 DEF create_scan, Row
<1> QED
  BY <1>1, <1>2 DEF Ledger!Open

\* insert_detection detects.
LEMMA DetectDetects ==
  ASSUME TypeOK, LedgerInv, NEW i \in ScanIds, Detect(i)
  PROVE  Ledger!Detect(i)
BY DEF TypeOK, HistoryTypeOK, LedgerInv, RowFollows, Live, Busy, Detect, At,
       insert_detection, Ledger!Detect

\* update_scan_progress tallies, or is not called.
LEMMA CountTallies ==
  ASSUME TypeOK, LedgerInv, NEW i \in ScanIds, Count(i)
  PROVE  Ledger!Tally(i) \/ UNCHANGED Ledger!vars
<1>1. pc[i] = "count" /\ detections' = detections
  BY DEF Count, At
<1>2. scans[i].status = "running" /\ loc[i].threats = detections[i]
  BY <1>1 DEF LedgerInv, RowFollows, ThreatsFollow, Live, Busy
<1>3. /\ scans \in [ScanIds -> Row] /\ scans' \in [ScanIds -> Row]
      /\ \A j \in ScanIds : scans'[j].status = scans[j].status
      /\ \A j \in ScanIds \ {i} : scans'[j] = scans[j]
      /\ scans'[i].threats \in {scans[i].threats, detections[i]}
  BY <1>2, CountRow DEF TypeOK, HistoryTypeOK
<1>4. CASE scans'[i].threats = scans[i].threats
  BY <1>1, <1>3, <1>4 DEF Ledger!vars
<1>5. CASE scans'[i].threats = detections[i]
  BY <1>1, <1>2, <1>3, <1>5 DEF Ledger!Tally
<1> QED
  BY <1>3, <1>4, <1>5

\* finish_scan closes, with a total that is right unless the scan failed.
LEMMA FinishCloses ==
  ASSUME TypeOK, LedgerInv, NEW i \in ScanIds, Finish(i)
  PROVE  \E s \in Ledger!Final : Ledger!Close(i, s)
<1>1. /\ pc[i] = "finish" /\ detections' = detections
      /\ loc[i].status \in Ledger!Final
  BY DEF Finish, At, TypeOK, TaskTypeOK, Locals, FinalStatuses, Ledger!Final
<1>2. /\ scans[i].status = "running"
      /\ loc[i].threats \in {detections[i], detections[i] + 1}
      /\ loc[i].status # "failed" => loc[i].threats = detections[i]
  BY <1>1 DEF LedgerInv, RowFollows, ThreatsFollow, Live, Busy
<1>3. /\ scans' = [scans EXCEPT ![i] = ScanFinish(i)] /\ scans \in [ScanIds -> Row]
      /\ ScanFinish(i).status = loc[i].status
      /\ ScanFinish(i).threats = loc[i].threats
  BY <1>2 DEF Finish, finish_scan, NoRow, ScanFinish, TypeOK, HistoryTypeOK
<1> HIDE DEF ScanFinish
<1>4. Ledger!Close(i, loc[i].status)
  BY <1>1, <1>2, <1>3 DEF Ledger!Close
<1> QED
  BY <1>1, <1>4 DEF Ledger!Close, Ledger!Final

\* Every other step leaves the rows and the detections alone.
LEMMA QuietStep ==
  ASSUME NEW i \in ScanIds, EnginesStep(i) \/ ScanStep(i),
         ~Detect(i), ~Count(i), ~Finish(i)
  PROVE  scans' = scans /\ detections' = detections
BY DEF EnginesStep, ScanStep, history, ClamAnswer, ClamTimeout, YaraAnswer,
       YaraTimeout, YaraKilled, Begin, Exhausted, NextCancelled, NextSkipped,
       NextFile, SkipTimedOut, Hash, Alert, ResumeContinue, ResumeDetails,
       ResumeStop, StartYara, SkipYara, NextHit, WriteTxt, WriteHtml, LogSkipped,
       Except, FinishRaises, Settle, Raise, CountRaises

\* Every step of the engine is one of the ledger, or a stutter.
LEMMA RefinementStep ==
  ASSUME TypeOK, LedgerInv, [Next]_vars
  PROVE  [Ledger!Next]_(Ledger!vars)
<1>1. ASSUME NEW i \in ScanIds, NEW rooted \in BOOLEAN,
             start_scan(i, rooted) \/ start_scan_raises(i, rooted)
      PROVE  Ledger!Next \/ UNCHANGED Ledger!vars
  <2>1. detections' = detections /\ (create_scan(i) \/ scans' = scans)
    BY <1>1 DEF start_scan, start_scan_raises
  <2> QED
    BY <2>1, StartOpens, Unseen DEF Ledger!Next
<1>2. ASSUME \/ \E d \in Drives \cup {None} : internal_drive_event(d)
             \/ cancel_scan
             \/ \E a \in ThreatAction : handle_threat_action(a)
      PROVE  UNCHANGED Ledger!vars
  BY <1>2, Unseen DEF internal_drive_event, cancel_scan, handle_threat_action, history
<1>3. ASSUME NEW i \in ScanIds, EnginesStep(i) \/ ScanStep(i)
      PROVE  Ledger!Next \/ UNCHANGED Ledger!vars
  BY <1>3, DetectDetects, CountTallies, FinishCloses, QuietStep, Unseen DEF Ledger!Next
<1>4. ASSUME Interrupt \/ Restart \/ Crash \/ UNCHANGED vars
      PROVE  UNCHANGED Ledger!vars
  BY <1>4, Unseen DEF Interrupt, Restart, Crash, vars, history
<1> QED
  BY <1>1, <1>2, <1>3, <1>4 DEF Next, Request

\* The engine starts with an empty ledger.
LEMMA RefinementInit == Init => Ledger!Init
BY DEF Init, EmptyHistory, NoRow, Ledger!Init

\* The history the engine writes is a ledger, whatever raises and whenever
\* the process dies: a row is opened once, closed at most once and then never
\* changes, no detection is added to a closed row, and the total it was
\* closed with is the number of detections on record, one more at most if
\* the scan failed.
THEOREM HistoryIsLedger == Spec => LedgerSpec
<1>1. TypeOK /\ LedgerInv /\ [Next]_vars => LedgerInv'
  BY LedgerInvStep
<1>2. TypeOK /\ LedgerInv /\ [Next]_vars => [Ledger!Next]_(Ledger!vars)
  BY RefinementStep
<1> QED
  BY <1>1, <1>2, TypeInit, TypeStep, LedgerInvInit, RefinementInit, PTL
  DEF Spec, LedgerSpec, Ledger!Spec

-------------------------------------------------------------------------------
(***************************************************************************)
(* What one step of a coroutine can touch.                                 *)
(***************************************************************************)

\* The events and the reports of every other scan stay as they are.
LEMMA OthersKeep ==
  ASSUME TypeOK, NEW i \in ScanIds, EnginesStep(i) \/ ScanStep(i), NEW j \in ScanIds \ {i}
  PROVE  events'[j] = events[j] /\ reports'[j] = reports[j]
<1> USE DEF TypeOK, HistoryTypeOK, ViewTypeOK, history
<1>1. ASSUME SkipTimedOut(i) \/ Alert(i) \/ LogSkipped(i) \/ Except(i)
      PROVE  events'[j] = events[j] /\ reports'[j] = reports[j]
  BY <1>1 DEF SkipTimedOut, Alert, LogSkipped, Except, insert_event
<1>2. ASSUME WriteTxt(i) \/ WriteHtml(i)
      PROVE  events'[j] = events[j] /\ reports'[j] = reports[j]
  BY <1>2 DEF WriteTxt, WriteHtml
<1>3. ASSUME ~SkipTimedOut(i), ~Alert(i), ~LogSkipped(i), ~Except(i), ~WriteTxt(i), ~WriteHtml(i)
      PROVE  events' = events /\ reports' = reports
  BY <1>3 DEF EnginesStep, ScanStep, ClamAnswer, ClamTimeout, YaraAnswer,
     YaraTimeout, YaraKilled, Begin, Exhausted, NextCancelled, NextSkipped,
     NextFile, Hash, Detect, ResumeContinue, ResumeDetails, ResumeStop,
     StartYara, SkipYara, NextHit, Count, Finish, FinishRaises, Settle, Raise,
     CountRaises
<1> QED
  BY <1>1, <1>2, <1>3

\* A request to start a scan touches no other scan, and no report.
LEMMA StartKeeps ==
  ASSUME TypeOK, NEW i \in ScanIds, NEW rooted \in BOOLEAN,
         start_scan(i, rooted) \/ start_scan_raises(i, rooted)
  PROVE  /\ reports' = reports /\ loc' = loc /\ detections' = detections
         /\ events'[i]["file_skipped"] = events[i]["file_skipped"]
         /\ \A j \in ScanIds \ {i} : events'[j] = events[j]
         /\ pc[i] = "none" /\ pc'[i] \in {"created", "done"}
<1>1. events \in [ScanIds -> [EventTypes -> Nat]] /\ pc \in [ScanIds -> PCs]
  BY DEF TypeOK, HistoryTypeOK, TaskTypeOK
<1> QED
  BY <1>1 DEF start_scan, start_scan_raises, insert_event, Goto, EventTypes

-------------------------------------------------------------------------------
(***************************************************************************)
(* Two tables, two commits.  A detection is announced by the statement     *)
(* after the one that records it, so the history lacks an announcement     *)
(* between the two, and from then on if the second raises or never runs.   *)
(***************************************************************************)

Told(i) == events[i]["threat_detected"]

AlertsFollow(i) ==
  /\ Told(i) <= detections[i] /\ detections[i] <= Told(i) + 1
  /\ Live(i) /\ pc[i] \notin {"alert", "except", "finish", "settle"} =>
       Told(i) = detections[i]
  /\ pc[i] = "alert" => detections[i] = Told(i) + 1
  /\ pc[i] = "finish" /\ loc[i].status # "failed" => Told(i) = detections[i]
  /\ Closed(i) /\ scans[i].status # "failed" => Told(i) = detections[i]

AlertsInv == \A i \in ScanIds : AlertsFollow(i)

\* Only the step that shows the prompt announces a threat.
LEMMA OnlyAlertTells ==
  ASSUME TypeOK, NEW i \in ScanIds, EnginesStep(i) \/ ScanStep(i), ~Alert(i)
  PROVE  Told(i)' = Told(i)
<1>1. events \in [ScanIds -> [EventTypes -> Nat]]
  BY DEF TypeOK, HistoryTypeOK
<1>2. ASSUME SkipTimedOut(i) \/ LogSkipped(i) \/ Except(i) PROVE Told(i)' = Told(i)
  BY <1>1, <1>2 DEF SkipTimedOut, LogSkipped, Except, insert_event, Told, EventTypes
<1>3. ASSUME ~SkipTimedOut(i), ~LogSkipped(i), ~Except(i) PROVE events' = events
  BY <1>3 DEF EnginesStep, ScanStep, history, ClamAnswer, ClamTimeout, YaraAnswer,
     YaraTimeout, YaraKilled, Begin, Exhausted, NextCancelled, NextSkipped,
     NextFile, Hash, Detect, ResumeContinue, ResumeDetails, ResumeStop,
     StartYara, SkipYara, NextHit, Count, WriteTxt, WriteHtml, Finish,
     FinishRaises, Settle, Raise, CountRaises
<1> QED
  BY <1>2, <1>3 DEF Told

\* A coroutine's step keeps its own scan's announcements in line.
LEMMA CoroutineAlerts ==
  ASSUME TypeOK, LedgerInv, NEW i \in ScanIds, AlertsFollow(i),
         EnginesStep(i) \/ ScanStep(i)
  PROVE  AlertsFollow(i)'
<1>a. /\ pc \in [ScanIds -> PCs] /\ loc \in [ScanIds -> Locals]
      /\ detections \in [ScanIds -> Nat] /\ scans \in [ScanIds -> Row]
      /\ events \in [ScanIds -> [EventTypes -> Nat]]
      /\ Told(i) \in Nat /\ detections[i] \in Nat
      /\ Live(i) /\ pc[i] # "settle" => scans[i].status \notin FinalStatuses
  BY DEF TypeOK, TaskTypeOK, HistoryTypeOK, LedgerInv, RowFollows, Told, EventTypes,
     FinalStatuses
<1>1. CASE Detect(i)
  <2>1. /\ pc[i] = "detect" /\ pc'[i] = "alert" /\ scans' = scans
        /\ detections'[i] = detections[i] + 1
    BY <1>a, <1>1 DEF Detect, At, Goto, insert_detection
  <2>2. Told(i)' = Told(i)
    BY <1>1 DEF Detect, Told
  <2>3. Told(i) = detections[i] /\ ~Closed(i)
    BY <1>a, <2>1 DEF AlertsFollow, Live, Busy, Closed
  <2> QED
    BY <1>a, <2>1, <2>2, <2>3 DEF AlertsFollow, Closed
<1>2. CASE Alert(i)
  <2>1. pc[i] = "alert" /\ pc'[i] = "promptWait" /\ scans' = scans /\ detections' = detections
    BY <1>a, <1>2 DEF Alert, At, Goto
  <2>2. Told(i)' = Told(i) + 1
    BY <1>a, <1>2 DEF Alert, insert_event, Told, EventTypes
  <2> QED
    BY <1>a, <2>1, <2>2 DEF AlertsFollow, Live, Suspended, Busy, Closed
<1>3. CASE Finish(i)
  <2>1. pc[i] = "finish" /\ pc'[i] = "settle" /\ loc' = loc /\ detections' = detections
    BY <1>a, <1>3 DEF Finish, At, Goto
  <2>2. scans[i].status = "running"
    BY <2>1 DEF LedgerInv, RowFollows, Live, Busy
  <2>3. scans'[i].status = loc[i].status
    BY <1>3, <1>a, <2>2 DEF Finish, finish_scan, NoRow, ScanFinish
  <2>4. Told(i)' = Told(i)
    BY <1>3 DEF Finish, Told
  <2> QED
    BY <2>1, <2>3, <2>4 DEF AlertsFollow, Closed
<1>4. CASE Except(i) \/ Raise(i) \/ CountRaises(i) \/ FinishRaises(i) \/ Settle(i)
  <2>1. /\ pc'[i] \in {"except", "finish", "done"} /\ scans' = scans /\ detections' = detections
        /\ pc'[i] = "finish" => loc'[i].status = "failed"
    BY <1>a, <1>4 DEF Except, Raise, CountRaises, FinishRaises, Settle, Goto, SetLocals,
       Locals, history
  <2>2. ~Alert(i)
    BY <1>a, <2>1 DEF Alert, Goto
  <2> QED
    BY <2>1, <2>2, OnlyAlertTells DEF AlertsFollow, Live, Suspended, Busy, Closed
<1>5. CASE ~Detect(i) /\ ~Alert(i) /\ ~Finish(i) /\ ~Except(i) /\ ~Raise(i)
           /\ ~CountRaises(i) /\ ~FinishRaises(i) /\ ~Settle(i)
  <2>1. Live(i) /\ pc[i] \notin {"alert", "except", "finish", "settle"}
    BY <1>5 DEF EnginesStep, ScanStep, ClamAnswer, ClamTimeout, YaraAnswer,
       YaraTimeout, YaraKilled, Begin, Exhausted, NextCancelled, NextSkipped, NextFile,
       SkipTimedOut, Hash, ResumeContinue, ResumeDetails, ResumeStop, StartYara,
       SkipYara, NextHit, Count, WriteTxt, WriteHtml, LogSkipped, Answered, At, Live,
       Suspended, Busy
  <2>2. pc'[i] # "alert"
    BY <1>a, <1>5 DEF EnginesStep, ScanStep, ClamAnswer, ClamTimeout, YaraAnswer,
       YaraTimeout, YaraKilled, Begin, Exhausted, NextCancelled, NextSkipped, NextFile,
       SkipTimedOut, Hash, ResumeContinue, ResumeDetails, ResumeStop, StartYara,
       SkipYara, NextHit, Count, WriteTxt, WriteHtml, LogSkipped, Answered, LeaveLoop,
       At, Goto
  <2>3. detections' = detections
    BY <1>5, QuietStep DEF Count
  <2>4. Told(i)' = Told(i) /\ Told(i) = detections[i]
    BY <1>5, <2>1, OnlyAlertTells DEF AlertsFollow
  <2> QED
    BY <1>a, <2>2, <2>3, <2>4 DEF AlertsFollow
<1> QED
  BY <1>1, <1>2, <1>3, <1>4, <1>5

\* Every step keeps the announcements in line.
LEMMA AlertsInvStep ==
  ASSUME TypeOK, LedgerInv, AlertsInv, [Next]_vars
  PROVE  AlertsInv'
<1> SUFFICES ASSUME NEW j \in ScanIds PROVE AlertsFollow(j)'
  BY DEF AlertsInv
<1>a. /\ AlertsFollow(j) /\ RowFollows(j)
      /\ pc \in [ScanIds -> PCs] /\ scans \in [ScanIds -> Row]
      /\ Told(j) \in Nat /\ detections[j] \in Nat
  BY DEF AlertsInv, LedgerInv, TypeOK, TaskTypeOK, HistoryTypeOK, Told, EventTypes
<1>1. ASSUME NEW i \in ScanIds, EnginesStep(i) \/ ScanStep(i) PROVE AlertsFollow(j)'
  <2>1. CASE i = j
    BY <1>1, <1>a, <2>1, CoroutineAlerts
  <2>2. CASE i # j
    <3>1. Elsewhere(i) /\ events'[j] = events[j]
      BY <1>1, <2>2, CoroutineFollows, OthersKeep DEF Follows
    <3> QED
      BY <1>a, <2>2, <3>1 DEF Elsewhere, AlertsFollow, Told, Live, Closed
  <2> QED
    BY <2>1, <2>2
<1>2. ASSUME NEW i \in ScanIds, NEW rooted \in BOOLEAN,
             start_scan(i, rooted) \/ start_scan_raises(i, rooted)
      PROVE  AlertsFollow(j)'
  <2>1. detections' = detections /\ Told(j)' = Told(j) /\ loc' = loc
    BY <1>2 DEF start_scan, start_scan_raises, insert_event, Told, TypeOK, HistoryTypeOK,
       EventTypes
  <2>2. CASE i = j
    <3>1. pc[j] = "none" /\ pc'[j] \in {"created", "done"}
      BY <1>2, <2>2, StartKeeps
    <3>2. Told(j) = detections[j]
      BY <1>a, <3>1 DEF AlertsFollow, RowFollows
    <3> QED
      BY <1>a, <2>1, <3>1, <3>2 DEF AlertsFollow
  <2>3. CASE i # j
    <3>1. pc'[j] = pc[j] /\ scans'[j] = scans[j]
      BY <1>2, <1>a, <2>3 DEF start_scan, start_scan_raises, create_scan, Goto
    <3> QED
      BY <1>a, <2>1, <3>1 DEF AlertsFollow, Live, Closed
  <2> QED
    BY <2>2, <2>3
<1>3. ASSUME \/ \E d \in Drives \cup {None} : internal_drive_event(d)
             \/ cancel_scan \/ \E a \in ThreatAction : handle_threat_action(a)
             \/ Restart \/ UNCHANGED vars
      PROVE  AlertsFollow(j)'
  BY <1>3, <1>a DEF internal_drive_event, cancel_scan, handle_threat_action, Restart,
     vars, history, AlertsFollow, Told, Live, Closed
<1>4. ASSUME Interrupt PROVE AlertsFollow(j)'
  <2>1. scans' = scans /\ events' = events /\ detections' = detections /\ loc' = loc
    BY <1>4 DEF Interrupt, history
  <2>2. CASE pc'[j] = pc[j]
    BY <1>a, <2>1, <2>2 DEF AlertsFollow, Told, Live, Closed
  <2>3. CASE pc[j] \in Suspended /\ pc'[j] \in {"done", "finish"}
    <3>1. Told(j) = detections[j]
      BY <1>a, <2>3 DEF AlertsFollow, Live, Suspended
    <3>2. Told(j)' = Told(j)
      BY <2>1 DEF Told
    <3> QED
      BY <1>a, <2>1, <2>3, <3>1, <3>2 DEF AlertsFollow
  <2> QED
    BY <1>4, <2>2, <2>3, InterruptLabels DEF Suspended
<1>5. ASSUME Crash PROVE AlertsFollow(j)'
  <2>1. scans' = scans /\ events' = events /\ detections' = detections
    BY <1>5 DEF Crash, history
  <2>2. ~Live(j)' /\ pc'[j] \notin {"alert", "finish"}
    BY <1>5, <1>a DEF Crash, Live, Suspended, Busy, PCs
  <2> QED
    BY <1>a, <2>1, <2>2 DEF AlertsFollow, Told, Closed
<1> QED
  BY <1>1, <1>2, <1>3, <1>4, <1>5 DEF Next, Request

\* Nothing is detected or announced at first.
LEMMA AlertsInvInit == Init => AlertsInv
<1> SUFFICES ASSUME Init, NEW i \in ScanIds PROVE AlertsFollow(i)
  BY DEF AlertsInv
<1>1. /\ Told(i) = 0 /\ detections[i] = 0 /\ pc[i] = "none" /\ scans[i].status = "absent"
  BY DEF Init, EmptyHistory, NoRow, EventTypes, Told
<1> QED
  BY <1>1 DEF AlertsFollow, Live, Suspended, Busy, Closed, FinalStatuses

\* The history announces no threat it has no detection for and lacks at most
\* the last announcement; it lacks none while the operator is asked about a
\* threat, nor in a closed scan that did not fail, interrupted ones included.
THEOREM ThreatsAreAnnounced == Spec => []ThreatsAnnounced
<1>1. AlertsInv => ThreatsAnnounced
  BY DEF AlertsInv, AlertsFollow, Told, ThreatsAnnounced, Live, Suspended
<1>2. TypeOK /\ LedgerInv /\ AlertsInv /\ [Next]_vars => AlertsInv'
  BY AlertsInvStep
<1>3. TypeOK /\ LedgerInv /\ [Next]_vars => LedgerInv'
  BY LedgerInvStep
<1> QED
  BY <1>1, <1>2, <1>3, TypeInit, TypeStep, LedgerInvInit, AlertsInvInit, PTL DEF Spec
===============================================================================
