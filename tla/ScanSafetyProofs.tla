---------------------------- MODULE ScanSafetyProofs ----------------------------
(***************************************************************************)
(* What start_scan's guard gives, for any number of scans, files, faults   *)
(* and restarts: one scan at a time (SingleScan), and from it that neither *)
(* a cancellation nor an answer of the operator is lost (CancelNotForgotten*)
(* and AnswerKept).                                                        *)
(***************************************************************************)
EXTENDS ScanControllerProofs

-------------------------------------------------------------------------------
(***************************************************************************)
(* One scan at a time.  SingleScan is inductive with the types: the only   *)
(* step that makes a coroutine live requires that the last task has ended, *)
(* and the fields that name a scan change there and when a coroutine ends. *)
(***************************************************************************)

\* A coroutine step moves its own coroutine only, creates no task, and keeps
\* the names of the scan unless the coroutine ends.  It leaves the flag and
\* the answer of the operator alone, sets no event, and stays at the prompt
\* only to ask again.
OwnStep(i) ==
  /\ Live(i)
  /\ scanTask' = scanTask
  /\ cancelRequested' = cancelRequested
  /\ threatAction' = threatAction
  /\ actionEvent' => actionEvent
  /\ pc[i] = "promptWait" /\ pc'[i] = "promptWait" => ResumeDetails(i)
  /\ \A j \in ScanIds \ {i} : pc'[j] = pc[j]
  /\ \/ pc'[i] = "done"
     \/ activeScan' = activeScan /\ progress'.scan = progress.scan

\* Every step of an engine or of the coroutine is one.
LEMMA CoroutineStep ==
  ASSUME TypeOK, NEW i \in ScanIds, EnginesStep(i) \/ ScanStep(i)
  PROVE  OwnStep(i)
<1> USE DEF OwnStep, Live, At, Goto, Suspended, Busy, TypeOK, TaskTypeOK, ViewTypeOK,
            ScanProgress, FieldsTypeOK, fields
<1>1. ASSUME NEW infected \in BOOLEAN, ClamAnswer(i, infected) PROVE OwnStep(i)
  BY <1>1 DEF ClamAnswer
<1>2. ASSUME ClamTimeout(i) PROVE OwnStep(i)
  BY <1>2 DEF ClamTimeout
<1>3. ASSUME NEW matches \in 0..MaxHits, YaraAnswer(i, matches) PROVE OwnStep(i)
  BY <1>3 DEF YaraAnswer
<1>4. ASSUME YaraTimeout(i) PROVE OwnStep(i)
  BY <1>4 DEF YaraTimeout
<1>5. ASSUME YaraKilled(i) PROVE OwnStep(i)
  BY <1>5 DEF YaraKilled
<1>6. ASSUME Begin(i) PROVE OwnStep(i)
  BY <1>6 DEF Begin, set_progress
<1>7. ASSUME Exhausted(i) PROVE OwnStep(i)
  BY <1>7 DEF Exhausted, LeaveLoop, set_progress
<1>8. ASSUME NextCancelled(i) PROVE OwnStep(i)
  BY <1>8 DEF NextCancelled, LeaveLoop, set_progress
<1>9. ASSUME NEW size \in FileSizes, NextSkipped(i, size) PROVE OwnStep(i)
  BY <1>9 DEF NextSkipped
<1>10. ASSUME NEW size \in FileSizes, NEW installed \in BOOLEAN, NextFile(i, size, installed) PROVE OwnStep(i)
  BY <1>10 DEF NextFile, set_figures
<1>11. ASSUME SkipTimedOut(i) PROVE OwnStep(i)
  BY <1>11 DEF SkipTimedOut
<1>12. ASSUME Hash(i) PROVE OwnStep(i)
  BY <1>12 DEF Hash, set_progress
<1>13. ASSUME Detect(i) PROVE OwnStep(i)
  BY <1>13 DEF Detect
<1>14. ASSUME Alert(i) PROVE OwnStep(i)
  BY <1>14 DEF Alert, Prompt
<1>15. ASSUME ResumeContinue(i) PROVE OwnStep(i)
  BY <1>15 DEF ResumeContinue, Answered
<1>16. ASSUME ResumeDetails(i) PROVE OwnStep(i)
  BY <1>16 DEF ResumeDetails, Prompt, Answered
<1>17. ASSUME ResumeStop(i) PROVE OwnStep(i)
  BY <1>17 DEF ResumeStop, LeaveLoop, set_progress, Answered
<1>18. ASSUME NEW installed \in BOOLEAN, StartYara(i, installed) PROVE OwnStep(i)
  BY <1>18 DEF StartYara, set_progress
<1>19. ASSUME SkipYara(i) PROVE OwnStep(i)
  BY <1>19 DEF SkipYara
<1>20. ASSUME NextHit(i) PROVE OwnStep(i)
  BY <1>20 DEF NextHit
<1>21. ASSUME Count(i) PROVE OwnStep(i)
  BY <1>21 DEF Count
<1>22. ASSUME WriteTxt(i) PROVE OwnStep(i)
  BY <1>22 DEF WriteTxt
<1>23. ASSUME WriteHtml(i) PROVE OwnStep(i)
  BY <1>23 DEF WriteHtml
<1>24. ASSUME LogSkipped(i) PROVE OwnStep(i)
  BY <1>24 DEF LogSkipped
<1>25. ASSUME Except(i) PROVE OwnStep(i)
  BY <1>25 DEF Except
<1>26. ASSUME Finish(i) PROVE OwnStep(i)
  BY <1>26 DEF Finish
<1>27. ASSUME FinishRaises(i) PROVE OwnStep(i)
  BY <1>27 DEF FinishRaises
<1>28. ASSUME Settle(i) PROVE OwnStep(i)
  BY <1>28 DEF Settle
<1>29. ASSUME Raise(i) PROVE OwnStep(i)
  BY <1>29 DEF Raise, CanRaise
<1>30. ASSUME CountRaises(i) PROVE OwnStep(i)
  BY <1>30 DEF CountRaises
<1> HIDE DEF OwnStep
<1> QED
  BY <1>1, <1>2, <1>3, <1>4, <1>5, <1>6, <1>7, <1>8, <1>9, <1>10, <1>11,
     <1>12, <1>13, <1>14, <1>15, <1>16, <1>17, <1>18, <1>19, <1>20, <1>21,
     <1>22, <1>23, <1>24, <1>25, <1>26, <1>27, <1>28, <1>29, <1>30 DEF
     EnginesStep, ScanStep

\* Such a step leaves at most the scan it found.
LEMMA OwnStepKeeps ==
  ASSUME TypeOK, SingleScan, NEW i \in ScanIds, OwnStep(i)
  PROVE  SingleScan'
<1> SUFFICES ASSUME NEW j \in ScanIds, Live(j)'
             PROVE  scanTask' = j /\ activeScan' = j /\ progress'.scan = j
  BY DEF SingleScan
<1>1. Live(j)
  BY DEF OwnStep, Live
<1>2. j = i
  BY <1>1 DEF SingleScan, OwnStep
<1>3. pc'[i] # "done"
  BY <1>2 DEF Live, Suspended, Busy
<1> QED
  BY <1>1, <1>3 DEF OwnStep, SingleScan

\* A step that makes nothing live and renames nothing keeps it.
LEMMA SameTask ==
  ASSUME SingleScan, \A j \in ScanIds : Live(j)' => Live(j),
         scanTask' = scanTask, activeScan' = activeScan,
         progress'.scan = progress.scan
  PROVE  SingleScan'
BY DEF SingleScan

\* While a scan is live, no start is allowed.
LEMMA NoSecondStart ==
  ASSUME SingleScan, NEW i \in ScanIds, Live(i)
  PROVE  TaskRunning /\ \A rooted \in BOOLEAN : ~StartAllowed(rooted)
BY NoneAssumption DEF SingleScan, Live, TaskRunning, StartAllowed

\* A start of a scan, which there is only when no other is alive.
LEMMA SingleStart ==
  ASSUME TypeOK, SingleScan, NEW i \in ScanIds, NEW rooted \in BOOLEAN,
         start_scan(i, rooted) \/ start_scan_raises(i, rooted)
  PROVE  SingleScan'
<1>1. \A j \in ScanIds : ~Live(j)
  BY NoSecondStart DEF start_scan, start_scan_raises
<1>2. \A j \in ScanIds : Live(j)' => j = i
  BY <1>1 DEF start_scan, start_scan_raises, Goto, Live, TypeOK, TaskTypeOK
<1>3. CASE start_scan(i, rooted)
  BY <1>2, <1>3 DEF start_scan, AdmitScan, ProgressAt, SingleScan
<1>4. CASE start_scan_raises(i, rooted)
  <2>1. ~Live(i)'
    BY <1>4 DEF start_scan_raises, Goto, Live, Suspended, Busy, TypeOK, TaskTypeOK
  <2> QED
    BY <1>2, <2>1 DEF SingleScan
<1> QED
  BY <1>3, <1>4

\* One scan at a time, whatever step is taken.
LEMMA SingleStep == TypeOK /\ SingleScan /\ [Next]_vars => SingleScan'
<1> SUFFICES ASSUME TypeOK, SingleScan, [Next]_vars PROVE SingleScan'
  OBVIOUS
<1>1. ASSUME Request PROVE SingleScan'
  <2>1. ASSUME NEW d \in Drives \cup {None}, internal_drive_event(d)
        PROVE  SingleScan'
    BY <2>1, SameTask DEF internal_drive_event, Live
  <2>2. ASSUME cancel_scan PROVE SingleScan'
    BY <2>2, SameTask DEF cancel_scan, Live
  <2>3. ASSUME NEW a \in ThreatAction, handle_threat_action(a) PROVE SingleScan'
    BY <2>3, SameTask DEF handle_threat_action, Live
  <2> QED
    BY <1>1, <2>1, <2>2, <2>3, SingleStart DEF Request
<1>2. ASSUME NEW i \in ScanIds, EnginesStep(i) \/ ScanStep(i) PROVE SingleScan'
  BY <1>2, CoroutineStep, OwnStepKeeps
<1>3. ASSUME Interrupt PROVE SingleScan'
  <2>1. \A j \in ScanIds : Live(j)' => Live(j)
    BY <1>3 DEF Interrupt, Live, Stopped, Suspended, Busy
  <2> QED
    BY <1>3, <2>1, SameTask DEF Interrupt, fields
<1>4. ASSUME Restart PROVE SingleScan'
  BY <1>4 DEF Restart, Live, SingleScan
<1>5. ASSUME Crash PROVE SingleScan'
  BY <1>5 DEF Crash, Live, Suspended, Busy, SingleScan
<1>6. CASE UNCHANGED vars
  BY <1>6 DEF vars, fields, SingleScan, Live
<1> QED
  BY <1>1, <1>2, <1>3, <1>4, <1>5, <1>6 DEF Next

\* No scan is alive at first.
LEMMA SingleInit == Init => SingleScan
BY DEF Init, SingleScan, Live, Suspended, Busy

\* At most one scan coroutine is ever alive, and _scan_task, _active_scan_id
\* and the progress all name it: the guard of start_scan on the task is
\* enough, whatever drive events, failures and restarts do to _state.
THEOREM OneScanAtATime == Spec => []SingleScan
BY SingleInit, SingleStep, TypeInit, TypeStep, PTL DEF Spec

-------------------------------------------------------------------------------
(***************************************************************************)
(* Requests are not lost.  Both facts need SingleScan: start_scan clears   *)
(* the flag, the answer and the event, and is refused while a scan lives.  *)
(***************************************************************************)

\* One step keeps a cancellation for the scan that is alive before and after.
LEMMA CancelStep ==
  ASSUME TypeOK, SingleScan, [Next]_vars,
         NEW i \in ScanIds, cancelRequested, Live(i), Live(i)'
  PROVE  cancelRequested'
<1>1. ASSUME Request PROVE cancelRequested'
  BY <1>1, NoSecondStart DEF Request, internal_drive_event, cancel_scan,
     handle_threat_action, start_scan, start_scan_raises
<1>2. ASSUME NEW j \in ScanIds, EnginesStep(j) \/ ScanStep(j) PROVE cancelRequested'
  BY <1>2, CoroutineStep DEF OwnStep
<1>3. ASSUME Interrupt PROVE cancelRequested'
  BY <1>3 DEF Interrupt, fields
<1>4. ASSUME Restart PROVE FALSE
  BY <1>4 DEF Restart
<1>5. ASSUME Crash PROVE FALSE
  BY <1>5 DEF Crash, Live, Suspended, Busy
<1>6. CASE UNCHANGED vars
  BY <1>6 DEF vars, fields
<1> QED
  BY <1>1, <1>2, <1>3, <1>4, <1>5, <1>6 DEF Next

\* A coroutine comes to life in one step only, and that clears the flag.
LEMMA FreshFlag ==
  ASSUME TypeOK, SingleScan, [Next]_vars, NEW i \in ScanIds, ~Live(i), Live(i)'
  PROVE  ~cancelRequested'
<1>a. pc \in [ScanIds -> PCs]
  BY DEF TypeOK, TaskTypeOK
<1>1. ASSUME Request PROVE ~cancelRequested'
  BY <1>1 DEF Request, internal_drive_event, cancel_scan, handle_threat_action,
     start_scan, start_scan_raises, AdmitScan, Live
<1>2. ASSUME NEW j \in ScanIds, EnginesStep(j) \/ ScanStep(j) PROVE FALSE
  <2>1. OwnStep(j)
    BY <1>2, CoroutineStep
  <2> QED
    BY <2>1 DEF OwnStep, Live
<1>3. ASSUME Interrupt PROVE FALSE
  BY <1>3 DEF Interrupt, Stopped, Live, Suspended, Busy
<1>4. ASSUME Restart \/ Crash PROVE FALSE
  BY <1>4 DEF Restart, Crash, Live, Suspended, Busy
<1>5. CASE UNCHANGED vars
  BY <1>5 DEF vars, Live
<1> QED
  BY <1>1, <1>2, <1>3, <1>4, <1>5 DEF Next

\* A cancellation stays set until the scan it was meant for has ended, and not
\* beyond: no step of any actor resets _cancel_requested under a live coroutine,
\* and none brings a coroutine to life with the flag set.
THEOREM CancellationKept == Spec => CancelNotForgotten
<1>1. TypeOK /\ SingleScan /\ [Next]_vars =>
        [\A i \in ScanIds :
           /\ cancelRequested /\ Live(i) /\ Live(i)' => cancelRequested'
           /\ ~Live(i) /\ Live(i)' => ~cancelRequested']_vars
  BY CancelStep, FreshFlag
<1> QED
  BY <1>1, TypeInit, TypeStep, SingleInit, SingleStep, PTL DEF Spec, CancelNotForgotten

\* The event is set only together with an answer.
AnswerGiven == actionEvent => threatAction # None

\* Every step keeps the event and the answer together.
LEMMA AnswerGivenStep ==
  ASSUME TypeOK, AnswerGiven, [Next]_vars
  PROVE  AnswerGiven'
<1>1. ASSUME Request PROVE AnswerGiven'
  BY <1>1, NoneAssumption DEF Request, internal_drive_event, cancel_scan,
     handle_threat_action, start_scan, start_scan_raises, AdmitScan,
     AnswerGiven, ThreatAction
<1>2. ASSUME NEW j \in ScanIds, EnginesStep(j) \/ ScanStep(j) PROVE AnswerGiven'
  BY <1>2, CoroutineStep DEF OwnStep, AnswerGiven
<1>3. ASSUME Interrupt \/ UNCHANGED vars PROVE AnswerGiven'
  BY <1>3 DEF Interrupt, vars, fields, AnswerGiven
<1>4. ASSUME Restart \/ Crash PROVE AnswerGiven'
  BY <1>4 DEF Restart, Crash, FreshController, AnswerGiven
<1> QED
  BY <1>1, <1>2, <1>3, <1>4 DEF Next

\* SIGINT ends the wait at the prompt.
LEMMA InterruptedPrompt ==
  ASSUME TypeOK, Interrupt, NEW i \in ScanIds, pc[i] = "promptWait"
  PROVE  pc'[i] = "finish"
BY DEF Interrupt, Stopped, Suspended

\* One step keeps an accepted answer for a coroutine that stays at its prompt.
LEMMA AnswerStep ==
  ASSUME TypeOK, SingleScan, AnswerGiven, [Next]_vars,
         NEW i \in ScanIds, pc[i] = "promptWait", actionEvent,
         pc'[i] = "promptWait", ~ResumeDetails(i)
  PROVE  actionEvent' /\ threatAction' # None
<1>1. Live(i)
  BY DEF Live, Suspended
<1>2. actionEvent' => threatAction' # None
  BY AnswerGivenStep DEF AnswerGiven
<1>3. ASSUME Request PROVE actionEvent'
  BY <1>1, <1>3, NoSecondStart DEF Request, internal_drive_event, cancel_scan,
     handle_threat_action, start_scan, start_scan_raises
<1>4. ASSUME NEW j \in ScanIds, EnginesStep(j) \/ ScanStep(j) PROVE FALSE
  <2>1. OwnStep(j)
    BY <1>4, CoroutineStep
  <2>2. j = i
    BY <1>1, <2>1 DEF OwnStep, SingleScan
  <2> QED
    BY <2>1, <2>2 DEF OwnStep
<1>5. ASSUME Interrupt PROVE FALSE
  BY <1>5, InterruptedPrompt
<1>6. ASSUME Restart PROVE FALSE
  BY <1>1, <1>6 DEF Restart
<1>7. ASSUME Crash PROVE FALSE
  BY <1>1, <1>7 DEF Crash
<1>8. CASE UNCHANGED vars
  BY <1>2, <1>8 DEF vars, fields
<1> QED
  BY <1>2, <1>3, <1>4, <1>5, <1>6, <1>7, <1>8 DEF Next

\* An answer the controller has accepted is there when the coroutine wakes:
\* no request, drive event or other coroutine takes it back.
THEOREM AcceptedAnswerKept == Spec => AnswerKept
<1>1. TypeOK /\ SingleScan /\ AnswerGiven /\ [Next]_vars =>
        [\A i \in ScanIds :
           /\ pc[i] = "promptWait" /\ actionEvent
           /\ pc'[i] = "promptWait" /\ ~ResumeDetails(i)
           => actionEvent' /\ threatAction' # None]_vars
  BY AnswerStep
<1>2. Init => AnswerGiven
  BY DEF Init, AnswerGiven
<1> QED
  BY <1>1, <1>2, TypeInit, TypeStep, SingleInit, SingleStep, AnswerGivenStep,
     PTL DEF Spec, AnswerKept
===============================================================================
