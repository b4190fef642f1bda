-------------------------- MODULE ScanControllerProofs -------------------------
(***************************************************************************)
(* Proofs about ScanController, for any number of scans, drives, files,    *)
(* matches, faults and restarts: types, one scan at a time, and the        *)
(* history as a ledger.  No property here depends on a bound.              *)
(***************************************************************************)
EXTENDS ScanProperties, TLAPS

-------------------------------------------------------------------------------
(***************************************************************************)
(* Type correctness.  First what the helpers do to types.                  *)
(***************************************************************************)

\* A coroutine goes from label to label.
LEMMA GotoType ==
  ASSUME TaskTypeOK, NEW i \in ScanIds, NEW label \in PCs, Goto(i, label)
  PROVE  pc' \in [ScanIds -> PCs]
BY DEF TaskTypeOK, Goto

\* The locals of one coroutine are replaced.
LEMMA LocalsType ==
  ASSUME TaskTypeOK, NEW i \in ScanIds, NEW r \in Locals, SetLocals(i, r)
  PROVE  loc' \in [ScanIds -> Locals]
BY DEF TaskTypeOK, SetLocals

\* What _set_progress leaves, without figures and with them.
LEMMA SetProgressType ==
  ASSUME ViewTypeOK, NEW stage \in ScanStage, set_progress(stage)
  PROVE  progress' \in ScanProgress /\ latest' \in EventEnvelope
BY DEF ViewTypeOK, set_progress, publish, ScanProgress, EventEnvelope, ScanState,
       PublishedTypes

\* The figures of the scan go into the progress, and are published.
LEMMA SetFiguresType ==
  ASSUME ViewTypeOK, NEW stage \in ScanStage, NEW n \in Nat, NEW t \in Nat,
         set_figures(stage, n, t)
  PROVE  progress' \in ScanProgress /\ latest' \in EventEnvelope
BY DEF ViewTypeOK, set_figures, publish, ScanProgress, EventEnvelope, ScanState,
       PublishedTypes

\* insert_event keeps the table of events one.
LEMMA EventType ==
  ASSUME HistoryTypeOK, NEW i \in ScanIds, NEW t \in EventTypes, insert_event(i, t)
  PROVE  events' \in [ScanIds -> [EventTypes -> Nat]]
BY DEF HistoryTypeOK, insert_event

\* What every step on the locals of a scan needs to know of them.
LEMMA LocalsFacts ==
  ASSUME TypeOK, NEW i \in ScanIds
  PROVE  /\ loc[i] \in Locals
         /\ loc[i].yielded + 1 \in Nat /\ loc[i].skipped + 1 \in Nat
         /\ loc[i].threats + 1 \in Nat /\ loc[i].files + 1 \in Nat
         /\ loc[i].files \in Nat /\ loc[i].threats \in Nat
         /\ loc[i].hits > 0 => loc[i].hits - 1 \in Nat
BY DEF TypeOK, TaskTypeOK, Locals

\* The handler internal_drive_event keeps the types.
LEMMA Type_internal_drive_event ==
  ASSUME TypeOK, NEW d \in Drives \cup {None}, internal_drive_event(d)
  PROVE  TypeOK'
<1>1. HistoryTypeOK'
  BY DEF TypeOK, HistoryTypeOK, internal_drive_event, history
<1>2. FieldsTypeOK'
  BY DEF TypeOK, FieldsTypeOK, internal_drive_event, set_drive, ScanState
<1>3. ViewTypeOK'
  BY DEF TypeOK, ViewTypeOK, internal_drive_event, publish, EventEnvelope,
     PublishedTypes
<1>4. TaskTypeOK'
  BY DEF TypeOK, TaskTypeOK, internal_drive_event
<1>5. EnvTypeOK'
  BY DEF TypeOK, EnvTypeOK, internal_drive_event, env
<1> QED
  BY <1>1, <1>2, <1>3, <1>4, <1>5 DEF TypeOK

\* The handler start_scan keeps the types.
LEMMA Type_start_scan ==
  ASSUME TypeOK, NEW i \in ScanIds, NEW rooted \in BOOLEAN,
         start_scan(i, rooted)
  PROVE  TypeOK'
<1>1. HistoryTypeOK'
  BY EventType DEF TypeOK, HistoryTypeOK, start_scan, EventTypes, create_scan,
     Row, ScanStatus
<1>2. FieldsTypeOK'
  BY DEF TypeOK, FieldsTypeOK, start_scan, AdmitScan, ScanState
<1>3. ViewTypeOK'
  BY DEF TypeOK, ViewTypeOK, start_scan, publish, EventEnvelope,
     PublishedTypes, AdmitScan, ProgressAt, ScanProgress, ScanState, ScanStage
<1>4. TaskTypeOK'
  BY GotoType DEF TypeOK, TaskTypeOK, start_scan, PCs, Suspended, Busy
<1>5. EnvTypeOK'
  BY DEF TypeOK, EnvTypeOK, start_scan, env
<1> QED
  BY <1>1, <1>2, <1>3, <1>4, <1>5 DEF TypeOK

\* The handler start_scan_raises keeps the types.
LEMMA Type_start_scan_raises ==
  ASSUME TypeOK, NEW i \in ScanIds, NEW rooted \in BOOLEAN,
         start_scan_raises(i, rooted)
  PROVE  TypeOK'
<1>1. HistoryTypeOK'
  BY DEF TypeOK, HistoryTypeOK, start_scan_raises, create_scan, Row,
     ScanStatus
<1>2. FieldsTypeOK'
  BY DEF TypeOK, FieldsTypeOK, start_scan_raises, AdmitScan, ScanState
<1>3. ViewTypeOK'
  BY DEF TypeOK, ViewTypeOK, start_scan_raises, AdmitScan, ProgressAt,
     ScanProgress, ScanState, ScanStage
<1>4. TaskTypeOK'
  BY GotoType DEF TypeOK, TaskTypeOK, start_scan_raises, PCs, Suspended, Busy
<1>5. EnvTypeOK'
  BY DEF TypeOK, EnvTypeOK, start_scan_raises, Fault
<1> QED
  BY <1>1, <1>2, <1>3, <1>4, <1>5 DEF TypeOK

\* The handler cancel_scan keeps the types.
LEMMA Type_cancel_scan ==
  ASSUME TypeOK, cancel_scan
  PROVE  TypeOK'
<1>1. HistoryTypeOK'
  BY DEF TypeOK, HistoryTypeOK, cancel_scan, history
<1>2. FieldsTypeOK'
  BY DEF TypeOK, FieldsTypeOK, cancel_scan, ThreatAction
<1>3. ViewTypeOK'
  BY DEF TypeOK, ViewTypeOK, cancel_scan, publish, EventEnvelope,
     PublishedTypes, FieldsTypeOK
<1>4. TaskTypeOK'
  BY DEF TypeOK, TaskTypeOK, cancel_scan
<1>5. EnvTypeOK'
  BY DEF TypeOK, EnvTypeOK, cancel_scan, env
<1> QED
  BY <1>1, <1>2, <1>3, <1>4, <1>5 DEF TypeOK

\* The handler handle_threat_action keeps the types.
LEMMA Type_handle_threat_action ==
  ASSUME TypeOK, NEW action \in ThreatAction, handle_threat_action(action)
  PROVE  TypeOK'
<1>1. HistoryTypeOK'
  BY DEF TypeOK, HistoryTypeOK, handle_threat_action, history
<1>2. FieldsTypeOK'
  BY DEF TypeOK, FieldsTypeOK, handle_threat_action, ThreatAction
<1>3. ViewTypeOK'
  BY DEF TypeOK, ViewTypeOK, handle_threat_action
<1>4. TaskTypeOK'
  BY DEF TypeOK, TaskTypeOK, handle_threat_action
<1>5. EnvTypeOK'
  BY DEF TypeOK, EnvTypeOK, handle_threat_action, env
<1> QED
  BY <1>1, <1>2, <1>3, <1>4, <1>5 DEF TypeOK

\* The engine step ClamAnswer keeps the types.
LEMMA Type_ClamAnswer ==
  ASSUME TypeOK, NEW i \in ScanIds, NEW infected \in BOOLEAN,
         ClamAnswer(i, infected)
  PROVE  TypeOK'
<1>1. HistoryTypeOK'
  BY DEF TypeOK, HistoryTypeOK, ClamAnswer, history
<1>2. FieldsTypeOK'
  BY DEF TypeOK, FieldsTypeOK, ClamAnswer, fields
<1>3. ViewTypeOK'
  BY DEF TypeOK, ViewTypeOK, ClamAnswer
<1>4. TaskTypeOK'
  BY GotoType, LocalsType, LocalsFacts DEF TypeOK, TaskTypeOK, ClamAnswer,
     PCs, Suspended, Busy, Locals, FinalStatuses
<1>5. EnvTypeOK'
  BY DEF TypeOK, EnvTypeOK, ClamAnswer, env
<1> QED
  BY <1>1, <1>2, <1>3, <1>4, <1>5 DEF TypeOK

\* The engine step ClamTimeout keeps the types.
LEMMA Type_ClamTimeout ==
  ASSUME TypeOK, NEW i \in ScanIds, ClamTimeout(i)
  PROVE  TypeOK'
<1>1. HistoryTypeOK'
  BY DEF TypeOK, HistoryTypeOK, ClamTimeout, history
<1>2. FieldsTypeOK'
  BY DEF TypeOK, FieldsTypeOK, ClamTimeout, fields
<1>3. ViewTypeOK'
  BY DEF TypeOK, ViewTypeOK, ClamTimeout
<1>4. TaskTypeOK'
  BY GotoType DEF TypeOK, TaskTypeOK, ClamTimeout, PCs, Suspended, Busy
<1>5. EnvTypeOK'
  BY DEF TypeOK, EnvTypeOK, ClamTimeout, env
<1> QED
  BY <1>1, <1>2, <1>3, <1>4, <1>5 DEF TypeOK

\* The engine step YaraAnswer keeps the types.
LEMMA Type_YaraAnswer ==
  ASSUME TypeOK, NEW i \in ScanIds, NEW matches \in 0..MaxHits,
         YaraAnswer(i, matches)
  PROVE  TypeOK'
<1>1. HistoryTypeOK'
  BY DEF TypeOK, HistoryTypeOK, YaraAnswer, history
<1>2. FieldsTypeOK'
  BY DEF TypeOK, FieldsTypeOK, YaraAnswer, fields
<1>3. ViewTypeOK'
  BY DEF TypeOK, ViewTypeOK, YaraAnswer
<1>4. TaskTypeOK'
  BY GotoType, LocalsType, LocalsFacts, BoundAssumption DEF TypeOK,
     TaskTypeOK, YaraAnswer, PCs, Suspended, Busy, Locals, FinalStatuses
<1>5. EnvTypeOK'
  BY DEF TypeOK, EnvTypeOK, YaraAnswer, env
<1> QED
  BY <1>1, <1>2, <1>3, <1>4, <1>5 DEF TypeOK

\* The engine step YaraTimeout keeps the types.
LEMMA Type_YaraTimeout ==
  ASSUME TypeOK, NEW i \in ScanIds, YaraTimeout(i)
  PROVE  TypeOK'
<1>1. HistoryTypeOK'
  BY DEF TypeOK, HistoryTypeOK, YaraTimeout, history
<1>2. FieldsTypeOK'
  BY DEF TypeOK, FieldsTypeOK, YaraTimeout, fields
<1>3. ViewTypeOK'
  BY DEF TypeOK, ViewTypeOK, YaraTimeout
<1>4. TaskTypeOK'
  BY GotoType DEF TypeOK, TaskTypeOK, YaraTimeout, PCs, Suspended, Busy
<1>5. EnvTypeOK'
  BY DEF TypeOK, EnvTypeOK, YaraTimeout, env
<1> QED
  BY <1>1, <1>2, <1>3, <1>4, <1>5 DEF TypeOK

\* The engine step YaraKilled keeps the types.
LEMMA Type_YaraKilled ==
  ASSUME TypeOK, NEW i \in ScanIds, YaraKilled(i)
  PROVE  TypeOK'
<1>1. HistoryTypeOK'
  BY DEF TypeOK, HistoryTypeOK, YaraKilled, history
<1>2. FieldsTypeOK'
  BY DEF TypeOK, FieldsTypeOK, YaraKilled, fields
<1>3. ViewTypeOK'
  BY DEF TypeOK, ViewTypeOK, YaraKilled
<1>4. TaskTypeOK'
  BY GotoType DEF TypeOK, TaskTypeOK, YaraKilled, PCs, Suspended, Busy
<1>5. EnvTypeOK'
  BY DEF TypeOK, EnvTypeOK, YaraKilled, env
<1> QED
  BY <1>1, <1>2, <1>3, <1>4, <1>5 DEF TypeOK

\* The coroutine step Begin keeps the types.
LEMMA Type_Begin ==
  ASSUME TypeOK, NEW i \in ScanIds, Begin(i)
  PROVE  TypeOK'
<1>1. HistoryTypeOK'
  BY DEF TypeOK, HistoryTypeOK, Begin, history
<1>2. FieldsTypeOK'
  BY DEF TypeOK, FieldsTypeOK, Begin, fields
<1>3. ViewTypeOK'
  BY SetProgressType DEF TypeOK, ViewTypeOK, Begin, ScanStage
<1>4. TaskTypeOK'
  BY GotoType DEF TypeOK, TaskTypeOK, Begin, PCs, Suspended, Busy
<1>5. EnvTypeOK'
  BY DEF TypeOK, EnvTypeOK, Begin, env
<1> QED
  BY <1>1, <1>2, <1>3, <1>4, <1>5 DEF TypeOK

\* The coroutine step Exhausted keeps the types.
LEMMA Type_Exhausted ==
  ASSUME TypeOK, NEW i \in ScanIds, Exhausted(i)
  PROVE  TypeOK'
<1>1. HistoryTypeOK'
  BY DEF TypeOK, HistoryTypeOK, Exhausted, history
<1>2. FieldsTypeOK'
  BY DEF TypeOK, FieldsTypeOK, Exhausted, fields
<1>3. ViewTypeOK'
  BY SetProgressType DEF TypeOK, ViewTypeOK, Exhausted, ScanStage, LeaveLoop
<1>4. TaskTypeOK'
  BY GotoType DEF TypeOK, TaskTypeOK, Exhausted, PCs, Suspended, Busy,
     LeaveLoop
<1>5. EnvTypeOK'
  BY DEF TypeOK, EnvTypeOK, Exhausted, env
<1> QED
  BY <1>1, <1>2, <1>3, <1>4, <1>5 DEF TypeOK

\* The coroutine step NextCancelled keeps the types.
LEMMA Type_NextCancelled ==
  ASSUME TypeOK, NEW i \in ScanIds, NextCancelled(i)
  PROVE  TypeOK'
<1>1. HistoryTypeOK'
  BY DEF TypeOK, HistoryTypeOK, NextCancelled, history
<1>2. FieldsTypeOK'
  BY DEF TypeOK, FieldsTypeOK, NextCancelled, fields
<1>3. ViewTypeOK'
  BY SetProgressType DEF TypeOK, ViewTypeOK, NextCancelled, ScanStage,
     LeaveLoop
<1>4. TaskTypeOK'
  BY GotoType, LocalsType, LocalsFacts DEF TypeOK, TaskTypeOK, NextCancelled,
     PCs, Suspended, Busy, LeaveLoop, Locals, FinalStatuses
<1>5. EnvTypeOK'
  BY DEF TypeOK, EnvTypeOK, NextCancelled, env
<1> QED
  BY <1>1, <1>2, <1>3, <1>4, <1>5 DEF TypeOK

\* The coroutine step NextSkipped keeps the types.
LEMMA Type_NextSkipped ==
  ASSUME TypeOK, NEW i \in ScanIds, NEW size \in FileSizes,
         NextSkipped(i, size)
  PROVE  TypeOK'
<1>1. HistoryTypeOK'
  BY DEF TypeOK, HistoryTypeOK, NextSkipped, history
<1>2. FieldsTypeOK'
  BY DEF TypeOK, FieldsTypeOK, NextSkipped, fields
<1>3. ViewTypeOK'
  BY DEF TypeOK, ViewTypeOK, NextSkipped
<1>4. TaskTypeOK'
  BY LocalsType, LocalsFacts DEF TypeOK, TaskTypeOK, NextSkipped, Locals,
     FinalStatuses
<1>5. EnvTypeOK'
  BY DEF TypeOK, EnvTypeOK, NextSkipped, env
<1> QED
  BY <1>1, <1>2, <1>3, <1>4, <1>5 DEF TypeOK

\* The coroutine step NextFile keeps the types.
LEMMA Type_NextFile ==
  ASSUME TypeOK, NEW i \in ScanIds, NEW size \in FileSizes, NEW installed \in BOOLEAN,
         NextFile(i, size, installed)
  PROVE  TypeOK'
<1>1. HistoryTypeOK'
  BY DEF TypeOK, HistoryTypeOK, NextFile, history
<1>2. FieldsTypeOK'
  BY DEF TypeOK, FieldsTypeOK, NextFile, fields
<1>3. ViewTypeOK'
  BY SetFiguresType, LocalsFacts DEF TypeOK, ViewTypeOK, NextFile, ScanStage
<1>4. TaskTypeOK'
  BY GotoType, LocalsType, LocalsFacts DEF TypeOK, TaskTypeOK, NextFile, PCs,
     Suspended, Busy, Locals, FinalStatuses
<1>5. EnvTypeOK'
  BY DEF TypeOK, EnvTypeOK, NextFile, env
<1> QED
  BY <1>1, <1>2, <1>3, <1>4, <1>5 DEF TypeOK

\* The coroutine step SkipTimedOut keeps the types.
LEMMA Type_SkipTimedOut ==
  ASSUME TypeOK, NEW i \in ScanIds, SkipTimedOut(i)
  PROVE  TypeOK'
<1>1. HistoryTypeOK'
  BY EventType DEF TypeOK, HistoryTypeOK, SkipTimedOut, EventTypes
<1>2. FieldsTypeOK'
  BY DEF TypeOK, FieldsTypeOK, SkipTimedOut, fields
<1>3. ViewTypeOK'
  BY DEF TypeOK, ViewTypeOK, SkipTimedOut
<1>4. TaskTypeOK'
  BY GotoType DEF TypeOK, TaskTypeOK, SkipTimedOut, PCs, Suspended, Busy
<1>5. EnvTypeOK'
  BY DEF TypeOK, EnvTypeOK, SkipTimedOut, env
<1> QED
  BY <1>1, <1>2, <1>3, <1>4, <1>5 DEF TypeOK

\* The coroutine step Hash keeps the types.
LEMMA Type_Hash ==
  ASSUME TypeOK, NEW i \in ScanIds, Hash(i)
  PROVE  TypeOK'
<1>1. HistoryTypeOK'
  BY DEF TypeOK, HistoryTypeOK, Hash, history
<1>2. FieldsTypeOK'
  BY DEF TypeOK, FieldsTypeOK, Hash, fields
<1>3. ViewTypeOK'
  BY SetProgressType DEF TypeOK, ViewTypeOK, Hash, ScanStage
<1>4. TaskTypeOK'
  BY GotoType, LocalsType, LocalsFacts DEF TypeOK, TaskTypeOK, Hash, PCs,
     Suspended, Busy, Locals, FinalStatuses
<1>5. EnvTypeOK'
  BY DEF TypeOK, EnvTypeOK, Hash, env
<1> QED
  BY <1>1, <1>2, <1>3, <1>4, <1>5 DEF TypeOK

\* The coroutine step Detect keeps the types.
LEMMA Type_Detect ==
  ASSUME TypeOK, NEW i \in ScanIds, Detect(i)
  PROVE  TypeOK'
<1>1. HistoryTypeOK'
  BY DEF TypeOK, HistoryTypeOK, Detect, insert_detection
<1>2. FieldsTypeOK'
  BY DEF TypeOK, FieldsTypeOK, Detect, fields
<1>3. ViewTypeOK'
  BY DEF TypeOK, ViewTypeOK, Detect
<1>4. TaskTypeOK'
  BY GotoType DEF TypeOK, TaskTypeOK, Detect, PCs, Suspended, Busy
<1>5. EnvTypeOK'
  BY DEF TypeOK, EnvTypeOK, Detect, env
<1> QED
  BY <1>1, <1>2, <1>3, <1>4, <1>5 DEF TypeOK

\* The coroutine step Alert keeps the types.
LEMMA Type_Alert ==
  ASSUME TypeOK, NEW i \in ScanIds, Alert(i)
  PROVE  TypeOK'
<1>1. HistoryTypeOK'
  BY EventType DEF TypeOK, HistoryTypeOK, Alert, EventTypes
<1>2. FieldsTypeOK'
  BY DEF TypeOK, FieldsTypeOK, Alert, Prompt, ScanState
<1>3. ViewTypeOK'
  BY DEF TypeOK, ViewTypeOK, Alert, publish, EventEnvelope, PublishedTypes,
     Prompt, ScanProgress, ScanState
<1>4. TaskTypeOK'
  BY GotoType DEF TypeOK, TaskTypeOK, Alert, PCs, Suspended, Busy
<1>5. EnvTypeOK'
  BY DEF TypeOK, EnvTypeOK, Alert, env
<1> QED
  BY <1>1, <1>2, <1>3, <1>4, <1>5 DEF TypeOK

\* The coroutine step ResumeContinue keeps the types.
LEMMA Type_ResumeContinue ==
  ASSUME TypeOK, NEW i \in ScanIds, ResumeContinue(i)
  PROVE  TypeOK'
<1>1. HistoryTypeOK'
  BY DEF TypeOK, HistoryTypeOK, ResumeContinue, history
<1>2. FieldsTypeOK'
  BY DEF TypeOK, FieldsTypeOK, ResumeContinue, ScanState
<1>3. ViewTypeOK'
  BY DEF TypeOK, ViewTypeOK, ResumeContinue
<1>4. TaskTypeOK'
  BY GotoType DEF TypeOK, TaskTypeOK, ResumeContinue, PCs, Suspended, Busy
<1>5. EnvTypeOK'
  BY DEF TypeOK, EnvTypeOK, ResumeContinue, env
<1> QED
  BY <1>1, <1>2, <1>3, <1>4, <1>5 DEF TypeOK

\* The coroutine step ResumeDetails keeps the types.
LEMMA Type_ResumeDetails ==
  ASSUME TypeOK, NEW i \in ScanIds, ResumeDetails(i)
  PROVE  TypeOK'
<1>1. HistoryTypeOK'
  BY DEF TypeOK, HistoryTypeOK, ResumeDetails, history
<1>2. FieldsTypeOK'
  BY DEF TypeOK, FieldsTypeOK, ResumeDetails, Prompt, ScanState
<1>3. ViewTypeOK'
  BY DEF TypeOK, ViewTypeOK, ResumeDetails, Prompt, ScanProgress, ScanState
<1>4. TaskTypeOK'
  BY DEF TypeOK, TaskTypeOK, ResumeDetails
<1>5. EnvTypeOK'
  BY DEF TypeOK, EnvTypeOK, ResumeDetails, env
<1> QED
  BY <1>1, <1>2, <1>3, <1>4, <1>5 DEF TypeOK

\* The coroutine step ResumeStop keeps the types.
LEMMA Type_ResumeStop ==
  ASSUME TypeOK, NEW i \in ScanIds, ResumeStop(i)
  PROVE  TypeOK'
<1>1. HistoryTypeOK'
  BY DEF TypeOK, HistoryTypeOK, ResumeStop, history
<1>2. FieldsTypeOK'
  BY DEF TypeOK, FieldsTypeOK, ResumeStop, fields
<1>3. ViewTypeOK'
  BY SetProgressType DEF TypeOK, ViewTypeOK, ResumeStop, ScanStage, LeaveLoop
<1>4. TaskTypeOK'
  BY GotoType DEF TypeOK, TaskTypeOK, ResumeStop, PCs, Suspended, Busy,
     LeaveLoop
<1>5. EnvTypeOK'
  BY DEF TypeOK, EnvTypeOK, ResumeStop, env
<1> QED
  BY <1>1, <1>2, <1>3, <1>4, <1>5 DEF TypeOK

\* The coroutine step StartYara keeps the types.
LEMMA Type_StartYara ==
  ASSUME TypeOK, NEW i \in ScanIds, NEW installed \in BOOLEAN,
         StartYara(i, installed)
  PROVE  TypeOK'
<1>1. HistoryTypeOK'
  BY DEF TypeOK, HistoryTypeOK, StartYara, history
<1>2. FieldsTypeOK'
  BY DEF TypeOK, FieldsTypeOK, StartYara, fields
<1>3. ViewTypeOK'
  BY SetProgressType DEF TypeOK, ViewTypeOK, StartYara, ScanStage
<1>4. TaskTypeOK'
  BY GotoType, LocalsType, LocalsFacts DEF TypeOK, TaskTypeOK, StartYara, PCs,
     Suspended, Busy, Locals, FinalStatuses
<1>5. EnvTypeOK'
  BY DEF TypeOK, EnvTypeOK, StartYara, env
<1> QED
  BY <1>1, <1>2, <1>3, <1>4, <1>5 DEF TypeOK

\* The coroutine step SkipYara keeps the types.
LEMMA Type_SkipYara ==
  ASSUME TypeOK, NEW i \in ScanIds, SkipYara(i)
  PROVE  TypeOK'
<1>1. HistoryTypeOK'
  BY DEF TypeOK, HistoryTypeOK, SkipYara, history
<1>2. FieldsTypeOK'
  BY DEF TypeOK, FieldsTypeOK, SkipYara, fields
<1>3. ViewTypeOK'
  BY DEF TypeOK, ViewTypeOK, SkipYara
<1>4. TaskTypeOK'
  BY GotoType DEF TypeOK, TaskTypeOK, SkipYara, PCs, Suspended, Busy
<1>5. EnvTypeOK'
  BY DEF TypeOK, EnvTypeOK, SkipYara, env
<1> QED
  BY <1>1, <1>2, <1>3, <1>4, <1>5 DEF TypeOK

\* The coroutine step NextHit keeps the types.
LEMMA Type_NextHit ==
  ASSUME TypeOK, NEW i \in ScanIds, NextHit(i)
  PROVE  TypeOK'
<1>1. HistoryTypeOK'
  BY DEF TypeOK, HistoryTypeOK, NextHit, history
<1>2. FieldsTypeOK'
  BY DEF TypeOK, FieldsTypeOK, NextHit, fields
<1>3. ViewTypeOK'
  BY DEF TypeOK, ViewTypeOK, NextHit
<1>4. TaskTypeOK'
  BY GotoType, LocalsType, LocalsFacts DEF TypeOK, TaskTypeOK, NextHit, PCs,
     Suspended, Busy, Locals, FinalStatuses
<1>5. EnvTypeOK'
  BY DEF TypeOK, EnvTypeOK, NextHit, env
<1> QED
  BY <1>1, <1>2, <1>3, <1>4, <1>5 DEF TypeOK

\* The coroutine step Count keeps the types.
LEMMA Type_Count ==
  ASSUME TypeOK, NEW i \in ScanIds, Count(i)
  PROVE  TypeOK'
<1>1. HistoryTypeOK'
  <2>1. /\ scans[i] \in Row /\ loc[i].threats \in Nat
        /\ loc[i].files + 1 \in Nat
    BY LocalsFacts DEF TypeOK, HistoryTypeOK
  <2>2. [scans[i] EXCEPT !.files = loc[i].files + 1,
                         !.threats = loc[i].threats] \in Row
    BY <2>1 DEF Row
  <2> QED
    BY <2>1, <2>2 DEF TypeOK, HistoryTypeOK, Count, update_scan_progress
<1>2. FieldsTypeOK'
  BY DEF TypeOK, FieldsTypeOK, Count, fields
<1>3. ViewTypeOK'
  BY DEF TypeOK, ViewTypeOK, Count
<1>4. TaskTypeOK'
  BY GotoType, LocalsType, LocalsFacts DEF TypeOK, TaskTypeOK, Count, PCs,
     Suspended, Busy, Locals, FinalStatuses
<1>5. EnvTypeOK'
  BY DEF TypeOK, EnvTypeOK, Count, env
<1> QED
  BY <1>1, <1>2, <1>3, <1>4, <1>5 DEF TypeOK

\* The coroutine step WriteTxt keeps the types.
LEMMA Type_WriteTxt ==
  ASSUME TypeOK, NEW i \in ScanIds, WriteTxt(i)
  PROVE  TypeOK'
<1>1. HistoryTypeOK'
  BY DEF TypeOK, HistoryTypeOK, WriteTxt, history
<1>2. FieldsTypeOK'
  BY DEF TypeOK, FieldsTypeOK, WriteTxt, fields
<1>3. ViewTypeOK'
  BY LocalsFacts DEF TypeOK, ViewTypeOK, WriteTxt, ReportFigures, Figures,
     ReportDir, HistoryTypeOK, Locals
<1>4. TaskTypeOK'
  BY GotoType DEF TypeOK, TaskTypeOK, WriteTxt, PCs, Suspended, Busy
<1>5. EnvTypeOK'
  BY DEF TypeOK, EnvTypeOK, WriteTxt, env
<1> QED
  BY <1>1, <1>2, <1>3, <1>4, <1>5 DEF TypeOK

\* The coroutine step WriteHtml keeps the types.
LEMMA Type_WriteHtml ==
  ASSUME TypeOK, NEW i \in ScanIds, WriteHtml(i)
  PROVE  TypeOK'
<1>1. HistoryTypeOK'
  BY DEF TypeOK, HistoryTypeOK, WriteHtml, history
<1>2. FieldsTypeOK'
  BY DEF TypeOK, FieldsTypeOK, WriteHtml, fields
<1>3. ViewTypeOK'
  BY LocalsFacts DEF TypeOK, ViewTypeOK, WriteHtml, ReportFigures, Figures,
     ReportDir, HistoryTypeOK, Locals
<1>4. TaskTypeOK'
  BY GotoType, LocalsType, LocalsFacts DEF TypeOK, TaskTypeOK, WriteHtml, PCs,
     Suspended, Busy, Locals, FinalStatuses
<1>5. EnvTypeOK'
  BY DEF TypeOK, EnvTypeOK, WriteHtml, env
<1> QED
  BY <1>1, <1>2, <1>3, <1>4, <1>5 DEF TypeOK

\* The coroutine step LogSkipped keeps the types.
LEMMA Type_LogSkipped ==
  ASSUME TypeOK, NEW i \in ScanIds, LogSkipped(i)
  PROVE  TypeOK'
<1>1. HistoryTypeOK'
  BY EventType DEF TypeOK, HistoryTypeOK, LogSkipped, EventTypes
<1>2. FieldsTypeOK'
  BY DEF TypeOK, FieldsTypeOK, LogSkipped, fields
<1>3. ViewTypeOK'
  BY DEF TypeOK, ViewTypeOK, LogSkipped
<1>4. TaskTypeOK'
  BY GotoType DEF TypeOK, TaskTypeOK, LogSkipped, PCs, Suspended, Busy
<1>5. EnvTypeOK'
  BY DEF TypeOK, EnvTypeOK, LogSkipped, env
<1> QED
  BY <1>1, <1>2, <1>3, <1>4, <1>5 DEF TypeOK

\* The coroutine step Except keeps the types.
LEMMA Type_Except ==
  ASSUME TypeOK, NEW i \in ScanIds, Except(i)
  PROVE  TypeOK'
<1>1. HistoryTypeOK'
  BY EventType DEF TypeOK, HistoryTypeOK, Except, EventTypes
<1>2. FieldsTypeOK'
  BY DEF TypeOK, FieldsTypeOK, Except, fields
<1>3. ViewTypeOK'
  BY DEF TypeOK, ViewTypeOK, Except, publish, EventEnvelope, PublishedTypes
<1>4. TaskTypeOK'
  BY GotoType, LocalsType, LocalsFacts DEF TypeOK, TaskTypeOK, Except, PCs,
     Suspended, Busy, Locals, FinalStatuses
<1>5. EnvTypeOK'
  BY DEF TypeOK, EnvTypeOK, Except, Fault
<1> QED
  BY <1>1, <1>2, <1>3, <1>4, <1>5 DEF TypeOK

\* The coroutine step Finish keeps the types.
LEMMA Type_Finish ==
  ASSUME TypeOK, NEW i \in ScanIds, Finish(i)
  PROVE  TypeOK'
<1>1. HistoryTypeOK'
  BY LocalsFacts DEF TypeOK, HistoryTypeOK, Finish, finish_scan, ScanFinish,
     Row, ScanStatus, FinalStatuses, Locals
<1>2. FieldsTypeOK'
  BY DEF TypeOK, FieldsTypeOK, Finish, fields
<1>3. ViewTypeOK'
  BY DEF TypeOK, ViewTypeOK, Finish
<1>4. TaskTypeOK'
  BY GotoType DEF TypeOK, TaskTypeOK, Finish, PCs, Suspended, Busy
<1>5. EnvTypeOK'
  BY DEF TypeOK, EnvTypeOK, Finish, env
<1> QED
  BY <1>1, <1>2, <1>3, <1>4, <1>5 DEF TypeOK

\* The coroutine step FinishRaises keeps the types.
LEMMA Type_FinishRaises ==
  ASSUME TypeOK, NEW i \in ScanIds, FinishRaises(i)
  PROVE  TypeOK'
<1>1. HistoryTypeOK'
  BY DEF TypeOK, HistoryTypeOK, FinishRaises, history
<1>2. FieldsTypeOK'
  BY DEF TypeOK, FieldsTypeOK, FinishRaises, fields
<1>3. ViewTypeOK'
  BY DEF TypeOK, ViewTypeOK, FinishRaises
<1>4. TaskTypeOK'
  BY GotoType, LocalsType DEF TypeOK, TaskTypeOK, FinishRaises, PCs,
     Suspended, Busy, Locals, FinalStatuses, FreshLocals
<1>5. EnvTypeOK'
  BY DEF TypeOK, EnvTypeOK, FinishRaises, Fault
<1> QED
  BY <1>1, <1>2, <1>3, <1>4, <1>5 DEF TypeOK

\* The coroutine step Settle keeps the types.
LEMMA Type_Settle ==
  ASSUME TypeOK, NEW i \in ScanIds, Settle(i)
  PROVE  TypeOK'
<1>1. HistoryTypeOK'
  BY DEF TypeOK, HistoryTypeOK, Settle, history
<1>2. FieldsTypeOK'
  BY DEF TypeOK, FieldsTypeOK, Settle, Release, ScanState
<1>3. ViewTypeOK'
  BY LocalsFacts DEF TypeOK, ViewTypeOK, Settle, publish, EventEnvelope,
     PublishedTypes, ProgressAt, ScanProgress, ScanState, ScanStage
<1>4. TaskTypeOK'
  BY GotoType, LocalsType DEF TypeOK, TaskTypeOK, Settle, PCs, Suspended,
     Busy, Locals, FinalStatuses, FreshLocals
<1>5. EnvTypeOK'
  BY DEF TypeOK, EnvTypeOK, Settle, env
<1> QED
  BY <1>1, <1>2, <1>3, <1>4, <1>5 DEF TypeOK

\* The coroutine step Raise keeps the types.
LEMMA Type_Raise ==
  ASSUME TypeOK, NEW i \in ScanIds, Raise(i)
  PROVE  TypeOK'
<1>1. HistoryTypeOK'
  BY DEF TypeOK, HistoryTypeOK, Raise, history
<1>2. FieldsTypeOK'
  BY DEF TypeOK, FieldsTypeOK, Raise, fields
<1>3. ViewTypeOK'
  BY DEF TypeOK, ViewTypeOK, Raise
<1>4. TaskTypeOK'
  BY GotoType DEF TypeOK, TaskTypeOK, Raise, PCs, Suspended, Busy
<1>5. EnvTypeOK'
  BY DEF TypeOK, EnvTypeOK, Raise, Fault
<1> QED
  BY <1>1, <1>2, <1>3, <1>4, <1>5 DEF TypeOK

\* The coroutine step CountRaises keeps the types.
LEMMA Type_CountRaises ==
  ASSUME TypeOK, NEW i \in ScanIds, CountRaises(i)
  PROVE  TypeOK'
<1>1. HistoryTypeOK'
  BY DEF TypeOK, HistoryTypeOK, CountRaises, history
<1>2. FieldsTypeOK'
  BY DEF TypeOK, FieldsTypeOK, CountRaises, fields
<1>3. ViewTypeOK'
  BY DEF TypeOK, ViewTypeOK, CountRaises
<1>4. TaskTypeOK'
  BY GotoType, LocalsType, LocalsFacts DEF TypeOK, TaskTypeOK, CountRaises,
     PCs, Suspended, Busy, Locals, FinalStatuses
<1>5. EnvTypeOK'
  BY DEF TypeOK, EnvTypeOK, CountRaises, Fault
<1> QED
  BY <1>1, <1>2, <1>3, <1>4, <1>5 DEF TypeOK

\* The process event Interrupt keeps the types.
LEMMA Type_Interrupt ==
  ASSUME TypeOK, Interrupt
  PROVE  TypeOK'
<1>1. HistoryTypeOK'
  BY DEF TypeOK, HistoryTypeOK, Interrupt, history
<1>2. FieldsTypeOK'
  BY DEF TypeOK, FieldsTypeOK, Interrupt, fields
<1>3. ViewTypeOK'
  BY DEF TypeOK, ViewTypeOK, Interrupt
<1>4. TaskTypeOK'
  BY DEF TypeOK, TaskTypeOK, Interrupt, Stopped, PCs, Suspended, Busy
<1>5. EnvTypeOK'
  BY DEF TypeOK, EnvTypeOK, Interrupt
<1> QED
  BY <1>1, <1>2, <1>3, <1>4, <1>5 DEF TypeOK

\* The process event Restart keeps the types.
LEMMA Type_Restart ==
  ASSUME TypeOK, Restart
  PROVE  TypeOK'
<1>1. HistoryTypeOK'
  BY DEF TypeOK, HistoryTypeOK, Restart, history
<1>2. FieldsTypeOK'
  BY DEF TypeOK, FieldsTypeOK, Restart, FreshController, ScanState
<1>3. ViewTypeOK'
  BY DEF TypeOK, ViewTypeOK, Restart, FreshController, NoProgress, NoEvent,
     ProgressAt, ScanProgress, ScanState, EventEnvelope
<1>4. TaskTypeOK'
  BY DEF TypeOK, TaskTypeOK, Restart
<1>5. EnvTypeOK'
  BY DEF TypeOK, EnvTypeOK, Restart, FreshController
<1> QED
  BY <1>1, <1>2, <1>3, <1>4, <1>5 DEF TypeOK

\* The process event Crash keeps the types.
LEMMA Type_Crash ==
  ASSUME TypeOK, Crash
  PROVE  TypeOK'
<1>1. HistoryTypeOK'
  BY DEF TypeOK, HistoryTypeOK, Crash, history
<1>2. FieldsTypeOK'
  BY DEF TypeOK, FieldsTypeOK, Crash, FreshController, ScanState
<1>3. ViewTypeOK'
  BY DEF TypeOK, ViewTypeOK, Crash, FreshController, NoProgress, NoEvent,
     ProgressAt, ScanProgress, ScanState, EventEnvelope
<1>4. TaskTypeOK'
  BY DEF TypeOK, TaskTypeOK, Crash, Locals, FinalStatuses, FreshLocals, PCs,
     Live
<1>5. EnvTypeOK'
  <2>1. stopping' \in BOOLEAN
    BY DEF Crash
  <2>2. faults' \in Nat /\ restarts' \in Nat
    BY DEF TypeOK, EnvTypeOK, Crash
  <2> QED
    BY <2>1, <2>2 DEF EnvTypeOK
<1> QED
  BY <1>1, <1>2, <1>3, <1>4, <1>5 DEF TypeOK

\* The initial state has the types.
LEMMA TypeInit == Init => TypeOK
<1> SUFFICES ASSUME Init PROVE TypeOK
  OBVIOUS
<1>1. HistoryTypeOK
  BY DEF Init, EmptyHistory, HistoryTypeOK, NoRow, Row, ScanStatus, EventTypes
<1>2. FieldsTypeOK
  BY DEF Init, FieldsTypeOK, ScanState
<1>3. ViewTypeOK
  BY DEF Init, ViewTypeOK, NoProgress, ProgressAt, NoEvent, ScanProgress, ScanState,
         EventEnvelope, EmptyDir, ReportDir
<1>4. TaskTypeOK
  BY DEF Init, TaskTypeOK, PCs, FreshLocals, Locals, FinalStatuses
<1>5. EnvTypeOK
  BY DEF Init, EnvTypeOK
<1> QED
  BY <1>1, <1>2, <1>3, <1>4, <1>5 DEF TypeOK

\* Every step keeps the types.
LEMMA TypeStep == TypeOK /\ [Next]_vars => TypeOK'
<1> SUFFICES ASSUME TypeOK, [Next]_vars PROVE TypeOK'
  OBVIOUS
<1>1. ASSUME Request PROVE TypeOK'
  BY <1>1, Type_internal_drive_event, Type_start_scan, Type_start_scan_raises,
     Type_cancel_scan, Type_handle_threat_action DEF Request
<1>2. ASSUME NEW i \in ScanIds, EnginesStep(i) PROVE TypeOK'
  BY <1>2, Type_ClamAnswer, Type_ClamTimeout, Type_YaraAnswer,
     Type_YaraTimeout, Type_YaraKilled DEF EnginesStep
<1>3. ASSUME NEW i \in ScanIds, ScanStep(i) PROVE TypeOK'
  BY <1>3, Type_Begin, Type_Exhausted, Type_NextCancelled, Type_NextSkipped,
     Type_NextFile, Type_SkipTimedOut, Type_Hash, Type_Detect, Type_Alert,
     Type_ResumeContinue, Type_ResumeDetails, Type_ResumeStop, Type_StartYara,
     Type_SkipYara, Type_NextHit, Type_Count, Type_WriteTxt, Type_WriteHtml,
     Type_LogSkipped, Type_Except, Type_Finish, Type_FinishRaises,
     Type_Settle, Type_Raise, Type_CountRaises DEF ScanStep
<1>4. CASE UNCHANGED vars
  BY <1>4 DEF vars, fields, history, env, TypeOK, HistoryTypeOK, FieldsTypeOK,
              ViewTypeOK, TaskTypeOK, EnvTypeOK
<1> QED
  BY <1>1, <1>2, <1>3, <1>4, Type_Interrupt, Type_Restart, Type_Crash DEF Next

\* Every variable of the engine keeps its type, in every behaviour: no
\* handler, no step of _run_scan and no failure leaves a field, a row or a
\* report that the code could not read.
THEOREM TypeCorrect == Spec => []TypeOK
BY TypeInit, TypeStep, PTL DEF Spec
===============================================================================
