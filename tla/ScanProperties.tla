---------------------------- MODULE ScanProperties ----------------------------
(***************************************************************************)
(* What ScanController should guarantee: the properties that hold, and,    *)
(* after them, statements of the requirements that its runs refute.        *)
(***************************************************************************)
EXTENDS ScanController

-------------------------------------------------------------------------------
(***************************************************************************)
(* Safety.                                                                 *)
(***************************************************************************)

\* At most one scan coroutine is alive, and every field that names a scan
\* names that one: start_scan refuses a second scan for as long as the task
\* of the first has not ended, whatever state, drive events, refused or
\* failing requests, and restarts have done to the fields meanwhile.
SingleScan ==
  \A i \in ScanIds : Live(i) => /\ scanTask = i
                                /\ activeScan = i
                                /\ progress.scan = i

\* Whenever a reader on the loop can look, what the engine says about a live
\* scan is what its coroutine is doing.  GET /scan/progress says
\* "threat_prompt" exactly while the coroutine waits at the prompt, however
\* it was resumed and whatever it did since; and _state says "scanning" for
\* as long as the coroutine does not wait for an answer, so that set_drive
\* leaves the drive of a working scan alone.
StateMatchesTask ==
  LoopFree =>
    \A i \in ScanIds : Live(i) =>
      /\ progress.state = "threat_prompt" <=> pc[i] = "promptWait"
      /\ pc[i] # "promptWait" => state = "scanning"

\* Each candidate the enumerator has yielded is accounted for when the next
\* one is asked for: counted as scanned, counted as too large, or skipped on
\* a timeout with an event in the history that says so.  No path through the
\* two engines and their prompts loses a file or counts it twice.
FilesAccounted ==
  \A i \in ScanIds : pc[i] = "next" =>
    loc[i].yielded =
      loc[i].files + loc[i].skipped + events[i]["file_skipped"]

\* When a row names report files, both are on disk and say the same; and
\* unless the scan failed, they give the status, the figures and the number
\* of detections that the history holds, although they were written before
\* the row was closed.
ReportBacked ==
  \A i \in ScanIds : Closed(i) /\ scans[i].report =>
    /\ reports[i].txt # None
    /\ reports[i].html = reports[i].txt
    /\ scans[i].status # "failed" =>
         reports[i].txt = [status |-> scans[i].status, files |-> scans[i].files,
                           threats |-> scans[i].threats, found |-> detections[i]]

\* A client told that a scan is over finds its row closed: scan_completed is
\* published after finish_scan, also when the scan failed or was interrupted.
CompletionAnnounced ==
  latest.type = "scan_completed" => Closed(latest.scan)

\* While nothing has raised and the process has not been stopped, a row that
\* says "running" belongs to a live scan: every way out of _run_scan closes
\* it.  And a controller that says it is scanning or prompting, when no scan
\* is alive, has a cause and names it: something has raised, or the process
\* is stopping, and the active scan is one whose row could not be opened or
\* closed.  No other fault, at any line, keeps the state.
NothingLeftOpen ==
  /\ faults = 0 /\ restarts = 0 =>
       \A i \in ScanIds : scans[i].status = "running" => Live(i)
  /\ LoopFree /\ state \in {"scanning", "threat_prompt"} =>
       \/ \E i \in ScanIds : Live(i)
       \/ /\ faults > 0 \/ stopping
          /\ activeScan # None /\ ~Closed(activeScan)

\* The two tables that tell of a threat are written by two commits, with a
\* prompt or an error behind them: the history never announces a threat that
\* it has no detection for, it lacks at most the announcement of the last
\* one, and it lacks none while the operator is asked, nor in a scan that
\* was closed without having failed, by SIGINT too.
ThreatsAnnounced ==
  \A i \in ScanIds :
    LET announced == events[i]["threat_detected"]
    IN  /\ announced <= detections[i] /\ detections[i] <= announced + 1
        /\ pc[i] = "promptWait" => announced = detections[i]
        /\ Closed(i) /\ scans[i].status # "failed" => announced = detections[i]

\* What GET /scan/progress counts, although _set_progress is called with
\* figures in one place only.  While a scan goes on, the files are those
\* scanned so far and the threats never more than are on record.  (They lag
\* behind: the threat a prompt asks about is not among them, although FR-040
\* has all displays updated at once, SRS.md:243.)  When it says complete, the
\* row of that scan is closed with the same figures.
FiguresShown ==
  /\ LoopFree =>
       \A i \in ScanIds : Live(i) =>
         /\ progress.files = loc[i].files
         /\ progress.threats <= detections[i]
  /\ progress.stage = "complete" =>
       /\ Closed(progress.scan)
       /\ progress.files = scans[progress.scan].files
       /\ progress.threats = scans[progress.scan].threats

\* A row is closed with the status its scan has earned: "failed" only if
\* something raised, and always after an error that was recorded, or that was
\* announced but could not be recorded, the handler of errors having raised in
\* turn; and a scan is on its way to "cancelled" only while its cancellation
\* holds.
OutcomeJustified ==
  \A i \in ScanIds :
    /\ scans[i].status = "failed" => faults > 0
    /\ Closed(i) /\ scans[i].status # "failed" =>
         events[i]["scan_error"] = 0 /\ latest # [type |-> "scan_error", scan |-> i]
    /\ Live(i) /\ loc[i].status = "cancelled" => cancelRequested

\* A cancellation is not forgotten while the scan it was meant for is alive:
\* no later request resets the flag before the coroutine has read it.  Nor does
\* it outlive that scan: one that comes too late, or between two scans, does
\* not cancel the next.
CancelNotForgotten ==
  [][\A i \in ScanIds :
       /\ cancelRequested /\ Live(i) /\ Live(i)' => cancelRequested'
       /\ ~Live(i) /\ Live(i)' => ~cancelRequested']_vars

\* A scan does not end unseen.  Whatever raises in it, in the handling of its
\* errors too, and however it is stopped, its row is closed, its end announced
\* and the controller free in the step that ends its coroutine.  Exempt are an
\* exception of finish_scan itself, an interrupt before the first step of the
\* coroutine, and a crash.
EndAnnounced ==
  [][\A i \in ScanIds : Live(i) /\ ~Live(i)' =>
       \/ /\ Closed(i)'
          /\ latest' = [type |-> "scan_completed", scan |-> i]
          /\ activeScan' = None
       \/ FinishRaises(i)
       \/ Interrupt /\ pc[i] = "created"
       \/ Crash]_vars

\* An answer that has been accepted at the prompt is not dropped: as long as
\* the coroutine has not run since, it stays there to be read, and it is an
\* answer (a later one may replace it).
AnswerKept ==
  [][\A i \in ScanIds :
       /\ pc[i] = "promptWait" /\ actionEvent
       /\ pc'[i] = "promptWait" /\ ~ResumeDetails(i)
       => actionEvent' /\ threatAction' # None]_vars

\* The figures of a scan do not go back, neither those that a client is shown
\* nor those of its row: set_progress hands on what it is not given, the
\* row follows every ten files, and `finally` and the last progress write
\* figures of their own.
FiguresGrow ==
  [][/\ progress.scan # None /\ progress'.scan = progress.scan =>
          progress.files <= progress'.files /\ progress.threats <= progress'.threats
     /\ \A i \in ScanIds :
          scans[i].files <= scans'[i].files /\ scans[i].threats <= scans'[i].threats]_vars

\* The drive of a scan is not taken from under it: between two steps of a
\* coroutine that works, no drive event changes the drive, although the guard
\* of set_drive looks at _state and never at the task.
DriveHeld ==
  [][\A i \in ScanIds :
       Live(i) /\ Live(i)' /\ pc[i] # "promptWait" => drive' = drive]_vars

\* A scan that has ended with its row closed has ended for good: no later
\* scan, request or restart touches its row, its detections, its events or its
\* reports.  (What became of a row that was left open is another matter:
\* IncompleteRecorded.)
EndedStays ==
  [][\A i \in ScanIds : pc[i] = "done" /\ Closed(i) =>
       /\ pc'[i] = "done"
       /\ scans'[i] = scans[i] /\ detections'[i] = detections[i]
       /\ events'[i] = events[i] /\ reports'[i] = reports[i]]_vars

\* The history is a ledger: rows are opened once, closed once and then never
\* change, detections are added to open rows only, and totals are right.
Ledger == INSTANCE ScanLedger WITH
            status <- [i \in ScanIds |-> scans[i].status],
            found  <- detections,
            total  <- [i \in ScanIds |-> scans[i].threats]

LedgerSpec == Ledger!Spec

-------------------------------------------------------------------------------
(***************************************************************************)
(* Liveness, under the fairness of the event loop and of the timeouts.     *)
(***************************************************************************)

AwaitsOperator(i) == pc[i] = "promptWait" /\ ~actionEvent

\* A scan always comes to its end, or to a prompt that nobody has answered:
\* it waits for nothing else, and an answer always gets it going again.
ScanAdvances == \A i \in ScanIds : Live(i) ~> (~Live(i) \/ AwaitsOperator(i))

\* The row of a scan does not stay open once the scan is on its way, but for
\* such a prompt, an operation that raised, or a process that was stopped.
RowClosed ==
  \A i \in ScanIds :
    scans[i].status = "running" ~>
      (Closed(i) \/ AwaitsOperator(i) \/ faults + restarts > 0)

-------------------------------------------------------------------------------
(***************************************************************************)
(* Requirements the code does not meet; each has a run that refutes it.    *)
(***************************************************************************)

\* SRS.md:683-685, LLD.md:599-603: at a prompt the operator can continue,
\* stop or ask for details.  A coroutine waiting for an answer can get one.
PromptAnswerable ==
  \A i \in ScanIds : AwaitsOperator(i) /\ LoopFree => state = "threat_prompt"

\* SRS.md:211 (FR-015): a cancellation completes within five seconds.  A scan
\* that has been cancelled does not wait for the operator, who may never come.
CancelCompletes ==
  \A i \in ScanIds : cancelRequested => ~AwaitsOperator(i)

\* SRS.md:254 (FR-050): a scan that completed or was cancelled has its reports.
CompletedHasReport ==
  \A i \in ScanIds :
    scans[i].status \in {"completed", "cancelled"} => scans[i].report

\* SRS.md:320 (NFR-011): an incomplete scan is recorded as interrupted.  The
\* row of a scan that has come to its end, in a crash too, does not go on
\* saying that the scan is running.
IncompleteRecorded ==
  \A i \in ScanIds :
    scans[i].status = "running" /\ pc[i] = "done" ~> scans[i].status # "running"
===============================================================================
