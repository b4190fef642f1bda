----------------------------- MODULE EngineOutput -----------------------------
(***************************************************************************)
(* What the adapters make of a scanner's output: _parse_signature of       *)
(* engine/clamav_adapter.py and the loop over lines of                     *)
(* engine/yara_adapter.py, applied to what the programs print.             *)
(*                                                                         *)
(* Of a file the engines look at four things: whether ClamAV knows it      *)
(* (clam), how many YARA rules match (rules) and how many strings each of  *)
(* them lists (strings), and whether its path contains " FOUND" (odd).     *)
(***************************************************************************)
EXTENDS Naturals

(***************************************************************************)
(* ClamAV prints one line for the file, its path and a remark, or one      *)
(* about its failure, which names the file as well; it exits with 0, 1     *)
(* (found) or 2 (failed).                                                  *)
(***************************************************************************)
ClamRun(exit, remark, file) == [exit |-> exit, remark |-> remark, odd |-> file.odd]

ClamRuns(file) ==
  { IF file.clam THEN ClamRun(1, "found", file) ELSE ClamRun(0, "ok", file),
    ClamRun(2, "error", file) }

\* Mutant: the fallback is not restricted to lines with FOUND.
AnyLineIsSignature(run) == run.remark # "ok" \/ run.odd

\* _parse_signature finds one: the line ends in a signature and FOUND, or, in
\* the fallback, " FOUND" is anywhere in it; what follows the first colon,
\* be it "OK", is then the signature.
HasSignature(run) == run.remark = "found" \/ run.odd

\* `clean`: the exit code goes into `error`, which nobody reads.
ClamClean(run) == ~HasSignature(run)

(***************************************************************************)
(* yara -s prints a line for each rule that matches and one for each of    *)
(* its strings, with warnings on stderr; it exits with 0, or with 1 and an *)
(* error line.  A signal shows as another exit code.                       *)
(***************************************************************************)
YaraRun(exit, lines) == [exit |-> exit, lines |-> lines]

MatchLines(file) == file.rules * (1 + file.strings)

YaraRuns(file) ==
  { YaraRun(0, MatchLines(file)), YaraRun(0, MatchLines(file) + 1),
    YaraRun(1, 1), YaraRun(137, 0) }

\* _MATCH_RE takes any line of two words, and stderr is read like stdout.
\* Another exit code than 0 and 1 makes one clean result of everything.
YaraMatches(run) == IF run.exit \in {0, 1} THEN run.lines ELSE 0
===============================================================================
