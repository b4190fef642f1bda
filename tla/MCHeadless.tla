------------------------------ MODULE MCHeadless ------------------------------
(***************************************************************************)
(* HeadlessScan with small trees.  Size 1 passes every limit, size 2 is    *)
(* above that of YARA, size 3 above that of the scan.                      *)
(***************************************************************************)
EXTENDS HeadlessScan

\* A text file that no engine knows; the others differ from it in a field or two.
Plain(path) ==
  [kind |-> "file", path |-> path, listed |-> TRUE, dated |-> TRUE, size |-> 1,
   clam |-> FALSE, rules |-> 0, strings |-> 0, odd |-> FALSE]

Directory(path) == [Plain(path) EXCEPT !.kind = "dir"]
Link(path)      == [Plain(path) EXCEPT !.kind = "link"]
Special(path)   == [Plain(path) EXCEPT !.kind = "special"]
Virus(path)     == [Plain(path) EXCEPT !.clam = TRUE]
Unlisted(path)  == [Virus(path) EXCEPT !.listed = FALSE]
Rule(path)      == [Plain(path) EXCEPT !.rules = 1, !.strings = 1]
Medium(path)    == [Rule(path) EXCEPT !.size = 2]
Large(path)     == [Virus(path) EXCEPT !.size = 3]
OddName(path)   == [Plain(path) EXCEPT !.odd = TRUE]
Undated(path)   == [Plain(path) EXCEPT !.dated = FALSE]

SmallTrees ==
  { <<Directory(<<>>), Virus(<<1>>), Rule(<<>>)>>,
    <<Directory(<<>>), Directory(<<>>), Unlisted(<<1>>), Virus(<<2>>)>>,
    <<Directory(<<>>), Directory(<<1>>), Virus(<<1, 2>>), Plain(<<>>)>>,
    <<Directory(<<>>), Link(<<1>>), Special(<<>>), Medium(<<1>>)>>,
    <<Virus(<<>>), Large(<<>>), OddName(<<>>)>>,
    <<Directory(<<>>), Undated(<<1>>), Virus(<<>>)>> }
===============================================================================
