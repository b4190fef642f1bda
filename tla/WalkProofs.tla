------------------------------- MODULE WalkProofs -------------------------------
(***************************************************************************)
(* The walk of FileWalk yields what it should, for every tree, any order   *)
(* of the entries and any number of read errors.                           *)
(*                                                                         *)
(* Every entry of the tree is still ahead of the walk (it is pending, or   *)
(* below a pending directory or one on the stack), or hidden by an error,  *)
(* or has been yielded if it is to be scanned.  An entry is ahead for one  *)
(* reason only, so what is taken off the frontier is ahead no longer.      *)
(***************************************************************************)
EXTENDS FileWalk, SequenceTheorems, TLAPS

-------------------------------------------------------------------------------
(***************************************************************************)
(* Trees.                                                                  *)
(***************************************************************************)

\* An entry with the directories above it, and an entry that lies below d.
Line(n) == {n} \cup Above(n)
Below(n, d) == d = 0 \/ d \in Above(n)

\* The numbers of the directories on a path are entries, and directories.
LEMMA AboveType ==
  ASSUME disk \in Trees, NEW n \in Nodes
  PROVE  /\ Above(n) \subseteq Nodes
         /\ \A m \in Above(n) : disk[m].kind = "dir"
         /\ 0 \notin Nodes
BY TreeAssumption DEF Above, Nodes

\* The path of the directory at place k of a path is what comes before it.
LEMMA PathOfAbove ==
  ASSUME disk \in Trees, NEW n \in Nodes, NEW k \in DOMAIN disk[n].path
  PROVE  LET m == disk[n].path[k]
         IN  /\ m \in Nodes
             /\ disk[m].path = SubSeq(disk[n].path, 1, k - 1)
             /\ k \in 1..Len(disk[n].path)
             /\ DOMAIN disk[m].path = 1..(k - 1)
             /\ \A j \in 1..(k - 1) : disk[m].path[j] = disk[n].path[j]
<1> DEFINE m == disk[n].path[k]
<1>1. disk[n].path \in Seq(Nodes)
  BY TreeAssumption DEF Nodes
<1>2. disk[m].path = SubSeq(disk[n].path, 1, k - 1)
  BY TreeAssumption DEF Nodes
<1>3. m \in Nodes /\ k \in 1..Len(disk[n].path)
  BY <1>1
<1>4. Len(disk[m].path) = k - 1 /\ DOMAIN disk[m].path = 1..(k - 1)
  BY <1>1, <1>2, <1>3
<1>5. \A j \in 1..(k - 1) : disk[m].path[j] = disk[n].path[j]
  BY <1>1, <1>2, <1>3
<1> QED
  BY <1>2, <1>3, <1>4, <1>5

\* No entry is above itself, and what is above a directory is above what it holds.
LEMMA AboveOrder ==
  ASSUME disk \in Trees, NEW n \in Nodes
  PROVE  /\ n \notin Above(n)
         /\ \A m \in Above(n) : Above(m) \subseteq Above(n)
<1>1. n \notin Above(n)
  <2> SUFFICES ASSUME NEW k \in DOMAIN disk[n].path, disk[n].path[k] = n PROVE FALSE
    BY DEF Above
  <2> QED
    BY PathOfAbove
<1>2. ASSUME NEW m \in Above(n), NEW a \in Above(m) PROVE a \in Above(n)
  <2>1. PICK k \in DOMAIN disk[n].path : m = disk[n].path[k]
    BY DEF Above
  <2>2. PICK j \in DOMAIN disk[m].path : a = disk[m].path[j]
    BY DEF Above
  <2>3. j \in 1..(k - 1) /\ k \in 1..Len(disk[n].path) /\ a = disk[n].path[j]
    BY <2>1, <2>2, PathOfAbove
  <2>4. disk[n].path \in Seq(Nodes)
    BY TreeAssumption DEF Nodes
  <2>5. j \in DOMAIN disk[n].path
    BY <2>3, <2>4
  <2> QED
    BY <2>3, <2>5 DEF Above
<1> QED
  BY <1>1, <1>2

\* Of two directories above an entry, one is above the other.
LEMMA AboveChain ==
  ASSUME disk \in Trees, NEW n \in Nodes, NEW a \in Above(n), NEW b \in Above(n), a # b
  PROVE  a \in Above(b) \/ b \in Above(a)
<1>1. PICK j \in DOMAIN disk[n].path : a = disk[n].path[j]
  BY DEF Above
<1>2. PICK k \in DOMAIN disk[n].path : b = disk[n].path[k]
  BY DEF Above
<1>3. j \in 1..Len(disk[n].path) /\ k \in 1..Len(disk[n].path)
  BY <1>1, <1>2, PathOfAbove
<1>4. CASE j < k
  <2>1. j \in 1..(k - 1)
    BY <1>3, <1>4
  <2>2. j \in DOMAIN disk[b].path /\ disk[b].path[j] = a
    BY <1>1, <1>2, <2>1, PathOfAbove
  <2> QED
    BY <2>2 DEF Above
<1>5. CASE k < j
  <2>1. k \in 1..(j - 1)
    BY <1>3, <1>5
  <2>2. k \in DOMAIN disk[a].path /\ disk[a].path[k] = b
    BY <1>1, <1>2, <2>1, PathOfAbove
  <2> QED
    BY <2>2 DEF Above
<1> QED
  BY <1>1, <1>2, <1>3, <1>4, <1>5

\* What is above a child of d is d and what is above d.
LEMMA AboveChild ==
  ASSUME disk \in Trees, NEW d \in {0} \cup Nodes, NEW m \in Children(d)
  PROVE  /\ m \in Nodes
         /\ Below(m, d)
         /\ \A a \in Above(m) : a = d \/ (d # 0 /\ a \in Above(d))
<1>1. m \in Nodes /\ disk[m].path = PathInto(d)
  BY DEF Children
<1>2. CASE d = 0
  <2>1. Above(m) = {}
    BY <1>1, <1>2 DEF PathInto, Above
  <2> QED
    BY <1>1, <1>2, <2>1 DEF Below
<1>3. CASE d # 0
  <2>1. disk[d].path \in Seq(Nodes) /\ d \in Nodes
    BY <1>3, TreeAssumption DEF Nodes
  <2>2. disk[m].path = Append(disk[d].path, d)
    BY <1>1, <1>3 DEF PathInto
  <2> DEFINE len == Len(disk[d].path)
  <2>3. /\ DOMAIN disk[m].path = 1..(len + 1)
        /\ disk[m].path[len + 1] = d
        /\ \A j \in 1..len : disk[m].path[j] = disk[d].path[j]
        /\ DOMAIN disk[d].path = 1..len /\ len \in Nat
    BY <2>1, <2>2
  <2>4. d \in Above(m)
    BY <2>3 DEF Above
  <2>5. ASSUME NEW a \in Above(m), a # d PROVE a \in Above(d)
    <3>1. PICK j \in 1..(len + 1) : a = disk[m].path[j]
      BY <2>3 DEF Above
    <3>2. j \in 1..len
      BY <2>3, <2>5, <3>1
    <3> QED
      BY <2>3, <3>1, <3>2 DEF Above
  <2> QED
    BY <1>1, <1>3, <2>4, <2>5 DEF Below
<1> QED
  BY <1>2, <1>3

\* An entry below d lies in a child of d, or is one.
LEMMA ChildOnLine ==
  ASSUME disk \in Trees, NEW n \in Nodes, NEW d \in {0} \cup Nodes, Below(n, d)
  PROVE  \E m \in Line(n) : m \in Children(d)
<1>1. disk[n].path \in Seq(Nodes)
  BY TreeAssumption DEF Nodes
<1> DEFINE path == disk[n].path
<1>2. PICK k \in 0..Len(path) : PathInto(d) = SubSeq(path, 1, k)
  <2>1. CASE d = 0
    <3>1. SubSeq(path, 1, 0) = <<>>
      BY <1>1
    <3> QED
      BY <1>1, <2>1, <3>1 DEF PathInto
  <2>2. CASE d # 0
    <3>1. PICK k \in DOMAIN path : d = path[k]
      BY <2>2 DEF Below, Above
    <3>2. k \in 1..Len(path) /\ disk[d].path = SubSeq(path, 1, k - 1)
      BY <3>1, PathOfAbove
    <3>3. disk[d].path \in Seq(Nodes) /\ d \in Nodes
      BY <2>2, TreeAssumption DEF Nodes
    <3>4. Append(disk[d].path, d) = disk[d].path \o <<d>>
      BY <3>3, AppendIsConcat
    <3>5. SubSeq(path, 1, k) = SubSeq(path, 1, k - 1) \o <<path[k]>>
      <4>1. 1 \in 1..Len(path)
        BY <1>1, <3>2
      <4>2. path \in Seq(Nodes)
        BY <1>1
      <4> HIDE DEF path
      <4> QED
        BY <3>2, <4>1, <4>2, SubSeqRecursiveSecond, Zenon
    <3>6. PathInto(d) = SubSeq(path, 1, k)
      BY <2>2, <3>1, <3>2, <3>4, <3>5 DEF PathInto
    <3>7. k \in 0..Len(path)
      BY <1>1, <3>2
    <3> QED
      BY <3>6, <3>7
  <2> QED
    BY <2>1, <2>2
<1>3. CASE k = Len(path)
  <2>1. path = PathInto(d)
    BY <1>1, <1>2, <1>3
  <2> QED
    BY <2>1 DEF Children, Line
<1>4. CASE k < Len(path)
  <2>1. k + 1 \in DOMAIN path /\ (k + 1) - 1 = k
    BY <1>1, <1>2, <1>4
  <2>2. path[k + 1] \in Nodes /\ disk[path[k + 1]].path = SubSeq(path, 1, k)
    BY <2>1, PathOfAbove
  <2>3. path[k + 1] \in Above(n)
    BY <2>1 DEF Above
  <2> QED
    BY <1>2, <2>2, <2>3 DEF Children, Line
<1> QED
  BY <1>1, <1>2, <1>3, <1>4

-------------------------------------------------------------------------------
(***************************************************************************)
(* The invariant.                                                          *)
(***************************************************************************)

Pends(n)   == \E m \in pending : m \in Line(n)
OnStack(n) == \E k \in DOMAIN stack : Below(n, stack[k])
Ahead(n)   == Pends(n) \/ OnStack(n)
Yielded(n) == \E k \in DOMAIN yielded : yielded[k] = n

OneReason ==
  \A n \in Nodes :
    /\ \A a, b \in pending : a \in Line(n) /\ b \in Line(n) => a = b
    /\ Pends(n) => ~OnStack(n)
    /\ \A j, k \in DOMAIN stack : Below(n, stack[j]) /\ Below(n, stack[k]) => j = k

Placed == \A n \in Nodes : ShouldScan(n) => Yielded(n) \/ Ahead(n) \/ Hidden(n)
AheadIsSeen == \A n \in Nodes : Ahead(n) => ~Hidden(n)
YieldedIsPast ==
  \A n \in Nodes : Yielded(n) => ShouldScan(n) /\ ~Ahead(n) /\ ~Hidden(n)
YieldedOnce == \A a, b \in DOMAIN yielded : a # b => yielded[a] # yielded[b]
FrontierAtEnd ==
  /\ walk \in {"open", "over"} => pending = {}
  /\ walk = "over" => stack = <<>>

WalkInv ==
  /\ WalkTypeOK /\ OneReason /\ Placed /\ AheadIsSeen
  /\ YieldedIsPast /\ YieldedOnce /\ FrontierAtEnd

-------------------------------------------------------------------------------
(***************************************************************************)
(* What each way to take something off the frontier, or to put something   *)
(* on it, does to what is ahead.                                           *)
(***************************************************************************)

\* A child of d is on the line of no entry but those below d.
LEMMA ChildIsBelow ==
  ASSUME disk \in Trees, NEW n \in Nodes, NEW d \in {0} \cup Nodes,
         NEW m \in Children(d), m \in Line(n)
  PROVE  Below(n, d)
<1>1. m \in Nodes /\ Below(m, d)
  BY AboveChild
<1>2. Above(m) \subseteq Above(n)
  BY AboveOrder DEF Line
<1> QED
  BY <1>1, <1>2 DEF Below

\* Of the children of d, one at most is on the line of an entry.
LEMMA OneChildOnLine ==
  ASSUME disk \in Trees, NEW n \in Nodes, NEW d \in {0} \cup Nodes,
         NEW a \in Children(d), NEW b \in Children(d), a \in Line(n), b \in Line(n)
  PROVE  a = b
<1> SUFFICES ASSUME a # b PROVE FALSE
  OBVIOUS
<1>1. a \in Nodes /\ b \in Nodes
  BY AboveChild
<1>2. a \in Above(b) \/ b \in Above(a)
  BY AboveChain DEF Line
<1>3. Above(a) = Above(b)
  BY DEF Children, Above
<1>4. a \notin Above(a) /\ b \notin Above(b)
  BY <1>1, AboveOrder
<1> QED
  BY <1>2, <1>3, <1>4

\* The stack without its first directory.
LEMMA StackTail ==
  ASSUME stack \in Seq({0} \cup Nodes), stack # <<>>
  PROVE  /\ Head(stack) = stack[1] /\ 1 \in DOMAIN stack
         /\ Tail(stack) \in Seq({0} \cup Nodes)
         /\ \A k \in DOMAIN Tail(stack) : /\ k + 1 \in DOMAIN stack
                                          /\ Tail(stack)[k] = stack[k + 1]
                                          /\ k \in Nat \ {0}
         /\ \A k \in DOMAIN stack : /\ k \in Nat
                                    /\ k = 1 \/ (/\ k - 1 \in DOMAIN Tail(stack)
                                                /\ Tail(stack)[k - 1] = stack[k])
OBVIOUS

\* The stack with a directory pushed on it.
LEMMA StackPush ==
  ASSUME stack \in Seq({0} \cup Nodes), NEW d \in Nodes
  PROVE  LET s == <<d>> \o stack
         IN  /\ s \in Seq({0} \cup Nodes)
             /\ s[1] = d /\ 1 \in DOMAIN s
             /\ \A k \in DOMAIN s : /\ k \in Nat
                                    /\ k = 1 \/ (/\ k - 1 \in DOMAIN stack
                                                /\ s[k] = stack[k - 1])
             /\ \A k \in DOMAIN stack : /\ k \in Nat
                                        /\ k + 1 \in DOMAIN s
                                        /\ s[k + 1] = stack[k]
OBVIOUS

\* Pending entries are done with: what lies on their lines is not ahead any more.
LEMMA TakeOff ==
  ASSUME WalkInv, NEW P \in SUBSET pending,
         disk' = disk, stack' = stack, pending' = pending \ P
  PROVE  /\ OneReason'
         /\ \A n \in Nodes : Ahead(n)' <=> Ahead(n) /\ ~ \E m \in P : m \in Line(n)
<1> USE DEF Nodes, Line, Above, Below, Pends, OnStack, Ahead
<1>1. OneReason'
  BY DEF WalkInv, OneReason
<1>2. ASSUME NEW n \in Nodes
      PROVE  Ahead(n)' <=> Ahead(n) /\ ~ \E m \in P : m \in Line(n)
  BY DEF WalkInv, OneReason
<1> QED
  BY <1>1, <1>2

\* The first directory comes off the stack: below it, and nowhere else, the
\* stack has nothing more to say.
LEMMA PopFrontier ==
  ASSUME WalkInv, stack # <<>>, disk' = disk, stack' = Tail(stack), NEW n \in Nodes
  PROVE  /\ OnStack(n) <=> OnStack(n)' \/ Below(n, Head(stack))
         /\ Below(n, Head(stack)) => ~OnStack(n)'
         /\ \A j, k \in DOMAIN stack' :
              Below(n, stack'[j]) /\ Below(n, stack'[k]) => j = k
<1>0. stack \in Seq({0} \cup Nodes)
  BY DEF WalkInv, WalkTypeOK
<1>1. \A x : Below(n, x)' <=> Below(n, x')
  BY DEF Below, Above
<1>2. \A j, k \in DOMAIN stack : Below(n, stack[j]) /\ Below(n, stack[k]) => j = k
  BY DEF WalkInv, OneReason
<1>3. OnStack(n)' <=> \E k \in DOMAIN stack' : Below(n, stack'[k])
  BY DEF OnStack, Below, Above
<1>4. OnStack(n)' => OnStack(n)
  BY <1>0, <1>3, StackTail DEF OnStack
<1>5. Below(n, Head(stack)) => OnStack(n)
  BY <1>0, StackTail DEF OnStack
<1>6. OnStack(n) => OnStack(n)' \/ Below(n, Head(stack))
  BY <1>0, <1>3, StackTail DEF OnStack
<1>7. ASSUME Below(n, Head(stack)), OnStack(n)' PROVE FALSE
  <2>1. PICK k \in DOMAIN stack' : Below(n, stack'[k])
    BY <1>3, <1>7
  <2>2. k + 1 \in DOMAIN stack /\ stack'[k] = stack[k + 1] /\ k \in Nat \ {0}
    BY <1>0, StackTail
  <2>3. 1 = k + 1
    BY <1>0, <1>2, <1>7, <2>1, <2>2, StackTail
  <2> QED
    BY <2>2, <2>3
<1>8. ASSUME NEW j \in DOMAIN stack', NEW k \in DOMAIN stack',
             Below(n, stack'[j]), Below(n, stack'[k])
      PROVE  j = k
  <2>1. /\ j + 1 \in DOMAIN stack /\ stack'[j] = stack[j + 1] /\ j \in Nat
        /\ k + 1 \in DOMAIN stack /\ stack'[k] = stack[k + 1] /\ k \in Nat
    BY <1>0, StackTail
  <2>2. j + 1 = k + 1
    BY <1>2, <1>8, <2>1
  <2> QED
    BY <2>1, <2>2
<1> QED
  BY <1>4, <1>5, <1>6, <1>7, <1>8

\* A directory is opened: its entries are ahead as they were.
LEMMA OpenFrontier ==
  ASSUME WalkInv, stack # <<>>, pending = {},
         disk' = disk, stack' = Tail(stack), pending' = Children(Head(stack))
  PROVE  /\ OneReason'
         /\ \A n \in Nodes : Ahead(n)' <=> Ahead(n)
<1> DEFINE d == Head(stack)
<1>0. disk \in Trees /\ d \in {0} \cup Nodes
  BY StackTail DEF WalkInv, WalkTypeOK
<1>1. ASSUME NEW n \in Nodes PROVE Line(n)' = Line(n)
  BY DEF Line, Above
<1>2. ASSUME NEW n \in Nodes PROVE Pends(n)' <=> Below(n, d)
  <2>1. Pends(n)' <=> \E m \in Children(d) : m \in Line(n)
    BY <1>1 DEF Pends
  <2> QED
    BY <1>0, <2>1, ChildIsBelow, ChildOnLine
<1>3. ASSUME NEW n \in Nodes PROVE ~Pends(n)
  BY DEF Pends
<1>4. OneReason'
  <2> SUFFICES ASSUME NEW n \in Nodes
      PROVE /\ \A a, b \in pending' : a \in Line(n) /\ b \in Line(n) => a = b
            /\ Pends(n)' => ~OnStack(n)'
            /\ \A j, k \in DOMAIN stack' :
                 Below(n, stack'[j]) /\ Below(n, stack'[k]) => j = k
    BY <1>1 DEF OneReason, Nodes, Below, Above
  <2>1. \A a, b \in pending' : a \in Line(n) /\ b \in Line(n) => a = b
    BY <1>0, OneChildOnLine
  <2> QED
    BY <1>2, <2>1, PopFrontier
<1> QED
  BY <1>2, <1>3, <1>4, PopFrontier DEF Ahead

\* A directory is not opened: what is below it is not ahead any more.
LEMMA SkipFrontier ==
  ASSUME WalkInv, stack # <<>>, pending = {},
         disk' = disk, stack' = Tail(stack), pending' = {}
  PROVE  /\ OneReason'
         /\ \A n \in Nodes : Ahead(n)' <=> Ahead(n) /\ ~Below(n, Head(stack))
<1>1. ASSUME NEW n \in Nodes PROVE ~Pends(n) /\ ~Pends(n)'
  BY DEF Pends
<1>2. OneReason'
  <2> SUFFICES ASSUME NEW n \in Nodes
      PROVE \A j, k \in DOMAIN stack' :
              Below(n, stack'[j]) /\ Below(n, stack'[k]) => j = k
    BY <1>1 DEF OneReason, Nodes, Below, Above
  <2> QED
    BY PopFrontier
<1> QED
  BY <1>1, <1>2, PopFrontier DEF Ahead

\* A pending directory goes on the stack: below it everything is ahead as it was.
LEMMA PushFrontier ==
  ASSUME WalkInv, NEW d \in pending,
         disk' = disk, stack' = <<d>> \o stack, pending' = pending \ {d}
  PROVE  /\ OneReason'
         /\ \A n \in Nodes : Ahead(n)' <=> Ahead(n) /\ n # d
<1>0. /\ stack \in Seq({0} \cup Nodes) /\ d \in Nodes /\ d # 0
      /\ disk \in Trees
  BY AboveType DEF WalkInv, WalkTypeOK
<1>1. ASSUME NEW n \in Nodes
      PROVE  /\ Line(n)' = Line(n)
             /\ Below(n, d) <=> d \in Line(n) /\ n # d
             /\ Pends(n)' <=> \E m \in pending : m \in Line(n) /\ m # d
             /\ OnStack(n)' <=> Below(n, d) \/ OnStack(n)
  <2>1. Line(n)' = Line(n) /\ Above(n)' = Above(n)
    BY DEF Line, Above
  <2>2. Below(n, d) <=> d \in Line(n) /\ n # d
    BY <1>0, AboveOrder DEF Below, Line
  <2>3. Pends(n)' <=> \E m \in pending : m \in Line(n) /\ m # d
    BY <2>1 DEF Pends
  <2>4. OnStack(n)' <=> \E k \in DOMAIN stack' : Below(n, stack'[k])
    BY <2>1 DEF OnStack, Below
  <2>5. OnStack(n)' <=> Below(n, d) \/ OnStack(n)
    <3>1. /\ stack'[1] = d /\ 1 \in DOMAIN stack'
          /\ \A k \in DOMAIN stack' :
               k = 1 \/ (k - 1 \in DOMAIN stack /\ stack'[k] = stack[k - 1])
          /\ \A k \in DOMAIN stack : k + 1 \in DOMAIN stack' /\ stack'[k + 1] = stack[k]
      BY <1>0, StackPush
    <3>2. OnStack(n)' => Below(n, d) \/ OnStack(n)
      BY <2>4, <3>1 DEF OnStack
    <3>3. Below(n, d) => OnStack(n)'
      BY <2>4, <3>1
    <3>4. OnStack(n) => OnStack(n)'
      BY <2>4, <3>1 DEF OnStack
    <3> QED
      BY <3>2, <3>3, <3>4
  <2> QED
    BY <2>1, <2>2, <2>3, <2>5
<1>2. OneReason'
  <2> SUFFICES ASSUME NEW n \in Nodes
      PROVE /\ \A a, b \in pending' : a \in Line(n) /\ b \in Line(n) => a = b
            /\ Pends(n)' => ~OnStack(n)'
            /\ \A j, k \in DOMAIN stack' :
                 Below(n, stack'[j]) /\ Below(n, stack'[k]) => j = k
    BY <1>1 DEF OneReason, Nodes, Below, Above
  <2>1. /\ \A a, b \in pending : a \in Line(n) /\ b \in Line(n) => a = b
        /\ Pends(n) => ~OnStack(n)
        /\ \A j, k \in DOMAIN stack : Below(n, stack[j]) /\ Below(n, stack[k]) => j = k
    BY DEF WalkInv, OneReason
  <2>2. Pends(n)' => ~OnStack(n)'
    BY <1>1, <2>1 DEF Pends
  <2>3. ASSUME NEW j \in DOMAIN stack', NEW k \in DOMAIN stack',
               Below(n, stack'[j]), Below(n, stack'[k])
        PROVE  j = k
    <3>1. /\ j = 1 \/ (j - 1 \in DOMAIN stack /\ stack'[j] = stack[j - 1])
          /\ k = 1 \/ (k - 1 \in DOMAIN stack /\ stack'[k] = stack[k - 1])
          /\ stack'[1] = d /\ j \in Nat /\ k \in Nat
      BY <1>0, StackPush
    <3>2. Below(n, d) => ~OnStack(n)
      BY <1>1, <2>1 DEF Pends
    <3>3. CASE j = 1 /\ k # 1
      BY <2>3, <3>1, <3>2, <3>3 DEF OnStack
    <3>4. CASE j # 1 /\ k = 1
      BY <2>3, <3>1, <3>2, <3>4 DEF OnStack
    <3>5. CASE j # 1 /\ k # 1
      <4>1. j - 1 = k - 1
        BY <2>1, <2>3, <3>1, <3>5
      <4> QED
        BY <3>1, <4>1
    <3> QED
      BY <3>3, <3>4, <3>5
  <2> QED
    BY <2>1, <2>2, <2>3
<1>3. ASSUME NEW n \in Nodes PROVE Ahead(n)' <=> Ahead(n) /\ n # d
  <2>1. /\ \A a, b \in pending : a \in Line(n) /\ b \in Line(n) => a = b
        /\ Pends(n) => ~OnStack(n)
    BY DEF WalkInv, OneReason
  <2>2. d \in Line(n) => Pends(n)
    BY DEF Pends
  <2>3. n = d => d \in Line(n)
    BY DEF Line
  <2> QED
    BY <1>1, <2>1, <2>2, <2>3 DEF Ahead, Pends
<1> QED
  BY <1>2, <1>3

-------------------------------------------------------------------------------
(***************************************************************************)
(* The invariant is inductive.  A step that does not yield: what is not    *)
(* ahead any more has become hidden, or is nothing to scan; and what has   *)
(* become hidden was ahead.                                                *)
(***************************************************************************)

\* Placed, AheadIsSeen, YieldedIsPast and YieldedOnce at once.
Accounted == Placed /\ AheadIsSeen /\ YieldedIsPast /\ YieldedOnce

\* A step that yields no file keeps the account of every entry, if an entry
\* leaves the frontier only to be hidden or because it is not to be scanned.
LEMMA QuietAccounted ==
  ASSUME WalkInv, disk' = disk, mode' = mode, yielded' = yielded,
         \A n \in Nodes :
           /\ Ahead(n)' => Ahead(n) /\ (Hidden(n)' => Hidden(n))
           /\ Hidden(n) => Hidden(n)'
           /\ Hidden(n)' => Hidden(n) \/ Ahead(n)
           /\ Ahead(n) /\ ShouldScan(n) => Ahead(n)' \/ Hidden(n)'
  PROVE  Accounted'
<1>1. \A n \in Nodes : (ShouldScan(n)' <=> ShouldScan(n)) /\ (Yielded(n)' <=> Yielded(n))
  BY DEF ShouldScan, Yielded
<1>2. Nodes' = Nodes
  BY DEF Nodes
<1>3. Placed'
  BY <1>1, <1>2 DEF WalkInv, Placed
<1>4. AheadIsSeen'
  BY <1>1, <1>2 DEF WalkInv, AheadIsSeen
<1>5. YieldedIsPast'
  BY <1>1, <1>2 DEF WalkInv, YieldedIsPast
<1>6. YieldedOnce'
  BY DEF WalkInv, YieldedOnce
<1> QED
  BY <1>3, <1>4, <1>5, <1>6 DEF Accounted

\* An entry is hidden when something on its line is lost.
LEMMA HiddenGrows ==
  ASSUME disk' = disk, NEW Q, lost' = lost \cup Q, NEW n \in Nodes
  PROVE  Hidden(n)' <=> Hidden(n) \/ \E m \in Q : m \in Line(n)
BY DEF Hidden, Line, Above

\* With no error, no entry is hidden or shown.
LEMMA HiddenSame ==
  ASSUME disk' = disk, lost' = lost, NEW n \in Nodes
  PROVE  Hidden(n)' <=> Hidden(n)
BY DEF Hidden, Above

\* An error is counted up to its bound, and hides entries.
LEMMA OSErrorType ==
  ASSUME WalkTypeOK, NEW ns \in SUBSET Nodes, OSError(ns)
  PROVE  errors' \in 0..MaxErrors /\ lost' \in SUBSET Nodes
BY ErrorsAssumption DEF WalkTypeOK, OSError

\* Every variable of the walk keeps its type.
LEMMA WalkTypeStep ==
  ASSUME WalkTypeOK, WalkStep \/ TakeFile
  PROVE  WalkTypeOK'
<1> USE DEF WalkTypeOK, WalkState, Nodes
<1>1. ASSUME OpenDirectory PROVE WalkTypeOK'
  <2>1. stack' \in Seq({0} \cup Nodes)
    BY <1>1, StackTail DEF OpenDirectory
  <2>2. Children(Head(stack)) \subseteq Nodes
    BY DEF Children
  <2> QED
    BY <1>1, <2>1, <2>2 DEF OpenDirectory
<1>8. ASSUME OpenFails PROVE WalkTypeOK'
  <2>1. stack' \in Seq({0} \cup Nodes)
    BY <1>8, StackTail DEF OpenFails
  <2>2. Children(Head(stack)) \in SUBSET Nodes
    BY DEF Children
  <2>3. errors' \in 0..MaxErrors /\ lost' \in SUBSET Nodes
    BY <1>8, <2>2, OSErrorType DEF OpenFails
  <2> QED
    BY <1>8, <2>1, <2>3 DEF OpenFails
<1>2. ASSUME WalkEnds \/ CloseDirectory \/ TakeFile PROVE WalkTypeOK'
  BY <1>2 DEF WalkEnds, CloseDirectory, TakeFile
<1>6. ASSUME ReadFails PROVE WalkTypeOK'
  <2>1. errors' \in 0..MaxErrors /\ lost' \in SUBSET Nodes
    BY <1>6, OSErrorType DEF ReadFails
  <2> QED
    BY <1>6, <2>1 DEF ReadFails
<1>3. ASSUME NEW n \in Nodes, PushDirectory(n) PROVE WalkTypeOK'
  <2>1. stack' \in Seq({0} \cup Nodes)
    BY <1>3, StackPush DEF PushDirectory
  <2> QED
    BY <1>3, <2>1 DEF PushDirectory
<1>4. ASSUME NEW n \in Nodes, SkipEntry(n) \/ BadTime(n)
      PROVE  WalkTypeOK'
  BY <1>4 DEF SkipEntry, BadTime
<1>7. ASSUME NEW n \in Nodes, EntryFails(n) PROVE WalkTypeOK'
  <2>1. errors' \in 0..MaxErrors /\ lost' \in SUBSET Nodes
    BY <1>7, OSErrorType DEF EntryFails
  <2> QED
    BY <1>7, <2>1 DEF EntryFails
<1>5. ASSUME NEW n \in Nodes, YieldFile(n) PROVE WalkTypeOK'
  <2>1. yielded' \in Seq(Nodes) /\ yielded' # <<>>
    BY <1>5 DEF YieldFile
  <2> QED
    BY <1>5, <2>1 DEF YieldFile
<1> QED
  BY <1>1, <1>2, <1>3, <1>4, <1>5, <1>6, <1>7, <1>8 DEF WalkStep

\* The steps that leave the frontier, the files yielded and the errors alone.
LEMMA PlaceOnly ==
  ASSUME WalkInv, UNCHANGED <<disk, mode, stack, pending, yielded, lost>>
  PROVE  OneReason' /\ Accounted'
<1>1. \A n \in Nodes : (Ahead(n)' <=> Ahead(n)) /\ (Hidden(n)' <=> Hidden(n))
  BY DEF Ahead, Pends, OnStack, Line, Below, Above, Hidden
<1>2. OneReason'
  BY DEF WalkInv, OneReason, Nodes, Pends, OnStack, Line, Below, Above
<1>3. Accounted'
  BY <1>1, QuietAccounted
<1> QED
  BY <1>2, <1>3

\* What lies on the line of a pending entry is ahead.
LEMMA PendingLine ==
  ASSUME WalkInv, NEW m \in pending
  PROVE  /\ m \in Nodes
         /\ \A n \in Nodes : m \in Line(n) => Ahead(n)
BY DEF WalkInv, WalkTypeOK, Ahead, Pends

\* A directory opened is replaced by its children: the same entries are ahead.
LEMMA OpenDirectoryInv ==
  ASSUME WalkInv, OpenDirectory
  PROVE  OneReason' /\ Accounted'
<1>1. pending = {}
  BY DEF OpenDirectory, WalkInv, FrontierAtEnd
<1>2. OneReason' /\ \A n \in Nodes : Ahead(n)' <=> Ahead(n)
  BY <1>1, OpenFrontier DEF OpenDirectory
<1>3. \A n \in Nodes : Hidden(n)' <=> Hidden(n)
  BY HiddenSame DEF OpenDirectory
<1>4. Accounted'
  BY <1>2, <1>3, QuietAccounted DEF OpenDirectory
<1> QED
  BY <1>2, <1>4

\* A directory that cannot be opened hides all that lies below it.
LEMMA OpenFailsInv ==
  ASSUME WalkInv, OpenFails
  PROVE  OneReason' /\ Accounted'
<1> DEFINE d == Head(stack)
<1>0. /\ disk \in Trees /\ d \in {0} \cup Nodes
      /\ stack \in Seq({0} \cup Nodes) /\ stack # <<>>
  BY StackTail DEF OpenFails, WalkInv, WalkTypeOK
<1>1. pending = {}
  BY DEF OpenFails, WalkInv, FrontierAtEnd
<1>2. OneReason' /\ \A n \in Nodes : Ahead(n)' <=> Ahead(n) /\ ~Below(n, d)
  BY <1>1, SkipFrontier DEF OpenFails
<1>3. \A n \in Nodes : Hidden(n)' <=> Hidden(n) \/ Below(n, d)
  <2>1. \A n \in Nodes : Hidden(n)' <=> Hidden(n) \/ \E m \in Children(d) : m \in Line(n)
    BY HiddenGrows DEF OpenFails, OSError
  <2> QED
    BY <1>0, <2>1, ChildIsBelow, ChildOnLine
<1>4. \A n \in Nodes : Below(n, d) => Ahead(n)
  BY <1>0, StackTail DEF Ahead, OnStack
<1>5. Accounted'
  BY <1>2, <1>3, <1>4, QuietAccounted DEF OpenFails
<1> QED
  BY <1>2, <1>5

\* A directory pushed is no file, and what it holds stays ahead.
LEMMA PushDirectoryInv ==
  ASSUME WalkInv, NEW d \in Nodes, PushDirectory(d)
  PROVE  OneReason' /\ Accounted'
<1>1. OneReason' /\ \A n \in Nodes : Ahead(n)' <=> Ahead(n) /\ n # d
  BY PushFrontier DEF PushDirectory
<1>2. \A n \in Nodes : Hidden(n)' <=> Hidden(n)
  BY HiddenSame DEF PushDirectory
<1>3. ~ShouldScan(d)
  BY DEF PushDirectory, ShouldScan
<1>4. Accounted'
  BY <1>1, <1>2, <1>3, QuietAccounted DEF PushDirectory
<1> QED
  BY <1>1, <1>4

\* Nothing lies below an entry that is not a directory.
LEMMA LeafLine ==
  ASSUME disk \in Trees, NEW m, disk[m].kind # "dir", NEW n \in Nodes, m \in Line(n)
  PROVE  n = m
BY AboveType DEF Line

\* An entry skipped is not to be scanned, and nothing lies below it.
LEMMA SkipEntryInv ==
  ASSUME WalkInv, NEW m \in Nodes, SkipEntry(m)
  PROVE  OneReason' /\ Accounted'
<1>1. /\ OneReason'
      /\ \A n \in Nodes : Ahead(n)' <=> Ahead(n) /\ m \notin Line(n)
  <2>1. {m} \in SUBSET pending
    BY DEF SkipEntry
  <2> QED
    BY <2>1, TakeOff DEF SkipEntry
<1>2. \A n \in Nodes : Hidden(n)' <=> Hidden(n)
  BY HiddenSame DEF SkipEntry
<1>3. \A n \in Nodes : m \in Line(n) => ~ShouldScan(n)
  BY LeafLine DEF SkipEntry, WalkInv, WalkTypeOK
<1>4. Accounted'
  BY <1>1, <1>2, <1>3, QuietAccounted DEF SkipEntry
<1> QED
  BY <1>1, <1>4

\* An entry that fails is hidden, with what lies below it.
LEMMA EntryFailsInv ==
  ASSUME WalkInv, NEW m \in Nodes, EntryFails(m)
  PROVE  OneReason' /\ Accounted'
<1>1. /\ OneReason'
      /\ \A n \in Nodes : Ahead(n)' <=> Ahead(n) /\ m \notin Line(n)
  <2>1. {m} \in SUBSET pending
    BY DEF EntryFails
  <2> QED
    BY <2>1, TakeOff DEF EntryFails
<1>2. \A n \in Nodes : Hidden(n)' <=> Hidden(n) \/ m \in Line(n)
  <2>1. disk' = disk /\ lost' = lost \cup {m}
    BY DEF EntryFails, OSError
  <2> QED
    BY <2>1 DEF Hidden, Line, Above
<1>3. \A n \in Nodes : m \in Line(n) => Ahead(n)
  BY PendingLine DEF EntryFails
<1>4. Accounted'
  BY <1>1, <1>2, <1>3, QuietAccounted DEF EntryFails
<1> QED
  BY <1>1, <1>4

\* A directory that fails hides what was still to come of it.
LEMMA ReadFailsInv ==
  ASSUME WalkInv, ReadFails
  PROVE  OneReason' /\ Accounted'
<1>1. /\ OneReason'
      /\ \A n \in Nodes : Ahead(n)' <=> Ahead(n) /\ ~ \E m \in pending : m \in Line(n)
  <2>1. pending' = pending \ pending
    BY DEF ReadFails
  <2> QED
    BY <2>1, TakeOff DEF ReadFails
<1>2. \A n \in Nodes : Hidden(n)' <=> Hidden(n) \/ \E m \in pending : m \in Line(n)
  BY HiddenGrows DEF ReadFails, OSError
<1>3. \A n \in Nodes : (\E m \in pending : m \in Line(n)) => Ahead(n)
  BY DEF Ahead, Pends
<1>4. Accounted'
  BY <1>1, <1>2, <1>3, QuietAccounted DEF ReadFails
<1> QED
  BY <1>1, <1>4

\* What is yielded was ahead: it is not yielded already, and not hidden.
LEMMA YieldFileInv ==
  ASSUME WalkInv, NEW m \in Nodes, YieldFile(m)
  PROVE  OneReason' /\ Accounted'
<1>1. /\ OneReason'
      /\ \A n \in Nodes : Ahead(n)' <=> Ahead(n) /\ m \notin Line(n)
  <2>1. {m} \in SUBSET pending
    BY DEF YieldFile
  <2> QED
    BY <2>1, TakeOff DEF YieldFile
<1>2. \A n \in Nodes : Hidden(n)' <=> Hidden(n)
  BY HiddenSame DEF YieldFile
<1>3. \A n \in Nodes : m \in Line(n) => n = m
  BY LeafLine DEF YieldFile, ShouldScan, WalkInv, WalkTypeOK
<1>4. Ahead(m) /\ m \in Line(m)
  BY PendingLine DEF YieldFile, Line
<1>5. ~Yielded(m) /\ ~Hidden(m)
  BY <1>4 DEF WalkInv, YieldedIsPast, AheadIsSeen
<1>6. /\ DOMAIN yielded' = DOMAIN yielded \cup {Len(yielded) + 1}
      /\ Len(yielded) + 1 \notin DOMAIN yielded
      /\ yielded'[Len(yielded) + 1] = m
      /\ \A k \in DOMAIN yielded : yielded'[k] = yielded[k]
  BY DEF YieldFile, WalkInv, WalkTypeOK
<1>7. \A n \in Nodes : Yielded(n)' <=> Yielded(n) \/ n = m
  BY <1>6 DEF Yielded
<1>8. \A n \in Nodes : ShouldScan(n)' <=> ShouldScan(n)
  BY DEF YieldFile, ShouldScan
<1>9. Nodes' = Nodes /\ ShouldScan(m)
  BY DEF YieldFile, Nodes
<1>10. Placed'
  BY <1>1, <1>2, <1>3, <1>7, <1>8, <1>9 DEF WalkInv, Placed
<1>11. AheadIsSeen'
  BY <1>1, <1>2, <1>9 DEF WalkInv, AheadIsSeen
<1>12. YieldedIsPast'
  BY <1>1, <1>2, <1>4, <1>5, <1>7, <1>8, <1>9 DEF WalkInv, YieldedIsPast
<1>13. YieldedOnce'
  BY <1>5, <1>6 DEF WalkInv, YieldedOnce, Yielded
<1> QED
  BY <1>1, <1>10, <1>11, <1>12, <1>13 DEF Accounted

\* The walk opens a directory when none is open, and ends with none left.
LEMMA FrontierAtEndStep ==
  ASSUME WalkInv, WalkStep \/ TakeFile
  PROVE  FrontierAtEnd'
<1> USE DEF WalkInv, FrontierAtEnd
<1>1. ASSUME OpenDirectory \/ OpenFails \/ WalkEnds \/ ReadFails \/ CloseDirectory \/ TakeFile
      PROVE  FrontierAtEnd'
  BY <1>1 DEF OpenDirectory, OpenFails, WalkEnds, ReadFails, CloseDirectory, TakeFile
<1>2. ASSUME NEW n \in Nodes,
             PushDirectory(n) \/ SkipEntry(n) \/ YieldFile(n) \/ EntryFails(n) \/ BadTime(n)
      PROVE  FrontierAtEnd'
  BY <1>2 DEF PushDirectory, SkipEntry, YieldFile, EntryFails, BadTime
<1> QED
  BY <1>1, <1>2 DEF WalkStep

\* Every step of the walk keeps the invariant.
LEMMA WalkInvStep ==
  ASSUME WalkInv, WalkStep \/ TakeFile \/ UNCHANGED walkVars
  PROVE  WalkInv'
<1>1. CASE UNCHANGED walkVars
  <2>1. OneReason' /\ Accounted'
    BY <1>1, PlaceOnly DEF walkVars
  <2> QED
    BY <1>1, <2>1 DEF walkVars, WalkInv, Accounted, WalkTypeOK, Nodes, FrontierAtEnd
<1>2. CASE WalkStep \/ TakeFile
  <2>1. WalkTypeOK' /\ FrontierAtEnd'
    BY <1>2, WalkTypeStep, FrontierAtEndStep DEF WalkInv
  <2>2. ASSUME WalkEnds \/ CloseDirectory \/ TakeFile PROVE OneReason' /\ Accounted'
    BY <2>2, PlaceOnly DEF WalkEnds, CloseDirectory, TakeFile
  <2>3. ASSUME NEW n \in Nodes, BadTime(n) PROVE OneReason' /\ Accounted'
    BY <2>3, PlaceOnly DEF BadTime
  <2>4. OneReason' /\ Accounted'
    BY <1>2, <2>2, <2>3, OpenDirectoryInv, OpenFailsInv, ReadFailsInv, PushDirectoryInv,
       SkipEntryInv, YieldFileInv, EntryFailsInv DEF WalkStep
  <2> QED
    BY <2>1, <2>4 DEF WalkInv, Accounted
<1> QED
  BY <1>1, <1>2

\* At first every entry is ahead, below the root on the stack.
LEMMA WalkInvInit == WalkInit => WalkInv
<1> SUFFICES ASSUME WalkInit PROVE WalkInv
  OBVIOUS
<1> USE DEF WalkInit
<1>1. WalkTypeOK
  <2>1. errors \in 0..MaxErrors
    BY ErrorsAssumption
  <2>2. stack \in Seq({0} \cup Nodes) /\ yielded \in Seq(Nodes)
    OBVIOUS
  <2> QED
    BY <2>1, <2>2 DEF WalkTypeOK, WalkState
<1>2. DOMAIN stack = {1} /\ stack[1] = 0 /\ DOMAIN yielded = {}
  OBVIOUS
<1>3. \A n \in Nodes : Ahead(n) /\ OnStack(n) /\ ~Pends(n) /\ ~Hidden(n) /\ ~Yielded(n)
  BY <1>2 DEF Ahead, OnStack, Pends, Hidden, Below, Yielded
<1>4. OneReason
  BY <1>2, <1>3 DEF OneReason
<1> QED
  BY <1>1, <1>2, <1>3, <1>4 DEF WalkInv, Placed, AheadIsSeen, YieldedIsPast, YieldedOnce,
     FrontierAtEnd

\* Where the walk is exhausted nothing is ahead, and the invariant leaves the
\* entries hidden and those yielded.
LEMMA WalkInvExact == WalkInv => WalkExact
<1> SUFFICES ASSUME WalkInv PROVE WalkExact
  OBVIOUS
<1>1. yielded \in Seq(Nodes)
  BY DEF WalkInv, WalkTypeOK
<1>2. \A a \in DOMAIN yielded : yielded[a] \in Nodes /\ Yielded(yielded[a])
  BY <1>1 DEF Yielded
<1>3. walk = "over" => \A n \in Nodes : ~Ahead(n)
  BY DEF WalkInv, FrontierAtEnd, Ahead, Pends, OnStack
<1>4. ASSUME walk = "over", NEW n \in Nodes
      PROVE  ShouldScan(n) /\ ~Hidden(n) <=> Yielded(n)
  BY <1>3, <1>4 DEF WalkInv, Placed, YieldedIsPast
<1> QED
  BY <1>2, <1>4 DEF WalkExact, WalkInv, YieldedIsPast, YieldedOnce, Yielded

-------------------------------------------------------------------------------
(***************************************************************************)
(* The walk implements FileSelection: every step of it is a step of what   *)
(* it owes its caller, or none.                                            *)
(***************************************************************************)

\* What is left of the selection is what is to be scanned and ahead.
LEMMA LeftIsAhead ==
  ASSUME WalkInv
  PROVE  Selection!Left = {n \in Nodes : ShouldScan(n) /\ Ahead(n)}
<1>1. \A n \in Nodes : n \in {yielded[k] : k \in DOMAIN yielded} <=> Yielded(n)
  BY DEF Yielded
<1>2. \A n \in Nodes : ShouldScan(n) /\ ~Hidden(n) /\ ~Yielded(n) <=> ShouldScan(n) /\ Ahead(n)
  BY DEF WalkInv, Placed, AheadIsSeen, YieldedIsPast
<1> QED
  BY <1>1, <1>2 DEF Selection!Left

\* What an error hides was ahead of the walk.
LEMMA ErrorHidesAhead ==
  ASSUME WalkInv, OpenFails \/ ReadFails \/ \E m \in Nodes : EntryFails(m),
         NEW n \in Nodes
  PROVE  (Hidden(n) => Hidden(n)') /\ (Hidden(n)' => Hidden(n) \/ Ahead(n))
<1>1. CASE OpenFails
  <2> DEFINE d == Head(stack)
  <2>1. /\ disk \in Trees /\ d \in {0} \cup Nodes
        /\ stack \in Seq({0} \cup Nodes) /\ stack # <<>>
    BY <1>1, StackTail DEF OpenFails, WalkInv, WalkTypeOK
  <2>2. Hidden(n)' <=> Hidden(n) \/ \E m \in Children(d) : m \in Line(n)
    BY <1>1, HiddenGrows DEF OpenFails, OSError
  <2>3. (\E m \in Children(d) : m \in Line(n)) => Below(n, d)
    BY <2>1, ChildIsBelow, ChildOnLine
  <2>4. Below(n, d) => Ahead(n)
    BY <2>1, StackTail DEF Ahead, OnStack
  <2> QED
    BY <2>2, <2>3, <2>4
<1>2. CASE ReadFails
  <2>1. Hidden(n)' <=> Hidden(n) \/ \E m \in pending : m \in Line(n)
    BY <1>2, HiddenGrows DEF ReadFails, OSError
  <2> QED
    BY <2>1, PendingLine
<1>3. CASE \E m \in Nodes : EntryFails(m)
  <2>1. PICK m \in Nodes : EntryFails(m)
    BY <1>3
  <2>2. disk' = disk /\ lost' = lost \cup {m} /\ m \in pending
    BY <2>1 DEF EntryFails, OSError
  <2>3. Hidden(n)' <=> Hidden(n) \/ m \in Line(n)
    BY <2>2 DEF Hidden, Line, Above
  <2> QED
    BY <2>2, <2>3, PendingLine
<1> QED
  BY <1>1, <1>2, <1>3

\* An error misses files that were left.
LEMMA ErrorMaps ==
  ASSUME WalkInv, OpenFails \/ ReadFails \/ \E m \in Nodes : EntryFails(m)
  PROVE  Selection!Miss
<1> DEFINE hit == {n \in Nodes : ShouldScan(n) /\ Ahead(n) /\ Hidden(n)'}
<1>1. /\ disk' = disk /\ mode' = mode /\ yielded' = yielded /\ errors' = errors + 1
      /\ walk \in {"open", "entry"} /\ walk' \in {"open", "entry"}
  BY DEF OpenFails, ReadFails, EntryFails, OSError
<1>2. Nodes' = Nodes /\ \A n \in Nodes : ShouldScan(n)' <=> ShouldScan(n)
  BY <1>1 DEF Nodes, ShouldScan
<1>3. {n \in Nodes : ShouldScan(n)}' = {n \in Nodes : ShouldScan(n)}
  BY <1>2
<1>4. {n \in Nodes : ShouldScan(n) /\ Hidden(n)}'
        = {n \in Nodes : ShouldScan(n) /\ Hidden(n)} \cup hit
  BY <1>2, ErrorHidesAhead
<1>5. hit \in SUBSET Selection!Left
  BY LeftIsAhead
<1> HIDE DEF hit
<1> QED
  BY <1>1, <1>3, <1>4, <1>5 DEF Selection!Miss

\* A file that is yielded was left, and is given.
LEMMA YieldMaps ==
  ASSUME WalkInv, NEW m \in Nodes, YieldFile(m)
  PROVE  Selection!Give
<1>1. /\ disk' = disk /\ mode' = mode /\ lost' = lost /\ errors' = errors
      /\ yielded' = Append(yielded, m)
      /\ walk = "entry" /\ walk' = "yield" /\ m \in pending /\ ShouldScan(m)
  BY DEF YieldFile
<1>2. Ahead(m)
  BY <1>1, PendingLine DEF Line
<1>3. m \in Selection!Left
  BY <1>1, <1>2, LeftIsAhead
<1>4. /\ Nodes' = Nodes
      /\ \A n \in Nodes : (ShouldScan(n)' <=> ShouldScan(n)) /\ (Hidden(n)' <=> Hidden(n))
  BY <1>1 DEF Nodes, ShouldScan, Hidden, Above
<1>5. /\ {n \in Nodes : ShouldScan(n)}' = {n \in Nodes : ShouldScan(n)}
      /\ {n \in Nodes : ShouldScan(n) /\ Hidden(n)}'
           = {n \in Nodes : ShouldScan(n) /\ Hidden(n)}
  BY <1>4
<1> QED
  BY <1>1, <1>3, <1>5 DEF Selection!Give

\* The steps that give and miss nothing.
LEMMA QuietMaps ==
  ASSUME WalkInv, UNCHANGED <<disk, mode, yielded, lost, errors>>
  PROVE  /\ {n \in Nodes : ShouldScan(n)}' = {n \in Nodes : ShouldScan(n)}
         /\ {n \in Nodes : ShouldScan(n) /\ Hidden(n)}'
              = {n \in Nodes : ShouldScan(n) /\ Hidden(n)}
BY DEF Nodes, ShouldScan, Hidden, Above

\* Every step of the walk is a step of the selection, or gives and misses
\* nothing.
LEMMA WalkStepMaps ==
  ASSUME WalkInv, WalkStep \/ TakeFile \/ UNCHANGED walkVars
  PROVE  Selection!Next \/ UNCHANGED Selection!vars
<1>1. ASSUME \/ OpenDirectory \/ CloseDirectory \/ TakeFile \/ UNCHANGED walkVars
             \/ \E n \in Nodes : PushDirectory(n) \/ SkipEntry(n)
      PROVE  UNCHANGED Selection!vars
  <2>1. UNCHANGED <<disk, mode, yielded, lost, errors>>
    BY <1>1 DEF OpenDirectory, CloseDirectory, TakeFile, walkVars, PushDirectory, SkipEntry
  <2>2. walk' = walk \/ {walk, walk'} \subseteq {"open", "entry", "yield"}
    BY <1>1 DEF OpenDirectory, CloseDirectory, TakeFile, walkVars, PushDirectory, SkipEntry
  <2> QED
    BY <2>1, <2>2, QuietMaps DEF Selection!vars
<1>2. ASSUME WalkEnds PROVE Selection!Finish
  <2>1. stack = <<>> /\ pending = {} /\ walk = "open" /\ walk' = "over"
    BY <1>2 DEF WalkEnds, WalkInv, FrontierAtEnd
  <2>2. \A n \in Nodes : ~Ahead(n)
    BY <2>1 DEF Ahead, Pends, OnStack
  <2>3. Selection!Left = {}
    BY <2>2, LeftIsAhead
  <2>4. UNCHANGED <<disk, mode, yielded, lost, errors>>
    BY <1>2 DEF WalkEnds
  <2> QED
    BY <2>1, <2>3, <2>4, QuietMaps DEF Selection!Finish
<1>3. ASSUME NEW n \in Nodes, BadTime(n) PROVE Selection!BreakOff
  <2>1. /\ walk = "entry" /\ walk' = "broken"
        /\ UNCHANGED <<disk, mode, yielded, lost, errors>>
    BY <1>3 DEF BadTime
  <2> QED
    BY <2>1, QuietMaps DEF Selection!BreakOff
<1> QED
  BY <1>1, <1>2, <1>3, ErrorMaps, YieldMaps DEF WalkStep, Selection!Next

\* Nothing has been given or missed at first.
LEMMA WalkInitMaps == WalkInit => Selection!Init
BY DEF WalkInit, Selection!Init, Hidden
===============================================================================
