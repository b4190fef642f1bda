------------------------------- MODULE FileWalk -------------------------------
(***************************************************************************)
(* The generator FileEnumerator.enumerate (engine/file_enumerator.py) over *)
(* a file tree: a stack of directories, one directory open at a time, its  *)
(* entries in the order the file system has them, and OSErrors swallowed   *)
(* where they come.                                                        *)
(*                                                                         *)
(* A tree is a sequence of entries.  Its entries are numbered, 0 is the    *)
(* root of the scan, and the path of an entry lists the directories below  *)
(* the root that it lies in, from the top.  Of a file the walk looks at    *)
(* two things: whether its extension is one of QUICK_SCAN_EXTENSIONS       *)
(* (listed) and whether its modification time is one that datetime has     *)
(* (dated).  The other fields of an entry are for the engines.             *)
(***************************************************************************)
EXTENDS Naturals, Sequences

CONSTANTS
  Trees,      \* the trees that are walked
  MaxErrors   \* bound: operations of one walk that raise OSError

VARIABLES
  disk,       \* the tree under the scan's root
  mode,       \* ScanMode
  stack,      \* directories still to open; the last one pushed comes first
  pending,    \* entries of the open directory that are still to come
  walk,       \* where the generator is
  yielded,    \* history: the files it has yielded
  lost,       \* history: entries that an OSError has hidden
  errors      \* how often an operation has raised OSError

walkVars == <<disk, mode, stack, pending, walk, yielded, lost, errors>>

\* "open": no directory is open; "entry": one is; "yield": suspended at the
\* yield; "over": exhausted; "broken": ended by an exception.
WalkState == {"open", "entry", "yield", "over", "broken"}
EntryKind == {"dir", "file", "link", "special"}

Nodes == DOMAIN disk
Above(n) == {disk[n].path[k] : k \in DOMAIN disk[n].path}
PathInto(d) == IF d = 0 THEN <<>> ELSE Append(disk[d].path, d)
Children(d) == {n \in Nodes : disk[n].path = PathInto(d)}
Current == yielded[Len(yielded)]

ASSUME ErrorsAssumption == MaxErrors \in Nat
ASSUME TreeAssumption ==
  \A tree \in Trees :
    /\ 0 \notin DOMAIN tree
    /\ \A n \in DOMAIN tree :
         LET path == tree[n].path
         IN  /\ tree[n].kind \in EntryKind
             /\ path \in Seq(DOMAIN tree)
             /\ \A k \in DOMAIN path :
                  /\ tree[path[k]].kind = "dir"
                  /\ tree[path[k]].path = SubSeq(path, 1, k - 1)

WalkTypeOK ==
  /\ disk \in Trees
  /\ mode \in {"quick", "full"}
  /\ stack \in Seq({0} \cup Nodes)
  /\ pending \subseteq Nodes
  /\ walk \in WalkState
  /\ yielded \in Seq(Nodes)
  /\ lost \subseteq Nodes
  /\ errors \in 0..MaxErrors
  /\ walk = "yield" => yielded # <<>>

WalkInit ==
  /\ disk \in Trees
  /\ mode \in {"quick", "full"}
  /\ stack = <<0>>
  /\ pending = {}
  /\ walk = "open"
  /\ yielded = <<>>
  /\ lost = {}
  /\ errors = 0

\* should_scan_file, for an entry that is a file.
ShouldScan(n) == disk[n].kind = "file" /\ (mode = "full" \/ disk[n].listed)

\* An operation raises OSError, and the entries ns are never seen.
OSError(ns) ==
  /\ errors < MaxErrors
  /\ errors' = errors + 1
  /\ lost' = lost \cup ns

-------------------------------------------------------------------------------
OpenDirectory ==
  /\ walk = "open" /\ stack # <<>>
  /\ stack' = Tail(stack)
  /\ pending' = Children(Head(stack))
  /\ walk' = "entry"
  /\ UNCHANGED <<disk, mode, yielded, lost, errors>>

\* Mutant: a directory that could not be opened is tried again.
OpenFailsRetrying ==
  /\ walk = "open" /\ stack # <<>>
  /\ OSError(Children(Head(stack)))
  /\ UNCHANGED <<disk, mode, stack, pending, walk, yielded>>

\* os.scandir raises: the directory is skipped.
OpenFails ==
  /\ walk = "open" /\ stack # <<>>
  /\ stack' = Tail(stack)
  /\ OSError(Children(Head(stack)))
  /\ UNCHANGED <<disk, mode, pending, walk, yielded>>

WalkEnds ==
  /\ walk = "open" /\ stack = <<>>
  /\ walk' = "over"
  /\ UNCHANGED <<disk, mode, stack, pending, yielded, lost, errors>>

\* Mutant: a directory found is the one walked next, and what was on the
\* stack is forgotten.
PushDirectoryOver(n) ==
  /\ walk = "entry" /\ n \in pending
  /\ disk[n].kind = "dir"
  /\ stack' = <<n>>
  /\ pending' = pending \ {n}
  /\ UNCHANGED <<disk, mode, walk, yielded, lost, errors>>

PushDirectory(n) ==
  /\ walk = "entry" /\ n \in pending
  /\ disk[n].kind = "dir"
  /\ stack' = <<n>> \o stack
  /\ pending' = pending \ {n}
  /\ UNCHANGED <<disk, mode, walk, yielded, lost, errors>>

\* A symbolic link, a special file, or a file that the mode does not ask for.
SkipEntry(n) ==
  /\ walk = "entry" /\ n \in pending
  /\ disk[n].kind # "dir" /\ ~ShouldScan(n)
  /\ pending' = pending \ {n}
  /\ UNCHANGED <<disk, mode, stack, walk, yielded, lost, errors>>

YieldFile(n) ==
  /\ walk = "entry" /\ n \in pending
  /\ ShouldScan(n) /\ disk[n].dated
  /\ pending' = pending \ {n}
  /\ yielded' = Append(yielded, n)
  /\ walk' = "yield"
  /\ UNCHANGED <<disk, mode, stack, lost, errors>>

\* The inner except: is_dir, is_file or stat raises for one entry.
EntryFails(n) ==
  /\ walk = "entry" /\ n \in pending
  /\ disk[n].kind # "link"
  /\ pending' = pending \ {n}
  /\ OSError({n})
  /\ UNCHANGED <<disk, mode, stack, walk, yielded>>

\* datetime.fromtimestamp raises ValueError or OverflowError, which is no
\* OSError: the generator ends.
BadTime(n) ==
  /\ walk = "entry" /\ n \in pending
  /\ ShouldScan(n) /\ ~disk[n].dated
  /\ walk' = "broken"
  /\ UNCHANGED <<disk, mode, stack, pending, yielded, lost, errors>>

\* The outer except: reading the directory on raises.
ReadFails ==
  /\ walk = "entry" /\ pending # {}
  /\ pending' = {}
  /\ walk' = "open"
  /\ OSError(pending)
  /\ UNCHANGED <<disk, mode, stack, yielded>>

CloseDirectory ==
  /\ walk = "entry" /\ pending = {}
  /\ walk' = "open"
  /\ UNCHANGED <<disk, mode, stack, pending, yielded, lost, errors>>

WalkStep ==
  \/ OpenDirectory \/ OpenFails \/ WalkEnds \/ ReadFails \/ CloseDirectory
  \/ \E n \in Nodes :
       PushDirectory(n) \/ SkipEntry(n) \/ YieldFile(n) \/ EntryFails(n) \/ BadTime(n)

\* The caller asks for the next file.
TakeFile ==
  /\ walk = "yield"
  /\ walk' = "entry"
  /\ UNCHANGED <<disk, mode, stack, pending, yielded, lost, errors>>

-------------------------------------------------------------------------------
\* Hidden by an OSError, its own or that of a directory above it.
Hidden(n) == \E m \in {n} \cup Above(n) : m \in lost

\* What the caller is given is what the mode asks for: no file twice, none
\* that the mode leaves out or that a link leads to, and, when the generator
\* is exhausted, every file of the tree but those that an OSError has hidden,
\* in whichever order the directories have come.
WalkExact ==
  /\ \A a, b \in DOMAIN yielded : a # b => yielded[a] # yielded[b]
  /\ \A a \in DOMAIN yielded : ShouldScan(yielded[a])
  /\ walk = "over" =>
       {n \in Nodes : ShouldScan(n) /\ ~Hidden(n)} = {yielded[a] : a \in DOMAIN yielded}

Selection == INSTANCE FileSelection WITH
               wanted <- {n \in Nodes : ShouldScan(n)},
               given  <- yielded,
               missed <- {n \in Nodes : ShouldScan(n) /\ Hidden(n)},
               phase  <- IF walk \in {"over", "broken"} THEN walk ELSE "going"

\* The generator owes its caller a selection of the tree, and gives it: every
\* file asked for is given once or missed through an error, for good either
\* way, although an error hides whole directories and the stack remembers
\* nothing of what has been given.
WalkSpec == Selection!Spec
===============================================================================
