------------------------------- MODULE Chunks -------------------------------
(***************************************************************************)
(* The content of a bpy drive, as the content addressed store sees it.     *)
(*                                                                         *)
(* A chunk is named by the SHA256 of its bytes, so a chunk's name fixes    *)
(* its content: here a chunk IS its content.  Three kinds of chunk exist:  *)
(* the blocks of a file, a directory tree, and a ref (refs/ref.go).  A ref *)
(* holds a tree and the ref before it; it is the whole history of the      *)
(* drive, written here as the sequence of its trees, oldest first.         *)
(***************************************************************************)
EXTENDS Naturals, Sequences

CONSTANTS
  Name,      \* the paths commands work on
  File,      \* what a host file or directory holds
  Absent,    \* no entry under a name
  ZeroTree   \* the all zero hash of a zero valued refs.Ref; no chunk has it

ASSUME AbsentAssumption == Absent \notin File

(***************************************************************************)
(* A directory tree: what each path holds.                                 *)
(***************************************************************************)
Tree == [Name -> File \cup {Absent}]

EmptyTree == [n \in Name |-> Absent]

ASSUME ZeroTreeAssumption == ZeroTree \notin Tree

(***************************************************************************)
(* A ref is the history it links together.  The empty sequence stands for  *)
(* a drive whose root was never set.                                       *)
(***************************************************************************)
History == Seq(Tree \cup {ZeroTree})

Prefix(s, i) == [j \in 1..i |-> s[j]]

Latest(s) == s[Len(s)]

\* What GetRef's zero Ref, or a PutRef that failed, makes of a root.
ZeroRef == <<ZeroTree>>

BlockChunk(f) == [block |-> f]
DirChunk(t) == [dir |-> t]
RefChunk(s) == [ref |-> s]

Chunk ==
  [block : File] \cup [dir : Tree \cup {ZeroTree}] \cup [ref : History]

Blocks(t) ==
  IF t = ZeroTree THEN {} ELSE {BlockChunk(f) : f \in {t[n] : n \in Name} \ {Absent}}

\* The chunks of one tree.
TreeChunks(t) == {DirChunk(t)} \cup Blocks(t)

(***************************************************************************)
(* Everything that can be reached from a ref: the chain of refs, their     *)
(* trees and the blocks of those.                                          *)
(***************************************************************************)
Reach(s) ==
  UNION { {RefChunk(Prefix(s, i))} \cup TreeChunks(s[i]) : i \in 1..Len(s) }

-----------------------------------------------------------------------------
(***************************************************************************)
(* The commands that change a drive.  A name stands for a path, and every  *)
(* entry is of the same kind.                                              *)
(***************************************************************************)
Command ==
  [cmd : {"put", "mkdir"}, dst : Name, file : File]
    \cup [cmd : {"cp", "cpwhen", "mv"}, src : Name, dst : Name]
    \cup [cmd : {"rm"}, src : Name]
    \cup [cmd : {"revert", "gc", "gckeep", "cancel"}]

Init0 == [cmd |-> "init"]   \* GetRemote on a drive that has no root yet

(***************************************************************************)
(* The tree an operation of fs/fs.go makes, as a set that is empty when it *)
(* fails.  Every one of them reads the directory first, so all fail on the *)
(* zero hash.                                                              *)
(***************************************************************************)
Holds(t, n) == t # ZeroTree /\ t[n] # Absent

\* Insert fails on a name the directory already has (WriteDir).
Insert(t, dst, f) ==
  IF t = ZeroTree \/ Holds(t, dst) THEN {} ELSE {[t EXCEPT ![dst] = f]}

Remove(t, src) == IF Holds(t, src) THEN {[t EXCEPT ![src] = Absent]} ELSE {}

\* Copy walks to the source entry and inserts it at the destination.
Copy(t, src, dst) == IF Holds(t, src) THEN Insert(t, dst, t[src]) ELSE {}

\* Move copies and removes the source from the copy.
Move(t, src, dst) == UNION { Remove(u, src) : u \in Copy(t, src, dst) }

\* The tree a command makes of the tree it works on.
Applied(o, t) ==
  IF o.cmd \in {"put", "mkdir"} THEN Insert(t, o.dst, o.file)
  ELSE IF o.cmd = "rm" THEN Remove(t, o.src)
  ELSE IF o.cmd = "mv" THEN Move(t, o.src, o.dst)
  ELSE Copy(t, o.src, o.dst)

(***************************************************************************)
(* The trees a command may make of the history base it has read; none when *)
(* the command fails.  cp -when works on any old tree of the history, by   *)
(* its time; revert takes over the tree of the ref it was given, gc the    *)
(* latest one.                                                             *)
(***************************************************************************)
NewTrees(o, base, target) ==
  IF o.cmd = "init" THEN {EmptyTree}
  ELSE IF o.cmd = "revert" THEN {Latest(target)}
  ELSE IF o.cmd \in {"gc", "gckeep", "cancel"} THEN {Latest(base)}
  ELSE IF o.cmd = "cpwhen" THEN UNION { Applied(o, base[i]) : i \in 1..Len(base) }
  ELSE Applied(o, Latest(base))

(***************************************************************************)
(* The chunks a command puts, on the way to a ref for the tree t: the host *)
(* data it uploads, the directories it rewrites and the ref.               *)
(***************************************************************************)
NewChunks(o, new, t) ==
  {RefChunk(new)}
    \cup (IF o.cmd \in {"revert", "gc"} THEN {} ELSE {DirChunk(t)})
    \cup (IF o.cmd \in {"put", "mkdir"} THEN {BlockChunk(o.file)} ELSE {})

\* init and gc write a ref that has no previous ref, every other command
\* appends to the history it read.
NewRef(o, base, t) ==
  IF o.cmd \in {"init", "gc"} THEN <<t>> ELSE Append(base, t)
=============================================================================
