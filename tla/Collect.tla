------------------------------ MODULE Collect -------------------------------
(***************************************************************************)
(* bpy gc (cmd/bpy/gc/gc.go, gc/gc.go): stop a running collection, clear   *)
(* the history unless told not to (the commit steps of module Commit),     *)
(* mark what the root reaches, repack it and remove the old packs.         *)
(***************************************************************************)
EXTENDS Commit

NoPack == 0  \* no pack is being swept

VARIABLES          \* the gcState of each client, with the locals of sweep
  visited,    \* what mark reached
  moved,      \* what needs no more moving
  newPack,    \* the chunks in the pack being written
  canDelete,  \* old packs to remove at the next close
  listed,     \* the packs sweep listed,
  toSweep,    \* those it has not finished,
  cur         \* and the one sweepPack is at

gcVars == <<visited, moved, newPack, canDelete, listed, toSweep, cur>>

CollectTypeOK ==
  /\ visited \in [Client -> SUBSET Chunk]
  /\ moved \in [Client -> SUBSET Chunk]
  /\ newPack \in [Client -> SUBSET Chunk]
  /\ canDelete \in [Client -> SUBSET Nat]
  /\ listed \in [Client -> SUBSET Nat]
  /\ toSweep \in [Client -> SUBSET Nat]
  /\ cur \in [Client -> Nat]

CollectInit ==
  /\ visited = [c \in Client |-> {}]
  /\ moved = [c \in Client |-> {}]
  /\ newPack = [c \in Client |-> {}]
  /\ canDelete = [c \in Client |-> {}]
  /\ listed = [c \in Client |-> {}]
  /\ toSweep = [c \in Client |-> {}]
  /\ cur = [c \in Client |-> NoPack]

DropGC(c) ==
  /\ visited' = [visited EXCEPT ![c] = {}]
  /\ moved' = [moved EXCEPT ![c] = {}]
  /\ newPack' = [newPack EXCEPT ![c] = {}]
  /\ canDelete' = [canDelete EXCEPT ![c] = {}]
  /\ listed' = [listed EXCEPT ![c] = {}]
  /\ toSweep' = [toSweep EXCEPT ![c] = {}]
  /\ cur' = [cur EXCEPT ![c] = NoPack]

-----------------------------------------------------------------------------
\* Stop any collection that is running; gc -cancel ends here.
StopGC(c) ==
  /\ At(c, "gcstop")
  /\ StopEpoch
  /\ \/ op[c].cmd = "cancel" /\ Exit(c)
     \/ /\ op[c].cmd # "cancel"
        /\ Goto(c, IF op[c].cmd = "gckeep" THEN "gcstart" ELSE "epoch")
        /\ UNCHANGED <<cmdVars, myEpoch, storeVars, rootVars>>
  /\ UNCHANGED gcVars

\* Mutant of StartGC: a collection that is running is joined.
StartGCJoins(c) ==
  /\ At(c, "gcstart")
  /\ \/ gcRunning /\ UNCHANGED remote
     \/ ~gcRunning /\ StartEpoch
  /\ Goto(c, "gcroot")
  /\ myEpoch' = [myEpoch EXCEPT ![c] = epoch']
  /\ UNCHANGED <<cmdVars, storeVars, rootVars, gcVars>>

StartGC(c) ==
  /\ At(c, "gcstart")
  /\ StartEpoch
  /\ Goto(c, "gcroot")
  /\ myEpoch' = [myEpoch EXCEPT ![c] = epoch + 1]
  /\ UNCHANGED <<cmdVars, storeVars, rootVars, gcVars>>

GCRoot(c) ==
  /\ At(c, "gcroot")
  /\ Goto(c, "gcmark")
  /\ base' = [base EXCEPT ![c] = root]
  /\ UNCHANGED <<remote, cmdVars, myEpoch, storeVars, ver, new, gcVars>>

(***************************************************************************)
(* markRef, then Close of the store, which is a last try at a pack that    *)
(* could not be committed.  Mark fails on a zero hash.                     *)
(***************************************************************************)
Mark(c) ==
  /\ At(c, "gcmark")
  /\ \A i \in 1..Len(base[c]) : base[c][i] # ZeroTree
  /\ visited' = [visited EXCEPT ![c] = Reach(base[c])]
  /\ \/ CommitPack(wset[c])
     \/ "close" \in Faults /\ UNCHANGED <<packs, live>>
  /\ Goto(c, "gclist")
  /\ ForgetRoot(c)
  /\ idx' = [idx EXCEPT ![c] = {}]
  /\ wset' = [wset EXCEPT ![c] = {}]
  /\ UNCHANGED <<root, version, epoch, gcRunning, cmdVars, myEpoch, todo>>
  /\ UNCHANGED <<moved, newPack, canDelete, listed, toSweep, cur>>

ListPacks(c) ==
  /\ At(c, "gclist")
  /\ listed' = [listed EXCEPT ![c] = live]
  /\ toSweep' = [toSweep EXCEPT ![c] = live]
  /\ Goto(c, "gcsweep")
  /\ UNCHANGED <<remote, cmdVars, myEpoch, storeVars, rootVars>>
  /\ UNCHANGED <<visited, moved, newPack, canDelete, cur>>

\* Mutant of SkipPack: a pack is kept for its size alone.
SkipPackUnmarked(c, p) ==
  /\ At(c, "gcsweep")
  /\ p \in toSweep[c] \cap live
  /\ packs[p] \cap moved[c] = {}
  /\ moved' = [moved EXCEPT ![c] = @ \cup packs[p]]
  /\ toSweep' = [toSweep EXCEPT ![c] = @ \ {p}]
  /\ UNCHANGED <<remote, clientVars, visited, newPack, canDelete, listed, cur>>

(***************************************************************************)
(* sweepPack opens the next pack.  A pack over 100MB that is all reachable *)
(* and repeats nothing stays as it is.                                     *)
(***************************************************************************)
SkipPack(c, p) ==
  /\ At(c, "gcsweep")
  /\ p \in toSweep[c] \cap live
  /\ packs[p] \subseteq visited[c]
  /\ packs[p] \cap moved[c] = {}
  /\ moved' = [moved EXCEPT ![c] = @ \cup packs[p]]
  /\ toSweep' = [toSweep EXCEPT ![c] = @ \ {p}]
  /\ UNCHANGED <<remote, clientVars, visited, newPack, canDelete, listed, cur>>

OpenPack(c, p) ==
  /\ At(c, "gcsweep")
  /\ p \in toSweep[c] \cap live
  /\ cur' = [cur EXCEPT ![c] = p]
  /\ Goto(c, "gcmove")
  /\ UNCHANGED <<remote, cmdVars, myEpoch, storeVars, rootVars>>
  /\ UNCHANGED <<visited, moved, newPack, canDelete, listed, toSweep>>

\* What sweepPack still has to move out of the pack it is at.
Needed(c) == (packs[cur[c]] \cap visited[c]) \ moved[c]

\* putValue of all of X.
PutValues(c, X) ==
  /\ newPack' = [newPack EXCEPT ![c] = @ \cup X]
  /\ moved' = [moved EXCEPT ![c] = @ \cup X]

(***************************************************************************)
(* putValue until the new pack is full,                                    *)
(***************************************************************************)
FillPack(c) ==
  /\ At(c, "gcmove")
  /\ \E X \in SUBSET Needed(c) :
       /\ X # Needed(c)
       /\ Cardinality(newPack[c] \cup X) = PackLimit
       /\ PutValues(c, X)
  /\ Goto(c, "gcclose")
  /\ UNCHANGED <<remote, cmdVars, myEpoch, storeVars, rootVars>>
  /\ UNCHANGED <<visited, canDelete, listed, toSweep, cur>>

(***************************************************************************)
(* or until the old pack has no value left to move; then it can be deleted.*)
(***************************************************************************)
PackMoved(c) ==
  /\ At(c, "gcmove")
  /\ Cardinality(newPack[c] \cup Needed(c)) <= PackLimit
  /\ PutValues(c, Needed(c))
  /\ canDelete' = [canDelete EXCEPT ![c] = @ \cup {cur[c]}]
  /\ toSweep' = [toSweep EXCEPT ![c] = @ \ {cur[c]}]
  /\ cur' = [cur EXCEPT ![c] = NoPack]
  /\ Goto(c, "gcsweep")
  /\ UNCHANGED <<remote, cmdVars, myEpoch, storeVars, rootVars, visited, listed>>

\* Every pack is swept: close the last new pack.
SweepDone(c) ==
  /\ At(c, "gcsweep")
  /\ toSweep[c] = {}
  /\ Goto(c, "gcclose")
  /\ UNCHANGED <<remote, cmdVars, myEpoch, storeVars, rootVars, gcVars>>

\* Mutant of CloseNewPack: the old packs go before the new one is committed.
CloseNewPackLater(c) ==
  /\ At(c, "gcclose")
  /\ Goto(c, "gcremove")
  /\ UNCHANGED <<remote, cmdVars, myEpoch, storeVars, rootVars, gcVars>>

\* closeCurrentWriterAndDeleteOldPacks: first the new pack is committed,
CloseNewPack(c) ==
  /\ At(c, "gcclose")
  /\ CommitPack(newPack[c])
  /\ newPack' = [newPack EXCEPT ![c] = {}]
  /\ Goto(c, "gcremove")
  /\ UNCHANGED <<root, version, epoch, gcRunning>>
  /\ UNCHANGED <<cmdVars, myEpoch, storeVars, rootVars>>
  /\ UNCHANGED <<visited, moved, canDelete, listed, toSweep, cur>>

\* then the old packs go one by one; a refusal ends the collection.
RemoveOldPack(c, p) ==
  /\ At(c, "gcremove")
  /\ p \in canDelete[c]
  /\ RemovePack(p, myEpoch[c])
  /\ canDelete' = [canDelete EXCEPT ![c] = @ \ {p}]
  /\ UNCHANGED <<clientVars, visited, moved, newPack, listed, toSweep, cur>>

RemoveDone(c) ==
  /\ At(c, "gcremove")
  /\ canDelete[c] = {}
  /\ Goto(c, IF cur[c] = NoPack THEN "gcend" ELSE "gcmove")
  /\ UNCHANGED <<remote, cmdVars, myEpoch, storeVars, rootVars, gcVars>>

EndGC(c) ==
  /\ At(c, "gcend")
  /\ StopEpoch
  /\ Exit(c)
  /\ DropGC(c)

CollectStep(c) ==
  \/ StopGC(c)
  \/ StartGC(c)
  \/ GCRoot(c)
  \/ Mark(c)
  \/ ListPacks(c)
  \/ \E p \in 1..Len(packs) : SkipPack(c, p) \/ OpenPack(c, p) \/ RemoveOldPack(c, p)
  \/ FillPack(c)
  \/ PackMoved(c)
  \/ SweepDone(c)
  \/ CloseNewPack(c)
  \/ RemoveDone(c)
  \/ EndGC(c)
=============================================================================
