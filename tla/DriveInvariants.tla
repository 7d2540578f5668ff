--------------------------- MODULE DriveInvariants --------------------------
(***************************************************************************)
(* Why a drive stays complete: the inductive invariants from which module  *)
(* DriveProofs proves the properties of module Drive.                      *)
(***************************************************************************)
EXTENDS Drive

-----------------------------------------------------------------------------
(***************************************************************************)
(* Types.  A command only starts on a drive that has a root, and the       *)
(* history it works on is never empty.                                     *)
(***************************************************************************)
Running(c) == ~At(c, "idle") /\ op[c] # Init0

IdleUnset ==
  \A c \in Client : At(c, "idle") => op[c] = Init0 /\ base[c] = <<>>

HistoriesSet ==
  \A c \in Client :
    /\ Running(c) => root # <<>>
    /\ Running(c) /\ op[c].cmd = "revert" => target[c] # <<>>
    /\ Running(c) /\ pc[c] \in {"ref", "build", "rotate", "close", "cas"} =>
         base[c] # <<>>

Building(c) == pc[c] \in {"build", "rotate", "close", "cas"}

\* What a client is about to commit is a history.
NewSet == \A c \in Client : Building(c) => new[c] # <<>>

TypeInv == TypeOK /\ IdleUnset /\ HistoriesSet /\ NewSet

-----------------------------------------------------------------------------
(***************************************************************************)
(* Epochs.  No client is ahead of the remote, and no two collections were  *)
(* given the same epoch.                                                   *)
(***************************************************************************)
EpochsRead == \A c \in Client : myEpoch[c] <= epoch

EpochsDiffer ==
  \A c, d \in Client : InGC(c) /\ InGC(d) /\ myEpoch[c] = myEpoch[d] => c = d

EpochInv == EpochsRead /\ EpochsDiffer

-----------------------------------------------------------------------------
(***************************************************************************)
(* The sweep.  As long as a collection is the one the remote runs, the     *)
(* root stays as it was marked, and whatever counts as moved is in the new *)
(* pack or in a pack that will not be removed.                             *)
(***************************************************************************)
Sweeping(c) ==
  pc[c] \in {"gclist", "gcsweep", "gcmove", "gcclose", "gcremove", "gcend"}

RootMarked(c) ==
  /\ At(c, "gcmark") => base[c] = root
  /\ Sweeping(c) => visited[c] = Reach(root)

\* Nothing is swept before the packs are listed.
SweepUnset(c) ==
  /\ moved[c] = {} /\ newPack[c] = {} /\ canDelete[c] = {}
  /\ toSweep[c] = {} /\ cur[c] = NoPack

\* Where packs are in the sweep.
PacksApart(c) ==
  /\ canDelete[c] \subseteq 1..Len(packs)
  /\ toSweep[c] \subseteq 1..Len(packs)
  /\ canDelete[c] \cap toSweep[c] = {}
  /\ cur[c] # NoPack => cur[c] \in toSweep[c]
  /\ At(c, "gcsweep") => cur[c] = NoPack
  /\ At(c, "gcmove") => cur[c] # NoPack
  /\ At(c, "gcremove") => newPack[c] = {}

\* A pack can be deleted when all that is reachable in it has been moved,
DeleteMoved(c) ==
  \A p \in canDelete[c] : packs[p] \cap visited[c] \subseteq moved[c]

\* and what has been moved is somewhere that stays.
MovedKept(c) ==
  \A h \in moved[c] :
    \/ h \in newPack[c]
    \/ \E q \in live \ (canDelete[c] \cup toSweep[c]) : h \in packs[q]

SweepOf(c) ==
  /\ ~Sweeping(c) \/ At(c, "gclist") => SweepUnset(c)
  /\ PacksApart(c)
  /\ Collecting(c) => RootMarked(c)
  /\ Collecting(c) /\ Sweeping(c) => DeleteMoved(c) /\ MovedKept(c)

SweepInv == \A c \in Client : SweepOf(c)

(***************************************************************************)
(* What the sweep leaves.  A pack that was listed is still to be swept, or *)
(* to be deleted, or gone, or there is nothing in it but what was marked,  *)
(* and the sweep does not end before it is through with all of them.       *)
(***************************************************************************)
PacksSwept(c) ==
  \A p \in listed[c] \cap live :
    p \in toSweep[c] \cup canDelete[c] \/ packs[p] \subseteq visited[c]

ReclaimOf(c) ==
  /\ listed[c] \subseteq 1..Len(packs)
  /\ Sweeping(c) /\ ~At(c, "gclist") => PacksSwept(c)
  /\ pc[c] \in {"gcclose", "gcremove"} /\ cur[c] = NoPack => toSweep[c] = {}
  /\ At(c, "gcend") => toSweep[c] = {} /\ canDelete[c] = {}

ReclaimInv == \A c \in Client : ReclaimOf(c)

-----------------------------------------------------------------------------
(***************************************************************************)
(* The use of a drive that the code is safe for: nothing fails half way,   *)
(* and a history is only cleared when nobody else collects and nobody goes *)
(* back in it.                                                             *)
(***************************************************************************)
MayRun(c, l) == [cmd |-> l] \in Commands[c]

SafeUse ==
  /\ Faults = {}
  /\ \A c \in Client : MayRun(c, "gc") =>
       \A d \in Client :
         /\ ~MayRun(d, "revert")
         /\ d # c => ~MayRun(d, "gc") /\ ~MayRun(d, "gckeep")

\* A client runs what it was given.
Permitted(c) ==
  /\ Running(c) => op[c] \in Commands[c]
  /\ InGC(c) \/ pc[c] \in {"gcstop", "gcstart"} =>
       op[c].cmd \in {"gc", "gckeep", "cancel"}
  /\ InGC(c) \/ At(c, "gcstart") => op[c].cmd \in {"gc", "gckeep"}
  /\ pc[c] \in {"epoch", "root", "ref", "build", "rotate", "close", "cas"} =>
       op[c].cmd \notin {"gckeep", "cancel"}

\* The way of a client that sets up a drive.
SettingUp(c) ==
  op[c] = Init0 =>
    /\ pc[c] \in {"idle", "epoch", "store", "build", "rotate", "close", "cas"}
    /\ base[c] = <<>>

\* The remote would still take an update of this client.
Current(c) == ~gcRunning /\ myEpoch[c] = epoch

\* The client's store is loaded.
Loaded(c) ==
  \/ pc[c] \in {"root", "ref", "build", "rotate", "close", "cas"}
  \/ op[c].cmd = "gc" /\ pc[c] \in {"gcstop", "epoch"}

\* The index of an update that can still succeed names no pack that is gone:
\* the epoch was read before the index.  gc does it the other way round and
\* depends on being the only one to remove packs.
IndexFresh(c) ==
  Loaded(c) /\ (Current(c) \/ op[c].cmd = "gc") => idx[c] \subseteq live

\* The root of a version is the one that was read with it.
RootRead(c) ==
  \/ pc[c] \in {"ref", "build", "rotate", "close", "cas"}
  \/ ~At(c, "idle") /\ op[c] = Init0

BaseRead(c) ==
  RootRead(c) => ver[c] <= version /\ (ver[c] = version => base[c] = root)

\* What an update that can still succeed commits is what its command makes
\* of the root it read.
NewMade(c) ==
  Building(c) /\ Current(c) /\ ver[c] = version =>
    \E t \in NewTrees(op[c], base[c], target[c]) : new[c] = NewRef(op[c], base[c], t)

\* Everything an update needs that can still succeed is stored or on its way.
NewCovered(c) ==
  Building(c) /\ Current(c) /\ ver[c] = version =>
    Reach(new[c]) \subseteq (todo[c] \cup wset[c]) \cup Stored

BuffersEmpty(c) ==
  /\ pc[c] \in {"close", "cas"} => todo[c] = {}
  /\ At(c, "cas") => wset[c] = {}

\* What a revert goes back to is still in the history.
TargetKept(c) ==
  Running(c) /\ op[c].cmd = "revert" =>
    \E i \in 1..Len(root) : target[c] = Prefix(root, i)

CommitOf(c) ==
  /\ Permitted(c) /\ SettingUp(c) /\ IndexFresh(c) /\ BaseRead(c) /\ NewMade(c)
  /\ NewCovered(c) /\ BuffersEmpty(c) /\ TargetKept(c)

CommitInv == \A c \in Client : CommitOf(c)

CompleteInv == TypeInv /\ EpochInv /\ SweepInv /\ CommitInv /\ RootComplete
=============================================================================
