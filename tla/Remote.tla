------------------------------- MODULE Remote -------------------------------
(***************************************************************************)
(* The remote server.  Its code is not part of the repository: this is the *)
(* contract the client (remote/remote.go and remote/client/client.go)      *)
(* relies on.  A request and its answer are one step.                      *)
(*                                                                         *)
(* Pack files appear when TClosePack succeeds and never change after that. *)
(* A pack name is 256 random bits and is never used twice: the number of a *)
(* pack, in the order of their commits, stands for its name.               *)
(***************************************************************************)
EXTENDS Chunks

CONSTANTS
  MaxPacks,    \* bound on the number of packs ever written
  MaxVersion,  \* bound on the number of times the root is set
  MaxEpoch     \* bound on the number of collections started and stopped

ASSUME BoundAssumption == MaxPacks \in Nat /\ MaxVersion \in Nat /\ MaxEpoch \in Nat

VARIABLES
  root,       \* the history the signed root names; <<>> while there is none
  version,    \* the root's version; bpy.NextRootVersion is the successor
  epoch,      \* the generation a commit or a removal must name
  gcRunning,  \* a collection was started and not stopped
  packs,      \* what each pack ever committed holds
  live        \* the packs that exist

remote == <<root, version, epoch, gcRunning, packs, live>>

RemoteTypeOK ==
  /\ root \in History
  /\ version \in Nat
  /\ epoch \in Nat
  /\ gcRunning \in BOOLEAN
  /\ packs \in Seq(SUBSET Chunk)
  /\ live \subseteq 1..Len(packs)

RemoteInit ==
  /\ root = <<>>
  /\ version = 0
  /\ epoch = 0
  /\ gcRunning = FALSE
  /\ packs = <<>>
  /\ live = {}

\* Every chunk some existing pack holds.
Stored == UNION { packs[p] : p \in live }

\* Mutant of CommitPack: the pack is listed under the name of the next one.
CommitPackMisnamed(S) ==
  \/ /\ S = {}
     /\ UNCHANGED <<packs, live>>
  \/ /\ S # {}
     /\ Len(packs) < MaxPacks
     /\ packs' = Append(packs, S)
     /\ live' = live \cup {Len(packs) + 2}

(***************************************************************************)
(* TNewPack ... TClosePack: a pack with the chunks S is committed.  A pack *)
(* is only opened for a first chunk, so nothing happens for none.          *)
(***************************************************************************)
CommitPack(S) ==
  \/ /\ S = {}
     /\ UNCHANGED <<packs, live>>
  \/ /\ S # {}
     /\ Len(packs) < MaxPacks
     /\ packs' = Append(packs, S)
     /\ live' = live \cup {Len(packs) + 1}

\* Mutant of Accepts: the epoch is not looked at.
AcceptsAnyEpoch(e) == ~gcRunning

\* A collection blocks every update, an update of an older epoch is refused.
Accepts(e) == ~gcRunning /\ e = epoch

\* Mutant of SwapRoot: the version is not compared.
SwapRootBlindly(ref, v) ==
  /\ version < MaxVersion
  /\ root' = ref
  /\ version' = version + 1
  /\ UNCHANGED <<epoch, gcRunning, packs, live>>

(***************************************************************************)
(* TCasRoot succeeds when the new version follows the current one.         *)
(***************************************************************************)
SwapRoot(ref, v) ==
  /\ version = v
  /\ version < MaxVersion
  /\ root' = ref
  /\ version' = version + 1
  /\ UNCHANGED <<epoch, gcRunning, packs, live>>

\* TStartGC takes over from a running collection.
StartEpoch ==
  /\ epoch < MaxEpoch
  /\ epoch' = epoch + 1
  /\ gcRunning' = TRUE
  /\ UNCHANGED <<root, version, packs, live>>

\* TStopGC ends the epoch of the collection it stops.
StopEpoch ==
  /\ epoch' = IF gcRunning THEN epoch + 1 ELSE epoch
  /\ gcRunning' = FALSE
  /\ UNCHANGED <<root, version, packs, live>>

\* TRemove: only the running collection may remove a pack.
RemovePack(p, e) ==
  /\ gcRunning
  /\ e = epoch
  /\ p \in live
  /\ live' = live \ {p}
  /\ UNCHANGED <<root, version, epoch, gcRunning, packs>>
=============================================================================
