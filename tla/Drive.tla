------------------------------- MODULE Drive --------------------------------
(***************************************************************************)
(* A drive: the remote and any number of clients that run commands.        *)
(***************************************************************************)
EXTENDS Collect

vars == <<remote, clientVars, gcVars>>

Init == RemoteInit /\ CommitInit /\ CollectInit

(***************************************************************************)
(* A command ends early: it is killed, loses its connection or dies on an  *)
(* error of any call.  An open pack is dropped, a collection stays running *)
(* on the remote.                                                          *)
(***************************************************************************)
Die(c) ==
  /\ ~At(c, "idle")
  /\ Exit(c)
  /\ DropGC(c)
  /\ UNCHANGED remote

Next ==
  \E c \in Client :
    \/ CommitStep(c) /\ UNCHANGED gcVars
    \/ CollectStep(c)
    \/ Die(c)

Spec == Init /\ [][Next]_vars

-----------------------------------------------------------------------------
(***************************************************************************)
(* Every variable has its type.                                            *)
(***************************************************************************)
TypeOK == RemoteTypeOK /\ CommitTypeOK /\ CollectTypeOK

(***************************************************************************)
(* Every chunk of every tree of the drive's history is in a pack of the    *)
(* remote: a root is only swapped in when all it needs is stored, and no   *)
(* collection removes a chunk that can be reached.                         *)
(***************************************************************************)
RootComplete == Reach(root) \subseteq Stored

(***************************************************************************)
(* A collection that ran to its end uninterrupted left no chunk behind     *)
(* that the root does not reach, in any pack it had listed.                *)
(***************************************************************************)
SweepReclaims ==
  \A c \in Client :
    At(c, "gcend") /\ gcRunning /\ myEpoch[c] = epoch =>
      \A p \in listed[c] \cap live : packs[p] \subseteq Reach(root)

(***************************************************************************)
(* No step takes away a chunk that the root reaches: an old pack is removed*)
(* when all that is reachable in it is in another pack, whatever failed    *)
(* before, whoever else collects and whatever is written meanwhile.        *)
(***************************************************************************)
KeepsReachable == [][Reach(root) \cap Stored \subseteq Stored']_vars

(***************************************************************************)
(* No two clients can both still remove packs: a second collection makes   *)
(* the first one fail.                                                     *)
(***************************************************************************)
InGC(c) ==
  pc[c] \in {"gcroot", "gcmark", "gclist", "gcsweep", "gcmove", "gcclose",
                "gcremove", "gcend"}

Collecting(c) == InGC(c) /\ gcRunning /\ myEpoch[c] = epoch

OneCollector ==
  \A c, d \in Client : Collecting(c) /\ Collecting(d) => c = d

(***************************************************************************)
(* The drive keeps the promise of module DriveHistory: no update is lost   *)
(* or applied to a history that is no longer current, gc changes nothing   *)
(* but the history's length, and nothing else ever touches the root.       *)
(***************************************************************************)
DH == INSTANCE DriveHistory WITH hist <- root

HistoryKept == DH!Spec

(***************************************************************************)
(* cp adds an entry under a new name and changes nothing else in the tree  *)
(* that is current.                                                        *)
(***************************************************************************)
CopyOnlyAdds ==
  [][\A c \in Client :
       CasRoot(c) /\ op[c].cmd \in {"cp", "cpwhen"} =>
         \A n \in Name \ {op[c].dst} : Latest(root')[n] = Latest(root)[n]]_vars
=============================================================================
