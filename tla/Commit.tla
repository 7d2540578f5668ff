------------------------------- MODULE Commit -------------------------------
(***************************************************************************)
(* The commands that write to a drive: put, mkdir, rm, cp, mv, revert, the *)
(* first connection to an empty drive, and the history clearing part of gc *)
(* (cmd/bpy/...).  Each one reads the epoch and the root, puts the chunks  *)
(* of a new root through a cstore.Writer and swaps the root.  The program  *)
(* counter says which remote call a client is about to make; what a client *)
(* computes between two calls is part of the call before it.               *)
(***************************************************************************)
EXTENDS Remote, FiniteSets

CONSTANTS
  Client,    \* running bpy commands, each with a connection of its own
  Commands,  \* the commands each client may be asked to run
  Faults,    \* what may fail: a pack's "close", a "put" or a "get" of a chunk
  PackLimit  \* how many chunks fill a pack, for the 128MB of the code

ASSUME PackLimitAssumption == PackLimit \in Nat \ {0}

ASSUME CommandsAssumption == Commands \in [Client -> SUBSET Command]

VARIABLES
  pc,       \* the remote call each client is about to make
  op,       \* the command it runs
  target,   \* revert: the ref given on the command line
  myEpoch,  \* the epoch read
  idx,      \* cstore.Reader: the packs in its meta index
  wset,     \* cstore.Writer: the working set, the chunks of the open pack
  todo,     \* the chunks still to be put
  base,     \* the root read,
  ver,      \* its version
  new       \* and the root to be committed

cmdVars == <<op, target>>
storeVars == <<idx, wset, todo>>
rootVars == <<base, ver, new>>
clientVars == <<pc, cmdVars, myEpoch, storeVars, rootVars>>

PC ==
  {"idle", "epoch", "store", "root", "ref", "build", "rotate", "close", "cas",
   "gcstop", "gcstart", "gcroot", "gcmark", "gclist", "gcsweep", "gcmove",
   "gcclose", "gcremove", "gcend"}

CommitTypeOK ==
  /\ pc \in [Client -> PC]
  /\ op \in [Client -> Command \cup {Init0}]
  /\ target \in [Client -> History]
  /\ myEpoch \in [Client -> Nat]
  /\ idx \in [Client -> SUBSET Nat]
  /\ wset \in [Client -> SUBSET Chunk]
  /\ todo \in [Client -> SUBSET Chunk]
  /\ base \in [Client -> History]
  /\ ver \in [Client -> Nat]
  /\ new \in [Client -> History]

CommitInit ==
  /\ pc = [c \in Client |-> "idle"]
  /\ op = [c \in Client |-> Init0]
  /\ target = [c \in Client |-> <<>>]
  /\ myEpoch = [c \in Client |-> 0]
  /\ idx = [c \in Client |-> {}]
  /\ wset = [c \in Client |-> {}]
  /\ todo = [c \in Client |-> {}]
  /\ base = [c \in Client |-> <<>>]
  /\ ver = [c \in Client |-> 0]
  /\ new = [c \in Client |-> <<>>]

Goto(c, l) == pc' = [pc EXCEPT ![c] = l]

\* What a client computed from the root it read is forgotten,
ForgetRoot(c) ==
  /\ base' = [base EXCEPT ![c] = <<>>]
  /\ ver' = [ver EXCEPT ![c] = 0]
  /\ new' = [new EXCEPT ![c] = <<>>]

\* or all a client has: its command is over.
Exit(c) ==
  /\ Goto(c, "idle")
  /\ op' = [op EXCEPT ![c] = Init0]
  /\ target' = [target EXCEPT ![c] = <<>>]
  /\ myEpoch' = [myEpoch EXCEPT ![c] = 0]
  /\ idx' = [idx EXCEPT ![c] = {}]
  /\ wset' = [wset EXCEPT ![c] = {}]
  /\ todo' = [todo EXCEPT ![c] = {}]
  /\ ForgetRoot(c)

At(c, l) == pc[c] = l

\* cstore.Reader.Has: the meta index is not checked against the remote.
Has(c, h) == \E p \in idx[c] : h \in packs[p]

GCCommands == {"gc", "gckeep", "cancel"}

-----------------------------------------------------------------------------
(***************************************************************************)
(* GetRemote found a root: the command proper starts.  A user who reverts  *)
(* took the hash from the history as it is now.                            *)
(***************************************************************************)
Start(c, o) ==
  /\ At(c, "idle")
  /\ root # <<>>
  /\ Goto(c, IF o.cmd \in GCCommands THEN "store" ELSE "epoch")
  /\ op' = [op EXCEPT ![c] = o]
  /\ \/ o.cmd # "revert" /\ UNCHANGED target
     \/ /\ o.cmd = "revert"
        /\ \E i \in 1..Len(root) : target' = [target EXCEPT ![c] = Prefix(root, i)]
  /\ UNCHANGED <<remote, myEpoch, storeVars, rootVars>>

\* GetRemote found no root and sets up an empty drive; the swap's outcome is
\* ignored, and the command is started from the root there is then.
StartInit(c) ==
  /\ At(c, "idle")
  /\ root = <<>>
  /\ Goto(c, "epoch")
  /\ ver' = [ver EXCEPT ![c] = version]
  /\ UNCHANGED <<remote, cmdVars, myEpoch, storeVars, base, new>>

GetEpoch(c) ==
  /\ At(c, "epoch")
  /\ Goto(c, IF op[c].cmd = "gc" THEN "root" ELSE "store")
  /\ myEpoch' = [myEpoch EXCEPT ![c] = epoch]
  /\ UNCHANGED <<remote, cmdVars, storeVars, rootVars>>

\* GetCStore lists the packs and loads their indexes.
GetCStore(c) ==
  /\ At(c, "store")
  /\ idx' = [idx EXCEPT ![c] = live]
  /\ wset' = [wset EXCEPT ![c] = {}]
  /\ \/ /\ op[c].cmd = "init"
        /\ Goto(c, "build")
        /\ new' = [new EXCEPT ![c] = <<EmptyTree>>]
        /\ todo' = [todo EXCEPT ![c] = NewChunks(op[c], <<EmptyTree>>, EmptyTree)]
     \/ /\ op[c].cmd # "init"
        /\ Goto(c, IF op[c].cmd \in GCCommands THEN "gcstop" ELSE "root")
        /\ UNCHANGED <<new, todo>>
  /\ UNCHANGED <<remote, cmdVars, myEpoch, base, ver>>

GetRoot(c) ==
  /\ At(c, "root")
  /\ Goto(c, "ref")
  /\ base' = [base EXCEPT ![c] = root]
  /\ ver' = [ver EXCEPT ![c] = version]
  /\ UNCHANGED <<remote, cmdVars, myEpoch, storeVars, new>>

\* The ref a command starts from.
RefRead(c) == IF op[c].cmd = "revert" THEN target[c] ELSE base[c]

\* The meta index after Reader.Get: reloaded if it lacked a chunk.
IndexAfterGet(c) ==
  {idx[c]} \cup
    (IF \E h \in Reach(RefRead(c)) \cap Stored : ~Has(c, h) THEN {live} ELSE {})

(***************************************************************************)
(* GetRef and the file system operation.  A chunk may come from the local  *)
(* cache, whatever the remote holds; else from the pack the index names,   *)
(* after a reload of the index when it names none.                         *)
(***************************************************************************)
GetRef(c) ==
  /\ At(c, "ref")
  /\ Goto(c, "build")
  /\ \E i \in IndexAfterGet(c) : idx' = [idx EXCEPT ![c] = i]
  /\ \E t \in NewTrees(op[c], base[c], target[c]) :
       /\ new' = [new EXCEPT ![c] = NewRef(op[c], base[c], t)]
       /\ todo' = [todo EXCEPT ![c] = NewChunks(op[c], NewRef(op[c], base[c], t), t)]
  /\ UNCHANGED <<remote, cmdVars, myEpoch, wset, base, ver>>

\* No pack has the chunk, or the one the index names is gone.
Unreadable(c, h) ==
  \/ h \notin Stored
  \/ \E p \in idx[c] \ live : h \in packs[p]

(***************************************************************************)
(* GetRef fails to read the ref.  It returns a zero Ref and no error; the  *)
(* commands that open the tree next fail there, gc and revert go on.       *)
(***************************************************************************)
GetRefFails(c) ==
  /\ At(c, "ref")
  /\ op[c].cmd \in {"gc", "revert"}
  /\ "get" \in Faults \/ Unreadable(c, RefChunk(RefRead(c)))
  /\ Goto(c, "build")
  /\ new' = [new EXCEPT ![c] = NewRef(op[c], base[c], ZeroTree)]
  /\ todo' = [todo EXCEPT ![c] = {RefChunk(NewRef(op[c], base[c], ZeroTree))}]
  /\ UNCHANGED <<remote, cmdVars, myEpoch, idx, wset, base, ver>>

\* The working set after Writer.Put of X: what the index has is left out.
AfterPut(c, X) == wset[c] \cup {h \in X : ~Has(c, h)}

(***************************************************************************)
(* Writer.Put of all chunks that are left, or of as many as overfill the   *)
(* pack; the ref is the last.                                              *)
(***************************************************************************)
PutChunks(c) ==
  /\ At(c, "build")
  /\ \E X \in SUBSET todo[c] :
       /\ \/ /\ X = todo[c]
             /\ Cardinality(AfterPut(c, X)) <= PackLimit + 1
             /\ Goto(c, "close")
          \/ /\ X \subseteq todo[c] \ {RefChunk(new[c])}
             /\ Cardinality(AfterPut(c, X)) = PackLimit + 1
             /\ Goto(c, "rotate")
       /\ wset' = [wset EXCEPT ![c] = AfterPut(c, X)]
       /\ todo' = [todo EXCEPT ![c] = @ \ X]
  /\ UNCHANGED <<remote, cmdVars, myEpoch, idx, rootVars>>

(***************************************************************************)
(* The put of the ref fails (the cache daemon went away, say).  put, mkdir *)
(* and rm overwrite the error and go on with the zero hash PutRef returns. *)
(***************************************************************************)
PutRefFails(c) ==
  /\ At(c, "build")
  /\ "put" \in Faults
  /\ op[c].cmd \in {"put", "mkdir", "rm"}
  /\ Goto(c, "close")
  /\ wset' = [wset EXCEPT ![c] = AfterPut(c, todo[c] \ {RefChunk(new[c])})]
  /\ todo' = [todo EXCEPT ![c] = {}]
  /\ new' = [new EXCEPT ![c] = ZeroRef]
  /\ UNCHANGED <<remote, cmdVars, myEpoch, idx, base, ver>>

\* flushWorkingSet in the middle of the command; a failure ends it.
Rotate(c) ==
  /\ At(c, "rotate")
  /\ CommitPack(wset[c])
  /\ Goto(c, "build")
  /\ wset' = [wset EXCEPT ![c] = {}]
  /\ UNCHANGED <<root, version, epoch, gcRunning, cmdVars, myEpoch, idx, todo, rootVars>>

\* Mutant of CloseStore: the root is swapped before the pack is committed.
CloseStoreLater(c) ==
  /\ At(c, "close")
  /\ Goto(c, "cas")
  /\ idx' = [idx EXCEPT ![c] = IF op[c].cmd = "gc" THEN live ELSE @]
  /\ UNCHANGED <<remote, cmdVars, myEpoch, wset, todo, rootVars>>

\* Writer.Close, or Writer.Flush in gc, which also reloads the index.
CloseStore(c) ==
  /\ At(c, "close")
  /\ CommitPack(wset[c])
  /\ Goto(c, "cas")
  /\ wset' = [wset EXCEPT ![c] = {}]
  /\ idx' = [idx EXCEPT ![c] = IF op[c].cmd = "gc" THEN live' ELSE @]
  /\ UNCHANGED <<root, version, epoch, gcRunning, cmdVars, myEpoch, todo, rootVars>>

\* The pack could not be committed: Close and Flush return no error.
CloseStoreFails(c) ==
  /\ At(c, "close")
  /\ "close" \in Faults
  /\ wset[c] # {}
  /\ Goto(c, "cas")
  /\ UNCHANGED <<remote, cmdVars, myEpoch, storeVars, rootVars>>

(***************************************************************************)
(* CasRoot.  An error ends the command (Die below).                        *)
(***************************************************************************)
CasRoot(c) ==
  /\ At(c, "cas")
  /\ Accepts(myEpoch[c])
  /\ SwapRoot(new[c], ver[c])
  /\ \/ op[c].cmd # "gc" /\ Exit(c)
     \/ /\ op[c].cmd = "gc"
        /\ Goto(c, "gcstart")
        /\ ForgetRoot(c)
        /\ UNCHANGED <<cmdVars, myEpoch, storeVars>>

(***************************************************************************)
(* The version has moved on.  put, cp and mv start over with a new store,  *)
(* rm with the store it has closed; nobody reads the epoch again.  The     *)
(* others give up.                                                         *)
(***************************************************************************)
CasRootLost(c) ==
  /\ At(c, "cas")
  /\ Accepts(myEpoch[c])
  /\ version # ver[c]
  /\ \/ /\ op[c].cmd \in {"put", "cp", "cpwhen", "mv", "rm"}
        /\ Goto(c, IF op[c].cmd = "rm" THEN "root" ELSE "store")
        /\ ForgetRoot(c)
        /\ UNCHANGED <<cmdVars, myEpoch, storeVars>>
     \/ op[c].cmd \notin {"put", "cp", "cpwhen", "mv", "rm"} /\ Exit(c)
  /\ UNCHANGED remote

CommitStep(c) ==
  \/ \E o \in Commands[c] : Start(c, o)
  \/ StartInit(c)
  \/ GetEpoch(c)
  \/ GetCStore(c)
  \/ GetRoot(c)
  \/ GetRef(c)
  \/ GetRefFails(c)
  \/ PutChunks(c)
  \/ PutRefFails(c)
  \/ Rotate(c)
  \/ CloseStore(c)
  \/ CloseStoreFails(c)
  \/ CasRoot(c)
  \/ CasRootLost(c)
=============================================================================
