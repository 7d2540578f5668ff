----------------------------- MODULE IndexCache -----------------------------
(***************************************************************************)
(* cstore/mindex.go: how the processes of one user share a directory with  *)
(* the indexes of packs.  A process lists the packs of the remote, deletes *)
(* the index files of all others, and then reads the index of every pack   *)
(* from its file or, when there is none, from the pack, and writes the     *)
(* file: under another name first, which is then changed.  A process that  *)
(* has written a pack adds the file for it (flushWorkingSet of writer.go). *)
(* Other machines remove packs at any time; any process may be killed.     *)
(***************************************************************************)
EXTENDS Naturals, FiniteSets

CONSTANTS Proc, Pack

VARIABLES
  live,     \* the packs on the remote
  used,     \* the packs that were ever committed
  files,    \* the index file of each pack: "none", a "part" or the "whole"
  pc,       \* what each process does
  listing,  \* the packs it listed,
  todo,     \* those it has not loaded,
  cur,      \* the one it is at,
  tmp,      \* the temporary file it writes
  midx      \* and its metaIndex: what it knows of which pack

vars == <<live, used, files, pc, listing, todo, cur, tmp, midx>>

TypeOK ==
  /\ live \subseteq used /\ used \subseteq Pack
  /\ files \in [Pack -> {"none", "part", "whole"}]
  /\ pc \in [Proc -> {"idle", "clean", "next", "stat", "open", "fetch", "check", "write",
                      "rename", "ready"}]
  /\ listing \in [Proc -> SUBSET Pack]
  /\ todo \in [Proc -> SUBSET Pack]
  /\ cur \in [Proc -> SUBSET Pack]
  /\ tmp \in [Proc -> {"none", "part", "whole"}]
  /\ midx \in [Proc -> SUBSET (Pack \X {"part", "whole"})]

Init ==
  /\ live = {}
  /\ used = {}
  /\ files = [p \in Pack |-> "none"]
  /\ pc = [a \in Proc |-> "idle"]
  /\ listing = [a \in Proc |-> {}]
  /\ todo = [a \in Proc |-> {}]
  /\ cur = [a \in Proc |-> {}]
  /\ tmp = [a \in Proc |-> "none"]
  /\ midx = [a \in Proc |-> {}]

Goto(a, l) == pc' = [pc EXCEPT ![a] = l]

Learn(a, p, state) == midx' = [midx EXCEPT ![a] = @ \cup {<<p, state>>}]

-----------------------------------------------------------------------------
\* readAndCacheMetaIndex makes a new metaIndex from the packs it lists.
ListPacks(a) ==
  /\ pc[a] \in {"idle", "ready"}
  /\ listing' = [listing EXCEPT ![a] = live]
  /\ todo' = [todo EXCEPT ![a] = live]
  /\ midx' = [midx EXCEPT ![a] = {}]
  /\ Goto(a, "clean")
  /\ UNCHANGED <<live, used, files, cur, tmp>>

\* cleanOldIndexes
Clean(a) ==
  /\ pc[a] = "clean"
  /\ files' = [p \in Pack |-> IF p \in listing[a] THEN files[p] ELSE "none"]
  /\ Goto(a, "next")
  /\ UNCHANGED <<live, used, listing, todo, cur, tmp, midx>>

\* getAndCacheIndex of the next pack, or the end.
NextPack(a) ==
  /\ pc[a] = "next"
  /\ \/ /\ todo[a] = {}
        /\ cur' = [cur EXCEPT ![a] = {}]
        /\ Goto(a, "ready")
        /\ UNCHANGED todo
     \/ \E p \in todo[a] :
          /\ cur' = [cur EXCEPT ![a] = {p}]
          /\ todo' = [todo EXCEPT ![a] = @ \ {p}]
          /\ Goto(a, "stat")
  /\ UNCHANGED <<live, used, files, listing, tmp, midx>>

Stat(a, p) ==
  /\ pc[a] = "stat"
  /\ Goto(a, IF files[p] # "none" THEN "open" ELSE "fetch")
  /\ UNCHANGED <<live, used, files, listing, todo, cur, tmp, midx>>

\* The file is opened and read, if another process has not deleted it.
Open(a, p) ==
  /\ pc[a] = "open"
  /\ files[p] # "none"
  /\ Learn(a, p, files[p])
  /\ Goto(a, "next")
  /\ UNCHANGED <<live, used, files, listing, todo, cur, tmp>>

\* Reader.ReadIndex of the pack, if it is still there.
Fetch(a, p) ==
  /\ pc[a] = "fetch"
  /\ p \in live
  /\ Learn(a, p, "whole")
  /\ Goto(a, "check")
  /\ UNCHANGED <<live, used, files, listing, todo, cur, tmp>>

\* Mutant of CreateTmp: the index is written in place.
CreateInPlace(a, p) ==
  /\ tmp' = [tmp EXCEPT ![a] = "part"]
  /\ files' = [files EXCEPT ![p] = "part"]
  /\ Goto(a, "write")

CreateTmp(a, p) ==
  /\ tmp' = [tmp EXCEPT ![a] = "part"]
  /\ Goto(a, "write")
  /\ UNCHANGED files

\* cacheIndex
CacheIndex(a, p) ==
  /\ pc[a] = "check"
  /\ \/ files[p] # "none" /\ Goto(a, "next") /\ UNCHANGED <<files, tmp>>
     \/ files[p] = "none" /\ CreateTmp(a, p)
  /\ UNCHANGED <<live, used, listing, todo, cur, midx>>

WriteIndex(a, p) ==
  /\ pc[a] = "write"
  /\ tmp' = [tmp EXCEPT ![a] = "whole"]
  /\ Goto(a, "rename")
  /\ UNCHANGED <<live, used, files, listing, todo, cur, midx>>

Rename(a, p) ==
  /\ pc[a] = "rename"
  /\ files' = [files EXCEPT ![p] = tmp[a]]
  /\ tmp' = [tmp EXCEPT ![a] = "none"]
  /\ Goto(a, "next")
  /\ UNCHANGED <<live, used, listing, todo, cur, midx>>

\* flushWorkingSet: a new pack is committed, its index cached; the metaIndex
\* does not get to know of it.
Flush(a, p) ==
  /\ pc[a] = "ready"
  /\ p \notin used
  /\ live' = live \cup {p}
  /\ used' = used \cup {p}
  /\ cur' = [cur EXCEPT ![a] = {p}]
  /\ Goto(a, "check")
  /\ UNCHANGED <<files, listing, todo, tmp, midx>>

\* A process is killed or fails; its temporary file stays and is never used.
Die(a) ==
  /\ pc[a] # "idle"
  /\ Goto(a, "idle")
  /\ listing' = [listing EXCEPT ![a] = {}]
  /\ todo' = [todo EXCEPT ![a] = {}]
  /\ cur' = [cur EXCEPT ![a] = {}]
  /\ tmp' = [tmp EXCEPT ![a] = "none"]
  /\ midx' = [midx EXCEPT ![a] = {}]
  /\ UNCHANGED <<live, used, files>>

\* A collection on another machine removes a pack.
RemovePack(p) ==
  /\ p \in live
  /\ live' = live \ {p}
  /\ UNCHANGED <<used, files, pc, listing, todo, cur, tmp, midx>>

Next ==
  \/ \E a \in Proc :
       \/ ListPacks(a) \/ Clean(a) \/ NextPack(a) \/ Die(a)
       \/ \E p \in cur[a] :
            \/ Stat(a, p) \/ Open(a, p) \/ Fetch(a, p)
            \/ CacheIndex(a, p) \/ WriteIndex(a, p) \/ Rename(a, p)
       \/ \E p \in Pack : Flush(a, p)
  \/ \E p \in Pack : RemovePack(p)

Spec == Init /\ [][Next]_vars

-----------------------------------------------------------------------------
(***************************************************************************)
(* A metaIndex is made of whole indexes, one for each pack listed and no   *)
(* other, whoever else reads, writes or deletes the files meanwhile, and   *)
(* wherever a process was killed before.                                   *)
(***************************************************************************)
LoadedWhole ==
  \A a \in Proc : pc[a] = "ready" => midx[a] = listing[a] \X {"whole"}
=============================================================================
