-------------------------- MODULE IndexCacheProofs --------------------------
(***************************************************************************)
(* The proof that a metaIndex is whole, for any number of processes and    *)
(* packs.                                                                  *)
(***************************************************************************)
EXTENDS IndexCache, TLAPS

\* The pack whose index a process is about to learn.
Pending(a) == IF pc[a] \in {"stat", "open", "fetch"} THEN cur[a] ELSE {}

(***************************************************************************)
(* What holds of each process at every step: it knows the whole indexes of *)
(* the packs it listed, except those it has still to load.                 *)
(***************************************************************************)
ProcInv(a) ==
  /\ todo[a] \subseteq listing[a]
  /\ Pending(a) \subseteq listing[a] \ todo[a]
  /\ \A p, q \in cur[a] : p = q
  /\ midx[a] = (listing[a] \ (todo[a] \cup Pending(a))) \X {"whole"}
  /\ pc[a] = "ready" => todo[a] = {}
  /\ pc[a] = "rename" => tmp[a] = "whole"

\* A file that has its name is whole.
FilesWhole == \A p \in Pack : files[p] # "part"

IndexInv ==
  /\ TypeOK
  /\ FilesWhole
  /\ \A a \in Proc : ProcInv(a)

(***************************************************************************)
(* A step of one process leaves what it says of the others.                *)
(***************************************************************************)
SameAt(b) ==
  /\ pc'[b] = pc[b] /\ listing'[b] = listing[b] /\ todo'[b] = todo[b]
  /\ cur'[b] = cur[b] /\ tmp'[b] = tmp[b] /\ midx'[b] = midx[b]

LEMMA SameKeeps ==
  ASSUME NEW b \in Proc, ProcInv(b), SameAt(b)
  PROVE  ProcInv(b)'
BY Zenon DEF ProcInv, SameAt, Pending

LEMMA StepKeeps ==
  ASSUME IndexInv, NEW a \in Proc, TypeOK', FilesWhole', ProcInv(a)',
         \A b \in Proc : b # a => SameAt(b)
  PROVE  IndexInv'
BY SameKeeps, Zenon DEF IndexInv

LEMMA IndexInit ==
  Init => IndexInv
<1> SUFFICES ASSUME Init
             PROVE  IndexInv
  OBVIOUS
<1>1. TypeOK
  BY DEF Init, TypeOK
<1>2. FilesWhole
  BY DEF Init, FilesWhole
<1>3. ASSUME NEW a \in Proc
      PROVE  ProcInv(a)
  BY DEF Init, ProcInv, Pending
<1> QED BY <1>1, <1>2, <1>3, Zenon DEF IndexInv

LEMMA ListPacksKeeps ==
  ASSUME IndexInv, NEW a \in Proc, ListPacks(a)
  PROVE  IndexInv'
<1>1. TypeOK'
  BY DEF IndexInv, TypeOK, ListPacks, Goto
<1>2. FilesWhole'
  BY Zenon DEF IndexInv, FilesWhole, ListPacks
<1>3. ProcInv(a)'
  BY DEF IndexInv, TypeOK, ProcInv, Pending, ListPacks, Goto
<1>4. \A b \in Proc : b # a => SameAt(b)
  BY DEF IndexInv, TypeOK, SameAt, ListPacks, Goto
<1> QED BY <1>1, <1>2, <1>3, <1>4, StepKeeps, Zenon

LEMMA CleanKeeps ==
  ASSUME IndexInv, NEW a \in Proc, Clean(a)
  PROVE  IndexInv'
<1>1. TypeOK'
  BY DEF IndexInv, TypeOK, Clean, Goto
<1>2. FilesWhole'
  BY DEF IndexInv, FilesWhole, Clean
<1>3. ProcInv(a)'
  BY DEF IndexInv, TypeOK, ProcInv, Pending, Clean, Goto
<1>4. \A b \in Proc : b # a => SameAt(b)
  BY DEF IndexInv, TypeOK, SameAt, Clean, Goto
<1> QED BY <1>1, <1>2, <1>3, <1>4, StepKeeps, Zenon

LEMMA NextPackKeeps ==
  ASSUME IndexInv, NEW a \in Proc, NextPack(a)
  PROVE  IndexInv'
<1>1. TypeOK'
  BY DEF IndexInv, TypeOK, NextPack, Goto
<1>2. FilesWhole'
  BY Zenon DEF IndexInv, FilesWhole, NextPack
<1>3. ProcInv(a)'
  <2>1. ProcInv(a) /\ Pending(a) = {}
    BY DEF IndexInv, NextPack, Pending
  <2>2. CASE todo[a] = {} /\ cur' = [cur EXCEPT ![a] = {}] /\ Goto(a, "ready") /\ UNCHANGED todo
    BY <2>1, <2>2 DEF IndexInv, TypeOK, ProcInv, Pending, NextPack, Goto
  <2>3. ASSUME NEW p \in todo[a], cur' = [cur EXCEPT ![a] = {p}],
               todo' = [todo EXCEPT ![a] = @ \ {p}], Goto(a, "stat")
        PROVE  ProcInv(a)'
    <3>1. /\ pc'[a] = "stat" /\ cur'[a] = {p} /\ todo'[a] = todo[a] \ {p}
          /\ listing'[a] = listing[a] /\ midx'[a] = midx[a]
      BY <2>3 DEF IndexInv, TypeOK, NextPack, Goto
    <3>2. Pending(a)' = {p}
      BY <3>1 DEF Pending
    <3>3. listing[a] \ (todo[a] \cup {}) = listing[a] \ ((todo[a] \ {p}) \cup {p})
      BY <2>3
    <3> QED BY <2>1, <2>3, <3>1, <3>2, <3>3 DEF ProcInv
  <2> QED BY <2>2, <2>3, Zenon DEF NextPack
<1>4. \A b \in Proc : b # a => SameAt(b)
  BY DEF IndexInv, TypeOK, SameAt, NextPack, Goto
<1> QED BY <1>1, <1>2, <1>3, <1>4, StepKeeps, Zenon

LEMMA StatKeeps ==
  ASSUME IndexInv, NEW a \in Proc, NEW p \in cur[a], Stat(a, p)
  PROVE  IndexInv'
<1>1. TypeOK'
  BY DEF IndexInv, TypeOK, Stat, Goto
<1>2. FilesWhole'
  BY Zenon DEF IndexInv, FilesWhole, Stat
<1>3. ProcInv(a)'
  BY DEF IndexInv, TypeOK, ProcInv, Pending, Stat, Goto
<1>4. \A b \in Proc : b # a => SameAt(b)
  BY DEF IndexInv, TypeOK, SameAt, Stat, Goto
<1> QED BY <1>1, <1>2, <1>3, <1>4, StepKeeps, Zenon

(***************************************************************************)
(* Open and Fetch learn a whole index: the file was renamed when it was    *)
(* complete, and a pack has its index.                                     *)
(***************************************************************************)
LEMMA LearnKeeps ==
  ASSUME IndexInv, NEW a \in Proc, NEW p \in cur[a], NEW l \in {"next", "check"},
         pc[a] \in {"open", "fetch"}, Learn(a, p, "whole"), Goto(a, l),
         UNCHANGED <<live, used, files, listing, todo, cur, tmp>>
  PROVE  IndexInv'
<1>1. TypeOK'
  BY DEF IndexInv, TypeOK, Learn, Goto
<1>2. FilesWhole'
  BY Zenon DEF IndexInv, FilesWhole
<1>3. ProcInv(a)'
  <2>1. ProcInv(a) /\ Pending(a) = cur[a]
    BY DEF IndexInv, Pending
  <2>2. /\ pc'[a] = l /\ cur'[a] = cur[a] /\ todo'[a] = todo[a] /\ listing'[a] = listing[a]
        /\ midx'[a] = midx[a] \cup {<<p, "whole">>}
    BY DEF IndexInv, TypeOK, Learn, Goto
  <2>3. Pending(a)' = {}
    BY <2>2 DEF Pending
  <2>4. midx'[a] = (listing[a] \ (todo[a] \cup {})) \X {"whole"}
    <3>1. (\A q \in cur[a] : q = p) /\ cur[a] \subseteq listing[a] \ todo[a]
      BY <2>1, Zenon DEF ProcInv
    <3>2. midx[a] = (listing[a] \ (todo[a] \cup cur[a])) \X {"whole"}
      BY <2>1, Zenon DEF ProcInv
    <3>3. ((listing[a] \ (todo[a] \cup cur[a])) \X {"whole"}) \cup {<<p, "whole">>}
            = (listing[a] \ (todo[a] \cup {})) \X {"whole"}
      BY <3>1
    <3> QED BY <2>2, <3>2, <3>3, Zenon
  <2>5. pc'[a] # "ready" /\ pc'[a] # "rename"
    BY <2>2
  <2> QED BY <2>1, <2>2, <2>3, <2>4, <2>5, Zenon DEF ProcInv
<1>4. \A b \in Proc : b # a => SameAt(b)
  BY DEF IndexInv, TypeOK, SameAt, Learn, Goto
<1> QED BY <1>1, <1>2, <1>3, <1>4, StepKeeps, Zenon

LEMMA CacheIndexKeeps ==
  ASSUME IndexInv, NEW a \in Proc, NEW p \in cur[a], CacheIndex(a, p)
  PROVE  IndexInv'
<1>1. TypeOK'
  BY DEF IndexInv, TypeOK, CacheIndex, CreateTmp, Goto
<1>2. FilesWhole'
  BY Zenon DEF IndexInv, FilesWhole, CacheIndex, CreateTmp
<1>3. ProcInv(a)'
  BY DEF IndexInv, TypeOK, ProcInv, Pending, CacheIndex, CreateTmp, Goto
<1>4. \A b \in Proc : b # a => SameAt(b)
  BY DEF IndexInv, TypeOK, SameAt, CacheIndex, CreateTmp, Goto
<1> QED BY <1>1, <1>2, <1>3, <1>4, StepKeeps, Zenon

LEMMA WriteIndexKeeps ==
  ASSUME IndexInv, NEW a \in Proc, NEW p \in cur[a], WriteIndex(a, p)
  PROVE  IndexInv'
<1>1. TypeOK'
  BY DEF IndexInv, TypeOK, WriteIndex, Goto
<1>2. FilesWhole'
  BY Zenon DEF IndexInv, FilesWhole, WriteIndex
<1>3. ProcInv(a)'
  BY DEF IndexInv, TypeOK, ProcInv, Pending, WriteIndex, Goto
<1>4. \A b \in Proc : b # a => SameAt(b)
  BY DEF IndexInv, TypeOK, SameAt, WriteIndex, Goto
<1> QED BY <1>1, <1>2, <1>3, <1>4, StepKeeps, Zenon

LEMMA RenameKeeps ==
  ASSUME IndexInv, NEW a \in Proc, NEW p \in cur[a], Rename(a, p)
  PROVE  IndexInv'
<1>1. TypeOK'
  BY DEF IndexInv, TypeOK, Rename, Goto
<1>2. FilesWhole'
  <2>1. tmp[a] = "whole"
    BY Zenon DEF IndexInv, ProcInv, Rename
  <2> QED BY <2>1 DEF IndexInv, TypeOK, FilesWhole, Rename
<1>3. ProcInv(a)'
  BY DEF IndexInv, TypeOK, ProcInv, Pending, Rename, Goto
<1>4. \A b \in Proc : b # a => SameAt(b)
  BY DEF IndexInv, TypeOK, SameAt, Rename, Goto
<1> QED BY <1>1, <1>2, <1>3, <1>4, StepKeeps, Zenon

LEMMA FlushKeeps ==
  ASSUME IndexInv, NEW a \in Proc, NEW p \in Pack, Flush(a, p)
  PROVE  IndexInv'
<1>1. TypeOK'
  BY DEF IndexInv, TypeOK, Flush, Goto
<1>2. FilesWhole'
  BY Zenon DEF IndexInv, FilesWhole, Flush
<1>3. ProcInv(a)'
  BY DEF IndexInv, TypeOK, ProcInv, Pending, Flush, Goto
<1>4. \A b \in Proc : b # a => SameAt(b)
  BY DEF IndexInv, TypeOK, SameAt, Flush, Goto
<1> QED BY <1>1, <1>2, <1>3, <1>4, StepKeeps, Zenon

LEMMA DieKeeps ==
  ASSUME IndexInv, NEW a \in Proc, Die(a)
  PROVE  IndexInv'
<1>1. TypeOK'
  BY DEF IndexInv, TypeOK, Die, Goto
<1>2. FilesWhole'
  BY Zenon DEF IndexInv, FilesWhole, Die
<1>3. ProcInv(a)'
  BY DEF IndexInv, TypeOK, ProcInv, Pending, Die, Goto
<1>4. \A b \in Proc : b # a => SameAt(b)
  BY DEF IndexInv, TypeOK, SameAt, Die, Goto
<1> QED BY <1>1, <1>2, <1>3, <1>4, StepKeeps, Zenon

LEMMA RemovePackKeeps ==
  ASSUME IndexInv, NEW p \in Pack, RemovePack(p)
  PROVE  IndexInv'
<1>1. TypeOK'
  BY DEF IndexInv, TypeOK, RemovePack
<1>2. FilesWhole'
  BY Zenon DEF IndexInv, FilesWhole, RemovePack
<1>3. \A b \in Proc : SameAt(b)
  BY Zenon DEF SameAt, RemovePack
<1> QED BY <1>1, <1>2, <1>3, SameKeeps, Zenon DEF IndexInv

LEMMA IndexStep ==
  ASSUME IndexInv, [Next]_vars
  PROVE  IndexInv'
<1>1. CASE UNCHANGED vars
  <2>1. TypeOK' /\ FilesWhole'
    BY <1>1 DEF IndexInv, TypeOK, FilesWhole, vars
  <2>2. \A b \in Proc : SameAt(b)
    BY <1>1, Zenon DEF SameAt, vars
  <2> QED BY <2>1, <2>2, SameKeeps, Zenon DEF IndexInv
<1>2. ASSUME NEW a \in Proc, ListPacks(a) \/ Clean(a) \/ NextPack(a) \/ Die(a)
      PROVE  IndexInv'
  BY <1>2, ListPacksKeeps, CleanKeeps, NextPackKeeps, DieKeeps, Zenon
<1>3. ASSUME NEW a \in Proc, NEW p \in cur[a], Stat(a, p) \/ Open(a, p) \/ Fetch(a, p)
      PROVE  IndexInv'
  <2>1. CASE Stat(a, p)
    BY <2>1, StatKeeps, Zenon
  <2>2. CASE Open(a, p)
    <3>1. p \in Pack
      BY Zenon DEF IndexInv, TypeOK
    <3>2. files[p] = "whole"
      BY <2>2, <3>1 DEF Open, IndexInv, TypeOK, FilesWhole
    <3> QED BY <2>2, <3>2, LearnKeeps, Zenon DEF Open
  <2>3. CASE Fetch(a, p)
    BY <2>3, LearnKeeps, Zenon DEF Fetch
  <2> QED BY <1>3, <2>1, <2>2, <2>3, Zenon
<1>4. ASSUME NEW a \in Proc, NEW p \in cur[a],
             CacheIndex(a, p) \/ WriteIndex(a, p) \/ Rename(a, p)
      PROVE  IndexInv'
  BY <1>4, CacheIndexKeeps, WriteIndexKeeps, RenameKeeps, Zenon
<1>5. ASSUME NEW a \in Proc, NEW p \in Pack, Flush(a, p)
      PROVE  IndexInv'
  BY <1>5, FlushKeeps, Zenon
<1>6. ASSUME NEW p \in Pack, RemovePack(p)
      PROVE  IndexInv'
  BY <1>6, RemovePackKeeps, Zenon
<1> QED BY <1>1, <1>2, <1>3, <1>4, <1>5, <1>6, Zenon DEF Next

(***************************************************************************)
(* A process that has loaded its metaIndex knows the whole index of every  *)
(* pack it listed and of no other, whatever other processes do to the      *)
(* shared files and wherever any of them was killed.                       *)
(***************************************************************************)
THEOREM AlwaysWhole == Spec => []LoadedWhole
<1>1. Init => IndexInv
  BY IndexInit
<1>2. IndexInv /\ [Next]_vars => IndexInv'
  BY IndexStep
<1>3. IndexInv => LoadedWhole
  <2> SUFFICES ASSUME IndexInv, NEW a \in Proc, pc[a] = "ready"
               PROVE  midx[a] = listing[a] \X {"whole"}
    BY Zenon DEF LoadedWhole
  <2>1. todo[a] = {} /\ Pending(a) = {}
        /\ midx[a] = (listing[a] \ (todo[a] \cup Pending(a))) \X {"whole"}
    BY DEF IndexInv, ProcInv, Pending
  <2>2. listing[a] \ ({} \cup {}) = listing[a]
    OBVIOUS
  <2> QED BY <2>1, <2>2, Zenon
<1> QED BY <1>1, <1>2, <1>3, PTL DEF Spec
=============================================================================
