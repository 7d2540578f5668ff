----------------------------- MODULE DriveProofs ----------------------------
(***************************************************************************)
(* Proofs of the properties of module Drive, for any number of clients,    *)
(* names, files, packs, versions and epochs: facts about trees, histories  *)
(* and the chunks they reach, the types, the epochs, the sweep, and last   *)
(* what a drive that is used as SafeUse says keeps.                        *)
(***************************************************************************)
EXTENDS DriveInvariants, TLAPS

AnyTree == Tree \cup {ZeroTree}

(***************************************************************************)
(* The latest tree of a history is one of its trees.                       *)
(***************************************************************************)
LEMMA LatestType ==
  ASSUME NEW s \in History, s # <<>>
  PROVE  Len(s) \in 1..Len(s) /\ Latest(s) \in AnyTree
  BY DEF History, Latest, AnyTree

(***************************************************************************)
(* The file system operations make trees.                                  *)
(***************************************************************************)
LEMMA InsertType ==
  ASSUME NEW t \in AnyTree, NEW n \in Name, NEW f \in File
  PROVE  Insert(t, n, f) \subseteq Tree
  BY Zenon DEF Insert, Tree, AnyTree

LEMMA RemoveType ==
  ASSUME NEW t \in AnyTree, NEW n \in Name
  PROVE  Remove(t, n) \subseteq Tree
  BY Zenon DEF Remove, Holds, Tree, AnyTree

LEMMA CopyType ==
  ASSUME NEW t \in AnyTree, NEW n \in Name, NEW m \in Name
  PROVE  Copy(t, n, m) \subseteq Tree
<1>1. Holds(t, n) => t[n] \in File
  BY Zenon DEF Holds, Tree, AnyTree
<1> QED BY <1>1, InsertType, Zenon DEF Copy

LEMMA MoveType ==
  ASSUME NEW t \in AnyTree, NEW n \in Name, NEW m \in Name
  PROVE  Move(t, n, m) \subseteq Tree
<1> SUFFICES ASSUME NEW u \in Copy(t, n, m), NEW v \in Remove(u, n)
             PROVE  v \in Tree
  BY Zenon DEF Move
<1>1. u \in AnyTree
  BY CopyType, Zenon DEF AnyTree
<1> QED BY <1>1, RemoveType, Zenon

(***************************************************************************)
(* What the commands are made of.                                          *)
(***************************************************************************)
LEMMA CommandFields ==
  ASSUME NEW o \in Command \cup {Init0}
  PROVE  /\ o.cmd \in {"put", "mkdir"} => o.dst \in Name /\ o.file \in File
         /\ o.cmd \in {"cp", "cpwhen", "mv"} => o.src \in Name /\ o.dst \in Name
         /\ o.cmd = "rm" => o.src \in Name
         /\ o.cmd = "init" <=> o = Init0
         /\ \A l \in {"revert", "gc", "gckeep", "cancel"} :
              o.cmd = l => o = [cmd |-> l]
  BY DEF Command, Init0

(***************************************************************************)
(* Every command makes trees of a history that is not empty.               *)
(***************************************************************************)
LEMMA NewTreesType ==
  ASSUME NEW o \in Command \cup {Init0}, NEW hist \in History, NEW picked \in History,
         o # Init0 => hist # <<>>,
         o.cmd = "revert" => picked # <<>>
  PROVE  NewTrees(o, hist, picked) \subseteq AnyTree
<1>1. CASE o.cmd = "init"
  BY <1>1, Zenon DEF NewTrees, AnyTree, EmptyTree, Tree
<1>2. CASE o.cmd = "revert"
  BY <1>2, LatestType, Zenon DEF NewTrees
<1>3. CASE o.cmd \notin {"init", "revert"}
  <2>1. hist # <<>>
    BY <1>3 DEF Init0
  <2>2. \A t \in AnyTree : o.cmd \notin {"gc", "gckeep", "cancel"} =>
          Applied(o, t) \subseteq Tree
    <3> SUFFICES ASSUME NEW t \in AnyTree, o.cmd \notin {"gc", "gckeep", "cancel"}
                 PROVE  Applied(o, t) \subseteq Tree
      BY Zenon
    <3>1. o.cmd \in {"put", "mkdir", "rm", "mv", "cp", "cpwhen"}
      BY <1>3 DEF Command, Init0
    <3> QED
      BY <3>1, CommandFields, InsertType, RemoveType, MoveType, CopyType, Zenon DEF Applied
  <2>3. \A i \in 1..Len(hist) : hist[i] \in AnyTree
    BY DEF History, AnyTree
  <2> QED
    BY <1>3, <2>1, <2>2, <2>3, LatestType, Zenon DEF NewTrees, AnyTree
<1> QED BY <1>1, <1>2, <1>3, Zenon

(***************************************************************************)
(* What a command commits is a history, and what it puts are chunks.       *)
(***************************************************************************)
LEMMA NewRefType ==
  ASSUME NEW o, NEW hist \in History, NEW t \in AnyTree
  PROVE  NewRef(o, hist, t) \in History /\ NewRef(o, hist, t) # <<>>
<1>1. <<t>> \in History /\ <<t>> # <<>>
  BY DEF History, AnyTree
<1>2. Append(hist, t) \in History /\ Len(Append(hist, t)) > 0
  BY DEF History, AnyTree
<1> QED BY <1>1, <1>2 DEF NewRef

LEMMA RefChunkType ==
  ASSUME NEW s \in History
  PROVE  RefChunk(s) \in Chunk
  BY Zenon DEF RefChunk, Chunk

LEMMA NewChunksType ==
  ASSUME NEW o \in Command \cup {Init0}, NEW s \in History, NEW t \in AnyTree
  PROVE  NewChunks(o, s, t) \subseteq Chunk
<1>1. DirChunk(t) \in Chunk
  BY Zenon DEF DirChunk, Chunk, AnyTree
<1>2. o.cmd \in {"put", "mkdir"} => BlockChunk(o.file) \in Chunk
  BY CommandFields, Zenon DEF BlockChunk, Chunk
<1> QED BY <1>1, <1>2, RefChunkType, Zenon DEF NewChunks

LEMMA TreeChunksType ==
  ASSUME NEW t \in AnyTree
  PROVE  TreeChunks(t) \subseteq Chunk
<1>1. DirChunk(t) \in Chunk
  BY Zenon DEF DirChunk, Chunk, AnyTree
<1>2. Blocks(t) \subseteq Chunk
  BY DEF Blocks, BlockChunk, Chunk, AnyTree, Tree
<1> QED BY <1>1, <1>2, Zenon DEF TreeChunks

(***************************************************************************)
(* A prefix of a history is a history, and a history is its own longest    *)
(* prefix.                                                                 *)
(***************************************************************************)
LEMMA PrefixType ==
  ASSUME NEW s \in History, NEW i \in 1..Len(s)
  PROVE  Prefix(s, i) \in History /\ Prefix(s, i) # <<>> /\ Latest(Prefix(s, i)) = s[i]
<1>1. Prefix(s, i) \in [1..i -> AnyTree]
  BY DEF Prefix, History, AnyTree
<1>2. Prefix(s, i) \in History /\ Len(Prefix(s, i)) = i
  BY <1>1 DEF Prefix, History, AnyTree
<1> QED BY <1>2 DEF Prefix, Latest, History

LEMMA PrefixSelf ==
  ASSUME NEW s \in History
  PROVE  Prefix(s, Len(s)) = s
  BY DEF Prefix, History

LEMMA PrefixAppend ==
  ASSUME NEW s \in History, NEW t \in AnyTree, NEW i \in 1..Len(s)
  PROVE  i \in 1..Len(Append(s, t)) /\ Prefix(Append(s, t), i) = Prefix(s, i)
<1>1. Len(Append(s, t)) = Len(s) + 1 /\ Len(s) \in Nat
  BY DEF History, AnyTree
<1>2. \A j \in 1..i : Append(s, t)[j] = s[j]
  BY DEF History
<1> QED BY <1>1, <1>2 DEF Prefix

LEMMA ReachType ==
  ASSUME NEW s \in History
  PROVE  Reach(s) \subseteq Chunk
<1> SUFFICES ASSUME NEW i \in 1..Len(s)
             PROVE  {RefChunk(Prefix(s, i))} \cup TreeChunks(s[i]) \subseteq Chunk
  BY Zenon DEF Reach
<1>1. s[i] \in AnyTree
  BY DEF History, AnyTree
<1> QED BY <1>1, PrefixType, RefChunkType, TreeChunksType, Zenon

(***************************************************************************)
(* A history reaches its own ref and the chunks of each of its trees.      *)
(***************************************************************************)
LEMMA ReachMember ==
  ASSUME NEW s \in History, NEW i \in 1..Len(s)
  PROVE  RefChunk(Prefix(s, i)) \in Reach(s) /\ TreeChunks(s[i]) \subseteq Reach(s)
  BY DEF Reach

(***************************************************************************)
(* A longer history reaches what the shorter one did, its new ref and its  *)
(* new tree.                                                               *)
(***************************************************************************)
LEMMA ReachAppend ==
  ASSUME NEW s \in History, NEW t \in AnyTree
  PROVE  Reach(Append(s, t)) =
           Reach(s) \cup {RefChunk(Append(s, t))} \cup TreeChunks(t)
<1> DEFINE n == Append(s, t)
           P(r, i) == {RefChunk(Prefix(r, i))} \cup TreeChunks(r[i])
<1>1. n \in History /\ Len(n) = Len(s) + 1 /\ n[Len(n)] = t /\ Len(s) \in Nat
  BY DEF History, AnyTree
<1>2. \A i \in 1..Len(s) : P(n, i) = P(s, i)
  <2> SUFFICES ASSUME NEW i \in 1..Len(s)
               PROVE  Prefix(n, i) = Prefix(s, i) /\ n[i] = s[i]
    BY Zenon
  <2>1. \A j \in 1..i : n[j] = s[j]
    BY DEF History
  <2> QED BY <2>1 DEF Prefix
<1>3. P(n, Len(n)) = {RefChunk(n)} \cup TreeChunks(t)
  BY <1>1, PrefixSelf, Zenon
<1>4. 1..Len(n) = 1..Len(s) \cup {Len(n)}
  BY <1>1
<1>5. Reach(n) = UNION {P(n, i) : i \in 1..Len(n)} /\ Reach(s) = UNION {P(s, i) : i \in 1..Len(s)}
  BY Zenon DEF Reach
<1> HIDE DEF n, P
<1>6. Reach(n) = (UNION {P(s, i) : i \in 1..Len(s)}) \cup P(n, Len(n))
  BY <1>2, <1>4, <1>5, Zenon
<1>7. Reach(n) = Reach(s) \cup {RefChunk(n)} \cup TreeChunks(t)
  BY <1>3, <1>5, <1>6, Zenon
<1> QED BY <1>7, Zenon DEF n

LEMMA ReachSingle ==
  ASSUME NEW t \in AnyTree
  PROVE  Reach(<<t>>) = {RefChunk(<<t>>)} \cup TreeChunks(t)
<1>1. <<t>> \in History /\ Len(<<t>>) = 1 /\ <<t>>[1] = t
  BY DEF History, AnyTree
<1>2. Prefix(<<t>>, 1) = <<t>>
  BY <1>1, PrefixSelf, Zenon
<1>3. 1..Len(<<t>>) = {1}
  BY <1>1
<1> QED BY <1>1, <1>2, <1>3, Zenon DEF Reach

(***************************************************************************)
(* The operations on a tree need no blocks but those of the tree and of    *)
(* what is inserted.                                                       *)
(***************************************************************************)
LEMMA InsertBlocks ==
  ASSUME NEW t \in AnyTree, NEW n \in Name, NEW f \in File, NEW u \in Insert(t, n, f)
  PROVE  Blocks(u) \subseteq Blocks(t) \cup {BlockChunk(f)}
<1>1. t \in Tree /\ t # ZeroTree /\ u = [t EXCEPT ![n] = f] /\ u \in Tree
  BY InsertType, Zenon DEF Insert, AnyTree
<1>2. \A m \in Name : u[m] \in {t[k] : k \in Name} \cup {f}
  BY <1>1, Zenon DEF Tree
<1> QED BY <1>1, <1>2, Zenon DEF Blocks

LEMMA RemoveBlocks ==
  ASSUME NEW t \in AnyTree, NEW n \in Name, NEW u \in Remove(t, n)
  PROVE  Blocks(u) \subseteq Blocks(t)
<1>1. t \in Tree /\ t # ZeroTree /\ u = [t EXCEPT ![n] = Absent] /\ u \in Tree
  BY RemoveType, Zenon DEF Remove, Holds, AnyTree
<1>2. \A m \in Name : u[m] \in {t[k] : k \in Name} \cup {Absent}
  BY <1>1, Zenon DEF Tree
<1> QED BY <1>1, <1>2, Zenon DEF Blocks

LEMMA CopyBlocks ==
  ASSUME NEW t \in AnyTree, NEW n \in Name, NEW m \in Name, NEW u \in Copy(t, n, m)
  PROVE  Blocks(u) \subseteq Blocks(t)
<1>1. Holds(t, n) /\ t[n] \in File /\ u \in Insert(t, m, t[n])
  BY Zenon DEF Copy, Holds, Tree, AnyTree
<1>2. BlockChunk(t[n]) \in Blocks(t)
  BY <1>1, Zenon DEF Holds, Blocks
<1> QED BY <1>1, <1>2, InsertBlocks, Zenon

LEMMA MoveBlocks ==
  ASSUME NEW t \in AnyTree, NEW n \in Name, NEW m \in Name, NEW u \in Move(t, n, m)
  PROVE  Blocks(u) \subseteq Blocks(t)
<1>1. PICK v \in Copy(t, n, m) : u \in Remove(v, n)
  BY Zenon DEF Move
<1>2. v \in AnyTree
  BY CopyType, Zenon DEF AnyTree
<1> QED BY <1>1, <1>2, CopyBlocks, RemoveBlocks, Zenon

LEMMA AppliedBlocks ==
  ASSUME NEW o \in Command, o.cmd \notin {"revert", "gc", "gckeep", "cancel"},
         NEW t \in AnyTree, NEW u \in Applied(o, t)
  PROVE  Blocks(u) \subseteq
           Blocks(t) \cup (IF o.cmd \in {"put", "mkdir"} THEN {BlockChunk(o.file)} ELSE {})
<1>1. o.cmd \in {"put", "mkdir", "rm", "mv", "cp", "cpwhen"}
  BY Zenon DEF Command
<1> QED
  BY <1>1, CommandFields, InsertBlocks, RemoveBlocks, MoveBlocks, CopyBlocks, Zenon DEF Applied

(***************************************************************************)
(* All that a new root reaches is reachable from the root the command read,*)
(* or from the ref a revert goes back to, or is put by the command.        *)
(***************************************************************************)
LEMMA NewReach ==
  ASSUME NEW o \in Command \cup {Init0}, NEW hist \in History, NEW picked \in History,
         o # Init0 => hist # <<>>,
         o.cmd = "revert" => picked # <<>>,
         NEW t \in NewTrees(o, hist, picked)
  PROVE  Reach(NewRef(o, hist, t)) \subseteq
           (Reach(hist) \cup NewChunks(o, NewRef(o, hist, t), t))
             \cup (IF o.cmd = "revert" THEN TreeChunks(Latest(picked)) ELSE {})
<1> DEFINE n == NewRef(o, hist, t)
           Rest == IF o.cmd = "revert" THEN TreeChunks(Latest(picked)) ELSE {}
<1>1. t \in AnyTree
  BY NewTreesType, Zenon
<1>2. /\ Reach(n) \subseteq (Reach(hist) \cup {RefChunk(n)}) \cup TreeChunks(t)
      /\ RefChunk(n) \in NewChunks(o, n, t)
  BY <1>1, ReachSingle, ReachAppend, Zenon DEF NewRef, NewChunks
<1>3. TreeChunks(t) \subseteq (Reach(hist) \cup NewChunks(o, n, t)) \cup Rest
  <2>1. CASE o.cmd = "init"
    <3>1. t = EmptyTree
      BY <2>1, Zenon DEF NewTrees
    <3>2. Blocks(t) = {}
      BY <3>1, Zenon DEF Blocks, EmptyTree
    <3>3. DirChunk(t) \in NewChunks(o, n, t)
      BY <2>1, Zenon DEF NewChunks
    <3> QED BY <3>2, <3>3, Zenon DEF TreeChunks
  <2>2. CASE o.cmd = "revert"
    <3>1. t = Latest(picked)
      BY <2>2, Zenon DEF NewTrees
    <3> QED BY <2>2, <3>1, Zenon
  <2>3. CASE o.cmd \in {"gc", "gckeep", "cancel"}
    <3>1. t = Latest(hist) /\ hist # <<>>
      BY <2>3 DEF NewTrees, Init0
    <3> QED BY <3>1, LatestType, ReachMember, Zenon DEF Latest
  <2>4. CASE o.cmd \notin {"init", "revert", "gc", "gckeep", "cancel"}
    <3>1. o \in Command /\ hist # <<>>
      BY <2>4 DEF Init0
    <3>2. PICK i \in 1..Len(hist) : t \in Applied(o, hist[i])
      BY <2>4, <3>1, LatestType, Zenon DEF NewTrees, Latest
    <3>3. hist[i] \in AnyTree /\ TreeChunks(hist[i]) \subseteq Reach(hist)
      BY ReachMember DEF History, AnyTree
    <3>4. Blocks(t) \subseteq Blocks(hist[i])
            \cup (IF o.cmd \in {"put", "mkdir"} THEN {BlockChunk(o.file)} ELSE {})
      BY <2>4, <3>1, <3>2, <3>3, AppliedBlocks, Zenon
    <3>5. DirChunk(t) \in NewChunks(o, n, t)
      BY <2>4, Zenon DEF NewChunks
    <3>6. o.cmd \in {"put", "mkdir"} => BlockChunk(o.file) \in NewChunks(o, n, t)
      BY Zenon DEF NewChunks
    <3> QED BY <3>3, <3>4, <3>5, <3>6, Zenon DEF TreeChunks
  <2> QED BY <2>1, <2>2, <2>3, <2>4, Zenon
<1> HIDE DEF n, Rest
<1>4. Reach(n) \subseteq (Reach(hist) \cup NewChunks(o, n, t)) \cup Rest
  BY <1>2, <1>3, Zenon
<1> QED BY <1>4, Zenon DEF n, Rest

-----------------------------------------------------------------------------
(***************************************************************************)
(* Commits add packs.                                                      *)
(***************************************************************************)
LEMMA CommitPackFacts ==
  ASSUME RemoteTypeOK, NEW S \in SUBSET Chunk, CommitPack(S)
  PROVE  /\ packs' \in Seq(SUBSET Chunk) /\ live' \subseteq 1..Len(packs')
         /\ Len(packs) <= Len(packs') /\ live \subseteq live'
         /\ \A p \in 1..Len(packs) : packs'[p] = packs[p]
         /\ Stored' = Stored \cup S
<1>1. CASE S = {} /\ UNCHANGED <<packs, live>>
  BY <1>1 DEF RemoteTypeOK, Stored
<1>2. CASE S # {} /\ packs' = Append(packs, S) /\ live' = live \cup {Len(packs) + 1}
  <2>1. /\ packs' \in Seq(SUBSET Chunk) /\ Len(packs') = Len(packs) + 1
        /\ \A p \in 1..Len(packs) : packs'[p] = packs[p]
        /\ packs'[Len(packs) + 1] = S
        /\ Len(packs) \in Nat
    BY <1>2 DEF RemoteTypeOK
  <2>2. live \subseteq 1..Len(packs)
    BY Zenon DEF RemoteTypeOK
  <2>3. live' \subseteq 1..Len(packs')
    <3>1. \A n \in Nat : \A L \in SUBSET (1..n) : L \cup {n + 1} \subseteq 1..(n + 1)
      OBVIOUS
    <3> QED BY <1>2, <2>1, <2>2, <3>1, Zenon
  <2>4. Stored' = UNION { packs'[p] : p \in live' }
    BY Zenon DEF Stored
  <2>5. Stored' = Stored \cup S
    <3>1. live' = live \cup {Len(packs) + 1} /\ \A p \in live : packs'[p] = packs[p]
      BY <1>2, <2>1, <2>2, Zenon
    <3>2. \A x \in Stored' : x \in Stored \cup S
      BY <2>1, <2>4, <3>1, Zenon DEF Stored
    <3>3. \A x \in Stored : x \in Stored'
      BY <2>4, <3>1, Zenon DEF Stored
    <3>4. \A x \in S : x \in Stored'
      BY <2>1, <2>4, <3>1, Zenon
    <3> QED BY <3>2, <3>3, <3>4, Zenon
  <2> QED BY <1>2, <2>1, <2>3, <2>5
<1> QED BY <1>1, <1>2, Zenon DEF CommitPack

-----------------------------------------------------------------------------
(***************************************************************************)
(* Types.                                                                  *)
(***************************************************************************)
LEMMA TypeInit == Init => TypeInv
<1> SUFFICES ASSUME Init
             PROVE  TypeInv
  BY Zenon
<1>1. <<>> \in History
  BY DEF History
<1>2. RemoteTypeOK
  <2>1. packs \in Seq(SUBSET Chunk) /\ live \subseteq 1..Len(packs)
    BY DEF Init, RemoteInit
  <2> QED BY <1>1, <2>1, Zenon DEF Init, RemoteInit, RemoteTypeOK
<1>3. CommitTypeOK
  <2>1. /\ pc \in [Client -> PC]
        /\ op \in [Client -> Command \cup {Init0}]
        /\ myEpoch \in [Client -> Nat] /\ ver \in [Client -> Nat]
        /\ idx \in [Client -> SUBSET Nat]
    BY Zenon DEF Init, CommitInit, PC
  <2>2. wset \in [Client -> SUBSET Chunk] /\ todo \in [Client -> SUBSET Chunk]
    BY Zenon DEF Init, CommitInit
  <2>3. /\ target \in [Client -> History] /\ base \in [Client -> History]
        /\ new \in [Client -> History]
    BY <1>1, Zenon DEF Init, CommitInit
  <2> QED BY <2>1, <2>2, <2>3, Zenon DEF CommitTypeOK
<1>4. CollectTypeOK
  BY Zenon DEF Init, CollectInit, CollectTypeOK, NoPack
<1>5. IdleUnset /\ HistoriesSet /\ NewSet
  BY Zenon DEF Init, CommitInit, IdleUnset, HistoriesSet, NewSet, Running, Building, At
<1> QED BY <1>2, <1>3, <1>4, <1>5, Zenon DEF TypeInv, TypeOK

(***************************************************************************)
(* Reading the remote.                                                     *)
(***************************************************************************)
LEMMA TypeRead ==
  ASSUME TypeInv, NEW c \in Client, UNCHANGED gcVars,
         (\E o \in Commands[c] : Start(c, o)) \/ StartInit(c) \/ GetEpoch(c)
           \/ GetCStore(c) \/ GetRoot(c)
  PROVE  TypeInv'
<1> USE DEF TypeInv, TypeOK, remote, RemoteTypeOK, CommitTypeOK, CollectTypeOK, gcVars,
            cmdVars, storeVars, rootVars, IdleUnset, HistoriesSet, NewSet,
            Running, Building, At, Goto, PC
<1>1. ASSUME NEW o \in Commands[c], Start(c, o)
      PROVE  TypeInv'
  <2>1. o \in Command /\ o # Init0
    BY CommandsAssumption DEF Command, Init0
  <2>2. \A i \in 1..Len(root) : Prefix(root, i) \in History /\ Prefix(root, i) # <<>>
    BY PrefixType, Zenon
  <2>3. target' \in [Client -> History] /\ (o.cmd = "revert" => target'[c] # <<>>)
    <3>1. CASE o.cmd # "revert" /\ UNCHANGED target
      BY <3>1, Zenon
    <3>2. ASSUME NEW i \in 1..Len(root), target' = [target EXCEPT ![c] = Prefix(root, i)]
          PROVE  target' \in [Client -> History] /\ target'[c] # <<>>
      BY <2>2, <3>2, Zenon
    <3> QED BY <1>1, <3>1, <3>2, Zenon DEF Start
  <2>4. \A d \in Client : d # c => target'[d] = target[d]
    BY <1>1, Zenon DEF Start
  <2>5. CommitTypeOK'
    BY <1>1, <2>1, <2>3, Zenon DEF Start
  <2>6. RemoteTypeOK' /\ CollectTypeOK'
    BY <1>1, Zenon DEF Start
  <2>7. IdleUnset'
    BY <1>1, Zenon DEF Start
  <2>8. HistoriesSet'
    BY <1>1, <2>1, <2>3, <2>4, Zenon DEF Start
  <2>9. NewSet'
    BY <1>1, <2>1, Zenon DEF Start
  <2> QED BY <2>5, <2>6, <2>7, <2>8, <2>9, Zenon
<1>2. CASE StartInit(c)
  BY <1>2, Zenon DEF StartInit
<1>3. CASE GetEpoch(c)
  BY <1>3, Zenon DEF GetEpoch
<1>4. CASE GetCStore(c)
  <2>1. live \subseteq Nat
    OBVIOUS
  <2>2. <<EmptyTree>> \in History /\ <<EmptyTree>> # <<>>
    BY DEF History, EmptyTree, Tree
  <2>3. NewChunks(op[c], <<EmptyTree>>, EmptyTree) \subseteq Chunk
    BY <2>2, NewChunksType, Zenon DEF AnyTree, EmptyTree, Tree
  <2>4. CASE op[c].cmd = "init"
    <3>1. op[c] = Init0
      BY <2>4, CommandFields, Zenon
    <3> DEFINE N == NewChunks(op[c], <<EmptyTree>>, EmptyTree)
               n == <<EmptyTree>>
    <3>5. /\ todo' = [todo EXCEPT ![c] = N] /\ new' = [new EXCEPT ![c] = n]
          /\ Goto(c, "build") /\ N \subseteq Chunk /\ n \in History
      BY <1>4, <2>2, <2>3, <2>4, Zenon DEF GetCStore
    <3> HIDE DEF N, n
    <3>2. CommitTypeOK'
      <4>1. /\ pc' \in [Client -> PC] /\ idx' \in [Client -> SUBSET Nat]
            /\ wset' \in [Client -> SUBSET Chunk]
        BY <1>4, <2>1, <3>5, Zenon DEF GetCStore
      <4>2. todo' \in [Client -> SUBSET Chunk] /\ new' \in [Client -> History]
        BY <3>5, Zenon
      <4> QED BY <1>4, <4>1, <4>2, Zenon DEF GetCStore
    <3>3. RemoteTypeOK' /\ CollectTypeOK'
      BY <1>4, Zenon DEF GetCStore
    <3>4. IdleUnset' /\ HistoriesSet' /\ NewSet'
      BY <1>4, <2>2, <2>4, <3>1, Zenon DEF GetCStore
    <3> QED BY <3>2, <3>3, <3>4, Zenon
  <2>5. CASE op[c].cmd # "init"
    <3>1. CommitTypeOK'
      <4>1. /\ pc' \in [Client -> PC] /\ idx' \in [Client -> SUBSET Nat]
            /\ wset' \in [Client -> SUBSET Chunk]
        BY <1>4, <2>1, <2>5, Zenon DEF GetCStore
      <4> QED BY <1>4, <2>5, <4>1, Zenon DEF GetCStore
    <3>2. RemoteTypeOK' /\ CollectTypeOK'
      BY <1>4, Zenon DEF GetCStore
    <3>3. IdleUnset' /\ HistoriesSet' /\ NewSet'
      BY <1>4, <2>5, Zenon DEF GetCStore
    <3> QED BY <3>1, <3>2, <3>3, Zenon
  <2> QED BY <2>4, <2>5, Zenon
<1>5. CASE GetRoot(c)
  BY <1>5, Zenon DEF GetRoot
<1> QED BY <1>1, <1>2, <1>3, <1>4, <1>5, Zenon

(***************************************************************************)
(* Making the new root.                                                    *)
(***************************************************************************)
LEMMA TypeMake ==
  ASSUME TypeInv, NEW c \in Client, UNCHANGED gcVars,
         GetRef(c) \/ GetRefFails(c) \/ PutChunks(c) \/ PutRefFails(c)
  PROVE  TypeInv'
<1> USE DEF TypeInv, TypeOK, remote, RemoteTypeOK, CommitTypeOK, CollectTypeOK, gcVars,
            cmdVars, storeVars, rootVars, IdleUnset, HistoriesSet, NewSet,
            Running, Building, At, Goto, PC
<1>1. CASE GetRef(c)
  <2>1. PICK t \in NewTrees(op[c], base[c], target[c]) :
          /\ new' = [new EXCEPT ![c] = NewRef(op[c], base[c], t)]
          /\ todo' = [todo EXCEPT ![c] = NewChunks(op[c], NewRef(op[c], base[c], t), t)]
    BY <1>1, Zenon DEF GetRef
  <2>2. PICK i \in IndexAfterGet(c) : idx' = [idx EXCEPT ![c] = i]
    BY <1>1, Zenon DEF GetRef
  <2>3. i \subseteq Nat
    BY DEF IndexAfterGet
  <2>4. t \in AnyTree
    <3>1. op[c] # Init0 => base[c] # <<>>
      BY <1>1, Zenon DEF GetRef
    <3>2. op[c].cmd = "revert" => target[c] # <<>>
      <4>1. op[c].cmd = "revert" => op[c] # Init0
        BY DEF Init0
      <4> QED BY <1>1, <4>1, Zenon DEF GetRef
    <3> QED BY <3>1, <3>2, NewTreesType, Zenon
  <2> DEFINE n == NewRef(op[c], base[c], t)
  <2>5. n \in History /\ n # <<>> /\ NewChunks(op[c], n, t) \subseteq Chunk
    BY <2>4, NewRefType, NewChunksType, Zenon
  <2> HIDE DEF n
  <2>6. CommitTypeOK'
    BY <1>1, <2>1, <2>2, <2>3, <2>5, Zenon DEF GetRef, n
  <2>7. RemoteTypeOK' /\ CollectTypeOK'
    BY <1>1, Zenon DEF GetRef
  <2>8. IdleUnset' /\ HistoriesSet' /\ NewSet'
    BY <1>1, <2>1, <2>5, Zenon DEF GetRef, n
  <2> QED BY <2>6, <2>7, <2>8, Zenon
<1>2. CASE GetRefFails(c)
  <2> DEFINE n == NewRef(op[c], base[c], ZeroTree)
  <2>1. n \in History /\ n # <<>> /\ RefChunk(n) \in Chunk
    BY NewRefType, RefChunkType, Zenon DEF AnyTree
  <2> HIDE DEF n
  <2>2. CommitTypeOK'
    BY <1>2, <2>1, Zenon DEF GetRefFails, n
  <2>3. RemoteTypeOK' /\ CollectTypeOK'
    BY <1>2, Zenon DEF GetRefFails
  <2>4. IdleUnset' /\ HistoriesSet' /\ NewSet'
    BY <1>2, <2>1, Zenon DEF GetRefFails, n
  <2> QED BY <2>2, <2>3, <2>4, Zenon
<1>3. CASE PutChunks(c)
  <2>1. PICK X \in SUBSET todo[c] :
          /\ Goto(c, "close") \/ Goto(c, "rotate")
          /\ wset' = [wset EXCEPT ![c] = AfterPut(c, X)]
          /\ todo' = [todo EXCEPT ![c] = @ \ X]
    BY <1>3, Zenon DEF PutChunks
  <2>2. AfterPut(c, X) \subseteq Chunk
    BY Zenon DEF AfterPut
  <2>3. CommitTypeOK'
    BY <1>3, <2>1, <2>2, Zenon DEF PutChunks
  <2>4. RemoteTypeOK' /\ CollectTypeOK'
    BY <1>3, Zenon DEF PutChunks
  <2>5. IdleUnset' /\ HistoriesSet' /\ NewSet'
    BY <1>3, <2>1 DEF PutChunks
  <2> QED BY <2>3, <2>4, <2>5, Zenon
<1>4. CASE PutRefFails(c)
  <2>1. AfterPut(c, todo[c] \ {RefChunk(new[c])}) \subseteq Chunk
    BY Zenon DEF AfterPut
  <2>2. ZeroRef \in History /\ ZeroRef # <<>>
    BY DEF ZeroRef, History
  <2>3. CommitTypeOK'
    BY <1>4, <2>1, <2>2, Zenon DEF PutRefFails
  <2>4. RemoteTypeOK' /\ CollectTypeOK'
    BY <1>4, Zenon DEF PutRefFails
  <2>5. IdleUnset' /\ HistoriesSet' /\ NewSet'
    BY <1>4, <2>2, Zenon DEF PutRefFails
  <2> QED BY <2>3, <2>4, <2>5, Zenon
<1> QED BY <1>1, <1>2, <1>3, <1>4, Zenon

(***************************************************************************)
(* Committing it.                                                          *)
(***************************************************************************)
LEMMA ForgetRootType ==
  ASSUME CommitTypeOK, NEW c \in Client, ForgetRoot(c)
  PROVE  /\ base' \in [Client -> History] /\ new' \in [Client -> History]
         /\ ver' \in [Client -> Nat]
         /\ base'[c] = <<>>
         /\ \A d \in Client : d # c =>
              base'[d] = base[d] /\ new'[d] = new[d] /\ ver'[d] = ver[d]
<1>1. <<>> \in History
  BY DEF History
<1> QED BY <1>1, Zenon DEF CommitTypeOK, ForgetRoot

LEMMA ExitType ==
  ASSUME CommitTypeOK, NEW c \in Client, Exit(c)
  PROVE  /\ CommitTypeOK'
         /\ pc'[c] = "idle" /\ op'[c] = Init0 /\ base'[c] = <<>>
         /\ \A d \in Client : d # c =>
              /\ pc'[d] = pc[d] /\ op'[d] = op[d] /\ target'[d] = target[d]
              /\ myEpoch'[d] = myEpoch[d]
              /\ idx'[d] = idx[d] /\ wset'[d] = wset[d] /\ todo'[d] = todo[d]
              /\ base'[d] = base[d] /\ new'[d] = new[d] /\ ver'[d] = ver[d]
<1>1. <<>> \in History
  BY DEF History
<1>2. /\ pc' \in [Client -> PC] /\ op' \in [Client -> Command \cup {Init0}]
      /\ pc'[c] = "idle" /\ op'[c] = Init0
      /\ \A d \in Client : d # c => pc'[d] = pc[d] /\ op'[d] = op[d]
  BY Zenon DEF CommitTypeOK, Exit, Goto, PC
<1>3. target' \in [Client -> History] /\ \A d \in Client : d # c => target'[d] = target[d]
  BY <1>1, Zenon DEF CommitTypeOK, Exit
<1>4. /\ myEpoch' \in [Client -> Nat] /\ idx' \in [Client -> SUBSET Nat]
      /\ wset' \in [Client -> SUBSET Chunk] /\ todo' \in [Client -> SUBSET Chunk]
      /\ \A d \in Client : d # c =>
           /\ myEpoch'[d] = myEpoch[d]
           /\ idx'[d] = idx[d] /\ wset'[d] = wset[d] /\ todo'[d] = todo[d]
  BY Zenon DEF CommitTypeOK, Exit
<1>5. ForgetRoot(c)
  BY Zenon DEF Exit
<1> QED BY <1>2, <1>3, <1>4, <1>5, ForgetRootType DEF CommitTypeOK

\* A step after which the client is idle, or has read no root.
LEMMA HistoriesKept ==
  ASSUME TypeInv, NEW c \in Client, root # <<>> => root' # <<>>,
         \A d \in Client : d # c =>
           /\ pc'[d] = pc[d] /\ op'[d] = op[d] /\ target'[d] = target[d]
           /\ base'[d] = base[d] /\ new'[d] = new[d],
         \/ pc'[c] = "idle" /\ op'[c] = Init0 /\ base'[c] = <<>>
         \/ /\ pc[c] # "idle" /\ op'[c] = op[c] /\ target'[c] = target[c]
            /\ pc'[c] \notin {"idle", "ref", "build", "rotate", "close", "cas"}
  PROVE  IdleUnset' /\ HistoriesSet' /\ NewSet'
<1>1. IdleUnset /\ HistoriesSet /\ NewSet
  BY Zenon DEF TypeInv
<1>2. IdleUnset'
  BY <1>1, Zenon DEF IdleUnset, At
<1>3. HistoriesSet'
  BY <1>1 DEF HistoriesSet, Running, At
<1>4. NewSet'
  BY <1>1, Zenon DEF NewSet, Building
<1> QED BY <1>2, <1>3, <1>4, Zenon

LEMMA TypeCommit ==
  ASSUME TypeInv, NEW c \in Client, UNCHANGED gcVars,
         Rotate(c) \/ CloseStore(c) \/ CloseStoreFails(c) \/ CasRoot(c) \/ CasRootLost(c)
  PROVE  TypeInv'
<1> USE DEF TypeInv, TypeOK, remote, RemoteTypeOK, CommitTypeOK, CollectTypeOK, gcVars,
            cmdVars, storeVars, rootVars, IdleUnset, HistoriesSet, NewSet,
            Running, Building, At, Goto, PC
<1>1. CASE Rotate(c)
  <2>1. packs' \in Seq(SUBSET Chunk) /\ live' \subseteq 1..Len(packs')
    BY <1>1, CommitPackFacts, Zenon DEF Rotate
  <2>2. CommitTypeOK'
    BY <1>1, Zenon DEF Rotate
  <2>3. RemoteTypeOK' /\ CollectTypeOK'
    BY <1>1, <2>1, Zenon DEF Rotate
  <2>4. IdleUnset' /\ HistoriesSet' /\ NewSet'
    BY <1>1, Zenon DEF Rotate
  <2> QED BY <2>2, <2>3, <2>4, Zenon
<1>2. CASE CloseStore(c)
  <2>1. packs' \in Seq(SUBSET Chunk) /\ live' \subseteq 1..Len(packs')
    BY <1>2, CommitPackFacts, Zenon DEF CloseStore
  <2>2. live' \subseteq Nat
    BY <2>1
  <2>3. CommitTypeOK'
    BY <1>2, <2>2, Zenon DEF CloseStore
  <2>4. RemoteTypeOK' /\ CollectTypeOK'
    BY <1>2, <2>1, Zenon DEF CloseStore
  <2>5. IdleUnset' /\ HistoriesSet' /\ NewSet'
    BY <1>2, Zenon DEF CloseStore
  <2> QED BY <2>3, <2>4, <2>5, Zenon
<1>3. CASE CloseStoreFails(c)
  BY <1>3, Zenon DEF CloseStoreFails
<1> HIDE DEF TypeInv, TypeOK, RemoteTypeOK, CommitTypeOK, CollectTypeOK,
             IdleUnset, HistoriesSet, NewSet, Running, Building, At, Goto, PC
<1>4. CASE CasRoot(c)
  <2>1. new[c] \in History /\ new[c] # <<>>
    BY <1>4, Zenon DEF CasRoot, TypeInv, TypeOK, CommitTypeOK, NewSet, Building, At
  <2>2. RemoteTypeOK' /\ root' # <<>>
    BY <1>4, <2>1 DEF CasRoot, SwapRoot, RemoteTypeOK, TypeInv, TypeOK
  <2>3. CommitTypeOK /\ CollectTypeOK /\ CollectTypeOK'
    BY Zenon DEF TypeInv, TypeOK, CollectTypeOK
  <2>4. CASE op[c].cmd # "gc"
    <3>1. Exit(c)
      BY <1>4, <2>4, Zenon DEF CasRoot
    <3>2. CommitTypeOK'
      BY <2>3, <3>1, ExitType, Zenon
    <3>3. IdleUnset' /\ HistoriesSet' /\ NewSet'
      BY <2>2, <2>3, <3>1, ExitType, HistoriesKept, Zenon
    <3> QED BY <2>2, <2>3, <3>2, <3>3, Zenon DEF TypeInv, TypeOK
  <2>5. CASE op[c].cmd = "gc"
    <3>1. /\ pc[c] = "cas" /\ Goto(c, "gcstart") /\ ForgetRoot(c)
          /\ UNCHANGED <<op, target, myEpoch, idx, wset, todo>>
      BY <1>4, <2>5, Zenon DEF CasRoot, At
    <3>2. pc' \in [Client -> PC] /\ pc'[c] = "gcstart"
          /\ \A d \in Client : d # c => pc'[d] = pc[d]
      BY <2>3, <3>1, Zenon DEF CommitTypeOK, Goto, PC
    <3>3. CommitTypeOK'
      BY <2>3, <3>1, <3>2, ForgetRootType, Zenon DEF CommitTypeOK
    <3>4. IdleUnset' /\ HistoriesSet' /\ NewSet'
      BY <2>2, <2>3, <3>1, <3>2, ForgetRootType, HistoriesKept, Zenon
    <3> QED BY <2>2, <2>3, <3>3, <3>4, Zenon DEF TypeInv, TypeOK
  <2> QED BY <2>4, <2>5, Zenon
<1>5. CASE CasRootLost(c)
  <2>1. RemoteTypeOK' /\ root' = root
    BY <1>5, Zenon DEF CasRootLost, RemoteTypeOK, TypeInv, TypeOK
  <2>2. CommitTypeOK /\ CollectTypeOK /\ CollectTypeOK'
    BY Zenon DEF TypeInv, TypeOK, CollectTypeOK
  <2>3. CASE op[c].cmd \notin {"put", "cp", "cpwhen", "mv", "rm"}
    <3>1. Exit(c)
      BY <1>5, <2>3, Zenon DEF CasRootLost
    <3>2. CommitTypeOK'
      BY <2>2, <3>1, ExitType, Zenon
    <3>3. IdleUnset' /\ HistoriesSet' /\ NewSet'
      BY <2>1, <2>2, <3>1, ExitType, HistoriesKept, Zenon
    <3> QED BY <2>1, <2>2, <3>2, <3>3, Zenon DEF TypeInv, TypeOK
  <2>4. CASE op[c].cmd \in {"put", "cp", "cpwhen", "mv", "rm"}
    <3> DEFINE l == IF op[c].cmd = "rm" THEN "root" ELSE "store"
    <3>1. /\ pc[c] = "cas" /\ Goto(c, l) /\ ForgetRoot(c)
          /\ UNCHANGED <<op, target, myEpoch, idx, wset, todo>>
      BY <1>5, <2>4, Zenon DEF CasRootLost, At
    <3>2. pc' \in [Client -> PC] /\ pc'[c] = l
          /\ \A d \in Client : d # c => pc'[d] = pc[d]
      BY <2>2, <3>1, Zenon DEF CommitTypeOK, Goto, PC
    <3>3. CommitTypeOK'
      BY <2>2, <3>1, <3>2, ForgetRootType, Zenon DEF CommitTypeOK
    <3>4. IdleUnset' /\ HistoriesSet' /\ NewSet'
      BY <2>1, <2>2, <3>1, <3>2, ForgetRootType, HistoriesKept, Zenon
    <3> QED BY <2>1, <2>2, <3>3, <3>4, Zenon DEF TypeInv, TypeOK
  <2> QED BY <2>3, <2>4, Zenon
<1> QED BY <1>1, <1>2, <1>3, <1>4, <1>5, Zenon

(***************************************************************************)
(* Collecting.                                                             *)
(***************************************************************************)
LEMMA DropGCType ==
  ASSUME CollectTypeOK, NEW c \in Client, DropGC(c)
  PROVE  CollectTypeOK'
  BY Zenon DEF CollectTypeOK, DropGC, NoPack

LEMMA StopEpochType ==
  ASSUME RemoteTypeOK, StopEpoch
  PROVE  RemoteTypeOK' /\ root' = root
<1>1. gcRunning' \in BOOLEAN
  BY Zenon DEF StopEpoch
<1>2. epoch' \in Nat
  BY DEF StopEpoch, RemoteTypeOK
<1> QED BY <1>1, <1>2, Zenon DEF StopEpoch, RemoteTypeOK

LEMMA TypeEpoch ==
  ASSUME TypeInv, NEW c \in Client,
         StopGC(c) \/ StartGC(c) \/ GCRoot(c) \/ Mark(c) \/ EndGC(c) \/ Die(c)
  PROVE  TypeInv'
<1>0. RemoteTypeOK /\ CommitTypeOK /\ CollectTypeOK
  BY Zenon DEF TypeInv, TypeOK
<1> USE DEF remote, gcVars, cmdVars, storeVars, rootVars
<1>1. CASE StopGC(c)
  <2>1. RemoteTypeOK' /\ root' = root
    BY <1>0, <1>1, StopEpochType, Zenon DEF StopGC
  <2>2. CollectTypeOK'
    BY <1>0, <1>1, Zenon DEF StopGC, CollectTypeOK
  <2>3. CASE op[c].cmd = "cancel"
    <3>1. Exit(c)
      BY <1>1, <2>3, Zenon DEF StopGC
    <3>2. CommitTypeOK'
      BY <1>0, <3>1, ExitType, Zenon
    <3>3. IdleUnset' /\ HistoriesSet' /\ NewSet'
      BY <1>0, <2>1, <3>1, ExitType, HistoriesKept, Zenon
    <3> QED BY <2>1, <2>2, <3>2, <3>3, Zenon DEF TypeInv, TypeOK
  <2>4. CASE op[c].cmd # "cancel"
    <3>1. /\ pc[c] = "gcstop" /\ (Goto(c, "gcstart") \/ Goto(c, "epoch"))
          /\ UNCHANGED <<op, target, myEpoch, idx, wset, todo, base, ver, new>>
      BY <1>1, <2>4, Zenon DEF StopGC, At
    <3>2. pc' \in [Client -> PC] /\ pc'[c] \in {"gcstart", "epoch"}
          /\ \A d \in Client : d # c => pc'[d] = pc[d]
      BY <1>0, <3>1, Zenon DEF CommitTypeOK, Goto, PC
    <3>3. CommitTypeOK'
      BY <1>0, <3>1, <3>2, Zenon DEF CommitTypeOK
    <3>4. IdleUnset' /\ HistoriesSet' /\ NewSet'
      BY <2>1, <3>1, <3>2, HistoriesKept, Zenon
    <3> QED BY <2>1, <2>2, <3>3, <3>4, Zenon DEF TypeInv, TypeOK
  <2> QED BY <2>3, <2>4, Zenon
<1>2. CASE StartGC(c)
  <2>1. RemoteTypeOK' /\ root' = root
    BY <1>0, <1>2 DEF StartGC, StartEpoch, RemoteTypeOK
  <2>2. CollectTypeOK'
    BY <1>0, <1>2, Zenon DEF StartGC, CollectTypeOK
  <2>3. CommitTypeOK'
    BY <1>0, <1>2 DEF StartGC, CommitTypeOK, RemoteTypeOK, Goto, PC
  <2>4. IdleUnset' /\ HistoriesSet' /\ NewSet'
    BY <1>0, <1>2, <2>1, HistoriesKept, Zenon DEF StartGC, Goto, At, CommitTypeOK
  <2> QED BY <2>1, <2>2, <2>3, <2>4, Zenon DEF TypeInv, TypeOK
<1>3. CASE GCRoot(c)
  <2>1. RemoteTypeOK' /\ CollectTypeOK'
    BY <1>0, <1>3, Zenon DEF GCRoot, CollectTypeOK, RemoteTypeOK
  <2>2. CommitTypeOK'
    BY <1>0, <1>3, Zenon DEF GCRoot, CommitTypeOK, RemoteTypeOK, Goto, PC
  <2>3. IdleUnset' /\ HistoriesSet' /\ NewSet'
    BY <1>0, <1>3, HistoriesKept, Zenon DEF GCRoot, Goto, At, CommitTypeOK
  <2> QED BY <2>1, <2>2, <2>3, Zenon DEF TypeInv, TypeOK
<1>4. CASE Mark(c)
  <2>1. RemoteTypeOK' /\ root' = root
    <3>1. wset[c] \in SUBSET Chunk
      BY <1>0, Zenon DEF CommitTypeOK
    <3>2. packs' \in Seq(SUBSET Chunk) /\ live' \subseteq 1..Len(packs')
      BY <1>0, <1>4, <3>1, CommitPackFacts, Zenon DEF Mark, RemoteTypeOK
    <3> QED BY <1>0, <1>4, <3>2, Zenon DEF Mark, RemoteTypeOK
  <2>2. CollectTypeOK'
    <3>1. Reach(base[c]) \subseteq Chunk
      BY <1>0, ReachType, Zenon DEF CommitTypeOK
    <3> QED BY <1>0, <1>4, <3>1, Zenon DEF Mark, CollectTypeOK
  <2>3. ForgetRoot(c)
    BY <1>4, Zenon DEF Mark
  <2>4. CommitTypeOK'
    BY <1>0, <1>4, <2>3, ForgetRootType, Zenon DEF Mark, CommitTypeOK, Goto, PC
  <2>5. IdleUnset' /\ HistoriesSet' /\ NewSet'
    BY <1>0, <1>4, <2>1, <2>3, ForgetRootType, HistoriesKept, Zenon
       DEF Mark, Goto, At, CommitTypeOK
  <2> QED BY <2>1, <2>2, <2>4, <2>5, Zenon DEF TypeInv, TypeOK
<1>5. CASE EndGC(c)
  <2>1. RemoteTypeOK' /\ root' = root
    BY <1>0, <1>5, StopEpochType, Zenon DEF EndGC
  <2>2. Exit(c) /\ DropGC(c)
    BY <1>5, Zenon DEF EndGC
  <2>3. CommitTypeOK' /\ CollectTypeOK'
    BY <1>0, <2>2, ExitType, DropGCType, Zenon
  <2>4. IdleUnset' /\ HistoriesSet' /\ NewSet'
    BY <1>0, <2>1, <2>2, ExitType, HistoriesKept, Zenon
  <2> QED BY <2>1, <2>3, <2>4, Zenon DEF TypeInv, TypeOK
<1>6. CASE Die(c)
  <2>1. RemoteTypeOK' /\ root' = root
    BY <1>0, <1>6, Zenon DEF Die, RemoteTypeOK
  <2>2. Exit(c) /\ DropGC(c)
    BY <1>6, Zenon DEF Die
  <2>3. CommitTypeOK' /\ CollectTypeOK'
    BY <1>0, <2>2, ExitType, DropGCType, Zenon
  <2>4. IdleUnset' /\ HistoriesSet' /\ NewSet'
    BY <1>0, <2>1, <2>2, ExitType, HistoriesKept, Zenon
  <2> QED BY <2>1, <2>3, <2>4, Zenon DEF TypeInv, TypeOK
<1> QED BY <1>1, <1>2, <1>3, <1>4, <1>5, <1>6, Zenon

\* A step of the sweep changes nothing of the client but where it is.
SweepFrame(c) ==
  /\ Sweeping(c)
  /\ \E l \in {"gcsweep", "gcmove", "gcclose", "gcremove", "gcend"} : Goto(c, l)
  /\ UNCHANGED <<root, version, epoch, gcRunning, cmdVars, myEpoch, storeVars, rootVars>>

LEMMA TypeSweep ==
  ASSUME TypeInv, NEW c \in Client, NEW p \in Nat,
         ListPacks(c) \/ SkipPack(c, p) \/ OpenPack(c, p) \/ RemoveOldPack(c, p)
           \/ FillPack(c) \/ PackMoved(c) \/ SweepDone(c) \/ CloseNewPack(c) \/ RemoveDone(c)
  PROVE  TypeInv' /\ SweepFrame(c)
<1>0. RemoteTypeOK /\ CommitTypeOK /\ CollectTypeOK
  BY Zenon DEF TypeInv, TypeOK
<1>1. SweepFrame(c)
  <2> USE <1>0 DEF SweepFrame, Sweeping, At, Goto, remote, clientVars, cmdVars, storeVars, rootVars,
        CommitTypeOK
  <2>1. CASE ListPacks(c)
    BY <2>1, Zenon DEF ListPacks
  <2>2. CASE SkipPack(c, p)
    BY <2>2, Zenon DEF SkipPack
  <2>3. CASE OpenPack(c, p)
    BY <2>3, Zenon DEF OpenPack
  <2>4. CASE RemoveOldPack(c, p)
    BY <2>4, Zenon DEF RemoveOldPack, RemovePack
  <2>5. CASE FillPack(c)
    BY <2>5, Zenon DEF FillPack
  <2>6. CASE PackMoved(c)
    BY <2>6, Zenon DEF PackMoved
  <2>7. CASE SweepDone(c)
    BY <2>7, Zenon DEF SweepDone
  <2>8. CASE CloseNewPack(c)
    BY <2>8, Zenon DEF CloseNewPack
  <2>9. CASE RemoveDone(c)
    BY <2>9, Zenon DEF RemoveDone
  <2> QED BY <2>1, <2>2, <2>3, <2>4, <2>5, <2>6, <2>7, <2>8, <2>9, Zenon
<1>2. CommitTypeOK'
  BY <1>0, <1>1, Zenon DEF SweepFrame, CommitTypeOK, Goto, PC, cmdVars, storeVars, rootVars
<1>3. IdleUnset' /\ HistoriesSet' /\ NewSet'
  BY <1>0, <1>1, HistoriesKept, Zenon
     DEF SweepFrame, CommitTypeOK, Goto, Sweeping, cmdVars, storeVars, rootVars
<1>4. RemoteTypeOK'
  <2>1. packs' \in Seq(SUBSET Chunk) /\ live' \subseteq 1..Len(packs')
    <3> USE <1>0 DEF RemoteTypeOK, remote
    <3>1. CASE ~RemoveOldPack(c, p) /\ ~CloseNewPack(c)
      BY <3>1, Zenon DEF ListPacks, SkipPack, OpenPack, FillPack, PackMoved, SweepDone, RemoveDone
    <3>2. CASE RemoveOldPack(c, p)
      BY <3>2, Zenon DEF RemoveOldPack, RemovePack
    <3>3. CASE CloseNewPack(c)
      BY <3>3, CommitPackFacts, Zenon DEF CloseNewPack, CollectTypeOK
    <3> QED BY <3>1, <3>2, <3>3, Zenon
  <2> QED BY <1>0, <1>1, <2>1, Zenon DEF SweepFrame, RemoteTypeOK
<1>5. CollectTypeOK'
  <2>1. live \subseteq Nat /\ (p \in live => packs[p] \subseteq Chunk)
    BY <1>0 DEF RemoteTypeOK
  <2>2. Needed(c) \subseteq Chunk
    BY <1>0, Zenon DEF Needed, CollectTypeOK
  <2> HIDE DEF Needed
  <2> USE <1>0 DEF CollectTypeOK
  <2>3. CASE ListPacks(c)
    BY <2>1, <2>3, Zenon DEF ListPacks
  <2>4. CASE SkipPack(c, p)
    BY <2>1, <2>4, Zenon DEF SkipPack
  <2>5. CASE OpenPack(c, p)
    BY <2>1, <2>5, Zenon DEF OpenPack
  <2>6. CASE RemoveOldPack(c, p)
    BY <2>6, Zenon DEF RemoveOldPack
  <2>7. CASE FillPack(c)
    BY <2>2, <2>7 DEF FillPack, PutValues
  <2>8. CASE PackMoved(c)
    BY <2>2, <2>8, Zenon DEF PackMoved, PutValues, NoPack
  <2>9. CASE SweepDone(c) \/ RemoveDone(c)
    BY <2>9, Zenon DEF SweepDone, RemoveDone, gcVars
  <2>10. CASE CloseNewPack(c)
    BY <2>10, Zenon DEF CloseNewPack
  <2> QED BY <2>3, <2>4, <2>5, <2>6, <2>7, <2>8, <2>9, <2>10, Zenon
<1> QED BY <1>1, <1>2, <1>3, <1>4, <1>5, Zenon DEF TypeInv, TypeOK

LEMMA TypeStep == TypeInv /\ [Next]_vars => TypeInv'
<1> SUFFICES ASSUME TypeInv, [Next]_vars
             PROVE  TypeInv'
  BY Zenon
<1>1. ASSUME NEW c \in Client, CommitStep(c), UNCHANGED gcVars
      PROVE  TypeInv'
  BY <1>1, TypeRead, TypeMake, TypeCommit, Zenon DEF CommitStep
<1>2. ASSUME NEW c \in Client, CollectStep(c)
      PROVE  TypeInv'
  <2>1. 0 \in Nat /\ 1..Len(packs) \subseteq Nat
    OBVIOUS
  <2> QED BY <1>2, <2>1, TypeEpoch, TypeSweep, Zenon DEF CollectStep
<1>3. ASSUME NEW c \in Client, Die(c)
      PROVE  TypeInv'
  BY <1>3, TypeEpoch, Zenon
<1>4. CASE UNCHANGED vars
  BY <1>4, Zenon DEF vars, remote, clientVars, cmdVars, storeVars, rootVars, gcVars, TypeInv,
       TypeOK, RemoteTypeOK, CommitTypeOK, CollectTypeOK, IdleUnset, HistoriesSet, NewSet,
       Running, Building, At
<1> QED BY <1>1, <1>2, <1>3, <1>4, Zenon DEF Next

(***************************************************************************)
(* Every variable always has its type; a client never works on, or commits,*)
(* a history that is empty.                                                *)
(***************************************************************************)
THEOREM Typed == Spec => []TypeOK
<1>1. TypeInv => TypeOK
  BY Zenon DEF TypeInv
<1> QED BY <1>1, TypeInit, TypeStep, PTL DEF Spec

-----------------------------------------------------------------------------
(***************************************************************************)
(* A step of the drive is a step of one client, which leaves the others as *)
(* they are.                                                               *)
(***************************************************************************)
Act(c) ==
  \/ CommitStep(c) /\ UNCHANGED gcVars
  \/ CollectStep(c)
  \/ Die(c)

Same(d) ==
  /\ pc'[d] = pc[d] /\ op'[d] = op[d] /\ target'[d] = target[d]
  /\ myEpoch'[d] = myEpoch[d] /\ idx'[d] = idx[d] /\ wset'[d] = wset[d]
  /\ todo'[d] = todo[d] /\ base'[d] = base[d] /\ ver'[d] = ver[d] /\ new'[d] = new[d]
  /\ visited'[d] = visited[d] /\ moved'[d] = moved[d] /\ newPack'[d] = newPack[d]
  /\ canDelete'[d] = canDelete[d] /\ listed'[d] = listed[d]
  /\ toSweep'[d] = toSweep[d] /\ cur'[d] = cur[d]

LEMMA OthersSame ==
  ASSUME TypeInv, NEW c \in Client, Act(c), NEW d \in Client, d # c
  PROVE  Same(d)
<1> USE DEF Same, TypeInv, TypeOK, CommitTypeOK, CollectTypeOK, clientVars, cmdVars,
            storeVars, rootVars, gcVars, Goto
<1>1. ASSUME NEW o \in Commands[c], Start(c, o), UNCHANGED gcVars
      PROVE  Same(d)
  BY <1>1, Zenon DEF Start
<1>2. ASSUME NEW p \in Nat, SkipPack(c, p) \/ OpenPack(c, p) \/ RemoveOldPack(c, p)
      PROVE  Same(d)
  <2>1. CASE SkipPack(c, p)
    BY <2>1, Zenon DEF SkipPack
  <2>2. CASE OpenPack(c, p)
    BY <2>2, Zenon DEF OpenPack
  <2>3. CASE RemoveOldPack(c, p)
    BY <2>3, Zenon DEF RemoveOldPack
  <2> QED BY <1>2, <2>1, <2>2, <2>3, Zenon
<1>3. CASE StartInit(c) /\ UNCHANGED gcVars
  BY <1>3, Zenon DEF StartInit
<1>4. CASE GetEpoch(c) /\ UNCHANGED gcVars
  BY <1>4, Zenon DEF GetEpoch
<1>5. CASE GetCStore(c) /\ UNCHANGED gcVars
  BY <1>5, Zenon DEF GetCStore
<1>6. CASE GetRoot(c) /\ UNCHANGED gcVars
  BY <1>6, Zenon DEF GetRoot
<1>7. CASE GetRef(c) /\ UNCHANGED gcVars
  BY <1>7, Zenon DEF GetRef
<1>8. CASE GetRefFails(c) /\ UNCHANGED gcVars
  BY <1>8, Zenon DEF GetRefFails
<1>9. CASE PutChunks(c) /\ UNCHANGED gcVars
  BY <1>9, Zenon DEF PutChunks
<1>10. CASE PutRefFails(c) /\ UNCHANGED gcVars
  BY <1>10, Zenon DEF PutRefFails
<1>11. CASE Rotate(c) /\ UNCHANGED gcVars
  BY <1>11, Zenon DEF Rotate
<1>12. CASE CloseStore(c) /\ UNCHANGED gcVars
  BY <1>12, Zenon DEF CloseStore
<1>13. CASE CloseStoreFails(c) /\ UNCHANGED gcVars
  BY <1>13, Zenon DEF CloseStoreFails
<1>14. CASE CasRoot(c) /\ UNCHANGED gcVars
  BY <1>14 DEF CasRoot, Exit, ForgetRoot
<1>15. CASE CasRootLost(c) /\ UNCHANGED gcVars
  BY <1>15 DEF CasRootLost, Exit, ForgetRoot
<1>16. CASE StopGC(c)
  BY <1>16 DEF StopGC, Exit, ForgetRoot
<1>17. CASE StartGC(c)
  BY <1>17, Zenon DEF StartGC
<1>18. CASE GCRoot(c)
  BY <1>18, Zenon DEF GCRoot
<1>19. CASE Mark(c)
  BY <1>19, Zenon DEF Mark, ForgetRoot
<1>20. CASE ListPacks(c)
  BY <1>20, Zenon DEF ListPacks
<1>21. CASE FillPack(c)
  BY <1>21, Zenon DEF FillPack, PutValues
<1>22. CASE PackMoved(c)
  BY <1>22, Zenon DEF PackMoved, PutValues
<1>23. CASE SweepDone(c)
  BY <1>23, Zenon DEF SweepDone
<1>24. CASE CloseNewPack(c)
  BY <1>24, Zenon DEF CloseNewPack
<1>25. CASE RemoveDone(c)
  BY <1>25, Zenon DEF RemoveDone
<1>26. CASE EndGC(c)
  BY <1>26, Zenon DEF EndGC, Exit, ForgetRoot, DropGC
<1>27. CASE Die(c)
  BY <1>27, Zenon DEF Die, Exit, ForgetRoot, DropGC
<1> HIDE DEF Same, TypeInv, TypeOK, CommitTypeOK, CollectTypeOK, clientVars, cmdVars,
            storeVars, rootVars, gcVars, Goto
<1>28. 1..Len(packs) \subseteq Nat
  OBVIOUS
<1>29. CASE CommitStep(c) /\ UNCHANGED gcVars
  BY <1>29, <1>1, <1>3, <1>4, <1>5, <1>6, <1>7, <1>8, <1>9, <1>10, <1>11, <1>12, <1>13,
     <1>14, <1>15, Zenon DEF CommitStep
<1>30. CASE CollectStep(c)
  BY <1>30, <1>2, <1>16, <1>17, <1>18, <1>19, <1>20, <1>21, <1>22, <1>23, <1>24, <1>25,
     <1>26, <1>28, Zenon DEF CollectStep
<1> QED BY <1>27, <1>29, <1>30, Zenon DEF Act

(***************************************************************************)
(* What a step does to the remote.                                         *)
(***************************************************************************)
Adds == \E S \in SUBSET Chunk : CommitPack(S) /\ UNCHANGED <<root, version, epoch, gcRunning>>

LEMMA RemoteEffect ==
  ASSUME TypeInv, NEW c \in Client, Act(c)
  PROVE  \/ UNCHANGED remote
         \/ Adds
         \/ CasRoot(c)
         \/ StopEpoch
         \/ StartGC(c)
         \/ \E p \in Nat : RemoveOldPack(c, p)
<1>1. wset[c] \in SUBSET Chunk /\ newPack[c] \in SUBSET Chunk
  BY Zenon DEF TypeInv, TypeOK, CommitTypeOK, CollectTypeOK
<1>2. CASE CommitStep(c)
  <2>1. CASE Rotate(c) \/ CloseStore(c)
    BY <1>1, <2>1, Zenon DEF Rotate, CloseStore, Adds
  <2>2. CASE ~Rotate(c) /\ ~CloseStore(c) /\ ~CasRoot(c)
    BY <1>2, <2>2, Zenon DEF CommitStep, Start, StartInit, GetEpoch, GetCStore, GetRoot, GetRef,
       GetRefFails, PutChunks, PutRefFails, CloseStoreFails, CasRootLost
  <2> QED BY <2>1, <2>2, Zenon
<1>3. CASE CollectStep(c)
  <2>1. CASE Mark(c)
    BY <1>1, <2>1, Zenon DEF Mark, Adds, remote
  <2>2. CASE CloseNewPack(c)
    BY <1>1, <2>2, Zenon DEF CloseNewPack, Adds
  <2>3. CASE StopGC(c) \/ EndGC(c)
    BY <2>3, Zenon DEF StopGC, EndGC
  <2>4. CASE GCRoot(c) \/ ListPacks(c) \/ FillPack(c) \/ PackMoved(c) \/ SweepDone(c)
               \/ RemoveDone(c)
    BY <2>4, Zenon DEF GCRoot, ListPacks, FillPack, PackMoved, SweepDone, RemoveDone
  <2>5. ASSUME NEW p \in 1..Len(packs), SkipPack(c, p) \/ OpenPack(c, p)
        PROVE  UNCHANGED remote
    BY <2>5, Zenon DEF SkipPack, OpenPack
  <2> QED BY <1>3, <2>1, <2>2, <2>3, <2>4, <2>5 DEF CollectStep
<1>4. CASE Die(c)
  BY <1>4, Zenon DEF Die
<1> QED BY <1>2, <1>3, <1>4, Zenon DEF Act

\* Packs are written once.
LEMMA PacksStay ==
  ASSUME TypeInv, NEW c \in Client, Act(c)
  PROVE  /\ Len(packs) \in Nat /\ Len(packs') \in Nat /\ Len(packs) <= Len(packs')
         /\ \A p \in 1..Len(packs) : packs'[p] = packs[p]
         /\ live \subseteq 1..Len(packs)
         /\ live \subseteq live' \/ \E p \in Nat : RemoveOldPack(c, p)
<1>1. RemoteTypeOK /\ packs \in Seq(SUBSET Chunk) /\ Len(packs) \in Nat
  BY DEF TypeInv, TypeOK, RemoteTypeOK
<1>2. CASE Adds
  <2>1. packs' \in Seq(SUBSET Chunk)
    BY <1>1, <1>2, CommitPackFacts, Zenon DEF Adds
  <2> QED BY <1>1, <1>2, <2>1, CommitPackFacts DEF Adds, RemoteTypeOK
<1>3. CASE ~Adds
  <2>1. packs' = packs
    BY <1>3, RemoteEffect, Zenon DEF remote, CasRoot, SwapRoot, StopEpoch, StartGC, StartEpoch,
       RemoveOldPack, RemovePack
  <2>2. live' = live \/ \E p \in Nat : RemoveOldPack(c, p)
    BY <1>3, RemoteEffect, Zenon DEF remote, CasRoot, SwapRoot, StopEpoch, StartGC, StartEpoch
  <2> QED BY <1>1, <2>1, <2>2 DEF RemoteTypeOK
<1> QED BY <1>2, <1>3, Zenon

-----------------------------------------------------------------------------
(***************************************************************************)
(* Epochs.                                                                 *)
(***************************************************************************)
LEMMA EpochMoves ==
  ASSUME TypeInv, NEW c \in Client, Act(c)
  PROVE  /\ epoch \in Nat /\ epoch' \in Nat /\ epoch <= epoch'
         /\ epoch' = epoch /\ gcRunning' => gcRunning
         /\ epoch' # epoch => epoch' = epoch + 1
<1>1. epoch \in Nat
  BY Zenon DEF TypeInv, TypeOK, RemoteTypeOK
<1>2. CASE StopEpoch
  <2>1. epoch' \in {epoch, epoch + 1}
    BY <1>2, Zenon DEF StopEpoch
  <2>2. ~gcRunning'
    BY <1>2, Zenon DEF StopEpoch
  <2> QED BY <1>1, <2>1, <2>2
<1>3. CASE StartGC(c)
  <2>1. epoch' = epoch + 1
    BY <1>3, Zenon DEF StartGC, StartEpoch
  <2> QED BY <1>1, <2>1
<1>4. CASE ~StopEpoch /\ ~StartGC(c)
  <2>1. epoch' = epoch /\ gcRunning' = gcRunning
    BY <1>4, RemoteEffect, Zenon DEF remote, Adds, CasRoot, SwapRoot, RemoveOldPack, RemovePack
  <2> QED BY <1>1, <2>1
<1> QED BY <1>2, <1>3, <1>4, Zenon

\* A client gets an epoch from GetEpoch or StartGC, and only collects with
\* the one StartGC gave it.
LEMMA OwnEpoch ==
  ASSUME TypeInv, NEW c \in Client, Act(c)
  PROVE  /\ myEpoch'[c] \in {0, myEpoch[c], epoch} \/ (StartGC(c) /\ myEpoch'[c] = epoch')
         /\ InGC(c)' => \/ InGC(c) /\ myEpoch'[c] = myEpoch[c]
                        \/ StartGC(c) /\ epoch' = epoch + 1
<1> USE DEF TypeInv, TypeOK, CommitTypeOK, InGC, At, Goto, cmdVars, storeVars, rootVars
<1>1. CASE CommitStep(c)
  <2>1. /\ pc'[c] \in {"idle", "epoch", "store", "root", "ref", "build", "rotate", "close",
                       "cas", "gcstop", "gcstart"}
        /\ myEpoch'[c] \in {0, myEpoch[c], epoch}
    <3>1. CASE \E o \in Commands[c] : Start(c, o)
      BY <3>1, Zenon DEF Start
    <3>2. CASE StartInit(c) \/ GetEpoch(c) \/ GetCStore(c) \/ GetRoot(c)
      BY <3>2, Zenon DEF StartInit, GetEpoch, GetCStore, GetRoot
    <3>3. CASE GetRef(c) \/ GetRefFails(c) \/ PutChunks(c) \/ PutRefFails(c)
      BY <3>3, Zenon DEF GetRef, GetRefFails, PutChunks, PutRefFails
    <3>4. CASE Rotate(c) \/ CloseStore(c) \/ CloseStoreFails(c)
      BY <3>4, Zenon DEF Rotate, CloseStore, CloseStoreFails
    <3>5. CASE CasRoot(c) \/ CasRootLost(c)
      BY <3>5, Zenon DEF CasRoot, CasRootLost, Exit
    <3> QED BY <1>1, <3>1, <3>2, <3>3, <3>4, <3>5, Zenon DEF CommitStep
  <2> QED BY <2>1, Zenon
<1>2. CASE CollectStep(c)
  <2>1. CASE StopGC(c) \/ EndGC(c)
    BY <2>1, Zenon DEF StopGC, EndGC, Exit
  <2>2. CASE StartGC(c)
    BY <2>2, Zenon DEF StartGC, StartEpoch
  <2>3. CASE GCRoot(c) \/ Mark(c)
    BY <2>3, Zenon DEF GCRoot, Mark
  <2>4. CASE ListPacks(c) \/ FillPack(c) \/ PackMoved(c) \/ SweepDone(c) \/ CloseNewPack(c)
               \/ RemoveDone(c) \/ \E p \in 1..Len(packs) : SkipPack(c, p) \/ OpenPack(c, p)
                                                             \/ RemoveOldPack(c, p)
    <3>1. SweepFrame(c)
      <4>1. 1..Len(packs) \subseteq Nat /\ 0 \in Nat
        OBVIOUS
      <4> HIDE DEF TypeInv
      <4> QED BY <2>4, <4>1, TypeSweep, Zenon
    <3> QED BY <3>1, Zenon DEF SweepFrame, Sweeping
  <2> QED BY <1>2, <2>1, <2>2, <2>3, <2>4, Zenon DEF CollectStep
<1>3. CASE Die(c)
  BY <1>3, Zenon DEF Die, Exit
<1> QED BY <1>1, <1>2, <1>3, Zenon DEF Act

LEMMA EpochStep ==
  ASSUME TypeInv, EpochInv, NEW c \in Client, Act(c)
  PROVE  EpochInv'
<1>1. \A d \in Client : d # c => Same(d)
  BY OthersSame, Zenon
<1>2. \A d \in Client : myEpoch[d] \in Nat /\ myEpoch[d] <= epoch
  BY Zenon DEF EpochInv, EpochsRead, TypeInv, TypeOK, CommitTypeOK
<1>3. epoch \in Nat /\ epoch' \in Nat /\ epoch <= epoch'
  BY EpochMoves, Zenon
<1>4. EpochsRead'
  <2>1. ASSUME NEW d \in Client, d # c PROVE myEpoch'[d] <= epoch'
    <3>1. myEpoch'[d] = myEpoch[d]
      BY <1>1, <2>1, Zenon DEF Same
    <3> QED BY <1>2, <1>3, <3>1
  <2>2. myEpoch'[c] \in {0, myEpoch[c], epoch, epoch'}
    BY OwnEpoch, Zenon
  <2>3. myEpoch'[c] <= epoch'
    BY <1>2, <1>3, <2>2
  <2> QED BY <2>1, <2>3, Zenon DEF EpochsRead
<1>5. EpochsDiffer'
  <2>1. \A d \in Client : d # c /\ InGC(d)' => InGC(d) /\ myEpoch'[d] = myEpoch[d]
    BY <1>1, Zenon DEF Same, InGC
  <2>2. ASSUME NEW d \in Client, d # c, InGC(c)', InGC(d)'
        PROVE  myEpoch'[c] # myEpoch'[d]
    <3>1. CASE InGC(c) /\ myEpoch'[c] = myEpoch[c]
      BY <2>1, <2>2, <3>1, Zenon DEF EpochInv, EpochsDiffer
    <3>2. CASE StartGC(c) /\ epoch' = epoch + 1
      <4>1. myEpoch'[c] = epoch + 1
        BY <3>2, Zenon DEF StartGC, TypeInv, TypeOK, CommitTypeOK
      <4> QED BY <1>2, <1>3, <2>1, <2>2, <4>1
    <3> QED BY <2>2, <3>1, <3>2, OwnEpoch, Zenon
  <2>3. \A d, e \in Client : d # c /\ e # c /\ InGC(d)' /\ InGC(e)'
          /\ myEpoch'[d] = myEpoch'[e] => d = e
    BY <2>1, Zenon DEF EpochInv, EpochsDiffer
  <2> QED BY <2>2, <2>3, Zenon DEF EpochsDiffer
<1> QED BY <1>4, <1>5, Zenon DEF EpochInv

LEMMA EpochInit == Init => EpochInv
  BY DEF Init, RemoteInit, CommitInit, EpochInv, EpochsRead, EpochsDiffer, InGC

\* The same in a step that changes nothing.
LEMMA EpochStutter == EpochInv /\ UNCHANGED vars => EpochInv'
  BY Zenon DEF vars, remote, clientVars, EpochInv, EpochsRead, EpochsDiffer, InGC

LEMMA OneAct == Next <=> \E c \in Client : Act(c)
  BY Zenon DEF Next, Act

(***************************************************************************)
(* A second collection always makes the first one fail: at most one client *)
(* can still remove packs, however many run gc, are killed and run it      *)
(* again.                                                                  *)
(***************************************************************************)
THEOREM SingleCollector == Spec => []OneCollector
<1>1. Init => TypeInv /\ EpochInv
  BY TypeInit, EpochInit, Zenon
<1>2. TypeInv /\ EpochInv /\ [Next]_vars => TypeInv' /\ EpochInv'
  BY TypeStep, EpochStep, EpochStutter, OneAct, Zenon
<1>3. EpochInv => OneCollector
  BY Zenon DEF EpochInv, EpochsDiffer, OneCollector, Collecting
<1> QED BY <1>1, <1>2, <1>3, PTL DEF Spec

-----------------------------------------------------------------------------
(***************************************************************************)
(* A collection never removes the last copy of a chunk the root reaches.   *)
(***************************************************************************)

\* While somebody collects, nobody else changes the root or removes a pack.
LEMMA OthersCollect ==
  ASSUME TypeInv, EpochInv, NEW c \in Client, Act(c), NEW d \in Client, d # c, Collecting(d)'
  PROVE  Collecting(d) /\ root' = root /\ live \subseteq live'
<1>1. InGC(d) /\ myEpoch'[d] = myEpoch[d] /\ myEpoch'[d] = epoch' /\ gcRunning'
  BY OthersSame, Zenon DEF Same, InGC, Collecting
<1>2. epoch' = epoch
  <2>1. myEpoch[d] \in Nat /\ myEpoch[d] <= epoch
    BY Zenon DEF EpochInv, EpochsRead, TypeInv, TypeOK, CommitTypeOK
  <2>2. epoch \in Nat /\ epoch' \in Nat /\ epoch <= epoch'
    BY EpochMoves, Zenon
  <2> QED BY <1>1, <2>1, <2>2
<1>3. Collecting(d)
  BY <1>1, <1>2, EpochMoves, Zenon DEF Collecting
<1>4. ~CasRoot(c) /\ ~StartGC(c)
  BY <1>2, <1>3, EpochMoves DEF CasRoot, Accepts, Collecting, StartGC, StartEpoch
<1>5. ASSUME NEW p \in Nat, RemoveOldPack(c, p)
      PROVE  FALSE
  BY <1>3, <1>5, Zenon DEF RemoveOldPack, RemovePack, Collecting, InGC, At, EpochInv, EpochsDiffer
<1>6. root' = root
  BY <1>4, <1>5, RemoteEffect, Zenon DEF remote, Adds, StopEpoch
<1> QED BY <1>3, <1>5, <1>6, PacksStay, Zenon

LEMMA OwnCollect ==
  ASSUME TypeInv, EpochInv, NEW c \in Client, Act(c), Collecting(c)'
  PROVE  (Collecting(c) \/ StartGC(c)) /\ root' = root
<1>1. CASE StartGC(c)
  BY <1>1, Zenon DEF StartGC, StartEpoch
<1>2. CASE ~StartGC(c)
  <2>1. InGC(c) /\ myEpoch'[c] = myEpoch[c] /\ myEpoch'[c] = epoch' /\ gcRunning'
    BY <1>2, OwnEpoch, Zenon DEF Collecting
  <2>2. epoch' = epoch
    <3>1. myEpoch[c] \in Nat /\ myEpoch[c] <= epoch
      BY Zenon DEF EpochInv, EpochsRead, TypeInv, TypeOK, CommitTypeOK
    <3>2. epoch \in Nat /\ epoch' \in Nat /\ epoch <= epoch'
      BY EpochMoves, Zenon
    <3> QED BY <2>1, <3>1, <3>2
  <2>3. Collecting(c)
    BY <2>1, <2>2, EpochMoves, Zenon DEF Collecting
  <2>4. root' = root
    BY <1>2, <2>3, RemoteEffect, Zenon DEF remote, Adds, StopEpoch, CasRoot, Accepts, Collecting,
       RemoveOldPack, RemovePack
  <2> QED BY <2>3, <2>4, Zenon
<1> QED BY <1>1, <1>2, Zenon

LEMMA SweepOthers ==
  ASSUME TypeInv, EpochInv, NEW c \in Client, Act(c), NEW d \in Client, d # c, SweepOf(d)
  PROVE  SweepOf(d)'
<1>1. Same(d)
  BY OthersSame, Zenon
<1>2. /\ Len(packs) \in Nat /\ Len(packs') \in Nat /\ Len(packs) <= Len(packs')
      /\ \A p \in 1..Len(packs) : packs'[p] = packs[p]
      /\ live \subseteq 1..Len(packs)
  BY PacksStay, Zenon
<1>3. (~Sweeping(d) \/ At(d, "gclist") => SweepUnset(d))'
  BY <1>1, Zenon DEF Same, SweepOf, Sweeping, At, SweepUnset
<1>4. PacksApart(d)'
  <2>1. 1..Len(packs) \subseteq 1..Len(packs')
    BY <1>2
  <2> QED BY <1>1, <2>1, Zenon DEF Same, SweepOf, PacksApart, At
<1>5. ASSUME Collecting(d)'
      PROVE  RootMarked(d)' /\ (Sweeping(d)' => DeleteMoved(d)' /\ MovedKept(d)')
  <2>1. Collecting(d) /\ root' = root /\ live \subseteq live'
    BY <1>5, OthersCollect, Zenon
  <2>2. RootMarked(d)'
    BY <1>1, <2>1, Zenon DEF Same, SweepOf, RootMarked, Sweeping, At
  <2>3. ASSUME Sweeping(d)'
        PROVE  DeleteMoved(d)' /\ MovedKept(d)'
    <3>1. DeleteMoved(d) /\ MovedKept(d) /\ canDelete[d] \subseteq 1..Len(packs)
      BY <1>1, <2>1, <2>3, Zenon DEF Same, SweepOf, Sweeping, PacksApart
    <3>2. DeleteMoved(d)'
      BY <1>1, <1>2, <3>1, Zenon DEF Same, DeleteMoved
    <3>3. MovedKept(d)'
      BY <1>1, <1>2, <2>1, <3>1, Zenon DEF Same, MovedKept
    <3> QED BY <3>2, <3>3, Zenon
  <2> QED BY <2>2, <2>3, Zenon
<1> QED BY <1>3, <1>4, <1>5, Zenon DEF SweepOf

\* A client that is not collecting has nothing to sweep.
LEMMA SweepOutside ==
  ASSUME NEW c \in Client, ~InGC(c)', SweepUnset(c)'
  PROVE  SweepOf(c)'
  BY Zenon DEF SweepOf, InGC, Sweeping, At, Collecting, PacksApart, SweepUnset

LEMMA CommitPcs ==
  ASSUME TypeInv, NEW c \in Client, CommitStep(c)
  PROVE  ~InGC(c) /\ ~InGC(c)'
<1> USE DEF TypeInv, TypeOK, CommitTypeOK, InGC, At, Goto
<1>1. CASE \E o \in Commands[c] : Start(c, o)
  BY <1>1, Zenon DEF Start
<1>2. CASE StartInit(c) \/ GetEpoch(c) \/ GetCStore(c) \/ GetRoot(c)
  BY <1>2 DEF StartInit, GetEpoch, GetCStore, GetRoot
<1>3. CASE GetRef(c) \/ GetRefFails(c) \/ PutChunks(c) \/ PutRefFails(c)
  BY <1>3, Zenon DEF GetRef, GetRefFails, PutChunks, PutRefFails
<1>4. CASE Rotate(c) \/ CloseStore(c) \/ CloseStoreFails(c)
  BY <1>4, Zenon DEF Rotate, CloseStore, CloseStoreFails
<1>5. CASE CasRoot(c) \/ CasRootLost(c)
  BY <1>5, Zenon DEF CasRoot, CasRootLost, Exit
<1> QED BY <1>1, <1>2, <1>3, <1>4, <1>5, Zenon DEF CommitStep

\* A client that ends its collection or dies keeps nothing of it.
LEMMA GCDropped ==
  ASSUME TypeInv, NEW c \in Client, EndGC(c) \/ Die(c)
  PROVE  pc'[c] = "idle" /\ SweepUnset(c)' /\ listed'[c] = {}
<1>1. Exit(c) /\ DropGC(c)
  BY Zenon DEF EndGC, Die
<1>2. pc'[c] = "idle"
  BY <1>1, Zenon DEF Exit, Goto, TypeInv, TypeOK, CommitTypeOK
<1>3. SweepUnset(c)' /\ listed'[c] = {}
  BY <1>1, Zenon DEF DropGC, SweepUnset, TypeInv, TypeOK, CollectTypeOK
<1> QED BY <1>2, <1>3

\* The steps of a client outside its sweep.
LEMMA SweepEntered ==
  ASSUME TypeInv, EpochInv, NEW c \in Client, Act(c), SweepOf(c),
         \/ CommitStep(c) /\ UNCHANGED gcVars
         \/ StopGC(c) \/ StartGC(c) \/ GCRoot(c) \/ Mark(c) \/ ListPacks(c)
         \/ EndGC(c) \/ Die(c)
  PROVE  SweepOf(c)'
<1> USE DEF TypeInv, TypeOK, CommitTypeOK, CollectTypeOK, Goto, At, gcVars
<1>1. CASE CommitStep(c) /\ UNCHANGED gcVars
  <2>1. ~InGC(c) /\ ~InGC(c)'
    BY <1>1, CommitPcs, Zenon
  <2>2. SweepUnset(c)'
    BY <1>1, <2>1, Zenon DEF InGC, Sweeping, SweepOf, SweepUnset
  <2> QED BY <2>1, <2>2, SweepOutside, Zenon
<1>2. CASE StopGC(c)
  <2>1. ~InGC(c)' /\ SweepUnset(c)'
    BY <1>2, Zenon DEF StopGC, Exit, InGC, Sweeping, SweepOf, SweepUnset
  <2> QED BY <2>1, SweepOutside, Zenon
<1>3. CASE EndGC(c) \/ Die(c)
  <2>1. ~InGC(c)' /\ SweepUnset(c)'
    BY <1>3, GCDropped, Zenon DEF InGC
  <2> QED BY <2>1, SweepOutside, Zenon
<1>4. CASE StartGC(c)
  BY <1>4, Zenon DEF StartGC, StartEpoch, SweepOf, SweepUnset, Sweeping, PacksApart, RootMarked
<1>5. CASE GCRoot(c)
  BY <1>5, Zenon DEF GCRoot, remote, SweepOf, SweepUnset, Sweeping, PacksApart, RootMarked
<1>6. CASE Mark(c)
  <2>1. SweepUnset(c) /\ SweepUnset(c)' /\ pc'[c] = "gclist" /\ visited'[c] = Reach(base[c])
    BY <1>6, Zenon DEF Mark, SweepOf, Sweeping, SweepUnset
  <2>2. PacksApart(c)'
    BY <2>1, Zenon DEF SweepUnset, PacksApart
  <2>3. Collecting(c)' => RootMarked(c)'
    <3>1. SUFFICES ASSUME Collecting(c)' PROVE RootMarked(c)'
      BY Zenon
    <3>2. Collecting(c) /\ root' = root
      BY <1>6, <3>1, OwnCollect, Zenon DEF Mark, StartGC
    <3>3. base[c] = root
      BY <1>6, <3>2, Zenon DEF Mark, SweepOf, RootMarked
    <3> QED BY <2>1, <3>2, <3>3, Zenon DEF RootMarked
  <2>4. DeleteMoved(c)' /\ MovedKept(c)'
    BY <2>1, Zenon DEF SweepUnset, DeleteMoved, MovedKept
  <2> QED BY <2>1, <2>2, <2>3, <2>4, Zenon DEF SweepOf
<1>7. CASE ListPacks(c)
  <2>1. /\ SweepUnset(c) /\ pc[c] = "gclist" /\ pc'[c] = "gcsweep"
        /\ toSweep'[c] = live /\ packs' = packs /\ root' = root /\ live \subseteq 1..Len(packs)
        /\ visited' = visited /\ myEpoch' = myEpoch /\ epoch' = epoch
        /\ moved'[c] = {} /\ newPack'[c] = {} /\ canDelete'[c] = {} /\ cur'[c] = NoPack
    BY <1>7, Zenon DEF ListPacks, SweepOf, SweepUnset, remote, RemoteTypeOK
  <2>2. PacksApart(c)'
    BY <2>1, Zenon DEF PacksApart
  <2>3. Collecting(c)' => RootMarked(c)'
    <3>1. SUFFICES ASSUME Collecting(c)' PROVE RootMarked(c)'
      BY Zenon
    <3>2. Collecting(c)
      BY <1>7, <3>1, OwnCollect, Zenon DEF ListPacks, StartGC
    <3> QED BY <2>1, <3>2, Zenon DEF RootMarked, Sweeping, SweepOf
  <2>4. DeleteMoved(c)' /\ MovedKept(c)'
    BY <2>1, Zenon DEF DeleteMoved, MovedKept
  <2> QED BY <2>1, <2>2, <2>3, <2>4, Zenon DEF SweepOf, Sweeping
<1> QED BY <1>1, <1>2, <1>3, <1>4, <1>5, <1>6, <1>7, Zenon

(***************************************************************************)
(* The steps of a sweep leave what was marked as it is.                    *)
(***************************************************************************)
Sweep(c) ==
  \/ FillPack(c) \/ PackMoved(c) \/ SweepDone(c) \/ CloseNewPack(c) \/ RemoveDone(c)
  \/ \E p \in Nat : SkipPack(c, p) \/ OpenPack(c, p) \/ RemoveOldPack(c, p)

LEMMA SweepSteps ==
  ASSUME TypeInv, EpochInv, NEW c \in Client, Act(c), SweepOf(c), Sweep(c)
  PROVE  /\ Sweeping(c) /\ ~At(c, "gclist")
         /\ Sweeping(c)' /\ ~At(c, "gclist")' /\ ~At(c, "gcmark")'
         /\ visited' = visited
         /\ Collecting(c)' => Collecting(c) /\ RootMarked(c)'
<1>1. /\ Sweeping(c) /\ ~At(c, "gclist") /\ ~StartGC(c)
      /\ Sweeping(c)' /\ ~At(c, "gclist")' /\ ~At(c, "gcmark")'
      /\ visited' = visited
  BY Zenon DEF Sweep, TypeInv, TypeOK, CommitTypeOK, Goto, At, Sweeping, StartGC, FillPack, PackMoved,
     SweepDone, CloseNewPack, RemoveDone, SkipPack, OpenPack, RemoveOldPack, gcVars, clientVars
<1>2. ASSUME Collecting(c)'
      PROVE  Collecting(c) /\ RootMarked(c)'
  BY <1>1, <1>2, OwnCollect, Zenon DEF SweepOf, RootMarked
<1> QED BY <1>1, <1>2, Zenon

\* What the steps do to the state of the sweep.
LEMMA SweepSkip ==
  ASSUME TypeInv, NEW c \in Client, NEW p \in Nat, SkipPack(c, p), PacksApart(c)
  PROVE  /\ PacksApart(c)'
         /\ DeleteMoved(c) /\ MovedKept(c) => DeleteMoved(c)' /\ MovedKept(c)'
<1> USE DEF TypeInv, TypeOK, CommitTypeOK, CollectTypeOK, Goto, At, SkipPack, remote,
            clientVars
<1>1. PacksApart(c)'
  BY Zenon DEF PacksApart
<1>2. DeleteMoved(c) => DeleteMoved(c)'
  BY Zenon DEF DeleteMoved
<1>3. MovedKept(c) => MovedKept(c)'
  BY Zenon DEF MovedKept, PacksApart
<1> QED BY <1>1, <1>2, <1>3, Zenon

LEMMA SweepOpen ==
  ASSUME TypeInv, NEW c \in Client, NEW p \in Nat, OpenPack(c, p), PacksApart(c)
  PROVE  /\ PacksApart(c)'
         /\ DeleteMoved(c) /\ MovedKept(c) => DeleteMoved(c)' /\ MovedKept(c)'
<1> USE DEF TypeInv, TypeOK, CommitTypeOK, CollectTypeOK, Goto, At, OpenPack, remote
<1>1. PacksApart(c)'
  BY DEF PacksApart, NoPack
<1>2. DeleteMoved(c) => DeleteMoved(c)'
  BY Zenon DEF DeleteMoved
<1>3. MovedKept(c) => MovedKept(c)'
  BY Zenon DEF MovedKept
<1> QED BY <1>1, <1>2, <1>3, Zenon

LEMMA SweepFill ==
  ASSUME TypeInv, NEW c \in Client, FillPack(c), PacksApart(c)
  PROVE  /\ PacksApart(c)'
         /\ DeleteMoved(c) /\ MovedKept(c) => DeleteMoved(c)' /\ MovedKept(c)'
<1> USE DEF TypeInv, TypeOK, CommitTypeOK, CollectTypeOK, Goto, At, FillPack, PutValues, remote
<1>1. PacksApart(c)'
  BY Zenon DEF PacksApart
<1>2. PICK X : /\ moved'[c] = moved[c] \cup X /\ newPack'[c] = newPack[c] \cup X
               /\ UNCHANGED <<packs, live, visited, canDelete, toSweep>>
  BY Zenon
<1>3. DeleteMoved(c) => DeleteMoved(c)'
  BY <1>2, Zenon DEF DeleteMoved
<1>4. MovedKept(c) => MovedKept(c)'
  BY <1>2, Zenon DEF MovedKept
<1> QED BY <1>1, <1>3, <1>4, Zenon

LEMMA SweepMoved ==
  ASSUME TypeInv, NEW c \in Client, PackMoved(c), PacksApart(c)
  PROVE  /\ PacksApart(c)'
         /\ DeleteMoved(c) /\ MovedKept(c) => DeleteMoved(c)' /\ MovedKept(c)'
<1> USE DEF TypeInv, TypeOK, CommitTypeOK, CollectTypeOK, Goto, At, PackMoved, PutValues, remote
<1>1. PacksApart(c)'
  BY Zenon DEF PacksApart
<1>2. DeleteMoved(c) => DeleteMoved(c)'
  BY Zenon DEF DeleteMoved, Needed
<1>3. /\ moved'[c] = moved[c] \cup Needed(c) /\ newPack'[c] = newPack[c] \cup Needed(c)
      /\ canDelete'[c] = canDelete[c] \cup {cur[c]} /\ toSweep'[c] = toSweep[c] \ {cur[c]}
      /\ cur[c] \in toSweep[c] /\ packs' = packs /\ live' = live
  BY Zenon DEF PacksApart
<1>4. canDelete'[c] \cup toSweep'[c] = canDelete[c] \cup toSweep[c]
  BY <1>3, Zenon
<1>5. MovedKept(c) => MovedKept(c)'
  BY <1>3, <1>4, Zenon DEF MovedKept
<1> QED BY <1>1, <1>2, <1>5, Zenon

LEMMA SweepPcOnly ==
  ASSUME TypeInv, NEW c \in Client, SweepDone(c) \/ RemoveDone(c), PacksApart(c)
  PROVE  /\ PacksApart(c)'
         /\ DeleteMoved(c) /\ MovedKept(c) => DeleteMoved(c)' /\ MovedKept(c)'
<1> USE DEF TypeInv, TypeOK, CommitTypeOK, CollectTypeOK, Goto, At, SweepDone, RemoveDone,
            remote, gcVars
<1>1. PacksApart(c)'
  BY Zenon DEF PacksApart
<1>2. DeleteMoved(c) => DeleteMoved(c)'
  BY Zenon DEF DeleteMoved
<1>3. MovedKept(c) => MovedKept(c)'
  BY Zenon DEF MovedKept
<1> QED BY <1>1, <1>2, <1>3, Zenon

LEMMA SweepClose ==
  ASSUME TypeInv, NEW c \in Client, CloseNewPack(c), Act(c), PacksApart(c)
  PROVE  /\ PacksApart(c)'
         /\ DeleteMoved(c) /\ MovedKept(c) => DeleteMoved(c)' /\ MovedKept(c)'
<1>1. /\ Len(packs) \in Nat /\ Len(packs') \in Nat /\ Len(packs) <= Len(packs')
      /\ \A p \in 1..Len(packs) : packs'[p] = packs[p]
      /\ live \subseteq 1..Len(packs)
  BY PacksStay, Zenon
<1>2. /\ newPack'[c] = {} /\ pc'[c] = "gcremove"
      /\ visited' = visited /\ moved' = moved /\ canDelete' = canDelete
      /\ toSweep' = toSweep /\ cur' = cur
  BY Zenon DEF CloseNewPack, TypeInv, TypeOK, CommitTypeOK, CollectTypeOK, Goto
<1>3. PacksApart(c)'
  <2>1. 1..Len(packs) \subseteq 1..Len(packs')
    BY <1>1
  <2> QED BY <1>2, <2>1, Zenon DEF PacksApart, At
<1>4. DeleteMoved(c) => DeleteMoved(c)'
  BY <1>1, <1>2, Zenon DEF DeleteMoved, PacksApart
<1>5. live \subseteq live' /\ \A h \in newPack[c] : Len(packs) + 1 \in live'
                                     /\ h \in packs'[Len(packs) + 1]
  BY DEF CloseNewPack, CommitPack, TypeInv, TypeOK, RemoteTypeOK
<1>6. Len(packs) + 1 \notin canDelete[c] \cup toSweep[c]
  BY <1>1 DEF PacksApart
<1>7. MovedKept(c) => MovedKept(c)'
  BY <1>1, <1>2, <1>5, <1>6, Zenon DEF MovedKept
<1> QED BY <1>3, <1>4, <1>7, Zenon

LEMMA SweepRemove ==
  ASSUME TypeInv, NEW c \in Client, NEW p \in Nat, RemoveOldPack(c, p), PacksApart(c)
  PROVE  /\ PacksApart(c)'
         /\ DeleteMoved(c) /\ MovedKept(c) => DeleteMoved(c)' /\ MovedKept(c)'
<1> USE DEF TypeInv, TypeOK, CommitTypeOK, CollectTypeOK, Goto, At, RemoveOldPack, RemovePack,
            clientVars
<1>1. PacksApart(c)'
  BY Zenon DEF PacksApart
<1>2. DeleteMoved(c) => DeleteMoved(c)'
  BY Zenon DEF DeleteMoved
<1>3. MovedKept(c) => MovedKept(c)'
  BY Zenon DEF MovedKept
<1> QED BY <1>1, <1>2, <1>3, Zenon

LEMMA SweepOwn ==
  ASSUME TypeInv, EpochInv, NEW c \in Client, Act(c), SweepOf(c)
  PROVE  SweepOf(c)'
<1>1. CASE Sweep(c)
  <2>1. /\ Sweeping(c) /\ ~At(c, "gclist")
        /\ Sweeping(c)' /\ ~At(c, "gclist")' /\ ~At(c, "gcmark")'
        /\ Collecting(c)' => Collecting(c) /\ RootMarked(c)'
    BY <1>1, SweepSteps, Zenon
  <2>2. PacksApart(c)
    BY Zenon DEF SweepOf
  <2>3. /\ PacksApart(c)'
        /\ DeleteMoved(c) /\ MovedKept(c) => DeleteMoved(c)' /\ MovedKept(c)'
    BY <1>1, <2>2, SweepSkip, SweepOpen, SweepFill, SweepMoved, SweepPcOnly, SweepClose,
       SweepRemove, Zenon DEF Sweep
  <2> QED BY <2>1, <2>3, Zenon DEF SweepOf
<1>2. CASE ~Sweep(c)
  <2>1. 1..Len(packs) \subseteq Nat
    BY DEF TypeInv, TypeOK, RemoteTypeOK
  <2>2. \/ CommitStep(c) /\ UNCHANGED gcVars
        \/ StopGC(c) \/ StartGC(c) \/ GCRoot(c) \/ Mark(c) \/ ListPacks(c)
        \/ EndGC(c) \/ Die(c)
    BY <1>2, <2>1, Zenon DEF Act, CollectStep, Sweep
  <2> QED BY <2>2, SweepEntered, Zenon
<1> QED BY <1>1, <1>2, Zenon

LEMMA SweepStep ==
  ASSUME TypeInv, EpochInv, SweepInv, NEW c \in Client, Act(c)
  PROVE  SweepInv'
<1>1. \A d \in Client : SweepOf(d)
  BY Zenon DEF SweepInv
<1>2. \A d \in Client : SweepOf(d)'
  BY <1>1, SweepOthers, SweepOwn, Zenon
<1> QED BY <1>2, Zenon DEF SweepInv

LEMMA SweepInit == Init => SweepInv
<1> SUFFICES ASSUME Init, NEW c \in Client
             PROVE  SweepOf(c)
  BY Zenon DEF SweepInv
<1>1. At(c, "idle") /\ ~Sweeping(c) /\ ~Collecting(c)
  BY Zenon DEF Init, CommitInit, At, Sweeping, Collecting, InGC
<1>2. SweepUnset(c)
  BY Zenon DEF Init, CollectInit, SweepUnset
<1>3. PacksApart(c)
  BY <1>1, <1>2, Zenon DEF SweepUnset, PacksApart, At
<1> QED BY <1>1, <1>2, <1>3, Zenon DEF SweepOf

LEMMA SweepStutter == SweepInv /\ UNCHANGED vars => SweepInv'
<1> SUFFICES ASSUME SweepInv, UNCHANGED vars, NEW c \in Client
             PROVE  SweepOf(c)'
  BY Zenon DEF SweepInv
<1>1. UNCHANGED <<packs, live, root, epoch, gcRunning, pc, myEpoch, base, visited, moved,
                  newPack, canDelete, toSweep, cur>>
  BY Zenon DEF vars, remote, clientVars, gcVars, rootVars
<1>2. /\ Sweeping(c)' <=> Sweeping(c)
      /\ Collecting(c)' <=> Collecting(c)
      /\ \A l : At(c, l)' <=> At(c, l)
  BY <1>1, Zenon DEF Sweeping, Collecting, InGC, At
<1>3. /\ SweepUnset(c)' <=> SweepUnset(c)
      /\ PacksApart(c)' <=> PacksApart(c)
      /\ RootMarked(c)' <=> RootMarked(c)
  BY <1>1, <1>2, Zenon DEF SweepUnset, PacksApart, RootMarked
<1>4. DeleteMoved(c)' <=> DeleteMoved(c)
  BY <1>1, Zenon DEF DeleteMoved
<1>5. MovedKept(c)' <=> MovedKept(c)
  BY <1>1, Zenon DEF MovedKept
<1> QED BY <1>2, <1>3, <1>4, <1>5, Zenon DEF SweepOf, SweepInv

\* A pack is removed by the running collection, when what the root reaches
\* in it is in a pack that stays.
LEMMA StepKeeps ==
  ASSUME TypeInv, EpochInv, SweepInv, NEW c \in Client, Act(c)
  PROVE  Reach(root) \cap Stored \subseteq Stored'
<1>1. /\ \A p \in 1..Len(packs) : packs'[p] = packs[p]
      /\ live \subseteq 1..Len(packs)
  BY PacksStay, Zenon
<1>2. CASE live \subseteq live'
  BY <1>1, <1>2, Zenon DEF Stored
<1>3. ASSUME NEW p \in Nat, RemoveOldPack(c, p)
      PROVE  Reach(root) \cap Stored \subseteq Stored'
  <2>1. /\ p \in canDelete[c] /\ live' = live \ {p} /\ packs' = packs
        /\ At(c, "gcremove") /\ Collecting(c) /\ Sweeping(c)
    BY <1>3, Zenon DEF RemoveOldPack, RemovePack, Collecting, InGC, Sweeping, At
  <2>2. /\ visited[c] = Reach(root) /\ newPack[c] = {}
        /\ DeleteMoved(c) /\ MovedKept(c)
    BY <2>1, Zenon DEF SweepInv, SweepOf, RootMarked, PacksApart
  <2>3. ASSUME NEW h \in Reach(root) \cap packs[p]
        PROVE  \E q \in live' : h \in packs[q]
    <3>1. h \in moved[c]
      BY <2>1, <2>2, <2>3, Zenon DEF DeleteMoved
    <3>2. PICK q \in live \ (canDelete[c] \cup toSweep[c]) : h \in packs[q]
      BY <2>2, <3>1, Zenon DEF MovedKept
    <3> QED BY <2>1, <3>2, Zenon
  <2> QED BY <2>1, <2>3, Zenon DEF Stored
<1> QED BY <1>2, <1>3, PacksStay, Zenon

(***************************************************************************)
(* No step takes away a chunk the root reaches.  This needs nothing of the *)
(* commands that run or of what may fail: any number of writers and        *)
(* collectors may run, die and fail at any call, and a collection that was *)
(* overtaken by another one removes nothing more.                          *)
(***************************************************************************)
THEOREM CollectionKeeps == Spec => KeepsReachable
<1> DEFINE I == TypeInv /\ EpochInv /\ SweepInv
<1>1. Init => I
  BY TypeInit, EpochInit, SweepInit, Zenon
<1>2. I /\ [Next]_vars => I'
  BY TypeStep, EpochStep, EpochStutter, SweepStep, SweepStutter, OneAct, Zenon
<1>3. I /\ [Next]_vars => [Reach(root) \cap Stored \subseteq Stored']_vars
  BY StepKeeps, OneAct, Zenon
<1> QED BY <1>1, <1>2, <1>3, PTL DEF Spec, KeepsReachable

-----------------------------------------------------------------------------
(***************************************************************************)
(* A collection leaves nothing in the packs it listed but what was marked. *)
(***************************************************************************)

\* A pack that is gone does not come back.
LEMMA NoPackReturns ==
  ASSUME TypeInv, NEW c \in Client, Act(c), NEW p \in 1..Len(packs), p \in live'
  PROVE  p \in live
<1>1. Len(packs) \in Nat /\ p # Len(packs) + 1
  BY DEF TypeInv, TypeOK, RemoteTypeOK
<1>2. CASE Adds
  BY <1>1, <1>2, Zenon DEF Adds, CommitPack
<1>3. CASE ~Adds
  BY <1>3, RemoteEffect, Zenon DEF remote, CasRoot, SwapRoot, StopEpoch, StartGC, StartEpoch,
     RemoveOldPack, RemovePack
<1> QED BY <1>2, <1>3, Zenon

\* What is true of a pack that was listed stays true as the drive goes on.
LEMMA SweptStays ==
  ASSUME TypeInv, NEW c \in Client, Act(c), NEW d \in Client, ReclaimOf(d),
         listed'[d] = listed[d], visited'[d] = visited[d], PacksSwept(d),
         \A p \in live' : p \in toSweep[d] \cup canDelete[d]
                            => p \in toSweep'[d] \cup canDelete'[d] \/ packs[p] \subseteq visited[d]
  PROVE  PacksSwept(d)'
<1>1. \A p \in 1..Len(packs) : packs'[p] = packs[p]
  BY PacksStay, Zenon
<1>2. listed[d] \subseteq 1..Len(packs)
  BY Zenon DEF ReclaimOf
<1>3. ASSUME NEW p \in listed'[d], p \in live'
      PROVE  p \in toSweep'[d] \cup canDelete'[d] \/ packs'[p] \subseteq visited'[d]
  <2>1. p \in listed[d] /\ p \in 1..Len(packs) /\ packs'[p] = packs[p]
    BY <1>1, <1>2, <1>3, Zenon
  <2>2. p \in live
    BY <1>3, <2>1, NoPackReturns, Zenon
  <2> QED BY <1>3, <2>1, <2>2, Zenon DEF PacksSwept
<1> QED BY <1>3, Zenon DEF PacksSwept

LEMMA ListedStays ==
  ASSUME TypeInv, NEW c \in Client, Act(c), NEW d \in Client, ReclaimOf(d),
         listed'[d] \in {listed[d], live, {}}
  PROVE  listed'[d] \subseteq 1..Len(packs')
<1>1. Len(packs) \in Nat /\ Len(packs') \in Nat /\ Len(packs) <= Len(packs') /\ live \subseteq 1..Len(packs)
  BY PacksStay, Zenon
<1>2. 1..Len(packs) \subseteq 1..Len(packs')
  BY <1>1
<1> QED BY <1>1, <1>2, Zenon DEF ReclaimOf

LEMMA ReclaimOthers ==
  ASSUME TypeInv, NEW c \in Client, Act(c), NEW d \in Client, d # c, ReclaimOf(d)
  PROVE  ReclaimOf(d)'
<1>1. Same(d)
  BY OthersSame, Zenon
<1>2. listed'[d] \subseteq 1..Len(packs')
  BY <1>1, ListedStays, Zenon DEF Same
<1>3. ASSUME Sweeping(d)', ~At(d, "gclist")' PROVE PacksSwept(d)'
  <2>1. PacksSwept(d)
    BY <1>1, <1>3, Zenon DEF Same, Sweeping, At, ReclaimOf
  <2> QED BY <1>1, <2>1, SweptStays, Zenon DEF Same
<1> QED BY <1>1, <1>2, <1>3, Zenon DEF ReclaimOf, Same, At

\* The steps of a client outside its sweep, and the one that begins it.
LEMMA ReclaimEntered ==
  ASSUME TypeInv, NEW c \in Client, Act(c), SweepOf(c), ReclaimOf(c),
         \/ CommitStep(c) /\ UNCHANGED gcVars
         \/ StopGC(c) \/ StartGC(c) \/ GCRoot(c) \/ Mark(c) \/ ListPacks(c)
         \/ EndGC(c) \/ Die(c)
  PROVE  ReclaimOf(c)'
<1> USE DEF TypeInv, TypeOK, CommitTypeOK, CollectTypeOK, Goto, At, gcVars
<1>1. ASSUME ~Sweeping(c)' \/ At(c, "gclist")', listed'[c] \in {listed[c], {}} PROVE ReclaimOf(c)'
  <2>1. listed'[c] \subseteq 1..Len(packs')
    BY <1>1, ListedStays, Zenon
  <2> QED BY <1>1, <2>1, Zenon DEF ReclaimOf, Sweeping
<1>2. CASE CommitStep(c) /\ UNCHANGED gcVars
  <2>1. ~InGC(c)' /\ listed' = listed
    BY <1>2, CommitPcs, Zenon
  <2> QED BY <1>1, <2>1, Zenon DEF InGC, Sweeping
<1>3. CASE StopGC(c) \/ StartGC(c) \/ GCRoot(c) \/ Mark(c)
  BY <1>1, <1>3, Zenon DEF StopGC, StartGC, GCRoot, Mark, Exit, Sweeping
<1>4. CASE EndGC(c) \/ Die(c)
  <2>1. pc'[c] = "idle" /\ listed'[c] = {}
    BY <1>4, GCDropped, Zenon
  <2> QED BY <1>1, <2>1, Zenon DEF Sweeping
<1>5. CASE ListPacks(c)
  <2>1. listed'[c] = live /\ toSweep'[c] = live /\ live' = live /\ pc'[c] = "gcsweep"
    BY <1>5, Zenon DEF ListPacks, remote
  <2>2. listed'[c] \subseteq 1..Len(packs')
    BY <2>1, ListedStays, Zenon
  <2>3. PacksSwept(c)'
    BY <2>1, Zenon DEF PacksSwept
  <2> QED BY <2>1, <2>2, <2>3, Zenon DEF ReclaimOf
<1> QED BY <1>2, <1>3, <1>4, <1>5, Zenon

\* The steps of the sweep.
LEMMA ReclaimSweeps ==
  ASSUME TypeInv, NEW c \in Client, Act(c), SweepOf(c), ReclaimOf(c), Sweep(c)
  PROVE  ReclaimOf(c)'
<1> USE DEF TypeInv, TypeOK, CommitTypeOK, CollectTypeOK, Goto, At
<1>1. /\ listed' = listed /\ visited' = visited
      /\ Sweeping(c) /\ ~At(c, "gclist")
  BY Zenon DEF Sweep, Sweeping, FillPack, PackMoved, SweepDone, CloseNewPack, RemoveDone,
     SkipPack, OpenPack, RemoveOldPack, gcVars, clientVars
<1>2. listed'[c] \subseteq 1..Len(packs')
  BY <1>1, ListedStays, Zenon
<1>3. PacksSwept(c) /\ PacksApart(c)
  BY <1>1, Zenon DEF ReclaimOf, SweepOf
<1>4. PacksSwept(c)'
  <2>1. \A p \in live' : p \in toSweep[c] \cup canDelete[c]
                           => p \in toSweep'[c] \cup canDelete'[c] \/ packs[p] \subseteq visited[c]
    <3>1. ASSUME NEW p \in Nat, SkipPack(c, p)
          PROVE  \A q \in toSweep[c] \cup canDelete[c] :
                   q \in toSweep'[c] \cup canDelete'[c] \/ packs[q] \subseteq visited[c]
      BY <3>1, Zenon DEF SkipPack
    <3>2. ASSUME NEW p \in Nat, RemoveOldPack(c, p)
          PROVE  \A q \in live' : q \in toSweep[c] \cup canDelete[c]
                                    => q \in toSweep'[c] \cup canDelete'[c]
      BY <3>2, Zenon DEF RemoveOldPack, RemovePack
    <3>3. CASE PackMoved(c)
      BY <3>3, Zenon DEF PackMoved
    <3>4. CASE FillPack(c) \/ SweepDone(c) \/ CloseNewPack(c) \/ RemoveDone(c)
                 \/ \E p \in Nat : OpenPack(c, p)
      BY <3>4, Zenon DEF FillPack, SweepDone, CloseNewPack, RemoveDone, OpenPack, gcVars
    <3> QED BY <3>1, <3>2, <3>3, <3>4, Zenon DEF Sweep
  <2> HIDE DEF TypeInv
  <2> QED BY <1>1, <1>3, <2>1, SweptStays, Zenon
<1>5. /\ pc'[c] \in {"gcclose", "gcremove"} /\ cur'[c] = NoPack => toSweep'[c] = {}
      /\ pc'[c] = "gcend" => toSweep'[c] = {} /\ canDelete'[c] = {}
  <2>1. ASSUME NEW p \in Nat, SkipPack(c, p) \/ OpenPack(c, p)
        PROVE  pc'[c] \in {"gcsweep", "gcmove"}
    BY <2>1, Zenon DEF SkipPack, OpenPack, clientVars
  <2>2. ASSUME NEW p \in Nat, RemoveOldPack(c, p)
        PROVE  pc'[c] = "gcremove" /\ pc[c] = "gcremove" /\ toSweep' = toSweep /\ cur' = cur
    BY <2>2, Zenon DEF RemoveOldPack, clientVars
  <2>3. CASE FillPack(c)
    BY <1>3, <2>3, Zenon DEF FillPack, PacksApart
  <2>4. CASE PackMoved(c)
    BY <2>4, Zenon DEF PackMoved
  <2>5. CASE SweepDone(c) \/ CloseNewPack(c)
    BY <2>5, Zenon DEF SweepDone, CloseNewPack, ReclaimOf, gcVars
  <2>6. CASE RemoveDone(c)
    BY <2>6, Zenon DEF RemoveDone, ReclaimOf, gcVars
  <2> QED BY <2>1, <2>2, <2>3, <2>4, <2>5, <2>6, Zenon DEF Sweep, ReclaimOf
<1> QED BY <1>2, <1>4, <1>5, Zenon DEF ReclaimOf

LEMMA ReclaimStep ==
  ASSUME TypeInv, SweepInv, ReclaimInv, NEW c \in Client, Act(c)
  PROVE  ReclaimInv'
<1>1. ReclaimOf(c)'
  <2>1. SweepOf(c) /\ ReclaimOf(c) /\ 1..Len(packs) \subseteq Nat
    BY DEF SweepInv, ReclaimInv, TypeInv, TypeOK, RemoteTypeOK
  <2>2. CASE Sweep(c)
    BY <2>1, <2>2, ReclaimSweeps, Zenon
  <2>3. CASE ~Sweep(c)
    <3>1. \/ CommitStep(c) /\ UNCHANGED gcVars
          \/ StopGC(c) \/ StartGC(c) \/ GCRoot(c) \/ Mark(c) \/ ListPacks(c)
          \/ EndGC(c) \/ Die(c)
      BY <2>1, <2>3, Zenon DEF Act, CollectStep, Sweep
    <3> QED BY <2>1, <3>1, ReclaimEntered, Zenon
  <2> QED BY <2>2, <2>3, Zenon
<1>2. \A d \in Client : d # c => ReclaimOf(d)'
  BY ReclaimOthers, Zenon DEF ReclaimInv
<1> QED BY <1>1, <1>2, Zenon DEF ReclaimInv

LEMMA ReclaimInit == Init => ReclaimInv
BY Zenon DEF Init, CommitInit, CollectInit, ReclaimInv, ReclaimOf, Sweeping, At

LEMMA ReclaimStutter == ReclaimInv /\ UNCHANGED vars => ReclaimInv'
<1> SUFFICES ASSUME ReclaimInv, UNCHANGED vars, NEW c \in Client
             PROVE  ReclaimOf(c)'
  BY Zenon DEF ReclaimInv
<1>1. UNCHANGED <<packs, live, pc, visited, canDelete, listed, toSweep, cur>>
  BY Zenon DEF vars, remote, clientVars, gcVars
<1> QED BY <1>1, Zenon DEF ReclaimInv, ReclaimOf, PacksSwept, Sweeping, At

(***************************************************************************)
(* A collection that nobody stopped or overtook has, when sweep returns,   *)
(* left no chunk in the packs it listed that the root does not reach:      *)
(* every such pack was copied and removed, or held nothing else.           *)
(***************************************************************************)
THEOREM CollectionReclaims == Spec => []SweepReclaims
<1> DEFINE I == TypeInv /\ EpochInv /\ SweepInv /\ ReclaimInv
<1>1. Init => I
  BY TypeInit, EpochInit, SweepInit, ReclaimInit, Zenon
<1>2. I /\ [Next]_vars => I'
  BY TypeStep, EpochStep, EpochStutter, SweepStep, SweepStutter, ReclaimStep, ReclaimStutter,
     OneAct, Zenon
<1>3. I => SweepReclaims
  <2> SUFFICES ASSUME SweepInv, ReclaimInv, NEW c \in Client, At(c, "gcend"), gcRunning,
                      myEpoch[c] = epoch, NEW p \in listed[c] \cap live
               PROVE  packs[p] \subseteq Reach(root)
    BY Zenon DEF SweepReclaims
  <2>1. Collecting(c) /\ Sweeping(c) /\ ~At(c, "gclist")
    BY Zenon DEF Collecting, InGC, Sweeping, At
  <2>2. visited[c] = Reach(root)
    BY <2>1, Zenon DEF SweepInv, SweepOf, RootMarked
  <2> QED BY <2>1, <2>2, Zenon DEF ReclaimInv, ReclaimOf, PacksSwept
<1> QED BY <1>1, <1>2, <1>3, PTL DEF Spec

-----------------------------------------------------------------------------
(***************************************************************************)
(* A drive that is used as SafeUse says keeps everything its root reaches. *)
(***************************************************************************)

\* Once the remote would refuse a client, it always will.
LEMMA CurrentBefore ==
  ASSUME TypeInv, EpochInv, NEW c \in Client, Act(c), NEW d \in Client,
         myEpoch'[d] = myEpoch[d], Current(d)'
  PROVE  Current(d) /\ epoch' = epoch /\ live \subseteq live'
<1>1. myEpoch[d] \in Nat /\ myEpoch[d] <= epoch
  BY Zenon DEF EpochInv, EpochsRead, TypeInv, TypeOK, CommitTypeOK
<1>2. epoch \in Nat /\ epoch' \in Nat /\ epoch <= epoch'
  BY EpochMoves, Zenon
<1>3. myEpoch[d] = epoch' /\ ~gcRunning'
  BY Zenon DEF Current
<1>4. epoch' = epoch /\ myEpoch[d] = epoch
  BY <1>1, <1>2, <1>3
<1>5. ~StartGC(c)
  BY <1>2, <1>4 DEF StartGC, StartEpoch
<1>6. ~gcRunning
  <2>1. CASE StopEpoch
    BY <1>2, <1>4, <2>1 DEF StopEpoch
  <2>2. CASE ~StopEpoch
    BY <1>3, <1>5, <2>2, RemoteEffect, Zenon DEF remote, Adds, CasRoot, SwapRoot, Accepts,
       RemoveOldPack, RemovePack
  <2> QED BY <2>1, <2>2, Zenon
<1>7. live \subseteq live'
  BY <1>6, PacksStay, Zenon DEF RemoveOldPack, RemovePack
<1> QED BY <1>4, <1>6, <1>7, Zenon DEF Current

\* The root only changes by a swap, and its version with it.
LEMMA RootMoves ==
  ASSUME TypeInv, NEW c \in Client, Act(c), ~CasRoot(c)
  PROVE  root' = root /\ version' = version
  BY RemoteEffect, Zenon DEF remote, Adds, StopEpoch, StartGC, StartEpoch, RemoveOldPack, RemovePack

\* What is stored stays as long as no pack is removed.
LEMMA StoredGrows ==
  ASSUME TypeInv, NEW c \in Client, Act(c), live \subseteq live'
  PROVE  Stored \subseteq Stored'
  BY PacksStay, Zenon DEF Stored

\* In safe use, a client that clears the history is the only one to collect,
LEMMA ClearsAlone ==
  ASSUME SafeUse, TypeInv, NEW c \in Client, NEW d \in Client, Permitted(c), Permitted(d),
         Running(c), op[c].cmd = "gc", InGC(d)
  PROVE  c = d
<1>1. op[c] \in Command \cup {Init0} /\ op[d] \in Command \cup {Init0}
  BY Zenon DEF TypeInv, TypeOK, CommitTypeOK
<1>2. MayRun(c, "gc")
  BY <1>1, CommandFields, Zenon DEF Permitted, MayRun
<1>3. op[d].cmd \in {"gc", "gckeep"}
  BY Zenon DEF Permitted
<1>4. Running(d)
  BY <1>3 DEF Running, At, InGC, Init0
<1>5. MayRun(d, "gc") \/ MayRun(d, "gckeep")
  BY <1>1, <1>3, <1>4, CommandFields, Zenon DEF Permitted, MayRun
<1> QED BY <1>2, <1>5, Zenon DEF SafeUse

\* and nobody reverts.
LEMMA ClearsNoRevert ==
  ASSUME SafeUse, TypeInv, NEW c \in Client, NEW d \in Client, Permitted(c), Permitted(d),
         Running(c), op[c].cmd = "gc", Running(d), op[d].cmd = "revert"
  PROVE  FALSE
<1>1. op[c] \in Command \cup {Init0} /\ op[d] \in Command \cup {Init0}
  BY Zenon DEF TypeInv, TypeOK, CommitTypeOK
<1>2. MayRun(c, "gc") /\ MayRun(d, "revert")
  BY <1>1, CommandFields, Zenon DEF Permitted, MayRun
<1> QED BY <1>2, Zenon DEF SafeUse

-----------------------------------------------------------------------------
(***************************************************************************)
(* A swap in safe use.                                                     *)
(***************************************************************************)
LEMMA SwapComplete ==
  ASSUME TypeInv, NEW c \in Client, CommitOf(c), CasRoot(c)
  PROVE  Reach(root') \subseteq Stored'
<1>1. /\ Building(c) /\ Current(c) /\ ver[c] = version /\ root' = new[c]
      /\ packs' = packs /\ live' = live /\ At(c, "cas")
  BY Zenon DEF CasRoot, Accepts, SwapRoot, At, Building, Current
<1>2. Reach(new[c]) \subseteq (todo[c] \cup wset[c]) \cup Stored
  BY <1>1, Zenon DEF CommitOf, NewCovered
<1>3. todo[c] = {} /\ wset[c] = {}
  BY <1>1, Zenon DEF CommitOf, BuffersEmpty, At
<1> QED BY <1>1, <1>2, <1>3, Zenon DEF Stored

\* Under a client that reverts, a swap makes the history longer.
LEMMA SwapAppends ==
  ASSUME SafeUse, TypeInv, NEW c \in Client, CommitOf(c), CasRoot(c),
         NEW d \in Client, d # c, CommitOf(d), Running(d), op[d].cmd = "revert"
  PROVE  \E t \in AnyTree : root' = Append(root, t)
<1>1. /\ Building(c) /\ Current(c) /\ ver[c] = version /\ root' = new[c] /\ At(c, "cas")
      /\ RootRead(c)
  BY Zenon DEF CasRoot, Accepts, SwapRoot, At, Building, RootRead, Current
<1>2. base[c] = root
  BY <1>1, Zenon DEF CommitOf, BaseRead
<1>3. op[c] # Init0
  BY <1>2, Zenon DEF TypeInv, HistoriesSet, CommitOf, SettingUp
<1>4. Running(c)
  BY <1>1, <1>3, Zenon DEF Running, At
<1>5. op[c].cmd \notin {"init", "gc"}
  <2>1. op[c] \in Command \cup {Init0}
    BY Zenon DEF TypeInv, TypeOK, CommitTypeOK
  <2>2. op[c].cmd # "init"
    BY <1>3, <2>1, CommandFields, Zenon
  <2>3. op[c].cmd # "gc"
    BY <1>4, ClearsNoRevert, Zenon DEF CommitOf
  <2> QED BY <2>2, <2>3, Zenon
<1>6. PICK t \in NewTrees(op[c], base[c], target[c]) : new[c] = NewRef(op[c], base[c], t)
  BY <1>1, Zenon DEF CommitOf, NewMade
<1>7. t \in AnyTree
  BY <1>1, <1>4, NewTreesType, Zenon DEF TypeInv, TypeOK, CommitTypeOK, HistoriesSet, At
<1> QED BY <1>1, <1>2, <1>5, <1>6, <1>7, Zenon DEF NewRef

-----------------------------------------------------------------------------
(***************************************************************************)
(* The steps of the others.                                                *)
(***************************************************************************)
LEMMA CommitOthers ==
  ASSUME SafeUse, TypeInv, EpochInv, NEW c \in Client, Act(c), CommitOf(c),
         NEW d \in Client, d # c, CommitOf(d)
  PROVE  CommitOf(d)'
<1>1. Same(d)
  BY OthersSame, Zenon
<1>2. Permitted(d)' /\ SettingUp(d)' /\ BuffersEmpty(d)'
  BY <1>1 DEF Same, CommitOf, Permitted, SettingUp, BuffersEmpty, Running, InGC, At
<1>3. IndexFresh(d)'
  <2>1. SUFFICES ASSUME Loaded(d), Current(d)' \/ op[d].cmd = "gc"
                 PROVE  idx[d] \subseteq live'
    BY <1>1, Zenon DEF Same, IndexFresh, Loaded
  <2>2. CASE Current(d)'
    <3>1. Current(d) /\ live \subseteq live'
      BY <1>1, <2>2, CurrentBefore, Zenon DEF Same
    <3> QED BY <2>1, <3>1, Zenon DEF CommitOf, IndexFresh
  <2>3. CASE op[d].cmd = "gc"
    <3>1. ASSUME NEW p \in Nat, RemoveOldPack(c, p)
          PROVE  FALSE
      <4>1. InGC(c)
        BY <3>1, Zenon DEF RemoveOldPack, At, InGC
      <4>2. Running(d)
        BY <2>1, <2>3 DEF Loaded, Running, At, Init0
      <4> QED BY <2>3, <4>1, <4>2, ClearsAlone, Zenon DEF CommitOf
    <3>2. live \subseteq live'
      BY <3>1, PacksStay, Zenon
    <3> QED BY <2>1, <2>3, <3>2, Zenon DEF CommitOf, IndexFresh
  <2> QED BY <2>1, <2>2, <2>3, Zenon
<1>4. BaseRead(d)' /\ (RootRead(d)' /\ ver'[d] = version' => version' = version /\ root' = root)
  <2>1. version \in Nat /\ ver[d] \in Nat
    BY Zenon DEF TypeInv, TypeOK, RemoteTypeOK, CommitTypeOK
  <2>2. RootRead(d)' = RootRead(d) /\ ver'[d] = ver[d] /\ base'[d] = base[d]
    BY <1>1, Zenon DEF Same, RootRead, At
  <2>3. CASE CasRoot(c)
    <3>1. version' = version + 1
      BY <2>3, Zenon DEF CasRoot, SwapRoot
    <3> QED BY <2>1, <2>2, <3>1 DEF CommitOf, BaseRead
  <2>4. CASE ~CasRoot(c)
    BY <2>2, <2>4, RootMoves, Zenon DEF CommitOf, BaseRead
  <2> QED BY <2>3, <2>4, Zenon
<1>5. NewCovered(d)' /\ NewMade(d)'
  <2>1. SUFFICES ASSUME Building(d), Current(d)', ver[d] = version'
                 PROVE  /\ Reach(new[d]) \subseteq (todo[d] \cup wset[d]) \cup Stored'
                        /\ \E t \in NewTrees(op[d], base[d], target[d]) :
                             new[d] = NewRef(op[d], base[d], t)
    BY <1>1, Zenon DEF Same, NewCovered, NewMade, Building
  <2>2. Current(d) /\ live \subseteq live'
    BY <1>1, <2>1, CurrentBefore, Zenon DEF Same
  <2>3. version' = version
    BY <1>1, <1>4, <2>1, Zenon DEF Same, Building, RootRead
  <2> QED BY <2>1, <2>2, <2>3, StoredGrows, Zenon DEF CommitOf, NewCovered, NewMade
<1>6. TargetKept(d)'
  <2>1. SUFFICES ASSUME Running(d), op[d].cmd = "revert"
                 PROVE  \E i \in 1..Len(root') : target[d] = Prefix(root', i)
    BY <1>1, Zenon DEF Same, TargetKept, Running, At
  <2>2. PICK i \in 1..Len(root) : target[d] = Prefix(root, i)
    BY <2>1, Zenon DEF CommitOf, TargetKept
  <2>3. root \in History
    BY Zenon DEF TypeInv, TypeOK, RemoteTypeOK
  <2>4. CASE CasRoot(c)
    <3>1. PICK t \in AnyTree : root' = Append(root, t)
      BY <2>1, <2>4, SwapAppends, Zenon
    <3> QED BY <2>2, <2>3, <3>1, PrefixAppend, Zenon
  <2>5. CASE ~CasRoot(c)
    BY <2>2, <2>5, RootMoves, Zenon
  <2> QED BY <2>4, <2>5, Zenon
<1> QED BY <1>2, <1>3, <1>4, <1>5, <1>6, Zenon DEF CommitOf

-----------------------------------------------------------------------------
(***************************************************************************)
(* The steps of the client itself: it ends,                                *)
(***************************************************************************)
LEMMA CommitExit ==
  ASSUME NEW c \in Client, pc'[c] = "idle", op'[c] = Init0, base'[c] = <<>>
  PROVE  CommitOf(c)'
  BY Zenon DEF CommitOf, Permitted, SettingUp, IndexFresh, BaseRead, NewMade, NewCovered, BuffersEmpty,
     TargetKept, Running, InGC, At, Loaded, RootRead, Building, Init0

\* it collects,
LEMMA CommitInGC ==
  ASSUME NEW c \in Client, InGC(c)' \/ pc'[c] = "gcstart", op'[c] = op[c],
         op[c] \in Commands[c], op[c].cmd \in {"gc", "gckeep"}
  PROVE  CommitOf(c)'
<1>1. op[c] # Init0 /\ op[c].cmd # "revert"
  BY DEF Init0
<1> QED BY <1>1, Zenon DEF CommitOf, Permitted, SettingUp, IndexFresh, BaseRead, NewMade, NewCovered,
     BuffersEmpty, TargetKept, Running, InGC, At, Loaded, RootRead, Building

\* it starts,
LEMMA CommitStart ==
  ASSUME TypeInv, NEW c \in Client, NEW o \in Commands[c], Start(c, o)
  PROVE  CommitOf(c)'
<1>1. /\ op'[c] = o /\ pc'[c] = (IF o.cmd \in GCCommands THEN "store" ELSE "epoch")
      /\ idx'[c] = idx[c] /\ root' = root
  BY Zenon DEF Start, TypeInv, TypeOK, CommitTypeOK, Goto, remote, storeVars
<1>2. o \in Command /\ o # Init0
  BY CommandsAssumption DEF Command, Init0
<1>3. o.cmd = "gc" => ~Loaded(c)'
  BY <1>1, Zenon DEF Loaded, GCCommands
<1>4. o.cmd # "gc" => ~Loaded(c)'
  BY <1>1, Zenon DEF Loaded
<1>5. TargetKept(c)'
  BY <1>1, Zenon DEF Start, TargetKept, TypeInv, TypeOK, CommitTypeOK
<1>6. Permitted(c)' /\ SettingUp(c)' /\ BaseRead(c)' /\ NewMade(c)' /\ NewCovered(c)'
        /\ BuffersEmpty(c)'
  BY <1>1, <1>2, Zenon DEF Permitted, SettingUp, BaseRead, NewMade, NewCovered, BuffersEmpty, RootRead,
     Building, Running, InGC, At, GCCommands
<1> QED BY <1>3, <1>4, <1>5, <1>6, Zenon DEF CommitOf, IndexFresh

\* or goes on with the same command.  What the step leaves alone:
LEMMA CommitGoesOn ==
  ASSUME TypeInv, NEW c \in Client, CommitOf(c), ~At(c, "idle")',
         pc[c] \in {"epoch", "store", "root", "ref", "build", "rotate", "close", "cas"},
         pc[c] = "store" => (pc'[c] = "gcstop" <=> op[c].cmd \in {"gc", "gckeep", "cancel"}),
         op'[c] = op[c], target'[c] = target[c], root' = root,
         ~InGC(c)' /\ pc'[c] # "gcstart", pc'[c] = "gcstop" => pc[c] = "store"
  PROVE  Permitted(c)' /\ TargetKept(c)'
  BY Zenon DEF CommitOf, Permitted, TargetKept, Running, At

LEMMA CommitGetEpoch ==
  ASSUME TypeInv, NEW c \in Client, CommitOf(c), StartInit(c) \/ GetEpoch(c)
  PROVE  CommitOf(c)'
<1>1. /\ op' = op /\ target' = target /\ root' = root /\ version' = version /\ idx' = idx
      /\ live' = live /\ base' = base /\ new' = new /\ todo' = todo /\ wset' = wset
      /\ pc'[c] \in {"epoch", "root", "store"}
  BY Zenon DEF StartInit, GetEpoch, TypeInv, TypeOK, CommitTypeOK, Goto, remote, cmdVars, storeVars,
     rootVars
<1>2. NewMade(c)' /\ NewCovered(c)' /\ BuffersEmpty(c)'
  BY <1>1, Zenon DEF NewMade, NewCovered, BuffersEmpty, Building, At
<1>3. CASE StartInit(c)
  <2>1. pc'[c] = "epoch" /\ ver'[c] = version /\ root = <<>> /\ op[c] = Init0 /\ base[c] = <<>>
    BY <1>3, Zenon DEF StartInit, TypeInv, TypeOK, CommitTypeOK, IdleUnset, Goto
  <2>2. op[c].cmd = "init" /\ version \in Nat
    BY <2>1 DEF Init0, TypeInv, TypeOK, RemoteTypeOK
  <2>3. BaseRead(c)' /\ SettingUp(c)' /\ IndexFresh(c)'
    BY <1>1, <2>1, <2>2 DEF BaseRead, SettingUp, IndexFresh, Loaded
  <2>4. Permitted(c)' /\ TargetKept(c)'
    BY <1>1, <2>1, <2>2, Zenon DEF Permitted, TargetKept, Running, InGC, At
  <2> QED BY <1>2, <2>3, <2>4, Zenon DEF CommitOf
<1>4. CASE GetEpoch(c)
  <2>1. /\ pc[c] = "epoch" /\ ver' = ver
        /\ pc'[c] = (IF op[c].cmd = "gc" THEN "root" ELSE "store")
    BY <1>4, Zenon DEF GetEpoch, TypeInv, TypeOK, CommitTypeOK, Goto, rootVars, At
  <2>2. Permitted(c)' /\ TargetKept(c)'
    BY <1>1, <2>1, CommitGoesOn, Zenon DEF At, InGC
  <2>3. SettingUp(c)' /\ BaseRead(c)'
    <3>1. op[c] = Init0 => op[c].cmd # "gc"
      BY DEF Init0
    <3>2. SettingUp(c)'
      BY <1>1, <2>1, <3>1, Zenon DEF CommitOf, SettingUp, At
    <3>3. BaseRead(c)'
      BY <1>1, <2>1, <3>1, Zenon DEF CommitOf, BaseRead, RootRead, At
    <3> QED BY <3>2, <3>3
  <2>4. IndexFresh(c)'
    BY <1>1, <2>1, Zenon DEF CommitOf, IndexFresh, Loaded
  <2> QED BY <1>2, <2>2, <2>3, <2>4, Zenon DEF CommitOf
<1> QED BY <1>3, <1>4, Zenon

LEMMA CommitGetCStore ==
  ASSUME TypeInv, NEW c \in Client, CommitOf(c), GetCStore(c)
  PROVE  CommitOf(c)'
<1>1. /\ op' = op /\ target' = target /\ root' = root /\ version' = version
      /\ live' = live /\ packs' = packs /\ base' = base /\ ver' = ver
      /\ idx'[c] = live /\ pc[c] = "store" /\ pc'[c] \in {"build", "gcstop", "root"}
      /\ pc'[c] = "build" <=> op[c].cmd = "init"
      /\ pc'[c] = "gcstop" <=> op[c].cmd \in {"gc", "gckeep", "cancel"}
      /\ pc'[c] = "build" =>
           new'[c] = <<EmptyTree>> /\ todo'[c] = NewChunks(op[c], <<EmptyTree>>, EmptyTree)
  BY Zenon DEF GetCStore, TypeInv, TypeOK, CommitTypeOK, Goto, remote, cmdVars, At, GCCommands
<1>2. op[c].cmd = "init" <=> op[c] = Init0
  BY CommandFields, Zenon DEF TypeInv, TypeOK, CommitTypeOK
<1>3. Permitted(c)' /\ TargetKept(c)'
  BY <1>1, CommitGoesOn, Zenon DEF At, InGC
<1>4. SettingUp(c)' /\ BaseRead(c)' /\ IndexFresh(c)' /\ BuffersEmpty(c)'
  BY <1>1, <1>2, Zenon DEF CommitOf, SettingUp, BaseRead, RootRead, IndexFresh, BuffersEmpty, At
<1>5. NewMade(c)'
  BY <1>1, Zenon DEF NewMade, Building, NewTrees, NewRef
<1>6. NewCovered(c)'
  <2>1. SUFFICES ASSUME pc'[c] = "build"
                 PROVE  Reach(<<EmptyTree>>) \subseteq NewChunks(op[c], <<EmptyTree>>, EmptyTree)
    BY <1>1, Zenon DEF NewCovered, Building
  <2>2. EmptyTree \in AnyTree /\ Blocks(EmptyTree) = {}
    BY Zenon DEF EmptyTree, Tree, AnyTree, Blocks
  <2> QED BY <1>1, <2>1, <2>2, ReachSingle, Zenon DEF TreeChunks, NewChunks
<1> QED BY <1>3, <1>4, <1>5, <1>6, Zenon DEF CommitOf

LEMMA CommitGetRoot ==
  ASSUME TypeInv, NEW c \in Client, CommitOf(c), GetRoot(c)
  PROVE  CommitOf(c)'
<1>1. /\ op' = op /\ target' = target /\ root' = root /\ version' = version
      /\ live' = live /\ idx' = idx /\ base'[c] = root /\ ver'[c] = version /\ version \in Nat
      /\ pc[c] = "root" /\ pc'[c] = "ref"
  BY Zenon DEF GetRoot, TypeInv, TypeOK, CommitTypeOK, RemoteTypeOK, Goto, remote, cmdVars,
     storeVars, At
<1>2. gcRunning' = gcRunning /\ epoch' = epoch /\ myEpoch' = myEpoch
  BY Zenon DEF GetRoot, remote
<1>3. Permitted(c)' /\ TargetKept(c)'
  BY <1>1, CommitGoesOn, Zenon DEF At, InGC
<1>4. SettingUp(c)' /\ BaseRead(c)' /\ NewMade(c)' /\ BuffersEmpty(c)' /\ NewCovered(c)'
  <2>1. version <= version
    BY <1>1
  <2>2. BaseRead(c)'
    BY <1>1, <2>1, Zenon DEF BaseRead
  <2>3. SettingUp(c)'
    BY <1>1, Zenon DEF CommitOf, SettingUp
  <2> QED BY <1>1, <2>2, <2>3, Zenon DEF NewMade, BuffersEmpty, NewCovered, Building, At
<1>5. IndexFresh(c)'
  BY <1>1, <1>2, Zenon DEF CommitOf, IndexFresh, Loaded, Current
<1> QED BY <1>3, <1>4, <1>5, Zenon DEF CommitOf

\* What a client that can still succeed reads is there.
LEMMA RefStored ==
  ASSUME TypeInv, RootComplete, NEW c \in Client, CommitOf(c), At(c, "ref"), Current(c),
         ver[c] = version
  PROVE  /\ base[c] = root /\ base[c] # <<>> /\ op[c] # Init0
         /\ op[c].cmd = "revert" => target[c] # <<>>
         /\ op[c].cmd = "revert" => TreeChunks(Latest(target[c])) \subseteq Stored
         /\ op[c].cmd \in {"gc", "revert"} => ~Unreadable(c, RefChunk(RefRead(c)))
<1>1. base[c] = root
  BY Zenon DEF CommitOf, BaseRead, RootRead, At
<1>2. op[c] # Init0 /\ Running(c)
  BY Zenon DEF CommitOf, SettingUp, Running, At
<1>3. base[c] # <<>> /\ (op[c].cmd = "revert" => target[c] # <<>>)
  BY <1>2, Zenon DEF TypeInv, HistoriesSet, At
<1>4. idx[c] \subseteq live
  BY Zenon DEF CommitOf, IndexFresh, Loaded, At
<1>5. RefChunk(root) \in Reach(root)
  <2>1. root \in History
    BY Zenon DEF TypeInv, TypeOK, RemoteTypeOK
  <2> QED BY <1>1, <1>3, <2>1, LatestType, ReachMember, PrefixSelf, Zenon
<1>6. op[c].cmd = "revert" => {RefChunk(target[c])} \cup TreeChunks(Latest(target[c]))
                                \subseteq Reach(root)
  <2>1. root \in History
    BY Zenon DEF TypeInv, TypeOK, RemoteTypeOK
  <2> QED BY <1>2, <2>1, ReachMember, PrefixType DEF CommitOf, TargetKept
<1>7. RefChunk(RefRead(c)) \in Reach(root)
  BY <1>1, <1>5, <1>6, Zenon DEF RefRead
<1>8. ~Unreadable(c, RefChunk(RefRead(c)))
  BY <1>4, <1>7, Zenon DEF Unreadable, RootComplete
<1> QED BY <1>1, <1>2, <1>3, <1>6, <1>8, Zenon DEF RootComplete

LEMMA CommitGetRef ==
  ASSUME SafeUse, TypeInv, RootComplete, NEW c \in Client, CommitOf(c),
         GetRef(c) \/ GetRefFails(c)
  PROVE  CommitOf(c)'
<1>1. /\ op' = op /\ target' = target /\ root' = root /\ version' = version
      /\ live' = live /\ packs' = packs /\ base' = base /\ ver' = ver /\ wset' = wset
      /\ pc[c] = "ref" /\ pc'[c] = "build" /\ idx'[c] \in {idx[c], live}
  BY Zenon DEF GetRef, GetRefFails, IndexAfterGet, TypeInv, TypeOK, CommitTypeOK, Goto, remote,
     cmdVars, At
<1>2. gcRunning' = gcRunning /\ epoch' = epoch /\ myEpoch' = myEpoch
  BY Zenon DEF GetRef, GetRefFails, remote
<1>3. Permitted(c)' /\ TargetKept(c)'
  BY <1>1, CommitGoesOn, Zenon DEF At, InGC
<1>4. SettingUp(c)' /\ BaseRead(c)' /\ BuffersEmpty(c)'
  BY <1>1, Zenon DEF CommitOf, SettingUp, BaseRead, RootRead, BuffersEmpty, At
<1>5. IndexFresh(c)'
  BY <1>1, <1>2, Zenon DEF CommitOf, IndexFresh, Loaded, Current
<1>6. /\ op[c] \in Command \cup {Init0} /\ base[c] \in History /\ target[c] \in History
      /\ op[c] # Init0 /\ base[c] # <<>> /\ (op[c].cmd = "revert" => target[c] # <<>>)
  BY <1>1, Zenon DEF TypeInv, TypeOK, CommitTypeOK, HistoriesSet, Running, At, CommitOf, SettingUp
<1>7. \/ /\ "get" \notin Faults
         /\ GetRefFails(c)
         /\ new'[c] = NewRef(op[c], base[c], ZeroTree)
      \/ \E t \in NewTrees(op[c], base[c], target[c]) :
           /\ new'[c] = NewRef(op[c], base[c], t)
           /\ todo'[c] = NewChunks(op[c], new'[c], t)
  BY Zenon DEF GetRef, GetRefFails, TypeInv, TypeOK, CommitTypeOK, SafeUse
<1>8. NewCovered(c)' /\ NewMade(c)'
  <2>1. SUFFICES ASSUME Current(c), ver[c] = version
                 PROVE  /\ Reach(new'[c]) \subseteq todo'[c] \cup Stored
                        /\ \E t \in NewTrees(op[c], base[c], target[c]) :
                             new'[c] = NewRef(op[c], base[c], t)
    BY <1>1, <1>2, Zenon DEF NewCovered, NewMade, Building, Current, Stored
  <2>2. /\ base[c] = root
        /\ op[c].cmd = "revert" => TreeChunks(Latest(target[c])) \subseteq Stored
        /\ op[c].cmd \in {"gc", "revert"} => ~Unreadable(c, RefChunk(RefRead(c)))
    BY <1>1, <2>1, RefStored, Zenon DEF At
  <2>3. ~("get" \notin Faults /\ GetRefFails(c))
    BY <2>2, Zenon DEF GetRefFails
  <2>4. PICK t \in NewTrees(op[c], base[c], target[c]) :
           /\ new'[c] = NewRef(op[c], base[c], t)
           /\ todo'[c] = NewChunks(op[c], new'[c], t)
    BY <1>7, <2>3, Zenon
  <2>5. Reach(new'[c]) \subseteq (Reach(base[c]) \cup todo'[c])
           \cup (IF op[c].cmd = "revert" THEN TreeChunks(Latest(target[c])) ELSE {})
    BY <1>6, <2>4, NewReach, Zenon
  <2> QED BY <2>2, <2>4, <2>5, Zenon DEF RootComplete
<1> QED BY <1>3, <1>4, <1>5, <1>8, Zenon DEF CommitOf

LEMMA CommitPut ==
  ASSUME TypeInv, NEW c \in Client, CommitOf(c), PutChunks(c)
  PROVE  CommitOf(c)'
<1>1. /\ op' = op /\ target' = target /\ root' = root /\ version' = version
      /\ live' = live /\ packs' = packs /\ base' = base /\ ver' = ver /\ new' = new
      /\ idx' = idx /\ pc[c] = "build" /\ pc'[c] \in {"rotate", "close"}
  BY Zenon DEF PutChunks, TypeInv, TypeOK, CommitTypeOK, Goto, remote, cmdVars, rootVars, At
<1>2. gcRunning' = gcRunning /\ epoch' = epoch /\ myEpoch' = myEpoch
  BY Zenon DEF PutChunks, remote
<1>3. PICK X \in SUBSET todo[c] :
         /\ wset'[c] = AfterPut(c, X) /\ todo'[c] = todo[c] \ X
         /\ pc'[c] = "close" => X = todo[c]
  <2>1. PICK X \in SUBSET todo[c] :
         /\ \/ X = todo[c] /\ pc' = [pc EXCEPT ![c] = "close"]
            \/ pc' = [pc EXCEPT ![c] = "rotate"]
         /\ wset' = [wset EXCEPT ![c] = AfterPut(c, X)]
         /\ todo' = [todo EXCEPT ![c] = todo[c] \ X]
    BY Zenon DEF PutChunks, Goto
  <2> QED BY <2>1, Zenon DEF TypeInv, TypeOK, CommitTypeOK
<1>4. Permitted(c)' /\ TargetKept(c)'
  BY <1>1, CommitGoesOn, Zenon DEF At, InGC
<1>5. SettingUp(c)' /\ BaseRead(c)' /\ NewMade(c)'
  BY <1>1, <1>2, Zenon DEF CommitOf, SettingUp, BaseRead, RootRead, NewMade, Building, At, Current
<1>6. IndexFresh(c)'
  BY <1>1, <1>2, Zenon DEF CommitOf, IndexFresh, Loaded, Current
<1>7. BuffersEmpty(c)'
  BY <1>1, <1>3, Zenon DEF BuffersEmpty, At
<1>8. NewCovered(c)'
  <2>1. SUFFICES ASSUME Current(c), ver[c] = version
                 PROVE  Reach(new[c]) \subseteq (todo'[c] \cup wset'[c]) \cup Stored
    BY <1>1, <1>2, Zenon DEF NewCovered, Building, Current, Stored
  <2>2. Reach(new[c]) \subseteq (todo[c] \cup wset[c]) \cup Stored
    BY <1>1, <2>1, Zenon DEF CommitOf, NewCovered, Building
  <2>3. idx[c] \subseteq live
    BY <1>1, <2>1, Zenon DEF CommitOf, IndexFresh, Loaded
  <2>4. \A h \in X : h \in wset'[c] \cup Stored
    BY <1>3, <2>3, Zenon DEF AfterPut, Has, Stored
  <2> QED BY <1>3, <2>2, <2>4, Zenon DEF AfterPut
<1> QED BY <1>4, <1>5, <1>6, <1>7, <1>8, Zenon DEF CommitOf

\* The working set is stored by its commit.
LEMMA CommitStores ==
  ASSUME TypeInv, NEW S \in SUBSET Chunk, CommitPack(S)
  PROVE  live \subseteq live' /\ Stored \cup S \subseteq Stored'
<1>1. packs \in Seq(SUBSET Chunk) /\ live \subseteq 1..Len(packs)
  BY Zenon DEF TypeInv, TypeOK, RemoteTypeOK
<1>2. CASE S = {}
  BY <1>2, Zenon DEF CommitPack, Stored
<1>3. CASE S # {}
  <2>1. packs' = Append(packs, S) /\ live' = live \cup {Len(packs) + 1}
    BY <1>3, Zenon DEF CommitPack
  <2>2. packs'[Len(packs) + 1] = S /\ \A p \in live : packs'[p] = packs[p]
    BY <1>1, <2>1
  <2> QED BY <2>1, <2>2, Zenon DEF Stored
<1> QED BY <1>2, <1>3, Zenon

LEMMA CommitFlush ==
  ASSUME TypeInv, NEW c \in Client, CommitOf(c), Rotate(c) \/ CloseStore(c)
  PROVE  CommitOf(c)'
<1>1. /\ op' = op /\ target' = target /\ root' = root /\ version' = version
      /\ base' = base /\ ver' = ver /\ new' = new /\ todo' = todo /\ wset'[c] = {}
      /\ idx'[c] \in {idx[c], live'}
      /\ \/ pc[c] = "rotate" /\ pc'[c] = "build"
         \/ pc[c] = "close" /\ pc'[c] = "cas"
  BY Zenon DEF Rotate, CloseStore, TypeInv, TypeOK, CommitTypeOK, Goto, cmdVars, rootVars, At
<1>2. gcRunning' = gcRunning /\ epoch' = epoch /\ myEpoch' = myEpoch
  BY Zenon DEF Rotate, CloseStore
<1>3. live \subseteq live' /\ Stored \cup wset[c] \subseteq Stored'
  <2>1. wset[c] \in SUBSET Chunk /\ CommitPack(wset[c])
    BY Zenon DEF Rotate, CloseStore, TypeInv, TypeOK, CommitTypeOK
  <2> QED BY <2>1, CommitStores, Zenon
<1>4. Permitted(c)' /\ TargetKept(c)'
  BY <1>1, CommitGoesOn, Zenon DEF At, InGC
<1>5. SettingUp(c)' /\ BaseRead(c)' /\ NewMade(c)' /\ BuffersEmpty(c)'
  BY <1>1, <1>2, Zenon DEF CommitOf, SettingUp, BaseRead, RootRead, NewMade, Building, BuffersEmpty, At,
     Current
<1>6. IndexFresh(c)'
  BY <1>1, <1>2, <1>3, Zenon DEF CommitOf, IndexFresh, Loaded, Current
<1>7. NewCovered(c)'
  <2>1. SUFFICES ASSUME Current(c), ver[c] = version
                 PROVE  Reach(new[c]) \subseteq (todo[c] \cup wset'[c]) \cup Stored'
    BY <1>1, <1>2, Zenon DEF NewCovered, Building, Current
  <2>2. Reach(new[c]) \subseteq (todo[c] \cup wset[c]) \cup Stored
    BY <1>1, <2>1, Zenon DEF CommitOf, NewCovered, Building
  <2> QED BY <1>3, <2>2, Zenon
<1> QED BY <1>4, <1>5, <1>6, <1>7, Zenon DEF CommitOf

\* A client that collects is not setting the drive up.
LEMMA GcIsNoSetup ==
  ASSUME NEW c \in Client, op[c].cmd = "gc" \/ op[c].cmd = "gckeep"
  PROVE  op[c] # Init0
BY DEF Init0

LEMMA CommitCas ==
  ASSUME TypeInv, NEW c \in Client, CommitOf(c), CasRoot(c) \/ CasRootLost(c)
  PROVE  CommitOf(c)'
<1> USE DEF TypeInv, TypeOK, CommitTypeOK, Goto, At, cmdVars, storeVars
<1>1. CASE Exit(c)
  <2>1. pc'[c] = "idle" /\ op'[c] = Init0 /\ base'[c] = <<>>
    BY <1>1, Zenon DEF Exit, ForgetRoot
  <2> QED BY <2>1, CommitExit, Zenon
<1>2. CASE CasRoot(c) /\ ~Exit(c)
  <2>1. pc[c] = "cas" /\ op[c].cmd = "gc" /\ pc'[c] = "gcstart" /\ op' = op
    BY <1>2, Zenon DEF CasRoot
  <2>2. op[c] \in Commands[c]
    <3>1. op[c] # Init0
      BY <2>1, GcIsNoSetup, Zenon
    <3> QED BY <2>1, <3>1, Zenon DEF CommitOf, Permitted, Running
  <2> QED BY <2>1, <2>2, CommitInGC, Zenon
<1>3. CASE CasRootLost(c) /\ ~Exit(c)
  <2>1. /\ pc[c] = "cas" /\ pc'[c] = (IF op[c].cmd = "rm" THEN "root" ELSE "store")
        /\ op[c].cmd \in {"put", "cp", "cpwhen", "mv", "rm"}
        /\ op' = op /\ target' = target /\ idx' = idx /\ root' = root /\ live' = live
        /\ gcRunning' = gcRunning /\ epoch' = epoch /\ myEpoch' = myEpoch
    BY <1>3, Zenon DEF CasRootLost, remote
  <2>2. op[c] # Init0
    BY <2>1 DEF Init0
  <2>3. Permitted(c)' /\ TargetKept(c)'
    <3> HIDE DEF TypeInv
    <3> QED BY <2>1, CommitGoesOn, Zenon DEF InGC
  <2>4. SettingUp(c)' /\ BaseRead(c)' /\ NewMade(c)' /\ BuffersEmpty(c)' /\ NewCovered(c)'
    BY <2>1, <2>2, Zenon DEF SettingUp, BaseRead, RootRead, NewMade, Building, BuffersEmpty, NewCovered
  <2>5. IndexFresh(c)'
    BY <2>1, Zenon DEF CommitOf, IndexFresh, Loaded, Current
  <2> QED BY <2>3, <2>4, <2>5, Zenon DEF CommitOf
<1> QED BY <1>1, <1>2, <1>3, Zenon

LEMMA CommitStopGC ==
  ASSUME TypeInv, NEW c \in Client, CommitOf(c), StopGC(c)
  PROVE  CommitOf(c)'
<1> USE DEF TypeInv, TypeOK, CommitTypeOK, Goto, At, cmdVars, storeVars
<1>1. CASE Exit(c)
  <2>1. pc'[c] = "idle" /\ op'[c] = Init0 /\ base'[c] = <<>>
    BY <1>1, Zenon DEF Exit, ForgetRoot
  <2> QED BY <2>1, CommitExit, Zenon
<1>2. CASE ~Exit(c)
  <2>1. /\ pc[c] = "gcstop" /\ op' = op /\ target' = target /\ idx' = idx /\ root' = root
        /\ live' = live /\ op[c].cmd \in {"gc", "gckeep"}
        /\ pc'[c] = (IF op[c].cmd = "gckeep" THEN "gcstart" ELSE "epoch")
    BY <1>2, Zenon DEF StopGC, StopEpoch, CommitOf, Permitted
  <2>2. op[c] # Init0 /\ op[c] \in Commands[c]
    <3>1. op[c] # Init0
      BY <2>1, GcIsNoSetup, Zenon
    <3> QED BY <2>1, <3>1, Zenon DEF CommitOf, Permitted, Running
  <2>3. CASE op[c].cmd = "gckeep"
    BY <2>1, <2>2, <2>3, CommitInGC, Zenon
  <2>4. CASE op[c].cmd = "gc"
    <3>1. IndexFresh(c)'
      BY <2>1, <2>4, Zenon DEF CommitOf, IndexFresh, Loaded
    <3>2. SettingUp(c)' /\ BaseRead(c)' /\ NewMade(c)' /\ BuffersEmpty(c)' /\ NewCovered(c)'
      BY <2>1, <2>2, <2>4, Zenon DEF SettingUp, BaseRead, RootRead, NewMade, Building, BuffersEmpty,
         NewCovered
    <3>3. Permitted(c)' /\ TargetKept(c)'
      BY <2>1, <2>2, <2>4, Zenon DEF Permitted, TargetKept, InGC
    <3> QED BY <3>1, <3>2, <3>3, Zenon DEF CommitOf
  <2> QED BY <2>1, <2>3, <2>4, Zenon
<1> QED BY <1>1, <1>2, Zenon

LEMMA CommitCollects ==
  ASSUME TypeInv, NEW c \in Client, CommitOf(c),
         StartGC(c) \/ GCRoot(c) \/ Mark(c) \/ ListPacks(c) \/ Sweep(c)
  PROVE  CommitOf(c)'
<1>1. (InGC(c) \/ pc[c] = "gcstart") /\ InGC(c)' /\ op' = op
  <2> USE DEF TypeInv, TypeOK, CommitTypeOK, Goto, At, cmdVars, InGC
  <2>1. CASE StartGC(c) \/ GCRoot(c) \/ Mark(c) \/ ListPacks(c)
    BY <2>1, Zenon DEF StartGC, GCRoot, Mark, ListPacks
  <2>2. CASE FillPack(c) \/ PackMoved(c) \/ SweepDone(c) \/ CloseNewPack(c) \/ RemoveDone(c)
    BY <2>2, Zenon DEF FillPack, PackMoved, SweepDone, CloseNewPack, RemoveDone
  <2>3. ASSUME NEW p \in Nat, SkipPack(c, p) \/ OpenPack(c, p) \/ RemoveOldPack(c, p)
        PROVE  <1>1
    BY <2>3, Zenon DEF SkipPack, OpenPack, RemoveOldPack, clientVars
  <2> QED BY <2>1, <2>2, <2>3, Zenon DEF Sweep
<1>2. op[c].cmd \in {"gc", "gckeep"}
  BY <1>1, Zenon DEF CommitOf, Permitted, At
<1>3. op[c] \in Commands[c]
  <2>1. op[c] # Init0
    BY <1>2, GcIsNoSetup, Zenon
  <2>2. Running(c)
    BY <1>1, <2>1, Zenon DEF Running, InGC, At
  <2> QED BY <2>2, Zenon DEF CommitOf, Permitted
<1> QED BY <1>1, <1>2, <1>3, CommitInGC, Zenon

LEMMA CommitOwn ==
  ASSUME SafeUse, TypeInv, RootComplete, NEW c \in Client, Act(c), CommitOf(c)
  PROVE  CommitOf(c)'
<1>1. CASE CommitStep(c)
  <2>1. ~PutRefFails(c) /\ ~CloseStoreFails(c)
    BY Zenon DEF SafeUse, PutRefFails, CloseStoreFails
  <2> QED BY <1>1, <2>1, CommitStart, CommitGetEpoch, CommitGetCStore, CommitGetRoot,
       CommitGetRef, CommitPut, CommitFlush, CommitCas, Zenon DEF CommitStep
<1>2. CASE CollectStep(c) /\ ~EndGC(c)
  <2>1. 1..Len(packs) \subseteq Nat
    BY DEF TypeInv, TypeOK, RemoteTypeOK
  <2> QED BY <1>2, <2>1, CommitStopGC, CommitCollects, Zenon DEF CollectStep, Sweep
<1>3. CASE EndGC(c) \/ Die(c)
  <2>1. pc'[c] = "idle" /\ op'[c] = Init0 /\ base'[c] = <<>>
    BY <1>3, Zenon DEF EndGC, Die, Exit, ForgetRoot, Goto, TypeInv, TypeOK, CommitTypeOK
  <2> QED BY <2>1, CommitExit, Zenon
<1> QED BY <1>1, <1>2, <1>3, Zenon DEF Act

LEMMA CompleteStep ==
  ASSUME SafeUse, CompleteInv, NEW c \in Client, Act(c)
  PROVE  CommitInv' /\ RootComplete'
<1>1. TypeInv /\ EpochInv /\ SweepInv /\ RootComplete /\ \A d \in Client : CommitOf(d)
  BY Zenon DEF CompleteInv, CommitInv
<1>2. \A d \in Client : CommitOf(d)'
  BY <1>1, CommitOthers, CommitOwn, Zenon
<1>3. CASE CasRoot(c)
  BY <1>1, <1>2, <1>3, SwapComplete, Zenon DEF RootComplete, CommitInv
<1>4. CASE ~CasRoot(c)
  <2>1. root' = root
    BY <1>1, <1>4, RootMoves, Zenon
  <2>2. Reach(root) \subseteq Stored'
    BY <1>1, StepKeeps, Zenon DEF RootComplete
  <2> QED BY <1>2, <2>1, <2>2, Zenon DEF RootComplete, CommitInv
<1> QED BY <1>3, <1>4, Zenon

LEMMA CompleteInit == Init => CommitInv /\ RootComplete
<1> SUFFICES ASSUME Init PROVE CommitInv /\ RootComplete
  BY Zenon
<1>1. CommitInv
  BY Zenon DEF Init, CommitInit, CommitInv, CommitOf, Permitted, SettingUp, IndexFresh, BaseRead,
     NewMade, NewCovered, BuffersEmpty, TargetKept, Running, InGC, At, Loaded, RootRead, Building,
     Init0
<1>2. RootComplete
  BY DEF Init, RemoteInit, RootComplete, Reach
<1> QED BY <1>1, <1>2, Zenon

LEMMA CompleteStutter == CommitInv /\ RootComplete /\ UNCHANGED vars => CommitInv' /\ RootComplete'
<1> SUFFICES ASSUME CommitInv, RootComplete, UNCHANGED vars
             PROVE  CommitInv' /\ RootComplete'
  BY Zenon
<1>1. /\ UNCHANGED <<packs, live, root, version, epoch, gcRunning, pc, op, target, myEpoch>>
      /\ UNCHANGED <<idx, wset, todo, base, ver, new>>
  BY Zenon DEF vars, remote, clientVars, cmdVars, storeVars, rootVars
<1>2. Stored' = Stored
  BY <1>1, Zenon DEF Stored
<1>3. ASSUME NEW c \in Client
      PROVE  CommitOf(c)'
  <2>1. /\ Running(c)' <=> Running(c)
        /\ Current(c)' <=> Current(c)
        /\ RootRead(c)' <=> RootRead(c)
        /\ Loaded(c)' <=> Loaded(c)
        /\ Building(c)' <=> Building(c)
        /\ InGC(c)' <=> InGC(c)
        /\ \A l : At(c, l)' <=> At(c, l)
    BY <1>1, Zenon DEF Running, Current, RootRead, Loaded, Building, InGC, At
  <2>2. /\ Permitted(c)' <=> Permitted(c)
        /\ SettingUp(c)' <=> SettingUp(c)
        /\ BuffersEmpty(c)' <=> BuffersEmpty(c)
    BY <1>1, <2>1, Zenon DEF Permitted, SettingUp, BuffersEmpty
  <2>3. /\ IndexFresh(c)' <=> IndexFresh(c)
        /\ BaseRead(c)' <=> BaseRead(c)
        /\ TargetKept(c)' <=> TargetKept(c)
    BY <1>1, <2>1, Zenon DEF IndexFresh, BaseRead, TargetKept
  <2>4. NewMade(c)' <=> NewMade(c)
    BY <1>1, <2>1, Zenon DEF NewMade
  <2>5. NewCovered(c)' <=> NewCovered(c)
    BY <1>1, <1>2, <2>1, Zenon DEF NewCovered
  <2> QED BY <2>2, <2>3, <2>4, <2>5, Zenon DEF CommitOf, CommitInv
<1> QED BY <1>1, <1>2, <1>3, Zenon DEF RootComplete, CommitInv

LEMMA CompleteInductive ==
  ASSUME SafeUse
  PROVE  (Init => CompleteInv) /\ (CompleteInv /\ [Next]_vars => CompleteInv')
<1>1. Init => CompleteInv
  BY TypeInit, EpochInit, SweepInit, CompleteInit, Zenon DEF CompleteInv
<1>2. ASSUME CompleteInv, [Next]_vars
      PROVE  CompleteInv'
  <2>1. TypeInv'
    BY <1>2, TypeStep, Zenon DEF CompleteInv
  <2>2. CASE UNCHANGED vars
    BY <1>2, <2>1, <2>2, EpochStutter, SweepStutter, CompleteStutter, Zenon DEF CompleteInv
  <2>3. CASE Next
    <3>1. PICK c \in Client : Act(c)
      BY <2>3, OneAct, Zenon
    <3>2. EpochInv' /\ SweepInv'
      BY <1>2, <3>1, EpochStep, SweepStep, Zenon DEF CompleteInv
    <3>3. CommitInv' /\ RootComplete'
      BY <1>2, <3>1, CompleteStep, Zenon
    <3> QED BY <2>1, <3>2, <3>3, Zenon DEF CompleteInv
  <2> QED BY <1>2, <2>2, <2>3, Zenon
<1> QED BY <1>1, <1>2, Zenon

(***************************************************************************)
(* As long as nothing fails half way and a history is only cleared when    *)
(* nobody else collects and nobody reverts, every chunk that the root      *)
(* reaches is stored, however the commands of any number of clients        *)
(* interleave, lose their race for the root or are killed.                 *)
(***************************************************************************)
THEOREM DriveComplete == SafeUse => (Spec => []RootComplete)
<1> SUFFICES ASSUME SafeUse PROVE Spec => []RootComplete
  BY Zenon
<1>1. CompleteInv => RootComplete
  BY Zenon DEF CompleteInv
<1>2. (Init => CompleteInv) /\ (CompleteInv /\ [Next]_vars => CompleteInv')
  BY CompleteInductive, Zenon
<1> QED BY <1>1, <1>2, PTL DEF Spec

-----------------------------------------------------------------------------
(***************************************************************************)
(* Every step of a drive is a step of DriveHistory.                        *)
(***************************************************************************)
\* The two specifications speak of the same trees and commands.
LEMMA SameTrees ==
  /\ DH!EmptyTree = EmptyTree
  /\ DH!Command = Command
  /\ \A s : DH!Latest(s) = Latest(s)
  /\ \A s, i : DH!Prefix(s, i) = Prefix(s, i)
  /\ \A o, b, g : DH!NewTrees(o, b, g) = NewTrees(o, b, g)
<1>1. DH!EmptyTree = EmptyTree
  BY Zenon DEF DH!EmptyTree, EmptyTree
<1>2. DH!Command = Command
  BY Zenon DEF DH!Command, Command
<1>3. \A s : DH!Latest(s) = Latest(s)
  BY Zenon DEF DH!Latest, Latest
<1>4. \A s, i : DH!Prefix(s, i) = Prefix(s, i)
  BY Zenon DEF DH!Prefix, Prefix
<1>5. \A t, n : DH!Holds(t, n) <=> Holds(t, n)
  BY Zenon DEF DH!Holds, Holds
<1>6. \A t, n, f : DH!Insert(t, n, f) = Insert(t, n, f)
  BY <1>5, Zenon DEF DH!Insert, Insert
<1>7. \A t, n : DH!Remove(t, n) = Remove(t, n)
  BY <1>5, Zenon DEF DH!Remove, Remove
<1>8. \A t, n, m : DH!Copy(t, n, m) = Copy(t, n, m)
  BY <1>5, <1>6, Zenon DEF DH!Copy, Copy
<1>9. \A t, n, m : DH!Move(t, n, m) = Move(t, n, m)
  BY <1>7, <1>8, Zenon DEF DH!Move, Move
<1>10. \A o, t : DH!Applied(o, t) = Applied(o, t)
  BY <1>6, <1>7, <1>8, <1>9, Zenon DEF DH!Applied, Applied
<1>11. \A o, b, g : DH!NewTrees(o, b, g) = NewTrees(o, b, g)
  <2> SUFFICES ASSUME NEW o, NEW b, NEW g
               PROVE  DH!NewTrees(o, b, g) = NewTrees(o, b, g)
    BY Zenon
  <2>1. DH!Latest(b) = Latest(b) /\ DH!Latest(g) = Latest(g)
    BY <1>3, Zenon
  <2>2. DH!Applied(o, Latest(b)) = Applied(o, Latest(b))
    BY <1>10, Zenon
  <2>3. UNION { DH!Applied(o, b[i]) : i \in 1..Len(b) }
          = UNION { Applied(o, b[i]) : i \in 1..Len(b) }
    BY <1>10, Zenon
  <2> QED BY <1>1, <2>1, <2>2, <2>3, Zenon DEF DH!NewTrees, NewTrees
<1> QED BY <1>1, <1>2, <1>3, <1>4, <1>11, Zenon

LEMMA SwapIsChange ==
  ASSUME TypeInv, NEW c \in Client, CommitOf(c), CasRoot(c)
  PROVE  DH!Next
<1>1. /\ Building(c) /\ Current(c) /\ ver[c] = version /\ root' = new[c] /\ pc[c] = "cas"
      /\ RootRead(c)
  BY Zenon DEF CasRoot, Accepts, SwapRoot, At, Building, RootRead, Current
<1>2. base[c] = root
  BY <1>1, Zenon DEF CommitOf, BaseRead
<1>3. PICK t \in NewTrees(op[c], root, target[c]) : root' = NewRef(op[c], root, t)
  BY <1>1, <1>2, Zenon DEF CommitOf, NewMade
<1>4. op[c] \in Command \cup {Init0} /\ root \in History
  BY Zenon DEF TypeInv, TypeOK, CommitTypeOK, RemoteTypeOK
<1>5. CASE op[c] = Init0
  <2>1. root = <<>>
    BY <1>2, <1>5, Zenon DEF CommitOf, SettingUp
  <2>2. root' = <<EmptyTree>>
    BY <1>3, <1>5 DEF Init0, NewTrees, NewRef
  <2> QED BY <2>1, <2>2, SameTrees, Zenon DEF DH!Next, DH!Setup
<1>6. CASE op[c] # Init0
  <2>1. Running(c) /\ root # <<>> /\ op[c] \in Command /\ op[c].cmd # "init"
    BY <1>1, <1>4, <1>6, CommandFields, Zenon DEF Running, At, TypeInv, HistoriesSet
  <2>2. CASE op[c].cmd = "gc"
    BY <1>3, <2>1, <2>2, SameTrees, Zenon DEF NewTrees, NewRef, DH!Next, DH!Forget
  <2>3. CASE op[c].cmd # "gc"
    <3>1. op[c].cmd \notin {"gc", "gckeep", "cancel"}
      BY <1>1, <2>3, Zenon DEF CommitOf, Permitted
    <3>2. t \in AnyTree
      BY <1>2, <1>4, <2>1, NewTreesType, Zenon DEF TypeInv, TypeOK, CommitTypeOK, HistoriesSet
    <3>3. root' = Append(root, t)
      BY <1>3, <2>1, <2>3, Zenon DEF NewRef
    <3>4. root' # root
      <4>1. Len(root') = Len(root) + 1 /\ Len(root) \in Nat
        <5>1. root \in Seq(AnyTree)
          BY <1>4, Zenon DEF History, AnyTree
        <5> QED BY <3>2, <3>3, <5>1
      <4> QED BY <4>1
    <3>5. \E i \in 1..Len(root) : t \in NewTrees(op[c], root, Prefix(root, i))
      <4>1. CASE op[c].cmd = "revert"
        BY <1>3, <2>1, <4>1, Zenon DEF CommitOf, TargetKept
      <4>2. CASE op[c].cmd # "revert"
        <5>1. NewTrees(op[c], root, target[c]) = NewTrees(op[c], root, Prefix(root, Len(root)))
          BY <4>2, Zenon DEF NewTrees
        <5> QED BY <1>3, <1>4, <2>1, <5>1, LatestType, Zenon
      <4> QED BY <4>1, <4>2, Zenon
    <3> QED BY <2>1, <3>1, <3>3, <3>4, <3>5, SameTrees, Zenon DEF DH!Next, DH!Change
  <2> QED BY <2>2, <2>3, Zenon
<1> QED BY <1>5, <1>6, Zenon

(***************************************************************************)
(* In the same use, the drive implements DriveHistory: each update is      *)
(* applied to the history that is current when it takes effect, a revert   *)
(* goes back to an entry of that history, gc keeps the latest tree, and    *)
(* nothing else changes the root.                                          *)
(***************************************************************************)
THEOREM DriveImplementsHistory == SafeUse => (Spec => HistoryKept)
<1> SUFFICES ASSUME SafeUse PROVE Spec => HistoryKept
  BY Zenon
<1>1. Init => DH!Init
  BY Zenon DEF Init, RemoteInit, DH!Init
<1>2. CompleteInv /\ [Next]_vars => [DH!Next]_root
  <2> SUFFICES ASSUME CompleteInv, [Next]_vars PROVE [DH!Next]_root
    BY Zenon
  <2>1. CASE UNCHANGED vars
    BY <2>1, Zenon DEF vars, remote
  <2>2. ASSUME NEW c \in Client, Act(c)
        PROVE  [DH!Next]_root
    BY <2>2, RootMoves, SwapIsChange, Zenon DEF CompleteInv, CommitInv
  <2> QED BY <2>1, <2>2, OneAct, Zenon
<1>3. (Init => CompleteInv) /\ (CompleteInv /\ [Next]_vars => CompleteInv')
  BY CompleteInductive, Zenon
<1> QED BY <1>1, <1>2, <1>3, PTL DEF Spec, HistoryKept, DH!Spec
=============================================================================
