------------------------------ MODULE P9Proofs ------------------------------
(***************************************************************************)
(* What the 9P server of P9 keeps, for every set of trees, of walks and of *)
(* message sizes: the types of its state, that it has the fids its client  *)
(* knows of, that a listing is whole, that qids differ and that replies    *)
(* fit.  The proofs follow the files of each file system: what an update,  *)
(* a walk and a listing add to the qids that are given out.                *)
(***************************************************************************)
EXTENDS P9, SumsProofs

Qid == [path : Nat, version : Nat]

Files == [at : Nat, tree : Trees, names : Seq(DOMAIN StatLen), qids : Seq(Qid)]

\* A file is at the end of a way through its tree that has a qid, unlike
\* the others, for every step.
GoodFile(f) ==
  /\ f \in Files
  /\ Len(f.qids) = Len(f.names) + 1
  /\ \A i \in 0..Len(f.names) : SubSeq(f.names, 1, i) \in DOMAIN f.tree

\* Where two files have the same qid the ways to them are the same.
Meet(f, g) ==
  \A i \in 1..Len(f.qids), j \in 1..Len(g.qids) :
    f.qids[i].path = g.qids[j].path =>
      /\ i = j
      /\ f.qids[i] = g.qids[j]
      /\ f.tree = g.tree
      /\ SubSeq(f.names, 1, i - 1) = SubSeq(g.names, 1, j - 1)

\* The files F of the k-th file system when its pathCounter is n.
GoodFiles(F, k, n) ==
  /\ \A f \in F : GoodFile(f) /\ f.at = k /\ \A i \in 1..Len(f.qids) : f.qids[i].path <= n
  /\ \A f, g \in F : Meet(f, g)

FilesAt(k) ==
  {fids[g].file : g \in {h \in DOMAIN fids : fids[h].kind # "root" /\ fids[h].file.at = k}}

FileSystem == [tree : Trees, qid : Qid, path : Nat, version : Nat, fresh : BOOLEAN]

\* A handle on one of the files F.
Handles(F) ==
  [kind : {"root", "dir", "file"}, file : F, offset : Nat, stats : Seq(DOMAIN StatLen),
   open : BOOLEAN, listed : Seq(DOMAIN StatLen), whole : Seq(DOMAIN StatLen),
   rewound : BOOLEAN]

Typed ==
  /\ conn \in {"open", "closed", "short", "panic"}
  /\ neg \in 0..MaxMessageSize
  /\ DOMAIN fids \subseteq Fid
  /\ \A g \in DOMAIN fids :
       /\ fids[g] \in Handles({fids[g].file})
       /\ fids[g].file.at \in 1..Len(fss)
  /\ fss \in Seq(FileSystem)
  /\ drive \in Trees
  /\ told \subseteq Fid

FilesInv ==
  \A k \in 1..Len(fss) : GoodFiles(FilesAt(k) \cup {RootFile(k, fss[k])}, k, fss[k].path)

Told == ~Renegotiates => told = DOMAIN fids

Inv == Typed /\ FilesInv /\ Told /\ ListingWhole /\ RepliesFit

-----------------------------------------------------------------------------
\* The first elements of a sequence,
LEMMA Prefix ==
  ASSUME NEW S, NEW s \in Seq(S), NEW n \in 0..Len(s)
  PROVE  /\ SubSeq(s, 1, n) \in Seq(S)
         /\ Len(SubSeq(s, 1, n)) = n
         /\ \A i \in 1..n : SubSeq(s, 1, n)[i] = s[i]
OBVIOUS

\* of the first elements,
LEMMA PrefixOfPrefix ==
  ASSUME NEW S, NEW s \in Seq(S), NEW m \in 0..Len(s), NEW n \in 0..m
  PROVE  SubSeq(SubSeq(s, 1, m), 1, n) = SubSeq(s, 1, n)
<1> DEFINE t == SubSeq(s, 1, m)
<1>1. t \in Seq(S) /\ Len(t) = m /\ \A i \in 1..m : t[i] = s[i]
  BY Prefix
<1>2. n \in 0..Len(s) /\ n \in 0..Len(t)
  BY <1>1
<1> HIDE DEF t
<1>3. /\ SubSeq(t, 1, n) \in Seq(S) /\ Len(SubSeq(t, 1, n)) = n
      /\ \A i \in 1..n : SubSeq(t, 1, n)[i] = t[i]
  BY <1>1, <1>2, Prefix
<1>4. /\ SubSeq(s, 1, n) \in Seq(S) /\ Len(SubSeq(s, 1, n)) = n
      /\ \A i \in 1..n : SubSeq(s, 1, n)[i] = s[i]
  BY <1>2, Prefix
<1>5. SubSeq(t, 1, n) = SubSeq(s, 1, n)
  <2>1. \A i \in 1..n : SubSeq(t, 1, n)[i] = SubSeq(s, 1, n)[i]
    BY <1>1, <1>3, <1>4
  <2> QED BY <1>3, <1>4, <2>1, SeqEqual
<1> QED BY <1>5 DEF t

\* and of one more.
LEMMA PrefixOfAppend ==
  ASSUME NEW S, NEW s \in Seq(S), NEW e \in S
  PROVE  /\ \A n \in 0..Len(s) : SubSeq(Append(s, e), 1, n) = SubSeq(s, 1, n)
         /\ SubSeq(Append(s, e), 1, Len(s) + 1) = Append(s, e)
<1> DEFINE t == Append(s, e)
<1>1. t \in Seq(S) /\ Len(t) = Len(s) + 1 /\ \A i \in 1..Len(s) : t[i] = s[i]
  BY AppendProperties
<1> HIDE DEF t
<1>2. ASSUME NEW n \in 0..Len(s) PROVE SubSeq(t, 1, n) = SubSeq(s, 1, n)
  <2>1. n \in 0..Len(t)
    BY <1>1
  <2>2. /\ SubSeq(t, 1, n) \in Seq(S) /\ Len(SubSeq(t, 1, n)) = n
        /\ \A i \in 1..n : SubSeq(t, 1, n)[i] = t[i]
    BY <1>1, <2>1, Prefix
  <2>3. /\ SubSeq(s, 1, n) \in Seq(S) /\ Len(SubSeq(s, 1, n)) = n
        /\ \A i \in 1..n : SubSeq(s, 1, n)[i] = s[i]
    BY Prefix
  <2>4. \A i \in 1..n : SubSeq(t, 1, n)[i] = SubSeq(s, 1, n)[i]
    BY <1>1, <2>2, <2>3
  <2> QED BY <2>2, <2>3, <2>4, SeqEqual
<1>3. SubSeq(t, 1, Len(t)) = t
  BY <1>1, SubSeqFull
<1> QED BY <1>1, <1>2, <1>3 DEF t

-----------------------------------------------------------------------------
\* A qid of p is one that f has at the same place,
Kept(p, i, f) ==
  /\ i \in 1..Len(f.qids)
  /\ p.qids[i] = f.qids[i]
  /\ p.tree = f.tree
  /\ SubSeq(p.names, 1, i - 1) = SubSeq(f.names, 1, i - 1)

\* What a file is made of.
LEMMA FileParts ==
  ASSUME NEW f, GoodFile(f)
  PROVE  /\ f = [at |-> f.at, tree |-> f.tree, names |-> f.names, qids |-> f.qids]
         /\ f.at \in Nat /\ f.tree \in Trees
         /\ f.names \in Seq(DOMAIN StatLen) /\ Len(f.names) \in Nat
         /\ f.qids \in Seq(Qid) /\ Len(f.qids) = Len(f.names) + 1
         /\ \A i \in 1..Len(f.qids) : f.qids[i] \in Qid /\ f.qids[i].path \in Nat
<1>1. f \in [at : Nat, tree : Trees, names : Seq(DOMAIN StatLen), qids : Seq(Qid)]
  BY DEF GoodFile, Files
<1>2. /\ f = [at |-> f.at, tree |-> f.tree, names |-> f.names, qids |-> f.qids]
      /\ f.at \in Nat /\ f.tree \in Trees
      /\ f.names \in Seq(DOMAIN StatLen) /\ f.qids \in Seq(Qid)
  BY <1>1
<1>3. Len(f.names) \in Nat /\ Len(f.qids) = Len(f.names) + 1
  BY <1>2 DEF GoodFile
<1>4. \A i \in 1..Len(f.qids) : f.qids[i] \in Qid
  BY <1>2, ElementOfSeq
<1>5. \A q \in Qid : q.path \in Nat
  BY DEF Qid
<1> QED BY <1>2, <1>3, <1>4, <1>5

\* A file with other names and qids.
LEMMA FileUpdate ==
  ASSUME NEW f, GoodFile(f), NEW a \in Seq(DOMAIN StatLen), NEW b \in Seq(Qid)
  PROVE  [f EXCEPT !.names = a, !.qids = b]
           = [at |-> f.at, tree |-> f.tree, names |-> a, qids |-> b]
<1> DEFINE g == [f EXCEPT !.names = a, !.qids = b]
<1>1. f \in [at : Nat, tree : Trees, names : Seq(DOMAIN StatLen), qids : Seq(Qid)]
  BY DEF GoodFile, Files
<1>2. /\ g \in [at : Nat, tree : Trees, names : Seq(DOMAIN StatLen), qids : Seq(Qid)]
      /\ g.at = f.at /\ g.tree = f.tree /\ g.names = a /\ g.qids = b
  BY <1>1, Zenon
<1> HIDE DEF g
<1>3. g = [at |-> f.at, tree |-> f.tree, names |-> a, qids |-> b]
  BY <1>2
<1> QED BY <1>3 DEF g

\* Fewer files are good, with a pathCounter that is not less.
LEMMA FewerFiles ==
  ASSUME NEW F, NEW k, NEW m \in Nat, GoodFiles(F, k, m), NEW G \in SUBSET F, NEW n \in Nat, m <= n
  PROVE  GoodFiles(G, k, n)
<1>1. ASSUME NEW f \in G
      PROVE  GoodFile(f) /\ f.at = k /\ \A i \in 1..Len(f.qids) : f.qids[i].path <= n
  <2>1. GoodFile(f) /\ f.at = k /\ \A i \in 1..Len(f.qids) : f.qids[i].path <= m
    BY DEF GoodFiles
  <2>2. \A i \in 1..Len(f.qids) : f.qids[i].path \in Nat
    BY <2>1, FileParts
  <2> QED BY <2>1, <2>2
<1>2. \A f, g \in G : Meet(f, g)
  BY DEF GoodFiles
<1> QED BY <1>1, <1>2 DEF GoodFiles

\* Where f meets g, g meets f.
LEMMA MeetBack ==
  ASSUME NEW f, NEW g, Meet(f, g)
  PROVE  Meet(g, f)
BY DEF Meet

\* A file p can take the place of f among the files when its qids are those
\* of f, but for a last one that is not given out yet.
LEMMA AddFile ==
  ASSUME NEW F, NEW f, NEW k, NEW m \in Nat, GoodFiles(F \cup {f}, k, m),
         NEW p, GoodFile(p), p.at = k, NEW n \in Nat, m <= n,
         \A i \in 1..Len(p.qids) :
           /\ p.qids[i].path <= n
           /\ Kept(p, i, f) \/ (i = Len(p.qids) /\ p.qids[i].path > m)
  PROVE  GoodFiles(F \cup {p}, k, n)
<1>1. GoodFiles(F, k, n)
  BY FewerFiles
<1>2. GoodFile(f) /\ \A i \in 1..Len(f.qids) : f.qids[i].path <= m
  BY DEF GoodFiles
<1>3. \A i \in 1..Len(p.qids) : p.qids[i].path \in Nat
  BY FileParts
<1>4. ASSUME NEW g \in F PROVE Meet(p, g)
  <2> SUFFICES ASSUME NEW i \in 1..Len(p.qids), NEW j \in 1..Len(g.qids),
                      p.qids[i].path = g.qids[j].path
               PROVE  /\ i = j /\ p.qids[i] = g.qids[j] /\ p.tree = g.tree
                      /\ SubSeq(p.names, 1, i - 1) = SubSeq(g.names, 1, j - 1)
    BY Zenon DEF Meet
  <2>1. g.qids[j].path <= m
    BY DEF GoodFiles
  <2>2. Kept(p, i, f)
    <3>1. ~(p.qids[i].path > m)
      BY <1>3, <2>1
    <3> QED BY <3>1
  <2>3. Meet(f, g)
    BY Zenon DEF GoodFiles
  <2> QED BY <2>2, <2>3 DEF Meet, Kept
<1>5. Meet(p, p)
  <2> SUFFICES ASSUME NEW i \in 1..Len(p.qids), NEW j \in 1..Len(p.qids),
                      p.qids[i].path = p.qids[j].path
               PROVE  i = j
    BY DEF Meet
  <2>1. CASE Kept(p, i, f) /\ Kept(p, j, f)
    <3>1. Meet(f, f)
      BY Zenon DEF GoodFiles
    <3> QED BY <2>1, <3>1, Zenon DEF Meet, Kept
  <2>2. CASE ~Kept(p, i, f) /\ ~Kept(p, j, f)
    BY <2>2
  <2>3. ASSUME NEW a \in 1..Len(p.qids), Kept(p, a, f) PROVE p.qids[a].path <= m
    BY <1>2, <2>3 DEF Kept
  <2>4. CASE Kept(p, i, f) /\ ~Kept(p, j, f)
    <3>1. p.qids[i].path <= m /\ p.qids[j].path > m
      BY <2>3, <2>4
    <3> QED BY <1>3, <3>1
  <2>5. CASE ~Kept(p, i, f) /\ Kept(p, j, f)
    <3>1. p.qids[j].path <= m /\ p.qids[i].path > m
      BY <2>3, <2>5
    <3> QED BY <1>3, <3>1
  <2> QED BY <2>1, <2>2, <2>4, <2>5
<1>6. ASSUME NEW a \in F \cup {p}, NEW b \in F \cup {p} PROVE Meet(a, b)
  <2>1. CASE a = p /\ b = p
    BY <1>5, <2>1
  <2>2. CASE a = p /\ b # p
    BY <1>4, <2>2
  <2>3. CASE a # p /\ b = p
    <3>1. Meet(p, a)
      BY <1>4, <2>3
    <3> QED BY <2>3, <3>1, MeetBack
  <2>4. CASE a # p /\ b # p
    BY <1>1, <2>4 DEF GoodFiles
  <2> QED BY <2>1, <2>2, <2>3, <2>4
<1> QED BY <1>1, <1>6 DEF GoodFiles

-----------------------------------------------------------------------------
\* The node of a file, and its entries.
LEMMA NodeOfFile ==
  ASSUME NEW f, GoodFile(f)
  PROVE  /\ f.names \in DOMAIN f.tree
         /\ NodeOf(f) \in Node
         /\ NodeOf(f).ents \in Seq(DOMAIN StatLen)
         /\ \A i \in DOMAIN NodeOf(f).ents : Append(f.names, NodeOf(f).ents[i]) \in DOMAIN f.tree
<1>1. f.names \in Seq(DOMAIN StatLen) /\ Len(f.names) \in Nat /\ f.tree \in Trees
  BY FileParts
<1>2. SubSeq(f.names, 1, Len(f.names)) = f.names
  BY <1>1, SubSeqFull
<1>3. f.names \in DOMAIN f.tree
  <2>1. Len(f.names) \in 0..Len(f.names)
    BY <1>1
  <2> QED BY <1>2, <2>1, Zenon DEF GoodFile
<1>4. f.tree[f.names] \in Node
  BY <1>1, <1>3, P9Assumption
<1>5. \A i \in DOMAIN f.tree[f.names].ents : Append(f.names, f.tree[f.names].ents[i]) \in DOMAIN f.tree
  BY <1>1, <1>3, P9Assumption
<1> QED BY <1>3, <1>4, <1>5 DEF NodeOf, Node

\* Going up keeps the files good,
LEMMA ParentGood ==
  ASSUME NEW F, NEW f, NEW k, NEW n \in Nat, GoodFiles(F \cup {f}, k, n), f.names # <<>>
  PROVE  GoodFiles(F \cup {Parent(f)}, k, n)
<1> DEFINE p == Parent(f)
           l == Len(f.names) - 1
<1>1. GoodFile(f) /\ f.at = k /\ \A i \in 1..Len(f.qids) : f.qids[i].path <= n
  BY DEF GoodFiles
<1>2. /\ f.names \in Seq(DOMAIN StatLen) /\ f.tree \in Trees /\ f.at \in Nat
      /\ f.qids \in Seq(Qid) /\ Len(f.qids) = Len(f.names) + 1
      /\ f = [at |-> f.at, tree |-> f.tree, names |-> f.names, qids |-> f.qids]
  BY <1>1, FileParts
<1>3. l \in 0..Len(f.names) /\ l + 1 \in 0..Len(f.qids) /\ Len(f.qids) - 1 = l + 1
  BY <1>2
<1>4. SubSeq(f.names, 1, l) \in Seq(DOMAIN StatLen) /\ Len(SubSeq(f.names, 1, l)) = l
  BY <1>2, <1>3, Prefix, Zenon
<1>5. /\ SubSeq(f.qids, 1, l + 1) \in Seq(Qid) /\ Len(SubSeq(f.qids, 1, l + 1)) = l + 1
      /\ \A i \in 1..(l + 1) : SubSeq(f.qids, 1, l + 1)[i] = f.qids[i]
  BY <1>2, <1>3, Prefix
<1>6. p = [at |-> f.at, tree |-> f.tree, names |-> SubSeq(f.names, 1, l),
           qids |-> SubSeq(f.qids, 1, l + 1)]
  <2>1. p = [f EXCEPT !.names = SubSeq(f.names, 1, Len(f.names) - 1),
                      !.qids = SubSeq(f.qids, 1, Len(f.qids) - 1)]
    BY DEF Parent
  <2>2. p = [f EXCEPT !.names = SubSeq(f.names, 1, l), !.qids = SubSeq(f.qids, 1, l + 1)]
    BY <1>3, <2>1, Zenon
  <2> HIDE DEF p, l
  <2> QED BY <1>1, <1>4, <1>5, <2>2, FileUpdate, Zenon
<1>7. \A i \in 0..l : SubSeq(SubSeq(f.names, 1, l), 1, i) = SubSeq(f.names, 1, i)
  BY <1>2, <1>3, PrefixOfPrefix
<1>8. \A i \in 0..l : SubSeq(f.names, 1, i) \in DOMAIN f.tree
  BY <1>1, <1>3 DEF GoodFile
<1> HIDE DEF p, l
<1>9. GoodFile(p)
  BY <1>2, <1>4, <1>5, <1>6, <1>7, <1>8, Zenon DEF GoodFile, Files
<1>10. ASSUME NEW i \in 1..Len(p.qids) PROVE p.qids[i].path <= n /\ Kept(p, i, f)
  <2>1. i \in 1..(l + 1) /\ i \in 1..Len(f.qids) /\ i - 1 \in 0..l
    BY <1>2, <1>3, <1>5, <1>6
  <2>2. p.qids[i] = f.qids[i]
    BY <1>5, <1>6, <2>1
  <2> QED BY <1>1, <1>6, <1>7, <2>1, <2>2, Zenon DEF Kept
<1>11. GoodFiles(F \cup {p}, k, n)
  <2>1. n <= n
    OBVIOUS
  <2>2. p.at = k
    BY <1>1, <1>6
  <2> QED BY <1>9, <1>10, <2>1, <2>2, AddFile, Zenon
<1> QED BY <1>11 DEF p

\* and going down does, with a qid that pathCounter has not come to before.
LEMMA ChildGood ==
  ASSUME NEW F, NEW f, NEW k, NEW m \in Nat, NEW v \in Nat, GoodFiles(F \cup {f}, k, m),
         NEW e \in DOMAIN NodeOf(f).ents, NEW n, n = m + Len(NodeOf(f).ents)
  PROVE  GoodFiles(F \cup {Child(f, e, m, v)}, k, n)
<1> DEFINE p == Child(f, e, m, v)
           ents == NodeOf(f).ents
           q == [path |-> m + e, version |-> v]
<1>1. GoodFile(f) /\ f.at = k /\ \A i \in 1..Len(f.qids) : f.qids[i].path <= m
  BY DEF GoodFiles
<1>2. /\ f.names \in Seq(DOMAIN StatLen) /\ f.tree \in Trees /\ f.at \in Nat
      /\ f.qids \in Seq(Qid) /\ Len(f.qids) = Len(f.names) + 1
      /\ f = [at |-> f.at, tree |-> f.tree, names |-> f.names, qids |-> f.qids]
  BY <1>1, FileParts
<1>3. ents \in Seq(DOMAIN StatLen) /\ Append(f.names, ents[e]) \in DOMAIN f.tree
  BY <1>1, NodeOfFile
<1> HIDE DEF ents
<1>4. e \in 1..Len(ents) /\ ents[e] \in DOMAIN StatLen /\ Len(ents) \in Nat /\ n = m + Len(ents)
  BY <1>3 DEF ents
<1>5. q \in Qid /\ q.path > m /\ q.path <= n /\ n \in Nat /\ m <= n
  BY <1>4 DEF Qid
<1>6. /\ Append(f.names, ents[e]) \in Seq(DOMAIN StatLen)
      /\ Len(Append(f.names, ents[e])) = Len(f.names) + 1
  BY <1>2, <1>4, AppendProperties
<1>7. /\ Append(f.qids, q) \in Seq(Qid) /\ Len(Append(f.qids, q)) = Len(f.qids) + 1
      /\ \A i \in 1..Len(f.qids) : Append(f.qids, q)[i] = f.qids[i]
      /\ Append(f.qids, q)[Len(f.qids) + 1] = q
  BY <1>2, <1>5, AppendProperties
<1>8. p = [at |-> f.at, tree |-> f.tree, names |-> Append(f.names, ents[e]),
           qids |-> Append(f.qids, q)]
  <2>1. p = [f EXCEPT !.names = Append(f.names, ents[e]), !.qids = Append(f.qids, q)]
    BY DEF Child, ents
  <2> HIDE DEF p, q
  <2> QED BY <1>1, <1>6, <1>7, <2>1, FileUpdate, Zenon
<1> HIDE DEF p, q
<1>9. /\ \A i \in 0..Len(f.names) : SubSeq(Append(f.names, ents[e]), 1, i) = SubSeq(f.names, 1, i)
      /\ SubSeq(Append(f.names, ents[e]), 1, Len(f.names) + 1) = Append(f.names, ents[e])
  BY <1>2, <1>4, PrefixOfAppend
<1>10. GoodFile(p)
  <2>1. p \in Files /\ Len(p.qids) = Len(p.names) + 1
    BY <1>2, <1>6, <1>7, <1>8 DEF Files
  <2>2. ASSUME NEW i \in 0..Len(p.names) PROVE SubSeq(p.names, 1, i) \in DOMAIN p.tree
    <3>1. CASE i = Len(f.names) + 1
      BY <1>3, <1>8, <1>9, <3>1, Zenon
    <3>2. CASE i \in 0..Len(f.names)
      BY <1>1, <1>8, <1>9, <3>2, Zenon DEF GoodFile
    <3>3. i = Len(f.names) + 1 \/ i \in 0..Len(f.names)
      BY <1>2, <1>6, <1>8
    <3> QED BY <3>1, <3>2, <3>3
  <2> QED BY <2>1, <2>2 DEF GoodFile
<1>11. ASSUME NEW i \in 1..Len(p.qids)
       PROVE  p.qids[i].path <= n /\ (Kept(p, i, f) \/ (i = Len(p.qids) /\ p.qids[i].path > m))
  <2>1. CASE i = Len(f.qids) + 1
    <3>1. p.qids[i] = q /\ i = Len(p.qids)
      BY <1>7, <1>8, <2>1
    <3> QED BY <1>5, <3>1
  <2>2. CASE i \in 1..Len(f.qids)
    <3>1. p.qids[i] = f.qids[i] /\ i - 1 \in 0..Len(f.names)
      BY <1>2, <1>7, <1>8, <2>2
    <3>2. p.qids[i].path <= n
      <4>1. f.qids[i].path <= m /\ f.qids[i].path \in Nat
        BY <1>1, <2>2, FileParts
      <4> QED BY <1>5, <3>1, <4>1
    <3> QED BY <1>8, <1>9, <2>2, <3>1, <3>2 DEF Kept
  <2>3. i = Len(f.qids) + 1 \/ i \in 1..Len(f.qids)
    BY <1>2, <1>7, <1>8
  <2> QED BY <2>1, <2>2, <2>3
<1>12. GoodFiles(F \cup {p}, k, n)
  <2>1. p.at = k
    BY <1>1, <1>8
  <2> QED BY <1>5, <1>10, <1>11, <2>1, AddFile, Zenon
<1> QED BY <1>12 DEF p

-----------------------------------------------------------------------------
\* The qid of a file is the last of its qids.
LEMMA QidOfFile ==
  ASSUME NEW f, GoodFile(f)
  PROVE  QidOf(f) \in Qid
<1>1. Len(f.qids) \in 1..Len(f.qids)
  BY FileParts
<1> QED BY <1>1, FileParts DEF QidOf

WalkSet ==
  [end : {"no", "error", "partly", "panic"}, file : Files, wqids : Seq(Qid),
   path : Nat, version : Nat]

(***************************************************************************)
(* A walk that has taken i names, or fewer when it has ended: it has as    *)
(* many qids, and the file it has come to is good among the files F of the *)
(* k-th file system, which was s before the walk.                          *)
(***************************************************************************)
Walking(F, k, s, w, i) ==
  /\ w \in WalkSet
  /\ w.end = "no" => Len(w.wqids) = i
  /\ w.end # "no" => Len(w.wqids) < i
  /\ s.path <= w.path
  /\ w.version = s.version
  /\ GoodFiles(F \cup {w.file}, k, w.path)

\* It stays so with every name.
LEMMA WalkNameKeeps ==
  ASSUME NEW F, NEW k, NEW s, s.path \in Nat, NEW i \in Nat,
         NEW w, Walking(F, k, s, w, i), NEW name
  PROVE  Walking(F, k, s, WalkName(w, name, i + 1), i + 1)
<1> DEFINE node == NodeOf(w.file)
           made == [w EXCEPT !.path = @ + Len(node.ents)]
           here == {j \in DOMAIN node.ents : node.ents[j] = name}
           x    == WalkName(w, name, i + 1)
<1> HIDE DEF x
<1> SUFFICES Walking(F, k, s, x, i + 1)
  BY DEF x
<1>1. /\ w \in WalkSet /\ w.file \in Files /\ w.wqids \in Seq(Qid) /\ w.path \in Nat
      /\ w.version \in Nat /\ Len(w.wqids) \in Nat
  BY DEF Walking, WalkSet
<1>2. GoodFiles(F \cup {w.file}, k, w.path) /\ GoodFile(w.file)
  BY DEF Walking, GoodFiles
<1>3. node.ents \in Seq(DOMAIN StatLen) /\ Len(node.ents) \in Nat
  BY <1>2, NodeOfFile
<1>4. /\ made \in WalkSet /\ made.path = w.path + Len(node.ents)
      /\ made.end = w.end /\ made.file = w.file /\ made.wqids = w.wqids
      /\ made.version = w.version
  <2>1. PICK n \in Nat : n = w.path + Len(node.ents)
    BY <1>1, <1>3
  <2>2. made = [w EXCEPT !.path = n]
    BY <2>1
  <2> HIDE DEF made, node
  <2> QED BY <1>1, <2>1, <2>2 DEF WalkSet
<1>5. GoodFiles(F \cup {w.file}, k, w.path + Len(node.ents))
  <2>1. w.path + Len(node.ents) \in Nat /\ w.path <= w.path + Len(node.ents)
    BY <1>1, <1>3
  <2> HIDE DEF node
  <2> QED BY <1>1, <1>2, <2>1, FewerFiles
<1> HIDE DEF made
<1>6. ASSUME NEW e \in {"error", "partly", "panic"}, w.end = "no", x = [w EXCEPT !.end = e]
      PROVE  Walking(F, k, s, x, i + 1)
  <2>1. /\ x \in WalkSet /\ x.end = e /\ x.file = w.file /\ x.wqids = w.wqids
        /\ x.path = w.path /\ x.version = w.version
    BY <1>1, <1>6 DEF WalkSet
  <2> QED BY <1>1, <1>6, <2>1 DEF Walking
<1>7. CASE w.end # "no"
  <2>1. x = w
    BY <1>7 DEF x, WalkName
  <2> QED BY <1>1, <1>7, <2>1 DEF Walking
<1>8. CASE w.end = "no" /\ name = "."
  <2>1. x = [w EXCEPT !.end = "error"]
    BY <1>8 DEF x, WalkName
  <2> QED BY <1>6, <1>8, <2>1
<1>9. CASE w.end = "no" /\ name = ".." /\ w.file.names = <<>>
  <2>1. x = [w EXCEPT !.end = "panic"]
    BY <1>9 DEF x, WalkName
  <2> QED BY <1>6, <1>9, <2>1
<1>10. CASE w.end = "no" /\ name = ".." /\ w.file.names # <<>>
  <2> DEFINE p == Parent(w.file)
  <2>1. x = [w EXCEPT !.file = Parent(w.file), !.wqids = Append(w.wqids, QidOf(Parent(w.file)))]
    BY <1>10 DEF x, WalkName
  <2>2. GoodFiles(F \cup {p}, k, w.path)
    BY <1>1, <1>2, <1>10, ParentGood, Zenon
  <2> HIDE DEF p
  <2>3. GoodFile(p) /\ p \in Files
    BY <2>2 DEF GoodFiles, GoodFile
  <2>4. QidOf(p) \in Qid
    BY <2>3, QidOfFile
  <2>5. Append(w.wqids, QidOf(p)) \in Seq(Qid) /\ Len(Append(w.wqids, QidOf(p))) = Len(w.wqids) + 1
    BY <1>1, <2>4, AppendProperties
  <2>6. /\ x \in WalkSet /\ x.end = "no" /\ x.file = p /\ x.wqids = Append(w.wqids, QidOf(p))
        /\ x.path = w.path /\ x.version = w.version
    BY <1>1, <1>10, <2>1, <2>3, <2>5, Zenon DEF WalkSet, p
  <2> QED BY <1>10, <2>2, <2>5, <2>6 DEF Walking
<1>11. CASE w.end = "no" /\ name \notin {".", ".."} /\ ~node.dir
  <2>1. x = [w EXCEPT !.end = IF i + 1 = 1 THEN "error" ELSE "partly"]
    BY <1>11 DEF x, WalkName
  <2>2. (IF i + 1 = 1 THEN "error" ELSE "partly") \in {"error", "partly", "panic"}
    OBVIOUS
  <2> HIDE DEF node
  <2> QED BY <1>6, <1>11, <2>1, <2>2
<1>12. CASE w.end = "no" /\ name \notin {".", ".."} /\ node.dir /\ here = {}
  <2>1. x = [made EXCEPT !.end = "error"]
    BY <1>12 DEF x, WalkName, made
  <2> HIDE DEF node, here
  <2>2. /\ x \in WalkSet /\ x.end = "error" /\ x.file = w.file /\ x.wqids = w.wqids
        /\ x.path = w.path + Len(node.ents) /\ x.version = w.version
    BY <1>4, <2>1 DEF WalkSet
  <2>3. s.path <= x.path
    BY <1>1, <1>3, <2>2 DEF Walking
  <2> QED BY <1>1, <1>5, <1>12, <2>2, <2>3 DEF Walking
<1>13. CASE w.end = "no" /\ name \notin {".", ".."} /\ node.dir /\ here # {}
  <2> DEFINE c == CHOOSE j \in here : TRUE
             p == Child(w.file, c, w.path, w.version)
  <2>1. x = [made EXCEPT !.file = Child(w.file, c, w.path, w.version),
                         !.wqids = Append(made.wqids, QidOf(w.file))]
    BY <1>13 DEF x, WalkName, made
  <2>2. c \in DOMAIN NodeOf(w.file).ents
    BY <1>13
  <2> HIDE DEF c
  <2>3. GoodFiles(F \cup {p}, k, w.path + Len(node.ents))
    <3>1. w.path \in Nat /\ w.version \in Nat /\ GoodFiles(F \cup {w.file}, k, w.path)
      BY <1>1, <1>2
    <3> HIDE DEF here
    <3>2. w.path + Len(NodeOf(w.file).ents) = w.path + Len(node.ents)
      OBVIOUS
    <3> HIDE DEF node
    <3> QED BY <2>2, <3>1, <3>2, ChildGood, Zenon
  <2> HIDE DEF p, node, here
  <2>4. GoodFile(p) /\ p \in Files
    BY <2>3 DEF GoodFiles, GoodFile
  <2>5. QidOf(w.file) \in Qid
    BY <1>2, QidOfFile
  <2>6. /\ Append(w.wqids, QidOf(w.file)) \in Seq(Qid)
        /\ Len(Append(w.wqids, QidOf(w.file))) = Len(w.wqids) + 1
    BY <1>1, <2>5, AppendProperties
  <2>7. /\ x \in WalkSet /\ x.end = "no" /\ x.file = p /\ x.wqids = Append(w.wqids, QidOf(w.file))
        /\ x.path = w.path + Len(node.ents) /\ x.version = w.version
    BY <1>4, <1>13, <2>1, <2>4, <2>6, Zenon DEF WalkSet, p
  <2>8. s.path <= x.path
    BY <1>1, <1>3, <2>7 DEF Walking
  <2> QED BY <1>13, <2>3, <2>6, <2>7, <2>8 DEF Walking
<1> QED BY <1>7, <1>8, <1>9, <1>10, <1>11, <1>12, <1>13

\* g has where a walk is after 0, 1, ... n of its names.
Stages(f, names, s, n, g) ==
  g = [i \in 0..n |->
         IF i = 0 THEN [end |-> "no", file |-> f, wqids |-> <<>>,
                        path |-> s.path, version |-> s.version]
         ELSE WalkName(g[i - 1], names[i], i)]

LEMMA StagesExist ==
  ASSUME NEW f, NEW names, NEW s
  PROVE  \A n \in Nat : \E g : Stages(f, names, s, n, g)
<1> DEFINE S == {n \in Nat : \E g : Stages(f, names, s, n, g)}
           w0 == [end |-> "no", file |-> f, wqids |-> <<>>, path |-> s.path, version |-> s.version]
<1>1. 0 \in S
  <2> DEFINE g == [i \in 0..0 |-> w0]
  <2>1. Stages(f, names, s, 0, g)
    BY DEF Stages
  <2> QED BY <2>1
<1>2. ASSUME NEW n \in S PROVE n + 1 \in S
  <2>1. PICK g : Stages(f, names, s, n, g)
    OBVIOUS
  <2> DEFINE h == [i \in 0..(n + 1) |-> IF i = n + 1 THEN WalkName(g[n], names[n + 1], n + 1) ELSE g[i]]
  <2>2. n \in Nat
    OBVIOUS
  <2>3. Stages(f, names, s, n + 1, h)
    BY <2>1, <2>2 DEF Stages
  <2> QED BY <2>2, <2>3
<1> HIDE DEF S
<1>3. S = Nat
  <2>1. S \in SUBSET Nat
    BY DEF S
  <2> QED BY <1>1, <1>2, <2>1, AllNumbers
<1> QED BY <1>3 DEF S

\* What a walk comes to, and what it leaves.
LEMMA WalkedGood ==
  ASSUME NEW F, NEW k, NEW f \in F, NEW s, s.path \in Nat, s.version \in Nat,
         GoodFiles(F, k, s.path), NEW names, Len(names) \in Nat
  PROVE  Walking(F, k, s, Walked(f, names, s), Len(names))
<1> DEFINE n == Len(names)
           w0 == [end |-> "no", file |-> f, wqids |-> <<>>, path |-> s.path, version |-> s.version]
<1>1. \E g : Stages(f, names, s, n, g)
  BY StagesExist, Zenon
<1>2. Walked(f, names, s) = (CHOOSE g : Stages(f, names, s, n, g))[n]
  BY DEF Walked, Stages
<1>3. PICK g : Stages(f, names, s, n, g) /\ Walked(f, names, s) = g[n]
  BY <1>1, <1>2, Zenon
<1> HIDE DEF n
<1>4. n \in Nat
  BY DEF n
<1> DEFINE S == {i \in Nat : i <= n => Walking(F, k, s, g[i], i)}
<1>5. 0 \in S
  <2>1. g[0] = w0
    BY <1>3, <1>4 DEF Stages
  <2>2. GoodFile(f) /\ f \in Files /\ F \cup {f} = F
    BY DEF GoodFiles, GoodFile
  <2>3. w0 \in WalkSet
    BY <2>2 DEF WalkSet
  <2>4. w0.end = "no" /\ w0.file = f /\ Len(w0.wqids) = 0 /\ w0.path = s.path /\ w0.version = s.version
    OBVIOUS
  <2> HIDE DEF w0
  <2>5. Walking(F, k, s, w0, 0)
    <3>1. GoodFiles(F \cup {w0.file}, k, w0.path)
      BY <2>2, <2>4, Zenon
    <3> QED BY <2>3, <2>4, <3>1 DEF Walking
  <2> QED BY <2>1, <2>5
<1>6. ASSUME NEW i \in S PROVE i + 1 \in S
  <2>1. CASE i + 1 <= n
    <3>1. g[i + 1] = WalkName(g[i], names[i + 1], i + 1)
      BY <1>3, <1>4, <2>1 DEF Stages
    <3>2. Walking(F, k, s, g[i], i)
      BY <1>4, <2>1
    <3>3. Walking(F, k, s, WalkName(g[i], names[i + 1], i + 1), i + 1)
      BY <3>2, WalkNameKeeps
    <3> QED BY <3>1, <3>3
  <2>2. CASE ~(i + 1 <= n)
    BY <2>2
  <2> QED BY <2>1, <2>2
<1>7. S = Nat
  <2>1. S \in SUBSET Nat
    OBVIOUS
  <2> HIDE DEF S
  <2> QED BY <1>5, <1>6, <2>1, AllNumbers
<1>8. Walking(F, k, s, g[n], n)
  BY <1>4, <1>7
<1> QED BY <1>3, <1>8 DEF n

-----------------------------------------------------------------------------
\* The root file of a file system,
LEMMA RootGood ==
  ASSUME NEW k \in Nat, NEW s \in FileSystem
  PROVE  /\ GoodFile(RootFile(k, s))
         /\ RootFile(k, s).at = k /\ RootFile(k, s).tree = s.tree
         /\ RootFile(k, s).names = <<>>
         /\ Len(RootFile(k, s).qids) = 1 /\ RootFile(k, s).qids[1] = s.qid
<1> DEFINE f == RootFile(k, s)
<1>1. /\ s.tree \in Trees /\ s.qid \in Qid
  BY DEF FileSystem
<1>2. f = [at |-> k, tree |-> s.tree, names |-> <<>>, qids |-> <<s.qid>>]
  BY DEF RootFile
<1>3. <<>> \in Seq(DOMAIN StatLen) /\ Len(<<>>) = 0 /\ SubSeq(<<>>, 1, 0) = <<>>
  OBVIOUS
<1>4. <<s.qid>> \in Seq(Qid) /\ Len(<<s.qid>>) = 1 /\ <<s.qid>>[1] = s.qid
  BY <1>1
<1>5. f \in Files
  BY <1>1, <1>2, <1>3, <1>4 DEF Files
<1>6. <<>> \in DOMAIN s.tree
  BY <1>1, P9Assumption
<1>7. ASSUME NEW i \in 0..Len(f.names) PROVE SubSeq(f.names, 1, i) \in DOMAIN f.tree
  <2>1. f.names = <<>> /\ f.tree = s.tree
    BY <1>2
  <2> HIDE DEF f
  <2>2. i = 0
    BY <1>3, <2>1
  <2> QED BY <1>3, <1>6, <2>1, <2>2, Zenon
<1>8. GoodFile(f)
  BY <1>2, <1>3, <1>4, <1>5, <1>7 DEF GoodFile
<1> QED BY <1>2, <1>4, <1>8

\* which is good alone,
LEMMA RootAlone ==
  ASSUME NEW k \in Nat, NEW s \in FileSystem, s.qid.path <= s.path
  PROVE  GoodFiles({RootFile(k, s)}, k, s.path)
<1> DEFINE f == RootFile(k, s)
<1>1. /\ GoodFile(f) /\ f.at = k /\ Len(f.qids) = 1 /\ f.qids[1] = s.qid
  BY RootGood
<1> HIDE DEF f
<1>2. \A i \in 1..Len(f.qids) : f.qids[i].path <= s.path
  BY <1>1
<1>3. Meet(f, f)
  BY <1>1 DEF Meet
<1> QED BY <1>1, <1>2, <1>3 DEF GoodFiles, f

\* and good with the files of the root that it follows.
LEMMA LoadedGood ==
  ASSUME NEW F, NEW k \in Nat, NEW s \in FileSystem, GoodFiles(F \cup {RootFile(k, s)}, k, s.path),
         drive \in Trees
  PROVE  /\ Loaded(s) \in FileSystem /\ s.path <= Loaded(s).path
         /\ GoodFiles(F \cup {RootFile(k, Loaded(s))}, k, Loaded(s).path)
<1> DEFINE t == Loaded(s)
           p == RootFile(k, t)
<1>1. s.path \in Nat /\ s.version \in Nat
  BY DEF FileSystem
<1>2. /\ t \in FileSystem /\ t.path = s.path + 1 /\ t.qid.path = s.path + 1
  BY <1>1 DEF Loaded, FileSystem, Qid
<1> HIDE DEF t
<1>3. GoodFile(p) /\ p.at = k /\ Len(p.qids) = 1 /\ p.qids[1] = t.qid
  BY <1>2, RootGood
<1> HIDE DEF p
<1>4. \A i \in 1..Len(p.qids) :
        /\ p.qids[i].path <= t.path
        /\ Kept(p, i, RootFile(k, s)) \/ (i = Len(p.qids) /\ p.qids[i].path > s.path)
  BY <1>1, <1>2, <1>3
<1>5. s.path <= t.path /\ t.path \in Nat
  BY <1>1, <1>2
<1>6. GoodFiles(F \cup {p}, k, t.path)
  BY <1>1, <1>3, <1>4, <1>5, AddFile, Zenon
<1> QED BY <1>2, <1>5, <1>6 DEF p, t

-----------------------------------------------------------------------------
\* What a request finds: the file system of its handle, its file, and the
\* files that are known.
LEMMA FsOfGood ==
  ASSUME Typed, FilesInv, NEW fid \in DOMAIN fids
  PROVE  LET k == fids[fid].file.at
             s == FsOf(fids[fid])
         IN  /\ k \in 1..Len(fss)
             /\ s \in FileSystem /\ fss[k].path <= s.path /\ s.path \in Nat
             /\ GoodFiles(FilesAt(k) \cup {RootFile(k, s)}, k, s.path)
             /\ FileOf(fids[fid]) \in FilesAt(k) \cup {RootFile(k, s)}
             /\ fids[fid].kind # "root" => FileOf(fids[fid]) = fids[fid].file
<1> DEFINE h == fids[fid]
           k == h.file.at
           s == FsOf(h)
<1>1. k \in 1..Len(fss) /\ k \in Nat
  <2>1. k \in 1..Len(fss) /\ fss \in Seq(FileSystem)
    BY Zenon DEF Typed
  <2> HIDE DEF k
  <2> QED BY <2>1
<1>2. fss[k] \in FileSystem
  BY <1>1 DEF Typed
<1>3. GoodFiles(FilesAt(k) \cup {RootFile(k, fss[k])}, k, fss[k].path)
  BY <1>1, Zenon DEF FilesInv
<1>4. fss[k].path \in Nat
  BY <1>2 DEF FileSystem
<1>5. /\ s \in FileSystem /\ fss[k].path <= s.path
      /\ GoodFiles(FilesAt(k) \cup {RootFile(k, s)}, k, s.path)
  <2>1. CASE s = fss[k]
    <3>1. fss[k].path <= fss[k].path
      BY <1>4
    <3> HIDE DEF s, k
    <3> QED BY <1>2, <1>3, <2>1, <3>1
  <2>2. CASE s = Loaded(fss[k])
    <3>1. drive \in Trees
      BY DEF Typed
    <3> QED BY <1>1, <1>2, <1>3, <2>2, <3>1, LoadedGood, Zenon
  <2>3. s = fss[k] \/ s = Loaded(fss[k])
    BY DEF FsOf, Updated
  <2> QED BY <2>1, <2>2, <2>3
<1>6. s.path \in Nat
  BY <1>5 DEF FileSystem
<1>7. FileOf(h) \in FilesAt(k) \cup {RootFile(k, s)} /\ (h.kind # "root" => FileOf(h) = h.file)
  BY DEF FileOf, FilesAt
<1> QED BY <1>1, <1>5, <1>6, <1>7

\* A walk that a request makes.
LEMMA RequestWalks ==
  ASSUME Typed, FilesInv, NEW fid \in DOMAIN fids, NEW names, Len(names) \in Nat
  PROVE  LET k == fids[fid].file.at
             s == FsOf(fids[fid])
         IN  Walking(FilesAt(k) \cup {RootFile(k, s)}, k, s,
                     Walked(FileOf(fids[fid]), names, s), Len(names))
<1> DEFINE k == fids[fid].file.at
           s == FsOf(fids[fid])
           F == FilesAt(k) \cup {RootFile(k, s)}
           f == FileOf(fids[fid])
<1>1. s \in FileSystem /\ GoodFiles(F, k, s.path) /\ f \in F
  BY FsOfGood, Zenon
<1>2. s.path \in Nat /\ s.version \in Nat
  BY <1>1 DEF FileSystem
<1> HIDE DEF s, F, f, k
<1>3. Walking(F, k, s, Walked(f, names, s), Len(names))
  BY <1>1, <1>2, WalkedGood
<1> QED BY <1>3 DEF s, F, f, k

-----------------------------------------------------------------------------
\* The files of a file system stay good when handles go or keep their files,
LEMMA SameHandles ==
  ASSUME DOMAIN fids' \subseteq DOMAIN fids,
         \A g \in DOMAIN fids' : fids'[g].kind = fids[g].kind /\ fids'[g].file = fids[g].file
  PROVE  \A k : FilesAt(k)' \subseteq FilesAt(k)
BY DEF FilesAt

LEMMA SameFss ==
  ASSUME FilesInv, Typed, fss' = fss, \A k : FilesAt(k)' \subseteq FilesAt(k)
  PROVE  FilesInv'
<1> SUFFICES ASSUME NEW k \in 1..Len(fss)
             PROVE  GoodFiles(FilesAt(k)' \cup {RootFile(k, fss[k])}, k, fss[k].path)
  BY Zenon DEF FilesInv
<1>1. GoodFiles(FilesAt(k) \cup {RootFile(k, fss[k])}, k, fss[k].path)
  BY Zenon DEF FilesInv
<1>2. fss[k] \in FileSystem
  BY DEF Typed
<1>3. fss[k].path \in Nat /\ fss[k].path <= fss[k].path
  BY <1>2 DEF FileSystem
<1>4. FilesAt(k)' \cup {RootFile(k, fss[k])} \in SUBSET (FilesAt(k) \cup {RootFile(k, fss[k])})
  OBVIOUS
<1> QED BY <1>1, <1>3, <1>4, FewerFiles

\* and when one file system changes and its files are among good ones.
LEMMA OneFs ==
  ASSUME FilesInv, Typed, NEW k \in 1..Len(fss), NEW t \in FileSystem, fss' = [fss EXCEPT ![k] = t],
         NEW F, GoodFiles(F, k, t.path), RootFile(k, t) \in F, FilesAt(k)' \subseteq F,
         \A j \in 1..Len(fss) : j # k => FilesAt(j)' \subseteq FilesAt(j)
  PROVE  FilesInv' /\ fss' \in Seq(FileSystem) /\ Len(fss') = Len(fss)
<1>1. /\ fss' \in Seq(FileSystem) /\ Len(fss') = Len(fss) /\ fss'[k] = t
      /\ \A j \in 1..Len(fss) : j # k => fss'[j] = fss[j]
  BY DEF Typed
<1>2. ASSUME NEW j \in 1..Len(fss)
      PROVE  GoodFiles(FilesAt(j)' \cup {RootFile(j, fss'[j])}, j, fss'[j].path)
  <2>1. CASE j = k
    <3>1. t.path \in Nat /\ t.path <= t.path
      BY DEF FileSystem
    <3>2. FilesAt(k)' \cup {RootFile(k, t)} \in SUBSET F
      OBVIOUS
    <3>3. GoodFiles(FilesAt(k)' \cup {RootFile(k, t)}, k, t.path)
      BY <3>1, <3>2, FewerFiles
    <3> QED BY <1>1, <2>1, <3>3
  <2>2. CASE j # k
    <3>1. GoodFiles(FilesAt(j) \cup {RootFile(j, fss[j])}, j, fss[j].path)
      BY Zenon DEF FilesInv
    <3>2. fss[j] \in FileSystem
      BY DEF Typed
    <3>3. fss[j].path \in Nat /\ fss[j].path <= fss[j].path
      BY <3>2 DEF FileSystem
    <3>4. FilesAt(j)' \cup {RootFile(j, fss[j])} \in SUBSET (FilesAt(j) \cup {RootFile(j, fss[j])})
      BY <2>2
    <3>5. GoodFiles(FilesAt(j)' \cup {RootFile(j, fss[j])}, j, fss[j].path)
      BY <3>1, <3>3, <3>4, FewerFiles
    <3> QED BY <1>1, <2>2, <3>5
  <2> QED BY <2>1, <2>2
<1>3. FilesInv'
  <2>1. \A j \in 1..Len(fss') : GoodFiles(FilesAt(j)' \cup {RootFile(j, fss'[j])}, j, fss'[j].path)
    BY <1>1, <1>2, Zenon
  <2> QED BY <2>1, Zenon DEF FilesInv
<1> QED BY <1>1, <1>3

\* So it is when a request leaves its handles, and its file system with a
\* pathCounter that may have moved on.
LEMMA FsMovesOn ==
  ASSUME Typed, FilesInv, NEW fid \in DOMAIN fids, NEW n \in Nat, FsOf(fids[fid]).path <= n,
         fss' = [fss EXCEPT ![fids[fid].file.at] = [FsOf(fids[fid]) EXCEPT !.path = n]],
         \A k : FilesAt(k)' \subseteq FilesAt(k)
  PROVE  FilesInv' /\ fss' \in Seq(FileSystem) /\ Len(fss') = Len(fss)
<1>0. PICK k : k = fids[fid].file.at
  OBVIOUS
<1> DEFINE s == FsOf(fids[fid])
           t == [s EXCEPT !.path = n]
           F == FilesAt(k) \cup {RootFile(k, s)}
<1>1. /\ k \in 1..Len(fss) /\ s \in FileSystem /\ s.path \in Nat
      /\ GoodFiles(F, k, s.path)
  BY <1>0, FsOfGood, Zenon
<1> HIDE DEF s, F
<1>2. t \in FileSystem /\ t.path = n /\ t.tree = s.tree /\ t.qid = s.qid
  BY <1>1 DEF FileSystem
<1> HIDE DEF t
<1>3. RootFile(k, t) = RootFile(k, s)
  BY <1>2 DEF RootFile
<1>4. RootFile(k, t) \in F /\ FilesAt(k)' \subseteq F
  BY <1>3 DEF F
<1>5. GoodFiles(F, k, t.path)
  <2>1. F \in SUBSET F /\ s.path <= n
    BY DEF s
  <2> QED BY <1>1, <1>2, <2>1, FewerFiles
<1>6. fss' = [fss EXCEPT ![k] = t]
  BY <1>0 DEF s, t
<1>7. \A j \in 1..Len(fss) : j # k => FilesAt(j)' \subseteq FilesAt(j)
  OBVIOUS
<1> QED BY <1>1, <1>2, <1>4, <1>5, <1>6, <1>7, OneFs, Zenon

LEMMA FsUpdates ==
  ASSUME Typed, FilesInv, NEW fid \in DOMAIN fids,
         fss' = [fss EXCEPT ![fids[fid].file.at] = FsOf(fids[fid])],
         \A k : FilesAt(k)' \subseteq FilesAt(k)
  PROVE  FilesInv' /\ fss' \in Seq(FileSystem) /\ Len(fss') = Len(fss)
<1>1. PICK n : n = FsOf(fids[fid]).path
  OBVIOUS
<1>2. FsOf(fids[fid]) \in FileSystem /\ n \in Nat
  BY <1>1, FsOfGood, Zenon
<1>3. n <= n
  BY <1>2
<1>4. \A s \in FileSystem : s = [s EXCEPT !.path = s.path]
  BY DEF FileSystem
<1>5. FsOf(fids[fid]) = [FsOf(fids[fid]) EXCEPT !.path = n]
  BY <1>1, <1>2, <1>4
<1> QED BY <1>1, <1>2, <1>3, <1>5, FsMovesOn, Zenon

-----------------------------------------------------------------------------
\* A reply that fits, when the messages are long enough for all others.
LEMMA ReplyFits ==
  ASSUME Typed, NEW len, Reply(len, neg), neg' = neg, neg >= OtherLen => len <= neg
  PROVE  conn' \in {"open", "closed", "short", "panic"} /\ RepliesFit'
BY DEF Reply, RepliesFit

LEMMA ErrorFits ==
  ASSUME Typed, Reply(OtherLen, neg), neg' = neg
  PROVE  conn' \in {"open", "closed", "short", "panic"} /\ RepliesFit'
<1>1. OtherLen \in Nat /\ neg \in Nat
  BY P9Assumption DEF Typed
<1>2. neg >= OtherLen => OtherLen <= neg
  BY <1>1
<1> QED BY <1>2, ReplyFits

\* The room for the data of an Rread.
LEMMA RoomFits ==
  ASSUME Typed, NEW count \in Nat
  PROVE  /\ Room(count) \in Nat
         /\ neg >= OtherLen => ReadOverhead + Room(count) <= neg
<1> DEFINE r == (neg + Word - ReadOverhead) % Word
<1>1. /\ Word \in Nat /\ neg \in Nat /\ neg < Word
      /\ ReadOverhead \in Nat /\ ReadOverhead < Word /\ OtherLen \in Nat /\ ReadOverhead <= OtherLen
  BY P9Assumption DEF Typed
<1>2. r \in Nat
  BY <1>1
<1>3. ASSUME neg >= OtherLen PROVE r = neg - ReadOverhead
  <2>1. neg - ReadOverhead \in 0..(Word - 1) /\ neg + Word - ReadOverhead = (neg - ReadOverhead) + Word
    BY <1>1, <1>3
  <2>2. \A a \in 0..(Word - 1) : (a + Word) % Word = a
    BY <1>1
  <2> QED BY <2>1, <2>2
<1> HIDE DEF r
<1>4. Room(count) = (IF count < r THEN count ELSE r)
  BY DEF Room, Lesser, r
<1>5. Room(count) \in Nat /\ Room(count) <= r
  BY <1>2, <1>4
<1> QED BY <1>1, <1>2, <1>3, <1>5

\* The entries that one Rread has.
LEMMA EntriesFit ==
  ASSUME NEW stats \in Seq(DOMAIN StatLen), NEW room \in Nat
  PROVE  LET n == CHOOSE i \in 0..Len(stats) :
                    /\ Length(stats, i) <= room
                    /\ i < Len(stats) => Length(stats, i + 1) > room
         IN  n \in 0..Len(stats) /\ Length(stats, n) \in Nat /\ Length(stats, n) <= room
<1> DEFINE S == {i \in 0..Len(stats) : i < Len(stats) => Length(stats, i + 1) > room}
<1>1. StatLen \in [DOMAIN StatLen -> Nat]
  BY P9Assumption
<1>2. \A i \in 0..Len(stats) : Length(stats, i) \in Nat
  BY <1>1, SumToNat DEF Length
<1>3. S \in SUBSET Nat /\ Len(stats) \in S
  OBVIOUS
<1>4. PICK x \in S : \A y \in S : x <= y
  <2> HIDE DEF S
  <2> QED BY <1>3, LeastNumber
<1>5. Length(stats, x) <= room
  <2>1. CASE x = 0
    BY <2>1, SumToNext DEF Length
  <2>2. CASE x # 0
    <3>1. x - 1 \in 0..Len(stats) /\ x - 1 < Len(stats) /\ (x - 1) + 1 = x /\ ~(x <= x - 1)
      BY <2>2
    <3>2. ~(Length(stats, x) > room)
      BY <1>4, <3>1
    <3>3. Length(stats, x) \in Nat
      BY <1>2
    <3> QED BY <3>2, <3>3
  <2> QED BY <2>1, <2>2
<1>6. \E i \in 0..Len(stats) : /\ Length(stats, i) <= room
                               /\ i < Len(stats) => Length(stats, i + 1) > room
  BY <1>5
<1> QED BY <1>2, <1>6

-----------------------------------------------------------------------------
\* The fids stay good when one handle changes and keeps its file.
HandlesTyped ==
  \A g \in DOMAIN fids : fids[g] \in Handles({fids[g].file}) /\ fids[g].file.at \in 1..Len(fss)

LEMMA OneHandle ==
  ASSUME Typed, ListingWhole, NEW fid \in DOMAIN fids, NEW x \in Handles({fids[fid].file}),
         x.kind = fids[fid].kind, ~x.rewound => x.listed \o x.stats = x.whole,
         fids' = [fids EXCEPT ![fid] = x], Len(fss') = Len(fss)
  PROVE  /\ DOMAIN fids' = DOMAIN fids
         /\ HandlesTyped' /\ ListingWhole'
         /\ \A k : FilesAt(k)' \subseteq FilesAt(k)
<1>1. /\ DOMAIN fids' = DOMAIN fids /\ fids'[fid] = x
      /\ \A g \in DOMAIN fids : g # fid => fids'[g] = fids[g]
  OBVIOUS
<1>2. x.file = fids[fid].file
  BY DEF Handles
<1>3. HandlesTyped'
  <2> SUFFICES ASSUME NEW g \in DOMAIN fids
               PROVE  fids'[g] \in Handles({fids'[g].file}) /\ fids'[g].file.at \in 1..Len(fss)
    BY <1>1 DEF HandlesTyped
  <2>1. fids[g] \in Handles({fids[g].file}) /\ fids[g].file.at \in 1..Len(fss)
    BY DEF Typed
  <2> QED BY <1>1, <1>2, <2>1, Zenon
<1>4. ListingWhole'
  BY <1>1, Zenon DEF ListingWhole
<1>5. \A g \in DOMAIN fids' : fids'[g].kind = fids[g].kind /\ fids'[g].file = fids[g].file
  BY <1>1, <1>2
<1>6. \A k : FilesAt(k)' \subseteq FilesAt(k)
  BY <1>1, <1>5, SameHandles
<1> QED BY <1>1, <1>3, <1>4, <1>6

\* The fids stay good when they do not change.
LEMMA FidsStay ==
  ASSUME Typed, ListingWhole, fids' = fids, Len(fss') = Len(fss)
  PROVE  HandlesTyped' /\ ListingWhole' /\ \A k : FilesAt(k)' \subseteq FilesAt(k)
BY Zenon DEF Typed, HandlesTyped, ListingWhole, FilesAt

\* One lemma for each request, and for what others do.
LEMMA RefuseKeeps ==
  ASSUME Inv, Refuse
  PROVE  Inv'
<1>1. /\ Reply(OtherLen, neg) /\ neg' = neg /\ fids' = fids /\ fss' = fss
      /\ drive' = drive /\ told' = told
  BY DEF Refuse, Error
<1>2. conn' \in {"open", "closed", "short", "panic"} /\ RepliesFit'
  BY <1>1, ErrorFits DEF Inv
<1>3. HandlesTyped' /\ ListingWhole' /\ \A k : FilesAt(k)' \subseteq FilesAt(k)
  BY <1>1, FidsStay DEF Inv
<1>4. FilesInv'
  BY <1>1, <1>3, SameFss DEF Inv
<1>5. Typed' /\ Told'
  BY <1>1, <1>2, <1>3, Zenon DEF Inv, Typed, Told, HandlesTyped
<1> QED BY <1>2, <1>3, <1>4, <1>5 DEF Inv

LEMMA VersionKeeps ==
  ASSUME Inv, NEW size \in Offers, Version(size)
  PROVE  Inv'
<1>1. /\ Reply(OtherLen, neg') /\ neg' = Lesser(size, MaxMessageSize) /\ fids' = fids
      /\ fss' = fss /\ drive' = drive /\ told' = {} /\ (Renegotiates \/ DOMAIN fids = {})
  BY DEF Version
<1>2. size \in Nat /\ MaxMessageSize \in Nat /\ OtherLen \in Nat
  BY P9Assumption
<1>3. neg' \in 0..MaxMessageSize
  BY <1>1, <1>2 DEF Lesser
<1>4. conn' \in {"open", "closed", "short", "panic"} /\ RepliesFit'
  BY <1>1, <1>2, <1>3 DEF Reply, RepliesFit
<1>5. HandlesTyped' /\ ListingWhole' /\ \A k : FilesAt(k)' \subseteq FilesAt(k)
  BY <1>1, FidsStay DEF Inv
<1>6. FilesInv'
  BY <1>1, <1>5, SameFss DEF Inv
<1>7. Typed' /\ Told'
  BY <1>1, <1>3, <1>4, <1>5 DEF Inv, Typed, Told, HandlesTyped
<1> QED BY <1>4, <1>5, <1>6, <1>7 DEF Inv

LEMMA StatKeeps ==
  ASSUME Inv, NEW fid, Stat(fid)
  PROVE  Inv'
<1>1. /\ Reply(OtherLen, neg) /\ neg' = neg /\ fids' = fids /\ fid \in DOMAIN fids
      /\ fss' = [fss EXCEPT ![fids[fid].file.at] = FsOf(fids[fid])]
      /\ drive' = drive /\ told' = told
  BY DEF Stat
<1>2. conn' \in {"open", "closed", "short", "panic"} /\ RepliesFit'
  BY <1>1, ErrorFits DEF Inv
<1>3. \A k : FilesAt(k)' \subseteq FilesAt(k)
  BY <1>1, SameHandles
<1>4. FilesInv' /\ fss' \in Seq(FileSystem) /\ Len(fss') = Len(fss)
  BY <1>1, <1>3, FsUpdates, Zenon DEF Inv
<1>5. HandlesTyped' /\ ListingWhole'
  BY <1>1, <1>4, FidsStay DEF Inv
<1>6. Typed' /\ Told'
  BY <1>1, <1>2, <1>4, <1>5 DEF Inv, Typed, Told, HandlesTyped
<1> QED BY <1>2, <1>4, <1>5, <1>6 DEF Inv

LEMMA OpenKeeps ==
  ASSUME Inv, NEW fid, Open(fid)
  PROVE  Inv'
<1> DEFINE h == fids[fid]
           x == [h EXCEPT !.open = TRUE, !.offset = 0]
<1>1. /\ Reply(OtherLen, neg) /\ neg' = neg /\ fid \in DOMAIN fids
      /\ fids' = IF h.kind = "file" THEN [fids EXCEPT ![fid].open = TRUE, ![fid].offset = 0] ELSE fids
      /\ fss' = [fss EXCEPT ![fids[fid].file.at] = FsOf(fids[fid])]
      /\ drive' = drive /\ told' = told
  BY DEF Open
<1>2. conn' \in {"open", "closed", "short", "panic"} /\ RepliesFit'
  BY <1>1, ErrorFits DEF Inv
<1>3. Len(fss') = Len(fss)
  BY <1>1 DEF Inv, Typed
<1>4. /\ DOMAIN fids' = DOMAIN fids
      /\ HandlesTyped' /\ ListingWhole' /\ \A k : FilesAt(k)' \subseteq FilesAt(k)
  <2>1. CASE h.kind = "file"
    <3>1. fids' = [fids EXCEPT ![fid] = x]
      BY <1>1, <2>1, Zenon
    <3>2. h \in Handles({h.file})
      BY <1>1 DEF Inv, Typed
    <3>3. ~h.rewound => h.listed \o h.stats = h.whole
      BY <1>1, Zenon DEF Inv, ListingWhole
    <3>4. /\ x \in Handles({h.file}) /\ x.kind = h.kind /\ x.rewound = h.rewound
          /\ x.listed = h.listed /\ x.stats = h.stats /\ x.whole = h.whole
      BY <3>2, Zenon DEF Handles
    <3> HIDE DEF x
    <3> QED BY <1>1, <1>3, <3>1, <3>3, <3>4, OneHandle, Zenon DEF Inv
  <2>2. CASE h.kind # "file"
    BY <1>1, <1>3, <2>2, FidsStay DEF Inv
  <2> QED BY <2>1, <2>2
<1>5. FilesInv' /\ fss' \in Seq(FileSystem)
  BY <1>1, <1>4, FsUpdates, Zenon DEF Inv
<1>6. Typed' /\ Told'
  BY <1>1, <1>2, <1>4, <1>5, Zenon DEF Inv, Typed, Told, HandlesTyped
<1> QED BY <1>2, <1>4, <1>5, <1>6 DEF Inv

LEMMA HangupKeeps ==
  ASSUME Inv, Hangup
  PROVE  Inv'
<1>1. /\ conn' = "closed" /\ neg' = neg /\ fids' = fids /\ fss' = fss
      /\ drive' = drive /\ told' = told
  BY DEF Hangup
<1>2. HandlesTyped' /\ ListingWhole' /\ \A k : FilesAt(k)' \subseteq FilesAt(k)
  BY <1>1, FidsStay DEF Inv
<1>3. FilesInv'
  BY <1>1, <1>2, SameFss DEF Inv
<1>4. Typed' /\ Told' /\ RepliesFit'
  BY <1>1, <1>2, Zenon DEF Inv, Typed, Told, HandlesTyped, RepliesFit
<1> QED BY <1>2, <1>3, <1>4 DEF Inv

LEMMA CommitKeeps ==
  ASSUME Inv, NEW t \in Trees, Commit(t)
  PROVE  Inv'
<1>1. /\ conn' = conn /\ neg' = neg /\ fids' = fids /\ fss' = fss
      /\ drive' = t /\ told' = told
  BY DEF Commit
<1>2. HandlesTyped' /\ ListingWhole' /\ \A k : FilesAt(k)' \subseteq FilesAt(k)
  BY <1>1, FidsStay DEF Inv
<1>3. FilesInv'
  BY <1>1, <1>2, SameFss DEF Inv
<1>4. Typed' /\ Told' /\ RepliesFit'
  BY <1>1, <1>2 DEF Inv, Typed, Told, HandlesTyped, RepliesFit
<1> QED BY <1>2, <1>3, <1>4 DEF Inv

LEMMA StutterKeeps ==
  ASSUME Inv, UNCHANGED vars
  PROVE  Inv'
<1>1. /\ conn' = conn /\ neg' = neg /\ fids' = fids /\ fss' = fss
      /\ drive' = drive /\ told' = told
  BY DEF vars
<1>2. HandlesTyped' /\ ListingWhole' /\ \A k : FilesAt(k)' \subseteq FilesAt(k)
  BY <1>1, FidsStay DEF Inv
<1>3. FilesInv'
  BY <1>1, <1>2, SameFss DEF Inv
<1>4. Typed' /\ Told' /\ RepliesFit'
  BY <1>1, <1>2, Zenon DEF Inv, Typed, Told, HandlesTyped, RepliesFit
<1> QED BY <1>2, <1>3, <1>4 DEF Inv

LEMMA WaitKeeps ==
  ASSUME Inv, Wait
  PROVE  Inv'
<1>1. /\ fss' = [k \in DOMAIN fss |-> [fss[k] EXCEPT !.fresh = FALSE]]
      /\ conn' = conn /\ neg' = neg /\ fids' = fids /\ drive' = drive /\ told' = told
  BY DEF Wait
<1>2. fss \in Seq(FileSystem)
  BY DEF Inv, Typed
<1>3. ASSUME NEW s \in FileSystem
      PROVE  LET t == [s EXCEPT !.fresh = FALSE]
             IN  t \in FileSystem /\ t.path = s.path /\ t.tree = s.tree /\ t.qid = s.qid
  BY Zenon DEF FileSystem
<1>4. DOMAIN fss = 1..Len(fss) /\ Len(fss) \in Nat
  BY <1>2
<1>5. \A k \in 1..Len(fss) : fss[k] \in FileSystem /\ fss'[k] = [fss[k] EXCEPT !.fresh = FALSE]
  BY <1>1, <1>2, <1>4
<1>6. \A k \in 1..Len(fss) : /\ fss'[k] \in FileSystem /\ fss'[k].path = fss[k].path
                             /\ fss'[k].tree = fss[k].tree /\ fss'[k].qid = fss[k].qid
  BY <1>3, <1>5, Zenon
<1>7. fss' \in Seq(FileSystem) /\ Len(fss') = Len(fss)
  <2>1. fss' = [k \in 1..Len(fss) |-> fss'[k]]
    BY <1>1, <1>4
  <2>2. fss' \in [1..Len(fss) -> FileSystem]
    BY <1>6, <2>1
  <2> QED BY <1>4, <2>2
<1>8. HandlesTyped' /\ ListingWhole' /\ \A k : FilesAt(k)' \subseteq FilesAt(k)
  BY <1>1, <1>7, FidsStay DEF Inv
<1>9. FilesInv'
  <2> SUFFICES ASSUME NEW k \in 1..Len(fss)
               PROVE  GoodFiles(FilesAt(k)' \cup {RootFile(k, fss'[k])}, k, fss'[k].path)
    BY <1>7, Zenon DEF FilesInv
  <2>1. GoodFiles(FilesAt(k) \cup {RootFile(k, fss[k])}, k, fss[k].path)
    BY Zenon DEF Inv, FilesInv
  <2>2. RootFile(k, fss'[k]) = RootFile(k, fss[k])
    BY <1>6 DEF RootFile
  <2>3. fss[k].path \in Nat /\ fss[k].path <= fss[k].path
    <3>1. fss[k] \in FileSystem
      BY <1>5, Zenon
    <3>2. fss[k].path \in Nat
      BY <3>1 DEF FileSystem
    <3> QED BY <3>2
  <2>4. FilesAt(k)' \cup {RootFile(k, fss'[k])} \in SUBSET (FilesAt(k) \cup {RootFile(k, fss[k])})
    BY <1>8, <2>2
  <2>5. GoodFiles(FilesAt(k)' \cup {RootFile(k, fss'[k])}, k, fss[k].path)
    BY <2>1, <2>3, <2>4, FewerFiles
  <2> QED BY <1>6, <2>5
<1>10. Typed' /\ Told' /\ RepliesFit'
  BY <1>1, <1>7, <1>8 DEF Inv, Typed, Told, HandlesTyped, RepliesFit
<1> QED BY <1>8, <1>9, <1>10 DEF Inv

LEMMA FreshInv ==
  ASSUME conn = "open", neg = MaxMessageSize, fids = <<>>, fss = <<>>, drive \in Trees, told = {}
  PROVE  Inv
<1>1. DOMAIN fids = {} /\ Len(fss) = 0
  OBVIOUS
<1>2. Typed
  <2>1. MaxMessageSize \in 0..MaxMessageSize
    BY P9Assumption
  <2>2. fss \in Seq(FileSystem)
    OBVIOUS
  <2> QED BY <1>1, <2>1, <2>2 DEF Typed
<1>3. FilesInv
  BY <1>1 DEF FilesInv
<1>4. Told /\ ListingWhole /\ RepliesFit
  BY <1>1 DEF Told, ListingWhole, RepliesFit
<1> QED BY <1>2, <1>3, <1>4 DEF Inv

LEMMA ConnectKeeps ==
  ASSUME Inv, Connect
  PROVE  Inv'
<1>1. /\ conn' = "open" /\ neg' = MaxMessageSize /\ fids' = <<>> /\ fss' = <<>>
      /\ drive' = drive /\ told' = {}
  BY DEF Connect
<1>2. DOMAIN fids' = {} /\ Len(fss') = 0
  BY <1>1
<1>3. Typed'
  <2>1. MaxMessageSize \in 0..MaxMessageSize
    BY P9Assumption
  <2>2. fss' \in Seq(FileSystem)
    BY <1>1
  <2> QED BY <1>1, <1>2, <2>1, <2>2 DEF Inv, Typed
<1>4. FilesInv'
  BY <1>2 DEF FilesInv
<1>5. Told' /\ ListingWhole' /\ RepliesFit'
  BY <1>1, <1>2 DEF Told, ListingWhole, RepliesFit
<1> QED BY <1>3, <1>4, <1>5 DEF Inv

LEMMA ClunkKeeps ==
  ASSUME Inv, NEW fid, Clunk(fid)
  PROVE  Inv'
<1>1. /\ Reply(OtherLen, neg) /\ neg' = neg /\ fss' = fss /\ drive' = drive
      /\ fids' = Restrict(fids, DOMAIN fids \ {fid}) /\ told' = told \ {fid}
  BY DEF Clunk
<1>2. conn' \in {"open", "closed", "short", "panic"} /\ RepliesFit'
  BY <1>1, ErrorFits DEF Inv
<1>3. DOMAIN fids' = DOMAIN fids \ {fid} /\ \A g \in DOMAIN fids' : fids'[g] = fids[g]
  BY <1>1 DEF Restrict
<1>4. \A k : FilesAt(k)' \subseteq FilesAt(k)
  BY <1>3, SameHandles
<1>5. FilesInv'
  BY <1>1, <1>4, SameFss DEF Inv
<1>6. ListingWhole'
  BY <1>3, Zenon DEF Inv, ListingWhole
<1>7. Typed' /\ Told'
  BY <1>1, <1>2, <1>3, Zenon DEF Inv, Typed, Told
<1> QED BY <1>2, <1>5, <1>6, <1>7 DEF Inv

\* A handle that is new, or in the place of one with its fid.
LEMMA AddHandle ==
  ASSUME NEW newfid, NEW x, fids' = WithFid(newfid, x)
  PROVE  /\ DOMAIN fids' = DOMAIN fids \cup {newfid}
         /\ fids'[newfid] = x
         /\ \A g \in DOMAIN fids : g # newfid => fids'[g] = fids[g]
BY DEF WithFid

LEMMA HandleNew ==
  ASSUME NEW kind \in {"root", "dir", "file"}, NEW f, NEW x, x = NewHandle(kind, f)
  PROVE  /\ x.kind = kind /\ x.file = f /\ x \in Handles({f})
         /\ x.listed = <<>> /\ x.stats = <<>> /\ x.whole = <<>>
<1>1. <<>> \in Seq(DOMAIN StatLen)
  OBVIOUS
<1> QED BY <1>1 DEF NewHandle, Handles

LEMMA AttachKeeps ==
  ASSUME Inv, NEW fid \in Fid, Attach(fid)
  PROVE  Inv'
<1> DEFINE x == RootHandle(Len(fss) + 1)
<1>1. /\ Reply(OtherLen, neg) /\ neg' = neg /\ fss' = Append(fss, NewFs) /\ drive' = drive
      /\ fids' = WithFid(fid, x) /\ told' = told \cup {fid}
  BY DEF Attach
<1>2. conn' \in {"open", "closed", "short", "panic"} /\ RepliesFit'
  BY <1>1, ErrorFits DEF Inv
<1>3. PICK t : t = NewFs
  OBVIOUS
<1>4. /\ t \in FileSystem /\ t.qid.path <= t.path
  BY <1>3 DEF NewFs, Loaded, FileSystem, Qid, Inv, Typed
<1>5. PICK m \in Nat : m = Len(fss)
  BY DEF Inv, Typed
<1>6. /\ fss' \in Seq(FileSystem) /\ Len(fss') = m + 1 /\ fss'[m + 1] = t
      /\ \A k \in 1..m : fss'[k] = fss[k]
  BY <1>1, <1>3, <1>4, <1>5 DEF Inv, Typed
<1>7. /\ x.kind = "root" /\ x.file.at = m + 1 /\ x.listed = <<>> /\ x.stats = <<>> /\ x.whole = <<>>
      /\ x \in Handles({x.file})
  <2>1. PICK f : f = [at |-> m + 1]
    BY Zenon
  <2>2. x = NewHandle("root", f) /\ f.at = m + 1
    BY <1>5, <2>1 DEF RootHandle
  <2> HIDE DEF x
  <2>3. /\ x.kind = "root" /\ x.file = f /\ x \in Handles({f})
        /\ x.listed = <<>> /\ x.stats = <<>> /\ x.whole = <<>>
    BY <2>2, HandleNew
  <2> QED BY <2>2, <2>3, Zenon
<1> HIDE DEF x
<1>8. /\ DOMAIN fids' = DOMAIN fids \cup {fid} /\ fids'[fid] = x
      /\ \A g \in DOMAIN fids : g # fid => fids'[g] = fids[g]
  BY <1>1, AddHandle, Zenon
<1>9. \A k : FilesAt(k)' \subseteq FilesAt(k)
  BY <1>7, <1>8 DEF FilesAt
<1>10. FilesAt(m + 1) = {}
  <2>1. \A g \in DOMAIN fids : fids[g].file.at \in 1..m
    BY <1>5, Zenon DEF Inv, Typed
  <2>2. m + 1 \notin 1..m
    OBVIOUS
  <2> QED BY <2>1, <2>2 DEF FilesAt
<1>11. FilesInv'
  <2> SUFFICES ASSUME NEW k \in 1..(m + 1)
               PROVE  GoodFiles(FilesAt(k)' \cup {RootFile(k, fss'[k])}, k, fss'[k].path)
    BY <1>6, Zenon DEF FilesInv
  <2>1. CASE k = m + 1
    <3>1. FilesAt(k)' \cup {RootFile(k, fss'[k])} = {RootFile(k, t)}
      BY <1>6, <1>9, <1>10, <2>1
    <3>2. GoodFiles({RootFile(k, t)}, k, t.path)
      BY <1>4, RootAlone
    <3> QED BY <1>6, <2>1, <3>1, <3>2, Zenon
  <2>2. CASE k \in 1..m
    <3>1. GoodFiles(FilesAt(k) \cup {RootFile(k, fss[k])}, k, fss[k].path) /\ fss[k] \in FileSystem
      <4>1. k \in 1..Len(fss)
        BY <1>5, <2>2
      <4>2. fss[k] \in FileSystem
        BY <4>1 DEF Inv, Typed
      <4> QED BY <4>1, <4>2, Zenon DEF Inv, FilesInv
    <3>2. fss[k].path \in Nat /\ fss[k].path <= fss[k].path
      BY <3>1 DEF FileSystem
    <3>3. FilesAt(k)' \cup {RootFile(k, fss[k])} \in SUBSET (FilesAt(k) \cup {RootFile(k, fss[k])})
      BY <1>9
    <3>4. GoodFiles(FilesAt(k)' \cup {RootFile(k, fss[k])}, k, fss[k].path)
      BY <3>1, <3>2, <3>3, FewerFiles
    <3> QED BY <1>6, <2>2, <3>4, Zenon
  <2> QED BY <2>1, <2>2
<1>12. HandlesTyped'
  <2> SUFFICES ASSUME NEW g \in DOMAIN fids'
               PROVE  fids'[g] \in Handles({fids'[g].file}) /\ fids'[g].file.at \in 1..(m + 1)
    BY <1>6 DEF HandlesTyped
  <2>1. CASE g = fid
    BY <1>7, <1>8, <2>1
  <2>2. CASE g # fid
    <3>1. g \in DOMAIN fids /\ fids'[g] = fids[g]
      BY <1>8, <2>2
    <3>2. fids[g] \in Handles({fids[g].file}) /\ fids[g].file.at \in 1..m
      BY <1>5, <3>1, Zenon DEF Inv, Typed
    <3> QED BY <3>1, <3>2
  <2> QED BY <2>1, <2>2
<1>13. ListingWhole'
  <2>1. <<>> \o <<>> = <<>>
    OBVIOUS
  <2> QED BY <1>7, <1>8, <2>1, Zenon DEF Inv, ListingWhole
<1>14. Typed' /\ Told'
  BY <1>1, <1>2, <1>6, <1>8, <1>12, Zenon DEF Inv, Typed, Told, HandlesTyped
<1> QED BY <1>2, <1>11, <1>13, <1>14 DEF Inv

LEMMA WalkKeeps ==
  ASSUME Inv, NEW fid, NEW newfid \in Fid \cup {NOFID}, NEW names \in Walks,
         Walk(fid, newfid, names)
  PROVE  Inv'
<1>1. PICK k, s, w : /\ k = fids[fid].file.at
                     /\ s = FsOf(fids[fid])
                     /\ w = Walked(FileOf(fids[fid]), names, s)
  OBVIOUS
<1> DEFINE added == w.end = "no" /\ (newfid = fid \/ Addable(newfid))
           rwalk == added \/ w.end = "partly"
           F == FilesAt(k) \cup {RootFile(k, s)}
           x == FileHandle(w.file)
           t == [s EXCEPT !.path = w.path]
<1>2. /\ fid \in DOMAIN fids /\ neg' = neg /\ drive' = drive
      /\ fss' = [fss EXCEPT ![k] = t]
      /\ fids' = IF added THEN WithFid(newfid, x) ELSE fids
      /\ told' = IF rwalk /\ Len(w.wqids) = Len(names) THEN told \cup {newfid} ELSE told
      /\ IF w.end = "panic" THEN conn' = "panic" ELSE Reply(OtherLen, neg)
  BY <1>1 DEF Walk
<1>3. conn' \in {"open", "closed", "short", "panic"} /\ RepliesFit'
  <2>1. CASE w.end = "panic"
    BY <1>2, <2>1 DEF RepliesFit
  <2>2. CASE w.end # "panic"
    BY <1>2, <2>2, ErrorFits DEF Inv
  <2> QED BY <2>1, <2>2
<1>4. Len(names) \in Nat
  BY P9Assumption
<1>5. Walking(F, k, s, w, Len(names))
  BY <1>1, <1>2, <1>4, RequestWalks, Zenon DEF Inv
<1>6. /\ k \in 1..Len(fss) /\ s \in FileSystem /\ GoodFiles(F, k, s.path)
  BY <1>1, <1>2, FsOfGood, Zenon DEF Inv
<1>7. w.path \in Nat /\ w.end \in {"no", "error", "partly", "panic"} /\ Len(w.wqids) \in Nat
  BY <1>5 DEF Walking, WalkSet
<1>8. t \in FileSystem /\ t.path = w.path /\ t.tree = s.tree /\ t.qid = s.qid
  BY <1>6, <1>7 DEF FileSystem
<1> HIDE DEF t
<1>9. RootFile(k, t) = RootFile(k, s)
  BY <1>8 DEF RootFile
<1>10. GoodFiles(F \cup {w.file}, k, t.path) /\ RootFile(k, t) \in F \cup {w.file}
  BY <1>5, <1>8, <1>9 DEF Walking
<1>11. w.file.at = k /\ GoodFile(w.file)
  BY <1>10 DEF GoodFiles
<1>12. Len(fss') = Len(fss)
  <2>1. fss \in Seq(FileSystem)
    BY DEF Inv, Typed
  <2>2. fss' = [fss EXCEPT ![k] = t]
    BY <1>2
  <2> QED BY <1>6, <1>8, <2>1, <2>2
<1>13. CASE added
  <2>1. newfid \in Fid
    BY <1>2, <1>13 DEF Addable, Inv, Typed
  <2>2. /\ DOMAIN fids' = DOMAIN fids \cup {newfid} /\ fids'[newfid] = x
        /\ \A g \in DOMAIN fids : g # newfid => fids'[g] = fids[g]
    BY <1>2, <1>13, AddHandle
  <2>3. /\ x.file = w.file /\ x.kind \in {"dir", "file"}
        /\ x.listed = <<>> /\ x.stats = <<>> /\ x.whole = <<>>
        /\ x \in Handles({w.file})
    <3>1. PICK kind \in {"dir", "file"} : x = NewHandle(kind, w.file)
      BY DEF FileHandle
    <3> HIDE DEF x
    <3> QED BY <3>1, HandleNew
  <2> HIDE DEF x
  <2>4. FilesAt(k)' \subseteq F \cup {w.file}
    BY <2>2, <2>3 DEF FilesAt
  <2>5. \A j \in 1..Len(fss) : j # k => FilesAt(j)' \subseteq FilesAt(j)
    BY <1>11, <2>2, <2>3 DEF FilesAt
  <2>6. FilesInv' /\ fss' \in Seq(FileSystem)
    BY <1>2, <1>6, <1>8, <1>10, <2>4, <2>5, OneFs, Zenon DEF Inv
  <2>7. HandlesTyped'
    <3> SUFFICES ASSUME NEW g \in DOMAIN fids'
                 PROVE  fids'[g] \in Handles({fids'[g].file}) /\ fids'[g].file.at \in 1..Len(fss)
      BY <1>12 DEF HandlesTyped
    <3>1. CASE g = newfid
      BY <1>6, <1>11, <2>2, <2>3, <3>1, Zenon
    <3>2. CASE g # newfid
      BY <2>2, <3>2 DEF Inv, Typed
    <3> QED BY <3>1, <3>2
  <2>8. ListingWhole'
    <3>1. <<>> \o <<>> = <<>>
      OBVIOUS
    <3> QED BY <2>2, <2>3, <3>1, Zenon DEF Inv, ListingWhole
  <2>9. told' = told \cup {newfid}
    BY <1>2, <1>5, <1>13, Zenon DEF Walking
  <2>10. Typed' /\ Told'
    BY <1>2, <1>3, <2>1, <2>2, <2>6, <2>7, <2>9, Zenon DEF Inv, Typed, Told, HandlesTyped
  <2> QED BY <1>3, <2>6, <2>8, <2>10 DEF Inv
<1>14. CASE ~added
  <2>1. fids' = fids
    BY <1>2, <1>14
  <2>2. told' = told
    <3>1. CASE w.end = "partly"
      <4>1. Len(w.wqids) < Len(names)
        BY <1>5, <3>1 DEF Walking
      <4>2. Len(w.wqids) # Len(names)
        BY <1>4, <1>7, <4>1
      <4> QED BY <1>2, <4>2
    <3>2. CASE w.end # "partly"
      BY <1>2, <1>14, <3>2
    <3> QED BY <3>1, <3>2
  <2>3. HandlesTyped' /\ ListingWhole' /\ \A j : FilesAt(j)' \subseteq FilesAt(j)
    BY <1>12, <2>1, FidsStay DEF Inv
  <2>4. FilesAt(k)' \subseteq F \cup {w.file} /\ \A j \in 1..Len(fss) : j # k => FilesAt(j)' \subseteq FilesAt(j)
    BY <2>3
  <2>5. FilesInv' /\ fss' \in Seq(FileSystem)
    BY <1>2, <1>6, <1>8, <1>10, <2>4, OneFs, Zenon DEF Inv
  <2>6. Typed' /\ Told'
    BY <1>2, <1>3, <2>1, <2>2, <2>3, <2>5, Zenon DEF Inv, Typed, Told, HandlesTyped
  <2> QED BY <1>3, <2>3, <2>5, <2>6 DEF Inv
<1> QED BY <1>13, <1>14

LEMMA FailKeeps ==
  ASSUME Inv, NEW fid, Fail(fid)
  PROVE  Inv'
<1> DEFINE h == fids[fid]
           s == FsOf(h)
<1>1. /\ fid \in DOMAIN fids /\ Reply(OtherLen, neg) /\ neg' = neg /\ drive' = drive /\ told' = told
  BY DEF Fail, Error
<1>2. conn' \in {"open", "closed", "short", "panic"} /\ RepliesFit'
  BY <1>1, ErrorFits DEF Inv
<1>3. SUFFICES /\ DOMAIN fids' = DOMAIN fids /\ HandlesTyped' /\ ListingWhole'
               /\ FilesInv' /\ fss' \in Seq(FileSystem)
  BY <1>1, <1>2, <1>3 DEF Inv, Typed, Told, HandlesTyped
<1>4. CASE fss' = fss /\ fids' = fids
  <2>1. HandlesTyped' /\ ListingWhole' /\ \A k : FilesAt(k)' \subseteq FilesAt(k)
    BY <1>4, FidsStay DEF Inv
  <2>2. FilesInv'
    BY <1>4, <2>1, SameFss DEF Inv
  <2> QED BY <1>4, <2>1, <2>2 DEF Inv, Typed
<1>5. ASSUME NEW names \in Walks, NEW i \in 0..Len(names), fids' = fids,
             fss' = [fss EXCEPT ![h.file.at] =
                       [s EXCEPT !.path = Walked(FileOf(h), SubSeq(names, 1, i), s).path]]
      PROVE  /\ DOMAIN fids' = DOMAIN fids /\ HandlesTyped' /\ ListingWhole'
             /\ FilesInv' /\ fss' \in Seq(FileSystem)
  <2>1. names \in Seq(STRING)
    BY P9Assumption
  <2>2. Len(SubSeq(names, 1, i)) \in Nat
    BY <2>1, Prefix
  <2>3. PICK w : w = Walked(FileOf(h), SubSeq(names, 1, i), s)
    OBVIOUS
  <2>4. s.path <= w.path /\ w.path \in Nat
    <3>1. Walking(FilesAt(h.file.at) \cup {RootFile(h.file.at, s)}, h.file.at, s, w, Len(SubSeq(names, 1, i)))
      BY <1>1, <2>2, <2>3, RequestWalks, Zenon DEF Inv
    <3> HIDE DEF s, h
    <3> QED BY <3>1 DEF Walking, WalkSet
  <2>5. \A k : FilesAt(k)' \subseteq FilesAt(k)
    BY <1>5, SameHandles
  <2>6. FilesInv' /\ fss' \in Seq(FileSystem) /\ Len(fss') = Len(fss)
    BY <1>1, <1>5, <2>3, <2>4, <2>5, FsMovesOn, Zenon DEF Inv
  <2>7. HandlesTyped' /\ ListingWhole'
    BY <1>5, <2>6, FidsStay DEF Inv
  <2> QED BY <1>5, <2>6, <2>7
<1>6. CASE fss' = fss /\ fids' = [fids EXCEPT ![fid].open = FALSE, ![fid].offset = 0]
  <2> DEFINE x == [h EXCEPT !.open = FALSE, !.offset = 0]
  <2>1. fids' = [fids EXCEPT ![fid] = x]
    BY <1>1, <1>6, Zenon
  <2>2. h \in Handles({h.file})
    BY <1>1 DEF Inv, Typed
  <2>3. ~h.rewound => h.listed \o h.stats = h.whole
    BY <1>1, Zenon DEF Inv, ListingWhole
  <2>4. /\ x \in Handles({h.file}) /\ x.kind = h.kind /\ x.rewound = h.rewound
        /\ x.listed = h.listed /\ x.stats = h.stats /\ x.whole = h.whole
    BY <2>2, Zenon DEF Handles
  <2> HIDE DEF x
  <2>5. /\ DOMAIN fids' = DOMAIN fids
        /\ HandlesTyped' /\ ListingWhole' /\ \A k : FilesAt(k)' \subseteq FilesAt(k)
    BY <1>1, <1>6, <2>1, <2>3, <2>4, OneHandle, Zenon DEF Inv
  <2>6. FilesInv'
    BY <1>6, <2>5, SameFss DEF Inv
  <2> QED BY <1>6, <2>5, <2>6 DEF Inv, Typed
<1>7. \/ fss' = fss /\ fids' = fids
      \/ /\ fids' = fids
         /\ \E names \in Walks : \E i \in 0..Len(names) :
              fss' = [fss EXCEPT ![h.file.at] =
                        [s EXCEPT !.path = Walked(FileOf(h), SubSeq(names, 1, i), s).path]]
      \/ fss' = fss /\ fids' = [fids EXCEPT ![fid].open = FALSE, ![fid].offset = 0]
  BY DEF Fail
<1> QED BY <1>4, <1>5, <1>6, <1>7, Zenon

LEMMA ReadDirKeeps ==
  ASSUME Inv, NEW fid \in DOMAIN fids, NEW offset \in {0, fids[fid].offset}, NEW count \in Counts,
         ReadDir(fid, offset, count)
  PROVE  Inv'
<1> DEFINE h     == fids[fid]
           s     == FsOf(h)
           ents  == NodeOf(FileOf(h)).ents
           stats == IF offset = 0 THEN ents ELSE h.stats
           room  == Room(count)
           n     == CHOOSE i \in 0..Len(stats) :
                      /\ Length(stats, i) <= room
                      /\ i < Len(stats) => Length(stats, i + 1) > room
           goes  == offset = h.offset
           fits  == goes /\ (n = 0 => stats = <<>>)
           begun == [h EXCEPT !.stats = stats,
                              !.listed = IF offset = 0 /\ goes THEN <<>> ELSE @,
                              !.whole = IF offset = 0 /\ goes THEN ents ELSE @,
                              !.rewound = @ \/ (offset = 0 /\ ~goes)]
           ended == [begun EXCEPT !.offset = @ + Length(stats, n),
                                  !.stats = SubSeq(@, n + 1, Len(@)),
                                  !.listed = @ \o SubSeq(stats, 1, n)]
           x == IF fits THEN ended ELSE begun
<1>1. /\ neg' = neg /\ drive' = drive /\ told' = told
      /\ fss' = [fss EXCEPT ![h.file.at] = IF offset = 0 THEN [s EXCEPT !.path = @ + Len(ents)] ELSE s]
      /\ fids' = [fids EXCEPT ![fid] = x]
      /\ Reply(IF fits THEN ReadOverhead + Length(stats, n) ELSE OtherLen, neg)
  BY DEF ReadDir
<1>2. h = fids[fid] /\ s = FsOf(h) /\ ents = NodeOf(FileOf(h)).ents
  OBVIOUS
<1>3. stats = IF offset = 0 THEN ents ELSE h.stats
  OBVIOUS
<1>4. room = Room(count)
  OBVIOUS
<1>5. n = CHOOSE i \in 0..Len(stats) :
            /\ Length(stats, i) <= room
            /\ i < Len(stats) => Length(stats, i + 1) > room
  OBVIOUS
<1> HIDE DEF h, s, ents, stats, room, n
<1>6. /\ s \in FileSystem /\ s.path \in Nat
      /\ FileOf(h) \in FilesAt(h.file.at) \cup {RootFile(h.file.at, s)}
      /\ GoodFiles(FilesAt(h.file.at) \cup {RootFile(h.file.at, s)}, h.file.at, s.path)
  BY <1>2, FsOfGood, Zenon DEF Inv
<1>7. ents \in Seq(DOMAIN StatLen)
  <2>1. GoodFile(FileOf(h))
    BY <1>6 DEF GoodFiles
  <2> QED BY <1>2, <2>1, NodeOfFile
<1>8. h \in Handles({h.file}) /\ (~h.rewound => h.listed \o h.stats = h.whole)
  BY <1>2, Zenon DEF Inv, Typed, ListingWhole
<1>9. /\ h.stats \in Seq(DOMAIN StatLen) /\ h.listed \in Seq(DOMAIN StatLen)
      /\ h.whole \in Seq(DOMAIN StatLen) /\ h.offset \in Nat /\ h.rewound \in BOOLEAN
  BY <1>8 DEF Handles
<1>10. stats \in Seq(DOMAIN StatLen)
  BY <1>3, <1>7, <1>9
<1>11. room \in Nat /\ (neg >= OtherLen => ReadOverhead + room <= neg)
  <2>1. count \in Nat
    BY P9Assumption
  <2> QED BY <1>4, <2>1, RoomFits DEF Inv
<1>12. n \in 0..Len(stats) /\ Length(stats, n) \in Nat /\ Length(stats, n) <= room
  BY <1>5, <1>10, <1>11, EntriesFit, Zenon
<1>13. conn' \in {"open", "closed", "short", "panic"} /\ RepliesFit'
  <2>1. CASE fits
    <3>1. Reply(ReadOverhead + Length(stats, n), neg)
      BY <1>1, <2>1
    <3>2. neg >= OtherLen => ReadOverhead + Length(stats, n) <= neg
      <4>1. ReadOverhead \in Nat /\ neg \in Nat
        BY P9Assumption DEF Inv, Typed
      <4> QED BY <1>11, <1>12, <4>1
    <3> HIDE DEF fits
    <3> QED BY <1>1, <3>1, <3>2, ReplyFits DEF Inv
  <2>2. CASE ~fits
    <3>1. Reply(OtherLen, neg)
      BY <1>1, <2>2
    <3> HIDE DEF fits
    <3> QED BY <1>1, <3>1, ErrorFits DEF Inv
  <2> QED BY <2>1, <2>2
<1> DEFINE l0 == IF offset = 0 /\ goes THEN <<>> ELSE h.listed
           w0 == IF offset = 0 /\ goes THEN ents ELSE h.whole
           r0 == h.rewound \/ (offset = 0 /\ ~goes)
<1>14. l0 \in Seq(DOMAIN StatLen) /\ w0 \in Seq(DOMAIN StatLen) /\ r0 \in BOOLEAN
  <2>1. <<>> \in Seq(DOMAIN StatLen)
    OBVIOUS
  <2>2. l0 \in Seq(DOMAIN StatLen)
    BY <1>9, <2>1, Zenon
  <2>3. w0 \in Seq(DOMAIN StatLen)
    BY <1>7, <1>9
  <2>4. r0 \in BOOLEAN
    BY <1>9, Zenon
  <2> HIDE DEF l0, w0, r0
  <2> QED BY <2>2, <2>3, <2>4
<1>15. ~r0 => l0 \o stats = w0
  <2> SUFFICES ASSUME ~h.rewound, ~(offset = 0 /\ ~goes) PROVE l0 \o stats = w0
    OBVIOUS
  <2>1. CASE offset = 0
    <3>1. l0 = <<>> /\ w0 = ents /\ stats = ents
      BY <1>3, <2>1
    <3> HIDE DEF l0, w0
    <3> QED BY <1>7, <3>1, ConcatEmptySeq
  <2>2. CASE offset # 0
    <3>1. l0 = h.listed /\ w0 = h.whole /\ stats = h.stats
      BY <1>3, <2>2
    <3> QED BY <1>8, <3>1, Zenon
  <2> QED BY <2>1, <2>2
<1>16. /\ begun \in Handles({h.file}) /\ begun.kind = h.kind /\ begun.offset = h.offset
       /\ begun.stats = stats /\ begun.listed = l0 /\ begun.whole = w0 /\ begun.rewound = r0
  <2>1. begun = [h EXCEPT !.stats = stats, !.listed = l0, !.whole = w0, !.rewound = r0]
    OBVIOUS
  <2> HIDE DEF l0, w0, r0, begun
  <2> QED BY <1>8, <1>10, <1>14, <2>1, Zenon DEF Handles
<1> HIDE DEF l0, w0, r0, begun
<1>17. x \in Handles({h.file}) /\ x.kind = h.kind /\ (~x.rewound => x.listed \o x.stats = x.whole)
  <2>1. CASE fits
    <3> DEFINE a == SubSeq(stats, 1, n)
               b == SubSeq(stats, n + 1, Len(stats))
    <3>1. ended = [begun EXCEPT !.offset = h.offset + Length(stats, n), !.stats = b, !.listed = l0 \o a]
      BY <1>16
    <3>2. a \in Seq(DOMAIN StatLen) /\ b \in Seq(DOMAIN StatLen) /\ stats = a \o b
      BY <1>10, <1>12, Divided, Zenon
    <3> HIDE DEF a, b, ended
    <3>3. l0 \o a \in Seq(DOMAIN StatLen) /\ (l0 \o a) \o b = l0 \o stats
      <4>1. l0 \o a \in Seq(DOMAIN StatLen)
        BY <1>14, <3>2, ConcatProperties
      <4>2. (l0 \o a) \o b = l0 \o stats
        <5>1. l0 \in Seq(DOMAIN StatLen) /\ a \in Seq(DOMAIN StatLen) /\ b \in Seq(DOMAIN StatLen)
          BY <1>14, <3>2
        <5>2. (l0 \o a) \o b = l0 \o (a \o b)
          BY <5>1
        <5>3. stats = a \o b
          BY <3>2
        <5> QED BY <5>2, <5>3
      <4> QED BY <4>1, <4>2
    <3>4. h.offset + Length(stats, n) \in Nat
      BY <1>9, <1>12
    <3>5. /\ ended \in Handles({h.file}) /\ ended.kind = h.kind
          /\ ended.stats = b /\ ended.listed = l0 \o a /\ ended.whole = w0 /\ ended.rewound = r0
      BY <1>16, <3>1, <3>2, <3>3, <3>4, Zenon DEF Handles
    <3>6. x = ended
      BY <2>1
    <3> QED BY <1>15, <3>3, <3>5, <3>6, Zenon
  <2>2. CASE ~fits
    <3>1. x = begun
      BY <2>2
    <3> QED BY <1>15, <1>16, <3>1, Zenon
  <2> QED BY <2>1, <2>2, Zenon
<1> HIDE DEF x
<1>18. Len(fss') = Len(fss)
  <2>1. fss \in Seq(FileSystem)
    BY DEF Inv, Typed
  <2>2. PICK k, t : fss' = [fss EXCEPT ![k] = t]
    BY <1>1, Zenon
  <2> QED BY <2>1, <2>2
<1>19. /\ DOMAIN fids' = DOMAIN fids
       /\ HandlesTyped' /\ ListingWhole' /\ \A k : FilesAt(k)' \subseteq FilesAt(k)
  BY <1>1, <1>2, <1>17, <1>18, OneHandle, Zenon DEF Inv
<1>20. FilesInv' /\ fss' \in Seq(FileSystem)
  <2>1. CASE offset = 0
    <3>1. PICK m : m = s.path + Len(ents)
      OBVIOUS
    <3>2. m \in Nat /\ s.path <= m
      BY <1>6, <1>7, <3>1
    <3>3. fss' = [fss EXCEPT ![fids[fid].file.at] = [FsOf(fids[fid]) EXCEPT !.path = m]]
      BY <1>1, <1>2, <2>1, <3>1
    <3> QED BY <1>2, <1>19, <3>2, <3>3, FsMovesOn, Zenon DEF Inv
  <2>2. CASE offset # 0
    <3>1. fss' = [fss EXCEPT ![fids[fid].file.at] = FsOf(fids[fid])]
      BY <1>1, <1>2, <2>2
    <3> QED BY <1>19, <3>1, FsUpdates, Zenon DEF Inv
  <2> QED BY <2>1, <2>2
<1>21. Typed' /\ Told'
  BY <1>1, <1>13, <1>19, <1>20 DEF Inv, Typed, Told, HandlesTyped
<1> QED BY <1>13, <1>19, <1>20, <1>21 DEF Inv

LEMMA ReadFileKeeps ==
  ASSUME Inv, NEW fid, NEW count \in Counts, ReadFile(fid, count)
  PROVE  Inv'
<1>1. PICK h : h = fids[fid]
  OBVIOUS
<1>2. PICK left : left = NodeOf(h.file).size - h.offset
  OBVIOUS
<1>3. /\ fid \in DOMAIN fids /\ neg' = neg /\ fss' = fss /\ drive' = drive /\ told' = told
      /\ \/ \E n \in 0..Lesser(Room(count), left) :
              fids' = [fids EXCEPT ![fid].offset = @ + n] /\ Reply(ReadOverhead + n, neg)
         \/ fids' = fids /\ Reply(OtherLen, neg)
  BY <1>1, <1>2 DEF ReadFile, Error
<1>4. CASE fids' = fids /\ Reply(OtherLen, neg)
  <2>1. conn' \in {"open", "closed", "short", "panic"} /\ RepliesFit'
    BY <1>3, <1>4, ErrorFits DEF Inv
  <2>2. HandlesTyped' /\ ListingWhole' /\ \A k : FilesAt(k)' \subseteq FilesAt(k)
    BY <1>3, <1>4, FidsStay DEF Inv
  <2>3. FilesInv'
    BY <1>3, <2>2, SameFss DEF Inv
  <2>4. Typed' /\ Told'
    BY <1>3, <1>4, <2>1, <2>2 DEF Inv, Typed, Told, HandlesTyped
  <2> QED BY <2>1, <2>2, <2>3, <2>4 DEF Inv
<1>5. ASSUME NEW n \in 0..Lesser(Room(count), left),
             fids' = [fids EXCEPT ![fid].offset = @ + n], Reply(ReadOverhead + n, neg)
      PROVE  Inv'
  <2> DEFINE x == [h EXCEPT !.offset = h.offset + n]
  <2>1. count \in Nat /\ ReadOverhead \in Nat /\ neg \in Nat
    BY P9Assumption DEF Inv, Typed
  <2>2. Room(count) \in Nat /\ (neg >= OtherLen => ReadOverhead + Room(count) <= neg)
    BY <2>1, RoomFits DEF Inv
  <2>3. h \in Handles({h.file}) /\ (~h.rewound => h.listed \o h.stats = h.whole)
    BY <1>1, <1>3, Zenon DEF Inv, Typed, ListingWhole
  <2>4. h.offset \in Nat
    BY <2>3 DEF Handles
  <2>5. h.kind = "file"
    BY <1>1 DEF ReadFile
  <2>6. left \in Int
    <3>1. h.file.at \in 1..Len(fss)
      BY <1>1, <1>3, Zenon DEF Inv, Typed
    <3>2. h.file \in FilesAt(h.file.at)
      BY <1>1, <1>3, <2>5 DEF FilesAt
    <3>3. GoodFile(h.file)
      BY <3>1, <3>2 DEF Inv, FilesInv, GoodFiles
    <3>4. NodeOf(h.file) \in Node
      BY <3>3, NodeOfFile
    <3>5. NodeOf(h.file).size \in Nat
      BY <3>4 DEF Node
    <3> QED BY <1>2, <2>4, <3>5
  <2>7. n \in Nat /\ n <= Room(count)
    BY <2>2, <2>6 DEF Lesser
  <2>8. conn' \in {"open", "closed", "short", "panic"} /\ RepliesFit'
    <3>1. neg >= OtherLen => ReadOverhead + n <= neg
      BY <2>1, <2>2, <2>7
    <3> QED BY <1>3, <1>5, <3>1, ReplyFits DEF Inv
  <2>9. fids' = [fids EXCEPT ![fid] = x]
    BY <1>1, <1>3, <1>5
  <2>10. /\ x \in Handles({h.file}) /\ x.kind = h.kind /\ x.rewound = h.rewound
         /\ x.listed = h.listed /\ x.stats = h.stats /\ x.whole = h.whole
    <3>1. h.offset + n \in Nat
      BY <2>4, <2>7
    <3> QED BY <2>3, <3>1, Zenon DEF Handles
  <2> HIDE DEF x
  <2>11. /\ DOMAIN fids' = DOMAIN fids
         /\ HandlesTyped' /\ ListingWhole' /\ \A k : FilesAt(k)' \subseteq FilesAt(k)
    BY <1>1, <1>3, <2>3, <2>9, <2>10, OneHandle, Zenon DEF Inv
  <2>12. FilesInv'
    BY <1>3, <2>11, SameFss DEF Inv
  <2>13. Typed' /\ Told'
    BY <1>3, <2>8, <2>11, Zenon DEF Inv, Typed, Told, HandlesTyped
  <2> QED BY <2>8, <2>11, <2>12, <2>13 DEF Inv
<1> QED BY <1>3, <1>4, <1>5

-----------------------------------------------------------------------------
\* What is so at first,
LEMMA InitInv ==
  ASSUME Init
  PROVE  Inv
BY FreshInv DEF Init

\* stays so with every step.
LEMMA NextInv ==
  ASSUME Inv, [Next]_vars
  PROVE  Inv'
<1>1. CASE Refuse
  BY <1>1, RefuseKeeps
<1>2. ASSUME NEW size \in Offers, Version(size) PROVE Inv'
  BY <1>2, VersionKeeps
<1>3. ASSUME NEW fid \in Fid, Request(fid) PROVE Inv'
  <2>1. CASE Attach(fid)
    BY <2>1, AttachKeeps
  <2>2. CASE Fail(fid)
    BY <2>2, FailKeeps
  <2>3. CASE Open(fid)
    BY <2>3, OpenKeeps
  <2>4. CASE Stat(fid)
    BY <2>4, StatKeeps
  <2>5. CASE Clunk(fid)
    BY <2>5, ClunkKeeps
  <2>6. ASSUME NEW newfid \in Fid \cup {NOFID}, NEW names \in Walks, Walk(fid, newfid, names)
        PROVE  Inv'
    BY <2>6, WalkKeeps
  <2>7. ASSUME fid \in DOMAIN fids, NEW count \in Counts, NEW offset \in {0, fids[fid].offset},
               ReadDir(fid, offset, count)
        PROVE  Inv'
    BY <2>7, ReadDirKeeps
  <2>8. ASSUME NEW count \in Counts, ReadFile(fid, count) PROVE Inv'
    BY <2>8, ReadFileKeeps
  <2> QED BY <1>3, <2>1, <2>2, <2>3, <2>4, <2>5, <2>6, <2>7, <2>8 DEF Request
<1>4. ASSUME NEW t \in Trees, Commit(t) PROVE Inv'
  BY <1>4, CommitKeeps
<1>5. CASE Wait
  BY <1>5, WaitKeeps
<1>6. CASE Hangup
  BY <1>6, HangupKeeps
<1>7. CASE Connect
  BY <1>7, ConnectKeeps
<1>8. CASE UNCHANGED vars
  BY <1>8, StutterKeeps
<1> QED BY <1>1, <1>2, <1>3, <1>4, <1>5, <1>6, <1>7, <1>8 DEF Next

LEMMA InvAlways == Spec => []Inv
BY InitInv, NextInv, PTL DEF Spec

-----------------------------------------------------------------------------
(***************************************************************************)
(* The server's state has its types: above all, the handle of a fid is on  *)
(* a file system that was attached, and the file it is on is in the tree   *)
(* it was walked in.                                                       *)
(***************************************************************************)
THEOREM Types == Spec => []TypeOK
<1>1. ASSUME Inv PROVE TypeOK
  <2>1. ASSUME NEW g \in DOMAIN fids
        PROVE  /\ fids[g].kind \in {"root", "dir", "file"}
               /\ fids[g].file.at \in 1..Len(fss)
               /\ fids[g].offset \in Nat /\ fids[g].stats \in Seq(DOMAIN StatLen)
               /\ fids[g].kind # "root" => fids[g].file.names \in DOMAIN fids[g].file.tree
    <3>1. fids[g] \in Handles({fids[g].file}) /\ fids[g].file.at \in 1..Len(fss)
      BY <1>1 DEF Inv, Typed
    <3>2. ASSUME fids[g].kind # "root" PROVE fids[g].file.names \in DOMAIN fids[g].file.tree
      <4>1. fids[g].file \in FilesAt(fids[g].file.at)
        BY <3>2 DEF FilesAt
      <4>2. GoodFile(fids[g].file)
        BY <1>1, <3>1, <4>1 DEF Inv, FilesInv, GoodFiles
      <4> QED BY <4>2, NodeOfFile
    <3> QED BY <3>1, <3>2 DEF Handles
  <2>2. ASSUME NEW k \in 1..Len(fss)
        PROVE  /\ fss[k].tree \in Trees /\ fss[k].fresh \in BOOLEAN
               /\ fss[k].path \in Nat /\ fss[k].version \in Nat
    <3>1. fss[k] \in FileSystem
      BY <1>1 DEF Inv, Typed
    <3> QED BY <3>1 DEF FileSystem
  <2> QED BY <1>1, <2>1, <2>2 DEF Inv, Typed, TypeOK
<1> QED BY <1>1, InvAlways, PTL

(***************************************************************************)
(* When clients do not send Tversion with fids in use, the fids the server *)
(* has are always those that its replies tell the client of: the number of *)
(* qids in an Rwalk says whether handleWalk made the fid.                  *)
(***************************************************************************)
THEOREM FidsAreTold == ~Renegotiates => (Spec => []FidsTold)
<1> SUFFICES ASSUME ~Renegotiates PROVE Spec => []FidsTold
  OBVIOUS
<1>1. Inv => FidsTold
  BY DEF Inv, Told, FidsTold
<1> QED BY <1>1, InvAlways, PTL

(***************************************************************************)
(* However small the reads are, and whatever is committed in between, what *)
(* a client has listed of a directory and what the handle still has to     *)
(* send are together the entries that there were when the listing began.   *)
(***************************************************************************)
THEOREM ListingsAreWhole == Spec => []ListingWhole
<1>1. Inv => ListingWhole
  BY DEF Inv
<1> QED BY <1>1, InvAlways, PTL

(***************************************************************************)
(* No two files of a file system that fids lead to have the same qid path, *)
(* along any walks and over any number of new roots.                       *)
(***************************************************************************)
THEOREM QidsAllDiffer == Spec => []QidsDiffer
<1>1. ASSUME Inv PROVE QidsDiffer
  <2> SUFFICES ASSUME NEW k \in DOMAIN fss, NEW x \in Known(k), NEW y \in Known(k),
                      x[3].path = y[3].path
               PROVE  x = y
    BY DEF QidsDiffer
  <2> DEFINE F == FilesAt(k) \cup {RootFile(k, fss[k])}
  <2>1. k \in 1..Len(fss) /\ k \in Nat /\ fss[k] \in FileSystem
    BY <1>1 DEF Inv, Typed
  <2>2. GoodFiles(F, k, fss[k].path)
    BY <1>1, <2>1, Zenon DEF Inv, FilesInv
  <2>3. ASSUME NEW z \in Known(k)
        PROVE  \E f \in F : \E i \in 0..Len(f.names) :
                 z = <<f.tree, SubSeq(f.names, 1, i), f.qids[i + 1]>>
    <3>1. CASE z = <<fss[k].tree, <<>>, fss[k].qid>>
      <4> DEFINE f == RootFile(k, fss[k])
      <4>1. f.tree = fss[k].tree /\ f.names = <<>> /\ f.qids[1] = fss[k].qid
        BY <2>1, RootGood
      <4> HIDE DEF f
      <4>2. Len(<<>>) = 0 /\ SubSeq(<<>>, 1, 0) = <<>>
        OBVIOUS
      <4>3. 0 \in 0..Len(f.names) /\ z = <<f.tree, SubSeq(f.names, 1, 0), f.qids[0 + 1]>>
        BY <3>1, <4>1, <4>2
      <4> QED BY <4>3 DEF f
    <3>2. CASE z # <<fss[k].tree, <<>>, fss[k].qid>>
      <4>1. PICK f \in FilesAt(k) :
              z \in {<<f.tree, SubSeq(f.names, 1, i), f.qids[i + 1]>> : i \in 0..Len(f.names)}
        BY <3>2, Zenon DEF Known, FilesAt
      <4> QED BY <4>1
    <3> QED BY <3>1, <3>2
  <2> HIDE DEF F
  <2>4. PICK f \in F : \E i \in 0..Len(f.names) :
          x = <<f.tree, SubSeq(f.names, 1, i), f.qids[i + 1]>>
    BY <2>3, Zenon
  <2>5. PICK i \in 0..Len(f.names) : x = <<f.tree, SubSeq(f.names, 1, i), f.qids[i + 1]>>
    BY <2>4
  <2>6. PICK g \in F : \E j \in 0..Len(g.names) :
          y = <<g.tree, SubSeq(g.names, 1, j), g.qids[j + 1]>>
    BY <2>3
  <2>7. PICK j \in 0..Len(g.names) : y = <<g.tree, SubSeq(g.names, 1, j), g.qids[j + 1]>>
    BY <2>6
  <2>8. Meet(f, g) /\ GoodFile(f) /\ GoodFile(g)
    BY <2>2 DEF GoodFiles
  <2>9. /\ i + 1 \in 1..Len(f.qids) /\ j + 1 \in 1..Len(g.qids)
        /\ (i + 1) - 1 = i /\ (j + 1) - 1 = j
    BY <2>8, FileParts
  <2>10. f.qids[i + 1].path = g.qids[j + 1].path
    BY <2>5, <2>7
  <2>11. /\ f.qids[i + 1] = g.qids[j + 1] /\ f.tree = g.tree
         /\ SubSeq(f.names, 1, i) = SubSeq(g.names, 1, j)
    <3>1. PICK a \in 1..Len(f.qids), b \in 1..Len(g.qids) : a = i + 1 /\ b = j + 1
      BY <2>9
    <3>2. f.qids[a].path = g.qids[b].path
      BY <2>10, <3>1
    <3>3. /\ f.qids[a] = g.qids[b] /\ f.tree = g.tree
          /\ SubSeq(f.names, 1, a - 1) = SubSeq(g.names, 1, b - 1)
      BY <2>8, <3>2 DEF Meet
    <3>4. a - 1 = i /\ b - 1 = j
      BY <2>9, <3>1
    <3> QED BY <3>1, <3>3, <3>4
  <2> QED BY <2>5, <2>7, <2>11
<1> QED BY <1>1, InvAlways, PTL

(***************************************************************************)
(* Once the connection has agreed on messages as long as its other replies *)
(* are, no Rread is too long for the buffer of the server, for any count.  *)
(***************************************************************************)
THEOREM RepliesAllFit == Spec => []RepliesFit
<1>1. Inv => RepliesFit
  BY DEF Inv
<1> QED BY <1>1, InvAlways, PTL
=============================================================================
