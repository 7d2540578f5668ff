-------------------------- MODULE PackReaderProofs --------------------------
(***************************************************************************)
(* Proofs about PackReader, for any number of packs, fids and open files,  *)
(* where nobody uses a Reader after its Close.                             *)
(***************************************************************************)
EXTENDS PackReader, FiniteSetTheorems, SequenceTheorems, WellFoundedInduction, TLAPS

Entry == [pack : Pack, fid : Fid]

\* What every entry of the list stands for; no two share a fid.
Leads(list, open, table) ==
  /\ \A i \in 1..Len(list) : /\ list[i].fid \in open
                             /\ table[list[i].fid] = list[i].pack
  /\ \A i, j \in 1..Len(list) : list[i].fid = list[j].fid => i = j

(***************************************************************************)
(* The inductive invariant: the client's fids are those the server has     *)
(* open, and the list leads to them.                                       *)
(***************************************************************************)
OpenInv ==
  /\ lru \in Seq(Entry)
  /\ fids \in SUBSET Fid
  /\ DOMAIN server = fids
  /\ Leads(lru, fids, server)
  /\ ReadsOwnPack

(***************************************************************************)
(* nextFid finds a fid that is not in use, if there is one.                *)
(***************************************************************************)
LEMMA FidFree ==
  ASSUME fids # Fid, fids \in SUBSET Fid
  PROVE  NextFid \in Fid \ fids
<1> DEFINE R == {ss \in Nat \X Nat : ss[1] < ss[2]}
<1>1. Fid \ fids # {}
  BY Zenon
<1>2. Fid \subseteq Nat
  BY PackReaderAssumption DEF Fid
<1>3. Fid \ fids \subseteq Nat
  BY <1>2, Zenon
<1>4. IsWellFoundedOn(R, Nat)
  BY NatLessThanWellFounded, Zenon DEF OpToRel
<1> HIDE DEF R
<1>5. \E x \in Fid \ fids : \A y \in Fid \ fids : ~(<<y, x>> \in R)
  BY <1>1, <1>3, <1>4, WFMin, Zenon
<1>6. PICK x \in Fid \ fids : \A y \in Fid \ fids : ~(<<y, x>> \in R)
  BY <1>5, Zenon
<1>7. ASSUME NEW y \in Fid \ fids
      PROVE  x <= y
  <2>1. x \in Nat /\ y \in Nat
    BY <1>3, Zenon
  <2>2. ~(<<y, x>> \in R)
    BY <1>6, Zenon
  <2> QED BY <2>1, <2>2 DEF R
<1> QED BY <1>7, Zenon DEF NextFid

(***************************************************************************)
(* MoveToFront changes the order of the list and nothing else.             *)
(***************************************************************************)
Moved(s, i) == <<s[i]>> \o RemoveAt(s, i)

LEMMA PrefixProperties ==
  ASSUME NEW T, NEW s \in Seq(T), NEW i \in 1..Len(s)
  PROVE  /\ SubSeq(s, 1, i - 1) \in Seq(T)
         /\ Len(SubSeq(s, 1, i - 1)) = i - 1
         /\ \A k \in 1..(i - 1) : SubSeq(s, 1, i - 1)[k] = s[k]
<1>1. Len(s) \in Nat /\ i \in Nat /\ 1 <= i /\ i <= Len(s)
  OBVIOUS
<1>2. \A k \in 1..(i - 1) : SubSeq(s, 1, i - 1)[k] = s[k]
  BY <1>1
<1>3. SubSeq(s, 1, i - 1) \in Seq(T) /\ Len(SubSeq(s, 1, i - 1)) = i - 1
  BY <1>1
<1> QED BY <1>2, <1>3, Zenon

LEMMA MovedToFront ==
  ASSUME NEW T, NEW s \in Seq(T), NEW i \in 1..Len(s)
  PROVE  /\ Moved(s, i) \in Seq(T)
         /\ Len(Moved(s, i)) = Len(s)
         /\ \A k \in 1..Len(s) :
              Moved(s, i)[k] = IF k = 1 THEN s[i] ELSE IF k <= i THEN s[k - 1] ELSE s[k]
<1> DEFINE a == SubSeq(s, 1, i - 1)
           b == SubSeq(s, i + 1, Len(s))
           c == a \o b
           h == <<s[i]>>
           t == h \o c
           m == Len(s)
<1>1. m \in Nat /\ i \in Nat /\ 1 <= i /\ i <= m /\ s[i] \in T
  OBVIOUS
<1>2. a \in Seq(T) /\ Len(a) = i - 1
  BY PrefixProperties, Zenon
<1>3. \A k \in 1..(i - 1) : a[k] = s[k]
  BY PrefixProperties, Zenon
<1>4. b \in Seq(T) /\ Len(b) = m - i
  BY <1>1
<1>5. \A k \in 1..(m - i) : b[k] = s[i + k]
  BY <1>1
<1>6. h \in Seq(T) /\ Len(h) = 1 /\ h[1] = s[i]
  BY <1>1
<1> HIDE DEF a, b, h
<1>7. /\ c \in Seq(T) /\ Len(c) = Len(a) + Len(b)
      /\ \A k \in 1..(Len(a) + Len(b)) : c[k] = IF k <= Len(a) THEN a[k] ELSE b[k - Len(a)]
  BY <1>2, <1>4, ConcatProperties, Zenon
<1> HIDE DEF c
<1>8. /\ t \in Seq(T) /\ Len(t) = Len(h) + Len(c)
      /\ \A k \in 1..(Len(h) + Len(c)) : t[k] = IF k <= Len(h) THEN h[k] ELSE c[k - Len(h)]
  <2>1. h \in Seq(T) /\ c \in Seq(T)
    BY <1>6, <1>7
  <2> QED BY <2>1, ConcatProperties, Zenon
<1>9. Moved(s, i) = t
  BY Zenon DEF RemoveAt, Moved, a, b, c, h
<1> HIDE DEF t, m
<1>10. Len(t) = m
  BY <1>1, <1>2, <1>4, <1>6, <1>7, <1>8
<1>11. ASSUME NEW k \in 1..m
       PROVE  t[k] = IF k = 1 THEN s[i] ELSE IF k <= i THEN s[k - 1] ELSE s[k]
  <2>1. t[k] = IF k <= 1 THEN h[k] ELSE c[k - 1]
    BY <1>1, <1>6, <1>8, <1>10
  <2>2. CASE k = 1
    BY <2>1, <2>2, <1>6
  <2>3. CASE k # 1 /\ k <= i
    <3>1. k - 1 \in 1..(Len(a) + Len(b)) /\ k - 1 <= Len(a) /\ k - 1 \in 1..(i - 1) /\ ~(k <= 1)
      BY <2>3, <1>1, <1>2, <1>4
    <3>2. t[k] = c[k - 1] /\ c[k - 1] = a[k - 1] /\ a[k - 1] = s[k - 1]
      BY <3>1, <2>1, <1>3, <1>7, Zenon
    <3> QED BY <3>2, <2>3
  <2>4. CASE k > i
    <3>1. /\ k - 1 \in 1..(Len(a) + Len(b)) /\ ~(k - 1 <= Len(a)) /\ ~(k <= 1)
          /\ (k - 1) - Len(a) = k - i /\ k - i \in 1..(m - i) /\ i + (k - i) = k
      BY <2>4, <1>1, <1>2, <1>4
    <3>2. t[k] = c[k - 1] /\ c[k - 1] = b[(k - 1) - Len(a)]
      BY <3>1, <2>1, <1>7, Zenon
    <3>3. b[k - i] = s[i + (k - i)]
      BY <3>1, <1>5, Zenon
    <3>4. t[k] = s[k]
      BY <3>1, <3>2, <3>3, Zenon
    <3> QED BY <3>4, <2>4, <1>1
  <2> QED BY <2>2, <2>3, <2>4, <1>1
<1> QED BY <1>8, <1>9, <1>10, <1>11, Zenon DEF m

LEMMA OpenInit ==
  Init => OpenInv
BY DEF Init, OpenInv, Leads, ReadsOwnPack

LEMMA GetOpenKeeps ==
  ASSUME OpenInv, NEW i \in 1..Len(lru), GetOpen(i)
  PROVE  OpenInv'
<1>1. /\ lru' \in Seq(Entry) /\ Len(lru') = Len(lru)
      /\ \A k \in 1..Len(lru) :
           lru'[k] = IF k = 1 THEN lru[i] ELSE IF k <= i THEN lru[k - 1] ELSE lru[k]
  <2>1. lru' = Moved(lru, i)
    BY Zenon DEF GetOpen, Moved
  <2> QED BY <2>1, MovedToFront, Zenon DEF OpenInv
<1>2. fids' = fids /\ server' = server
  BY DEF GetOpen
<1>3. Leads(lru', fids', server')
  <2> DEFINE old(k) == IF k = 1 THEN i ELSE IF k <= i THEN k - 1 ELSE k
  <2>1. \A k \in 1..Len(lru) : old(k) \in 1..Len(lru) /\ lru'[k] = lru[old(k)]
    BY <1>1 DEF OpenInv
  <2>2. \A j, k \in 1..Len(lru) : old(j) = old(k) => j = k
    BY DEF OpenInv
  <2> HIDE DEF old
  <2>3. /\ \A k \in 1..Len(lru) : /\ lru[k].fid \in fids
                                  /\ server[lru[k].fid] = lru[k].pack
        /\ \A j, k \in 1..Len(lru) : lru[j].fid = lru[k].fid => j = k
    BY Zenon DEF OpenInv, Leads
  <2>4. Len(lru') = Len(lru)
    BY <1>1, Zenon
  <2>5. \A k \in 1..Len(lru) : /\ lru'[k].fid \in fids
                               /\ server[lru'[k].fid] = lru'[k].pack
    <3> SUFFICES ASSUME NEW k \in 1..Len(lru)
                 PROVE  lru'[k].fid \in fids /\ server[lru'[k].fid] = lru'[k].pack
      BY Zenon
    <3>1. old(k) \in 1..Len(lru) /\ lru'[k] = lru[old(k)]
      BY <2>1, Zenon
    <3>2. lru[old(k)].fid \in fids /\ server[lru[old(k)].fid] = lru[old(k)].pack
      BY <3>1, <2>3, Zenon
    <3> QED BY <3>1, <3>2, Zenon
  <2>6. \A j, k \in 1..Len(lru) : lru'[j].fid = lru'[k].fid => j = k
    <3> SUFFICES ASSUME NEW j \in 1..Len(lru), NEW k \in 1..Len(lru),
                        lru'[j].fid = lru'[k].fid
                 PROVE  j = k
      BY Zenon
    <3>1. old(j) \in 1..Len(lru) /\ old(k) \in 1..Len(lru)
          /\ lru[old(j)].fid = lru[old(k)].fid
      BY <2>1, Zenon
    <3>2. old(j) = old(k)
      BY <3>1, <2>3, Zenon
    <3> QED BY <3>2, <2>2, Zenon
  <2> QED BY <2>4, <2>5, <2>6, <1>2, Zenon DEF Leads
<1>4. ReadsOwnPack'
  BY DEF GetOpen, Read, OpenInv, Leads, ReadsOwnPack
<1> QED BY <1>1, <1>2, <1>3, <1>4, Zenon DEF OpenInv, Leads

(***************************************************************************)
(* A pack opened with a fid of its own can be put at the front; the one at *)
(* the back can then be closed.                                            *)
(***************************************************************************)
LEMMA OtherLeads ==
  ASSUME OpenInv, NEW p \in Pack, NEW f \in Fid \ fids,
         NEW list, list = <<[pack |-> p, fid |-> f]>> \o lru
  PROVE  /\ list \in Seq(Entry)
         /\ Len(list) = Len(lru) + 1
         /\ list[1] = [pack |-> p, fid |-> f]
         /\ Leads(list, fids \cup {f}, Opened(server, f, p))
<1>1. [pack |-> p, fid |-> f] \in Entry
  BY DEF Entry
<1>2. list \in Seq(Entry) /\ Len(list) = Len(lru) + 1
      /\ list[1] = [pack |-> p, fid |-> f]
      /\ \A k \in 2..Len(list) : list[k] = lru[k - 1]
  BY <1>1 DEF OpenInv
<1>3. \A k \in 1..Len(lru) :
        lru[k].fid \in fids /\ lru[k].fid # f /\ server[lru[k].fid] = lru[k].pack
  BY DEF OpenInv, Leads
<1>4. Opened(server, f, p)[f] = p
      /\ \A g \in fids : g # f => Opened(server, f, p)[g] = server[g]
  BY DEF Opened, OpenInv
<1>5. \A k \in 1..Len(list) : /\ list[k].fid \in fids \cup {f}
                              /\ Opened(server, f, p)[list[k].fid] = list[k].pack
  <2> SUFFICES ASSUME NEW k \in 1..Len(list)
               PROVE  /\ list[k].fid \in fids \cup {f}
                      /\ Opened(server, f, p)[list[k].fid] = list[k].pack
    OBVIOUS
  <2>1. CASE k = 1
    BY <2>1, <1>2, <1>4
  <2>2. CASE k # 1
    <3>1. k - 1 \in 1..Len(lru) /\ list[k] = lru[k - 1]
      BY <2>2, <1>2 DEF OpenInv
    <3> QED BY <3>1, <1>3, <1>4, Zenon
  <2> QED BY <2>1, <2>2
<1>6. \A j, k \in 1..Len(list) : list[j].fid = list[k].fid => j = k
  <2>1. \A j, k \in 1..Len(lru) : lru[j].fid = lru[k].fid => j = k
    BY DEF OpenInv, Leads
  <2> QED BY <2>1, <1>2, <1>3 DEF OpenInv
<1> QED BY <1>2, <1>5, <1>6, Zenon DEF Leads

LEMMA FrontProperties ==
  ASSUME NEW T, NEW s \in Seq(T), s # <<>>
  PROVE  /\ Front(s) \in Seq(T) /\ Len(Front(s)) = Len(s) - 1 /\ Len(s) \in 1..Len(s)
         /\ \A k \in 1..Len(Front(s)) :
              k \in 1..Len(s) /\ k # Len(s) /\ Front(s)[k] = s[k]
<1> DEFINE m == Len(s)
<1>1. m \in Nat /\ m \in 1..m
  OBVIOUS
<1>2. /\ Front(s) \in Seq(T) /\ Len(Front(s)) = m - 1
      /\ \A k \in 1..(m - 1) : Front(s)[k] = s[k]
  BY <1>1, PrefixProperties, Zenon DEF Front
<1> HIDE DEF m
<1>3. \A k \in 1..(m - 1) : k \in 1..m /\ k # m
  BY <1>1
<1> QED BY <1>1, <1>2, <1>3, Zenon DEF m

LEMMA FrontLeads ==
  ASSUME NEW list \in Seq(Entry), list # <<>>, NEW open, NEW table, DOMAIN table = open,
         Leads(list, open, table)
  PROVE  /\ Front(list) \in Seq(Entry)
         /\ Leads(Front(list), open \ {Last(list).fid}, Closed(table, Last(list).fid))
<1> DEFINE s == Front(list)
           g == Last(list).fid
<1>1. s \in Seq(Entry) /\ Len(s) = Len(list) - 1 /\ Len(list) \in 1..Len(list)
      /\ \A k \in 1..Len(s) : k \in 1..Len(list) /\ k # Len(list) /\ s[k] = list[k]
  BY FrontProperties, Zenon
<1>2. g = list[Len(list)].fid
  BY DEF Last
<1>3. \A k \in 1..Len(s) : s[k].fid \in open \ {g} /\ table[s[k].fid] = s[k].pack
  BY <1>1, <1>2, Zenon DEF Leads
<1>4. \A h \in open \ {g} : Closed(table, g)[h] = table[h]
  BY Zenon DEF Closed
<1>5. \A j, k \in 1..Len(s) : s[j].fid = s[k].fid => j = k
  BY <1>1, Zenon DEF Leads
<1> HIDE DEF s, g
<1>6. Leads(s, open \ {g}, Closed(table, g))
  BY <1>3, <1>4, <1>5, Zenon DEF Leads
<1> QED BY <1>1, <1>6, Zenon DEF s, g

LEMMA GetOtherKeeps ==
  ASSUME OpenInv, NEW p \in Pack, GetOther(p)
  PROVE  OpenInv'
<1> DEFINE f == NextFid
           list == <<[pack |-> p, fid |-> f]>> \o lru
           open == fids \cup {f}
           table == Opened(server, f, p)
           left == Evicted(list, open, table)
<1>1. f \in Fid \ fids
  BY FidFree, Zenon DEF GetOther, OpenInv
<1>2. lru' = left.lru /\ fids' = left.fids /\ server' = left.server
      /\ got' = Read(p, f, left.server)
  BY Zenon DEF GetOther
<1> HIDE DEF f
<1>3. /\ list \in Seq(Entry) /\ Len(list) = Len(lru) + 1
      /\ list[1] = [pack |-> p, fid |-> f]
      /\ Leads(list, open, table)
  BY <1>1, OtherLeads, Zenon
<1>4. DOMAIN table = open /\ open \in SUBSET Fid /\ table[f] = p
  BY <1>1, Zenon DEF Opened, OpenInv
<1>5. Len(lru) \in Nat
  BY DEF OpenInv
<1> HIDE DEF list, open, table
<1>6. CASE Len(list) <= MaxOpen
  <2>1. lru' = list /\ fids' = open /\ server' = table /\ got' = Read(p, f, table)
    BY <1>2, <1>6 DEF Evicted
  <2>2. ReadsOwnPack'
    BY <2>1, <1>4 DEF Read, ReadsOwnPack
  <2> QED BY <2>1, <2>2, <1>3, <1>4, Zenon DEF OpenInv, Leads
<1>7. CASE ~(Len(list) <= MaxOpen)
  <2> DEFINE g == Last(list).fid
  <2>1. lru' = Front(list) /\ fids' = open \ {g} /\ server' = Closed(table, g)
        /\ got' = Read(p, f, Closed(table, g))
    BY <1>2, <1>7 DEF Evicted
  <2>2. list # <<>>
    BY <1>3, <1>5
  <2>3. Front(list) \in Seq(Entry) /\ Leads(Front(list), open \ {g}, Closed(table, g))
    BY <2>2, <1>3, <1>4, FrontLeads, Zenon
  <2>4. DOMAIN Closed(table, g) = open \ {g}
        /\ \A h \in open \ {g} : Closed(table, g)[h] = table[h]
    BY <1>4, Zenon DEF Closed
  <2> HIDE DEF g
  <2>5. ReadsOwnPack'
    BY <2>1, <2>4, <1>4 DEF Read, ReadsOwnPack
  <2> QED BY <2>1, <2>3, <2>4, <2>5, <1>4, Zenon DEF OpenInv, Leads
<1> QED BY <1>6, <1>7, Zenon

LEMMA GetFailsKeeps ==
  ASSUME OpenInv, NEW p \in Pack, GetFails(p)
  PROVE  OpenInv'
<1> DEFINE f == NextFid
<1>1. f \in Fid \ fids
  BY FidFree, Zenon DEF GetFails, OpenInv
<1>2. lru' = lru /\ fids' = fids \cup {f} /\ server' = Opened(server, f, p) /\ got' = <<>>
  BY Zenon DEF GetFails
<1> HIDE DEF f
<1>3. DOMAIN Opened(server, f, p) = fids \cup {f}
      /\ \A g \in fids : Opened(server, f, p)[g] = server[g]
  BY <1>1, Zenon DEF Opened, OpenInv
<1>4. Leads(lru, fids \cup {f}, Opened(server, f, p))
  BY <1>3, Zenon DEF Leads, OpenInv
<1>5. ReadsOwnPack'
  BY <1>2, Zenon DEF ReadsOwnPack
<1> QED BY <1>1, <1>2, <1>3, <1>4, <1>5, Zenon DEF OpenInv, Leads

LEMMA ReloadKeeps ==
  ASSUME OpenInv, Reload
  PROVE  OpenInv'
<1> DEFINE f == NextFid
<1>1. f \in Fid \ fids
  BY FidFree, Zenon DEF Reload, OpenInv
<1>2. lru' = lru /\ fids' = fids /\ got' = got
      /\ server' = Closed(Opened(server, f, Listing), f)
  BY Zenon DEF Reload
<1> HIDE DEF f
<1>3. DOMAIN server' = fids /\ \A g \in fids : server'[g] = server[g]
  BY <1>1, <1>2, Zenon DEF Opened, Closed, OpenInv
<1>4. Leads(lru, fids, server')
  BY <1>3, Zenon DEF Leads, OpenInv
<1> QED BY <1>2, <1>3, <1>4, Zenon DEF OpenInv, Leads, ReadsOwnPack

LEMMA CloseReaderKeeps ==
  ASSUME OpenInv, ~Reuses, CloseReader
  PROVE  OpenInv'
<1>1. lru' = <<>> /\ fids' \in SUBSET Fid /\ DOMAIN server' = fids' /\ got' = got
  BY DEF CloseReader, OpenInv
<1>2. Leads(lru', fids', server')
  BY <1>1 DEF Leads
<1>3. ReadsOwnPack'
  BY <1>1, Zenon DEF OpenInv, ReadsOwnPack
<1> QED BY <1>1, <1>2, <1>3 DEF OpenInv, Leads

LEMMA OpenStep ==
  ASSUME ~Reuses, OpenInv, [Next]_vars
  PROVE  OpenInv'
<1>1. CASE UNCHANGED vars
  BY <1>1, Zenon DEF vars, OpenInv, Leads, ReadsOwnPack
<1>2. CASE \E i \in 1..Len(lru) : GetOpen(i)
  BY <1>2, GetOpenKeeps, Zenon
<1>3. CASE \E p \in Pack : GetOther(p) \/ GetFails(p)
  BY <1>3, GetOtherKeeps, GetFailsKeeps, Zenon
<1>4. CASE Reload
  BY <1>4, ReloadKeeps, Zenon
<1>5. CASE CloseReader
  BY <1>5, CloseReaderKeeps, Zenon
<1> QED BY <1>1, <1>2, <1>3, <1>4, <1>5, Zenon DEF Next

(***************************************************************************)
(* A Get reads the pack it wants and no other, however fids are given back *)
(* and taken again, as long as nobody uses a Reader after its Close.       *)
(***************************************************************************)
THEOREM OwnPack ==
  ASSUME ~Reuses
  PROVE  Spec => []ReadsOwnPack
<1>1. Init => OpenInv
  BY OpenInit
<1>2. OpenInv /\ [Next]_vars => OpenInv'
  BY OpenStep
<1>3. OpenInv => ReadsOwnPack
  BY Zenon DEF OpenInv
<1> QED BY <1>1, <1>2, <1>3, PTL DEF Spec

-----------------------------------------------------------------------------
(***************************************************************************)
(* Every fid in use is that of an entry of the list, or of an open that    *)
(* failed halfway.                                                         *)
(***************************************************************************)
CountInv ==
  /\ IsFiniteSet(fids)
  /\ leaks \in Nat
  /\ Len(lru) <= MaxOpen
  /\ Cardinality(fids) = Len(lru) + leaks

LEMMA CountGetOther ==
  ASSUME OpenInv, CountInv, NEW p \in Pack, GetOther(p)
  PROVE  CountInv'
<1> DEFINE f == NextFid
           list == <<[pack |-> p, fid |-> f]>> \o lru
           open == fids \cup {f}
           table == Opened(server, f, p)
           left == Evicted(list, open, table)
<1>1. f \in Fid \ fids
  BY FidFree, Zenon DEF GetOther, OpenInv
<1>2. lru' = left.lru /\ fids' = left.fids /\ leaks' = leaks
  BY Zenon DEF GetOther
<1> HIDE DEF f
<1>3. list \in Seq(Entry) /\ Len(list) = Len(lru) + 1 /\ Leads(list, open, table)
  BY <1>1, OtherLeads, Zenon
<1>4. IsFiniteSet(open) /\ Cardinality(open) = Cardinality(fids) + 1
  BY <1>1, FS_AddElement, Zenon DEF CountInv
<1>5. Len(lru) \in Nat /\ MaxOpen \in Nat /\ leaks \in Nat
      /\ Len(lru) <= MaxOpen /\ Cardinality(fids) = Len(lru) + leaks
  BY PackReaderAssumption DEF OpenInv, CountInv
<1> HIDE DEF list, open, table
<1>6. CASE Len(list) <= MaxOpen
  <2>1. lru' = list /\ fids' = open
    BY <1>2, <1>6 DEF Evicted
  <2> QED BY <2>1, <1>2, <1>3, <1>4, <1>5, <1>6 DEF CountInv
<1>7. CASE ~(Len(list) <= MaxOpen)
  <2> DEFINE g == Last(list).fid
  <2>1. lru' = Front(list) /\ fids' = open \ {g}
    BY <1>2, <1>7 DEF Evicted
  <2>2. list # <<>>
    BY <1>3, <1>5
  <2>3. Len(Front(list)) = Len(list) - 1 /\ Len(list) \in 1..Len(list)
    BY <2>2, <1>3, FrontProperties, Zenon
  <2>4. g \in open
    BY <2>3, <1>3, Zenon DEF Leads, Last
  <2> HIDE DEF g
  <2>5. IsFiniteSet(open \ {g}) /\ Cardinality(open \ {g}) = Cardinality(open) - 1
    BY <2>4, <1>4, FS_RemoveElement, Zenon
  <2> QED BY <2>1, <2>3, <2>5, <1>2, <1>3, <1>4, <1>5 DEF CountInv
<1> QED BY <1>6, <1>7, Zenon

LEMMA CountGetFails ==
  ASSUME OpenInv, CountInv, NEW p \in Pack, GetFails(p)
  PROVE  CountInv'
<1> DEFINE f == NextFid
<1>1. f \in Fid \ fids
  BY FidFree, Zenon DEF GetFails, OpenInv
<1>2. lru' = lru /\ fids' = fids \cup {f} /\ leaks' = leaks + 1
  BY Zenon DEF GetFails
<1> HIDE DEF f
<1>3. IsFiniteSet(fids \cup {f}) /\ Cardinality(fids \cup {f}) = Cardinality(fids) + 1
  BY <1>1, FS_AddElement, Zenon DEF CountInv
<1>4. Len(lru) \in Nat
  BY DEF OpenInv
<1> QED BY <1>2, <1>3, <1>4 DEF CountInv

LEMMA CountCloseReader ==
  ASSUME OpenInv, CountInv, ~Reuses, CloseReader
  PROVE  CountInv'
<1> DEFINE n == Len(lru)
           L == {lru[i].fid : i \in 1..n}
           b == [i \in 1..n |-> lru[i].fid]
<1>1. lru' = <<>> /\ fids' = fids \ L /\ leaks' = leaks
  BY DEF CloseReader
<1>2. n \in Nat
  BY DEF OpenInv
<1>3. \A i, j \in 1..n : lru[i].fid = lru[j].fid => i = j
  BY Zenon DEF OpenInv, Leads
<1>4. L \subseteq fids
  BY Zenon DEF OpenInv, Leads
<1> HIDE DEF n
<1>5. b \in Bijection(1..n, L)
  BY <1>3, Zenon DEF Bijection, Injection, Surjection, IsInjective
<1>6. Cardinality(L) = n
  <2>1. ExistsBijection(1..n, L)
    BY <1>5, Zenon DEF ExistsBijection
  <2> HIDE DEF L, b
  <2> QED BY <2>1, <1>2, FS_CountingElements, Zenon
<1> HIDE DEF L
<1>7. fids \cap L = L
  BY <1>4, Zenon
<1>8. IsFiniteSet(fids \ L) /\ Cardinality(fids \ L) = Cardinality(fids) - Cardinality(L)
  <2>1. IsFiniteSet(fids)
    BY Zenon DEF CountInv
  <2>2. /\ IsFiniteSet(fids \ L)
        /\ Cardinality(fids \ L) = Cardinality(fids) - Cardinality(fids \cap L)
    BY <2>1, FS_Difference, Zenon
  <2> QED BY <2>2, <1>7, Zenon
<1>9. Len(lru') = 0 /\ MaxOpen \in Nat
  BY <1>1, PackReaderAssumption
<1>10. Cardinality(fids) = n + leaks /\ leaks \in Nat
  BY Zenon DEF CountInv, n
<1>11. Cardinality(fids') = Len(lru') + leaks'
  BY <1>1, <1>2, <1>6, <1>8, <1>9, <1>10
<1> QED BY <1>1, <1>8, <1>9, <1>10, <1>11 DEF CountInv

LEMMA CountStep ==
  ASSUME ~Reuses, OpenInv, CountInv, [Next]_vars
  PROVE  CountInv'
<1>1. CASE UNCHANGED vars
  BY <1>1, Zenon DEF vars, CountInv
<1>2. ASSUME NEW i \in 1..Len(lru), GetOpen(i)
      PROVE  CountInv'
  <2>1. lru' = Moved(lru, i) /\ fids' = fids /\ leaks' = leaks
    BY <1>2, Zenon DEF GetOpen, Moved
  <2>2. Len(lru') = Len(lru)
    BY <2>1, MovedToFront, Zenon DEF OpenInv
  <2> QED BY <2>1, <2>2, Zenon DEF CountInv
<1>3. CASE \E p \in Pack : GetOther(p) \/ GetFails(p)
  BY <1>3, CountGetOther, CountGetFails, Zenon
<1>4. CASE Reload
  BY <1>4, Zenon DEF Reload, CountInv
<1>5. CASE CloseReader
  BY <1>5, CountCloseReader, Zenon
<1> QED BY <1>1, <1>2, <1>3, <1>4, <1>5, Zenon DEF Next

(***************************************************************************)
(* The server has no more files open than the list may hold, and those of  *)
(* the opens that failed halfway.                                          *)
(***************************************************************************)
THEOREM Bounded ==
  ASSUME ~Reuses
  PROVE  Spec => []FilesBounded
<1>1. Init => OpenInv /\ CountInv
  <2> SUFFICES ASSUME Init
               PROVE  CountInv
    BY OpenInit, Zenon
  <2>1. lru = <<>> /\ fids = {} /\ leaks = 0
    BY DEF Init
  <2>2. IsFiniteSet(fids) /\ Cardinality(fids) = 0
    BY <2>1, FS_EmptySet, Zenon
  <2> QED BY <2>1, <2>2, PackReaderAssumption DEF CountInv
<1>2. OpenInv /\ CountInv /\ [Next]_vars => (OpenInv /\ CountInv)'
  BY OpenStep, CountStep, Zenon
<1>3. OpenInv /\ CountInv => FilesBounded
  <2> SUFFICES ASSUME OpenInv, CountInv
               PROVE  FilesBounded
    BY Zenon
  <2>1. DOMAIN server = fids
    BY Zenon DEF OpenInv
  <2>2. Len(lru) \in Nat
    BY DEF OpenInv
  <2> QED BY <2>1, <2>2, PackReaderAssumption DEF CountInv, FilesBounded
<1> QED BY <1>1, <1>2, <1>3, PTL DEF Spec
=============================================================================
