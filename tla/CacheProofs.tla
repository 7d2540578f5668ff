----------------------------- MODULE CacheProofs -----------------------------
(***************************************************************************)
(* What Cache keeps, for every set of hashes, every size of their values   *)
(* and every limit on what is pending: its size, its database and its list *)
(* of entries agree, across crashes, failed writes and restarts.           *)
(***************************************************************************)
EXTENDS Cache, SumsProofs, FiniteSetTheorems

\* A list with every entry once.
Lists(s) == s \in Seq(Hash) /\ IsInjective(s)

(***************************************************************************)
(* The invariant.  The list and what is pending count only while the cache *)
(* is open; a crash leaves the database as some transaction left it, and   *)
(* that is all that NewCache needs.                                        *)
(***************************************************************************)
CacheInv ==
  /\ Lists(lru)
  /\ db \subseteq Hash /\ IsFiniteSet(db)
  /\ pendingPut \subseteq Hash /\ IsFiniteSet(pendingPut)
  /\ maxSize \in Nat
  /\ SizeExact
  /\ Settles

-----------------------------------------------------------------------------
\* A list is divided into lists without a common entry, and their sizes add up
\* to its own.
LEMMA Halves ==
  ASSUME NEW a \in Seq(Hash), NEW b \in Seq(Hash), IsInjective(a \o b)
  PROVE  /\ Lists(a) /\ Lists(b)
         /\ Range(a \o b) = Range(a) \cup Range(b)
         /\ Range(a) \cap Range(b) = {}
<1> DEFINE s == a \o b
<1>1. /\ s \in Seq(Hash) /\ DOMAIN s = 1..(Len(a) + Len(b))
      /\ Len(a) \in Nat /\ Len(b) \in Nat
      /\ DOMAIN a = 1..Len(a) /\ DOMAIN b = 1..Len(b)
  BY ConcatProperties
<1>2. \A i \in DOMAIN a : i \in DOMAIN s /\ s[i] = a[i]
  BY <1>1, ConcatProperties
<1>3. \A i \in DOMAIN b : i + Len(a) \in DOMAIN s /\ s[i + Len(a)] = b[i]
  BY <1>1, ConcatProperties
<1>4. IsInjective(s)
  OBVIOUS
<1>5. Range(s) = Range(a) \cup Range(b)
  BY RangeConcatenation
<1> HIDE DEF s
<1>6. \A i, j \in DOMAIN s : s[i] = s[j] => i = j
  BY <1>4 DEF IsInjective
<1>7. Lists(a)
  BY <1>2, <1>6 DEF Lists, IsInjective
<1>8. Lists(b)
  <2>1. ASSUME NEW i \in DOMAIN b, NEW j \in DOMAIN b, b[i] = b[j] PROVE i = j
    <3>1. i + Len(a) = j + Len(a)
      BY <1>3, <1>6, <2>1
    <3> QED BY <1>1, <3>1
  <2> QED BY <2>1 DEF Lists, IsInjective
<1>9. Range(a) \cap Range(b) = {}
  <2> SUFFICES ASSUME NEW i \in DOMAIN a, NEW j \in DOMAIN b, a[i] = b[j] PROVE FALSE
    BY DEF Range
  <2>1. i = j + Len(a)
    BY <1>2, <1>3, <1>6
  <2> QED BY <1>1, <2>1
<1> QED BY <1>5, <1>7, <1>8, <1>9 DEF s

\* Lists without a common entry make a list.
LEMMA Joined ==
  ASSUME NEW a, Lists(a), NEW b, Lists(b), Range(a) \cap Range(b) = {}
  PROVE  Lists(a \o b) /\ Range(a \o b) = Range(a) \cup Range(b)
<1> DEFINE s == a \o b
<1>1. a \in Seq(Hash) /\ b \in Seq(Hash)
  BY DEF Lists
<1>2. /\ s \in Seq(Hash) /\ DOMAIN s = 1..(Len(a) + Len(b))
      /\ Len(a) \in Nat /\ Len(b) \in Nat
      /\ DOMAIN a = 1..Len(a) /\ DOMAIN b = 1..Len(b)
      /\ Range(s) = Range(a) \cup Range(b)
  BY <1>1, ConcatProperties, RangeConcatenation
<1>3. \A i \in DOMAIN s : i <= Len(a) => i \in DOMAIN a /\ s[i] = a[i]
  BY <1>1, <1>2, ConcatProperties
<1>4. \A i \in DOMAIN s : ~(i <= Len(a)) => i - Len(a) \in DOMAIN b /\ s[i] = b[i - Len(a)]
  BY <1>1, <1>2, ConcatProperties
<1> HIDE DEF s
<1>5. ASSUME NEW i \in DOMAIN s, NEW j \in DOMAIN s, s[i] = s[j] PROVE i = j
  <2>1. CASE i <= Len(a) /\ j <= Len(a)
    BY <1>3, <1>5, <2>1 DEF Lists, IsInjective
  <2>2. CASE ~(i <= Len(a)) /\ ~(j <= Len(a))
    <3>1. i - Len(a) = j - Len(a)
      BY <1>4, <1>5, <2>2 DEF Lists, IsInjective
    <3> QED BY <1>2, <3>1
  <2>3. CASE i <= Len(a) /\ ~(j <= Len(a))
    BY <1>3, <1>4, <1>5, <2>3 DEF Range
  <2>4. CASE ~(i <= Len(a)) /\ j <= Len(a)
    BY <1>3, <1>4, <1>5, <2>4 DEF Range
  <2> QED BY <2>1, <2>2, <2>3, <2>4
<1> QED BY <1>2, <1>5 DEF Lists, IsInjective, s

LEMMA TotalsAdd ==
  ASSUME NEW a \in Seq(Hash), NEW b \in Seq(Hash)
  PROVE  /\ Total(a \o b) = Total(a) + Total(b)
         /\ Total(a) \in Nat /\ Total(b) \in Nat
<1>1. Len(a \o b) = Len(a) + Len(b)
  BY ConcatProperties
<1>2. Size \in [Hash -> Nat]
  BY CacheAssumption
<1>3. Len(a) \in 0..Len(a) /\ Len(b) \in 0..Len(b)
  OBVIOUS
<1>4. SumTo(Size, a \o b, Len(a) + Len(b)) = SumTo(Size, a, Len(a)) + SumTo(Size, b, Len(b))
  BY <1>2, SumToConcat
<1>5. SumTo(Size, a, Len(a)) \in Nat /\ SumTo(Size, b, Len(b)) \in Nat
  BY <1>2, <1>3, SumToNat
<1> QED BY <1>1, <1>4, <1>5 DEF Total

\* A list of one entry, and the empty one.
LEMMA OneEntry ==
  ASSUME NEW h \in Hash
  PROVE  Lists(<<h>>) /\ Range(<<h>>) = {h} /\ Total(<<h>>) = Size[h]
<1>1. <<h>> \in Seq(Hash) /\ DOMAIN <<h>> = {1} /\ <<h>>[1] = h /\ Len(<<h>>) = 1
  OBVIOUS
<1>2. SumTo(Size, <<h>>, 0 + 1) = SumTo(Size, <<h>>, 0) + Size[<<h>>[0 + 1]] /\ SumTo(Size, <<h>>, 0) = 0
  BY SumToNext
<1>3. Size[h] \in Nat
  BY CacheAssumption
<1>4. Total(<<h>>) = Size[h]
  BY <1>1, <1>2, <1>3 DEF Total
<1> QED BY <1>1, <1>4 DEF Lists, Range, IsInjective

LEMMA NoEntry == Lists(<<>>) /\ Range(<<>>) = {} /\ Total(<<>>) = 0
<1>1. <<>> \in Seq(Hash) /\ DOMAIN <<>> = {} /\ Len(<<>>) = 0
  OBVIOUS
<1>2. SumTo(Size, <<>>, 0) = 0
  BY SumToNext
<1> QED BY <1>1, <1>2 DEF Lists, Range, IsInjective, Total

-----------------------------------------------------------------------------
\* What the eviction of the last n entries leaves.
LEMMA Evicted ==
  ASSUME CacheInv, open, NEW n \in 0..Len(lru)
  PROVE  \E a \in Seq(Hash), b \in Seq(Hash) :
           /\ Lists(a) /\ Range(a) = Entries \ Range(b)
           /\ SubSeq(lru, Len(lru) - n + 1, Len(lru)) = b
           /\ size - Total(b) = Total(a) /\ Total(a) \in Nat
           /\ n = Len(lru) => a = <<>>
           /\ Evict(n) = [lru  |-> a,
                          size |-> Total(a),
                          put  |-> pendingPut \ Range(b),
                          del  |-> pendingDel \cup Range(b)]
<1> DEFINE k == Len(lru) - n
           a == SubSeq(lru, 1, k)
           b == SubSeq(lru, k + 1, Len(lru))
<1>1. lru \in Seq(Hash) /\ IsInjective(lru) /\ k \in 0..Len(lru)
  BY DEF CacheInv, Lists
<1>2. a \in Seq(Hash) /\ b \in Seq(Hash) /\ lru = a \o b
  BY <1>1, Divided
<1>3. n = Len(lru) => a = <<>>
  <2>1. SubSeq(lru, 1, 0) = <<>>
    BY <1>1
  <2> QED BY <1>1, <2>1
<1>4. Evict(n) = [lru  |-> a, size |-> size - Total(b),
                  put  |-> pendingPut \ Range(b), del |-> pendingDel \cup Range(b)]
  BY DEF Evict
<1>5. SubSeq(lru, Len(lru) - n + 1, Len(lru)) = b
  OBVIOUS
<1> HIDE DEF a, b
<1>6. IsInjective(a \o b)
  BY <1>1, <1>2
<1>7. Lists(a) /\ Range(a \o b) = Range(a) \cup Range(b) /\ Range(a) \cap Range(b) = {}
  BY <1>2, <1>6, Halves
<1>8. Range(a) = Entries \ Range(b)
  BY <1>2, <1>7 DEF Entries
<1>9. Total(a \o b) = Total(a) + Total(b) /\ Total(a) \in Nat /\ Total(b) \in Nat
  BY <1>2, TotalsAdd
<1>10. size - Total(b) = Total(a)
  BY <1>2, <1>9 DEF CacheInv, SizeExact
<1> QED BY <1>2, <1>3, <1>4, <1>5, <1>7, <1>8, <1>9, <1>10

\* A Put of an entry that there is room for.
LEMMA PutKeeps ==
  ASSUME CacheInv, NEW h \in Hash, Put(h)
  PROVE  CacheInv' /\ Total(lru') <= maxSize
<1>1. open /\ open' = open /\ maxSize' = maxSize /\ h \notin Entries
  BY DEF Put
<1>2. PICK n \in 0..Len(lru) :
        /\ Fits(n, h)
        /\ LET left == Evict(n)
               put  == Added(left, h).put
               del  == Added(left, h).del
           IN  /\ lru' = <<h>> \o left.lru
               /\ size' = left.size + Size[h]
               /\ \/ /\ pendingPut' = put
                     /\ pendingDel' = del
                     /\ UNCHANGED db
                  \/ /\ db' = Flushed(put, del)
                     /\ pendingPut' = {}
                     /\ pendingDel' = {}
  BY DEF Put
<1>3. PICK a \in Seq(Hash), b \in Seq(Hash) :
        /\ Lists(a) /\ Range(a) = Entries \ Range(b)
        /\ SubSeq(lru, Len(lru) - n + 1, Len(lru)) = b
        /\ size - Total(b) = Total(a) /\ Total(a) \in Nat
        /\ Evict(n) = [lru  |-> a,
                       size |-> Total(a),
                       put  |-> pendingPut \ Range(b),
                       del  |-> pendingDel \cup Range(b)]
  BY <1>1, Evicted
<1> DEFINE put == (pendingPut \ Range(b)) \cup {h}
           del == (pendingDel \cup Range(b)) \ {h}
<1>4. /\ lru' = <<h>> \o a
      /\ size' = Total(a) + Size[h]
      /\ \/ pendingPut' = put /\ pendingDel' = del /\ db' = db
         \/ db' = (db \cup put) \ del /\ pendingPut' = {} /\ pendingDel' = {}
  BY <1>2, <1>3 DEF Added, Flushed
<1>5. Lists(<<h>>) /\ Range(<<h>>) = {h} /\ Total(<<h>>) = Size[h]
  BY OneEntry
<1>6. Lists(lru') /\ Entries' = {h} \cup Range(a)
  <2>1. Range(<<h>>) \cap Range(a) = {}
    BY <1>1, <1>3, <1>5
  <2> QED BY <1>3, <1>4, <1>5, <2>1, Joined DEF Entries
<1>7. Total(lru') = Size[h] + Total(a) /\ Size[h] \in Nat
  <2>1. <<h>> \in Seq(Hash) /\ Size[h] \in Nat
    BY CacheAssumption
  <2>2. Total(<<h>> \o a) = Total(<<h>>) + Total(a)
    BY <1>3, <2>1, TotalsAdd
  <2> QED BY <1>4, <1>5, <2>1, <2>2
<1>8. size' = Total(lru')
  BY <1>3, <1>4, <1>7
<1>9. Total(lru') <= maxSize
  <2>1. Total(a) + Size[h] <= maxSize
    BY <1>2, <1>3 DEF Fits
  <2> QED BY <1>3, <1>7, <2>1
<1>10. (db \cup put) \ del = Entries'
  <2>1. (db \cup pendingPut) \ pendingDel = Entries
    BY <1>1 DEF CacheInv, Settles, Flushed
  <2> HIDE DEF put, del
  <2>2. ASSUME NEW x PROVE x \in (db \cup put) \ del <=> x \in {h} \cup Range(a)
    BY <1>3, <2>1 DEF put, del
  <2> QED BY <1>6, <2>2
<1>11. put \subseteq Hash /\ IsFiniteSet(put) /\ db \subseteq Hash /\ IsFiniteSet(db)
  <2>1. IsFiniteSet(pendingPut) /\ pendingPut \subseteq Hash /\ db \subseteq Hash /\ IsFiniteSet(db)
    BY DEF CacheInv
  <2>2. IsFiniteSet(pendingPut \ Range(b))
    BY <2>1, FS_Difference
  <2>3. IsFiniteSet((pendingPut \ Range(b)) \cup {h})
    BY <2>2, FS_AddElement
  <2> QED BY <2>1, <2>3
<1> HIDE DEF put, del
<1>12. (db' \cup pendingPut') \ pendingDel' = Entries'
  BY <1>4, <1>10
<1>13. db' \subseteq Hash /\ IsFiniteSet(db') /\ pendingPut' \subseteq Hash /\ IsFiniteSet(pendingPut')
  <2>1. IsFiniteSet({}) /\ IsFiniteSet((db \cup put) \ del)
    <3>1. IsFiniteSet(db \cup put)
      BY <1>11, FS_Union
    <3> QED BY <3>1, FS_Difference, FS_EmptySet
  <2> QED BY <1>4, <1>11, <2>1
<1>14. maxSize' \in Nat
  BY <1>1 DEF CacheInv
<1> QED BY <1>6, <1>8, <1>9, <1>12, <1>13, <1>14 DEF CacheInv, SizeExact, Settles, Flushed

\* A Put of a value that is too large leaves no entry.
LEMMA PutTooLargeKeeps ==
  ASSUME CacheInv, NEW h \in Hash, PutTooLarge(h)
  PROVE  CacheInv' /\ Total(lru') <= maxSize
<1>1. open /\ open' = open /\ maxSize' = maxSize /\ db' = db
  BY DEF PutTooLarge
<1>2. Len(lru) \in 0..Len(lru)
  BY DEF CacheInv, Lists
<1>3. PICK a \in Seq(Hash), b \in Seq(Hash) :
        /\ Range(a) = Entries \ Range(b)
        /\ Len(lru) = Len(lru) => a = <<>>
        /\ Evict(Len(lru)) = [lru  |-> a,
                              size |-> Total(a),
                              put  |-> pendingPut \ Range(b),
                              del  |-> pendingDel \cup Range(b)]
  BY <1>1, <1>2, Evicted
<1>4. lru' = <<>> /\ size' = Total(<<>>)
      /\ pendingPut' = pendingPut \ Range(b) /\ pendingDel' = pendingDel \cup Range(b)
  BY <1>3 DEF PutTooLarge
<1>5. Lists(<<>>) /\ Range(<<>>) = {} /\ Total(<<>>) = 0
  BY NoEntry
<1>6. Entries' = {} /\ Entries \subseteq Range(b)
  BY <1>3, <1>4, <1>5 DEF Entries
<1>7. (db' \cup pendingPut') \ pendingDel' = Entries'
  BY <1>1, <1>4, <1>6 DEF CacheInv, Settles, Flushed
<1>8. pendingPut' \subseteq Hash /\ IsFiniteSet(pendingPut')
  BY <1>4, FS_Difference DEF CacheInv
<1>9. db' \subseteq Hash /\ IsFiniteSet(db') /\ maxSize' \in Nat /\ maxSize \in Nat
  BY <1>1 DEF CacheInv
<1> QED BY <1>4, <1>5, <1>7, <1>8, <1>9 DEF CacheInv, SizeExact, Settles, Flushed

\* A Get moves an entry to the front.
LEMMA GetKeeps ==
  ASSUME CacheInv, NEW h \in Hash, Get(h)
  PROVE  CacheInv'
<1>1. open /\ open' = open /\ UNCHANGED <<db, size, maxSize, pendingPut, pendingDel>>
  BY DEF Get
<1>2. PICK i \in DOMAIN lru : lru[i] = h /\ lru' = <<h>> \o RemoveAt(lru, i)
  BY DEF Get
<1> DEFINE a == SubSeq(lru, 1, i - 1)
           c == SubSeq(lru, i, Len(lru))
           b == SubSeq(lru, i + 1, Len(lru))
<1>3. lru \in Seq(Hash) /\ IsInjective(lru) /\ i \in 1..Len(lru) /\ Len(lru) \in Nat
  BY DEF CacheInv, Lists
<1>4. a \in Seq(Hash) /\ c \in Seq(Hash) /\ lru = a \o c
  <2>1. i - 1 \in 0..Len(lru) /\ (i - 1) + 1 = i
    BY <1>3
  <2> QED BY <1>3, <2>1, Divided
<1>5. b \in Seq(Hash) /\ c = <<h>> \o b
  <2>1. b \in Seq(Hash) /\ Len(c) = Len(lru) - i + 1 /\ Len(b) = Len(lru) - i
    BY <1>3
  <2>2. \A j \in 1..Len(c) : c[j] = lru[i + j - 1]
    <3>1. ASSUME NEW j \in 1..(Len(lru) - i + 1) PROVE c[j] = lru[i + j - 1]
      BY <1>3
    <3> QED BY <2>1, <3>1
  <2>3. \A j \in 1..Len(b) : b[j] = lru[i + j]
    <3>1. ASSUME NEW j \in 1..(Len(lru) - i) PROVE b[j] = lru[i + j]
      BY <1>3
    <3> QED BY <2>1, <3>1
  <2> HIDE DEF a, b, c
  <2>4. <<h>> \in Seq(Hash) /\ Len(<<h>>) = 1 /\ <<h>>[1] = h
    OBVIOUS
  <2>5. /\ <<h>> \o b \in Seq(Hash) /\ Len(<<h>> \o b) = 1 + Len(b)
        /\ \A j \in 1..(1 + Len(b)) : (<<h>> \o b)[j] = IF j <= 1 THEN h ELSE b[j - 1]
    <3>1. \A j \in 1..(1 + Len(b)) : j <= 1 => j = 1
      BY <1>3, <2>1
    <3> QED BY <2>1, <2>4, <3>1, ConcatProperties
  <2>6. Len(<<h>> \o b) = Len(c)
    BY <1>3, <2>1, <2>5
  <2>7. ASSUME NEW j \in 1..Len(c) PROVE (<<h>> \o b)[j] = c[j]
    <3>1. j \in 1..(1 + Len(b)) /\ j \in Nat
      BY <1>3, <2>1, <2>7
    <3>2. CASE j <= 1
      <4>1. j = 1 /\ i + j - 1 = i
        BY <1>3, <3>1, <3>2
      <4> QED BY <1>2, <2>2, <2>5, <3>1, <4>1
    <3>3. CASE ~(j <= 1)
      <4>1. j - 1 \in 1..Len(b) /\ i + (j - 1) = i + j - 1
        BY <1>3, <2>1, <3>1, <3>3
      <4> QED BY <2>2, <2>3, <2>5, <3>1, <3>3, <4>1
    <3> QED BY <3>2, <3>3
  <2> QED BY <1>4, <2>1, <2>5, <2>6, <2>7, SeqEqual
<1>6. lru' = <<h>> \o (a \o b)
  BY <1>2 DEF RemoveAt
<1> HIDE DEF a, b, c
<1>7. Lists(<<h>>) /\ Range(<<h>>) = {h} /\ Total(<<h>>) = Size[h] /\ <<h>> \in Seq(Hash)
  BY OneEntry
<1>8. Lists(a) /\ Lists(c) /\ Entries = Range(a) \cup Range(c) /\ Range(a) \cap Range(c) = {}
  BY <1>3, <1>4, Halves DEF Entries
<1>9. Lists(b) /\ Range(c) = {h} \cup Range(b) /\ {h} \cap Range(b) = {}
  BY <1>5, <1>7, <1>8, Halves DEF Lists
<1>10. Lists(a \o b) /\ Range(a \o b) = Range(a) \cup Range(b)
  BY <1>8, <1>9, Joined
<1>11. Lists(lru') /\ Entries' = Entries
  <2>1. Range(<<h>>) \cap Range(a \o b) = {}
    BY <1>7, <1>8, <1>9, <1>10
  <2>2. Lists(<<h>> \o (a \o b)) /\ Range(<<h>> \o (a \o b)) = Range(<<h>>) \cup Range(a \o b)
    BY <1>7, <1>10, <2>1, Joined
  <2> QED BY <1>6, <1>7, <1>8, <1>9, <1>10, <2>2 DEF Entries
<1>12. Total(lru') = Total(lru)
  <2>1. a \o b \in Seq(Hash) /\ Size[h] \in Nat
    BY <1>10, CacheAssumption DEF Lists
  <2>2. Total(lru) = Total(a) + Total(c) /\ Total(a) \in Nat
    BY <1>4, TotalsAdd
  <2>3. Total(c) = Size[h] + Total(b) /\ Total(b) \in Nat
    BY <1>5, <1>7, TotalsAdd
  <2>4. Total(a \o b) = Total(a) + Total(b)
    BY <1>4, <1>5, TotalsAdd
  <2>5. Total(lru') = Size[h] + Total(a \o b)
    BY <1>6, <1>7, <2>1, TotalsAdd
  <2> QED BY <2>1, <2>2, <2>3, <2>4, <2>5
<1> QED BY <1>1, <1>11, <1>12 DEF CacheInv, SizeExact, Settles, Flushed

\* NewCache lists what is in the database, all of it.
LEMMA NewCacheKeeps ==
  ASSUME CacheInv, NewCache
  PROVE  CacheInv'
<1>1. /\ open' /\ lru' \in SetToSeqs(db) /\ size' = Total(lru')
      /\ pendingPut' = {} /\ pendingDel' = {} /\ db' = db /\ maxSize' \in Nat
  BY CacheAssumption DEF NewCache
<1>2. db \subseteq Hash /\ IsFiniteSet(db)
  BY DEF CacheInv
<1> DEFINE D == 1..Cardinality(db)
<1>3. lru' \in [D -> db] /\ \A i, j \in D : i # j => lru'[i] # lru'[j]
  BY <1>1 DEF SetToSeqs
<1>4. Cardinality(db) \in Nat /\ IsFiniteSet(D) /\ Cardinality(D) = Cardinality(db)
  <2>1. Cardinality(db) \in Nat
    BY <1>2, FS_CardinalityType
  <2>2. Cardinality(db) = Cardinality(db) - 1 + 1
    BY <2>1
  <2> QED BY <2>1, <2>2, FS_Interval
<1>5. Lists(lru')
  <2>1. lru' \in Seq(db) /\ DOMAIN lru' = D
    BY <1>3, <1>4
  <2>2. lru' \in Seq(Hash)
    BY <1>2, <2>1
  <2> QED BY <1>3, <2>1, <2>2 DEF Lists, IsInjective
<1>6. Entries' = db
  <2>1. lru' \in Injection(D, db)
    BY <1>3 DEF Injection, IsInjective
  <2>2. lru' \in Surjection(D, db)
    BY <1>2, <1>4, <2>1, FS_Injection
  <2> QED BY <1>3, <2>2 DEF Surjection, Entries, Range
<1>7. IsFiniteSet({})
  BY FS_EmptySet
<1> QED BY <1>1, <1>2, <1>5, <1>6, <1>7 DEF CacheInv, SizeExact, Settles, Flushed

\* The database after Close is what there was of entries.
LEMMA CloseKeeps ==
  ASSUME CacheInv, Close
  PROVE  CacheInv'
<1>1. ~open' /\ db' = Flushed(pendingPut, pendingDel) /\ pendingPut' = {}
      /\ lru' = lru /\ maxSize' = maxSize
  BY DEF Close
<1>2. db \subseteq Hash /\ IsFiniteSet(db) /\ pendingPut \subseteq Hash /\ IsFiniteSet(pendingPut)
  BY DEF CacheInv
<1>3. IsFiniteSet(db')
  <2>1. IsFiniteSet(db \cup pendingPut)
    BY <1>2, FS_Union
  <2> QED BY <1>1, <2>1, FS_Difference DEF Flushed
<1>4. db' \subseteq Hash /\ IsFiniteSet({})
  BY <1>1, <1>2, FS_EmptySet DEF Flushed
<1> QED BY <1>1, <1>3, <1>4 DEF CacheInv, SizeExact, Settles

-----------------------------------------------------------------------------
LEMMA CacheInvStart ==
  ASSUME Init
  PROVE  CacheInv
<1>1. Lists(<<>>) /\ IsFiniteSet({}) /\ maxSize \in Nat
  BY NoEntry, FS_EmptySet, CacheAssumption DEF Init
<1> QED BY <1>1 DEF Init, CacheInv, SizeExact, Settles

LEMMA CacheInvStep ==
  ASSUME CacheInv, [Next]_vars
  PROVE  CacheInv'
<1>1. ASSUME NEW h \in Hash, Get(h) \/ Put(h) \/ PutTooLarge(h) PROVE CacheInv'
  BY <1>1, GetKeeps, PutKeeps, PutTooLargeKeeps
<1>2. CASE Crash
  BY <1>2 DEF Crash, CacheInv, SizeExact, Settles
<1>3. CASE UNCHANGED vars
  BY <1>3 DEF vars, CacheInv, SizeExact, Settles, Flushed, Entries
<1> QED BY <1>1, <1>2, <1>3, NewCacheKeeps, CloseKeeps DEF Next

LEMMA CacheInvAlways == Spec => []CacheInv
<1>1. Init => CacheInv
  BY CacheInvStart
<1>2. CacheInv /\ [Next]_vars => CacheInv'
  BY CacheInvStep
<1> QED BY <1>1, <1>2, PTL DEF Spec

(***************************************************************************)
(* Cache.size, by which Put evicts, is the length of the values that are   *)
(* listed, after every Put, eviction, restart and failed flush: it neither *)
(* drifts nor wraps.                                                       *)
(***************************************************************************)
THEOREM SizesAreExact == Spec => []SizeExact
<1>1. CacheInv => SizeExact
  BY DEF CacheInv
<1> QED BY <1>1, CacheInvAlways, PTL

(***************************************************************************)
(* What flushPending would write brings the database to the entries, also  *)
(* for a value that was evicted and added again before it was written.     *)
(***************************************************************************)
THEOREM PendingSettles == Spec => []Settles
<1>1. CacheInv => Settles
  BY DEF CacheInv
<1> QED BY <1>1, CacheInvAlways, PTL

(***************************************************************************)
(* Get finds a value for every entry, in pendingPut or in the database, so *)
(* that it never returns no bytes for a hash the cache has.                *)
(***************************************************************************)
THEOREM EntriesAreReadable == Spec => []Readable
<1>1. CacheInv => Readable
  BY DEF CacheInv, Settles, Flushed, Readable, Found
<1> QED BY <1>1, CacheInvAlways, PTL

(***************************************************************************)
(* A Put, whether it adds the value or finds it too large, leaves no more  *)
(* than maxSize, whatever the cache was opened with.                       *)
(***************************************************************************)
THEOREM PutsAreBounded == Spec => PutBounds
<1>1. CacheInv /\ [Next]_vars
        => [\A h \in Hash : Put(h) \/ PutTooLarge(h) => Total(lru') <= maxSize]_vars
  BY PutKeeps, PutTooLargeKeeps
<1> QED BY <1>1, CacheInvAlways, PTL DEF Spec, PutBounds
=============================================================================
