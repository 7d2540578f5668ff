-------------------------------- MODULE Cache --------------------------------
(***************************************************************************)
(* cstore/cache/cache.go: the store of chunks a cache daemon keeps on the  *)
(* local disk.  Its entries are listed in memory in the order of their use *)
(* (lruList with lruMap); a bolt database (external) holds their values.   *)
(* Values that were added and hashes that were evicted are collected in    *)
(* pendingPut and pendingDel and written in one transaction once there are *)
(* many of them, and on Close.                                             *)
(*                                                                         *)
(* A hash stands for its value: what is kept for it is either that value   *)
(* or nothing.  Every operation but Close holds Cache.lock; CacheDaemon    *)
(* shows that Close has the cache to itself.                               *)
(***************************************************************************)
EXTENDS Integers, Sequences, SequencesExt, FiniteSets, Functions, Sums

CONSTANTS
  Hash,
  Size,      \* the length of the value of each hash
  MaxSizes,  \* the sizes a daemon may be started with
  Limit      \* bound on what may be pending, for the 10000 of the code

ASSUME CacheAssumption ==
  /\ Size \in [Hash -> Nat]
  /\ MaxSizes \subseteq Nat
  /\ Limit \in Nat

VARIABLES
  open,        \* the cache is in use
  db,          \* the hashes in the database
  lru,         \* lruList, the entry used last first
  size,        \* Cache.size
  maxSize,
  pendingPut,
  pendingDel

vars == <<open, db, lru, size, maxSize, pendingPut, pendingDel>>

Entries == Range(lru)

\* The length of the values of a sequence of entries.
Total(s) == SumTo(Size, s, Len(s))

Init ==
  /\ open = FALSE
  /\ db = {}
  /\ lru = <<>>
  /\ size = 0
  /\ maxSize \in MaxSizes
  /\ pendingPut = {}
  /\ pendingDel = {}

\* Mutant of NewCache: what is in the database is not counted.
NewCacheUncounted ==
  /\ ~open
  /\ open' = TRUE
  /\ maxSize' \in MaxSizes
  /\ lru' \in SetToSeqs(db)
  /\ size' = 0
  /\ pendingPut' = {}
  /\ pendingDel' = {}
  /\ UNCHANGED db

\* NewCache lists what the database holds, in the order of the keys, and does
\* not drop what maxSize has no room for.
NewCache ==
  /\ ~open
  /\ open' = TRUE
  /\ maxSize' \in MaxSizes
  /\ lru' \in SetToSeqs(db)
  /\ size' = Total(lru')
  /\ pendingPut' = {}
  /\ pendingDel' = {}
  /\ UNCHANGED db

\* Get looks the value up in pendingPut and then in the database.
Get(h) ==
  /\ open
  /\ \E i \in DOMAIN lru : lru[i] = h /\ lru' = <<h>> \o RemoveAt(lru, i)
  /\ UNCHANGED <<open, db, size, maxSize, pendingPut, pendingDel>>

Found(h) == h \in pendingPut \cup db

\* What the transaction of flushPending leaves in the database.
Flushed(put, del) == (db \cup put) \ del

\* Mutant of Fits: room is made without regard to the new value.
FitsWithout(n, h) ==
  size - Total(SubSeq(lru, Len(lru) - n + 1, Len(lru))) <= maxSize

\* The loop of Put evicts the last n entries; they are n as soon as there is
\* room for h.
Fits(n, h) ==
  size - Total(SubSeq(lru, Len(lru) - n + 1, Len(lru))) + Size[h] <= maxSize

\* Mutant of Evict: what was evicted stays in the database.
EvictUnlisted(n) ==
  LET kept == Len(lru) - n
      gone == Range(SubSeq(lru, kept + 1, Len(lru)))
  IN  [lru  |-> SubSeq(lru, 1, kept),
       size |-> size - Total(SubSeq(lru, kept + 1, Len(lru))),
       put  |-> pendingPut \ gone,
       del  |-> pendingDel]

Evict(n) ==
  LET kept == Len(lru) - n
      gone == Range(SubSeq(lru, kept + 1, Len(lru)))
  IN  [lru  |-> SubSeq(lru, 1, kept),
       size |-> size - Total(SubSeq(lru, kept + 1, Len(lru))),
       put  |-> pendingPut \ gone,
       del  |-> pendingDel \cup gone]

\* Mutant of Added: an eviction of h that is still pending is not called off.
AddedDeleted(left, h) == [put |-> left.put \cup {h}, del |-> left.del]

Added(left, h) == [put |-> left.put \cup {h}, del |-> left.del \ {h}]

\* Put adds an entry that is not there; the write of what is pending, which
\* it may have to make, may fail and leaves it pending then.
Put(h) ==
  /\ open
  /\ h \notin Entries
  /\ \E n \in 0..Len(lru) :
       /\ Fits(n, h)
       /\ \A k \in 0..(n - 1) : ~Fits(k, h)
       /\ LET left == Evict(n)
              put  == Added(left, h).put
              del  == Added(left, h).del
          IN  /\ lru' = <<h>> \o left.lru
              /\ size' = left.size + Size[h]
              /\ \/ /\ pendingPut' = put
                    /\ pendingDel' = del
                    /\ UNCHANGED db
                 \/ /\ Cardinality(put) > Limit \/ Cardinality(del) > Limit
                    /\ db' = Flushed(put, del)
                    /\ pendingPut' = {}
                    /\ pendingDel' = {}
  /\ UNCHANGED <<open, maxSize>>

\* "value too large for cache", with every entry evicted.
PutTooLarge(h) ==
  /\ open
  /\ h \notin Entries
  /\ ~ \E n \in 0..Len(lru) : Fits(n, h)
  /\ LET left == Evict(Len(lru))
     IN  /\ lru' = left.lru
         /\ size' = left.size
         /\ pendingPut' = left.put
         /\ pendingDel' = left.del
  /\ UNCHANGED <<open, db, maxSize>>

Close ==
  /\ open
  /\ db' = Flushed(pendingPut, pendingDel)
  /\ pendingPut' = {}
  /\ pendingDel' = {}
  /\ open' = FALSE
  /\ UNCHANGED <<lru, size, maxSize>>

\* The daemon is killed, or the last flushPending fails and it exits.
Crash ==
  /\ open
  /\ open' = FALSE
  /\ UNCHANGED <<db, lru, size, maxSize, pendingPut, pendingDel>>

Next ==
  \/ NewCache \/ Close \/ Crash
  \/ \E h \in Hash : Get(h) \/ Put(h) \/ PutTooLarge(h)

Spec == Init /\ [][Next]_vars

-----------------------------------------------------------------------------
(***************************************************************************)
(* Every entry has its value.  Get does not tell a value that is missing   *)
(* from an empty one: for an entry without a value it would return no      *)
(* bytes, and no error.                                                    *)
(***************************************************************************)
Readable == open => \A h \in Entries : Found(h)

(***************************************************************************)
(* The size that decides about evictions is that of the entries.  It never *)
(* wraps below zero, which would evict everything on every Put.            *)
(***************************************************************************)
SizeExact == open => size = Total(lru)

(***************************************************************************)
(* What is pending brings the database to the entries: a value that was    *)
(* evicted and added again stays, one that was added and evicted does not. *)
(***************************************************************************)
Settles == open => Flushed(pendingPut, pendingDel) = Entries

(***************************************************************************)
(* A Put leaves no more than maxSize, even in a cache that was opened with *)
(* more than that.                                                         *)
(***************************************************************************)
PutBounds ==
  [][\A h \in Hash : Put(h) \/ PutTooLarge(h) => Total(lru') <= maxSize]_vars
=============================================================================
