----------------------------- MODULE PackReader -----------------------------
(***************************************************************************)
(* cstore.Reader (cstore/reader.go) and the files it has open on the       *)
(* remote (Open, nextFid and freeFid of remote/client/client.go, and       *)
(* file.go).  The packs read last stay open in a list.  Reader.lock makes  *)
(* a Get one step; nobody else opens files over the connection.            *)
(*                                                                         *)
(* The server (external) has a table of the files a client opened, by fid. *)
(***************************************************************************)
EXTENDS Naturals, Sequences, SequencesExt, FiniteSets

CONSTANTS
  Pack,      \* the packs in the metaIndex
  Listing,   \* the file "packs", which lists them
  MaxOpen,   \* the packs that stay open, for 5
  MaxFid,    \* the largest fid, for 2^32 - 1
  MaxLeaks,  \* bound on the opens that fail halfway
  Reuses     \* whether a Reader is used after its Close, as rm does that retries

ASSUME PackReaderAssumption ==
  /\ Listing \notin Pack
  /\ MaxOpen \in Nat \ {0}
  /\ MaxLeaks \in Nat
  /\ MaxFid \in Nat
  /\ Reuses \in BOOLEAN

VARIABLES
  lru,     \* Reader.lru, the pack used last first
  fids,    \* Client.fids
  server,  \* what the server has open
  leaks,   \* the opens that failed halfway
  got      \* the last Get: the pack it wanted and the file it read

vars == <<lru, fids, server, leaks, got>>

Fid == 1..MaxFid

Init ==
  /\ lru = <<>>
  /\ fids = {}
  /\ server = <<>>
  /\ leaks = 0
  /\ got = <<>>

\* Mutant of NextFid: the number of files that are open is taken.
NextFidCount == Cardinality(fids) + 1

\* nextFid: fidCount is never advanced, so it is the lowest one that is free.
\* Where there is none, Open fails and so does the Get.
NextFid == CHOOSE f \in Fid \ fids : \A g \in Fid \ fids : f <= g

Opened(table, fid, file) ==
  [f \in DOMAIN table \cup {fid} |-> IF f = fid THEN file ELSE table[f]]

Closed(table, fid) == [f \in DOMAIN table \ {fid} |-> table[f]]

-----------------------------------------------------------------------------
\* GetAt: the server refuses to read what it has not open.
Read(p, fid, table) == IF fid \in DOMAIN table THEN <<p, table[fid]>> ELSE <<>>

\* Get of a value in a pack that is in the list.
GetOpen(i) ==
  /\ lru' = <<lru[i]>> \o RemoveAt(lru, i)
  /\ got' = Read(lru[i].pack, lru[i].fid, server)
  /\ UNCHANGED <<fids, server, leaks>>

\* Mutant of Evicted: the pack is forgotten and stays open.
EvictedOpen(list, open, table) ==
  IF Len(list) <= MaxOpen THEN [lru |-> list, fids |-> open, server |-> table]
  ELSE [lru |-> Front(list), fids |-> open \ {Last(list).fid}, server |-> table]

\* getPackReader closes the pack at the back when there are too many.
Evicted(list, open, table) ==
  IF Len(list) <= MaxOpen THEN [lru |-> list, fids |-> open, server |-> table]
  ELSE [lru |-> Front(list), fids |-> open \ {Last(list).fid},
        server |-> Closed(table, Last(list).fid)]

\* Get of a value in another pack, which is opened first.
GetOther(p) ==
  /\ \A i \in 1..Len(lru) : lru[i].pack # p
  /\ fids # Fid
  /\ LET f     == NextFid
         table == Opened(server, f, p)
         left  == Evicted(<<[pack |-> p, fid |-> f]>> \o lru, fids \cup {f}, table)
     IN  /\ lru' = left.lru
         /\ fids' = left.fids
         /\ server' = left.server
         /\ got' = Read(p, f, left.server)
  /\ UNCHANGED leaks

\* NewEncryptedReader could not read the file, which nobody closes.
GetFails(p) ==
  /\ \A i \in 1..Len(lru) : lru[i].pack # p
  /\ fids # Fid
  /\ leaks < MaxLeaks
  /\ leaks' = leaks + 1
  /\ fids' = fids \cup {NextFid}
  /\ server' = Opened(server, NextFid, p)
  /\ got' = <<>>
  /\ UNCHANGED lru

\* ListPacks, for a hash that is not in the metaIndex: open, read and close.
Reload ==
  /\ fids # Fid
  /\ server' = Closed(Opened(server, NextFid, Listing), NextFid)
  /\ UNCHANGED <<lru, fids, leaks, got>>

\* Reader.Close leaves the list as it is.  A new Reader over the same
\* connection has another.
CloseReader ==
  /\ fids' = fids \ {lru[i].fid : i \in 1..Len(lru)}
  /\ server' = [f \in DOMAIN server \ {lru[i].fid : i \in 1..Len(lru)} |-> server[f]]
  /\ lru' \in {<<>>} \cup (IF Reuses THEN {lru} ELSE {})
  /\ UNCHANGED <<leaks, got>>

Next ==
  \/ \E i \in 1..Len(lru) : GetOpen(i)
  \/ \E p \in Pack : GetOther(p) \/ GetFails(p)
  \/ Reload
  \/ CloseReader

Spec == Init /\ [][Next]_vars

-----------------------------------------------------------------------------
(***************************************************************************)
(* Get reads the pack that the metaIndex names: a fid that was given back  *)
(* and taken again never stands for two packs, whichever opens failed and  *)
(* although fids run out.  It holds for Readers that are not used after    *)
(* their Close (~Reuses); rm that retries uses its own, and breaks it.     *)
(***************************************************************************)
ReadsOwnPack == got # <<>> => got[1] = got[2]

(***************************************************************************)
(* Between two Gets the server has no more files open than the list allows *)
(* and the opens that failed halfway.  Within a Get there may be one more: *)
(* getPackReader opens the new pack before it closes the one at the back.  *)
(***************************************************************************)
FilesBounded == Cardinality(DOMAIN server) <= MaxOpen + leaks
=============================================================================
