-------------------------------- MODULE Bpack --------------------------------
(***************************************************************************)
(* bpack/: an encrypted pack file.  Values come first, one after the other,*)
(* then an index of their keys, sizes and offsets in the order of the keys,*)
(* and at the very end the offset of the index.  Numbers are written in a  *)
(* fixed number of bytes, lowest first.  All of it goes through the        *)
(* encrypted file of module CryptoFile (NewEncryptedWriter and             *)
(* NewEncryptedReader).                                                    *)
(***************************************************************************)
EXTENDS CryptoFile

CONSTANTS
  Word,    \* the bytes of writeUInt64, for 8
  Short,   \* the bytes of writeUInt24, for 3
  Key,     \* keys, as single bytes
  MaxVal   \* bound on the length of values, above MaxPackEntrySize

ASSUME BpackAssumption ==
  /\ Word \in Nat \ {0} /\ Short \in Nat \ {0}
  /\ Key \subseteq 0..(Base - 1)
  /\ MaxVal \in Nat

MaxPackEntrySize == Base^Short - 1

VARIABLES
  index,  \* Writer.index
  mode,   \* the pack is "open" for writing, "closed", or its index is "loaded";
          \* or the last try at that "failed" or ended in a "panic"
  idx,    \* Reader.Idx
  added   \* the values that Add accepted, by key

vars == <<fileVars, index, mode, idx, added>>

\* A number in w bytes, and the number in the w bytes of s after position p.
Bytes(n, w) == [i \in 1..w |-> (n \div Base^(i - 1)) % Base]

Number(s, p, w) == FoldLeft(LAMBDA n, i : n + s[p + i] * Base^(i - 1), 0, [i \in 1..w |-> i])

Init ==
  /\ FileInit
  /\ index = <<>>
  /\ mode = "open"
  /\ idx = <<>>
  /\ added = [k \in {} |-> <<>>]

-----------------------------------------------------------------------------
\* Mutant of Entry: the offset is that of the end of the value.
EntryAfter(k, val) == [key |-> k, size |-> Len(val), offset |-> Len(content) + Len(val)]

Entry(k, val) == [key |-> k, size |-> Len(val), offset |-> Len(content)]

\* Writer.Add; a key that was added before keeps its value, and a value that
\* is too large is refused.
Add(k, val) ==
  /\ mode = "open"
  /\ k \notin DOMAIN added
  /\ Len(val) <= MaxPackEntrySize
  /\ Write(<<val>>)
  /\ index' = Append(index, Entry(k, val))
  /\ added' = [j \in DOMAIN added \cup {k} |-> IF j = k THEN val ELSE added[j]]
  /\ UNCHANGED <<mode, idx>>

AddIgnored(k, val) ==
  /\ mode = "open"
  /\ k \in DOMAIN added \/ Len(val) > MaxPackEntrySize
  /\ UNCHANGED vars

Sorted(ix) == SortSeq(ix, LAMBDA e, f : e.key < f.key)

\* WriteIndex: writeSlice of the key, its length first, then size and offset,
\* each with a Write of its own.
EntryBytes(e) ==
  <<Bytes(1, Short), <<e.key>>, Bytes(e.size, Short), Bytes(e.offset, Word)>>

WriteIndex(ix) ==
  FoldLeft(LAMBDA out, e : out \o EntryBytes(e), <<Bytes(Len(ix), Word)>>, Sorted(ix))

\* Mutant of Close: the index is sorted in a copy.
CloseCopy ==
  /\ mode = "open"
  /\ WriteAndClose(Append(WriteIndex(index), Bytes(Len(content), Word)))
  /\ mode' = "closed"
  /\ UNCHANGED <<index, idx, added>>

Close ==
  /\ mode = "open"
  /\ WriteAndClose(Append(WriteIndex(index), Bytes(Len(content), Word)))
  /\ index' = Sorted(index)
  /\ mode' = "closed"
  /\ UNCHANGED <<idx, added>>

-----------------------------------------------------------------------------
\* GetAt: Seek and ReadFull, which one Read serves; a short one is an error.
GetAt(offset, sz, ok) ==
  LET got == Read(SeekTo(offset), sz, ok)
  IN  IF got.err = "none" /\ Len(got.data) < sz THEN [got EXCEPT !.err = "eof"] ELSE got

\* All that a bufio.Reader gets from an offset on.
RECURSIVE Buffered(_)
Buffered(offset) ==
  LET buf == Read(offset, BufSize, TRUE).data
  IN  IF buf = <<>> THEN <<>> ELSE buf \o Buffered(offset + Len(buf))

\* ReadIndex: n entries of s from position p on.
RECURSIVE ReadEntries(_, _, _)
ReadEntries(s, p, n) ==
  IF n = 0 THEN <<>>
  ELSE LET len == Number(s, p, Short)
           q   == p + Short + len
       IN  <<[key |-> s[p + Short + 1], size |-> Number(s, q, Short),
              offset |-> Number(s, q + Short, Word)]>>
             \o ReadEntries(s, q + Short + Word, n - 1)

ReadIndex(s) == ReadEntries(s, Word, Number(s, 0, Word))

\* Where Reader.ReadIndex finds the index: through the end of the file.
IndexOffset == SeekTo(Number(GetAt(DataSize - Word, Word, TRUE).data, 0, Word))

\* NewEncryptedReader and Reader.ReadIndex.
Load ==
  /\ mode # "open"
  /\ idx' = ReadIndex(Buffered(IndexOffset))
  /\ mode' = "loaded"
  /\ UNCHANGED <<fileVars, index, added>>

(***************************************************************************)
(* One of the reads of Load fails: that of the counter or of Size, which   *)
(* return the error, that of the offset of the index, or one of those that *)
(* fill the bufio.Reader.  The Reader is dropped, with what it has read.   *)
(***************************************************************************)
LoadFailures ==
  LET size  == DataSize
      start == IndexOffset
      fills == {at \in start..(size - 1) : (at - start) % BufSize = 0}
  IN  {"failed", GetAt(size - Word, Word, FALSE).err}
        \cup {Read(at, BufSize, FALSE).err : at \in fills}

LoadFails ==
  /\ mode # "open"
  /\ mode' \in LoadFailures
  /\ idx' = <<>>
  /\ UNCHANGED <<fileVars, index, added>>

\* Index.Search between lo and hi, which count from 1; none is the empty set.
RECURSIVE SearchIn(_, _, _)
SearchIn(k, lo, hi) ==
  IF lo > hi THEN {}
  ELSE LET mid == (lo + hi) \div 2
       IN  IF k < idx[mid].key THEN SearchIn(k, lo, mid - 1)
           ELSE IF k > idx[mid].key THEN SearchIn(k, mid + 1, hi)
           ELSE {mid}

\* Mutant of Search: the last entry is left out.
SearchShort(k) == SearchIn(k, 1, Len(idx) - 1)

Search(k) == SearchIn(k, 1, Len(idx))

\* Reader.Get: what GetAt returns for a key, or nothing for NotFound.
Get(k, ok) == {GetAt(idx[i].offset, idx[i].size, ok) : i \in Search(k)}

Next ==
  \/ \E k \in Key, n \in 0..MaxVal :
       LET val == [i \in 1..n |-> k] IN Add(k, val) \/ AddIgnored(k, val)
  \/ Close
  \/ Load
  \/ LoadFails

Spec == Init /\ [][Next]_vars

-----------------------------------------------------------------------------
(***************************************************************************)
(* cryptofile.Reader.Size, which tells bpack where the offset of the index *)
(* is, finds the number of bytes written, whatever the data end with.      *)
(***************************************************************************)
SizeFound == mode # "open" => DataSize = Len(content)


(***************************************************************************)
(* A pack that was written and read again gives back every value that was  *)
(* added under its key, and NotFound for every other key.  When the file   *)
(* cannot be read, Get of a key returns without an error exactly when the  *)
(* value is empty and there is nothing to read.                            *)
(***************************************************************************)
GetsAdded ==
  mode = "loaded" =>
    \A k \in Key :
      /\ Get(k, TRUE) =
           IF k \in DOMAIN added THEN {[err |-> "none", data |-> added[k]]} ELSE {}
      /\ \A got \in Get(k, FALSE) : got.err = "none" <=> added[k] = <<>>

(***************************************************************************)
(* A load of an index that cannot read the pack returns the error.         *)
(***************************************************************************)
LoadNeverPanics == mode # "panic"

(***************************************************************************)
(* The index Close returns, which cstore writes to a file of its own, is   *)
(* read back from there as the index a Reader finds in the pack.           *)
(***************************************************************************)
CachedIndexSame ==
  mode = "loaded" => idx = index /\ ReadIndex(FlattenSeq(WriteIndex(index))) = idx
=============================================================================
