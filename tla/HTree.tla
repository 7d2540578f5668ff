-------------------------------- MODULE HTree --------------------------------
(***************************************************************************)
(* htree/: how the bytes of a file become chunks of a bounded size, a tree *)
(* of them, and how they are read again; FileReader of fs/fs.go, which     *)
(* reads a file through it.                                                *)
(*                                                                         *)
(* A chunk stands for its own hash.  The data of a leaf are bytes, those   *)
(* of a chunk on a higher level are entries: a chunk of the level below    *)
(* and the offset of its first byte in the file.  The first byte of every  *)
(* chunk is its level.                                                     *)
(***************************************************************************)
EXTENDS Integers, Sequences

CONSTANTS
  LeafCap,   \* the bytes that fit into a leaf, for the 65534 of the code
  Fanout,    \* the entries that fit into another chunk, for the 1638
  MaxFile,   \* bound on the size of a file
  MaxBuf,    \* bound on the size of the buffers of Read and Write
  MaxRead    \* bound on what one Reader reads in all

ASSUME HTreeAssumption ==
  /\ LeafCap \in Nat \ {0}
  /\ Fanout \in Nat \ {0, 1}
  /\ MaxFile \in Nat /\ MaxBuf \in Nat /\ MaxRead \in Nat

Levels == 0..9   \* nlevels
NoFail == -1     \* every Get succeeds

\* The level whose Get fails; no tree of a file within the bounds is higher.
Fails == NoFail..3

Least(m, n) == IF m < n THEN m ELSE n

VARIABLES
  content,  \* the bytes written
  wr,       \* the Writer; its levels that are in use, from level 0 up
  rdr,      \* the Reader, once the tree is written; a sequence of at most one
  at,       \* FileReader.offset: where its user believes to be
  sought    \* whether Seek was called

vars == <<content, wr, rdr, at, sought>>

\* The bytes of a file are told apart by where they are.
Bytes(i, n) == [j \in 1..n |-> i + j]

-----------------------------------------------------------------------------
\* Mutant of FlushLvl: the offset is that of the bytes written last.
RECURSIVE FlushLvlLate(_, _)
FlushLvlLate(w, l) ==
  LET chunk == [lvl |-> l, data |-> w.lvls[l + 1]]
      full  == l + 2 <= Len(w.lvls) /\ Len(w.lvls[l + 2]) = Fanout
      v     == IF full THEN FlushLvlLate(w, l + 1) ELSE w
      ent   == [off |-> w.offset, chunk |-> chunk]
      lvls  == IF l + 2 <= Len(v.lvls)
               THEN [v.lvls EXCEPT ![l + 2] = Append(@, ent)]
               ELSE Append(v.lvls, <<ent>>)
  IN  [lvls   |-> [lvls EXCEPT ![l + 1] = <<>>],
       offset |-> IF l = 0 THEN v.offset + Len(chunk.data) ELSE v.offset]

(***************************************************************************)
(* flushLvl puts the chunk of a level and enters it into the next level,   *)
(* which is flushed first when it has no room.                             *)
(***************************************************************************)
RECURSIVE FlushLvl(_, _)
FlushLvl(w, l) ==
  LET chunk == [lvl |-> l, data |-> w.lvls[l + 1]]
      full  == l + 2 <= Len(w.lvls) /\ Len(w.lvls[l + 2]) = Fanout
      v     == IF full THEN FlushLvl(w, l + 1) ELSE w
      ent   == [off |-> IF l = 0 THEN w.offset ELSE chunk.data[1].off, chunk |-> chunk]
      lvls  == IF l + 2 <= Len(v.lvls)
               THEN [v.lvls EXCEPT ![l + 2] = Append(@, ent)]
               ELSE Append(v.lvls, <<ent>>)
  IN  [lvls   |-> [lvls EXCEPT ![l + 1] = <<>>],
       offset |-> IF l = 0 THEN v.offset + Len(chunk.data) ELSE v.offset]

\* Write fills the leaf and flushes it when there is more to come.
RECURSIVE WriteBuf(_, _)
WriteBuf(w, buf) ==
  LET n == Least(Len(buf), LeafCap - Len(w.lvls[1]))
  IN  IF buf = <<>> THEN w
      ELSE IF n = 0 THEN WriteBuf(FlushLvl(w, 0), buf)
      ELSE WriteBuf([w EXCEPT !.lvls[1] = @ \o SubSeq(buf, 1, n)], SubSeq(buf, n + 1, Len(buf)))

RECURSIVE FlushTo(_, _, _)
FlushTo(w, i, highest) ==
  IF i > highest THEN w ELSE FlushTo(FlushLvl(w, i), i + 1, highest)

\* Mutant of CloseWriter: a second entry of the top level is overlooked.
CloseWriterFirst(w) ==
  LET highest == Len(w.lvls) - 1
      top     == FlushTo(w, 0, highest).lvls[highest + 2]
  IN  [depth |-> highest, data |-> top[1].chunk]

(***************************************************************************)
(* Close flushes the levels in use.  The level above them has one entry,   *)
(* or two if the highest level in use had no room.                         *)
(***************************************************************************)
CloseWriter(w) ==
  LET highest == Len(w.lvls) - 1
      top     == FlushTo(w, 0, highest).lvls[highest + 2]
  IN  IF Len(top) = 1
      THEN [depth |-> highest, data |-> top[1].chunk]
      ELSE [depth |-> highest + 1, data |-> [lvl |-> highest + 1, data |-> top]]

-----------------------------------------------------------------------------
\* The Reader with the chunk c at its level; pos counts what was taken of it.
Loaded(r, c) ==
  [r EXCEPT !.buf[c.lvl] = c.data, !.pos[c.lvl] = 0]

NewReader(root) ==
  Loaded([root |-> root, height |-> root.lvl, offset |-> 0,
          buf |-> [l \in Levels |-> <<>>], pos |-> [l \in Levels |-> 0]], root)

AtEnd(r, l) == r.pos[l] >= Len(r.buf[l])

\* Mutant of Fetch: the position moves on before the Get.
FetchEarly(r, l, f) ==
  LET s == [r EXCEPT !.pos[l + 1] = @ + 1]
  IN  IF l = f
      THEN [out |-> "error", r |-> s]
      ELSE [out |-> "ok", r |-> Loaded(s, r.buf[l + 1][s.pos[l + 1]].chunk)]

\* The next chunk for level l, unless its Get is the one that fails (f).
Fetch(r, l, f) ==
  IF l = f
  THEN [out |-> "error", r |-> r]
  ELSE [out |-> "ok",
        r |-> [Loaded(r, r.buf[l + 1][r.pos[l + 1] + 1].chunk) EXCEPT !.pos[l + 1] = @ + 1]]

\* next
RECURSIVE NextChunk(_, _, _)
NextChunk(r, l, f) ==
  IF ~AtEnd(r, l + 1) THEN Fetch(r, l, f)
  ELSE IF l + 1 > r.height THEN [out |-> "eof", r |-> r]
  ELSE LET up == NextChunk(r, l + 1, f)
       IN  IF up.out = "ok" THEN Fetch(up.r, l, f) ELSE up

\* Read into a buffer of n bytes.
ReadBuf(r, n, f) ==
  LET next == IF AtEnd(r, 0) THEN NextChunk(r, 0, f) ELSE [out |-> "ok", r |-> r]
      s    == next.r
      m    == Least(n, Len(s.buf[0]) - s.pos[0])
  IN  IF next.out = "ok"
      THEN [out  |-> "ok",
            data |-> SubSeq(s.buf[0], s.pos[0] + 1, s.pos[0] + m),
            r    |-> [s EXCEPT !.pos[0] = @ + m, !.offset = @ + m]]
      ELSE [out |-> next.out, data |-> <<>>, r |-> s]

\* All that can be read from here.
RECURSIVE Rest(_)
Rest(r) ==
  LET got == ReadBuf(r, LeafCap, NoFail)
  IN  IF got.out = "ok" /\ got.data # <<>> THEN got.data \o Rest(got.r) ELSE <<>>

\* The entry of level l that Seek goes down to: the last one, or the first
\* whose successor starts behind the offset.
Entry(r, l, o) ==
  CHOOSE i \in 1..Len(r.buf[l]) :
    /\ i = Len(r.buf[l]) \/ o < r.buf[l][i + 1].off
    /\ \A j \in 1..(i - 1) : o >= r.buf[l][j + 1].off

RECURSIVE SeekDown(_, _, _, _, _)
SeekDown(r, l, o, curoff, f) ==
  LET i   == Entry(r, l, o)
      ent == r.buf[l][i]
      s   == [r EXCEPT !.pos[l] = i]
  IN  IF l = 0 THEN [out |-> "ok", curoff |-> curoff, r |-> r]
      ELSE IF f = l - 1 THEN [out |-> "error", curoff |-> curoff, r |-> s]
      ELSE SeekDown(Loaded(s, ent.chunk), l - 1, o, ent.off, f)

(***************************************************************************)
(* Seek goes from the root to the leaf and to the byte in it, or to its    *)
(* end.  It does nothing if the number of bytes read so far, which it does *)
(* not set, is the offset asked for.                                       *)
(***************************************************************************)
SeekTo(r, o, f) ==
  LET down == SeekDown(Loaded(r, r.root), r.height, o, 0, f)
      skip == o - down.curoff
      end  == Len(down.r.buf[0])
  IN  IF r.offset = o THEN [out |-> "ok", off |-> o, r |-> r]
      ELSE IF f = r.height THEN [out |-> "error", off |-> 0, r |-> r]
      ELSE IF down.out = "error" THEN [out |-> "error", off |-> 0, r |-> down.r]
      ELSE [out |-> "ok",
            off |-> IF skip > end THEN o - (skip - end) ELSE o,
            r   |-> [down.r EXCEPT !.pos[0] = Least(skip, end)]]

-----------------------------------------------------------------------------
Init ==
  /\ content = <<>>
  /\ wr = [lvls |-> << <<>> >>, offset |-> 0]
  /\ rdr = <<>>
  /\ at = 0
  /\ sought = FALSE

Write(n) ==
  /\ rdr = <<>>
  /\ Len(content) + n <= MaxFile
  /\ wr' = WriteBuf(wr, Bytes(Len(content), n))
  /\ content' = content \o Bytes(Len(content), n)
  /\ UNCHANGED <<rdr, at, sought>>

Open ==
  /\ rdr = <<>>
  /\ rdr' = <<NewReader(CloseWriter(wr).data)>>
  /\ UNCHANGED <<content, wr, at, sought>>

\* FileReader.Read; f is the level whose Get fails.
Read(n, f) ==
  /\ rdr # <<>>
  /\ rdr[1].offset + n <= MaxRead
  /\ LET got == ReadBuf(rdr[1], n, f)
     IN  /\ rdr' = <<got.r>>
         /\ at' = at + Len(got.data)
  /\ UNCHANGED <<content, wr, sought>>

(***************************************************************************)
(* FileReader.Seek, to the offset that whence and off make.  It is not     *)
(* negative: the one caller, net/http behind httpFile.Seek, seeks to the   *)
(* start, to the end and to the start of a range within the file.  (The    *)
(* conversion to uint64 would take a negative one for a huge offset.)      *)
(***************************************************************************)
Seek(o, f) ==
  /\ rdr # <<>>
  /\ LET got == SeekTo(rdr[1], o, f)
     IN  /\ rdr' = <<got.r>>
         /\ at' = got.off
  /\ sought' = TRUE
  /\ UNCHANGED <<content, wr>>

Next ==
  \/ \E n \in 1..MaxBuf : Write(n)
  \/ Open
  \/ \E n \in 1..MaxBuf, f \in Fails : Read(n, f)
  \/ \E o \in 0..(MaxFile + 1), f \in Fails : Seek(o, f)

Spec == Init /\ [][Next]_vars

-----------------------------------------------------------------------------
After(o) == SubSeq(content, o + 1, Len(content))

(***************************************************************************)
(* What was written, in whatever pieces, is what is read, and the depth    *)
(* that a directory entry records is that of the root chunk.               *)
(***************************************************************************)
RoundTrip ==
  LET root == CloseWriter(wr)
  IN  Rest(NewReader(root.data)) = content /\ root.depth = root.data.lvl

(***************************************************************************)
(* Bytes read one after the other are neither skipped nor repeated, also   *)
(* when a Get failed in between and the Read is tried again.               *)
(***************************************************************************)
ReadsInOrder == rdr # <<>> /\ ~sought => Rest(rdr[1]) = After(at)

(***************************************************************************)
(* A Seek that does move, to an offset that is not negative, lands where it*)
(* says, from wherever earlier reads, seeks and failed seeks have left the *)
(* Reader; behind the end, at the end.  It does not move if the offset is  *)
(* the number of bytes read so far (reader.go:42): after another Seek the  *)
(* Reader may be elsewhere, and ReadsWhereSought below does not hold.      *)
(***************************************************************************)
SeekLands ==
  rdr # <<>> =>
    \A o \in 0..(MaxFile + 1) :
      LET got == SeekTo(rdr[1], o, NoFail)
      IN  o # rdr[1].offset =>
            got.off = Least(o, Len(content)) /\ Rest(got.r) = After(got.off)

(***************************************************************************)
(* The bytes read after a Seek are those at the offset it returned.        *)
(***************************************************************************)
ReadsWhereSought ==
  [][\A o \in 0..(MaxFile + 1) : Seek(o, NoFail) => Rest(rdr'[1]) = After(at')]_vars
=============================================================================
