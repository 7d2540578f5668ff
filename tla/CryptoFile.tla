----------------------------- MODULE CryptoFile -----------------------------
(***************************************************************************)
(* cryptofile/: a file encrypted in counter mode.  Its first block is the  *)
(* initial counter; after the data come the byte 0x80 and zeros up to the  *)
(* end of a block.  Module Bpack writes and reads such files.              *)
(*                                                                         *)
(* The block cipher is external: a block on disk is the plain block with   *)
(* the counter it was encrypted under, and only that counter decrypts it.  *)
(***************************************************************************)
EXTENDS Integers, Sequences, SequencesExt

CONSTANTS
  Base,       \* the number of values of a byte, for 256
  BlockSize,  \* block.BlockSize()
  IVs,        \* the counters a file may start with
  BufSize     \* the largest buffer that is read into, for 65536

ASSUME CryptoAssumption ==
  /\ Base \in Nat \ {0, 1} /\ BlockSize \in Nat \ {0} /\ BufSize \in Nat \ {0}
  /\ IVs \subseteq [1..BlockSize -> 0..(Base - 1)]

Mark == Base \div 2   \* 0x80
Garbage == -1         \* a byte decrypted under a wrong counter

VARIABLES
  content,  \* the bytes written
  blocks,   \* the blocks on disk, after the first
  wbuf,     \* Writer.buf[:nbuf]
  wctr,     \* Writer.ctr.Vec
  iv        \* the first block of the file

fileVars == <<content, blocks, wbuf, wctr, iv>>

Least(m, n) == IF m < n THEN m ELSE n

-----------------------------------------------------------------------------
\* Mutant of CarryInto: the carry is dropped.
CarryLost(newb) == 0

CarryInto(newb) == (newb \div Base) % 2

\* ctrState.Add: val is added from the last byte of the counter to the first.
RECURSIVE AddFrom(_, _, _, _)
AddFrom(vec, pos, val, carry) ==
  IF pos = 0 \/ (val = 0 /\ carry = 0) THEN vec
  ELSE LET newb == vec[pos] + (val % Base) + carry
       IN  AddFrom([vec EXCEPT ![pos] = newb % Base], pos - 1, val \div Base, CarryInto(newb))

AddCtr(vec, val) == AddFrom(vec, BlockSize, val, 0)

Encrypted(vec, plain) == [ctr |-> vec, plain |-> plain]

Decrypted(vec, b) ==
  IF b.ctr = vec THEN b.plain ELSE [i \in 1..BlockSize |-> Garbage]

-----------------------------------------------------------------------------
FileInit ==
  /\ content = <<>>
  /\ blocks = <<>>
  /\ wbuf = <<>>
  /\ iv \in IVs
  /\ wctr = iv

\* Writer.Write encrypts a block whenever the buffer is full.
RECURSIVE WriteAll(_, _)
WriteAll(w, buf) ==
  LET n    == Least(BlockSize - Len(w.buf), Len(buf))
      full == w.buf \o SubSeq(buf, 1, n)
  IN  IF Len(full) # BlockSize THEN [w EXCEPT !.buf = full]
      ELSE WriteAll([buf |-> <<>>,
                     out |-> Append(w.out, Encrypted(w.ctr, full)),
                     ctr |-> AddCtr(w.ctr, 1)],
                    SubSeq(buf, n + 1, Len(buf)))

\* The writer after one Write for each of the given buffers.
AfterWrites(bufs) == FoldLeft(WriteAll, [buf |-> wbuf, out |-> blocks, ctr |-> wctr], bufs)

Write(bufs) ==
  /\ LET w == AfterWrites(bufs) IN wbuf' = w.buf /\ blocks' = w.out /\ wctr' = w.ctr
  /\ content' = content \o FlattenSeq(bufs)
  /\ UNCHANGED iv

\* Mutant of Padding: the zeros come first.
PaddingLast(n) == [i \in 1..(BlockSize - n) |-> IF i = BlockSize - n THEN Mark ELSE 0]

Padding(n) == [i \in 1..(BlockSize - n) |-> IF i = 1 THEN Mark ELSE 0]

\* The last writes and Writer.Close.
WriteAndClose(bufs) ==
  /\ LET w == AfterWrites(bufs)
     IN  blocks' = Append(w.out, Encrypted(w.ctr, w.buf \o Padding(Len(w.buf))))
  /\ wbuf' = <<>>
  /\ wctr' = iv
  /\ content' = content \o FlattenSeq(bufs)
  /\ UNCHANGED iv

-----------------------------------------------------------------------------
\* Reader.size counts the padding.
Size == Len(blocks) * BlockSize

\* The blocks from number b on, n of them, under the counters from vec on.
RECURSIVE Plain(_, _, _)
Plain(vec, b, n) ==
  IF n = 0 THEN <<>>
  ELSE Decrypted(vec, blocks[b + 1]) \o Plain(AddCtr(vec, 1), b + 1, n - 1)

\* Everything before the last 0x80.
Unpadded(s) ==
  LET last == CHOOSE i \in 1..Len(s) : s[i] = Mark /\ \A j \in (i + 1)..Len(s) : s[j] # Mark
  IN  SubSeq(s, 1, last - 1)

(***************************************************************************)
(* readBlocks with a buffer of n bytes: its error and the bytes it counts. *)
(* ok says whether the file below can be read, its Seek and ReadFull.      *)
(***************************************************************************)
ReadBlocks(b, n, ok) ==
  IF b * BlockSize >= Size THEN [err |-> "eof", data |-> <<>>]
  ELSE IF ~ok THEN [err |-> "failed", data |-> <<>>]
  ELSE LET len  == Least(n, Size - b * BlockSize)
           buf  == Plain(AddCtr(iv, b), b, len \div BlockSize)
           data == IF b * BlockSize + len = Size THEN Unpadded(buf) ELSE buf
       IN  [err |-> IF data = <<>> THEN "eof" ELSE "none", data |-> data]

\* Reader.Size reads the last block to find out how long it is.
DataSize ==
  Size - BlockSize + Len(ReadBlocks((Size \div BlockSize) - 1, BlockSize, TRUE).data)

RoundUp(n) == IF n % BlockSize = 0 THEN n ELSE n + BlockSize - (n % BlockSize)


\* How much Read asks for, to get n bytes that start within a block.
BufferFor(shift, n) == RoundUp(n + shift)

(***************************************************************************)
(* Reader.Read of n bytes at an offset.  The bytes before the offset are   *)
(* sliced off the blocks before the error of readBlocks is looked at: the  *)
(* slice is out of range, and Read panics, when there are fewer bytes.     *)
(***************************************************************************)
Read(offset, n, ok) ==
  LET shift == offset % BlockSize
      got   == ReadBlocks(offset \div BlockSize, BufferFor(shift, n), ok)
      data  == SubSeq(got.data, shift + 1, Least(Len(got.data), shift + n))
      err   == IF data = <<>> /\ got.err = "none" THEN "eof" ELSE got.err
  IN  IF n = 0 THEN [err |-> "none", data |-> <<>>]
      ELSE IF shift > Len(got.data) THEN [err |-> "panic", data |-> <<>>]
      ELSE [err |-> err, data |-> data]

\* Where Reader.Seek goes.
SeekTo(to) == IF to < 0 THEN 0 ELSE Least(to, Size)

-----------------------------------------------------------------------------
(***************************************************************************)
(* No two blocks of a file are encrypted under the same counter, also when *)
(* the counter wraps around.                                               *)
(***************************************************************************)
CountersDiffer ==
  \A i, j \in 1..Len(blocks) : blocks[i].ctr = blocks[j].ctr => i = j
=============================================================================
