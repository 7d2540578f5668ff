-------------------------------- MODULE P9 ----------------------------------
(***************************************************************************)
(* cmd/bpy/p9: the 9P server that shows the drive as a read only file      *)
(* system.  server9/server.go keeps the fids of a connection and hands     *)
(* every request to the handle of its fid; files.go has the handles: of    *)
(* the root, which looks for a new tree when its own is older than 30      *)
(* seconds, of the directories and of the files below it.                  *)
(*                                                                         *)
(* A connection has its own store, client and server and its requests are  *)
(* handled one after the other, so a request is one step; the drive is     *)
(* changed by others between two of them.  The tree of a drive is a        *)
(* function from paths to nodes.  Stats and messages are their lengths.    *)
(***************************************************************************)
EXTENDS Naturals, Sequences, Functions, Sums

CONSTANTS
  Fid, NOFID,
  Trees,          \* what the drive may hold
  StatLen,        \* the length of a directory entry, by its name
  Walks,          \* the names that clients walk
  Offers,         \* the message sizes that they offer
  Counts,         \* the numbers of bytes that they want to read
  Renegotiates,   \* whether they send Tversion with fids in use
  MaxMessageSize,
  ReadOverhead,   \* the length of an empty Rread
  OtherLen,       \* the length of the other replies
  Word,           \* 2^32
  MaxAttach,      \* bound on the file systems of a connection
  MaxPath         \* bound on their pathCounter

Node == [dir : BOOLEAN, ents : Seq(DOMAIN StatLen), size : Nat]

ASSUME P9Assumption ==
  /\ NOFID \notin Fid
  /\ \A t \in Trees :
       /\ <<>> \in DOMAIN t
       /\ \A p \in DOMAIN t :
            /\ t[p] \in Node
            /\ \A i \in DOMAIN t[p].ents : Append(p, t[p].ents[i]) \in DOMAIN t
  /\ StatLen \in [DOMAIN StatLen -> Nat \ {0}]
  /\ Walks \subseteq Seq(STRING)
  /\ Offers \subseteq Nat /\ Counts \subseteq Nat
  /\ Word \in Nat
  /\ {MaxMessageSize, ReadOverhead, OtherLen} \subseteq 0..(Word - 1)
  /\ ReadOverhead <= OtherLen
  /\ Renegotiates \in BOOLEAN

VARIABLES
  conn,   \* the connection: open, or why it ended
  neg,    \* srv.negMessageSize
  fids,   \* srv.fids, a function from the fids in use to handles
  fss,    \* the file systems that were attached
  drive,  \* the tree of the drive's root
  told    \* the fids in use, as the replies tell the client

vars == <<conn, neg, fids, fss, drive, told>>

Lesser(m, n) == IF m < n THEN m ELSE n

-----------------------------------------------------------------------------
(***************************************************************************)
(* Files.  A file is known by the names that lead to it from the root file *)
(* of a file system, and has the qids of all files on this way.            *)
(***************************************************************************)
NodeOf(f) == f.tree[f.names]

QidOf(f) == f.qids[Len(f.qids)]

Parent(f) ==
  [f EXCEPT !.names = SubSeq(@, 1, Len(@) - 1), !.qids = SubSeq(@, 1, Len(@) - 1)]

\* A qid of what pathCounter was before it.
ChildBefore(f, i, n, version) ==
  [f EXCEPT !.names = Append(@, NodeOf(f).ents[i]),
            !.qids = Append(@, [path |-> n + i - 1, version |-> version])]

\* getChildren: CreateFile for the i-th entry of f; pathCounter was n.
Child(f, i, n, version) ==
  [f EXCEPT !.names = Append(@, NodeOf(f).ents[i]),
            !.qids = Append(@, [path |-> n + i, version |-> version])]

\* The root file of the file system s, the k-th of the connection.
RootFile(k, s) == [at |-> k, tree |-> s.tree, names |-> <<>>, qids |-> <<s.qid>>]

-----------------------------------------------------------------------------
\* A file system whose root file is made for the tree of the drive.
Loaded(s) ==
  [tree |-> drive, qid |-> [path |-> s.path + 1, version |-> s.version],
   path |-> s.path + 1, version |-> s.version + 1, fresh |-> TRUE]

NewFs == Loaded([path |-> 0, version |-> 0])

(***************************************************************************)
(* update: the file systems it may leave.  Finding the same root again     *)
(* does not set lastUpdated.                                               *)
(***************************************************************************)
Updated(s) == IF s.fresh \/ s.tree = drive THEN s ELSE Loaded(s)

-----------------------------------------------------------------------------
(***************************************************************************)
(* Handles.  The last three fields are what the client has listed of a     *)
(* directory, what it listed there was when it began, and whether it read  *)
(* at offset 0 again since.                                                *)
(***************************************************************************)
NewHandle(kind, f) ==
  [kind |-> kind, file |-> f, offset |-> 0, stats |-> <<>>, open |-> FALSE,
   listed |-> <<>>, whole |-> <<>>, rewound |-> FALSE]

RootHandle(k) == NewHandle("root", [at |-> k])
FileHandle(f) == NewHandle(IF NodeOf(f).dir THEN "dir" ELSE "file", f)

TypeOK ==
  /\ conn \in {"open", "closed", "short", "panic"}
  /\ neg \in 0..MaxMessageSize
  /\ DOMAIN fids \subseteq Fid
  /\ \A g \in DOMAIN fids :
       /\ fids[g].kind \in {"root", "dir", "file"}
       /\ fids[g].file.at \in 1..Len(fss)
       /\ fids[g].offset \in Nat /\ fids[g].stats \in Seq(DOMAIN StatLen)
       /\ fids[g].kind # "root" => fids[g].file.names \in DOMAIN fids[g].file.tree
  /\ \A k \in 1..Len(fss) :
       /\ fss[k].tree \in Trees /\ fss[k].fresh \in BOOLEAN
       /\ fss[k].path \in Nat /\ fss[k].version \in Nat
  /\ drive \in Trees
  /\ told \subseteq Fid

Init ==
  /\ conn = "open"
  /\ neg = MaxMessageSize
  /\ fids = <<>>
  /\ fss = <<>>
  /\ drive \in Trees
  /\ told = {}

\* WriteMsg: a reply that does not fit in outbuf ends the connection.
Reply(len, size) == conn' = IF len <= size THEN "open" ELSE "short"

Error == Reply(OtherLen, neg)

\* A request that is answered with an error and changes nothing: with a bad
\* tag or fid, an attach that fails, a read of a file that fails, Tauth, and
\* all that would write.
Refuse ==
  /\ conn = "open"
  /\ Error
  /\ UNCHANGED <<neg, fids, fss, drive, told>>

\* Mutant of Version: the size the client offers is taken.
VersionUncapped(size) ==
  /\ conn = "open"
  /\ Renegotiates \/ DOMAIN fids = {}
  /\ neg' = size
  /\ told' = {}
  /\ Reply(OtherLen, neg')
  /\ UNCHANGED <<fids, fss, drive>>

\* Tversion keeps the fids, which end with the session for the client.
Version(size) ==
  /\ conn = "open"
  /\ Renegotiates \/ DOMAIN fids = {}
  /\ neg' = Lesser(size, MaxMessageSize)
  /\ told' = {}
  /\ Reply(OtherLen, neg')
  /\ UNCHANGED <<fids, fss, drive>>

-----------------------------------------------------------------------------
\* AddFid
Addable(fid) == fid # NOFID /\ fid \notin DOMAIN fids

\* The fids when fid has the handle h.
WithFid(fid, h) == [g \in DOMAIN fids \cup {fid} |-> IF g = fid THEN h ELSE fids[g]]

Attach(fid) ==
  /\ conn = "open"
  /\ Len(fss) < MaxAttach
  /\ Addable(fid)
  /\ fss' = Append(fss, NewFs)
  /\ fids' = WithFid(fid, RootHandle(Len(fss) + 1))
  /\ told' = told \cup {fid}
  /\ Reply(OtherLen, neg)
  /\ UNCHANGED <<neg, drive>>

\* The file system of a handle when its request gets to it.
FsOf(h) == IF h.kind = "root" THEN Updated(fss[h.file.at]) ELSE fss[h.file.at]

\* The file a request is about.
FileOf(h) ==
  IF h.kind = "root" THEN RootFile(h.file.at, FsOf(h)) ELSE h.file

-----------------------------------------------------------------------------
(***************************************************************************)
(* Walk: one name of it.  It goes on from w.file, with the qid of the      *)
(* directory that is left for a child.  An absent child is an error        *)
(* wherever it is met, a file in place of a directory only at first.  The  *)
(* root file has no parent to ask for its qid.                             *)
(***************************************************************************)
WalkName(w, name, i) ==
  LET node == NodeOf(w.file)
      made == [w EXCEPT !.path = @ + Len(node.ents)]
      here == {j \in DOMAIN node.ents : node.ents[j] = name}
  IN  IF w.end # "no" THEN w
      ELSE IF name = "." THEN [w EXCEPT !.end = "error"]
      ELSE IF name = ".." /\ w.file.names = <<>> THEN [w EXCEPT !.end = "panic"]
      ELSE IF name = ".." THEN
        [w EXCEPT !.file = Parent(@), !.wqids = Append(@, QidOf(Parent(w.file)))]
      ELSE IF ~node.dir THEN [w EXCEPT !.end = IF i = 1 THEN "error" ELSE "partly"]
      ELSE IF here = {} THEN [made EXCEPT !.end = "error"]
      ELSE [made EXCEPT !.file = Child(w.file, CHOOSE j \in here : TRUE, w.path, w.version),
                        !.wqids = Append(@, QidOf(w.file))]

Walked(f, names, s) ==
  LET walk[i \in 0..Len(names)] ==
        IF i = 0 THEN [end |-> "no", file |-> f, wqids |-> <<>>,
                       path |-> s.path, version |-> s.version]
        ELSE WalkName(walk[i - 1], names[i], i)
  IN  walk[Len(names)]

\* A walk that ends early keeps the file it has come to.
WalkPartlyAdds(fid, newfid, names) ==
  LET h     == fids[fid]
      w     == Walked(FileOf(h), names, FsOf(h))
      added == w.end \in {"no", "partly"} /\ (newfid = fid \/ Addable(newfid))
      rwalk == added \/ w.end = "partly"
  IN  /\ conn = "open"
      /\ fid \in DOMAIN fids
      /\ fss' = [fss EXCEPT ![h.file.at] = [FsOf(h) EXCEPT !.path = w.path]]
      /\ fids' = IF added THEN WithFid(newfid, FileHandle(w.file)) ELSE fids
      /\ told' = IF rwalk /\ Len(w.wqids) = Len(names) THEN told \cup {newfid} ELSE told
      /\ IF w.end = "panic" THEN conn' = "panic" ELSE Reply(OtherLen, neg)
      /\ UNCHANGED <<neg, drive>>

(***************************************************************************)
(* Twalk.  There is a new fid when the walk came to its end, and the       *)
(* client knows by a qid for every name.                                   *)
(***************************************************************************)
Walk(fid, newfid, names) ==
  LET h     == fids[fid]
      w     == Walked(FileOf(h), names, FsOf(h))
      added == w.end = "no" /\ (newfid = fid \/ Addable(newfid))
      rwalk == added \/ w.end = "partly"
  IN  /\ conn = "open"
      /\ fid \in DOMAIN fids
      /\ fss' = [fss EXCEPT ![h.file.at] = [FsOf(h) EXCEPT !.path = w.path]]
      /\ fids' = IF added THEN WithFid(newfid, FileHandle(w.file)) ELSE fids
      /\ told' = IF rwalk /\ Len(w.wqids) = Len(names) THEN told \cup {newfid} ELSE told
      /\ IF w.end = "panic" THEN conn' = "panic" ELSE Reply(OtherLen, neg)
      /\ UNCHANGED <<neg, drive>>

(***************************************************************************)
(* Requests that fail half way: in update; in ReadDir, after an update and *)
(* after the walk of some names has made their files; in NewReader, and    *)
(* the file is no longer open.                                             *)
(***************************************************************************)
Fail(fid) ==
  LET h == fids[fid]
  IN  /\ conn = "open"
      /\ fid \in DOMAIN fids
      /\ \/ h.kind = "root" /\ ~fss[h.file.at].fresh /\ UNCHANGED <<fss, fids>>
         \/ /\ h.kind # "file"
            /\ \E names \in Walks : \E i \in 0..Len(names) :
                 LET w == Walked(FileOf(h), SubSeq(names, 1, i), FsOf(h))
                 IN  fss' = [fss EXCEPT ![h.file.at] = [FsOf(h) EXCEPT !.path = w.path]]
            /\ UNCHANGED fids
         \/ /\ h.kind = "file"
            /\ fids' = [fids EXCEPT ![fid].open = FALSE, ![fid].offset = 0]
            /\ UNCHANGED fss
      /\ Error
      /\ UNCHANGED <<neg, drive, told>>

-----------------------------------------------------------------------------
\* Topen; a file is read from its start.
Open(fid) ==
  LET h == fids[fid]
  IN  /\ conn = "open"
      /\ fid \in DOMAIN fids
      /\ fss' = [fss EXCEPT ![h.file.at] = FsOf(h)]
      /\ fids' = IF h.kind = "file"
                   THEN [fids EXCEPT ![fid].open = TRUE, ![fid].offset = 0]
                   ELSE fids
      /\ Reply(OtherLen, neg)
      /\ UNCHANGED <<neg, drive, told>>

\* Tstat
Stat(fid) ==
  /\ conn = "open"
  /\ fid \in DOMAIN fids
  /\ fss' = [fss EXCEPT ![fids[fid].file.at] = FsOf(fids[fid])]
  /\ Reply(OtherLen, neg)
  /\ UNCHANGED <<neg, fids, drive, told>>

\* Tclunk, and Tremove: the fid is gone, whatever the answer.
Clunk(fid) ==
  /\ conn = "open"
  /\ fid \in DOMAIN fids
  /\ fids' = Restrict(fids, DOMAIN fids \ {fid})
  /\ told' = told \ {fid}
  /\ Reply(OtherLen, neg)
  /\ UNCHANGED <<neg, fss, drive>>

\* As many as the client asks for.
RoomUncapped(count) == count

\* The bytes that handleRead makes room for.
Room(count) == Lesser(count, (neg + Word - ReadOverhead) % Word)

\* The length of the first n entries of a directory.
Length(stats, n) == SumTo(StatLen, stats, n)

\* Every read takes the entries there are now, after those already listed.
ReadDirAnew(fid, offset, count) ==
  LET h     == fids[fid]
      s     == FsOf(h)
      ents  == NodeOf(FileOf(h)).ents
      stats == SubSeq(ents, IF offset = 0 THEN 1 ELSE Len(h.listed) + 1, Len(ents))
      n     == CHOOSE i \in 0..Len(stats) :
                 /\ Length(stats, i) <= Room(count)
                 /\ i < Len(stats) => Length(stats, i + 1) > Room(count)
      goes  == offset = h.offset
      fits  == goes /\ (n = 0 => stats = <<>>)
      begun == [h EXCEPT !.stats = stats,
                         !.listed = IF offset = 0 /\ goes THEN <<>> ELSE @,
                         !.whole = IF offset = 0 /\ goes THEN ents ELSE @,
                         !.rewound = @ \/ (offset = 0 /\ ~goes)]
  IN  /\ conn = "open"
      /\ fid \in DOMAIN fids
      /\ h.kind # "file"
      /\ fss' = [fss EXCEPT ![h.file.at] =
                   [s EXCEPT !.path = @ + Len(ents)]]
      /\ fids' = [fids EXCEPT ![fid] =
                    IF fits THEN [begun EXCEPT !.offset = @ + Length(stats, n),
                                               !.stats = SubSeq(@, n + 1, Len(@)),
                                               !.listed = @ \o SubSeq(stats, 1, n)]
                    ELSE begun]
      /\ Reply(IF fits THEN ReadOverhead + Length(stats, n) ELSE OtherLen, neg)
      /\ UNCHANGED <<neg, drive, told>>

(***************************************************************************)
(* Tread of a directory: offset 0 reads the entries again, whatever the    *)
(* offset of the handle; then only a read that goes on is answered, with   *)
(* as many whole entries as there is room for, and at least one of those   *)
(* that are left.                                                          *)
(***************************************************************************)
ReadDir(fid, offset, count) ==
  LET h     == fids[fid]
      s     == FsOf(h)
      ents  == NodeOf(FileOf(h)).ents
      stats == IF offset = 0 THEN ents ELSE h.stats
      n     == CHOOSE i \in 0..Len(stats) :
                 /\ Length(stats, i) <= Room(count)
                 /\ i < Len(stats) => Length(stats, i + 1) > Room(count)
      goes  == offset = h.offset
      fits  == goes /\ (n = 0 => stats = <<>>)
      begun == [h EXCEPT !.stats = stats,
                         !.listed = IF offset = 0 /\ goes THEN <<>> ELSE @,
                         !.whole = IF offset = 0 /\ goes THEN ents ELSE @,
                         !.rewound = @ \/ (offset = 0 /\ ~goes)]
  IN  /\ conn = "open"
      /\ fid \in DOMAIN fids
      /\ h.kind # "file"
      /\ fss' = [fss EXCEPT ![h.file.at] =
                   IF offset = 0 THEN [s EXCEPT !.path = @ + Len(ents)] ELSE s]
      /\ fids' = [fids EXCEPT ![fid] =
                    IF fits THEN [begun EXCEPT !.offset = @ + Length(stats, n),
                                               !.stats = SubSeq(@, n + 1, Len(@)),
                                               !.listed = @ \o SubSeq(stats, 1, n)]
                    ELSE begun]
      /\ Reply(IF fits THEN ReadOverhead + Length(stats, n) ELSE OtherLen, neg)
      /\ UNCHANGED <<neg, drive, told>>

\* Tread of a file goes on from where the reader is, at any offset; Read
\* returns some of the bytes that are left.
ReadFile(fid, count) ==
  LET h    == fids[fid]
      left == NodeOf(h.file).size - h.offset
  IN  /\ conn = "open"
      /\ fid \in DOMAIN fids
      /\ h.kind = "file"
      /\ IF h.open
           THEN \E n \in 0..Lesser(Room(count), left) :
                  /\ n = 0 => Room(count) = 0 \/ left = 0
                  /\ fids' = [fids EXCEPT ![fid].offset = @ + n]
                  /\ Reply(ReadOverhead + n, neg)
           ELSE UNCHANGED fids /\ Error
      /\ UNCHANGED <<neg, fss, drive, told>>

-----------------------------------------------------------------------------
\* Others commit a new root,
Commit(t) ==
  /\ drive # t
  /\ drive' = t
  /\ UNCHANGED <<conn, neg, fids, fss, told>>

\* and 30 seconds pass.
Wait ==
  /\ \E k \in DOMAIN fss : fss[k].fresh
  /\ fss' = [k \in DOMAIN fss |-> [fss[k] EXCEPT !.fresh = FALSE]]
  /\ UNCHANGED <<conn, neg, fids, drive, told>>

\* The client hangs up, or sends what ReadMsg or Serve do not take.
Hangup ==
  /\ conn = "open"
  /\ conn' = "closed"
  /\ UNCHANGED <<neg, fids, fss, drive, told>>

\* Another connection gets a server of its own.
Connect ==
  /\ conn # "open"
  /\ conn' = "open"
  /\ neg' = MaxMessageSize
  /\ fids' = <<>>
  /\ fss' = <<>>
  /\ told' = {}
  /\ UNCHANGED drive

Request(fid) ==
  \/ Attach(fid) \/ Fail(fid) \/ Open(fid) \/ Stat(fid) \/ Clunk(fid)
  \/ \E newfid \in Fid \cup {NOFID}, names \in Walks : Walk(fid, newfid, names)
  \/ /\ fid \in DOMAIN fids
     /\ \E count \in Counts :
          \/ \E offset \in {0, fids[fid].offset} : ReadDir(fid, offset, count)
          \/ ReadFile(fid, count)

Next ==
  /\ \/ Refuse
     \/ \E size \in Offers : Version(size)
     \/ \E fid \in Fid : Request(fid)
     \/ \E t \in Trees : Commit(t)
     \/ Wait \/ Hangup \/ Connect
  /\ \A k \in DOMAIN fss' : fss'[k].path <= MaxPath

Spec == Init /\ [][Next]_vars

-----------------------------------------------------------------------------
(***************************************************************************)
(* The fids the server has are those the client knows of: a walk that ends *)
(* early makes none, a request that fails takes none away, and Tremove     *)
(* takes its fid although it is refused.                                   *)
(***************************************************************************)
FidsTold == conn = "open" => told = DOMAIN fids

(***************************************************************************)
(* A client that lists a directory from its start gets every entry of it   *)
(* once, as it was when the listing began, however small its reads are and *)
(* although the root is replaced in the meantime.                          *)
(***************************************************************************)
ListingWhole ==
  \A g \in DOMAIN fids :
    ~fids[g].rewound => fids[g].listed \o fids[g].stats = fids[g].whole

\* The files of a file system that can be reached from the fids, by their
\* names and their qids.
Known(k) ==
  {<<fss[k].tree, <<>>, fss[k].qid>>}
    \cup UNION { {<<f.tree, SubSeq(f.names, 1, i), f.qids[i + 1]>> : i \in 0..Len(f.names)} :
                 f \in {fids[g].file : g \in {h \in DOMAIN fids :
                                              /\ fids[h].kind # "root"
                                              /\ fids[h].file.at = k}} }

(***************************************************************************)
(* Two files of a file system never have the same qid, whether they are in *)
(* one tree or in two that followed each other.                            *)
(***************************************************************************)
QidsDiffer ==
  \A k \in DOMAIN fss : \A x, y \in Known(k) :
    x[3].path = y[3].path => x = y

(***************************************************************************)
(* A connection that has agreed on messages long enough for its replies is *)
(* never ended by one, however much is read at once.                       *)
(***************************************************************************)
RepliesFit == neg >= OtherLen => conn # "short"
=============================================================================
