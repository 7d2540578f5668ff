--------------------------------- MODULE Fs ---------------------------------
(***************************************************************************)
(* fs/fs.go: the directories of a drive, and the operations put, mkdir, rm,*)
(* cp and mv make on them.  An operation reads the directories on its path *)
(* and writes new ones, up to a new root.                                  *)
(*                                                                         *)
(* A directory is the sequence of its entries as WriteDir orders them,     *)
(* without the entry "." that ReadDir finds in front.  An entry holds its  *)
(* directory itself where the code has the hash of it.  Names are numbers  *)
(* in their order; modes, sizes and times are left out.                    *)
(***************************************************************************)
EXTENDS Naturals, Sequences, FiniteSets, TLC

SX == INSTANCE SequencesExt

CONSTANTS
  Name,        \* names of files and folders
  Dot,         \* the name "."
  NoData,      \* for folders
  Requests,    \* what users may ask for
  MaxEntries   \* bound on the entries of a drive

ASSUME NameAssumption == Name \subseteq Nat /\ Dot \in Nat \ Name

VARIABLES
  root,   \* the root directory
  asked,  \* the last request, a sequence of at most one,
  out     \* and how it ended: "ok", "error" or "panic"

vars == <<root, asked, out>>

File(n, f) == [name |-> n, dir |-> FALSE, ents |-> <<>>, data |-> f]
Folder(n, d) == [name |-> n, dir |-> TRUE, ents |-> d, data |-> NoData]

\* A path as a user gives it, and whether it ends in a slash.
Path(p) == [elems |-> p, slash |-> p = <<>>]
PathSlash(p) == [elems |-> p, slash |-> TRUE]

\* The outcomes of an operation.
Ok(d) == [out |-> "ok", dir |-> d]
Error == [out |-> "error", dir |-> <<>>]
Panic == [out |-> "panic", dir |-> <<>>]

-----------------------------------------------------------------------------
\* DirEnts.Less: folders come first.
Less(a, b) ==
  IF a.dir # b.dir THEN a.dir ELSE a.name < b.name

\* Mutants of WriteDir: it does not sort,
WriteDirUnsorted(ents) ==
  IF \A i \in 1..(Len(ents) - 1) : ents[i].name # Dot /\ ents[i].name # ents[i + 1].name
  THEN Ok(ents) ELSE Error

\* and does not compare names.
WriteDirUnchecked(ents) == Ok(SortSeq(ents, Less))

\* WriteDir compares every entry but the last with the one behind it.
WriteDir(ents) ==
  LET s == SortSeq(ents, Less)
  IN  IF \A i \in 1..(Len(s) - 1) : s[i].name # Dot /\ s[i].name # s[i + 1].name
      THEN Ok(s) ELSE Error

\* The first entry of a name, if there is one.
Lookup(d, n) ==
  {i \in 1..Len(d) : d[i].name = n /\ \A j \in 1..(i - 1) : d[j].name # n}

\* What Walk finds, a set of at most one entry.
RECURSIVE Walk(_, _)
Walk(d, p) ==
  IF p = <<>> THEN {Folder(Dot, d)}
  ELSE UNION { IF Len(p) = 1 THEN {d[i]}
               ELSE IF d[i].dir THEN Walk(d[i].ents, Tail(p)) ELSE {}
               : i \in Lookup(d, Head(p)) }

\* The directory d with the folder at i replaced.
Rewrite(d, i, sub) ==
  IF sub.out = "ok" THEN WriteDir([d EXCEPT ![i].ents = sub.dir]) ELSE sub

\* insert
RECURSIVE InsertAt(_, _, _)
InsertAt(d, p, ent) ==
  IF p = <<>> THEN WriteDir(<<ent>> \o d)
  ELSE LET found == Lookup(d, Head(p))
           i     == CHOOSE i \in found : TRUE
       IN  IF found = {} \/ ~d[i].dir THEN Error
           ELSE Rewrite(d, i, InsertAt(d[i].ents, Tail(p), ent))

\* Mutant of Insert: a path that ends in a slash gives the name as well.
InsertRenames(d, dst, ent) ==
  IF dst.elems = <<>>
  THEN InsertAt(d, dst.elems, ent)
  ELSE InsertAt(d, SX!Front(dst.elems), [ent EXCEPT !.name = SX!Last(dst.elems)])

\* Insert: without a slash at its end, the path ends in the new name.
Insert(d, dst, ent) ==
  IF dst.slash
  THEN InsertAt(d, dst.elems, ent)
  ELSE InsertAt(d, SX!Front(dst.elems), [ent EXCEPT !.name = SX!Last(dst.elems)])

\* remove: an empty directory makes for a slice of capacity -1.
RECURSIVE RemoveAt(_, _)
RemoveAt(d, p) ==
  LET found == Lookup(d, Head(p))
      i     == CHOOSE i \in found : TRUE
      left  == SelectSeq(d, LAMBDA e : e.name # Head(p))
  IN  IF Len(p) = 1
      THEN IF d = <<>> THEN Panic ELSE IF left = d THEN Error ELSE WriteDir(left)
      ELSE IF found = {} \/ ~d[i].dir THEN Error
      ELSE Rewrite(d, i, RemoveAt(d[i].ents, Tail(p)))

\* Mutant of Remove: the path ends one element too early.
RemoveShort(d, p) ==
  IF p = <<>> THEN Error ELSE RemoveAt(d, IF Len(p) > 1 THEN SX!Front(p) ELSE p)

Remove(d, p) == IF p = <<>> THEN Error ELSE RemoveAt(d, p)

Copy(d, dst, src) ==
  LET found == Walk(d, src)
  IN  IF found = {} THEN Error ELSE Insert(d, dst, CHOOSE e \in found : TRUE)

\* Mutant of Move: the source is removed from the old root.
MoveFromOld(d, dst, src) ==
  LET copy == Copy(d, dst, src)
  IN  IF copy.out = "ok" THEN Remove(d, src) ELSE copy

Move(d, dst, src) ==
  LET copy == Copy(d, dst, src)
  IN  IF copy.out = "ok" THEN Remove(copy.dir, src) ELSE copy

\* mkdir inserts the empty directory, whose name is ".", put a host file.
Apply(r, d) ==
  CASE r.cmd = "mkdir" -> Insert(d, r.dst, Folder(Dot, <<>>))
    [] r.cmd = "put"   -> Insert(d, r.dst, r.ent)
    [] r.cmd = "rm"    -> Remove(d, r.src)
    [] r.cmd = "cp"    -> Copy(d, r.dst, r.src)
    [] r.cmd = "mv"    -> Move(d, r.dst, r.src)

-----------------------------------------------------------------------------
\* Every entry below a directory, by its path.
RECURSIVE Below(_)
Below(d) ==
  UNION { {[path |-> <<d[i].name>>, dir |-> d[i].dir, data |-> d[i].data]}
            \cup {[e EXCEPT !.path = <<d[i].name>> \o @] : e \in Below(d[i].ents)}
          : i \in 1..Len(d) }

\* A command: the new root is only committed when the operation succeeded.
Do(r) ==
  LET res == Apply(r, root)
  IN  /\ Cardinality(Below(res.dir)) <= MaxEntries
      /\ asked' = <<r>>
      /\ out' = res.out
      /\ root' = IF res.out = "ok" THEN res.dir ELSE root

Init == root = <<>> /\ asked = <<>> /\ out = "ok"

Next == \E r \in Requests : Do(r)

Spec == Init /\ [][Next]_vars

-----------------------------------------------------------------------------
\* What is at a path or below it, by the rest of the path.
Subtree(d, p) ==
  {[e EXCEPT !.path = SubSeq(@, Len(p) + 1, Len(@))] :
     e \in {e \in Below(d) : SX!IsPrefix(p, e.path)}}

Moved(S, p) == {[e EXCEPT !.path = p \o @] : e \in S}

Without(d, p) == {e \in Below(d) : ~SX!IsPrefix(p, e.path)}

\* Where an operation puts an entry of the name n.
Target(dst, n) == IF dst.slash THEN Append(dst.elems, n) ELSE dst.elems

\* A directory and all the directories below it.
RECURSIVE Dirs(_)
Dirs(d) == {d} \cup UNION {Dirs(d[i].ents) : i \in 1..Len(d)}

(***************************************************************************)
(* The entries of every directory are in the order that WriteDir gives     *)
(* them, whichever directory of the path an operation has rewritten.       *)
(***************************************************************************)
DirsOrdered ==
  \A d \in Dirs(root) : \A i, j \in 1..Len(d) : i < j => ~Less(d[j], d[i])

(***************************************************************************)
(* No directory has two entries of one name, as long as users do not put a *)
(* file where a folder of its name is, or the other way round: Insert does *)
(* not compare the two kinds (fs.go:59).  Requests says what users do.     *)
(***************************************************************************)
NamesUnique ==
  \A d \in Dirs(root) : \A i, j \in 1..Len(d) : d[i].name = d[j].name => i = j

(***************************************************************************)
(* No file or folder is named ".".                                         *)
(***************************************************************************)
NoneNamedDot ==
  \A d \in Dirs(root) : \A i \in 1..Len(d) : d[i].name # Dot

Did(cmds) == asked' # <<>> /\ asked'[1].cmd \in cmds /\ out' = "ok"

(***************************************************************************)
(* put, mkdir and cp add what they were given at a path where nothing was, *)
(* and change nothing else.                                                *)
(***************************************************************************)
AddsOnly ==
  [][Did({"put", "mkdir", "cp"}) =>
       LET r   == asked'[1]
           ent == IF r.cmd = "cp" THEN CHOOSE e \in Walk(root, r.src) : TRUE
                  ELSE IF r.cmd = "put" THEN r.ent ELSE Folder(Dot, <<>>)
           to  == Target(r.dst, ent.name)
       IN  /\ Subtree(root, to) = {}
           /\ Below(root') = Below(root)
                \cup {[path |-> to, dir |-> ent.dir, data |-> ent.data]}
                \cup Moved(Below(ent.ents), to)]_vars

(***************************************************************************)
(* rm takes away what is at the path and below it, and nothing else.       *)
(***************************************************************************)
RemovesOnly ==
  [][Did({"rm"}) =>
       LET src == asked'[1].src
       IN  Subtree(root, src) # {} /\ Below(root') = Without(root, src)]_vars

(***************************************************************************)
(* mv: what was at the one path is at the other, and nowhere else, as long *)
(* as users do not move a folder into itself, which Move lets them do.     *)
(***************************************************************************)
MovesAll ==
  [][Did({"mv"}) =>
       LET r  == asked'[1]
           to == Target(r.dst, SX!Last(r.src))
       IN  Below(root') = Without(root, r.src) \cup Moved(Subtree(root, r.src), to)]_vars

(***************************************************************************)
(* An operation that cannot be done ends with an error.                    *)
(***************************************************************************)
EndsInError == out # "panic"
=============================================================================
