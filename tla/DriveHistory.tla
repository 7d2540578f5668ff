---------------------------- MODULE DriveHistory ----------------------------
(***************************************************************************)
(* What a drive promises its users, whatever clients, packs and collections*)
(* do: its history changes by whole commands, each one applied to the      *)
(* history as it is at that moment.                                        *)
(***************************************************************************)
EXTENDS Chunks

VARIABLE hist

Init == hist = <<>>

\* The first client to connect sets up an empty drive.
Setup ==
  /\ hist = <<>>
  /\ hist' = <<EmptyTree>>

\* A command appends the tree it makes of the current history; a revert goes
\* back to an entry of the current history.
Change ==
  /\ hist # <<>>
  /\ hist' # hist
  /\ \E o \in Command, i \in 1..Len(hist) :
       /\ o.cmd \notin {"gc", "gckeep", "cancel"}
       /\ \E t \in NewTrees(o, hist, Prefix(hist, i)) : hist' = Append(hist, t)

\* gc keeps the current tree and forgets how it came about.
Forget ==
  /\ hist # <<>>
  /\ hist' = <<Latest(hist)>>

Next == Setup \/ Forget \/ Change

Spec == Init /\ [][Next]_hist
=============================================================================
