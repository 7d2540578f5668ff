------------------------------- MODULE MCP9 ---------------------------------
EXTENDS P9, TLC

CONSTANTS g1, g2

Dir(e) == [dir |-> TRUE, ents |-> e, size |-> 0]
File(n) == [dir |-> FALSE, ents |-> <<>>, size |-> n]

\* Two trees that differ at every path but the root's first entry.
Before ==
  (<<>> :> Dir(<<"a", "b">>)) @@ (<<"a">> :> Dir(<<"c">>)) @@ (<<"a", "c">> :> File(2))
    @@ (<<"b">> :> File(1))

After ==
  (<<>> :> Dir(<<"a", "c">>)) @@ (<<"a">> :> Dir(<<"c">>)) @@ (<<"a", "c">> :> File(1))
    @@ (<<"c">> :> Dir(<<>>))

TwoTrees == {Before, After}

Lengths == ("a" :> 1) @@ ("b" :> 2) @@ ("c" :> 1)

SomeWalks == {<<>>, <<"a">>, <<"a", "c">>, <<"b", "a">>, <<"c", "..">>, <<"..">>, <<"a", ".">>}

Symmetry == Permutations({g1, g2})
=============================================================================
