------------------------------- MODULE MCCache -------------------------------
EXTENDS Cache, TLC

CONSTANTS h1, h2, h3, h4, h5

\* Three small values, one of middling size and one that fills the larger cache.
Sizes == h1 :> 1 @@ h2 :> 1 @@ h3 :> 2 @@ h4 :> 4 @@ h5 :> 1
=============================================================================
