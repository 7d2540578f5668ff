------------------------------ MODULE MCBpack -------------------------------
(***************************************************************************)
(* Counters that carry into the first byte, and that wrap around to zero.  *)
(***************************************************************************)
EXTENDS Bpack

NearCarry == {<<0, 3>>, <<3, 4>>, <<4, 3>>, <<4, 4>>}
=============================================================================
