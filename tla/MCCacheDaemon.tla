---------------------------- MODULE MCCacheDaemon ----------------------------
(***************************************************************************)
(* Daemons that commands start, over both kinds of socket, and one that was*)
(* started by hand to run for ever.                                        *)
(***************************************************************************)
EXTENDS CacheDaemon, TLC

CONSTANTS c1, c2, d1, d2

TriesEach == (c1 :> 2) @@ (c2 :> 1)

AllSettings ==
  {[socket |-> "unix", forever |-> {}], [socket |-> "tcp", forever |-> {}],
   [socket |-> "tcp", forever |-> {d2}]}
=============================================================================
