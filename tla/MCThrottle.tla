----------------------------- MODULE MCThrottle -----------------------------
(***************************************************************************)
(* Throttle for TLC: two connections with up to two requests each, a clock *)
(* long enough for a block to end and a second one to begin.               *)
(***************************************************************************)
EXTENDS Throttle, TLC

CONSTANTS c1, c2

MCConnections == {c1, c2}
MCHeaderValues == {0, 1}

Symmetry == Permutations(MCConnections)
=============================================================================
