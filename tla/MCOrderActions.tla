--------------------------- MODULE MCOrderActions ---------------------------
(***************************************************************************)
(* OrderActions for TLC: two requests and two symbols that no action tells *)
(* apart.                                                                  *)
(***************************************************************************)
EXTENDS OrderActions, TLC

CONSTANTS r1, r2, s1, s2

MCRequests == {r1, r2}
MCSymbols == {s1, s2}

RequestSymmetry == Permutations(MCRequests) \cup Permutations(MCSymbols)
=============================================================================
