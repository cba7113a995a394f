---------------------------- MODULE MCPublicFeed ----------------------------
(***************************************************************************)
(* PublicFeed for TLC: three symbols in slices of two, so that the second  *)
(* stream appears while the first one runs; one of them is filtered out of *)
(* the list of the exchange and only a client names it.                    *)
(***************************************************************************)
EXTENDS PublicFeed, TLC

CONSTANTS s1, s2, hidden

MCSymbols == {s1, s2, hidden}
MCDiscarded == {hidden}

SymbolSymmetry == Permutations({s1, s2})
=============================================================================
