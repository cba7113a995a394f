-------------------------- MODULE MCAccountSession --------------------------
(***************************************************************************)
(* AccountSession for TLC: two tokens that no action tells apart, and two  *)
(* orders, one of which the exchange has given no order id.                *)
(***************************************************************************)
EXTENDS AccountSession, TLC

CONSTANTS t1, t2, acknowledged, unacknowledged

MCTokens == {t1, t2}
MCOrders == {acknowledged, unacknowledged}
MCUnacknowledged == {unacknowledged}

TokenSymmetry == Permutations(MCTokens)
=============================================================================
