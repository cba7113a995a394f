----------------------------- MODULE MCOrderBook -----------------------------
(***************************************************************************)
(* OrderBook for TLC: every symbol has a stream of its own.                *)
(***************************************************************************)
EXTENDS OrderBook

MCStreamOf == [s \in Symbols |-> s]
=============================================================================
