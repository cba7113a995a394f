---------------------------- MODULE MCOrderEcho ----------------------------
(***************************************************************************)
(* OrderEcho for TLC: orders the OMS creates, of all the kinds that are    *)
(* encoded differently, and one that another client placed.                *)
(***************************************************************************)
EXTENDS OrderEcho, TLC

CONSTANTS o1, foreign

MCOrders == {o1, foreign}
MCForeign == {foreign}

MCWanted ==
    [side : {"BUY", "SELL"}, order_type : {"LIMIT"}, time_in_force : {"IOC", "GTX"}]
        \cup {[side |-> "SELL", order_type |-> "MARKET", time_in_force |-> "UNDEFINED"]}

MCPlaced ==
    {[side |-> "sell", order_type |-> "LIMIT", time_in_force |-> "GTT", status |-> 0, filled |-> 0],
     [side |-> "BUY", order_type |-> "MARKET", time_in_force |-> "GTC", status |-> 2, filled |-> 0]}
=============================================================================
