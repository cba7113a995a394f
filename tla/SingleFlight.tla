---------------------------- MODULE SingleFlight ----------------------------
(***************************************************************************)
(* What RequestHub promises the exchange: the download requests of an      *)
(* account go out one round trip at a time, the next when the calls of the *)
(* previous one have been called back.  Only calls that the first download *)
(* of the token left behind may still be around.  The callback of one of   *)
(* them is taken for that of a later token round trip: the round trip ends *)
(* early (End) and its own call is left over instead, so a call that       *)
(* overlaps a round trip always stands for one of that download.           *)
(***************************************************************************)
EXTENDS Naturals

VARIABLES
    flights,            \* round trips and left over calls, not called back
    leftover,           \* those of them that hold nothing back
    downloaded          \* the first download of the token is over

vars == <<flights, leftover, downloaded>>

Init == flights = 0 /\ leftover = 0 /\ downloaded = FALSE

(* The first download asks again without waiting.                           *)
Ask ==
    /\ ~downloaded
    /\ flights' = flights + 1 /\ leftover' = leftover + 1
    /\ UNCHANGED downloaded

(* A round trip begins when none is under way.                              *)
Begin ==
    /\ downloaded
    /\ flights = leftover
    /\ flights' = flights + 1
    /\ UNCHANGED <<leftover, downloaded>>

End ==
    /\ flights > leftover
    /\ flights' = flights - 1
    /\ UNCHANGED <<leftover, downloaded>>

(* The callback of a left over call, which may be the token.                *)
Late ==
    /\ leftover > 0
    /\ flights' = flights - 1 /\ leftover' = leftover - 1
    /\ downloaded' \in {downloaded, TRUE}

Next == Ask \/ Begin \/ End \/ Late

Spec == Init /\ [][Next]_vars
=============================================================================
