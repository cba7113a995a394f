-------------------------- MODULE StreamSubscriptions --------------------------
(***************************************************************************)
(* What the market data streams promise the order books: an item belongs   *)
(* to one stream, is given to it once and for all, and is subscribed to    *)
(* nowhere else; items come one by one, but a stream that loses one loses  *)
(* all of them.  Several streams may take a step together.                 *)
(***************************************************************************)
CONSTANTS Items, Streams

VARIABLES carried, subscribed       \* what belongs to a stream, what it has

Allotments == [Streams -> SUBSET Items]

Disjoint(allotment) == \A i, j \in Streams : i # j => allotment[i] \cap allotment[j] = {}

Init ==
    /\ carried \in Allotments /\ Disjoint(carried)
    /\ subscribed = [i \in Streams |-> {}]

Settled(i) == carried[i] \subseteq carried'[i]

Subscribed(i) == subscribed[i] \subseteq subscribed'[i] /\ subscribed'[i] \subseteq carried'[i]

Lost(i) == subscribed'[i] = {}

Next ==
    /\ carried' \in Allotments /\ Disjoint(carried')
    /\ subscribed' \in Allotments
    /\ \A i \in Streams : Settled(i) /\ (Subscribed(i) \/ Lost(i))

Spec == Init /\ [][Next]_<<carried, subscribed>>
=============================================================================
