--------------------------- MODULE SessionDownload ---------------------------
(***************************************************************************)
(* What a private session promises its consumers: it is ready when every   *)
(* channel is subscribed to and every snapshot has been asked for in this  *)
(* very session, each snapshot after the subscription of its channel, so   *)
(* that no update between the two is missed.                               *)
(***************************************************************************)
EXTENDS Naturals

CONSTANTS
    Channels,           \* the channels a session subscribes to
    Snapshots           \* those among them that have a snapshot

VARIABLES phase, subscribed, fetched

sdVars == <<phase, subscribed, fetched>>

Init == phase = "offline" /\ subscribed = {} /\ fetched = {}

Begin ==
    /\ phase = "offline"
    /\ phase' = "downloading"
    /\ UNCHANGED <<subscribed, fetched>>

Complete(s, f) == s = Channels /\ Snapshots \subseteq f

Subscribe(c) ==
    /\ phase = "downloading" /\ c \notin subscribed
    /\ subscribed' = subscribed \cup {c}
    /\ \/ phase' = "downloading"
       \/ phase' = "ready" /\ Complete(subscribed', fetched)
    /\ UNCHANGED fetched

Fetch(c) ==
    /\ phase = "downloading" /\ c \in subscribed
    /\ fetched' = fetched \cup {c}
    /\ UNCHANGED <<phase, subscribed>>

Finish ==
    /\ phase = "downloading" /\ Complete(subscribed, fetched)
    /\ phase' = "ready"
    /\ UNCHANGED <<subscribed, fetched>>

Lost == phase' = "offline" /\ subscribed' = {} /\ fetched' = {}

Next ==
    \/ Begin \/ Finish \/ Lost
    \/ \E c \in Channels : Subscribe(c) \/ Fetch(c)

Spec == Init /\ [][Next]_sdVars
=============================================================================
