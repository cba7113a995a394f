------------------------------ MODULE Throttle ------------------------------
(***************************************************************************)
(* tools::Throttle: one object, shared by every connection of the gateway, *)
(* that reads the headers and the status of each HTTP response and says    *)
(* until when the connections must not send.  The connections themselves   *)
(* (web::rest::Client) are external: one sends only when the clock has     *)
(* passed suspend_until, and has several requests in flight, so that       *)
(* responses to requests sent earlier arrive during a suspension.          *)
(***************************************************************************)
EXTENDS Integers

CONSTANTS Connections,      \* the HTTP clients that share the throttle
          EnableRateLimit,  \* settings.experimental.enable_rate_limit
          DefaultBackoff,   \* the constants of throttle.cpp, in clock ticks
          BlockedBackoff,
          HeaderValues,     \* the numbers the exchange writes into headers
          MaxTime,          \* bound on the clock
          MaxInFlight       \* bound on the requests of a connection

ASSUME ThrottleAssumption ==
    /\ EnableRateLimit \in BOOLEAN
    /\ DefaultBackoff \in Nat \ {0}
    /\ BlockedBackoff \in Nat \ {0}
    /\ DefaultBackoff <= BlockedBackoff
    /\ HeaderValues \subseteq Nat
    /\ MaxTime \in Nat
    /\ MaxInFlight \in Nat

VARIABLES now,           \* clock::get_system()
          suspendUntil,  \* suspend_until_, 0 when nothing ever suspended
          params,        \* the last headers
          inFlight,      \* requests sent and not answered, per connection
          forbidden      \* history: the times of 403 responses

vars == <<now, suspendUntil, params, inFlight, forbidden>>

Fields == {"remaining", "limit", "reset"}

(* parse_header: the names the switch knows, in any case of letters.        *)
ParseHeader(name) ==
    CASE name = "gw-ratelimit-remaining" -> {"remaining"}
      [] name = "gw-ratelimit-limit"     -> {"limit"}
      [] name = "gw-ratelimit-reset"     -> {"reset"}
      [] OTHER                           -> {}

Headers == {"gw-ratelimit-remaining", "gw-ratelimit-limit", "gw-ratelimit-reset", "date"}

Statuses == {200, 403, 429, 500}

Later(t, u) == IF t < u THEN u ELSE t

Init ==
    /\ now = 1
    /\ suspendUntil = 0
    /\ params = [f \in Fields |-> 0]
    /\ inFlight = [c \in Connections |-> 0]
    /\ forbidden = {}

Tick ==
    /\ now < MaxTime
    /\ now' = now + 1
    /\ UNCHANGED <<suspendUntil, params, inFlight, forbidden>>

Send(c) ==
    /\ now >= suspendUntil
    /\ inFlight[c] < MaxInFlight
    /\ inFlight' = [inFlight EXCEPT ![c] = @ + 1]
    /\ UNCHANGED <<now, suspendUntil, params, forbidden>>

(* The headers are kept; the update of suspend_until_ from the reset header *)
(* is commented out in the code.                                            *)
MessageHeader(c, name, value) ==
    /\ inFlight[c] > 0
    /\ params' = [f \in Fields |-> IF f \in ParseHeader(name) THEN value ELSE params[f]]
    /\ UNCHANGED <<now, suspendUntil, inFlight, forbidden>>

(* mutant: a 429 replaces whatever suspension there is.                     *)
SuspensionShortened(status) ==
    CASE ~EnableRateLimit -> suspendUntil
      [] EnableRateLimit /\ status = 403 -> Later(suspendUntil, now + BlockedBackoff)
      [] EnableRateLimit /\ status = 429 -> now + DefaultBackoff
      [] OTHER -> suspendUntil

(* mutant: each 403 adds to the suspension of the one before.               *)
SuspensionAddsUp(status) ==
    CASE ~EnableRateLimit -> suspendUntil
      [] EnableRateLimit /\ status = 403 -> Later(suspendUntil, now) + BlockedBackoff
      [] EnableRateLimit /\ status = 429 /\ suspendUntil = 0 -> now + DefaultBackoff
      [] OTHER -> suspendUntil

(* What suspend_until_ becomes with a response of this status.              *)
Suspension(status) ==
    CASE ~EnableRateLimit -> suspendUntil
      [] EnableRateLimit /\ status = 403 -> Later(suspendUntil, now + BlockedBackoff)
      [] EnableRateLimit /\ status = 429 /\ suspendUntil = 0 -> now + DefaultBackoff
      [] OTHER -> suspendUntil

MessageEnd(c, status) ==
    /\ inFlight[c] > 0
    /\ inFlight' = [inFlight EXCEPT ![c] = @ - 1]
    /\ suspendUntil' = Suspension(status)
    /\ forbidden' = IF status = 403 THEN forbidden \cup {now} ELSE forbidden
    /\ UNCHANGED <<now, params>>

Next ==
    \/ Tick
    \/ \E c \in Connections :
          \/ Send(c)
          \/ \E name \in Headers, value \in HeaderValues : MessageHeader(c, name, value)
          \/ \E status \in Statuses : MessageEnd(c, status)

Spec == Init /\ [][Next]_vars

-----------------------------------------------------------------------------
(* Every variable has its type, and a suspension never reaches further than *)
(* one BLOCKED_BACKOFF from now, however many responses ask for one.        *)
TypeOK ==
    /\ now \in Nat \ {0}
    /\ suspendUntil \in Nat
    /\ suspendUntil <= now + BlockedBackoff
    /\ params \in [Fields -> HeaderValues \cup {0}]
    /\ inFlight \in [Connections -> 0..MaxInFlight]
    /\ forbidden \subseteq 1..now

(* A 403 means that the exchange has blocked the gateway ("very serious",   *)
(* throttle.cpp:22): no connection sends anything for BLOCKED_BACKOFF after *)
(* it, whichever connection received it and whatever responses to requests  *)
(* sent earlier still arrive (the 429 branch, throttle.cpp:122-127, may not *)
(* shorten what the 403 branch, 117-121, has set).                          *)
BlockedIsSilent ==
    [][EnableRateLimit =>
          \A c \in Connections :
             inFlight'[c] > inFlight[c] => \A t \in forbidden : t + BlockedBackoff <= now]_vars
=============================================================================
