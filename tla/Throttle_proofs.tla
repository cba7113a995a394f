--------------------------- MODULE Throttle_proofs ---------------------------
(***************************************************************************)
(* Proofs about Throttle for any connections, any backoffs and any bounds. *)
(***************************************************************************)
EXTENDS Throttle, TLAPS

(* What every 403 so far has asked for is in suspend_until_.                *)
BlocksInv == EnableRateLimit => \A t \in forbidden : t + BlockedBackoff <= suspendUntil

IInv == TypeOK /\ BlocksInv

LEMMA InitIInv == Init => IInv
<1> SUFFICES ASSUME Init PROVE IInv
  OBVIOUS
<1> USE ThrottleAssumption DEF Init, ThrottleAssumption
<1>1. TypeOK
  BY DEF TypeOK
<1>2. BlocksInv
  BY DEF BlocksInv
<1> QED BY <1>1, <1>2 DEF IInv

(* A response never shortens the suspension, and a 403 covers its backoff.  *)
LEMMA SuspensionLemma ==
    ASSUME TypeOK, NEW status \in Statuses
    PROVE  /\ Suspension(status) \in Nat
           /\ Suspension(status) <= now + BlockedBackoff
           /\ suspendUntil <= Suspension(status)
           /\ EnableRateLimit /\ status = 403 => now + BlockedBackoff <= Suspension(status)
BY ThrottleAssumption DEF ThrottleAssumption, TypeOK, Statuses, Suspension, Later

LEMMA StepIInv == IInv /\ [Next]_vars => IInv'
<1> SUFFICES ASSUME IInv, [Next]_vars PROVE IInv'
  OBVIOUS
<1> USE ThrottleAssumption DEF ThrottleAssumption
<1>1. CASE Tick
  <2>1. TypeOK'
    BY <1>1 DEF IInv, TypeOK, Tick
  <2>2. BlocksInv'
    BY <1>1 DEF IInv, BlocksInv, Tick
  <2> QED BY <2>1, <2>2 DEF IInv
<1>2. ASSUME NEW c \in Connections, Send(c) PROVE IInv'
  <2>1. inFlight' \in [Connections -> 0..MaxInFlight]
    BY <1>2 DEF IInv, TypeOK, Send
  <2>2. TypeOK'
    BY <1>2, <2>1 DEF IInv, TypeOK, Send
  <2>3. BlocksInv'
    BY <1>2 DEF IInv, BlocksInv, Send
  <2> QED BY <2>2, <2>3 DEF IInv
<1>3. ASSUME NEW c \in Connections, NEW name \in Headers, NEW value \in HeaderValues,
             MessageHeader(c, name, value)
      PROVE  IInv'
  <2>1. params' \in [Fields -> HeaderValues \cup {0}]
    BY <1>3 DEF IInv, TypeOK, MessageHeader
  <2>2. TypeOK'
    BY <1>3, <2>1 DEF IInv, TypeOK, MessageHeader
  <2>3. BlocksInv'
    BY <1>3 DEF IInv, BlocksInv, MessageHeader
  <2> QED BY <2>2, <2>3 DEF IInv
<1>4. ASSUME NEW c \in Connections, NEW status \in Statuses, MessageEnd(c, status)
      PROVE  IInv'
  <2>1. /\ suspendUntil' \in Nat
        /\ suspendUntil' <= now + BlockedBackoff
        /\ suspendUntil <= suspendUntil'
        /\ EnableRateLimit /\ status = 403 => now + BlockedBackoff <= suspendUntil'
    BY <1>4, SuspensionLemma DEF IInv, MessageEnd
  <2>2. inFlight' \in [Connections -> 0..MaxInFlight]
    BY <1>4 DEF IInv, TypeOK, MessageEnd
  <2>3. forbidden' \subseteq 1..now
    BY <1>4 DEF IInv, TypeOK, MessageEnd
  <2>4. TypeOK'
    BY <1>4, <2>1, <2>2, <2>3 DEF IInv, TypeOK, MessageEnd
  <2>5. ASSUME EnableRateLimit, NEW t \in forbidden' PROVE t + BlockedBackoff <= suspendUntil'
    <3>1. CASE t \in forbidden
      BY <2>1, <2>5, <3>1 DEF IInv, TypeOK, BlocksInv
    <3>2. CASE t \notin forbidden
      BY <1>4, <2>1, <2>5, <3>2 DEF MessageEnd
    <3> QED BY <3>1, <3>2
  <2>6. BlocksInv'
    BY <1>4, <2>5 DEF BlocksInv
  <2> QED BY <2>4, <2>6 DEF IInv
<1>5. CASE UNCHANGED vars
  BY <1>5 DEF IInv, TypeOK, BlocksInv, vars
<1> QED BY <1>1, <1>2, <1>3, <1>4, <1>5 DEF Next

(* The inductive invariant holds of every behaviour of the throttle.        *)
THEOREM Invariance == Spec => []IInv
BY InitIInv, StepIInv, PTL DEF Spec

(* The type invariant of the throttle, with the limit on a suspension.      *)
THEOREM TypeCorrect == Spec => []TypeOK
<1>1. IInv => TypeOK
  BY DEF IInv
<1> QED BY <1>1, Invariance, PTL

(* After a 403 nothing is sent for BLOCKED_BACKOFF (throttle.cpp:117-121).  *)
THEOREM BlocksAreKept == Spec => BlockedIsSilent
<1> DEFINE Silent == EnableRateLimit =>
       \A c \in Connections :
          inFlight'[c] > inFlight[c] => \A t \in forbidden : t + BlockedBackoff <= now
<1>1. ASSUME IInv, [Next]_vars PROVE [Silent]_vars
  <2>1. CASE \E c \in Connections : Send(c)
    BY <2>1, <1>1, ThrottleAssumption DEF Send, IInv, TypeOK, BlocksInv, ThrottleAssumption
  <2>2. ASSUME NEW d \in Connections, NEW status \in Statuses, MessageEnd(d, status),
               NEW c \in Connections
        PROVE  ~(inFlight'[c] > inFlight[c])
    BY <2>2, <1>1 DEF MessageEnd, IInv, TypeOK
  <2>3. CASE UNCHANGED inFlight
    BY <2>3, <1>1 DEF IInv, TypeOK
  <2>4. Tick => UNCHANGED inFlight
    BY DEF Tick
  <2>5. ASSUME NEW c \in Connections, NEW name \in Headers, NEW value \in HeaderValues,
               MessageHeader(c, name, value)
        PROVE  UNCHANGED inFlight
    BY <2>5 DEF MessageHeader
  <2>6. CASE Next
    BY <2>1, <2>2, <2>3, <2>4, <2>5, <2>6 DEF Next
  <2>7. CASE UNCHANGED vars
    BY <2>7
  <2> QED BY <1>1, <2>6, <2>7
<1>2. IInv /\ [Next]_vars => [Silent]_vars
  BY <1>1
<1> QED BY <1>2, Invariance, PTL DEF Spec, BlockedIsSilent
=============================================================================
