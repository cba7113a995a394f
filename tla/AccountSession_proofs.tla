------------------------ MODULE AccountSession_proofs ------------------------
(***************************************************************************)
(* Proofs about AccountSession for any set of orders, any set of tokens    *)
(* and any bounds on faults.                                               *)
(***************************************************************************)
EXTENDS AccountSession, FiniteSetTheorems, TLAPS

Hubs == [Slots -> Slot]

(* One round trip at a time.                                                *)
Single(h) == \A s, t \in Slots : h[s].inflight /\ h[t].inflight => s = t

(* A request that waits to be sent has no answer yet.                       *)
Fresh(h) == \A s \in Slots : h[s].response => ~h[s].pending

Unasked(h, d) == d # {} => h["stale_orders"].pending

SameFlights(h, g) == \A s \in Slots : g[s].inflight = h[s].inflight

(* The step of the download has been sent, or waits to be.                  *)
StepSent(s, h, f) == s \in GetStates /\ ~h[SlotOf[s]].pending => s \in f

AckedBefore(s) ==
    CASE s \in {"UNDEFINED", "SUBSCRIBE_BALANCES"} -> {}
      [] s \in {"GET_BALANCES", "SUBSCRIBE_POSITIONS"} -> {"SUBSCRIBE_BALANCES"}
      [] s \in {"GET_POSITIONS", "SUBSCRIBE_ORDERS"} -> {"SUBSCRIBE_BALANCES", "SUBSCRIBE_POSITIONS"}
      [] s \in {"GET_OPEN_ORDERS", "GET_STALE_ORDERS", "SUBSCRIBE_TRADES"}
            -> {"SUBSCRIBE_BALANCES", "SUBSCRIBE_POSITIONS", "SUBSCRIBE_ORDERS"}
      [] OTHER -> SubscribeStates

FetchedBefore(s) ==
    CASE s \in {"UNDEFINED", "SUBSCRIBE_BALANCES", "GET_BALANCES"} -> {}
      [] s \in {"SUBSCRIBE_POSITIONS", "GET_POSITIONS"} -> {"GET_BALANCES"}
      [] s \in {"SUBSCRIBE_ORDERS", "GET_OPEN_ORDERS"} -> {"GET_BALANCES", "GET_POSITIONS"}
      [] s \in {"GET_STALE_ORDERS", "SUBSCRIBE_TRADES", "GET_TRADES"}
            -> {"GET_BALANCES", "GET_POSITIONS", "GET_OPEN_ORDERS"}
      [] OTHER -> RequiredSnapshots

HubInv == Single(hub) /\ Fresh(hub) /\ Unasked(hub, details)

PhaseInv ==
    /\ fault = "none"
    /\ ready <=> dcState = "DONE"
    /\ dcStatus = "READY" <=> dcState = "DONE"
    /\ dcState # "UNDEFINED" => welcome
    /\ welcome => socket = "open"
    /\ logonTimeout => socket \in {"connected", "open"}

ProgressInv ==
    /\ acked = AckedBefore(dcState)
    /\ FetchedBefore(dcState) \subseteq fetched
    /\ StepSent(dcState, hub, fetched)

(* The inductive invariant.                                                 *)
IInv == TypeOK /\ HubInv /\ CounterMatchesQueries /\ PhaseInv /\ ProgressInv

-----------------------------------------------------------------------------
(* The operations of the requests.                                          *)

LEMMA RequestLemma ==
    ASSUME NEW h \in Hubs, NEW s \in Slots, Fresh(h)
    PROVE  LET g == Request(h, s) IN
           /\ g \in Hubs /\ Fresh(g) /\ SameFlights(h, g)
           /\ g[s].pending
           /\ \A t \in Slots : h[t].pending => g[t].pending
           /\ \A t \in Slots \ {s} : g[t] = h[t]
BY DEF Hubs, Slot, Request, Fresh, SameFlights

LEMMA ConsumeLemma ==
    ASSUME NEW h \in Hubs, NEW s \in Slots, Fresh(h)
    PROVE  LET g == Consume(h, s) IN
           /\ g \in Hubs /\ Fresh(g) /\ SameFlights(h, g)
           /\ \A t \in Slots : g[t].pending = h[t].pending
BY DEF Hubs, Slot, Consume, Fresh, SameFlights

LEMMA CommitLemma ==
    ASSUME NEW h \in Hubs, NEW s \in Slots, Single(h), Fresh(h)
    PROVE  LET g == Commit(h, s) IN
           /\ g \in Hubs /\ Fresh(g) /\ Single(g)
           /\ ~g[s].inflight
           /\ \A t \in Slots : g[t].pending = h[t].pending
           /\ \A t \in Slots \ {s} : g[t] = h[t]
BY DEF Hubs, Slot, Commit, Fresh, Single

LEMMA EnterLemma ==
    ASSUME NEW h \in Hubs, NEW s \in States, Fresh(h)
    PROVE  LET g == Enter(s, h) IN
           /\ g \in Hubs /\ Fresh(g) /\ SameFlights(h, g)
           /\ s \in GetStates => g[SlotOf[s]].pending
           /\ \A t \in Slots : h[t].pending => g[t].pending
<1>1. CASE s \in GetStates
  <2>1. SlotOf[s] \in Slots
    BY <1>1 DEF GetStates, SlotOf, Slots
  <2> QED BY <1>1, <2>1, RequestLemma DEF Enter
<1>2. CASE s \notin GetStates
  BY <1>2 DEF Enter, SameFlights
<1> QED BY <1>1, <1>2

(* At most one request is let go, and only when none is in flight.          *)
LEMMA SentLemma ==
    ASSUME NEW h \in Hubs, NEW allow \in BOOLEAN, NEW s \in Sent(h, allow)
    PROVE  /\ s \in Slots /\ h[s].pending
           /\ \A t \in Slots : ~h[t].inflight
           /\ \A t \in Sent(h, allow) : t = s
<1>1. /\ HubReady(h) /\ s \in Slots /\ FirstPending(h, s)
      /\ \A t \in Sent(h, allow) : FirstPending(h, t)
  BY DEF Sent
<1>2. PICK i \in DOMAIN CheckOrder : 
            /\ CheckOrder[i] = s /\ h[s].pending
            /\ \A j \in 1..(i - 1) : ~h[CheckOrder[j]].pending
  BY <1>1 DEF FirstPending
<1>3. ASSUME NEW t \in Sent(h, allow) PROVE t = s
  <2>1. PICK k \in DOMAIN CheckOrder : 
            /\ CheckOrder[k] = t /\ h[t].pending
            /\ \A j \in 1..(k - 1) : ~h[CheckOrder[j]].pending
    BY <1>1 DEF FirstPending
  <2>2. DOMAIN CheckOrder \in {1..1, 1..6}
    BY DEF CheckOrder
  <2>3. i \in Nat /\ k \in Nat /\ i >= 1 /\ k >= 1
    BY <2>2
  <2>4. i = k
    BY <1>2, <2>1, <2>3
  <2> QED BY <1>2, <2>1, <2>4
<1> QED BY <1>1, <1>2, <1>3 DEF HubReady, SlotReady

-----------------------------------------------------------------------------
LEMMA InitIInv == Init => IInv
<1> SUFFICES ASSUME Init PROVE IInv
  OBVIOUS
<1> USE DEF Init, HubInit, RestInit, DropCopyInit
<1>1. HubTypeOK
  BY DEF HubTypeOK, Slot, IdleSlot
<1>6. RestTypeOK
  <2>1. restUp \in BOOLEAN /\ retrying \in BOOLEAN /\ hasToken \in BOOLEAN
    OBVIOUS
  <2> QED BY <2>1, RestAssumption DEF RestTypeOK, NoCalls, RestAssumption
<1>7. DropCopyTypeOK
  <2>1. /\ suspended \in BOOLEAN /\ welcome \in BOOLEAN /\ ready \in BOOLEAN
        /\ logonTimeout \in BOOLEAN /\ simulate \in BOOLEAN
    OBVIOUS
  <2> QED BY <2>1, DropCopyAssumption DEF DropCopyTypeOK, States, DropCopyAssumption
<1>2. HubInv
  BY DEF HubInv, Single, Fresh, Unasked, IdleSlot
<1>3. CounterMatchesQueries
  BY FS_EmptySet DEF CounterMatchesQueries
<1>4. PhaseInv
  BY DEF PhaseInv
<1>5. ProgressInv
  BY DEF ProgressInv, AckedBefore, FetchedBefore, StepSent, GetStates, SlotOf
<1> QED BY <1>1, <1>2, <1>3, <1>4, <1>5, <1>6, <1>7 DEF IInv, TypeOK

-----------------------------------------------------------------------------
(* The steps of the REST connection leave the requests alone.               *)

LEMMA RestStep ==
    ASSUME IInv, RestConnect \/ RestDisconnect \/ RestRetry
    PROVE  IInv'
<1> USE DEF RestConnect, RestDisconnect, RestRetry, Rest
<1>1. RestTypeOK'
  <2> USE RestAssumption DEF RestAssumption, Downloading, DownloadToken, DownloadDone
  <2>1. RestTypeOK /\ Outstanding \in Nat
    BY DEF IInv, TypeOK, RestTypeOK, Outstanding
  <2>2. restUp' \in BOOLEAN /\ retrying' \in BOOLEAN /\ hasToken' \in BOOLEAN
    BY <2>1 DEF RestTypeOK, RestConnected, RestDisconnected, DownloadRetry
  <2>3. tokenCalls' \in [current : BOOLEAN, other : Nat]
    <3>1. CASE UNCHANGED tokenCalls
      BY <2>1, <3>1 DEF RestTypeOK
    <3>2. CASE tokenCalls' = [current |-> TRUE, other |-> Outstanding]
      BY <2>1, <3>2
    <3> QED BY <3>1, <3>2 DEF RestConnected, RestDisconnected, DownloadRetry
  <2>4. CASE RestConnect
    BY <2>1, <2>2, <2>3, <2>4 DEF RestTypeOK, RestConnected
  <2>5. CASE RestDisconnect
    BY <2>1, <2>2, <2>3, <2>5 DEF RestTypeOK, RestDisconnected
  <2>6. CASE RestRetry
    BY <2>1, <2>2, <2>3, <2>6 DEF RestTypeOK, DownloadRetry
  <2> QED BY <2>4, <2>5, <2>6
<1>2. HubTypeOK' /\ HubInv'
  BY DEF hubVars, IInv, TypeOK, HubTypeOK, HubInv, Single, Fresh, Unasked
<1>3. UNCHANGED <<counter, queries>>
  BY DEF RestConnected, RestDisconnected, DownloadRetry
<1>4. CounterMatchesQueries'
  BY <1>3 DEF hubVars, IInv, CounterMatchesQueries
<1>5. DropCopyTypeOK' /\ PhaseInv'
  BY DEF dcVars, IInv, TypeOK, DropCopyTypeOK, PhaseInv
<1>6. ProgressInv'
  BY DEF hubVars, dcVars, IInv, ProgressInv, StepSent
<1> QED BY <1>1, <1>2, <1>4, <1>5, <1>6 DEF IInv, TypeOK

(* What a callback that commits leaves of the parts about the requests.     *)
LEMMA CommitKeeps ==
    ASSUME IInv, NEW s \in Slots, hub' = Commit(hub, s), details' = details
    PROVE  /\ hub' \in Hubs /\ HubInv'
           /\ UNCHANGED <<dcState, fetched>> => StepSent(dcState, hub, fetched)'
<1>1. hub \in Hubs /\ Single(hub) /\ Fresh(hub) /\ Unasked(hub, details)
  BY DEF IInv, TypeOK, HubTypeOK, Hubs, HubInv
<1>2. /\ hub' \in Hubs /\ Fresh(hub') /\ Single(hub')
      /\ \A t \in Slots : hub'[t].pending = hub[t].pending
  BY <1>1, CommitLemma
<1>3. HubInv'
  BY <1>1, <1>2 DEF HubInv, Single, Fresh, Unasked, Slots
<1>4. ASSUME UNCHANGED <<dcState, fetched>> PROVE StepSent(dcState, hub, fetched)'
  BY <1>2, <1>4 DEF IInv, ProgressInv, StepSent, GetStates, SlotOf, Slots
<1> QED BY <1>2, <1>3, <1>4

LEMMA TokenAckStep ==
    ASSUME IInv, NEW current \in BOOLEAN, TokenAck(current)
    PROVE  IInv'
<1> USE DEF TokenAck
<1>1. /\ hub' \in Hubs /\ HubInv'
      /\ UNCHANGED <<dcState, fetched>> => StepSent(dcState, hub, fetched)'
  BY CommitKeeps DEF Slots
<1>2. UNCHANGED <<counter, queries, welcome, ready, dcStatus, dcState, logonTimeout,
                  simulate, acked, fetched, drops, fault>>
  BY DEF TokenError, TokenSkipped, TokenProcessed, PrivateToken, dcVars
<1>3. RestTypeOK'
  <2> USE RestAssumption
      DEF IInv, TypeOK, RestTypeOK, TokenCallback, RestAssumption, Downloading, DownloadDone
  <2>1. restUp' \in BOOLEAN /\ retrying' \in BOOLEAN /\ hasToken' \in BOOLEAN
    BY DEF TokenError, TokenSkipped, TokenProcessed
  <2>2. TokenCallback(current)
    BY DEF TokenError, TokenSkipped, TokenProcessed
  <2>6. tokenCalls' \in [current : BOOLEAN, other : Nat]
    <3>1. tokenCalls \in [current : BOOLEAN, other : Nat]
      OBVIOUS
    <3>2. CASE current
      <4>1. tokenCalls' = [tokenCalls EXCEPT !.current = FALSE]
        BY <2>2, <3>2
      <4> HIDE DEF TokenCallback, IInv, TypeOK
      <4> QED BY <3>1, <4>1
    <3>3. CASE ~current
      <4>1. tokenCalls.other > 0 /\ tokenCalls' = [tokenCalls EXCEPT !.other = @ - 1]
        BY <2>2, <3>3
      <4> HIDE DEF TokenCallback, IInv, TypeOK
      <4> QED BY <3>1, <4>1
    <3> QED BY <3>2, <3>3
  <2>3. CASE TokenError(current)
    BY <2>1, <2>6, <2>3 DEF TokenError
  <2>4. CASE TokenSkipped(current)
    BY <2>1, <2>6, <2>4 DEF TokenSkipped
  <2>5. ASSUME NEW success \in BOOLEAN, TokenProcessed(current, success) PROVE RestTypeOK'
    BY <2>1, <2>6, <2>5 DEF TokenProcessed
  <2> QED BY <2>3, <2>4, <2>5
<1>4. /\ socket' \in {"absent", "down", "connected", "open"}
      /\ suspended' \in BOOLEAN /\ query' \in Tokens \cup {NoToken}
      /\ socket' # socket => socket = "absent" /\ socket' = "down"
  BY DEF IInv, TypeOK, DropCopyTypeOK, PrivateToken, dcVars
<1>5. HubTypeOK' /\ DropCopyTypeOK'
  BY <1>1, <1>2, <1>4 DEF IInv, TypeOK, HubTypeOK, DropCopyTypeOK, Hubs
<1>6. hub'["stale_orders"] = hub["stale_orders"]
  BY DEF IInv, TypeOK, HubTypeOK, Commit, Slots
<1>7. CounterMatchesQueries'
  BY <1>2, <1>6 DEF IInv, CounterMatchesQueries
<1>8. PhaseInv'
  BY <1>2, <1>4 DEF IInv, PhaseInv
<1>9. ProgressInv'
  BY <1>1, <1>2 DEF IInv, ProgressInv
<1> QED BY <1>1, <1>3, <1>5, <1>7, <1>8, <1>9 DEF IInv, TypeOK

LEMMA SnapshotAckStep ==
    ASSUME IInv, NEW s \in Slots, SnapshotAck(s)
    PROVE  IInv'
<1> USE DEF SnapshotAck
<1>1. /\ hub' \in Hubs /\ HubInv' /\ StepSent(dcState, hub, fetched)'
  BY CommitKeeps DEF dcVars
<1>2. TypeOK'
  BY <1>1 DEF IInv, TypeOK, HubTypeOK, RestTypeOK, DropCopyTypeOK, Hubs, restVars, dcVars
<1>3. CounterMatchesQueries'
  <2>1. hub'["stale_orders"] = hub["stale_orders"]
    BY DEF Commit, IInv, TypeOK, HubTypeOK, Slots
  <2> QED BY <2>1 DEF IInv, CounterMatchesQueries, restVars
<1>4. PhaseInv'
  BY DEF IInv, PhaseInv, dcVars
<1>5. ProgressInv'
  BY <1>1 DEF IInv, ProgressInv, dcVars
<1> QED BY <1>1, <1>2, <1>3, <1>4, <1>5 DEF IInv

LEMMA QueriesAreFinite ==
    ASSUME IInv PROVE IsFiniteSet(queries)
<1>1. IsFiniteSet(StaleQueries)
  <2>1. IsFiniteSet(Orders)
    BY RestAssumption DEF RestAssumption
  <2> DEFINE f == [o \in Orders |-> StaleQuery(o)]
  <2>2. f \in Surjection(Orders, StaleQueries)
    BY DEF Surjection, StaleQueries
  <2> QED BY <2>1, <2>2, FS_Surjection
<1> QED BY <1>1, FS_Subset DEF IInv, TypeOK, RestTypeOK

LEMMA OrderAckStep ==
    ASSUME IInv, NEW q \in queries, OrderAck(q)
    PROVE  IInv'
<1> USE DEF OrderAck, OrderCallback, dcVars
<1>1. IsFiniteSet(queries) /\ counter = Cardinality(queries) /\ counter \in Nat
  BY QueriesAreFinite DEF IInv, TypeOK, RestTypeOK, CounterMatchesQueries
<1>2. /\ Cardinality(queries') = counter'
      /\ counter' \in Nat
      /\ IsFiniteSet(queries')
  BY <1>1, FS_RemoveElement
<1>3. counter' = 0 => queries' = {}
  BY <1>2, FS_EmptySet
<1>4. /\ hub' \in Hubs /\ HubInv' /\ StepSent(dcState, hub, fetched)'
  <2>1. CASE counter' = 0
    BY <2>1, CommitKeeps DEF Slots
  <2>2. CASE counter' # 0
    BY <2>2 DEF IInv, TypeOK, HubTypeOK, Hubs, HubInv, Single, Fresh, Unasked, ProgressInv, StepSent
  <2> QED BY <2>1, <2>2
<1>5. TypeOK'
  BY <1>2, <1>4 DEF IInv, TypeOK, HubTypeOK, RestTypeOK, DropCopyTypeOK, Hubs
<1>6. CounterMatchesQueries'
  BY <1>2, <1>3 DEF IInv, CounterMatchesQueries
<1>7. PhaseInv'
  BY DEF IInv, PhaseInv
<1>8. ProgressInv'
  BY <1>4 DEF IInv, ProgressInv
<1> QED BY <1>4, <1>5, <1>6, <1>7, <1>8 DEF IInv

-----------------------------------------------------------------------------
(* The steps of the web socket.                                             *)

(* What the state after a step owes to the step itself.                     *)
LEMMA FollowingLemma ==
    ASSUME NEW s \in SubscribeStates \cup GetStates, NEW d
    PROVE  LET n == Following(s, d) IN
           /\ n \in States \ {"UNDEFINED"} /\ n # s
           /\ s \in SubscribeStates =>
                /\ AckedBefore(n) = AckedBefore(s) \cup {s}
                /\ FetchedBefore(n) = FetchedBefore(s)
           /\ s \in GetStates =>
                /\ AckedBefore(n) = AckedBefore(s)
                /\ FetchedBefore(n) \subseteq FetchedBefore(s) \cup {s}
           /\ s = "GET_OPEN_ORDERS" /\ d # {} => n = "GET_STALE_ORDERS"
<1> USE DEF Following, Successor, States, SubscribeStates, GetStates, SlotOf,
            AckedBefore, FetchedBefore, RequiredSnapshots
<1>1. CASE s = "SUBSCRIBE_BALANCES"
  BY <1>1
<1>2. CASE s = "GET_BALANCES"
  BY <1>2
<1>3. CASE s = "SUBSCRIBE_POSITIONS"
  BY <1>3
<1>4. CASE s = "GET_POSITIONS"
  BY <1>4
<1>5. CASE s = "SUBSCRIBE_ORDERS"
  BY <1>5
<1>6. CASE s = "GET_OPEN_ORDERS"
  <2>1. CASE d = {}
    BY <1>6, <2>1
  <2>2. CASE d # {}
    BY <1>6, <2>2
  <2> QED BY <2>1, <2>2
<1>7. CASE s = "GET_STALE_ORDERS"
  BY <1>7
<1>8. CASE s = "SUBSCRIBE_TRADES"
  BY <1>8
<1>9. CASE s = "GET_TRADES"
  BY <1>9
<1> QED BY <1>1, <1>2, <1>3, <1>4, <1>5, <1>6, <1>7, <1>8, <1>9

(* The steps of the web socket that leave the download alone.               *)
LEMMA SocketStep ==
    ASSUME IInv, WsConnect \/ WsReady \/ WsDisconnect \/ WsResume
    PROVE  IInv'
<1> USE DEF WsConnect, WsReady, WsDisconnect, WsResume, Ws
<1>1. /\ RestTypeOK' /\ HubTypeOK' /\ HubInv' /\ stale' \in SUBSET Orders
      /\ UNCHANGED <<hub, details>>
  BY DEF hubVars, restVars, IInv, TypeOK, HubTypeOK, RestTypeOK, DropCopyTypeOK, HubInv, Single, Fresh, Unasked
<1>2. CounterMatchesQueries'
  BY DEF hubVars, restVars, IInv, CounterMatchesQueries
<1> DEFINE Booleans == /\ suspended \in BOOLEAN /\ welcome \in BOOLEAN /\ ready \in BOOLEAN
                       /\ logonTimeout \in BOOLEAN /\ simulate \in BOOLEAN
<1>3. Booleans
  BY DEF IInv, TypeOK, DropCopyTypeOK
<1>4. CASE WsConnect
  <2> USE <1>4 DEF SocketConnected
  <2>1. ~logonTimeout /\ UNCHANGED fault
    BY DEF IInv, PhaseInv
  <2>2. Booleans'
    BY <1>3
  <2>3. DropCopyTypeOK'
    BY <1>1, <2>1, <2>2 DEF IInv, TypeOK, DropCopyTypeOK
  <2>4. PhaseInv'
    BY <2>1 DEF IInv, PhaseInv
  <2>5. ProgressInv'
    BY <1>1 DEF IInv, ProgressInv, StepSent
  <2> QED BY <1>1, <1>2, <2>3, <2>4, <2>5 DEF IInv, TypeOK
<1>5. CASE WsReady
  <2> USE <1>5 DEF SocketReady
  <2>1. DropCopyTypeOK'
    BY <1>1, <1>3 DEF IInv, TypeOK, DropCopyTypeOK
  <2>2. PhaseInv'
    BY DEF IInv, PhaseInv
  <2>3. ProgressInv'
    BY <1>1 DEF IInv, ProgressInv, StepSent
  <2> QED BY <1>1, <1>2, <2>1, <2>2, <2>3 DEF IInv, TypeOK
<1>6. CASE WsDisconnect
  <2> USE <1>6 DEF SocketDisconnected, Disconnect
  <2>1. Booleans'
    BY <1>3
  <2>2. drops' \in 0..MaxDrops
    BY DropCopyAssumption DEF DropCopyAssumption, IInv, TypeOK, DropCopyTypeOK
  <2>3. DropCopyTypeOK'
    BY <1>1, <2>1, <2>2 DEF IInv, TypeOK, DropCopyTypeOK, States
  <2>4. PhaseInv'
    BY DEF IInv, PhaseInv
  <2>5. ProgressInv'
    BY DEF ProgressInv, StepSent, AckedBefore, FetchedBefore, GetStates, SlotOf
  <2> QED BY <1>1, <1>2, <2>3, <2>4, <2>5 DEF IInv, TypeOK
<1>7. CASE WsResume
  <2> USE <1>7 DEF SuspendExpired
  <2>1. DropCopyTypeOK'
    BY <1>1, <1>3 DEF IInv, TypeOK, DropCopyTypeOK
  <2>2. PhaseInv'
    BY DEF IInv, PhaseInv
  <2>3. ProgressInv'
    BY <1>1 DEF IInv, ProgressInv, StepSent
  <2> QED BY <1>1, <1>2, <2>1, <2>2, <2>3 DEF IInv, TypeOK
<1> QED BY <1>4, <1>5, <1>6, <1>7

LEMMA WelcomeStep ==
    ASSUME IInv, WsWelcome
    PROVE  IInv'
<1> USE DEF WsWelcome, Ws, Welcome, EnterState
<1>1. /\ RestTypeOK' /\ HubTypeOK' /\ HubInv' /\ stale' \in SUBSET Orders
  BY DEF hubVars, restVars, IInv, TypeOK, HubTypeOK, RestTypeOK, DropCopyTypeOK, HubInv, Single, Fresh, Unasked
<1>2. CounterMatchesQueries'
  BY DEF hubVars, restVars, IInv, CounterMatchesQueries
<1>3. ~ready /\ dcState = "UNDEFINED"
  BY DEF IInv, PhaseInv
<1>4. ready' = FALSE
  BY <1>3
<1>5. DropCopyTypeOK'
  BY <1>1, <1>4 DEF IInv, TypeOK, DropCopyTypeOK, States, SubscribeStates
<1>6. PhaseInv'
  BY <1>4 DEF IInv, PhaseInv
<1>7. ProgressInv'
  BY <1>3 DEF IInv, ProgressInv, StepSent, AckedBefore, FetchedBefore, GetStates, SlotOf
<1> QED BY <1>1, <1>2, <1>5, <1>6, <1>7 DEF IInv, TypeOK

(* Entering the state n reached from a state in which the download was.     *)
LEMMA EnterStateKeepsPhase ==
    ASSUME IInv, NEW n \in States \ {"UNDEFINED"}, dcState # "UNDEFINED", n # dcState,
           EnterState(n), UNCHANGED <<socket, welcome, logonTimeout>>,
           fault' = IF ReadyTwice(n) THEN "ready_twice" ELSE fault,
           dcState # "DONE"
    PROVE  PhaseInv' /\ ready' \in BOOLEAN /\ fault' = "none" /\ dcState' = n
           /\ dcStatus' \in {"DOWNLOADING", "READY"}
<1>1. ~ready /\ fault = "none"
  BY DEF IInv, PhaseInv
<1>2. ready' = (n = "DONE")
  BY <1>1 DEF EnterState
<1>3. fault' = "none"
  BY <1>1 DEF ReadyTwice
<1> QED BY <1>2, <1>3 DEF EnterState, IInv, PhaseInv

LEMMA AckStep ==
    ASSUME IInv, WsAck
    PROVE  IInv'
<1> USE DEF WsAck, Ws, Ack
<1> DEFINE n == Following(dcState, details)
<1>1. /\ dcState \in SubscribeStates /\ EnterState(n) /\ hub' = Enter(n, hub)
      /\ fault' = IF ReadyTwice(n) THEN "ready_twice" ELSE fault
      /\ acked' = acked \cup {dcState}
  OBVIOUS
<1>2. /\ n \in States \ {"UNDEFINED"} /\ n # dcState
      /\ AckedBefore(n) = AckedBefore(dcState) \cup {dcState}
      /\ FetchedBefore(n) = FetchedBefore(dcState)
  BY <1>1, FollowingLemma
<1> HIDE DEF n
<1>3. hub \in Hubs /\ Fresh(hub) /\ Single(hub) /\ Unasked(hub, details)
  BY DEF IInv, TypeOK, HubTypeOK, Hubs, HubInv
<1>4. /\ hub' \in Hubs /\ Fresh(hub') /\ SameFlights(hub, hub')
      /\ n \in GetStates => hub'[SlotOf[n]].pending
      /\ \A t \in Slots : hub[t].pending => hub'[t].pending
  BY <1>1, <1>2, <1>3, EnterLemma
<1>5. HubInv'
  BY <1>3, <1>4 DEF HubInv, Single, Unasked, SameFlights, Slots
<1>6. CounterMatchesQueries'
  BY <1>4 DEF IInv, CounterMatchesQueries, SameFlights, Slots, restVars
<1>7. dcState # "UNDEFINED" /\ dcState # "DONE"
  BY <1>1 DEF SubscribeStates
<1>8. PhaseInv' /\ ready' \in BOOLEAN /\ fault' = "none" /\ dcState' = n
           /\ dcStatus' \in {"DOWNLOADING", "READY"}
  BY <1>1, <1>2, <1>7, EnterStateKeepsPhase
<1>9. TypeOK'
  BY <1>1, <1>2, <1>4, <1>8 DEF IInv, TypeOK, HubTypeOK, RestTypeOK, DropCopyTypeOK, Hubs, restVars
<1>10. ProgressInv'
  BY <1>1, <1>2, <1>4, <1>8 DEF IInv, ProgressInv, StepSent
<1> QED BY <1>5, <1>6, <1>8, <1>9, <1>10 DEF IInv

LEMMA OrdersChangeStep ==
    ASSUME IInv, OrdersChange
    PROVE  IInv'
<1> USE DEF OrdersChange, restVars, hubVars, dcVars
<1>1. stale' \in SUBSET Orders
  BY DEF IInv, TypeOK, DropCopyTypeOK
<1>2. TypeOK'
  BY <1>1 DEF IInv, TypeOK, HubTypeOK, RestTypeOK, DropCopyTypeOK
<1>3. HubInv' /\ CounterMatchesQueries' /\ PhaseInv' /\ ProgressInv'
  BY DEF IInv, HubInv, Single, Fresh, Unasked, CounterMatchesQueries, PhaseInv, ProgressInv, StepSent
<1> QED BY <1>2, <1>3 DEF IInv

-----------------------------------------------------------------------------
(* The timer, first half: what OrderEntryREST sends.                        *)

(* The requests as the timer of DropCopy finds them.                        *)
Between(h, d, f) ==
    /\ h \in Hubs /\ Single(h) /\ Fresh(h)
    /\ d \in SUBSET Orders /\ Unasked(h, d)
    /\ f \in SUBSET GetStates /\ fetched \subseteq f /\ StepSent(dcState, h, f)

LEMMA SendAllLemma ==
    ASSUME IInv, NEW allow \in BOOLEAN
    PROVE  LET sent == Sent(hub, allow)
               d == IF "stale_orders" \in sent THEN {} ELSE details
           IN  Between(SendAll(hub, sent), d, Fetched(sent))
<1> DEFINE sent == Sent(hub, allow)
           d == IF "stale_orders" \in sent THEN {} ELSE details
           g == SendAll(hub, sent)
<1>1. hub \in Hubs /\ Single(hub) /\ Fresh(hub) /\ Unasked(hub, details)
  BY DEF IInv, TypeOK, HubTypeOK, Hubs, HubInv
<1>2. details \in SUBSET Orders /\ fetched \in SUBSET GetStates /\ StepSent(dcState, hub, fetched)
  BY DEF IInv, TypeOK, HubTypeOK, DropCopyTypeOK, ProgressInv
<1>3. \A s \in sent : /\ s \in Slots /\ \A t \in Slots : ~hub[t].inflight
                      /\ \A t \in sent : t = s
  BY <1>1, SentLemma
<1> HIDE DEF sent
<1>4. \A s \in Slots : 
        g[s] = IF s \in sent THEN [pending |-> FALSE, inflight |-> TRUE, response |-> FALSE] ELSE hub[s]
  BY <1>1 DEF SendAll, Send, Hubs
<1>5. g \in Hubs
  <2>1. g = [s \in Slots |-> g[s]]
    BY DEF SendAll
  <2> HIDE DEF g
  <2>2. ASSUME NEW s \in Slots PROVE g[s] \in Slot
    <3>1. hub[s] \in Slot
      BY <1>1 DEF Hubs
    <3>2. [pending |-> FALSE, inflight |-> TRUE, response |-> FALSE] \in Slot
      BY DEF Slot
    <3> QED BY <1>4, <3>1, <3>2
  <2> QED BY <2>1, <2>2 DEF Hubs
<1>6. Single(g) /\ Fresh(g)
  BY <1>1, <1>3, <1>4 DEF Single, Fresh
<1>7. d \in SUBSET Orders /\ Unasked(g, d)
  BY <1>1, <1>2, <1>4 DEF Unasked, Slots
<1>8. Fetched(sent) \in SUBSET GetStates /\ fetched \subseteq Fetched(sent)
  BY <1>2 DEF Fetched
<1>9. StepSent(dcState, g, Fetched(sent))
  <2> SUFFICES ASSUME dcState \in GetStates, ~g[SlotOf[dcState]].pending
               PROVE  dcState \in Fetched(sent)
    BY DEF StepSent
  <2>1. SlotOf[dcState] \in Slots
    BY DEF GetStates, SlotOf, Slots
  <2>2. CASE SlotOf[dcState] \in sent
    BY <2>2 DEF Fetched
  <2>3. CASE SlotOf[dcState] \notin sent
    <3>1. ~hub[SlotOf[dcState]].pending
      BY <1>4, <2>1, <2>3
    <3> QED BY <1>2, <3>1 DEF StepSent, Fetched
  <2> QED BY <2>2, <2>3
<1> QED BY <1>5, <1>6, <1>7, <1>8, <1>9 DEF Between, sent

(* What it sends keeps the variables of OrderEntryREST in order.            *)
LEMMA RestTimerLemma ==
    ASSUME IInv, NEW allow \in BOOLEAN, NEW found \in SUBSET details,
           RestTimer(Sent(hub, allow), found)
    PROVE  /\ RestTypeOK'
           /\ counter' = Cardinality(queries')
           /\ queries' # {} => SendAll(hub, Sent(hub, allow))["stale_orders"].inflight
<1> DEFINE sent == Sent(hub, allow)
           asked == {StaleQuery(o) : o \in found}
<1>1. /\ hub \in Hubs /\ details \in SUBSET Orders /\ RestTypeOK
      /\ counter = Cardinality(queries)
      /\ queries # {} => hub["stale_orders"].inflight
  BY DEF IInv, TypeOK, HubTypeOK, Hubs, CounterMatchesQueries
<1>2. SendAll(hub, sent)["stale_orders"].inflight
        = IF "stale_orders" \in sent THEN TRUE ELSE hub["stale_orders"].inflight
  BY <1>1 DEF SendAll, Send, Hubs, Slots
<1>3. "stale_orders" \in sent => queries = {}
  <2>1. "stale_orders" \in sent => ~hub["stale_orders"].inflight
    BY <1>1, SentLemma DEF Slots
  <2> QED BY <1>1, <2>1
<1>10. RestTimer(sent, found)
  OBVIOUS
<1> HIDE DEF sent
<1>4. Cardinality(asked) = Cardinality(found) /\ Cardinality(found) \in Nat
  <2>1. IsFiniteSet(found)
    BY <1>1, RestAssumption, FS_Subset DEF RestAssumption
  <2> DEFINE f == [o \in found |-> StaleQuery(o)]
  <2>2. \A o, p \in found : f[o] = f[p] => o = p
    BY DEF StaleQuery
  <2>4. f \in [found -> asked] /\ \A q \in asked : \E o \in found : f[o] = q
    OBVIOUS
  <2> HIDE DEF f, asked
  <2>5. f \in Bijection(found, asked)
    BY <2>2, <2>4 DEF Bijection, Injection, Surjection, IsInjective
  <2>3. Cardinality(found) = Cardinality(asked)
    BY <2>1, <2>5, FS_Bijection DEF ExistsBijection
  <2> QED BY <2>1, <2>3, FS_CardinalityType
<1>5. asked \in SUBSET StaleQueries
  BY <1>1 DEF StaleQueries
<1>6. /\ counter' \in Nat /\ queries' \in SUBSET StaleQueries
      /\ counter' = Cardinality(queries')
  <2>1. CASE "stale_orders" \in sent
    <3>1. queries' = asked
      BY <1>3, <1>10, <2>1 DEF RestTimer
    <3>2. counter = 0
      BY <1>1, <1>3, <2>1, FS_EmptySet
    <3>3. counter' = Cardinality(found)
      BY <1>4, <1>10, <2>1, <3>2 DEF RestTimer
    <3> QED BY <1>4, <1>5, <3>1, <3>3
  <2>2. CASE "stale_orders" \notin sent
    <3>1. UNCHANGED <<counter, queries>>
      BY <1>10, <2>2 DEF RestTimer
    <3> QED BY <1>1, <3>1 DEF RestTypeOK
  <2> QED BY <2>1, <2>2
<1>7. tokenCalls' \in [current : BOOLEAN, other : Nat]
  <2>1. tokenCalls \in [current : BOOLEAN, other : Nat]
    BY <1>1 DEF RestTypeOK
  <2>2. CASE "private_token" \in sent
    <3>1. tokenCalls' = [tokenCalls EXCEPT !.other = @ + 1]
      BY <1>10, <2>2 DEF RestTimer
    <3> QED BY <2>1, <3>1
  <2>3. CASE "private_token" \notin sent
    BY <1>10, <2>1, <2>3 DEF RestTimer
  <2> QED BY <2>2, <2>3
<1>8. RestTypeOK'
  BY <1>1, <1>6, <1>7, <1>10 DEF RestTypeOK, RestTimer
<1>9. queries' # {} => "stale_orders" \in sent \/ hub["stale_orders"].inflight
  BY <1>1, <1>10 DEF RestTimer
<1> QED BY <1>2, <1>6, <1>8, <1>9 DEF sent

-----------------------------------------------------------------------------
(* The timer, second half: what DropCopy makes of the answers.              *)

(* No stale order is left when GET_STALE_ORDERS has been answered.          *)
LEMMA NoUnexpectedStaleOrders ==
    ASSUME NEW h, NEW d, NEW f, Between(h, d, f)
    PROVE  ~UnexpectedStaleOrders(h, d)
BY DEF Between, UnexpectedStaleOrders, Answered, SlotOf, GetStates, Unasked, Fresh, Slots

LEMMA CheckRequestQueueLemma ==
    ASSUME IInv, NEW h, NEW d, NEW f, Between(h, d, f)
    PROVE  LET q == CheckRequestQueue(h, d) IN
           /\ q.hub \in Hubs /\ Fresh(q.hub) /\ SameFlights(h, q.hub)
           /\ q.details \in SUBSET Orders /\ Unasked(q.hub, q.details)
           /\ q.state \in States
           /\ q.state # dcState => /\ q.state # "UNDEFINED"
                                   /\ dcState # "UNDEFINED" /\ dcState # "DONE"
           /\ AckedBefore(q.state) = AckedBefore(dcState)
           /\ FetchedBefore(q.state) \subseteq f
           /\ StepSent(q.state, q.hub, f)
<1>1. /\ h \in Hubs /\ Fresh(h) /\ d \in SUBSET Orders /\ Unasked(h, d)
      /\ f \in SUBSET GetStates /\ fetched \subseteq f /\ StepSent(dcState, h, f)
  BY DEF Between
<1>2. dcState \in States /\ stale \in SUBSET Orders /\ FetchedBefore(dcState) \subseteq f
  BY <1>1 DEF IInv, TypeOK, DropCopyTypeOK, ProgressInv
<1>3. CASE ~Answered(h)
  <2>1. CheckRequestQueue(h, d) = [state |-> dcState, hub |-> h, details |-> d]
    BY <1>3 DEF CheckRequestQueue
  <2> QED BY <1>1, <1>2, <2>1 DEF SameFlights
<1>4. CASE Answered(h)
  <2> DEFINE d2 == IF dcState = "GET_OPEN_ORDERS" THEN d \cup stale ELSE d
             n == Following(dcState, d2)
             h2 == Consume(h, SlotOf[dcState])
             g == Enter(n, h2)
  <2>1. CheckRequestQueue(h, d) = [state |-> n, hub |-> g, details |-> d2]
    BY <1>4 DEF CheckRequestQueue
  <2>2. dcState \in GetStates /\ SlotOf[dcState] \in Slots /\ h[SlotOf[dcState]].response
    BY <1>4 DEF Answered, GetStates, SlotOf, Slots
  <2>3. dcState \in f
    BY <1>1, <2>2 DEF Fresh, StepSent
  <2>4. /\ n \in States \ {"UNDEFINED"} /\ n # dcState
        /\ AckedBefore(n) = AckedBefore(dcState)
        /\ FetchedBefore(n) \subseteq FetchedBefore(dcState) \cup {dcState}
        /\ dcState = "GET_OPEN_ORDERS" /\ d2 # {} => n = "GET_STALE_ORDERS"
    <3> HIDE DEF d2
    <3> QED BY <2>2, FollowingLemma DEF n
  <2>5. d2 \in SUBSET Orders
    BY <1>1, <1>2
  <2>6. /\ h2 \in Hubs /\ Fresh(h2) /\ SameFlights(h, h2)
        /\ \A t \in Slots : h2[t].pending = h[t].pending
    BY <1>1, <2>2, ConsumeLemma
  <2> HIDE DEF n, h2
  <2>7. /\ g \in Hubs /\ Fresh(g) /\ SameFlights(h2, g)
        /\ n \in GetStates => g[SlotOf[n]].pending
        /\ \A t \in Slots : h2[t].pending => g[t].pending
    BY <2>4, <2>6, EnterLemma
  <2>8. SameFlights(h, g)
    BY <2>6, <2>7 DEF SameFlights
  <2>9. Unasked(g, d2)
    <3>1. CASE dcState = "GET_OPEN_ORDERS"
      <4> SUFFICES ASSUME d2 # {} PROVE g["stale_orders"].pending
        BY DEF Unasked
      <4>1. n = "GET_STALE_ORDERS"
        BY <2>4, <3>1
      <4> QED BY <2>7, <4>1 DEF GetStates, SlotOf
    <3>2. CASE dcState # "GET_OPEN_ORDERS"
      BY <1>1, <2>6, <2>7, <3>2 DEF Unasked, Slots
    <3> QED BY <3>1, <3>2
  <2>10. StepSent(n, g, f)
    BY <2>7 DEF StepSent
  <2>11. dcState # "UNDEFINED" /\ dcState # "DONE"
    BY <2>2 DEF GetStates, SlotOf
  <2>12. FetchedBefore(n) \subseteq f
    BY <1>2, <2>3, <2>4
  <2> HIDE DEF g, d2
  <2> QED BY <2>1, <2>4, <2>5, <2>7, <2>8, <2>9, <2>10, <2>11, <2>12
<1> QED BY <1>3, <1>4

LEMMA CheckStaleOrdersLemma ==
    ASSUME NEW h \in Hubs, Fresh(h), NEW d \in SUBSET Orders, Unasked(h, d), stale \in SUBSET Orders
    PROVE  LET c == CheckStaleOrders(h, d) IN
           /\ c.hub \in Hubs /\ Fresh(c.hub) /\ SameFlights(h, c.hub)
           /\ c.details \in SUBSET Orders /\ Unasked(c.hub, c.details)
<1>1. CASE stale \subseteq d
  BY <1>1 DEF CheckStaleOrders, SameFlights, Unasked
<1>2. CASE ~(stale \subseteq d)
  <2> DEFINE g == Request(h, "stale_orders")
  <2>1. g \in Hubs /\ Fresh(g) /\ SameFlights(h, g) /\ g["stale_orders"].pending
    BY RequestLemma DEF Slots
  <2> HIDE DEF g
  <2>2. CheckStaleOrders(h, d) = [hub |-> g, details |-> d \cup stale]
    BY <1>2 DEF CheckStaleOrders, g
  <2> QED BY <2>1, <2>2 DEF Unasked
<1> QED BY <1>1, <1>2

(* What a timer of DropCopy leaves of the parts it can disturb.             *)
After(h) ==
    /\ hub' \in Hubs /\ Fresh(hub') /\ SameFlights(h, hub')
    /\ details' \in SUBSET Orders /\ Unasked(hub', details')
    /\ DropCopyTypeOK' /\ PhaseInv' /\ ProgressInv'

LEMMA OpenTimerLemma ==
    ASSUME IInv, NEW h, NEW d, NEW f, NEW due \in BOOLEAN, NEW expire \in BOOLEAN,
           Between(h, d, f), OpenTimer(h, d, due, expire), fetched' = f,
           UNCHANGED <<socket, welcome, logonTimeout, acked, drops, stale>>
    PROVE  After(h)
<1> DEFINE q == CheckRequestQueue(h, d)
           polled == IF q.state = "DONE" THEN Consume(q.hub, "private_token") ELSE q.hub
           checked == IF q.state = "DONE" /\ due
                      THEN CheckStaleOrders(polled, q.details)
                      ELSE [hub |-> polled, details |-> q.details]
           expired == q.state = "DONE" /\ expire /\ simulate
<1>1. /\ q.hub \in Hubs /\ Fresh(q.hub) /\ SameFlights(h, q.hub)
      /\ q.details \in SUBSET Orders /\ Unasked(q.hub, q.details)
      /\ q.state \in States
      /\ q.state # dcState => /\ q.state # "UNDEFINED"
                              /\ dcState # "UNDEFINED" /\ dcState # "DONE"
      /\ AckedBefore(q.state) = AckedBefore(dcState)
      /\ FetchedBefore(q.state) \subseteq f
      /\ StepSent(q.state, q.hub, f)
  BY CheckRequestQueueLemma
<1>2. /\ IF q.state # dcState THEN EnterState(q.state) ELSE UNCHANGED <<dcState, dcStatus, ready>>
      /\ details' = checked.details
      /\ hub' = IF expired THEN RequestPrivateToken(checked.hub) ELSE checked.hub
      /\ query' = IF expired THEN NoToken ELSE query
      /\ suspended' = (suspended \/ (expired /\ query # NoToken))
      /\ simulate' = (simulate /\ ~expired)
      /\ fault' = IF UnexpectedStaleOrders(h, d) THEN "stale_orders"
                  ELSE IF q.state # dcState /\ ReadyTwice(q.state) THEN "ready_twice" ELSE fault
  BY DEF OpenTimer
<1>3. fault' = IF q.state # dcState /\ ReadyTwice(q.state) THEN "ready_twice" ELSE fault
  BY <1>2, NoUnexpectedStaleOrders
<1> HIDE DEF q
<1>4. /\ polled \in Hubs /\ Fresh(polled) /\ SameFlights(q.hub, polled)
      /\ \A t \in Slots : polled[t].pending = q.hub[t].pending
  <2>1. CASE q.state = "DONE"
    BY <1>1, <2>1, ConsumeLemma DEF Slots
  <2>2. CASE q.state # "DONE"
    BY <1>1, <2>2 DEF SameFlights
  <2> QED BY <2>1, <2>2
<1>5. Unasked(polled, q.details) /\ StepSent(q.state, polled, f)
  BY <1>1, <1>4 DEF Unasked, StepSent, GetStates, SlotOf, Slots
<1> HIDE DEF polled
<1>6. /\ checked.hub \in Hubs /\ Fresh(checked.hub) /\ SameFlights(polled, checked.hub)
      /\ checked.details \in SUBSET Orders /\ Unasked(checked.hub, checked.details)
  <2>1. CASE q.state = "DONE" /\ due
    <3>1. stale \in SUBSET Orders
      BY DEF IInv, TypeOK, DropCopyTypeOK
    <3> QED BY <1>1, <1>4, <1>5, <2>1, <3>1, CheckStaleOrdersLemma
  <2>2. CASE ~(q.state = "DONE" /\ due)
    BY <1>1, <1>4, <1>5, <2>2 DEF SameFlights
  <2> QED BY <2>1, <2>2
<1>7. q.state # "DONE" => checked.hub = polled /\ ~expired
  OBVIOUS
<1> HIDE DEF checked
<1>8. /\ hub' \in Hubs /\ Fresh(hub') /\ SameFlights(checked.hub, hub')
      /\ Unasked(hub', details')
  <2>1. CASE expired /\ query # NoToken
    <3>1. hub' = Request(checked.hub, "private_token")
      BY <1>2, <2>1 DEF RequestPrivateToken
    <3>2. /\ hub' \in Hubs /\ Fresh(hub') /\ SameFlights(checked.hub, hub')
          /\ \A t \in Slots : checked.hub[t].pending => hub'[t].pending
      BY <1>6, <3>1, RequestLemma DEF Slots
    <3> QED BY <1>2, <1>6, <3>2 DEF Unasked, Slots
  <2>2. CASE ~(expired /\ query # NoToken)
    <3>1. hub' = checked.hub
      BY <1>2, <2>2 DEF RequestPrivateToken
    <3> QED BY <1>2, <1>6, <3>1 DEF SameFlights
  <2> QED BY <2>1, <2>2
<1>9. SameFlights(h, hub')
  BY <1>1, <1>4, <1>6, <1>8 DEF SameFlights
<1>10. StepSent(q.state, hub', f)
  <2>1. CASE q.state = "DONE"
    BY <2>1 DEF StepSent, GetStates, SlotOf
  <2>2. CASE q.state # "DONE"
    BY <1>2, <1>5, <1>7, <2>2
  <2> QED BY <2>1, <2>2
<1>11. /\ PhaseInv' /\ ready' \in BOOLEAN /\ fault' = "none" /\ dcState' = q.state
       /\ dcStatus' \in {"UNDEFINED", "DISCONNECTED", "DOWNLOADING", "READY"}
  <2>1. CASE q.state = dcState
    <3>1. UNCHANGED <<dcState, dcStatus, ready, fault>>
      BY <1>2, <1>3, <2>1
    <3>2. PhaseInv'
      BY <3>1 DEF IInv, PhaseInv
    <3> QED BY <2>1, <3>1, <3>2 DEF IInv, TypeOK, DropCopyTypeOK, PhaseInv
  <2>2. CASE q.state # dcState
    <3>1. /\ EnterState(q.state) /\ q.state \in States \ {"UNDEFINED"}
          /\ dcState # "UNDEFINED" /\ dcState # "DONE"
          /\ fault' = IF ReadyTwice(q.state) THEN "ready_twice" ELSE fault
      BY <1>1, <1>2, <1>3, <2>2
    <3> QED BY <2>2, <3>1, EnterStateKeepsPhase
  <2> QED BY <2>1, <2>2
<1>12. ProgressInv'
  BY <1>1, <1>10, <1>11 DEF IInv, ProgressInv
<1>13. /\ suspended' \in BOOLEAN /\ simulate' \in BOOLEAN
       /\ welcome' \in BOOLEAN /\ logonTimeout' \in BOOLEAN
  BY <1>2 DEF IInv, TypeOK, DropCopyTypeOK
<1>14. query' \in Tokens \cup {NoToken} /\ fetched' \in SUBSET GetStates
  BY <1>2 DEF IInv, TypeOK, DropCopyTypeOK, Between
<1>15. DropCopyTypeOK'
  BY <1>1, <1>11, <1>13, <1>14 DEF IInv, TypeOK, DropCopyTypeOK
<1> QED BY <1>2, <1>6, <1>8, <1>9, <1>11, <1>12, <1>15 DEF After

LEMMA DropCopyTimerLemma ==
    ASSUME IInv, NEW h, NEW d, NEW f, NEW due \in BOOLEAN, NEW expire \in BOOLEAN,
           Between(h, d, f), DropCopyTimer(h, d, f, due, expire), UNCHANGED stale
    PROVE  After(h)
<1>1. CASE /\ OpenTimer(h, d, due, expire) /\ fetched' = f
           /\ UNCHANGED <<socket, welcome, logonTimeout, acked, drops>>
  BY <1>1, OpenTimerLemma
<1>2. CASE /\ hub' = h /\ details' = d /\ fetched' = f
           /\ UNCHANGED <<socket, suspended, query, welcome, ready, dcStatus, dcState,
                          logonTimeout, simulate, acked, drops, fault>>
  <2>1. PhaseInv'
    BY <1>2 DEF IInv, PhaseInv
  <2>2. ProgressInv'
    BY <1>2 DEF IInv, ProgressInv, Between
  <2>3. DropCopyTypeOK'
    BY <1>2 DEF IInv, TypeOK, DropCopyTypeOK, Between
  <2> QED BY <1>2, <2>1, <2>2, <2>3 DEF After, Between, SameFlights
<1>3. CASE /\ socket = "connected" /\ drops < MaxDrops
           /\ hub' = h /\ details' = d
           /\ fault' = IF welcome THEN "welcome" ELSE fault
           /\ drops' = drops + 1
           /\ Disconnect
           /\ UNCHANGED <<suspended, query, simulate>>
  <2> USE <1>3 DEF Disconnect
  <2>1. fault' = "none"
    BY DEF IInv, PhaseInv
  <2>2. PhaseInv'
    BY <2>1 DEF IInv, PhaseInv
  <2>3. ProgressInv'
    BY DEF ProgressInv, StepSent, AckedBefore, FetchedBefore, GetStates, SlotOf
  <2>4. /\ suspended' \in BOOLEAN /\ welcome' \in BOOLEAN /\ ready' \in BOOLEAN
        /\ logonTimeout' \in BOOLEAN /\ simulate' \in BOOLEAN
    BY DEF IInv, TypeOK, DropCopyTypeOK
  <2>5. drops' \in 0..MaxDrops
    BY DropCopyAssumption DEF DropCopyAssumption, IInv, TypeOK, DropCopyTypeOK
  <2>6. DropCopyTypeOK'
    BY <2>1, <2>4, <2>5 DEF IInv, TypeOK, DropCopyTypeOK, States
  <2> QED BY <2>2, <2>3, <2>6 DEF After, Between, SameFlights
<1> QED BY <1>1, <1>2, <1>3 DEF DropCopyTimer

LEMMA TimerStep ==
    ASSUME IInv, NEW allow \in BOOLEAN, NEW due \in BOOLEAN, NEW expire \in BOOLEAN,
           Timer(allow, due, expire)
    PROVE  IInv'
<1> DEFINE sent == Sent(hub, allow)
           h == SendAll(hub, sent)
           d == IF "stale_orders" \in sent THEN {} ELSE details
           f == Fetched(sent)
<1>1. PICK found \in SUBSET details :
        /\ RestTimer(sent, found)
        /\ IF socket = "absent"
           THEN hub' = h /\ details' = d /\ UNCHANGED dcVars
           ELSE DropCopyTimer(h, d, f, due, expire)
        /\ UNCHANGED stale
  BY DEF Timer
<1>2. Between(h, d, f)
  BY SendAllLemma
<1>3. /\ RestTypeOK'
      /\ counter' = Cardinality(queries')
      /\ queries' # {} => h["stale_orders"].inflight
  BY <1>1, RestTimerLemma
<1> HIDE DEF h, d
<1>4. After(h)
  <2>1. CASE socket = "absent"
    <3>1. hub' = h /\ details' = d /\ UNCHANGED <<dcVars, stale>>
      BY <1>1, <2>1
    <3>2. dcState = "UNDEFINED"
      BY <2>1 DEF IInv, PhaseInv
    <3>3. PhaseInv'
      BY <3>1 DEF IInv, PhaseInv, dcVars
    <3>4. ProgressInv'
      BY <3>1, <3>2 DEF IInv, ProgressInv, StepSent, GetStates, SlotOf, dcVars
    <3>5. DropCopyTypeOK'
      BY <3>1 DEF IInv, TypeOK, DropCopyTypeOK, dcVars
    <3> QED BY <1>2, <3>1, <3>3, <3>4, <3>5 DEF After, Between, SameFlights
  <2>2. CASE socket # "absent"
    BY <1>1, <1>2, <2>2, DropCopyTimerLemma
  <2> QED BY <2>1, <2>2
<1>5. HubTypeOK' /\ HubInv'
  BY <1>2, <1>4 DEF After, Between, HubTypeOK, Hubs, HubInv, Single, SameFlights
<1>6. CounterMatchesQueries'
  BY <1>3, <1>4 DEF After, CounterMatchesQueries, SameFlights, Slots
<1> QED BY <1>3, <1>4, <1>5, <1>6 DEF After, IInv, TypeOK

-----------------------------------------------------------------------------
(* Every step of an account keeps the inductive invariant.                  *)
LEMMA NextKeepsIInv == IInv /\ [Next]_vars => IInv'
<1> SUFFICES ASSUME IInv, [Next]_vars PROVE IInv'
  OBVIOUS
<1>1. CASE RestConnect \/ RestDisconnect \/ RestRetry
  BY <1>1, RestStep
<1>2. ASSUME NEW current \in BOOLEAN, TokenAck(current) PROVE IInv'
  BY <1>2, TokenAckStep
<1>3. ASSUME NEW s \in Slots, SnapshotAck(s) PROVE IInv'
  BY <1>3, SnapshotAckStep
<1>4. ASSUME NEW q \in queries, OrderAck(q) PROVE IInv'
  BY <1>4, OrderAckStep
<1>5. CASE WsConnect \/ WsReady \/ WsDisconnect \/ WsResume
  BY <1>5, SocketStep
<1>6. CASE WsWelcome
  BY <1>6, WelcomeStep
<1>7. CASE WsAck
  BY <1>7, AckStep
<1>8. CASE OrdersChange
  BY <1>8, OrdersChangeStep
<1>9. ASSUME NEW allow \in BOOLEAN, NEW due \in BOOLEAN, NEW expire \in BOOLEAN,
             Timer(allow, due, expire)
      PROVE  IInv'
  BY <1>9, TimerStep
<1>10. CASE UNCHANGED vars
  <2> USE <1>10 DEF vars, restVars, dcVars, hubVars
  <2>1. TypeOK'
    BY DEF IInv, TypeOK, HubTypeOK, RestTypeOK, DropCopyTypeOK
  <2>2. HubInv' /\ CounterMatchesQueries' /\ PhaseInv' /\ ProgressInv'
    BY DEF IInv, HubInv, Single, Fresh, Unasked, CounterMatchesQueries, PhaseInv, ProgressInv, StepSent
  <2> QED BY <2>1, <2>2 DEF IInv
<1> QED BY <1>1, <1>2, <1>3, <1>4, <1>5, <1>6, <1>7, <1>8, <1>9, <1>10 DEF Next

(* The inductive invariant holds in every state of an account.              *)
THEOREM Invariance == Spec => []IInv
<1>1. Init => IInv
  BY InitIInv
<1>2. IInv /\ [Next]_vars => IInv'
  BY NextKeepsIInv
<1> QED BY <1>1, <1>2, PTL DEF Spec

(* The members keep their types.                                            *)
THEOREM TypeCorrect == Spec => []TypeOK
<1>1. IInv => TypeOK
  BY DEF IInv
<1> QED BY <1>1, Invariance, PTL

(* The asserts at drop_copy.cpp:141,191,296 and the log::fatal at 465 are   *)
(* never hit, for any number of reconnects, failures and orders.            *)
THEOREM NeverFaults == Spec => []NoFault
<1>1. IInv => NoFault
  BY DEF IInv, PhaseInv, NoFault
<1> QED BY <1>1, Invariance, PTL

(* The stale orders counter is the number of outstanding order queries.     *)
THEOREM CounterIsExact == Spec => []CounterMatchesQueries
<1>1. IInv => CounterMatchesQueries
  BY DEF IInv
<1> QED BY <1>1, Invariance, PTL

(* A stale order not asked for yet has a request waiting for it.            *)
THEOREM NothingUnaskedIsForgotten == Spec => []UnaskedOrdersArePending
<1>1. IInv => UnaskedOrdersArePending
  BY DEF IInv, HubInv, Unasked, UnaskedOrdersArePending
<1> QED BY <1>1, Invariance, PTL

(* READY means that this session subscribed to and fetched everything.      *)
THEOREM ReadyMeansComplete == Spec => []ReadyIsComplete
<1>1. IInv => ReadyIsComplete
  <2> SUFFICES ASSUME IInv, dcStatus = "READY"
               PROVE  /\ ready /\ welcome /\ socket = "open"
                      /\ acked = SubscribeStates
                      /\ RequiredSnapshots \subseteq fetched
    BY DEF ReadyIsComplete
  <2>1. dcState = "DONE"
    BY DEF IInv, PhaseInv
  <2>2. ready /\ welcome /\ socket = "open"
    BY <2>1 DEF IInv, PhaseInv
  <2>3. AckedBefore(dcState) = SubscribeStates /\ FetchedBefore(dcState) = RequiredSnapshots
    BY <2>1 DEF AckedBefore, FetchedBefore
  <2> QED BY <2>2, <2>3 DEF IInv, ProgressInv
<1> QED BY <1>1, Invariance, PTL

-----------------------------------------------------------------------------
(* The token is asked for again.  Two facts carry the proof: the private    *)
(* session exists only once a token was downloaded, and from then on the    *)
(* download never runs again, so no callback is skipped.                    *)

TokenInv ==
    /\ socket # "absent" => hasToken
    /\ Downloading => ~hasToken
    /\ TokenIsReplaced

(* Requests that wait stay so until they are sent.                          *)
Keeps(h, g) == \A s \in Slots : h[s].pending => g[s].pending

LEMMA CheckRequestQueueKeeps ==
    ASSUME IInv, NEW h, NEW d, NEW f, Between(h, d, f)
    PROVE  Keeps(h, CheckRequestQueue(h, d).hub)
<1>1. h \in Hubs /\ Fresh(h) /\ d \in SUBSET Orders
  BY DEF Between
<1>2. CASE ~Answered(h)
  BY <1>2 DEF CheckRequestQueue, Keeps
<1>3. CASE Answered(h)
  <2> DEFINE d2 == IF dcState = "GET_OPEN_ORDERS" THEN d \cup stale ELSE d
             n == Following(dcState, d2)
             h2 == Consume(h, SlotOf[dcState])
             g == Enter(n, h2)
  <2>1. CheckRequestQueue(h, d).hub = g
    BY <1>3 DEF CheckRequestQueue
  <2>2. dcState \in GetStates /\ SlotOf[dcState] \in Slots
    BY <1>3 DEF Answered, GetStates, SlotOf, Slots
  <2>3. n \in States
    <3> HIDE DEF d2
    <3> QED BY <2>2, FollowingLemma
  <2>4. h2 \in Hubs /\ Fresh(h2) /\ \A t \in Slots : h2[t].pending = h[t].pending
    BY <1>1, <2>2, ConsumeLemma
  <2> HIDE DEF n, h2
  <2>5. \A t \in Slots : h2[t].pending => g[t].pending
    BY <2>3, <2>4, EnterLemma
  <2> QED BY <2>1, <2>4, <2>5 DEF Keeps
<1> QED BY <1>2, <1>3

LEMMA CheckStaleOrdersKeeps ==
    ASSUME NEW h \in Hubs, Fresh(h), NEW d
    PROVE  Keeps(h, CheckStaleOrders(h, d).hub)
<1>1. CASE stale \subseteq d
  BY <1>1 DEF CheckStaleOrders, Keeps
<1>2. CASE ~(stale \subseteq d)
  <2>1. CheckStaleOrders(h, d).hub = Request(h, "stale_orders")
    BY <1>2 DEF CheckStaleOrders
  <2> QED BY <2>1, RequestLemma DEF Keeps, Slots
<1> QED BY <1>1, <1>2

(* The timer of DropCopy clears the query only with a request for a token.  *)
LEMMA OpenTimerKeeps ==
    ASSUME IInv, NEW h, NEW d, NEW f, NEW due \in BOOLEAN, NEW expire \in BOOLEAN,
           Between(h, d, f), OpenTimer(h, d, due, expire)
    PROVE  /\ Keeps(h, hub')
           /\ query' = query \/ hub'["private_token"].pending
<1> DEFINE q == CheckRequestQueue(h, d)
           isReady == q.state = "DONE"
           polled == IF isReady THEN Consume(q.hub, "private_token") ELSE q.hub
           checked == IF isReady /\ due THEN CheckStaleOrders(polled, q.details)
                                        ELSE [hub |-> polled, details |-> q.details]
           expired == isReady /\ expire /\ simulate
<1>1. q.hub \in Hubs /\ Fresh(q.hub) /\ Keeps(h, q.hub)
      /\ q.details \in SUBSET Orders /\ Unasked(q.hub, q.details)
  BY CheckRequestQueueLemma, CheckRequestQueueKeeps
<1>2. /\ hub' = IF expired THEN RequestPrivateToken(checked.hub) ELSE checked.hub
      /\ query' = IF expired THEN NoToken ELSE query
  BY DEF OpenTimer
<1> HIDE DEF q
<1>3. /\ polled \in Hubs /\ Fresh(polled)
      /\ \A t \in Slots : polled[t].pending = q.hub[t].pending
  BY <1>1, ConsumeLemma DEF Slots
<1>4. Unasked(polled, q.details) /\ stale \in SUBSET Orders
  BY <1>1, <1>3 DEF Unasked, Slots, IInv, TypeOK, DropCopyTypeOK
<1> HIDE DEF polled
<1>5. checked.hub \in Hubs /\ Fresh(checked.hub) /\ Keeps(polled, checked.hub)
  <2>1. CASE isReady /\ due
    BY <1>1, <1>3, <1>4, <2>1, CheckStaleOrdersLemma, CheckStaleOrdersKeeps
  <2>2. CASE ~(isReady /\ due)
    BY <1>3, <2>2 DEF Keeps
  <2> QED BY <2>1, <2>2
<1>6. Keeps(h, checked.hub)
  BY <1>1, <1>3, <1>5 DEF Keeps
<1> HIDE DEF checked
<1>7. CASE expired /\ query # NoToken
  <2>1. hub' = Request(checked.hub, "private_token")
    BY <1>2, <1>7 DEF RequestPrivateToken
  <2>2. hub'["private_token"].pending /\ Keeps(checked.hub, hub')
    BY <1>5, <2>1, RequestLemma DEF Keeps, Slots
  <2> QED BY <1>6, <2>2 DEF Keeps
<1>8. CASE ~(expired /\ query # NoToken)
  BY <1>2, <1>6, <1>8 DEF RequestPrivateToken
<1> QED BY <1>7, <1>8

(* An acknowledgement of the token brings a token, counts as an error, or   *)
(* belongs to a download that runs before there is a private session.       *)
LEMMA TokenAckKeepsToken ==
    ASSUME IInv, TokenInv, NEW current \in BOOLEAN, TokenAck(current)
    PROVE  TokenInv'
<1>1. tokenErrors \in Nat
  BY RestAssumption DEF RestAssumption, IInv, TypeOK, RestTypeOK
<1>2. CASE TokenError(current) /\ UNCHANGED dcVars
  <2>1. /\ UNCHANGED <<socket, hasToken, restDownload>>
        /\ tokenErrors' = tokenErrors + 1
    BY <1>2 DEF TokenError, dcVars
  <2> QED BY <1>1, <2>1 DEF TokenInv, TokenIsReplaced, Downloading
<1>3. CASE TokenSkipped(current) /\ UNCHANGED dcVars
  <2>1. /\ UNCHANGED <<socket, hasToken, restDownload>>
        /\ Downloading
    BY <1>3 DEF TokenSkipped, dcVars
  <2>2. socket' = "absent"
    BY <2>1 DEF TokenInv
  <2> QED BY <2>1, <2>2 DEF TokenInv, TokenIsReplaced, Downloading
<1>4. ASSUME NEW success \in BOOLEAN, TokenProcessed(current, success)
      PROVE  hasToken' /\ restDownload' # "PRIVATE_TOKEN"
  BY <1>4 DEF TokenProcessed, Downloading, DownloadDone
<1>5. CASE TokenProcessed(current, TRUE) /\ \E t \in Tokens : PrivateToken(t)
  <2>1. query' # NoToken
    BY <1>5, DropCopyAssumption DEF DropCopyAssumption, PrivateToken
  <2> QED BY <1>4, <1>5, <2>1 DEF TokenInv, TokenIsReplaced, Downloading
<1>6. CASE TokenProcessed(current, FALSE) /\ UNCHANGED dcVars
  <2>1. tokenErrors' = tokenErrors + 1
    BY <1>6 DEF TokenProcessed
  <2>2. hasToken' /\ ~Downloading'
    BY <1>4, <1>6 DEF Downloading
  <2>3. tokenErrors' # 0
    BY <1>1, <2>1
  <2> QED BY <2>2, <2>3 DEF TokenInv, TokenIsReplaced
<1> QED BY <1>2, <1>3, <1>5, <1>6 DEF TokenAck

(* Steps that let no request go and take no token away.                     *)
LEMMA QuietKeepsToken ==
    ASSUME TokenInv, Keeps(hub, hub'),
           UNCHANGED <<query, hasToken, restDownload, tokenErrors, tokenCalls>>,
           socket' # "absent" => socket # "absent"
    PROVE  TokenInv'
BY DEF TokenInv, TokenIsReplaced, Keeps, Slots, Downloading, Outstanding

(* A (new) download runs only as long as there is no token.                 *)
LEMMA RestKeepsToken ==
    ASSUME IInv, TokenInv, RestConnect \/ RestDisconnect \/ RestRetry
    PROVE  TokenInv'
<1> USE DEF RestConnect, RestDisconnect, RestRetry, Rest
<1>1. UNCHANGED <<hub, query, socket, hasToken, tokenErrors>>
  BY DEF hubVars, dcVars, RestConnected, RestDisconnected, DownloadRetry
<1>2. CASE DownloadToken
  <2>1. socket = "absent" /\ ~hasToken
    BY <1>2 DEF TokenInv, DownloadToken
  <2> QED BY <1>1, <2>1 DEF TokenInv, TokenIsReplaced
<1>3. CASE ~DownloadToken
  <2>1. UNCHANGED tokenCalls
    BY <1>3 DEF RestConnected, RestDisconnected, DownloadRetry
  <2>2. Downloading' => Downloading
    BY <1>3 DEF RestConnected, RestDisconnected, DownloadRetry, DownloadDone, Downloading
  <2> QED BY <1>1, <2>1, <2>2 DEF TokenInv, TokenIsReplaced, Outstanding
<1> QED BY <1>2, <1>3

LEMMA WsKeepsToken ==
    ASSUME IInv, TokenInv,
           WsConnect \/ WsReady \/ WsDisconnect \/ WsResume \/ WsWelcome \/ WsAck
    PROVE  TokenInv'
<1> USE DEF WsConnect, WsReady, WsDisconnect, WsResume, WsWelcome, WsAck, Ws
<1>1. UNCHANGED <<query, hasToken, restDownload, tokenErrors, tokenCalls>>
  BY DEF restVars, SocketConnected, SocketReady, SocketDisconnected, SuspendExpired, Welcome, Ack
<1>2. socket' # "absent" => socket # "absent"
  BY DEF SocketConnected, SocketReady, SocketDisconnected, SuspendExpired, Welcome, Ack
<1>3. Keeps(hub, hub')
  <2>1. CASE UNCHANGED hub
    BY <2>1 DEF Keeps
  <2>2. CASE Ack
    <3> DEFINE n == Following(dcState, details)
    <3>1. hub' = Enter(n, hub) /\ dcState \in SubscribeStates
      BY <2>2 DEF Ack
    <3>2. n \in States
      BY <3>1, FollowingLemma
    <3>3. hub \in Hubs /\ Fresh(hub)
      BY DEF IInv, TypeOK, HubTypeOK, Hubs, HubInv
    <3> HIDE DEF n
    <3> QED BY <3>1, <3>2, <3>3, EnterLemma DEF Keeps
  <2> QED BY <2>1, <2>2 DEF hubVars, Welcome
<1> QED BY <1>1, <1>2, <1>3, QuietKeepsToken

(* The timer sends a request for a token, or keeps it waiting.              *)
LEMMA TimerKeepsToken ==
    ASSUME IInv, TokenInv, NEW allow \in BOOLEAN, NEW due \in BOOLEAN, NEW expire \in BOOLEAN,
           Timer(allow, due, expire)
    PROVE  TokenInv'
<1> DEFINE sent == Sent(hub, allow)
           h == SendAll(hub, sent)
           d == IF "stale_orders" \in sent THEN {} ELSE details
           f == Fetched(sent)
<1>1. PICK found \in SUBSET details :
        /\ RestTimer(sent, found)
        /\ IF socket = "absent"
           THEN hub' = h /\ details' = d /\ UNCHANGED dcVars
           ELSE DropCopyTimer(h, d, f, due, expire)
  BY DEF Timer
<1>2. Between(h, d, f)
  BY SendAllLemma
<1>3. "private_token" \notin sent => h["private_token"].pending = hub["private_token"].pending
  BY DEF SendAll, Slots
<1> HIDE DEF sent, h, d, f
<1>4. /\ Keeps(h, hub')
      /\ query' = query \/ hub'["private_token"].pending
      /\ socket' # "absent" => socket # "absent"
  <2>1. CASE socket = "absent"
    BY <1>1, <2>1 DEF Keeps, dcVars
  <2>2. CASE socket # "absent" /\ OpenTimer(h, d, due, expire)
    BY <1>2, <2>2, OpenTimerKeeps
  <2>3. CASE socket # "absent" /\ hub' = h /\ UNCHANGED query
    BY <2>3 DEF Keeps
  <2> QED BY <1>1, <2>1, <2>2, <2>3 DEF DropCopyTimer
<1>5. /\ UNCHANGED <<hasToken, restDownload, tokenErrors>>
      /\ tokenCalls' = IF "private_token" \in sent
                       THEN [tokenCalls EXCEPT !.other = @ + 1] ELSE tokenCalls
  BY <1>1 DEF RestTimer
<1>6. tokenCalls \in [current : BOOLEAN, other : Nat]
  BY DEF IInv, TypeOK, RestTypeOK
<1>7. CASE "private_token" \in sent
  <2>1. tokenCalls'.other \in Nat /\ tokenCalls'.other > 0
    BY <1>5, <1>6, <1>7
  <2>2. Outstanding' > 0
    BY <2>1 DEF Outstanding
  <2> QED BY <1>4, <1>5, <2>2 DEF TokenInv, TokenIsReplaced, Downloading
<1>8. CASE "private_token" \notin sent
  <2>1. hub["private_token"].pending => hub'["private_token"].pending
    BY <1>3, <1>4, <1>8 DEF Keeps, Slots
  <2>2. UNCHANGED tokenCalls
    BY <1>5, <1>8
  <2>3. query' = NoToken /\ ~hub'["private_token"].pending => query = NoToken
    BY <1>4
  <2> QED BY <1>4, <1>5, <2>1, <2>2, <2>3
        DEF TokenInv, TokenIsReplaced, Downloading, Outstanding
<1> QED BY <1>7, <1>8

LEMMA NextKeepsToken == IInv /\ TokenInv /\ [Next]_vars => TokenInv'
<1> SUFFICES ASSUME IInv, TokenInv, [Next]_vars PROVE TokenInv'
  OBVIOUS
<1>1. CASE RestConnect \/ RestDisconnect \/ RestRetry
  BY <1>1, RestKeepsToken
<1>2. ASSUME NEW current \in BOOLEAN, TokenAck(current) PROVE TokenInv'
  BY <1>2, TokenAckKeepsToken
<1>3. ASSUME NEW s \in Slots, hub' = Commit(hub, s) \/ hub' = hub,
             UNCHANGED <<query, socket, hasToken, restDownload, tokenErrors, tokenCalls>>
      PROVE  TokenInv'
  <2>1. hub \in Hubs /\ Fresh(hub) /\ Single(hub)
    BY DEF IInv, TypeOK, HubTypeOK, Hubs, HubInv
  <2>2. Keeps(hub, hub')
    BY <1>3, <2>1, CommitLemma DEF Keeps
  <2> QED BY <1>3, <2>2, QuietKeepsToken
<1>4. ASSUME NEW s \in Slots, SnapshotAck(s) PROVE TokenInv'
  BY <1>3, <1>4 DEF SnapshotAck, restVars, dcVars
<1>5. ASSUME NEW q \in queries, OrderAck(q) PROVE TokenInv'
  <2>1. "stale_orders" \in Slots
    BY DEF Slots
  <2> QED BY <1>3, <1>5, <2>1 DEF OrderAck, OrderCallback, dcVars
<1>6. CASE WsConnect \/ WsReady \/ WsDisconnect \/ WsResume \/ WsWelcome \/ WsAck
  BY <1>6, WsKeepsToken
<1>7. CASE OrdersChange \/ UNCHANGED vars
  <2>1. "stale_orders" \in Slots
    BY DEF Slots
  <2> QED BY <1>3, <1>7, <2>1 DEF OrdersChange, vars, restVars, dcVars, hubVars
<1>8. ASSUME NEW allow \in BOOLEAN, NEW due \in BOOLEAN, NEW expire \in BOOLEAN,
             Timer(allow, due, expire)
      PROVE  TokenInv'
  BY <1>8, TimerKeepsToken
<1> QED BY <1>1, <1>2, <1>4, <1>5, <1>6, <1>7, <1>8 DEF Next

(* As long as no request for a token has failed, a private session without  *)
(* a token has one on the way, whatever is lost, skipped or retried         *)
(* (drop_copy.cpp:388-396, order_entry_rest.cpp:308-325).                   *)
THEOREM ExpiredTokenIsReplaced == Spec => []TokenIsReplaced
<1>1. Init => TokenInv
  BY DEF Init, RestInit, DropCopyInit, TokenInv, TokenIsReplaced, Downloading
<1>2. TokenInv => TokenIsReplaced
  BY DEF TokenInv
<1> QED BY <1>1, <1>2, NextKeepsToken, Invariance, PTL DEF Spec
-----------------------------------------------------------------------------
(* A private session implements SessionDownload.  A step of an account does *)
(* one of five things to the session.                                       *)

Quiet ==
    /\ UNCHANGED <<dcStatus, dcState, acked>>
    /\ fetched' = fetched \/ (dcState \in GetStates /\ fetched' = fetched \cup {dcState})

Loses ==
    /\ dcStatus' = "DISCONNECTED" /\ dcState' = "UNDEFINED"
    /\ acked' = {} /\ fetched' = {}

Begins ==
    /\ dcState = "UNDEFINED"
    /\ EnterState("SUBSCRIBE_BALANCES")
    /\ UNCHANGED <<acked, fetched>>

Acks ==
    /\ dcState \in SubscribeStates
    /\ \E n \in States \ {"UNDEFINED"} : EnterState(n)
    /\ acked' = acked \cup {dcState}
    /\ UNCHANGED fetched

Answers ==
    /\ dcState \in GetStates
    /\ \E n \in States \ {"UNDEFINED"} : EnterState(n)
    /\ UNCHANGED <<acked, fetched>>

LEMMA TimerIsSessionStep ==
    ASSUME IInv, NEW allow \in BOOLEAN, NEW due \in BOOLEAN, NEW expire \in BOOLEAN,
           Timer(allow, due, expire)
    PROVE  Quiet \/ Loses \/ Answers
<1> DEFINE sent == Sent(hub, allow)
           h == SendAll(hub, sent)
           d == IF "stale_orders" \in sent THEN {} ELSE details
           f == Fetched(sent)
<1>1. IF socket = "absent" THEN UNCHANGED dcVars ELSE DropCopyTimer(h, d, f, due, expire)
  BY DEF Timer
<1>2. Between(h, d, f)
  BY SendAllLemma
<1>3. f = fetched \/ /\ dcState \in GetStates /\ f = fetched \cup {dcState}
                     /\ ~h[SlotOf[dcState]].response
  <2>1. CASE dcState \in GetStates /\ SlotOf[dcState] \in sent
    <3>1. SlotOf[dcState] \in Slots
      BY <2>1 DEF GetStates, SlotOf, Slots
    <3>2. ~h[SlotOf[dcState]].response
      <4> HIDE DEF sent
      <4>1. h[SlotOf[dcState]] = Send(hub, SlotOf[dcState])[SlotOf[dcState]]
        BY <2>1, <3>1 DEF SendAll
      <4>2. hub \in Hubs
        BY DEF IInv, TypeOK, HubTypeOK, Hubs
      <4> HIDE DEF h
      <4> QED BY <3>1, <4>1, <4>2 DEF Send, Hubs
    <3>3. f = fetched \cup {dcState}
      BY <2>1 DEF Fetched
    <3> QED BY <2>1, <3>2, <3>3
  <2>2. CASE ~(dcState \in GetStates /\ SlotOf[dcState] \in sent)
    BY <2>2 DEF Fetched
  <2> QED BY <2>1, <2>2
<1> HIDE DEF sent, h, d, f
<1>4. CASE socket = "absent"
  BY <1>1, <1>4 DEF dcVars, Quiet
<1>5. CASE OpenTimer(h, d, due, expire) /\ fetched' = f /\ UNCHANGED acked
  <2> DEFINE q == CheckRequestQueue(h, d)
  <2>1. IF q.state # dcState THEN EnterState(q.state) ELSE UNCHANGED <<dcState, dcStatus, ready>>
    BY <1>5 DEF OpenTimer
  <2>2. CASE ~Answered(h)
    <3>1. q.state = dcState
      BY <2>2 DEF CheckRequestQueue
    <3> QED BY <1>3, <1>5, <2>1, <3>1 DEF Quiet
  <2>3. CASE Answered(h)
    <3>1. dcState \in GetStates /\ f = fetched
      BY <1>3, <2>3 DEF Answered
    <3>2. q.state \in States /\ (q.state # dcState => q.state # "UNDEFINED")
      BY <1>2, CheckRequestQueueLemma
    <3> HIDE DEF q
    <3> QED BY <1>5, <2>1, <3>1, <3>2 DEF Quiet, Answers
  <2> QED BY <2>2, <2>3
<1>6. CASE fetched' = f /\ UNCHANGED <<dcStatus, dcState, acked>>
  BY <1>3, <1>6 DEF Quiet
<1>7. CASE Disconnect
  BY <1>7 DEF Disconnect, Loses
<1> QED BY <1>1, <1>4, <1>5, <1>6, <1>7 DEF DropCopyTimer

LEMMA SessionSteps ==
    ASSUME IInv, [Next]_vars
    PROVE  Quiet \/ Loses \/ Begins \/ Acks \/ Answers
<1>1. CASE UNCHANGED <<dcStatus, dcState, acked, fetched>>
  BY <1>1 DEF Quiet
<1>2. CASE RestConnect \/ RestDisconnect \/ RestRetry \/ OrdersChange \/ UNCHANGED vars
  BY <1>1, <1>2
  DEF RestConnect, RestDisconnect, RestRetry, Rest, OrdersChange, vars, dcVars
<1>3. ASSUME NEW current \in BOOLEAN, TokenAck(current)
      PROVE  UNCHANGED <<dcStatus, dcState, acked, fetched>>
  BY <1>3 DEF TokenAck, PrivateToken, dcVars
<1>4. ASSUME NEW s \in Slots, SnapshotAck(s)
      PROVE  UNCHANGED <<dcStatus, dcState, acked, fetched>>
  BY <1>4 DEF SnapshotAck, dcVars
<1>5. ASSUME NEW q \in queries, OrderAck(q)
      PROVE  UNCHANGED <<dcStatus, dcState, acked, fetched>>
  BY <1>5 DEF OrderAck, dcVars
<1>6. CASE WsConnect \/ WsReady \/ WsResume
  BY <1>1, <1>6
  DEF WsConnect, WsReady, WsResume, Ws, SocketConnected, SocketReady,
      SuspendExpired
<1>7. CASE WsDisconnect
  BY <1>7 DEF WsDisconnect, Ws, SocketDisconnected, Disconnect, Loses
<1>8. CASE WsWelcome
  <2>1. dcState = "UNDEFINED"
    BY <1>8 DEF WsWelcome, Ws, Welcome, IInv, PhaseInv
  <2> QED BY <1>8, <2>1 DEF WsWelcome, Ws, Welcome, Begins
<1>9. CASE WsAck
  <2> DEFINE n == Following(dcState, details)
  <2>1. /\ dcState \in SubscribeStates /\ EnterState(n)
        /\ acked' = acked \cup {dcState} /\ UNCHANGED fetched
    BY <1>9 DEF WsAck, Ws, Ack
  <2>2. n \in States \ {"UNDEFINED"}
    BY <2>1, FollowingLemma
  <2> HIDE DEF n
  <2> QED BY <2>1, <2>2 DEF Acks
<1>10. ASSUME NEW allow \in BOOLEAN, NEW due \in BOOLEAN, NEW expire \in BOOLEAN,
              Timer(allow, due, expire)
       PROVE  Quiet \/ Loses \/ Answers
  BY <1>10, TimerIsSessionStep
<1> QED BY <1>1, <1>2, <1>3, <1>4, <1>5, <1>6, <1>7, <1>8, <1>9, <1>10 DEF Next

(* The status shows how far the download is.                                *)
StatusInv == dcStatus = "DOWNLOADING" <=> dcState \notin {"UNDEFINED", "DONE"}

LEMMA NextKeepsStatus == IInv /\ StatusInv /\ [Next]_vars => StatusInv'
<1> SUFFICES ASSUME IInv, StatusInv, [Next]_vars PROVE StatusInv'
  OBVIOUS
<1>1. CASE Quiet \/ Loses
  BY <1>1 DEF Quiet, Loses, StatusInv
<1>2. ASSUME NEW n \in States \ {"UNDEFINED"}, EnterState(n) PROVE StatusInv'
  BY <1>2 DEF EnterState, StatusInv
<1>3. CASE Begins \/ Acks \/ Answers
  <2>1. "SUBSCRIBE_BALANCES" \in States \ {"UNDEFINED"}
    BY DEF States, SubscribeStates
  <2> QED BY <1>2, <1>3, <2>1 DEF Begins, Acks, Answers
<1> QED BY <1>1, <1>3, SessionSteps

(* The session as SessionDownload sees it.                                  *)
ChannelsOf(S) == {ChannelOf[s] : s \in S}

Phase(status) ==
    IF status = "READY" THEN "ready" ELSE IF status = "DOWNLOADING" THEN "downloading" ELSE "offline"

LEMMA FetchIsAfterSubscribe ==
    ASSUME IInv, dcState \in GetStates \ {"GET_STALE_ORDERS"}
    PROVE  ChannelOf[dcState] \in ChannelsOf(acked) /\ ChannelsOf(acked) \subseteq ChannelsOf(SubscribeStates)
<1>1. acked = AckedBefore(dcState) /\ acked \subseteq SubscribeStates
  BY DEF IInv, ProgressInv, TypeOK, DropCopyTypeOK
<1> DEFINE a == CASE dcState = "GET_BALANCES" -> "SUBSCRIBE_BALANCES"
                  [] dcState = "GET_POSITIONS" -> "SUBSCRIBE_POSITIONS"
                  [] dcState = "GET_OPEN_ORDERS" -> "SUBSCRIBE_ORDERS"
                  [] OTHER -> "SUBSCRIBE_TRADES"
<1>2. a \in acked
  BY <1>1 DEF AckedBefore, GetStates, SlotOf, SubscribeStates
<1>3. ChannelOf[dcState] = ChannelOf[a]
  BY DEF ChannelOf, GetStates, SlotOf
<1> QED BY <1>1, <1>2, <1>3 DEF ChannelsOf

LEMMA AckIsNew ==
    ASSUME IInv, dcState \in SubscribeStates
    PROVE  /\ ChannelOf[dcState] \notin ChannelsOf(acked)
           /\ ChannelOf[dcState] \in ChannelsOf(SubscribeStates)
<1>1. acked = AckedBefore(dcState) /\ acked \subseteq SubscribeStates /\ dcState \notin acked
  BY DEF IInv, ProgressInv, TypeOK, DropCopyTypeOK, AckedBefore, SubscribeStates
<1>2. \A s, t \in SubscribeStates : ChannelOf[s] = ChannelOf[t] => s = t
  BY DEF ChannelOf, SubscribeStates
<1> QED BY <1>1, <1>2 DEF ChannelsOf

LEMMA StepRefinesSessionDownload ==
    IInv /\ ReadyIsComplete' /\ StatusInv /\ [Next]_vars =>
        [SD!Next]_(<<IF dcStatus = "READY" THEN "ready"
                     ELSE IF dcStatus = "DOWNLOADING" THEN "downloading" ELSE "offline",
                     {ChannelOf[s] : s \in acked},
                     {ChannelOf[s] : s \in fetched \ {"GET_STALE_ORDERS"}}>>)
<1> DEFINE phase == Phase(dcStatus)
           subs == ChannelsOf(acked)
           snaps == ChannelsOf(fetched \ {"GET_STALE_ORDERS"})
           all == ChannelsOf(SubscribeStates)
           Same == phase' = phase /\ subs' = subs /\ snaps' = snaps
           Begin == phase = "offline" /\ phase' = "downloading" /\ subs' = subs /\ snaps' = snaps
           Finish == /\ phase = "downloading" /\ SD!Complete(subs, snaps)
                     /\ phase' = "ready" /\ subs' = subs /\ snaps' = snaps
           Lost == phase' = "offline" /\ subs' = {} /\ snaps' = {}
           Subscribe(c) == /\ phase = "downloading" /\ c \notin subs
                           /\ subs' = subs \cup {c}
                           /\ \/ phase' = "downloading"
                              \/ phase' = "ready" /\ SD!Complete(subs', snaps)
                           /\ snaps' = snaps
           Fetch(c) == /\ phase = "downloading" /\ c \in subs
                       /\ snaps' = snaps \cup {c}
                       /\ phase' = phase /\ subs' = subs
<1> SUFFICES ASSUME IInv, ReadyIsComplete', StatusInv, [Next]_vars
             PROVE  \/ Same \/ Begin \/ Finish \/ Lost
                    \/ \E c \in all : Subscribe(c) \/ Fetch(c)
  BY DEF SD!Next, SD!Begin, SD!Finish, SD!Lost, SD!Subscribe, SD!Fetch, SD!Complete,
         Phase, ChannelsOf
<1>1. dcState \in States /\ acked \subseteq SubscribeStates
  BY DEF IInv, TypeOK, DropCopyTypeOK
<1>2. dcState \in SubscribeStates \cup GetStates => phase = "downloading"
  BY DEF StatusInv, Phase, SubscribeStates, GetStates, SlotOf
<1>3. ASSUME dcStatus' = "READY" PROVE SD!Complete(subs', snaps')
  <2>1. acked' = SubscribeStates /\ RequiredSnapshots \subseteq fetched'
    BY <1>3 DEF ReadyIsComplete, RequiredSnapshots
  <2>2. "GET_STALE_ORDERS" \notin RequiredSnapshots
    BY DEF RequiredSnapshots
  <2> QED BY <2>1, <2>2 DEF SD!Complete, ChannelsOf
<1>4. CASE Quiet
  <2>1. phase' = phase /\ subs' = subs
    BY <1>4 DEF Quiet, Phase, ChannelsOf
  <2>2. CASE fetched' = fetched \/ dcState = "GET_STALE_ORDERS"
    <3>1. snaps' = snaps
      BY <1>4, <2>2 DEF Quiet, ChannelsOf
    <3> QED BY <2>1, <3>1
  <2>3. CASE fetched' # fetched /\ dcState # "GET_STALE_ORDERS"
    <3>1. dcState \in GetStates \ {"GET_STALE_ORDERS"} /\ fetched' = fetched \cup {dcState}
      BY <1>4, <2>3 DEF Quiet
    <3>2. snaps' = snaps \cup {ChannelOf[dcState]}
      BY <3>1 DEF ChannelsOf
    <3>3. ChannelOf[dcState] \in subs /\ ChannelOf[dcState] \in all
      BY <3>1, FetchIsAfterSubscribe
    <3>4. Fetch(ChannelOf[dcState])
      BY <1>2, <2>1, <3>1, <3>2, <3>3
    <3> QED BY <3>3, <3>4
  <2> QED BY <2>2, <2>3
<1>5. CASE Loses
  BY <1>5 DEF Loses, Phase, ChannelsOf
<1>6. CASE Begins
  <2>1. phase = "offline"
    BY <1>6 DEF Begins, StatusInv, Phase, IInv, PhaseInv
  <2>2. phase' = "downloading" /\ subs' = subs /\ snaps' = snaps
    BY <1>6 DEF Begins, EnterState, Phase, ChannelsOf
  <2> QED BY <2>1, <2>2
<1>7. CASE Acks
  <2>1. subs' = subs \cup {ChannelOf[dcState]} /\ snaps' = snaps
    BY <1>7 DEF Acks, ChannelsOf
  <2>2. ChannelOf[dcState] \notin subs /\ ChannelOf[dcState] \in all /\ phase = "downloading"
    BY <1>2, <1>7, AckIsNew DEF Acks
  <2>3. dcStatus' \in {"READY", "DOWNLOADING"}
    BY <1>7 DEF Acks, EnterState
  <2>4. phase' = "downloading" \/ (phase' = "ready" /\ SD!Complete(subs', snaps'))
    BY <1>3, <2>3 DEF Phase
  <2>5. Subscribe(ChannelOf[dcState])
    BY <2>1, <2>2, <2>4
  <2> QED BY <2>2, <2>5
<1>8. CASE Answers
  <2>1. subs' = subs /\ snaps' = snaps /\ phase = "downloading"
    BY <1>2, <1>8 DEF Answers, ChannelsOf
  <2>2. dcStatus' \in {"READY", "DOWNLOADING"}
    BY <1>8 DEF Answers, EnterState
  <2>3. phase' = "downloading" \/ (phase' = "ready" /\ SD!Complete(subs', snaps'))
    BY <1>3, <2>2 DEF Phase
  <2> QED BY <2>1, <2>3
<1> QED BY <1>4, <1>5, <1>6, <1>7, <1>8, SessionSteps

(* A private session subscribes to a channel before it asks for its         *)
(* snapshot and is ready only when both are done for every channel, all     *)
(* within one connection: it implements SessionDownload                     *)
(* (drop_copy.cpp:242-302).                                                 *)
THEOREM SessionsSubscribeFirst == Spec => SubscribeBeforeFetch
<1>1. Init => SD!Init /\ StatusInv
  BY DEF Init, DropCopyInit, SD!Init, StatusInv
<1>2. IInv /\ ReadyIsComplete' /\ StatusInv /\ [Next]_vars =>
        [SD!Next]_(<<IF dcStatus = "READY" THEN "ready"
                     ELSE IF dcStatus = "DOWNLOADING" THEN "downloading" ELSE "offline",
                     {ChannelOf[s] : s \in acked},
                     {ChannelOf[s] : s \in fetched \ {"GET_STALE_ORDERS"}}>>)
  BY StepRefinesSessionDownload
<1> QED BY <1>1, <1>2, NextKeepsStatus, Invariance, ReadyMeansComplete, PTL
        DEF Spec, SubscribeBeforeFetch, SD!Spec, SD!sdVars
=============================================================================
