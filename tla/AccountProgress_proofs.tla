------------------------ MODULE AccountProgress_proofs -----------------------
(***************************************************************************)
(* Proofs that nothing of an account waits in vain: what a session, a      *)
(* request and the download of the token wait for is still to come, for    *)
(* any set of orders, any set of tokens and any bounds on faults.  They    *)
(* are the part of the liveness of an account that is safety.              *)
(***************************************************************************)
EXTENDS AccountSession_proofs

(* The snapshot of a state of the download is still to come.                *)
Coming(s, h) ==
    s \in GetStates => h[SlotOf[s]].pending \/ h[SlotOf[s]].inflight \/ h[SlotOf[s]].response

(* A request for stale orders has orders to ask for.                        *)
HasOrders(h, d) == h["stale_orders"].pending => d # {}

(* Every round trip has a call that ends it.                                *)
Ends(h, calls, asked) ==
    /\ h["private_token"].inflight => calls > 0
    /\ h["stale_orders"].inflight => asked # {} \/ MayForget

ComingInv == Coming(dcState, hub) /\ HasOrders(hub, details) /\ Ends(hub, Outstanding, queries)

LEMMA ComingInvIsBoth == ComingInv <=> SnapshotsAreComing /\ RoundTripsEnd
BY DEF ComingInv, Coming, HasOrders, Ends, SnapshotsAreComing, RoundTripsEnd

LEMMA HubTypes ==
    ASSUME IInv
    PROVE  hub \in Hubs /\ Fresh(hub) /\ Single(hub)
BY DEF IInv, TypeOK, HubTypeOK, Hubs, HubInv

-----------------------------------------------------------------------------
(* The operations of the requests.                                          *)

(* A round trip that ends leaves an answer or another request behind.       *)
LEMMA CommitComes ==
    ASSUME NEW h \in Hubs, NEW s \in Slots, NEW state, Coming(state, h)
    PROVE  /\ Coming(state, Commit(h, s))
           /\ \A t \in Slots : Commit(h, s)[t].pending = h[t].pending
           /\ \A t \in Slots : Commit(h, s)[t].inflight => h[t].inflight /\ t # s
<1>1. \A t \in Slots : 
        Commit(h, s)[t] = IF t = s
                          THEN [pending |-> h[s].pending, inflight |-> FALSE, response |-> ~h[s].pending]
                          ELSE h[t]
  BY DEF Commit, Hubs
<1>2. state \in GetStates => SlotOf[state] \in Slots
  BY DEF GetStates, SlotOf, Slots
<1>3. Coming(state, Commit(h, s))
  <2> SUFFICES ASSUME state \in GetStates
               PROVE  LET r == Commit(h, s)[SlotOf[state]] IN r.pending \/ r.inflight \/ r.response
    BY DEF Coming
  <2>1. CASE SlotOf[state] = s
    <3>1. h[s].pending \in BOOLEAN
      BY DEF Hubs, Slot
    <3>2. /\ Commit(h, s)[s].pending = h[s].pending
          /\ Commit(h, s)[s].response = ~h[s].pending
      BY <1>1
    <3> QED BY <2>1, <3>1, <3>2
  <2>2. CASE SlotOf[state] # s
    BY <1>1, <1>2, <2>2 DEF Coming
  <2> QED BY <2>1, <2>2
<1>4. \A t \in Slots : Commit(h, s)[t].pending = h[t].pending
  BY <1>1
<1>5. \A t \in Slots : Commit(h, s)[t].inflight => h[t].inflight /\ t # s
  BY <1>1
<1> QED BY <1>3, <1>4, <1>5

LEMMA EnterComes ==
    ASSUME NEW h \in Hubs, NEW s \in States, Fresh(h)
    PROVE  /\ Coming(s, Enter(s, h))
           /\ s # "GET_STALE_ORDERS" =>
                Enter(s, h)["stale_orders"].pending = h["stale_orders"].pending
<1>1. Coming(s, Enter(s, h))
  BY EnterLemma DEF Coming
<1>2. CASE s \in GetStates /\ s # "GET_STALE_ORDERS"
  <2>1. SlotOf[s] \in Slots /\ SlotOf[s] # "stale_orders"
    BY <1>2 DEF GetStates, SlotOf, Slots
  <2>2. Enter(s, h) = Request(h, SlotOf[s])
    BY <1>2 DEF Enter
  <2>3. Request(h, SlotOf[s])["stale_orders"] = h["stale_orders"]
    BY <2>1, RequestLemma DEF Slots
  <2> QED BY <1>1, <2>2, <2>3
<1>3. CASE s \notin GetStates
  BY <1>1, <1>3 DEF Enter
<1> QED BY <1>1, <1>2, <1>3

(* GET_STALE_ORDERS is skipped when there are none.                         *)
LEMMA StaleOrdersAreThere ==
    ASSUME NEW s \in SubscribeStates \cup GetStates, NEW d,
           Following(s, d) = "GET_STALE_ORDERS"
    PROVE  d # {}
<1>1. s = "GET_OPEN_ORDERS"
  BY DEF Following, Successor, SubscribeStates, GetStates, SlotOf
<1> QED BY <1>1 DEF Following

(* What a timer sends is in flight; nothing else changes.                   *)
LEMMA SendAllComes ==
    ASSUME NEW h \in Hubs, NEW sent \in SUBSET Slots
    PROVE  \A s \in Slots :
             SendAll(h, sent)[s] = IF s \in sent
                                   THEN [pending |-> FALSE, inflight |-> TRUE, response |-> FALSE]
                                   ELSE h[s]
BY DEF SendAll, Send, Hubs

-----------------------------------------------------------------------------
(* The timer of DropCopy.                                                   *)

LEMMA CheckRequestQueueComes ==
    ASSUME IInv, NEW h, NEW d, NEW f, Between(h, d, f), Coming(dcState, h), HasOrders(h, d)
    PROVE  LET q == CheckRequestQueue(h, d) IN
           Coming(q.state, q.hub) /\ HasOrders(q.hub, q.details)
<1>1. h \in Hubs /\ Fresh(h)
  BY DEF Between
<1>2. CASE ~Answered(h)
  BY <1>2 DEF CheckRequestQueue
<1>3. CASE Answered(h)
  <2> DEFINE d2 == IF dcState = "GET_OPEN_ORDERS" THEN d \cup stale ELSE d
             n == Following(dcState, d2)
             h2 == Consume(h, SlotOf[dcState])
             g == Enter(n, h2)
  <2>1. CheckRequestQueue(h, d) = [state |-> n, hub |-> g, details |-> d2]
    BY <1>3 DEF CheckRequestQueue
  <2>2. dcState \in GetStates /\ SlotOf[dcState] \in Slots
    BY <1>3 DEF Answered, GetStates, SlotOf, Slots
  <2>3. d \subseteq d2
    OBVIOUS
  <2> HIDE DEF d2
  <2>4. n \in States /\ (n = "GET_STALE_ORDERS" => d2 # {})
    BY <2>2, FollowingLemma, StaleOrdersAreThere
  <2>5. h2 \in Hubs /\ Fresh(h2) /\ \A t \in Slots : h2[t].pending = h[t].pending
    BY <1>1, <2>2, ConsumeLemma
  <2> HIDE DEF n, h2
  <2>6. /\ Coming(n, g)
        /\ n # "GET_STALE_ORDERS" => g["stale_orders"].pending = h2["stale_orders"].pending
    BY <2>4, <2>5, EnterComes
  <2> HIDE DEF g
  <2>7. HasOrders(g, d2)
    BY <2>3, <2>4, <2>5, <2>6 DEF HasOrders, Slots
  <2> QED BY <2>1, <2>6, <2>7
<1> QED BY <1>2, <1>3

LEMMA CheckStaleOrdersComes ==
    ASSUME NEW h \in Hubs, Fresh(h), NEW d \in SUBSET Orders, HasOrders(h, d)
    PROVE  HasOrders(CheckStaleOrders(h, d).hub, CheckStaleOrders(h, d).details)
<1>1. CASE stale \subseteq d
  BY <1>1 DEF CheckStaleOrders, HasOrders
<1>2. CASE ~(stale \subseteq d)
  BY <1>2 DEF CheckStaleOrders, HasOrders
<1> QED BY <1>1, <1>2

LEMMA OpenTimerComes ==
    ASSUME IInv, NEW h, NEW d, NEW f, NEW due \in BOOLEAN, NEW expire \in BOOLEAN,
           Between(h, d, f), OpenTimer(h, d, due, expire),
           Coming(dcState, h), HasOrders(h, d)
    PROVE  Coming(dcState', hub') /\ HasOrders(hub', details')
<1> DEFINE q == CheckRequestQueue(h, d)
           isReady == q.state = "DONE"
           polled == IF isReady THEN Consume(q.hub, "private_token") ELSE q.hub
           checked == IF isReady /\ due THEN CheckStaleOrders(polled, q.details)
                                        ELSE [hub |-> polled, details |-> q.details]
           expired == isReady /\ expire /\ simulate
<1>1. /\ q.hub \in Hubs /\ Fresh(q.hub)
      /\ q.details \in SUBSET Orders /\ Unasked(q.hub, q.details)
  BY CheckRequestQueueLemma
<1>2. Coming(q.state, q.hub) /\ HasOrders(q.hub, q.details)
  BY CheckRequestQueueComes
<1>3. /\ IF q.state # dcState THEN EnterState(q.state) ELSE UNCHANGED <<dcState, dcStatus, ready>>
      /\ details' = checked.details
      /\ hub' = IF expired THEN RequestPrivateToken(checked.hub) ELSE checked.hub
  BY DEF OpenTimer
<1> HIDE DEF q
<1>4. dcState' = q.state
  BY <1>3 DEF EnterState
<1>5. /\ polled \in Hubs /\ Fresh(polled)
      /\ \A t \in Slots : polled[t].pending = q.hub[t].pending
  BY <1>1, ConsumeLemma DEF Slots
<1>6. HasOrders(polled, q.details) /\ Unasked(polled, q.details)
  BY <1>1, <1>2, <1>5 DEF HasOrders, Unasked, Slots
<1>7. ~isReady => polled = q.hub
  OBVIOUS
<1> HIDE DEF polled
<1>8. HasOrders(checked.hub, checked.details) /\ checked.hub \in Hubs /\ Fresh(checked.hub)
  <2>1. CASE isReady /\ due
    <3>1. stale \in SUBSET Orders
      BY DEF IInv, TypeOK, DropCopyTypeOK
    <3>2. checked = CheckStaleOrders(polled, q.details)
      BY <2>1
    <3> QED BY <1>1, <1>5, <1>6, <3>1, <3>2, CheckStaleOrdersLemma, CheckStaleOrdersComes
  <2>2. CASE ~(isReady /\ due)
    BY <1>5, <1>6, <2>2
  <2> QED BY <2>1, <2>2
<1>9. CASE isReady
  <2>1. Coming(dcState', hub')
    BY <1>4, <1>9 DEF Coming, GetStates, SlotOf
  <2>2. hub'["stale_orders"].pending = checked.hub["stale_orders"].pending
    <3> HIDE DEF checked
    <3>1. CASE expired /\ query # NoToken
      <4>1. hub' = Request(checked.hub, "private_token")
        BY <1>3, <3>1 DEF RequestPrivateToken
      <4> QED BY <1>8, <4>1, RequestLemma DEF Slots
    <3>2. CASE ~(expired /\ query # NoToken)
      BY <1>3, <3>2 DEF RequestPrivateToken
    <3> QED BY <3>1, <3>2
  <2> QED BY <1>3, <1>8, <2>1, <2>2 DEF HasOrders
<1>10. CASE ~isReady
  <2>1. hub' = q.hub /\ details' = q.details
    BY <1>3, <1>7, <1>10
  <2> QED BY <1>2, <1>4, <2>1
<1> QED BY <1>9, <1>10

(* OrderEntryREST sends, then DropCopy looks at the answers.                *)
LEMMA TimerKeepsComing ==
    ASSUME IInv, ComingInv, NEW allow \in BOOLEAN, NEW due \in BOOLEAN, NEW expire \in BOOLEAN,
           Timer(allow, due, expire)
    PROVE  ComingInv'
<1> DEFINE sent == Sent(hub, allow)
           h == SendAll(hub, sent)
           d == IF "stale_orders" \in sent THEN {} ELSE details
           f == Fetched(sent)
<1>1. PICK found \in (IF MayForget THEN SUBSET details ELSE {details}) :
        /\ RestTimer(sent, found)
        /\ IF socket = "absent"
           THEN hub' = h /\ details' = d /\ UNCHANGED dcVars
           ELSE DropCopyTimer(h, d, f, due, expire)
        /\ UNCHANGED stale
  BY DEF Timer
<1>2. Between(h, d, f)
  BY SendAllLemma
<1>3. sent \in SUBSET Slots /\ \A s \in sent : hub[s].pending
  <2>1. sent \in SUBSET Slots
    BY DEF Sent
  <2>2. \A s \in sent : hub[s].pending
    BY HubTypes, SentLemma
  <2> QED BY <2>1, <2>2
<1>4. \A s \in Slots : h[s] = IF s \in sent
                              THEN [pending |-> FALSE, inflight |-> TRUE, response |-> FALSE]
                              ELSE hub[s]
  BY <1>3, HubTypes, SendAllComes
<1> HIDE DEF sent, h
<1>5. Coming(dcState, h)
  <2>1. dcState \in GetStates => SlotOf[dcState] \in Slots
    BY DEF GetStates, SlotOf, Slots
  <2> QED BY <1>4, <2>1 DEF Coming, ComingInv
<1>6. HasOrders(h, d)
  BY <1>4 DEF HasOrders, ComingInv, Slots
<1>7. Ends(h, Outstanding', queries')
  <2>1. tokenCalls \in [current : BOOLEAN, other : Nat]
    BY DEF IInv, TypeOK, RestTypeOK
  <2>2. h["private_token"].inflight => Outstanding' > 0
    <3>1. CASE "private_token" \in sent
      <4>1. tokenCalls' = [tokenCalls EXCEPT !.other = @ + 1]
        BY <1>1, <3>1 DEF RestTimer
      <4>2. tokenCalls'.other \in Nat /\ tokenCalls'.other > 0
        BY <2>1, <4>1
      <4> QED BY <4>2 DEF Outstanding
    <3>2. CASE "private_token" \notin sent
      <4>1. tokenCalls' = tokenCalls
        BY <1>1, <3>2 DEF RestTimer
      <4> QED BY <1>4, <3>2, <4>1 DEF ComingInv, Ends, Outstanding, Slots
    <3> QED BY <3>1, <3>2
  <2>3. h["stale_orders"].inflight => queries' # {} \/ MayForget
    <3>1. CASE "stale_orders" \in sent /\ ~MayForget
      <4>1. found = details
        BY <1>1, <3>1
      <4>2. details # {}
        BY <1>3, <3>1 DEF ComingInv, HasOrders
      <4>3. queries' = queries \cup {StaleQuery(o) : o \in found}
        BY <1>1, <3>1 DEF RestTimer
      <4> QED BY <4>1, <4>2, <4>3
    <3>2. CASE "stale_orders" \notin sent
      <4>1. queries' = queries
        BY <1>1, <3>2 DEF RestTimer
      <4> QED BY <1>4, <3>2, <4>1 DEF ComingInv, Ends, Slots
    <3> QED BY <3>1, <3>2
  <2> QED BY <2>2, <2>3 DEF Ends
<1> HIDE DEF d, f
<1>8. Coming(dcState', hub') /\ HasOrders(hub', details')
  <2>1. CASE hub' = h /\ details' = d /\ dcState' = dcState
    BY <1>5, <1>6, <2>1
  <2>2. CASE OpenTimer(h, d, due, expire)
    BY <1>2, <1>5, <1>6, <2>2, OpenTimerComes
  <2>3. CASE Disconnect /\ hub' = h /\ details' = d
    BY <1>6, <2>3 DEF Disconnect, Coming, GetStates, SlotOf
  <2> QED BY <1>1, <2>1, <2>2, <2>3 DEF DropCopyTimer, dcVars
<1>9. SameFlights(h, hub')
  <2>1. CASE socket = "absent"
    BY <1>1, <2>1 DEF SameFlights
  <2>2. CASE socket # "absent"
    BY <1>1, <1>2, <2>2, DropCopyTimerLemma DEF After
  <2> QED BY <2>1, <2>2
<1>10. Ends(hub', Outstanding', queries')
  BY <1>7, <1>9 DEF Ends, SameFlights, Slots
<1> QED BY <1>8, <1>10 DEF ComingInv

-----------------------------------------------------------------------------
(* The other steps.                                                         *)

LEMMA RestKeepsComing ==
    ASSUME IInv, ComingInv, RestConnect \/ RestDisconnect \/ RestRetry
    PROVE  ComingInv'
<1> USE DEF RestConnect, RestDisconnect, RestRetry, Rest
<1>1. UNCHANGED <<hub, details, dcState, queries>>
  BY DEF hubVars, dcVars, RestConnected, RestDisconnected, DownloadRetry
<1>2. tokenCalls \in [current : BOOLEAN, other : Nat]
  BY DEF IInv, TypeOK, RestTypeOK
<1>3. Outstanding > 0 => Outstanding' > 0
  <2>1. CASE DownloadToken
    <3>1. tokenCalls' = [current |-> TRUE, other |-> Outstanding] /\ Outstanding \in Nat
      BY <1>2, <2>1 DEF DownloadToken, Outstanding
    <3> QED BY <3>1 DEF Outstanding
  <2>2. CASE UNCHANGED tokenCalls
    BY <2>2 DEF Outstanding
  <2> QED BY <2>1, <2>2 DEF RestConnected, RestDisconnected, DownloadRetry
<1> QED BY <1>1, <1>3 DEF ComingInv, Coming, HasOrders, Ends

(* The callback of a token request ends the round trip.                     *)
LEMMA TokenAckKeepsComing ==
    ASSUME IInv, ComingInv, NEW current \in BOOLEAN, TokenAck(current)
    PROVE  ComingInv'
<1>1. /\ hub' = Commit(hub, "private_token")
      /\ UNCHANGED <<details, queries, dcState>>
  BY DEF TokenAck, TokenError, TokenSkipped, TokenProcessed, PrivateToken, dcVars
<1>2. "private_token" \in Slots /\ "stale_orders" \in Slots
  BY DEF Slots
<1>3. /\ Coming(dcState, hub')
      /\ hub'["stale_orders"].pending = hub["stale_orders"].pending
      /\ hub'["stale_orders"].inflight => hub["stale_orders"].inflight
      /\ ~hub'["private_token"].inflight
  BY <1>1, <1>2, HubTypes, CommitComes DEF ComingInv
<1> QED BY <1>1, <1>3 DEF ComingInv, HasOrders, Ends

LEMMA SnapshotAckKeepsComing ==
    ASSUME IInv, ComingInv, NEW s \in Slots, SnapshotAck(s)
    PROVE  ComingInv'
<1>1. /\ hub' = Commit(hub, s)
      /\ UNCHANGED <<details, queries, tokenCalls, dcState>>
  BY DEF SnapshotAck, restVars, dcVars
<1>2. /\ Coming(dcState, hub')
      /\ \A t \in Slots : /\ hub'[t].pending = hub[t].pending
                          /\ hub'[t].inflight => hub[t].inflight
  BY <1>1, HubTypes, CommitComes DEF ComingInv
<1> QED BY <1>1, <1>2 DEF ComingInv, HasOrders, Ends, Outstanding, Slots

(* The last order query that is called back ends the round trip.            *)
LEMMA OrderAckKeepsComing ==
    ASSUME IInv, CounterMatchesQueries', ComingInv, NEW q \in queries, OrderAck(q)
    PROVE  ComingInv'
<1>1. /\ hub' = IF counter' = 0 THEN Commit(hub, "stale_orders") ELSE hub
      /\ UNCHANGED <<details, tokenCalls, dcState>>
  BY DEF OrderAck, OrderCallback, dcVars
<1>2. "private_token" \in Slots /\ "stale_orders" \in Slots
  BY DEF Slots
<1>3. CASE counter' = 0
  <2>1. /\ Coming(dcState, hub')
        /\ hub'["stale_orders"].pending = hub["stale_orders"].pending
        /\ ~hub'["stale_orders"].inflight
        /\ hub'["private_token"].inflight => hub["private_token"].inflight
    BY <1>1, <1>2, <1>3, HubTypes, CommitComes DEF ComingInv
  <2> QED BY <1>1, <2>1 DEF ComingInv, HasOrders, Ends, Outstanding
<1>4. CASE counter' # 0
  <2>1. queries' # {}
    BY <1>4, FS_EmptySet DEF CounterMatchesQueries
  <2> QED BY <1>1, <1>4, <2>1 DEF ComingInv, Coming, HasOrders, Ends, Outstanding
<1> QED BY <1>3, <1>4

LEMMA WsKeepsComing ==
    ASSUME IInv, ComingInv,
           WsConnect \/ WsReady \/ WsDisconnect \/ WsResume \/ WsWelcome \/ WsAck
    PROVE  ComingInv'
<1> USE DEF WsConnect, WsReady, WsDisconnect, WsResume, WsWelcome, WsAck, Ws
<1>1. UNCHANGED <<queries, tokenCalls>>
  BY DEF restVars
<1>2. CASE WsConnect \/ WsReady \/ WsResume
  <2>1. UNCHANGED <<hub, details, dcState>>
    BY <1>2 DEF hubVars, SocketConnected, SocketReady, SuspendExpired
  <2> QED BY <1>1, <2>1 DEF ComingInv, Coming, HasOrders, Ends, Outstanding
<1>3. CASE WsDisconnect \/ WsWelcome
  <2>1. UNCHANGED <<hub, details>> /\ dcState' \notin GetStates
    BY <1>3 DEF hubVars, SocketDisconnected, Disconnect, Welcome, EnterState, GetStates, SlotOf
  <2> QED BY <1>1, <2>1 DEF ComingInv, Coming, HasOrders, Ends, Outstanding
<1>4. CASE WsAck
  <2> DEFINE n == Following(dcState, details)
  <2>1. /\ hub' = Enter(n, hub) /\ dcState' = n /\ UNCHANGED details
        /\ dcState \in SubscribeStates
    BY <1>4 DEF Ack, EnterState
  <2>2. n \in States /\ (n = "GET_STALE_ORDERS" => details # {})
    BY <2>1, FollowingLemma, StaleOrdersAreThere
  <2> HIDE DEF n
  <2>3. /\ Coming(dcState', hub') /\ SameFlights(hub, hub')
        /\ n # "GET_STALE_ORDERS" => hub'["stale_orders"].pending = hub["stale_orders"].pending
    BY <2>1, <2>2, HubTypes, EnterLemma, EnterComes
  <2>4. HasOrders(hub', details')
    BY <2>1, <2>2, <2>3 DEF ComingInv, HasOrders
  <2> QED BY <1>1, <2>3, <2>4 DEF ComingInv, Ends, SameFlights, Outstanding, Slots
<1> QED BY <1>2, <1>3, <1>4

LEMMA NextKeepsComing ==
    IInv /\ CounterMatchesQueries' /\ ComingInv /\ [Next]_vars => ComingInv'
<1> SUFFICES ASSUME IInv, CounterMatchesQueries', ComingInv, [Next]_vars PROVE ComingInv'
  OBVIOUS
<1>1. CASE RestConnect \/ RestDisconnect \/ RestRetry
  BY <1>1, RestKeepsComing
<1>2. ASSUME NEW current \in BOOLEAN, TokenAck(current) PROVE ComingInv'
  BY <1>2, TokenAckKeepsComing
<1>3. ASSUME NEW s \in Slots, SnapshotAck(s) PROVE ComingInv'
  BY <1>3, SnapshotAckKeepsComing
<1>4. ASSUME NEW q \in queries, OrderAck(q) PROVE ComingInv'
  BY <1>4, OrderAckKeepsComing
<1>5. CASE WsConnect \/ WsReady \/ WsDisconnect \/ WsResume \/ WsWelcome \/ WsAck
  BY <1>5, WsKeepsComing
<1>6. CASE OrdersChange \/ UNCHANGED vars
  <2>1. UNCHANGED <<hub, details, dcState, queries, tokenCalls>>
    BY <1>6 DEF OrdersChange, vars, restVars, dcVars, hubVars
  <2> QED BY <2>1 DEF ComingInv, Coming, HasOrders, Ends, Outstanding
<1>7. ASSUME NEW allow \in BOOLEAN, NEW due \in BOOLEAN, NEW expire \in BOOLEAN,
             Timer(allow, due, expire)
      PROVE  ComingInv'
  BY <1>7, TimerKeepsComing
<1> QED BY <1>1, <1>2, <1>3, <1>4, <1>5, <1>6, <1>7 DEF Next

LEMMA ComingInvariance == Spec => []ComingInv
<1>1. Init => ComingInv
  BY DEF Init, HubInit, IdleSlot, DropCopyInit, ComingInv, Coming, HasOrders, Ends,
         GetStates, SlotOf, Slots
<1> QED BY <1>1, NextKeepsComing, Invariance, CounterIsExact, PTL DEF Spec

(* A session that waits for a snapshot has its request waiting, in flight   *)
(* or answered, however many sessions and requests came before              *)
(* (drop_copy.cpp:254-283,434-480).                                         *)
THEOREM SnapshotsAlwaysCome == Spec => []SnapshotsAreComing
BY ComingInvariance, ComingInvIsBoth, PTL

(* A round trip for a token or for stale orders has a call that ends it,    *)
(* and GET_STALE_ORDERS never asks for nothing, which would have no end     *)
(* (drop_copy.cpp:275-282, order_entry_rest.cpp:634-640,1094-1106).         *)
THEOREM RoundTripsAlwaysEnd == Spec => []RoundTripsEnd
BY ComingInvariance, ComingInvIsBoth, PTL

-----------------------------------------------------------------------------
(* An account implements SingleFlight.  Requests go out only after the      *)
(* first download of the token, and while one for a token is in flight a    *)
(* call for one is.                                                         *)

RequestsWaitForToken ==
    /\ restStatus = "READY" => hasToken
    /\ hub["private_token"].inflight => hasToken

Aloft(h) == Cardinality({s \in SnapshotSlots : h[s].inflight})

LEMMA AloftIsOne ==
    ASSUME NEW h \in Hubs, Single(h), NEW s \in SnapshotSlots, h[s].inflight
    PROVE  Aloft(h) = 1
<1>1. {t \in SnapshotSlots : h[t].inflight} = {s}
  BY DEF Single, SnapshotSlots, Slots
<1> QED BY <1>1, FS_Singleton DEF Aloft

LEMMA AloftIsNone ==
    ASSUME NEW h, \A s \in SnapshotSlots : ~h[s].inflight
    PROVE  Aloft(h) = 0
<1>1. {s \in SnapshotSlots : h[s].inflight} = {}
  OBVIOUS
<1> QED BY <1>1, FS_EmptySet DEF Aloft

LEMMA AloftIsSame ==
    ASSUME NEW h, NEW g, \A s \in SnapshotSlots : g[s].inflight = h[s].inflight
    PROVE  Aloft(g) = Aloft(h)
BY DEF Aloft

LEMMA AloftType ==
    ASSUME NEW h \in Hubs, Single(h)
    PROVE  Aloft(h) \in Nat
BY AloftIsOne, AloftIsNone

LEMMA OutstandingType ==
    ASSUME IInv
    PROVE  tokenCalls \in [current : BOOLEAN, other : Nat] /\ Outstanding \in Nat
BY DEF IInv, TypeOK, RestTypeOK, Outstanding

(* What a timer sends.                                                      *)
LEMMA TimerSends ==
    ASSUME IInv, NEW allow \in BOOLEAN, NEW due \in BOOLEAN, NEW expire \in BOOLEAN,
           Timer(allow, due, expire)
    PROVE  LET sent == Sent(hub, allow) IN
           /\ \E found : RestTimer(sent, found)
           /\ \A s \in sent : hub'[s].inflight
           /\ \A s \in Slots \ sent : hub'[s].inflight = hub[s].inflight
<1> DEFINE sent == Sent(hub, allow)
           h == SendAll(hub, sent)
           d == IF "stale_orders" \in sent THEN {} ELSE details
           f == Fetched(sent)
<1>1. /\ \E found : RestTimer(sent, found)
      /\ IF socket = "absent" THEN hub' = h ELSE DropCopyTimer(h, d, f, due, expire)
      /\ UNCHANGED stale
  BY DEF Timer
<1>2. Between(h, d, f)
  BY SendAllLemma
<1>3. sent \in SUBSET Slots
  BY DEF Sent
<1> HIDE DEF sent
<1>4. \A s \in Slots :
        h[s] = IF s \in sent
               THEN [pending |-> FALSE, inflight |-> TRUE, response |-> FALSE] ELSE hub[s]
  BY <1>3, HubTypes, SendAllComes
<1> HIDE DEF h, d, f
<1>5. SameFlights(h, hub')
  <2>1. CASE socket = "absent"
    BY <1>1, <2>1 DEF SameFlights
  <2>2. CASE socket # "absent"
    BY <1>1, <1>2, <2>2, DropCopyTimerLemma DEF After
  <2> QED BY <2>1, <2>2
<1>6. \A s \in sent : hub'[s].inflight
  <2> SUFFICES ASSUME NEW s \in sent PROVE hub'[s].inflight
    OBVIOUS
  <2>1. s \in Slots /\ h[s] = [pending |-> FALSE, inflight |-> TRUE, response |-> FALSE]
    BY <1>3, <1>4
  <2>2. h[s].inflight
    BY <2>1
  <2> QED BY <1>5, <2>1, <2>2 DEF SameFlights
<1>7. \A s \in Slots \ sent : hub'[s].inflight = hub[s].inflight
  BY <1>4, <1>5 DEF SameFlights
<1> QED BY <1>1, <1>6, <1>7 DEF sent

LEMMA NextKeepsWaiting == IInv /\ RequestsWaitForToken /\ [Next]_vars => RequestsWaitForToken'
<1> SUFFICES ASSUME IInv, RequestsWaitForToken, [Next]_vars PROVE RequestsWaitForToken'
  OBVIOUS
<1> USE DEF RequestsWaitForToken
<1>1. "private_token" \in Slots
  BY DEF Slots
<1>2. ASSUME NEW s \in Slots, hub' = Commit(hub, s) \/ hub' = hub,
             UNCHANGED <<restStatus, hasToken>> \/ hasToken'
      PROVE  RequestsWaitForToken'
  <2>1. hub'["private_token"].inflight => hub["private_token"].inflight
    BY <1>1, <1>2, HubTypes, CommitLemma
  <2> QED BY <1>2, <2>1
<1>3. CASE RestConnect \/ RestDisconnect \/ RestRetry
  BY <1>3 DEF RestConnect, RestDisconnect, RestRetry, Rest, hubVars, RestConnected,
              RestDisconnected, DownloadRetry, DownloadToken, DownloadDone
<1>4. ASSUME NEW current \in BOOLEAN, TokenAck(current) PROVE RequestsWaitForToken'
  BY <1>1, <1>2, <1>4 DEF TokenAck, TokenError, TokenSkipped, TokenProcessed
<1>5. ASSUME NEW s \in Slots, SnapshotAck(s) PROVE RequestsWaitForToken'
  BY <1>2, <1>5 DEF SnapshotAck, restVars
<1>6. ASSUME NEW q \in queries, OrderAck(q) PROVE RequestsWaitForToken'
  BY <1>2, <1>6 DEF OrderAck, OrderCallback, Slots
<1>7. CASE \/ WsConnect \/ WsReady \/ WsDisconnect \/ WsResume \/ WsWelcome
           \/ OrdersChange \/ UNCHANGED vars
  BY <1>1, <1>2, <1>7
  DEF WsConnect, WsReady, WsDisconnect, WsResume, WsWelcome, Ws, Welcome, OrdersChange,
      hubVars, restVars, vars
<1>8. CASE WsAck
  <2> DEFINE n == Following(dcState, details)
  <2>1. hub' = Enter(n, hub) /\ dcState \in SubscribeStates /\ UNCHANGED <<restStatus, hasToken>>
    BY <1>8 DEF WsAck, Ws, Ack, restVars
  <2>2. n \in States
    BY <2>1, FollowingLemma
  <2> HIDE DEF n
  <2>3. SameFlights(hub, hub')
    BY <2>1, <2>2, HubTypes, EnterLemma
  <2> QED BY <1>1, <2>1, <2>3 DEF SameFlights
<1>9. ASSUME NEW allow \in BOOLEAN, NEW due \in BOOLEAN, NEW expire \in BOOLEAN,
             Timer(allow, due, expire)
      PROVE  RequestsWaitForToken'
  <2>1. UNCHANGED <<restStatus, hasToken>>
    BY <1>9, TimerSends DEF RestTimer
  <2>2. CASE "private_token" \in Sent(hub, allow)
    BY <2>1, <2>2 DEF Sent
  <2>3. CASE "private_token" \notin Sent(hub, allow)
    <3>1. hub'["private_token"].inflight = hub["private_token"].inflight
      BY <1>1, <1>9, <2>3, TimerSends
    <3> QED BY <2>1, <3>1
  <2> QED BY <2>2, <2>3
<1> QED BY <1>3, <1>4, <1>5, <1>6, <1>7, <1>8, <1>9 DEF Next

(* The parts of Flights and Leftover.                                       *)
OneQuery(q) == IF q = {} THEN 0 ELSE 1
OneToken(h) == IF h["private_token"].inflight THEN 1 ELSE 0

LEMMA FlightTypes ==
    ASSUME IInv, ComingInv
    PROVE  /\ Outstanding \in Nat /\ Aloft(hub) \in Nat
           /\ OneQuery(queries) \in {0, 1} /\ OneToken(hub) \in {0, 1}
           /\ OneToken(hub) = 1 => Outstanding > 0
           /\ Flights = Outstanding + Aloft(hub) + OneQuery(queries)
           /\ Leftover = Outstanding - OneToken(hub)
BY HubTypes, OutstandingType, AloftType
   DEF ComingInv, Ends, Flights, Leftover, Aloft, OneQuery, OneToken

(* The callback of a token request.                                         *)
LEMMA TokenAckEnds ==
    ASSUME IInv, ComingInv, RequestsWaitForToken, NEW current \in BOOLEAN, TokenAck(current)
    PROVE  SF!End \/ SF!Late
<1>1. /\ hub' = Commit(hub, "private_token") /\ UNCHANGED queries
      /\ TokenCallback(current)
      /\ hasToken' = hasToken \/ hasToken' = TRUE
  BY DEF TokenAck, TokenError, TokenSkipped, TokenProcessed
<1>2. Outstanding > 0 /\ Outstanding' = Outstanding - 1
  <2>1. tokenCalls \in [current : BOOLEAN, other : Nat]
    BY OutstandingType
  <2>2. CASE current
    <3>1. tokenCalls.current /\ tokenCalls' = [tokenCalls EXCEPT !.current = FALSE]
      BY <1>1, <2>2 DEF TokenCallback
    <3>2. ~tokenCalls'.current /\ tokenCalls'.other = tokenCalls.other
      BY <2>1, <3>1
    <3> QED BY <2>1, <3>1, <3>2 DEF Outstanding
  <2>3. CASE ~current
    <3>1. tokenCalls.other > 0 /\ tokenCalls' = [tokenCalls EXCEPT !.other = @ - 1]
      BY <1>1, <2>3 DEF TokenCallback
    <3>2. tokenCalls'.current = tokenCalls.current /\ tokenCalls'.other = tokenCalls.other - 1
      BY <2>1, <3>1
    <3> QED BY <2>1, <3>1, <3>2 DEF Outstanding
  <2> QED BY <2>2, <2>3
<1>3. Aloft(hub') = Aloft(hub) /\ ~hub'["private_token"].inflight
  <2>1. \A t \in Slots \ {"private_token"} : hub'[t] = hub[t]
    BY <1>1, HubTypes, CommitLemma DEF Slots
  <2>2. \A t \in SnapshotSlots : hub'[t].inflight = hub[t].inflight
    BY <2>1 DEF SnapshotSlots, Slots
  <2>3. ~hub'["private_token"].inflight
    BY <1>1, HubTypes, CommitLemma DEF Slots
  <2> QED BY <2>2, <2>3, AloftIsSame
<1>4. /\ Flights' = Outstanding' + Aloft(hub') + OneQuery(queries')
      /\ Leftover' = Outstanding'
  BY <1>2, <1>3, FlightTypes DEF Flights, Leftover, Aloft, OneQuery
<1>5. Flights' = Flights - 1 /\ Leftover' = Outstanding - 1
  BY <1>1, <1>2, <1>3, <1>4, FlightTypes
<1>6. CASE hub["private_token"].inflight
  <2>1. hasToken /\ hasToken' = hasToken
    BY <1>1, <1>6 DEF RequestsWaitForToken
  <2>2. Leftover = Outstanding - 1 /\ Flights > Leftover
    BY <1>2, <1>6, FlightTypes DEF OneToken
  <2> QED BY <1>5, <2>1, <2>2 DEF SF!End
<1>7. CASE ~hub["private_token"].inflight
  <2>1. Leftover = Outstanding
    BY <1>7, FlightTypes DEF OneToken
  <2>2. hasToken' \in {hasToken, TRUE}
    BY <1>1
  <2> QED BY <1>2, <1>5, <2>1, <2>2 DEF SF!Late
<1> QED BY <1>6, <1>7

(* The callback of a snapshot ends its round trip.                          *)
LEMMA SnapshotAckEnds ==
    ASSUME IInv, ComingInv, NEW s \in Slots, SnapshotAck(s)
    PROVE  SF!End
<1>1. /\ hub' = Commit(hub, s) /\ s \in SnapshotSlots /\ hub[s].inflight
      /\ UNCHANGED <<queries, tokenCalls, hasToken>>
  BY DEF SnapshotAck, restVars, SnapshotSlots
<1>2. ~hub'[s].inflight /\ \A t \in Slots \ {s} : hub'[t] = hub[t]
  BY <1>1, HubTypes, CommitLemma
<1>3. Aloft(hub) = 1
  BY <1>1, HubTypes, AloftIsOne
<1>4. Aloft(hub') = 0
  <2>1. \A t \in SnapshotSlots : ~hub'[t].inflight
    BY <1>1, <1>2, HubTypes DEF Single, SnapshotSlots, Slots
  <2> QED BY <2>1, AloftIsNone
<1>5. OneToken(hub') = OneToken(hub)
  BY <1>1, <1>2 DEF OneToken, SnapshotSlots, Slots
<1>6. Outstanding' = Outstanding /\ OneQuery(queries') = OneQuery(queries)
  BY <1>1 DEF Outstanding
<1>7. /\ Flights' = Outstanding' + Aloft(hub') + OneQuery(queries')
      /\ Leftover' = Outstanding' - OneToken(hub')
  BY DEF Flights, Leftover, Aloft, OneQuery, OneToken
<1>8. Flights' = Flights - 1 /\ Leftover' = Leftover /\ Flights > Leftover
  BY <1>3, <1>4, <1>5, <1>6, <1>7, FlightTypes
<1> QED BY <1>1, <1>8 DEF SF!End

(* The callback of an order query, the last of which ends the round trip.   *)
LEMMA OrderAckEnds ==
    ASSUME IInv, ComingInv, NEW q \in queries, OrderAck(q)
    PROVE  SF!End \/ UNCHANGED SF!vars
<1>1. /\ hub' = Commit(hub, "stale_orders") \/ hub' = hub
      /\ UNCHANGED <<tokenCalls, hasToken>>
  BY DEF OrderAck, OrderCallback
<1>2. \A t \in Slots \ {"stale_orders"} : hub'[t] = hub[t]
  BY <1>1, HubTypes, CommitLemma DEF Slots
<1>3. Aloft(hub') = Aloft(hub)
  <2>1. \A t \in SnapshotSlots : hub'[t].inflight = hub[t].inflight
    BY <1>2 DEF SnapshotSlots, Slots
  <2> QED BY <2>1, AloftIsSame
<1>4. OneToken(hub') = OneToken(hub)
  BY <1>2 DEF OneToken, Slots
<1>5. Outstanding' = Outstanding
  BY <1>1 DEF Outstanding
<1>6. OneQuery(queries) = 1 /\ OneQuery(queries') \in {0, 1}
  BY DEF OneQuery
<1>7. /\ Flights' = Outstanding' + Aloft(hub') + OneQuery(queries')
      /\ Leftover' = Outstanding' - OneToken(hub')
  BY DEF Flights, Leftover, Aloft, OneQuery, OneToken
<1>8. CASE OneQuery(queries') = 0
  <2>1. Flights' = Flights - 1 /\ Leftover' = Leftover /\ Flights > Leftover
    BY <1>3, <1>4, <1>5, <1>6, <1>7, <1>8, FlightTypes
  <2> QED BY <1>1, <2>1 DEF SF!End
<1>9. CASE OneQuery(queries') = 1
  <2>1. Flights' = Flights /\ Leftover' = Leftover
    BY <1>3, <1>4, <1>5, <1>6, <1>7, <1>9, FlightTypes
  <2> QED BY <1>1, <2>1 DEF SF!vars
<1> QED BY <1>6, <1>8, <1>9

(* A timer begins one round trip, if any, when none is under way.           *)
LEMMA TimerBegins ==
    ASSUME IInv, ComingInv, RequestsWaitForToken,
           NEW allow \in BOOLEAN, NEW due \in BOOLEAN, NEW expire \in BOOLEAN,
           Timer(allow, due, expire)
    PROVE  SF!Begin \/ UNCHANGED SF!vars
<1> DEFINE sent == Sent(hub, allow)
<1>1. PICK found : RestTimer(sent, found)
  BY TimerSends
<1>2. /\ \A s \in sent : hub'[s].inflight
      /\ \A s \in Slots \ sent : hub'[s].inflight = hub[s].inflight
      /\ sent \in SUBSET Slots
  BY TimerSends DEF Sent
<1>3. UNCHANGED hasToken
  BY <1>1 DEF RestTimer
<1>4. /\ Flights' = Outstanding' + Aloft(hub') + OneQuery(queries')
      /\ Leftover' = Outstanding' - OneToken(hub')
  BY DEF Flights, Leftover, Aloft, OneQuery, OneToken
<1>5. CASE sent = {}
  <2>1. UNCHANGED <<queries, tokenCalls>>
    BY <1>1, <1>5 DEF RestTimer
  <2>2. \A s \in SnapshotSlots : hub'[s].inflight = hub[s].inflight
    BY <1>2, <1>5 DEF SnapshotSlots, Slots
  <2>3. Aloft(hub') = Aloft(hub)
    BY <2>2, AloftIsSame
  <2>4. OneToken(hub') = OneToken(hub)
    BY <1>2, <1>5 DEF OneToken, Slots
  <2>5. Outstanding' = Outstanding /\ OneQuery(queries') = OneQuery(queries)
    BY <2>1 DEF Outstanding
  <2> QED BY <1>3, <1>4, <2>3, <2>4, <2>5, FlightTypes DEF SF!vars
<1>6. ASSUME NEW s \in sent PROVE SF!Begin \/ UNCHANGED SF!vars
  <2>1. (\A t \in Slots : ~hub[t].inflight) /\ sent = {s}
    BY <1>6, HubTypes, SentLemma
  <2>2. hasToken
    BY <1>6 DEF Sent, RequestsWaitForToken
  <2>3. queries = {}
    BY <2>1 DEF IInv, CounterMatchesQueries, Slots
  <2>4. Flights = Outstanding /\ Leftover = Outstanding
    <3>1. Aloft(hub) = 0
      BY <2>1, AloftIsNone DEF SnapshotSlots, Slots
    <3>2. OneToken(hub) = 0 /\ OneQuery(queries) = 0
      BY <2>1, <2>3 DEF OneToken, OneQuery, Slots
    <3> QED BY <3>1, <3>2, FlightTypes
  <2>5. \A t \in Slots \ {s} : ~hub'[t].inflight
    BY <1>2, <2>1
  <2> HIDE DEF sent
  <2>6. CASE s = "private_token"
    <3>1. tokenCalls' = [tokenCalls EXCEPT !.other = @ + 1] /\ UNCHANGED queries
      BY <1>1, <2>1, <2>6 DEF RestTimer
    <3>2. tokenCalls'.other = tokenCalls.other + 1 /\ tokenCalls'.current = tokenCalls.current
      BY <3>1, OutstandingType
    <3>3. Outstanding' = Outstanding + 1
      BY <3>2, OutstandingType DEF Outstanding
    <3>4. Aloft(hub') = 0
      BY <2>5, <2>6, AloftIsNone DEF SnapshotSlots, Slots
    <3>5. OneToken(hub') = 1 /\ OneQuery(queries') = 0
      BY <1>2, <1>6, <2>3, <2>6, <3>1 DEF OneToken, OneQuery
    <3>6. Flights' = Flights + 1 /\ Leftover' = Leftover
      BY <1>4, <2>4, <3>3, <3>4, <3>5, OutstandingType
    <3> QED BY <1>3, <2>2, <2>4, <3>6 DEF SF!Begin
  <2>7. CASE s = "stale_orders"
    <3>1. UNCHANGED tokenCalls
      BY <1>1, <2>1, <2>7 DEF RestTimer
    <3>2. Outstanding' = Outstanding
      BY <3>1 DEF Outstanding
    <3>3. Aloft(hub') = 0
      BY <2>5, <2>7, AloftIsNone DEF SnapshotSlots, Slots
    <3>4. OneToken(hub') = 0 /\ OneQuery(queries') \in {0, 1}
      BY <2>5, <2>7 DEF OneToken, OneQuery, Slots
    <3>5. Leftover' = Leftover /\ (Flights' = Flights \/ Flights' = Flights + 1)
      BY <1>4, <2>4, <3>2, <3>3, <3>4, OutstandingType
    <3> QED BY <1>3, <2>2, <2>4, <3>5 DEF SF!Begin, SF!vars
  <2>8. CASE s \in SnapshotSlots
    <3>1. UNCHANGED <<tokenCalls, queries>>
      BY <1>1, <2>1, <2>8 DEF RestTimer, SnapshotSlots
    <3>2. Outstanding' = Outstanding
      BY <3>1 DEF Outstanding
    <3>3. Aloft(hub') = 1
      <4>1. {t \in SnapshotSlots : hub'[t].inflight} = {s}
        BY <1>2, <1>6, <2>5, <2>8 DEF SnapshotSlots, Slots
      <4> QED BY <4>1, FS_Singleton DEF Aloft
    <3>4. OneToken(hub') = 0 /\ OneQuery(queries') = 0
      BY <2>3, <2>5, <2>8, <3>1 DEF OneToken, OneQuery, Slots, SnapshotSlots
    <3>5. Flights' = Flights + 1 /\ Leftover' = Leftover
      BY <1>4, <2>4, <3>2, <3>3, <3>4, OutstandingType
    <3> QED BY <1>3, <2>2, <2>4, <3>5 DEF SF!Begin
  <2> QED BY <1>2, <1>6, <2>6, <2>7, <2>8 DEF Slots, SnapshotSlots
<1> QED BY <1>5, <1>6

(* A request of the first download goes out, or nothing does.               *)
LEMMA RestAsks ==
    ASSUME IInv, ComingInv, RestConnect \/ RestDisconnect \/ RestRetry
    PROVE  SF!Ask \/ UNCHANGED SF!vars
<1> USE DEF RestConnect, RestDisconnect, RestRetry, Rest
<1>1. UNCHANGED <<hub, queries, hasToken>>
  BY DEF hubVars, RestConnected, RestDisconnected, DownloadRetry
<1>2. CASE UNCHANGED tokenCalls
  BY <1>1, <1>2 DEF SF!vars, Flights, Leftover, Outstanding
<1>3. CASE DownloadToken
  <2>1. ~hasToken /\ tokenCalls' = [current |-> TRUE, other |-> Outstanding]
    BY <1>3 DEF DownloadToken
  <2>2. Outstanding' = Outstanding + 1
    BY <2>1, OutstandingType DEF Outstanding
  <2>3. /\ Flights' = Outstanding' + Aloft(hub') + OneQuery(queries')
        /\ Leftover' = Outstanding' - OneToken(hub')
    BY DEF Flights, Leftover, Aloft, OneQuery, OneToken
  <2>4. Aloft(hub') = Aloft(hub) /\ OneToken(hub') = OneToken(hub) /\ OneQuery(queries') = OneQuery(queries)
    BY <1>1
  <2>5. Flights' = Flights + 1 /\ Leftover' = Leftover + 1
    BY <2>2, <2>3, <2>4, FlightTypes
  <2> QED BY <1>1, <2>1, <2>5 DEF SF!Ask
<1> QED BY <1>2, <1>3 DEF RestConnected, RestDisconnected, DownloadRetry

LEMMA WsSendsNothing ==
    ASSUME IInv,
           \/ WsConnect \/ WsReady \/ WsDisconnect \/ WsResume \/ WsWelcome \/ WsAck
           \/ OrdersChange \/ UNCHANGED vars
    PROVE  UNCHANGED SF!vars
<1>1. UNCHANGED <<queries, tokenCalls, hasToken>>
  BY DEF WsConnect, WsReady, WsDisconnect, WsResume, WsWelcome, WsAck, Ws, OrdersChange,
         restVars, vars
<1>2. SameFlights(hub, hub')
  <2>1. CASE UNCHANGED hub
    BY <2>1 DEF SameFlights
  <2>2. CASE WsAck
    <3> DEFINE n == Following(dcState, details)
    <3>1. hub' = Enter(n, hub) /\ dcState \in SubscribeStates
      BY <2>2 DEF WsAck, Ws, Ack
    <3>2. n \in States
      BY <3>1, FollowingLemma
    <3> HIDE DEF n
    <3> QED BY <3>1, <3>2, HubTypes, EnterLemma
  <2> QED BY <2>1, <2>2
          DEF WsConnect, WsReady, WsDisconnect, WsResume, WsWelcome, Ws, Welcome,
              OrdersChange, hubVars, vars
<1>3. /\ {s \in SnapshotSlots : hub'[s].inflight} = {s \in SnapshotSlots : hub[s].inflight}
      /\ hub'["private_token"].inflight = hub["private_token"].inflight
  BY <1>2 DEF SameFlights, SnapshotSlots, Slots
<1> QED BY <1>1, <1>3 DEF SF!vars, Flights, Leftover, Outstanding

LEMMA StepRefinesSingleFlight ==
    IInv /\ ComingInv /\ RequestsWaitForToken /\ [Next]_vars => [SF!Next]_(SF!vars)
<1> SUFFICES ASSUME IInv, ComingInv, RequestsWaitForToken, [Next]_vars
             PROVE  SF!Next \/ UNCHANGED SF!vars
  OBVIOUS
<1> QED BY RestAsks, TokenAckEnds, SnapshotAckEnds, OrderAckEnds, TimerBegins, WsSendsNothing
        DEF Next, SF!Next

(* The calls of an account go out one round trip at a time, the next when   *)
(* those of the previous one have been called back, except that calls which *)
(* the first download of the token left behind may still be around: an      *)
(* account implements SingleFlight                                          *)
(* (request.cpp:17-19, order_entry_rest.cpp:126-136,308-325,1091-1107).     *)
THEOREM RequestsGoOneAtATime == Spec => OneAtATime
<1>1. Init => RequestsWaitForToken
  BY DEF Init, RestInit, HubInit, IdleSlot, RequestsWaitForToken, Slots
<1>2. Init => SF!Init
  <2> SUFFICES ASSUME Init PROVE SF!Init
    OBVIOUS
  <2>1. Outstanding = 0 /\ queries = {} /\ hasToken = FALSE
    BY DEF Init, RestInit, NoCalls, Outstanding
  <2>2. \A s \in Slots : ~hub[s].inflight
    BY DEF Init, HubInit, IdleSlot
  <2>3. Aloft(hub) = 0
    BY <2>2, AloftIsNone DEF SnapshotSlots, Slots
  <2>4. Flights = 0
    BY <2>1, <2>3 DEF Flights, Aloft
  <2>5. Leftover = 0
    <3>1. OneToken(hub) = 0
      BY <2>2 DEF OneToken, Slots
    <3>2. Leftover = Outstanding - OneToken(hub)
      BY DEF Leftover, OneToken
    <3> QED BY <2>1, <3>1, <3>2
  <2> QED BY <2>1, <2>4, <2>5 DEF SF!Init
<1> QED BY <1>1, <1>2, StepRefinesSingleFlight, NextKeepsWaiting, ComingInvariance, Invariance, PTL
        DEF Spec, OneAtATime, SF!Spec

-----------------------------------------------------------------------------
(* The download of the token.                                               *)

LEMMA NextKeepsDownload == IInv /\ TokenDownloadGoesOn /\ [Next]_vars => TokenDownloadGoesOn'
<1> SUFFICES ASSUME IInv, TokenDownloadGoesOn, [Next]_vars PROVE TokenDownloadGoesOn'
  OBVIOUS
<1> USE DEF TokenDownloadGoesOn, Downloading
<1>1. tokenCalls \in [current : BOOLEAN, other : Nat]
  BY DEF IInv, TypeOK, RestTypeOK
<1>2. CASE UNCHANGED <<restUp, restDownload, retrying, tokenCalls>>
  BY <1>2
<1>3. CASE RestConnect \/ RestDisconnect \/ RestRetry
  <2>1. ASSUME DownloadToken PROVE TokenDownloadGoesOn'
    BY <2>1 DEF DownloadToken
  <2>2. ASSUME DownloadDone PROVE TokenDownloadGoesOn'
    BY <2>2 DEF DownloadDone
  <2>3. ASSUME ~restUp' PROVE TokenDownloadGoesOn'
    BY <2>3
  <2> QED BY <1>3, <2>1, <2>2, <2>3
          DEF RestConnect, RestDisconnect, RestRetry, Rest,
              RestConnected, RestDisconnected, DownloadRetry
<1>4. ASSUME NEW current \in BOOLEAN, TokenAck(current) PROVE TokenDownloadGoesOn'
  <2>1. CASE TokenError(current)
    BY <2>1 DEF TokenError
  <2>2. CASE TokenSkipped(current)
    <3>1. tokenCalls' = [tokenCalls EXCEPT !.other = @ - 1]
      BY <2>2 DEF TokenSkipped, TokenCallback
    <3>2. tokenCalls'.current = tokenCalls.current
      BY <1>1, <3>1
    <3> QED BY <2>2, <3>2 DEF TokenSkipped
  <2>3. ASSUME NEW success \in BOOLEAN, TokenProcessed(current, success)
        PROVE  TokenDownloadGoesOn'
    BY <2>3 DEF TokenProcessed, DownloadDone
  <2> QED BY <1>4, <2>1, <2>2, <2>3 DEF TokenAck
<1>5. ASSUME NEW s \in Slots, SnapshotAck(s) PROVE TokenDownloadGoesOn'
  BY <1>2, <1>5 DEF SnapshotAck, restVars
<1>6. ASSUME NEW q \in queries, OrderAck(q) PROVE TokenDownloadGoesOn'
  BY <1>2, <1>6 DEF OrderAck, OrderCallback
<1>7. CASE \/ WsConnect \/ WsReady \/ WsDisconnect \/ WsResume \/ WsWelcome \/ WsAck
           \/ OrdersChange \/ UNCHANGED vars
  BY <1>2, <1>7
  DEF WsConnect, WsReady, WsDisconnect, WsResume, WsWelcome, WsAck, Ws, OrdersChange,
      restVars, vars
<1>8. ASSUME NEW allow \in BOOLEAN, NEW due \in BOOLEAN, NEW expire \in BOOLEAN,
             Timer(allow, due, expire)
      PROVE  TokenDownloadGoesOn'
  <2>1. PICK sent, found : RestTimer(sent, found)
    BY <1>8 DEF Timer
  <2>2. UNCHANGED <<restUp, restDownload, retrying>>
    BY <2>1 DEF RestTimer
  <2>3. tokenCalls'.current = tokenCalls.current
    BY <1>1, <2>1 DEF RestTimer
  <2> QED BY <2>2, <2>3
<1> QED BY <1>3, <1>4, <1>5, <1>6, <1>7, <1>8 DEF Next

(* While the token is downloaded over a connection, the last request has    *)
(* not been called back or a retry is due: no answer to an earlier request, *)
(* and no connection lost meanwhile, makes the download stop                *)
(* (order_entry_rest.cpp:221-237,261-263,298-326).                          *)
THEOREM TokenDownloadsGoOn == Spec => []TokenDownloadGoesOn
<1>1. Init => TokenDownloadGoesOn
  BY DEF Init, RestInit, TokenDownloadGoesOn, Downloading
<1> QED BY <1>1, NextKeepsDownload, Invariance, PTL DEF Spec

(* A session, the requests behind a round trip and the download of the      *)
(* token all wait for something that is still to come                       *)
(* (drop_copy.cpp:254-283, order_entry_rest.cpp:126-136,298-338).           *)
THEOREM NothingEverWaitsInVain == Spec => []NothingWaitsInVain
<1>1. SnapshotsAreComing /\ RoundTripsEnd /\ TokenDownloadGoesOn => NothingWaitsInVain
  BY DEF NothingWaitsInVain
<1> QED BY <1>1, SnapshotsAlwaysCome, RoundTripsAlwaysEnd, TokenDownloadsGoOn, PTL

-----------------------------------------------------------------------------
(* The requests of an account that is not a master are not sent, so its     *)
(* private session gets as far as GET_BALANCES.                             *)

ReadyIsMaster == dcStatus = "READY" => Master

GuestInv ==
    ~Master =>
        /\ dcState \in {"UNDEFINED", "SUBSCRIBE_BALANCES", "GET_BALANCES"}
        /\ ~hub["balances"].inflight /\ ~hub["balances"].response

LEMMA GuestsSendNothing ==
    ASSUME ~Master, NEW h \in Hubs, NEW allow \in BOOLEAN
    PROVE  SendAll(h, Sent(h, allow))["balances"] = h["balances"]
<1>1. CheckOrder = <<"private_token">>
  BY DEF CheckOrder
<1>2. "balances" \notin Sent(h, allow)
  BY <1>1 DEF Sent, FirstPending
<1> QED BY <1>2 DEF SendAll, Slots

LEMMA TimerKeepsGuest ==
    ASSUME IInv, GuestInv, NEW allow \in BOOLEAN, NEW due \in BOOLEAN, NEW expire \in BOOLEAN,
           Timer(allow, due, expire)
    PROVE  GuestInv'
<1> DEFINE sent == Sent(hub, allow)
           h == SendAll(hub, sent)
           d == IF "stale_orders" \in sent THEN {} ELSE details
           f == Fetched(sent)
<1> SUFFICES ASSUME ~Master
             PROVE  /\ dcState' \in {"UNDEFINED", "SUBSCRIBE_BALANCES", "GET_BALANCES"}
                    /\ ~hub'["balances"].inflight /\ ~hub'["balances"].response
  BY DEF GuestInv
<1>1. IF socket = "absent"
      THEN hub' = h /\ UNCHANGED dcVars
      ELSE DropCopyTimer(h, d, f, due, expire)
  BY DEF Timer
<1>2. h["balances"] = hub["balances"]
  BY HubTypes, GuestsSendNothing
<1> HIDE DEF h, d, f
<1>3. ~h["balances"].inflight /\ ~h["balances"].response
  BY <1>2 DEF GuestInv
<1>4. dcState \in {"UNDEFINED", "SUBSCRIBE_BALANCES", "GET_BALANCES"}
  BY DEF GuestInv
<1>5. CASE OpenTimer(h, d, due, expire)
  <2>1. ~Answered(h)
    BY <1>3, <1>4 DEF Answered, SlotOf, GetStates
  <2>2. CheckRequestQueue(h, d) = [state |-> dcState, hub |-> h, details |-> d]
    BY <2>1 DEF CheckRequestQueue
  <2>3. hub' = h /\ UNCHANGED dcState
    BY <1>4, <1>5, <2>2 DEF OpenTimer
  <2> QED BY <1>3, <1>4, <2>3
<1>6. CASE hub' = h /\ UNCHANGED dcState
  BY <1>3, <1>4, <1>6
<1>7. CASE hub' = h /\ Disconnect
  BY <1>3, <1>7 DEF Disconnect
<1> QED BY <1>1, <1>5, <1>6, <1>7 DEF DropCopyTimer, dcVars

LEMMA NextKeepsGuest == IInv /\ GuestInv /\ [Next]_vars => GuestInv'
<1> SUFFICES ASSUME IInv, GuestInv, [Next]_vars, ~Master PROVE GuestInv'
  BY DEF GuestInv
<1>1. CASE UNCHANGED <<hub, dcState>>
  BY <1>1 DEF GuestInv
<1>2. ASSUME NEW s \in Slots \ {"balances"}, hub' = Commit(hub, s), UNCHANGED dcState
      PROVE  GuestInv'
  <2>1. hub'["balances"] = hub["balances"]
    BY <1>2, HubTypes, CommitLemma DEF Slots
  <2> QED BY <1>2, <2>1 DEF GuestInv
<1>3. CASE RestConnect \/ RestDisconnect \/ RestRetry
  BY <1>1, <1>3 DEF RestConnect, RestDisconnect, RestRetry, Rest, hubVars, dcVars
<1>4. ASSUME NEW current \in BOOLEAN, TokenAck(current) PROVE GuestInv'
  BY <1>2, <1>4 DEF TokenAck, PrivateToken, dcVars, Slots
<1>5. ASSUME NEW s \in Slots, SnapshotAck(s) PROVE GuestInv'
  BY <1>2, <1>5 DEF SnapshotAck, dcVars, GuestInv
<1>6. ASSUME NEW q \in queries, OrderAck(q) PROVE GuestInv'
  BY <1>1, <1>2, <1>6 DEF OrderAck, dcVars, Slots
<1>7. CASE WsConnect \/ WsReady \/ WsResume \/ OrdersChange \/ UNCHANGED vars
  BY <1>1, <1>7 DEF WsConnect, WsReady, WsResume, Ws, SocketConnected, SocketReady,
                    SuspendExpired, OrdersChange, vars, hubVars, dcVars
<1>8. CASE WsDisconnect \/ WsWelcome
  BY <1>8 DEF WsDisconnect, WsWelcome, Ws, SocketDisconnected, Disconnect, Welcome,
              EnterState, hubVars, GuestInv
<1>9. CASE WsAck
  <2>1. dcState = "SUBSCRIBE_BALANCES"
    BY <1>9 DEF WsAck, Ws, Ack, GuestInv, SubscribeStates
  <2>2. dcState' = "GET_BALANCES" /\ hub' = Request(hub, "balances")
    <3>1. Following("SUBSCRIBE_BALANCES", details) = "GET_BALANCES"
      BY DEF Following, Successor
    <3> QED BY <1>9, <2>1, <3>1 DEF WsAck, Ws, Ack, EnterState, Enter, GetStates, SlotOf
  <2>3. hub'["balances"] = [pending |-> TRUE, inflight |-> hub["balances"].inflight, response |-> FALSE]
    BY <2>2, HubTypes DEF Request, Hubs, Slots
  <2> QED BY <2>2, <2>3 DEF GuestInv
<1>10. ASSUME NEW allow \in BOOLEAN, NEW due \in BOOLEAN, NEW expire \in BOOLEAN,
              Timer(allow, due, expire)
       PROVE  GuestInv'
  BY <1>10, TimerKeepsGuest
<1> QED BY <1>3, <1>4, <1>5, <1>6, <1>7, <1>8, <1>9, <1>10 DEF Next

(* The private session of an account that is not a master never becomes     *)
(* READY: check_request_queue sends for a master only, so the first         *)
(* snapshot is asked for and never sent (order_entry_rest.cpp:130,          *)
(* drop_copy.cpp:254-257).                                                  *)
THEOREM OnlyMastersAreReady == Spec => []ReadyIsMaster
<1>1. Init => GuestInv
  BY DEF Init, HubInit, DropCopyInit, IdleSlot, GuestInv, Slots
<1>2. IInv /\ GuestInv => ReadyIsMaster
  BY DEF IInv, PhaseInv, GuestInv, ReadyIsMaster
<1> QED BY <1>1, <1>2, NextKeepsGuest, Invariance, PTL DEF Spec
=============================================================================
