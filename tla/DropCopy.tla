------------------------------ MODULE DropCopy ------------------------------
(***************************************************************************)
(* gateway/drop_copy.{hpp,cpp}: the private web socket of one account.     *)
(* After the welcome message it downloads: each private channel is         *)
(* subscribed to, then its snapshot is asked for through RequestHub.  An   *)
(* action constrains the variables of this module only.                    *)
(*                                                                         *)
(* web::socket::Client alternates Connected and Disconnected, refresh() is *)
(* true from Ready to Disconnected, suspend_for drops the connection and   *)
(* keeps it down until resume or the end of the period.  The exchange      *)
(* refuses a handshake without a token.                                    *)
(***************************************************************************)
EXTENDS RequestHub, Naturals

CONSTANTS
    Tokens, NoToken,    \* private tokens; the empty query
    TradesLookback,     \* settings.download.trades_lookback # 0
    SimulateExpiry,     \* settings.misc.experimental_simulate_expired_token # 0
    MaxDrops            \* bound: lost web socket connections

ASSUME DropCopyAssumption ==
    /\ NoToken \notin Tokens
    /\ TradesLookback \in BOOLEAN /\ SimulateExpiry \in BOOLEAN
    /\ MaxDrops \in Nat

VARIABLES
    socket,             \* "absent" before Controller creates the object
    suspended,          \* is connection_ suspended?
    query,              \* query_
    welcome, ready,     \* welcome_, ready_
    dcStatus,           \* connection_status_
    dcState,            \* download_.state()
    logonTimeout,       \* logon_timeout_ # 0
    simulate,           \* next_simulated_disconnect_ # 0
    acked, fetched,     \* history: steps of this download acknowledged, sent
    stale,              \* the OMS: orders get_all_stale_orders reports
    drops,
    fault               \* the assert or log::fatal that was hit

dcVars == <<socket, suspended, query, welcome, ready, dcStatus, dcState,
            logonTimeout, simulate, acked, fetched, drops, fault>>

-----------------------------------------------------------------------------
SubscribeStates == {"SUBSCRIBE_BALANCES", "SUBSCRIBE_POSITIONS", "SUBSCRIBE_ORDERS", "SUBSCRIBE_TRADES"}

SlotOf == [GET_BALANCES |-> "balances", GET_POSITIONS |-> "positions",
           GET_OPEN_ORDERS |-> "open_orders", GET_STALE_ORDERS |-> "stale_orders",
           GET_TRADES |-> "trades"]

GetStates == DOMAIN SlotOf

States == SubscribeStates \cup GetStates \cup {"UNDEFINED", "DONE"}

(* mutant: two snapshots swapped *)
SuccessorSwapped ==
    [SUBSCRIBE_BALANCES |-> "GET_POSITIONS", GET_POSITIONS |-> "SUBSCRIBE_POSITIONS",
     SUBSCRIBE_POSITIONS |-> "GET_BALANCES", GET_BALANCES |-> "SUBSCRIBE_ORDERS",
     SUBSCRIBE_ORDERS |-> "GET_OPEN_ORDERS", GET_OPEN_ORDERS |-> "GET_STALE_ORDERS",
     GET_STALE_ORDERS |-> "SUBSCRIBE_TRADES", SUBSCRIBE_TRADES |-> "GET_TRADES",
     GET_TRADES |-> "DONE"]

Successor ==
    [SUBSCRIBE_BALANCES |-> "GET_BALANCES", GET_BALANCES |-> "SUBSCRIBE_POSITIONS",
     SUBSCRIBE_POSITIONS |-> "GET_POSITIONS", GET_POSITIONS |-> "SUBSCRIBE_ORDERS",
     SUBSCRIBE_ORDERS |-> "GET_OPEN_ORDERS", GET_OPEN_ORDERS |-> "GET_STALE_ORDERS",
     GET_STALE_ORDERS |-> "SUBSCRIBE_TRADES", SUBSCRIBE_TRADES |-> "GET_TRADES",
     GET_TRADES |-> "DONE"]

(* mutant: stale orders are asked for even if there are none *)
FollowingAlwaysAsks(s, d) ==
    IF s = "SUBSCRIBE_TRADES" /\ ~TradesLookback THEN "DONE" ELSE Successor[s]

(* The state in which download next returns 1, or DONE, after the check of s *)
Following(s, d) ==
    CASE s = "GET_OPEN_ORDERS" /\ d = {} -> "SUBSCRIBE_TRADES"
      [] s = "SUBSCRIBE_TRADES" /\ ~TradesLookback -> "DONE"
      [] OTHER -> Successor[s]

(* download(s): the request it makes *)
Enter(s, h) == IF s \in GetStates THEN Request(h, SlotOf[s]) ELSE h

(* download(s): the state it leaves behind *)
EnterState(s) ==
    /\ dcState' = s
    /\ dcStatus' = IF s = "DONE" THEN "READY" ELSE "DOWNLOADING"
    /\ ready' = (ready \/ s = "DONE")

(* assert(!ready_) *)
ReadyTwice(s) == s = "DONE" /\ ready

-----------------------------------------------------------------------------
DropCopyInit ==
    /\ socket = "absent"
    /\ suspended = FALSE
    /\ query = NoToken
    /\ welcome = FALSE
    /\ ready = FALSE
    /\ dcStatus = "UNDEFINED"
    /\ dcState = "UNDEFINED"
    /\ logonTimeout = FALSE
    /\ simulate = FALSE
    /\ acked = {}
    /\ fetched = {}
    /\ drops = 0
    /\ fault = "none"

DropCopyTypeOK ==
    /\ socket \in {"absent", "down", "connected", "open"}
    /\ suspended \in BOOLEAN /\ query \in Tokens \cup {NoToken}
    /\ welcome \in BOOLEAN /\ ready \in BOOLEAN
    /\ dcStatus \in {"UNDEFINED", "DISCONNECTED", "DOWNLOADING", "READY"}
    /\ dcState \in States
    /\ logonTimeout \in BOOLEAN /\ simulate \in BOOLEAN
    /\ acked \in SUBSET SubscribeStates /\ fetched \in SUBSET GetStates
    /\ stale \in SUBSET Orders
    /\ drops \in 0..MaxDrops
    /\ fault \in {"none", "logon_timeout", "welcome", "ready_twice", "stale_orders"}

(* Controller::operator()(Trace<PrivateToken>) and DropCopy's own handler *)
PrivateToken(t) ==
    /\ IF socket = "absent"
       THEN socket' = "down" /\ query' = t /\ UNCHANGED suspended
       ELSE /\ UNCHANGED socket
            /\ query' = t
            /\ suspended' = IF query # t THEN FALSE ELSE suspended
    /\ UNCHANGED <<welcome, ready, dcStatus, dcState, logonTimeout, simulate,
                   acked, fetched, drops, fault>>

SocketConnected ==
    /\ socket = "down" /\ ~suspended
    /\ socket' = "connected"
    /\ fault' = IF logonTimeout THEN "logon_timeout" ELSE fault
    /\ logonTimeout' = TRUE
    /\ simulate' = (simulate \/ SimulateExpiry)
    /\ UNCHANGED <<suspended, query, welcome, ready, dcStatus, dcState, acked, fetched, drops>>

(* Ready: "note! wait for welcome" *)
SocketReady ==
    /\ socket = "connected" /\ query # NoToken
    /\ socket' = "open"
    /\ UNCHANGED <<suspended, query, welcome, ready, dcStatus, dcState,
                   logonTimeout, simulate, acked, fetched, drops, fault>>

(* mutant: logon_timeout_ survives *)
DisconnectKeepsTimeout ==
    /\ socket' = "down"
    /\ ready' = FALSE /\ welcome' = FALSE
    /\ dcStatus' = "DISCONNECTED" /\ dcState' = "UNDEFINED"
    /\ acked' = {} /\ fetched' = {}
    /\ UNCHANGED logonTimeout

(* mutant: no download_.reset() *)
DisconnectKeepsDownload ==
    /\ socket' = "down"
    /\ ready' = FALSE /\ welcome' = FALSE
    /\ dcStatus' = "DISCONNECTED"
    /\ logonTimeout' = FALSE
    /\ acked' = {} /\ fetched' = {}
    /\ UNCHANGED dcState

(* Disconnected *)
Disconnect ==
    /\ socket' = "down"
    /\ ready' = FALSE
    /\ dcStatus' = "DISCONNECTED"
    /\ dcState' = "UNDEFINED"
    /\ welcome' = FALSE
    /\ logonTimeout' = FALSE
    /\ acked' = {}
    /\ fetched' = {}

SocketDisconnected ==
    /\ socket \in {"connected", "open"}
    /\ \/ suspended /\ UNCHANGED drops
       \/ socket = "connected" /\ query = NoToken /\ UNCHANGED drops
       \/ drops < MaxDrops /\ drops' = drops + 1
    /\ Disconnect
    /\ UNCHANGED <<suspended, query, simulate, fault>>

SuspendExpired ==
    /\ suspended /\ socket = "down"
    /\ suspended' = FALSE
    /\ UNCHANGED <<socket, query, welcome, ready, dcStatus, dcState, logonTimeout,
                   simulate, acked, fetched, drops, fault>>

(* Welcome: begin the download; its first state subscribes *)
Welcome ==
    /\ socket = "open" /\ ~welcome
    /\ welcome' = TRUE
    /\ EnterState("SUBSCRIBE_BALANCES")
    /\ UNCHANGED <<socket, suspended, query, logonTimeout, simulate, acked, fetched, drops, fault>>
    /\ UNCHANGED hubVars

(* Ack: the exchange answers a SUBSCRIBE with the state it was sent in; the *)
(* result of the subscription is not looked at.                            *)
Ack ==
    /\ socket = "open" /\ dcState \in SubscribeStates
    /\ LET next == Following(dcState, details) IN
        /\ EnterState(next)
        /\ hub' = Enter(next, hub)
        /\ fault' = IF ReadyTwice(next) THEN "ready_twice" ELSE fault
    /\ acked' = acked \cup {dcState}
    /\ UNCHANGED <<socket, suspended, query, welcome, logonTimeout, simulate, fetched, drops, details>>

-----------------------------------------------------------------------------
Answered(h) == dcState \in GetStates /\ h[SlotOf[dcState]].response

(* mutant: check_stale_orders after download_.check *)
CheckRequestQueueThenStale(h, d) ==
    IF Answered(h)
    THEN LET d2 == IF dcState = "GET_OPEN_ORDERS" THEN d \cup stale ELSE d
             next == Following(dcState, d)
         IN [state |-> next, hub |-> Enter(next, Consume(h, SlotOf[dcState])), details |-> d2]
    ELSE [state |-> dcState, hub |-> h, details |-> d]

(* check_request_queue: the state, the requests and the details it leaves; *)
(* the open orders are followed by check_stale_orders                      *)
CheckRequestQueue(h, d) ==
    IF Answered(h)
    THEN LET d2 == IF dcState = "GET_OPEN_ORDERS" THEN d \cup stale ELSE d
             next == Following(dcState, d2)
         IN [state |-> next, hub |-> Enter(next, Consume(h, SlotOf[dcState])), details |-> d2]
    ELSE [state |-> dcState, hub |-> h, details |-> d]

(* log::fatal in GET_STALE_ORDERS *)
UnexpectedStaleOrders(h, d) == dcState = "GET_STALE_ORDERS" /\ Answered(h) /\ d # {}

(* check_stale_orders(trace_info) *)
CheckStaleOrders(h, d) ==
    [hub |-> IF stale \subseteq d THEN h ELSE Request(h, "stale_orders"),
     details |-> d \cup stale]

(* mutant: the token is dropped without asking for another *)
RequestPrivateTokenOnlyClears(h) == h

(* request_private_token, which also clears query_ and suspends connection_ *)
RequestPrivateToken(h) == IF query = NoToken THEN h ELSE Request(h, "private_token")

(* Timer while refresh() is true, from requests h and details d: due says   *)
(* whether next_check_stale_orders_ has passed, expire whether              *)
(* next_simulated_disconnect_ has.                                          *)
OpenTimer(h, d, due, expire) ==
    LET q == CheckRequestQueue(h, d)
        moves == q.state # dcState
        isReady == q.state = "DONE"
        polled == IF isReady THEN Consume(q.hub, "private_token") ELSE q.hub
        checked == IF isReady /\ due THEN CheckStaleOrders(polled, q.details)
                                     ELSE [hub |-> polled, details |-> q.details]
        expired == isReady /\ expire /\ simulate
    IN  /\ IF moves THEN EnterState(q.state) ELSE UNCHANGED <<dcState, dcStatus, ready>>
        /\ details' = checked.details
        /\ hub' = IF expired THEN RequestPrivateToken(checked.hub) ELSE checked.hub
        /\ query' = IF expired THEN NoToken ELSE query
        /\ suspended' = (suspended \/ (expired /\ query # NoToken))
        /\ simulate' = (simulate /\ ~expired)
        /\ fault' = IF UnexpectedStaleOrders(h, d) THEN "stale_orders"
                    ELSE IF moves /\ ReadyTwice(q.state) THEN "ready_twice" ELSE fault

(* Timer, f being the steps of the download that have been sent; the last   *)
(* alternative is the passed logon timeout, which closes the connection.    *)
DropCopyTimer(h, d, f, due, expire) ==
    \/ /\ socket = "open"
       /\ OpenTimer(h, d, due, expire)
       /\ fetched' = f
       /\ UNCHANGED <<socket, welcome, logonTimeout, acked, drops>>
    \/ /\ socket # "open"
       /\ hub' = h /\ details' = d /\ fetched' = f
       /\ UNCHANGED <<socket, suspended, query, welcome, ready, dcStatus, dcState,
                      logonTimeout, simulate, acked, drops, fault>>
    \/ /\ socket = "connected" /\ logonTimeout /\ drops < MaxDrops
       /\ hub' = h /\ details' = d
       /\ fault' = IF welcome THEN "welcome" ELSE fault
       /\ drops' = drops + 1
       /\ Disconnect
       /\ UNCHANGED <<suspended, query, simulate>>
=============================================================================
