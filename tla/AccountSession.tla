--------------------------- MODULE AccountSession ---------------------------
(***************************************************************************)
(* One account of the gateway: OrderEntryREST and DropCopy around the      *)
(* Request they share, with the Controller that hands the private token    *)
(* from one to the other and dispatches the timer to both, REST first.     *)
(* The gateway is one event loop: a callback is one atomic step.           *)
(***************************************************************************)
EXTENDS OrderEntryREST, DropCopy

vars == <<restVars, dcVars, stale, hubVars>>

Init == HubInit /\ RestInit /\ DropCopyInit /\ stale = {}

-----------------------------------------------------------------------------
(* Steps of the REST connection and its callbacks.                          *)

Rest(A) == A /\ UNCHANGED <<hubVars, dcVars, stale>>

RestConnect == Rest(RestConnected)
RestDisconnect == Rest(RestDisconnected)
RestRetry == Rest(DownloadRetry)

(* Every get_private_token_ack commits.  A token is handed on when its code *)
(* is success; a rejection is only logged.                                  *)
TokenAck(current) ==
    /\ hub' = Commit(hub, "private_token")
    /\ UNCHANGED <<details, stale>>
    /\ \/ (TokenError(current) \/ TokenSkipped(current)) /\ UNCHANGED dcVars
       \/ TokenProcessed(current, TRUE) /\ \E t \in Tokens : PrivateToken(t)
       \/ TokenProcessed(current, FALSE) /\ UNCHANGED dcVars

(* get_account_ack, get_position_ack, get_orders_ack, get_execution_ack:    *)
(* whatever the answer, commit.                                             *)
SnapshotAck(s) ==
    /\ s \in {"balances", "positions", "open_orders", "trades"}
    /\ hub[s].inflight
    /\ hub' = Commit(hub, s)
    /\ UNCHANGED <<restVars, details, dcVars, stale>>

(* mutant: the last but one commits *)
OrderAckCommitsEarly(q) ==
    /\ OrderCallback(q)
    /\ hub' = IF counter' = 1 THEN Commit(hub, "stale_orders") ELSE hub
    /\ UNCHANGED <<details, dcVars, stale>>

(* get_order_ack: the last one commits.                                     *)
OrderAck(q) ==
    /\ OrderCallback(q)
    /\ hub' = IF counter' = 0 THEN Commit(hub, "stale_orders") ELSE hub
    /\ UNCHANGED <<details, dcVars, stale>>

-----------------------------------------------------------------------------
(* Steps of the web socket and of the OMS.                                  *)

Ws(A) == A /\ UNCHANGED <<restVars, stale>>

WsConnect == Ws(SocketConnected) /\ UNCHANGED hubVars
WsReady == Ws(SocketReady) /\ UNCHANGED hubVars
WsDisconnect == Ws(SocketDisconnected) /\ UNCHANGED hubVars
WsResume == Ws(SuspendExpired) /\ UNCHANGED hubVars
WsWelcome == Ws(Welcome)
WsAck == Ws(Ack)

(* The OMS considers other orders stale: they lost track of the exchange, or *)
(* an update of any stream resolved them.                                    *)
OrdersChange ==
    /\ \E o \in Orders : stale' = (stale \cup {o}) \/ stale' = stale \ {o}
    /\ UNCHANGED <<restVars, hubVars, dcVars>>

-----------------------------------------------------------------------------
(* The timer: OrderEntryREST sends, then DropCopy looks at the requests.    *)

Fetched(sent) ==
    fetched \cup {s \in GetStates : s = dcState /\ SlotOf[s] \in sent}

Timer(allow, due, expire) ==
    \E found \in (IF MayForget THEN SUBSET details ELSE {details}) :
        LET sent == Sent(hub, allow)
            d == IF "stale_orders" \in sent THEN {} ELSE details
        IN
        /\ RestTimer(sent, found)
        /\ IF socket = "absent"
           THEN hub' = SendAll(hub, sent) /\ details' = d /\ UNCHANGED dcVars
           ELSE DropCopyTimer(SendAll(hub, sent), d, Fetched(sent), due, expire)
        /\ UNCHANGED stale

-----------------------------------------------------------------------------
Next ==
    /\ fault = "none"
    /\ \/ RestConnect \/ RestDisconnect \/ RestRetry
       \/ \E current \in BOOLEAN : TokenAck(current)
       \/ \E s \in Slots : SnapshotAck(s)
       \/ \E q \in queries : OrderAck(q)
       \/ WsConnect \/ WsReady \/ WsDisconnect \/ WsResume \/ WsWelcome \/ WsAck
       \/ OrdersChange
       \/ \E allow, due, expire \in BOOLEAN : Timer(allow, due, expire)

Spec == Init /\ [][Next]_vars

(* The event loop ticks and the rate limiter lets requests go again; a lost *)
(* connection is made again; requests are called back, after               *)
(* request_timeout at the latest; the exchange welcomes a session and       *)
(* acknowledges its subscriptions; a suspended connection is dropped.       *)
Fairness ==
    /\ WF_vars(RestConnect) /\ WF_vars(RestRetry)
    /\ WF_vars(\E current \in BOOLEAN : TokenAck(current))
    /\ WF_vars(\E s \in Slots : SnapshotAck(s))
    /\ WF_vars(\E q \in queries : OrderAck(q))
    /\ WF_vars(WsConnect) /\ WF_vars(WsReady) /\ WF_vars(WsWelcome) /\ WF_vars(WsAck)
    /\ WF_vars(suspended /\ WsDisconnect)
    /\ WF_vars(\E expire \in BOOLEAN : Timer(TRUE, TRUE, expire))

FairSpec == Spec /\ Fairness

-----------------------------------------------------------------------------
(* Every variable keeps the type of the member it stands for.               *)
TypeOK == HubTypeOK /\ RestTypeOK /\ DropCopyTypeOK

(* The asserts at drop_copy.cpp:141,191,296 and the log::fatal at 465 are   *)
(* never hit, whatever the reconnects and whatever requests an earlier      *)
(* session left behind, if the exchange welcomes a session once.            *)
NoFault == fault = "none"

(* The stale orders counter is the number of order queries still to be      *)
(* called back, so get_order_ack never finds it at 0                        *)
(* (order_entry_rest.cpp:631-639), and none outlives the request.           *)
CounterMatchesQueries ==
    /\ counter = Cardinality(queries)
    /\ queries # {} => hub["stale_orders"].inflight

(* An order found stale and not yet asked for has a request waiting to ask  *)
(* for it, across disconnects and restarted downloads                       *)
(* (drop_copy.cpp:456-469,508-515, order_entry_rest.cpp:1095-1106).         *)
UnaskedOrdersArePending == details # {} => hub["stale_orders"].pending

RequiredSnapshots ==
    {"GET_BALANCES", "GET_POSITIONS", "GET_OPEN_ORDERS"}
        \cup (IF TradesLookback THEN {"GET_TRADES"} ELSE {})

(* READY is published only for a session in which every channel was         *)
(* acknowledged and every snapshot requested anew, never on the strength of *)
(* what an earlier session asked for (drop_copy.cpp:242-302,434-480).       *)
ReadyIsComplete ==
    dcStatus = "READY" =>
        /\ ready /\ welcome /\ socket = "open"
        /\ acked = SubscribeStates
        /\ RequiredSnapshots \subseteq fetched

(* A token that was thrown away is being asked for again unless a request   *)
(* for one has failed (drop_copy.cpp:388-396, order_entry_rest.cpp:325).    *)
TokenIsReplaced ==
    socket # "absent" /\ query = NoToken /\ tokenErrors = 0 =>
        hub["private_token"].pending \/ Outstanding > 0

(* A session that waits for a snapshot does not wait in vain: its request   *)
(* waits to be sent, is in flight or is answered, although requests of      *)
(* earlier sessions end in between (drop_copy.cpp:254-283,434-480,          *)
(* order_entry_rest.cpp:363-380,1091-1107).                                 *)
SnapshotsAreComing ==
    dcState \in GetStates =>
        LET request == hub[SlotOf[dcState]] IN
        request.pending \/ request.inflight \/ request.response

(* No request blocks the others for ever: while one for a token or for      *)
(* stale orders is in flight there is a call whose callback commits it,     *)
(* unless the OMS forgot the orders, and a request that waits to ask for    *)
(* stale orders has orders to ask for (drop_copy.cpp:275-282,508-515,       *)
(* order_entry_rest.cpp:298-338,634-640,1094-1106).                         *)
RoundTripsEnd ==
    /\ hub["private_token"].inflight => Outstanding > 0
    /\ hub["stale_orders"].pending => details # {}
    /\ hub["stale_orders"].inflight => queries # {} \/ MayForget

(* The first download of the token goes on over lost connections, failed    *)
(* requests and late answers: while it runs, its last request is not called *)
(* back or a retry is due (order_entry_rest.cpp:221-237,261-263,298-326).   *)
TokenDownloadGoesOn == restUp /\ Downloading => tokenCalls.current \/ retrying

(* Nothing of an account waits for what is not to come: neither a session,  *)
(* nor the other requests during a round trip, nor the download of the      *)
(* token (drop_copy.cpp:254-283, order_entry_rest.cpp:126-136,298-338).     *)
NothingWaitsInVain == SnapshotsAreComing /\ RoundTripsEnd /\ TokenDownloadGoesOn

-----------------------------------------------------------------------------
(* The HTTP calls of the account, the queries about stale orders as one.     *)
SnapshotSlots == {"balances", "positions", "open_orders", "trades"}

Flights ==
    Outstanding + Cardinality({s \in SnapshotSlots : hub[s].inflight})
        + (IF queries = {} THEN 0 ELSE 1)

(* The token calls without a round trip of theirs.                          *)
Leftover == Outstanding - (IF hub["private_token"].inflight THEN 1 ELSE 0)

SF == INSTANCE SingleFlight WITH
        flights <- Flights, leftover <- Leftover, downloaded <- hasToken

(* The calls of an account implement SingleFlight: one round trip at a      *)
(* time, as far as the first download of the token leaves no calls behind,  *)
(* and no callback lets a round trip begin during that of another request   *)
(* (request.cpp:17-19, order_entry_rest.cpp:126-136,308-325,1091-1107).     *)
OneAtATime == SF!Spec

ChannelOf ==
    [SUBSCRIBE_BALANCES |-> "balance", GET_BALANCES |-> "balance",
     SUBSCRIBE_POSITIONS |-> "positionAll", GET_POSITIONS |-> "positionAll",
     SUBSCRIBE_ORDERS |-> "orderAll", GET_OPEN_ORDERS |-> "orderAll",
     SUBSCRIBE_TRADES |-> "execution", GET_TRADES |-> "execution"]

SD == INSTANCE SessionDownload WITH
        Channels <- {ChannelOf[s] : s \in SubscribeStates},
        Snapshots <- {ChannelOf[s] : s \in RequiredSnapshots},
        phase <- IF dcStatus = "READY" THEN "ready"
                 ELSE IF dcStatus = "DOWNLOADING" THEN "downloading" ELSE "offline",
        subscribed <- {ChannelOf[s] : s \in acked},
        fetched <- {ChannelOf[s] : s \in fetched \ {"GET_STALE_ORDERS"}}

(* A private session implements SessionDownload: subscribe, then fetch,     *)
(* then ready, all within one connection (drop_copy.cpp:242-302).           *)
SubscribeBeforeFetch == SD!Spec

-----------------------------------------------------------------------------
(* The private token was refused or its request failed after the first      *)
(* download: nothing asks for another.                                      *)
TokenLost ==
    /\ Outstanding = 0 /\ ~hub["private_token"].pending
    /\ socket = "absent" => hasToken
    /\ query = NoToken

(* As long as no token is lost the private session becomes ready, and does  *)
(* so again after every disconnect and every expired token.                 *)
ReadyAgain == []<>(dcStatus = "READY" \/ TokenLost)

(* Every order found stale is eventually asked for, whether the session     *)
(* that found it lives on or not (drop_copy.cpp:482-515,                    *)
(* order_entry_rest.cpp:1095-1106).                                         *)
StaleOrdersAreAsked ==
    \A o \in Orders : o \in details ~> \E q \in queries : q.order = o

-----------------------------------------------------------------------------
(* "has_downloaded_private_token_": once it is set there was a token to     *)
(* create the private session with (order_entry_rest.cpp:308-323).          *)
DownloadedTokenIsUsed == hasToken => socket # "absent"

(* get_order asks the exchange for the symbol of the order                  *)
(* (order_entry_rest.cpp:581-592,1097).                                     *)
QueryNamesTheSymbol == \A q \in queries : q.query.symbol = SymbolOf(q.order)
=============================================================================
