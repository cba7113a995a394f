---------------------------- MODULE OrderActions ----------------------------
(***************************************************************************)
(* The order actions of one account: Controller picks OrderEntryWS or      *)
(* OrderEntryREST, which sends one call, or for cancel all one call per    *)
(* symbol, and hands the OMS what the exchange answers.  Modify, mass      *)
(* quotes and cancel quotes throw NotSupported and change nothing.         *)
(*                                                                         *)
(* web::rest::Client calls every call back once.  A web socket that is not *)
(* open drops what is sent; what it sent is lost with it.  The exchange    *)
(* executes or refuses a call, and then answers; a server error or a       *)
(* network error says nothing about what it did.  The OMS may raise an     *)
(* exception when it is handed a response; raised from a catch clause it   *)
(* leaves the callback, and the OMS has been told all the same.            *)
(***************************************************************************)
EXTENDS OrderEntryWS, Sequences, FiniteSets

CONSTANTS
    Requests,           \* requests of the OMS, each with an id of its own
    Symbols, NoSymbol,  \* symbols of the orders; the filter that is empty
    MaxCalls,           \* bound: calls made
    MaxRaises           \* bound: responses that make the OMS raise

ASSUME OrderActionsAssumption ==
    NoSymbol \notin Symbols /\ MaxCalls \in Nat /\ MaxRaises \in Nat

VARIABLES
    wsApi,              \* settings.ws_api, with a ws.uri
    restReady,          \* OrderEntryREST::ready
    kind,               \* of the requests that were made
    net,                \* of a call: is it on its way?
    effect,             \* the exchange: what became of a call
    answer,             \* the OMS: the responses to a call, in order
    raised              \* the OMS: calls whose response it raised at

actionVars == <<wsApi, restReady, kind, net, effect, answer, raised>>

vars == <<wsVars, actionVars>>

Kinds == {"CREATE_ORDER", "CANCEL_ORDER", "CANCEL_ALL_ORDERS"}

Calls == Requests \X Symbols

(* REJECTED for a server error and those of the catch clauses have names    *)
(* of their own.                                                            *)
Exceptional == {"ERROR", "EXCEPTION", "GATEWAY"}

Statuses == {"ACCEPTED", "REJECTED", "SERVER_ERROR"} \cup Exceptional

Response(type, status) == [request_type |-> type, request_status |-> status]

Responses == [request_type : Kinds, request_status : Statuses]

KindOf(c) == kind[c[1]]

(* Controller::operator()(Event<CancelAllOrders>): "note! REST-only" *)
OverWs(k) == wsApi /\ k # "CANCEL_ALL_ORDERS"

Init ==
    /\ OrderEntryWSInit
    /\ wsApi \in BOOLEAN
    /\ restReady = FALSE
    /\ kind = [r \in Requests |-> "none"]
    /\ net = [c \in Calls |-> "idle"]
    /\ effect = [c \in Calls |-> "none"]
    /\ answer = [c \in Calls |-> <<>>]
    /\ raised = {}

-----------------------------------------------------------------------------
(* Requests of the OMS                                                      *)

Forward(r, k, symbols, fate) ==
    /\ kind[r] = "none"
    /\ kind' = [kind EXCEPT ![r] = k]
    /\ net' = [c \in Calls |-> IF c \in {r} \X symbols THEN "sent" ELSE net[c]]
    /\ Cardinality({c \in Calls : net'[c] # "idle"}) <= MaxCalls
    /\ effect' = [c \in Calls |-> IF c \in {r} \X symbols THEN fate ELSE effect[c]]
    /\ UNCHANGED <<wsVars, wsApi, restReady, answer, raised>>

(* OrderEntryWS: send_text, whatever the state of the session *)
WsForward(r, k, s) == Forward(r, k, {s}, IF socket = "open" THEN "none" ELSE "dropped")

(* OrderEntryREST::create_order; throws NotReady otherwise *)
RestCreateOrder(r, s) == restReady /\ Forward(r, "CREATE_ORDER", {s}, "none")

(* OrderEntryREST::cancel_order; throws NotReady otherwise *)
RestCancelOrder(r, s) == restReady /\ Forward(r, "CANCEL_ORDER", {s}, "none")

(* Controller::get_order_entry *)
CreateOrder(r, s) == IF wsApi THEN WsForward(r, "CREATE_ORDER", s) ELSE RestCreateOrder(r, s)

CancelOrder(r, s) == IF wsApi THEN WsForward(r, "CANCEL_ORDER", s) ELSE RestCancelOrder(r, s)

(* OrderEntryREST::cancel_all_orders: the symbols that get_all_order_symbols *)
(* reports, filtered.  The OMS is told at once that each call was FORWARDED *)
(* (send_ack), which says no more than that it was made: answer leaves it   *)
(* out.                                                                     *)
CancelAllOrders(r, known, filter) ==
    /\ restReady
    /\ Forward(r, "CANCEL_ALL_ORDERS", {s \in known : filter \in {NoSymbol, s}}, "none")

-----------------------------------------------------------------------------
(* The exchange                                                             *)

Execute(c) ==
    /\ net[c] # "idle" /\ effect[c] = "none"
    /\ \E e \in {"executed", "refused"} : effect' = [effect EXCEPT ![c] = e]
    /\ UNCHANGED <<wsVars, wsApi, restReady, kind, net, answer, raised>>

(* A response: the category of its status, unexpected for the unknown and   *)
(* the informational ones and network for none at all, and its body: the    *)
(* code, empty for a cancel that names no order.                            *)
RestResponse ==
    [category : {"success", "client_error", "server_error", "unexpected", "network"},
     body : {"success", "empty", "refused", "malformed"}]

Decoded(m) == m.category \in {"success", "client_error"}

(* What it may say of a call *)
Truthful(m, c) ==
    Decoded(m) =>
        CASE m.body = "success" -> effect[c] = "executed"
          [] m.body = "refused" -> effect[c] = "refused"
          [] m.body = "empty" -> effect[c] = "refused" /\ KindOf(c) = "CANCEL_ORDER"
          [] OTHER -> TRUE

-----------------------------------------------------------------------------
(* handle_success of the three callbacks, when the body can be decoded: the *)
(* status of the response, none for success, which is only logged.          *)

(* mutant: success is answered with what the request was *)
CreateOrderAckForwarded(body) == IF body = "refused" THEN "REJECTED" ELSE "FORWARDED"

CreateOrderAck(body) == IF body = "refused" THEN "REJECTED" ELSE "none"

CancelOrderAck(body) == IF body \in {"refused", "empty"} THEN "REJECTED" ELSE "none"

CancelAllOrdersAck(body) == IF body = "refused" THEN "REJECTED" ELSE "none"

HandleSuccess(k, body) ==
    CASE k = "CREATE_ORDER" -> CreateOrderAck(body)
      [] k = "CANCEL_ORDER" -> CancelOrderAck(body)
      [] OTHER -> CancelAllOrdersAck(body)

(* The try block of process_response: what it tells the OMS, ... *)
Tried(k, m) ==
    CASE m.category = "server_error" -> "SERVER_ERROR"
      [] Decoded(m) /\ m.body # "malformed" -> HandleSuccess(k, m.body)
      [] OTHER -> "none"

(* ... and the exceptions it may end with: there is no result, the decoder  *)
(* or expect throws, or the OMS raises one when it has been told            *)
Exceptions(k, m) ==
    CASE m.category = "network" -> {"network"}
      [] m.category = "unexpected" -> {"network", "oms", "std"}
      [] Decoded(m) /\ m.body = "malformed" -> {"std"}
      [] Tried(k, m) # "none" /\ Cardinality(raised) < MaxRaises -> {"none", "oms", "std"}
      [] OTHER -> {"none"}

(* The catch clauses *)
Caught(e) ==
    CASE e = "oms" -> "EXCEPTION"
      [] e = "network" -> "GATEWAY"
      [] e = "std" -> "ERROR"
      [] OTHER -> "none"

(* handle_error, or nothing *)
Respond(told, k, status) == IF status = "none" THEN told ELSE Append(told, Response(k, status))

(* mutant: no break after a client error *)
ProcessResponseFallsThrough(told, k, m, e) ==
    LET first == Respond(told, k, Tried(k, m))
        second == IF m.category = "client_error" /\ e = "none"
                  THEN Respond(first, k, "SERVER_ERROR") ELSE first
    IN  Respond(second, k, Caught(e))

(* process_response, when the exception e ends the try block *)
ProcessResponse(told, k, m, e) == Respond(Respond(told, k, Tried(k, m)), k, Caught(e))

(* The callback of a REST call *)
RestCallback(c, m, e) ==
    /\ net[c] = "sent" /\ ~OverWs(KindOf(c)) /\ Truthful(m, c)
    /\ e \in Exceptions(KindOf(c), m)
    /\ net' = [net EXCEPT ![c] = "over"]
    /\ answer' = [answer EXCEPT ![c] = ProcessResponse(@, KindOf(c), m, e)]
    /\ raised' = IF Tried(KindOf(c), m) # "none" /\ e # "none" THEN raised \cup {c} ELSE raised
    /\ UNCHANGED <<wsVars, wsApi, restReady, kind, effect>>

(* process_response of a redirection: log::fatal *)
RestRedirected(c) ==
    /\ net[c] = "sent" /\ ~OverWs(KindOf(c))
    /\ fault' = "redirected"
    /\ UNCHANGED <<socket, session, wsStatus, welcome, pingFreq, logonTimeout, wsDrops, authErrors>>
    /\ UNCHANGED actionVars

-----------------------------------------------------------------------------
(* The answer to an order that was sent over the web socket *)
WsOrderMessage(c) ==
    [session_id |-> FALSE, ping_interval |-> FALSE,
     op |-> IF KindOf(c) = "CREATE_ORDER" THEN "ADD_ORDER_ACK" ELSE "CANCEL_ORDER_ACK",
     code |-> IF effect[c] = "executed" THEN "success" ELSE "other"]

(* WSAddOrderAck *)
WSAddOrderAck == Response("CREATE_ORDER", "ACCEPTED")

(* WSCancelOrderAck *)
WSCancelOrderAck == Response("CANCEL_ORDER", "ACCEPTED")

(* mutant: the error of a cancel is answered as one of a create *)
WSErrorOfCreate(op) == Response("CREATE_ORDER", "REJECTED")

(* WSError with the op of an order *)
WSError(op) ==
    Response(IF op = "ADD_ORDER_ACK" THEN "CREATE_ORDER" ELSE "CANCEL_ORDER", "REJECTED")

(* mutant: the refusal of an order is only logged *)
WsOrderTextLogged(c) ==
    LET m == WsOrderMessage(c) IN
    /\ Listening /\ net[c] = "sent" /\ OverWs(KindOf(c)) /\ effect[c] \in {"executed", "refused"}
    /\ net' = [net EXCEPT ![c] = "over"]
    /\ answer' = [answer EXCEPT ![c] =
                     CASE WSDispatch(m) = "WSAddOrderAck" -> Append(@, WSAddOrderAck)
                       [] WSDispatch(m) = "WSCancelOrderAck" -> Append(@, WSCancelOrderAck)
                       [] OTHER -> @]
    /\ UNCHANGED <<wsVars, wsApi, restReady, kind, effect, raised>>

(* Text: parse the answer to an order, which names the request; an          *)
(* exception that the OMS raises is not caught, but ends the process        *)
WsOrderText(c) ==
    LET m == WsOrderMessage(c) IN
    /\ Listening /\ net[c] = "sent" /\ OverWs(KindOf(c)) /\ effect[c] \in {"executed", "refused"}
    /\ net' = [net EXCEPT ![c] = "over"]
    /\ answer' = [answer EXCEPT ![c] = Append(@,
                     CASE WSDispatch(m) = "WSAddOrderAck" -> WSAddOrderAck
                       [] WSDispatch(m) = "WSCancelOrderAck" -> WSCancelOrderAck
                       [] OTHER -> WSError(m.op))]
    /\ UNCHANGED <<wsVars, wsApi, restReady, kind, effect, raised>>

-----------------------------------------------------------------------------
Ws(A) == wsApi /\ A /\ UNCHANGED actionVars

WsConnect == Ws(WsConnected)
WsOpen == Ws(WsOpened)
WsSession == Ws(WsText)
WsTick == Ws(WsTimer)

(* What is on its way over the web socket is lost *)
WsDisconnect ==
    /\ wsApi /\ WsDisconnected
    /\ net' = [c \in Calls |-> IF net[c] = "sent" /\ OverWs(KindOf(c)) THEN "lost" ELSE net[c]]
    /\ UNCHANGED <<wsApi, restReady, kind, effect, answer, raised>>

(* OrderEntryREST becomes ready, or loses its connection *)
RestChange ==
    /\ restReady' = ~restReady
    /\ UNCHANGED <<wsVars, wsApi, kind, net, effect, answer, raised>>

-----------------------------------------------------------------------------
Submit ==
    \E r \in Requests :
        \/ \E s \in Symbols : CreateOrder(r, s) \/ CancelOrder(r, s)
        \/ \E known \in SUBSET Symbols, filter \in Symbols \cup {NoSymbol} :
              CancelAllOrders(r, known, filter)

Callback(c) ==
    \E m \in RestResponse : \E e \in Exceptions(KindOf(c), m) : RestCallback(c, m, e)

(* log::fatal has ended the process *)
Ended == fault \in {"logon_refused", "redirected"} /\ UNCHANGED vars

Next ==
    \/ /\ fault = "none"
       /\ \/ Submit
          \/ \E c \in Calls : Execute(c) \/ Callback(c) \/ RestRedirected(c) \/ WsOrderText(c)
          \/ WsConnect \/ WsOpen \/ WsSession \/ WsTick \/ WsDisconnect
          \/ RestChange
    \/ Ended

Spec == Init /\ [][Next]_vars

(* A lost connection is made again and a closed one ends; the exchange      *)
(* challenges, welcomes, and answers an order; a call is called back, after *)
(* request_timeout at the latest.                                           *)
Fairness ==
    /\ WF_vars(WsConnect) /\ WF_vars(WsOpen) /\ WF_vars(WsSession)
    /\ WF_vars(socket = "closing" /\ WsDisconnect)
    /\ \A c \in Calls : WF_vars(Execute(c)) /\ WF_vars(Callback(c)) /\ WF_vars(WsOrderText(c))

FairSpec == Spec /\ Fairness

-----------------------------------------------------------------------------
(* Every variable keeps the type of the member it stands for.               *)
TypeOK ==
    /\ OrderEntryWSTypeOK
    /\ wsApi \in BOOLEAN /\ restReady \in BOOLEAN
    /\ kind \in [Requests -> Kinds \cup {"none"}]
    /\ net \in [Calls -> {"idle", "sent", "over", "lost"}]
    /\ effect \in [Calls -> {"none", "dropped", "executed", "refused"}]
    /\ answer \in [Calls -> Seq(Responses)]
    /\ raised \in SUBSET Calls

(* No assert of the session is hit, whatever is lost, late or refused: no   *)
(* timeout outlives its session, none expires after the welcome, no ping is *)
(* sent without a period.  A refused logon is fatal unless it is retried,   *)
(* and a redirection always is, as the code says                            *)
(* (order_entry_ws.cpp:198,300-304,376,392, ws_parser.cpp:72,               *)
(* order_entry_rest.cpp:1131).                                              *)
NoFault ==
    \/ fault \in {"none", "redirected"}
    \/ fault = "logon_refused" /\ ~RetryLogon

(* READY means that this connection was logged on, not an earlier one, and  *)
(* LOGIN_SENT that it was challenged (order_entry_ws.cpp:202-211,252-271).  *)
StatusIsOfThisSession ==
    /\ Ready <=> session = "welcomed"
    /\ wsStatus = "LOGIN_SENT" => session \in {"challenged", "answered", "refused"}
    /\ session # "none" => Listening

(* What the OMS is told of a request is so: it names its type, ACCEPTED     *)
(* only what the exchange executed, REJECTED only what it refused; and that *)
(* it is told nothing of a call that was called back means that a REST call *)
(* was executed.  Nothing is said of what the OMS sees as REJECTED for a    *)
(* server error or gets from a catch clause: the exchange may have executed *)
(* the order                                                                *)
(* (order_entry_rest.cpp:783-789,858-870,1135-1149, order_entry_ws.cpp:276).*)
AnswersAreTrue ==
    \A c \in Calls :
        /\ \A i \in DOMAIN answer[c] :
              LET a == answer[c][i] IN
              /\ a.request_type = KindOf(c)
              /\ a.request_status = "ACCEPTED" => effect[c] = "executed"
              /\ a.request_status = "REJECTED" => effect[c] = "refused"
        /\ net[c] = "over" /\ answer[c] = <<>> =>
              effect[c] = "executed" /\ ~OverWs(KindOf(c))

-----------------------------------------------------------------------------
OR == INSTANCE OrderRequests WITH
        Errors <- {a \in Responses : a.request_status \in Exceptional},
        phase <- [c \in Calls |-> CASE net[c] = "idle" -> "new"
                                    [] net[c] = "sent" -> "pending"
                                    [] OTHER -> "closed"]

(* The order actions implement OrderRequests: no call is answered twice,    *)
(* before it was made, or after its session is gone, except that an         *)
(* exception of the OMS makes a catch clause of process_response answer     *)
(* again with its error                                                     *)
(* (order_entry_rest.cpp:762-793,1116-1151, order_entry_ws.cpp:202-211).    *)
OneAnswerEach == OR!Spec

-----------------------------------------------------------------------------
(* With the web socket API the session is logged on again after every lost  *)
(* connection, logon timeout and refused logon that is retried              *)
(* (order_entry_ws.cpp:202-211,297-302,390-396).                            *)
LogsOnAgain == wsApi => []<>(Ready \/ fault # "none")

(* A call that left the gateway does not end in silence: the OMS is told    *)
(* what became of it, unless a REST call was executed, about which it is    *)
(* told nothing, or the web socket is lost before the answer                *)
(* (order_entry_rest.cpp:754-799,1116-1151, order_entry_ws.cpp:273-371).    *)
CallsAreAnswered ==
    \A c \in Calls :
        net[c] = "sent" /\ effect[c] # "dropped" ~>
            \/ answer[c] # <<>>
            \/ net[c] = "over" /\ effect[c] = "executed" /\ ~OverWs(KindOf(c))
            \/ net[c] = "lost"
            \/ fault # "none"

-----------------------------------------------------------------------------
(* SUPPORTS has SupportType::ORDER_ACK (order_entry_rest.cpp:31): an order  *)
(* the exchange has accepted is acknowledged when its callback was not an   *)
(* error                                                                    *)
OrderIsAcknowledged ==
    \A c \in Calls :
        net[c] = "over" /\ KindOf(c) = "CREATE_ORDER" /\ ~wsApi /\ effect[c] = "executed" =>
            answer[c] # <<>>
=============================================================================
