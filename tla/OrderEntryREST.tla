--------------------------- MODULE OrderEntryREST ---------------------------
(***************************************************************************)
(* gateway/order_entry_rest.{hpp,cpp}, the download side of an account:    *)
(* the private token, the requests DropCopy asks for, the queries about    *)
(* stale orders.  An action constrains the variables of this module only;  *)
(* AccountSession adds what the handlers it calls do to the rest.          *)
(*                                                                         *)
(* web::rest::Client calls every request back once: an answer, or an error *)
(* after request_timeout or a lost connection.  core::Download2 invokes    *)
(* download(state), waits while it returned 1, and invokes it again after  *)
(* bump or retry under a new sequence; the answer to an older invocation   *)
(* is the one that skip recognises.                                        *)
(***************************************************************************)
EXTENDS RequestHub, Naturals, Sequences, FiniteSets

CONSTANTS
    Unacknowledged,     \* those the exchange has given no order id
    Master,             \* account.master
    MayForget,          \* can find_order miss an order reported as stale?
    MaxCalls,           \* bound: private token requests in flight
    MaxRestDrops,       \* bound: lost REST connections
    MaxTokenErrors      \* bound: private token requests that fail

ASSUME RestAssumption ==
    /\ IsFiniteSet(Orders) /\ Unacknowledged \subseteq Orders
    /\ Master \in BOOLEAN /\ MayForget \in BOOLEAN
    /\ MaxCalls \in Nat /\ MaxRestDrops \in Nat /\ MaxTokenErrors \in Nat

VARIABLES
    restUp,             \* is the REST connection established?
    restStatus,         \* connection_status_
    restDownload,       \* download_.state()
    retrying,           \* download_.retry called, download not invoked yet
    hasToken,           \* has_downloaded_private_token_
    tokenCalls,         \* token requests without callback: from the current
                        \* download sequence, and the others
    counter,            \* download_stale_orders_counter_
    queries,            \* order queries without callback
    restDrops, tokenErrors

restVars == <<restUp, restStatus, restDownload, retrying, hasToken, tokenCalls,
              counter, queries, restDrops, tokenErrors>>

-----------------------------------------------------------------------------
(* An order is asked for by symbol, and by exchange id or else client id.   *)

Empty == <<>>
SymbolOf(o) == <<"symbol", o>>
ClientOrderId(o) == <<"client_order_id", o>>
ExternalOrderId(o) == IF o \in Unacknowledged THEN Empty ELSE <<"external_order_id", o>>

(* OrderEntryREST::get_order, its parameters in the order of its signature *)
GetOrder(client_order_id, external_order_id, symbol) ==
    [symbol |-> symbol,
     id |-> IF external_order_id = Empty THEN client_order_id ELSE external_order_id]

(* the helper of check_request_queue, its arguments in the order of the call *)
StaleQuery(o) ==
    [order |-> o, query |-> GetOrder(SymbolOf(o), ClientOrderId(o), ExternalOrderId(o))]

StaleQueries == {StaleQuery(o) : o \in Orders}

-----------------------------------------------------------------------------
NoCalls == [current |-> FALSE, other |-> 0]
Outstanding == tokenCalls.other + (IF tokenCalls.current THEN 1 ELSE 0)
Downloading == restDownload = "PRIVATE_TOKEN"

RestInit ==
    /\ restUp = FALSE
    /\ restStatus = "UNDEFINED"
    /\ restDownload = "UNDEFINED"
    /\ retrying = FALSE
    /\ hasToken = FALSE
    /\ tokenCalls = NoCalls
    /\ counter = 0
    /\ queries = {}
    /\ restDrops = 0
    /\ tokenErrors = 0

RestTypeOK ==
    /\ restUp \in BOOLEAN
    /\ restStatus \in {"UNDEFINED", "DISCONNECTED", "DOWNLOADING", "READY"}
    /\ restDownload \in {"UNDEFINED", "PRIVATE_TOKEN", "DONE"}
    /\ retrying \in BOOLEAN /\ hasToken \in BOOLEAN
    /\ tokenCalls \in [current : BOOLEAN, other : Nat]
    /\ counter \in Nat /\ queries \in SUBSET StaleQueries
    /\ restDrops \in 0..MaxRestDrops /\ tokenErrors \in 0..MaxTokenErrors

-----------------------------------------------------------------------------
(* download(PRIVATE_TOKEN) when no token has been downloaded *)
DownloadToken ==
    /\ ~hasToken
    /\ Outstanding < MaxCalls
    /\ restDownload' = "PRIVATE_TOKEN"
    /\ restStatus' = "DOWNLOADING"
    /\ tokenCalls' = [current |-> TRUE, other |-> Outstanding]
    /\ retrying' = FALSE

(* download(DONE) *)
DownloadDone ==
    /\ restDownload' = "DONE"
    /\ restStatus' = "READY"

(* Connected: bump or begin invoke download(PRIVATE_TOKEN) ... *)
RestConnected ==
    /\ ~restUp
    /\ restUp' = TRUE
    /\ \/ DownloadToken
       \/ hasToken /\ DownloadDone /\ UNCHANGED <<retrying, tokenCalls>>
    /\ UNCHANGED <<hasToken, counter, queries, restDrops, tokenErrors>>

RestDisconnected ==
    /\ restUp
    /\ restDrops < MaxRestDrops
    /\ restUp' = FALSE
    /\ restStatus' = "DISCONNECTED"
    /\ restDownload' = IF Downloading THEN restDownload ELSE "UNDEFINED"
    /\ restDrops' = restDrops + 1
    /\ UNCHANGED <<retrying, hasToken, tokenCalls, counter, queries, tokenErrors>>

(* core::Download2 invoking download again after a retry *)
DownloadRetry ==
    /\ restUp /\ retrying /\ Downloading
    /\ DownloadToken
    /\ UNCHANGED <<restUp, hasToken, counter, queries, restDrops, tokenErrors>>

-----------------------------------------------------------------------------
(* get_private_token_ack: the callback of a token request, which belongs to *)
(* the current download sequence or does not.                               *)

(* mutant: the callbacks of two download sequences are not told apart *)
TokenCallbackOfAny(current) ==
    /\ Outstanding > 0 /\ current \in BOOLEAN
    /\ tokenCalls' = [tokenCalls EXCEPT !.other = @ - 1]

TokenCallback(current) ==
    IF current
    THEN /\ tokenCalls.current
         /\ tokenCalls' = [tokenCalls EXCEPT !.current = FALSE]
    ELSE /\ tokenCalls.other > 0
         /\ tokenCalls' = [tokenCalls EXCEPT !.other = @ - 1]

(* mutant: no retry *)
TokenErrorNotRetried(current) ==
    /\ TokenCallback(current)
    /\ tokenErrors < MaxTokenErrors
    /\ tokenErrors' = tokenErrors + 1
    /\ UNCHANGED <<restUp, restStatus, restDownload, retrying, hasToken, counter, queries, restDrops>>

(* handle_error *)
TokenError(current) ==
    /\ TokenCallback(current)
    /\ tokenErrors < MaxTokenErrors
    /\ tokenErrors' = tokenErrors + 1
    /\ retrying' = (retrying \/ Downloading)
    /\ UNCHANGED <<restUp, restStatus, restDownload, hasToken, counter, queries, restDrops>>

(* handle_success when download_.skip *)
TokenSkipped(current) ==
    /\ restUp
    /\ Downloading /\ ~current
    /\ TokenCallback(current)
    /\ UNCHANGED <<restUp, restStatus, restDownload, retrying, hasToken, counter,
                   queries, restDrops, tokenErrors>>

(* handle_success otherwise; the code of the token is success or it is not *)
TokenProcessed(current, success) ==
    /\ restUp
    /\ tokenErrors' = IF success THEN tokenErrors ELSE tokenErrors + 1
    /\ tokenErrors' <= MaxTokenErrors
    /\ Downloading => current
    /\ TokenCallback(current)
    /\ IF Downloading THEN DownloadDone ELSE UNCHANGED <<restDownload, restStatus>>
    /\ retrying' = FALSE
    /\ hasToken' = TRUE
    /\ UNCHANGED <<restUp, counter, queries, restDrops>>

-----------------------------------------------------------------------------
(* The order in which Timer visits the requests: check_request_queue for a  *)
(* master account, then the private token.                                  *)
CheckOrder ==
    (IF Master THEN <<"balances", "positions", "open_orders", "stale_orders", "trades">>
               ELSE <<>>) \o <<"private_token">>

FirstPending(h, s) ==
    \E i \in DOMAIN CheckOrder :
        /\ CheckOrder[i] = s
        /\ h[s].pending
        /\ \A j \in 1..(i - 1) : ~h[CheckOrder[j]].pending

(* What one Timer sends: once a request is in flight no other is let go.    *)
Sent(h, allow) ==
    IF restUp /\ restStatus = "READY" /\ allow /\ HubReady(h)
    THEN {s \in Slots : /\ FirstPending(h, s)
                        /\ s = "private_token" => Outstanding < MaxCalls}
    ELSE {}

SendAll(h, sent) ==
    [s \in Slots |-> IF s \in sent THEN Send(h, s)[s] ELSE h[s]]

(* mutant: an order that find_order misses is counted *)
RestTimerCountsMissing(sent, found) ==
    /\ IF "stale_orders" \in sent
       THEN /\ queries' = queries \cup {StaleQuery(o) : o \in found}
            /\ counter' = counter + Cardinality(details)
       ELSE UNCHANGED <<queries, counter>>
    /\ tokenCalls' = IF "private_token" \in sent
                     THEN [tokenCalls EXCEPT !.other = @ + 1] ELSE tokenCalls
    /\ UNCHANGED <<restUp, restStatus, restDownload, retrying, hasToken, restDrops, tokenErrors>>

(* Timer, when it sends the requests sent and find_order finds found *)
RestTimer(sent, found) ==
    /\ IF "stale_orders" \in sent
       THEN /\ queries' = queries \cup {StaleQuery(o) : o \in found}
            /\ counter' = counter + Cardinality(found)
       ELSE UNCHANGED <<queries, counter>>
    /\ tokenCalls' = IF "private_token" \in sent
                     THEN [tokenCalls EXCEPT !.other = @ + 1] ELSE tokenCalls
    /\ UNCHANGED <<restUp, restStatus, restDownload, retrying, hasToken, restDrops, tokenErrors>>

-----------------------------------------------------------------------------
(* get_order_ack, whatever the answer; log::fatal when counter is 0 *)
OrderCallback(q) ==
    /\ q \in queries
    /\ counter # 0
    /\ queries' = queries \ {q}
    /\ counter' = counter - 1
    /\ UNCHANGED <<restUp, restStatus, restDownload, retrying, hasToken, tokenCalls,
                   restDrops, tokenErrors>>
=============================================================================
