----------------------------- MODULE MarketData -----------------------------
(***************************************************************************)
(* gateway/market_data.{hpp,cpp}: the public web sockets, one per slice of *)
(* the symbols, and what they subscribe to.  Variables are functions of    *)
(* the stream.  An action constrains the variables of this module only.    *)
(*                                                                         *)
(* web::socket::Client: see DropCopy.  core::limit::Queue keeps messages   *)
(* in order and passes them on while the rate limiter, which all queues of *)
(* the gateway share, lets it.                                             *)
(***************************************************************************)
EXTENDS SymbolSlices

CONSTANTS
    TopOfBookFromTicker,    \* settings.misc.top_of_book_from_ticker
    EnableMbp,              \* settings.misc.experimental_enable_mbp
    MaxDrops                \* bound: lost connections

ASSUME MarketDataAssumption ==
    TopOfBookFromTicker \in BOOLEAN /\ EnableMbp \in BOOLEAN /\ MaxDrops \in Nat

VARIABLES
    socket,             \* "absent" before Controller creates the stream
    wsStatus,           \* connection_status_; READY exactly when welcome_
    logonTimeout,       \* logon_timeout_ # 0
    queue,              \* subscribe_queue_
    asked,              \* history: how often this session subscribed to a symbol
    sent,               \* history: what this session sent
    wsDrops,
    fault               \* the assert that was hit

wsVars == <<socket, wsStatus, logonTimeout, queue, asked, sent, wsDrops, fault>>

-----------------------------------------------------------------------------
(* The topics of subscribe(symbols) *)
TopOfBook == IF TopOfBookFromTicker THEN "ticker" ELSE "obu 1"
Topics == {TopOfBook, "trade"} \cup (IF EnableMbp THEN {"obu increment"} ELSE {})

Message(topic, symbol) == <<topic, symbol>>
Messages == {Message(t, s) : t \in Topics, s \in Symbols}

Ready(i) == wsStatus[i] = "READY"

MarketDataInit ==
    /\ socket = [i \in Streams |-> "absent"]
    /\ wsStatus = [i \in Streams |-> "UNDEFINED"]
    /\ logonTimeout = [i \in Streams |-> FALSE]
    /\ queue = [i \in Streams |-> <<>>]
    /\ asked = [i \in Streams |-> [s \in Symbols |-> 0]]
    /\ sent = [i \in Streams |-> {}]
    /\ wsDrops = 0
    /\ fault = FALSE

MarketDataTypeOK ==
    /\ socket \in [Streams -> {"absent", "down", "connected", "open"}]
    /\ wsStatus \in [Streams -> {"UNDEFINED", "DISCONNECTED", "READY"}]
    /\ logonTimeout \in [Streams -> BOOLEAN]
    /\ queue \in [Streams -> Seq(Messages)]
    /\ asked \in [Streams -> [Symbols -> Nat]]
    /\ sent \in [Streams -> SUBSET Messages]
    /\ wsDrops \in 0..MaxDrops
    /\ fault \in BOOLEAN

-----------------------------------------------------------------------------
(* subscribe(topic, symbols) *)
SubscribeTopic(topic, slice) == [k \in DOMAIN slice |-> Message(topic, slice[k])]

(* subscribe(symbols) *)
Subscriptions(slice) ==
    SubscribeTopic(TopOfBook, slice) \o SubscribeTopic("trade", slice)
        \o (IF EnableMbp THEN SubscribeTopic("obu increment", slice) ELSE <<>>)

(* how often subscribe(start_from) of stream i names each symbol *)
AskedAgain(i, list, from) ==
    [s \in Symbols |->
        asked[i][s] +
            Cardinality({k \in SliceBegin(i, from)..SliceEnd(list, i) : list[k] = s})]

(* mutant: start_from is not looked at *)
SubscribeAll(list, from, streams) ==
    /\ queue' = [i \in Streams |-> IF i \in streams
                                   THEN queue[i] \o Subscriptions(Slice(list, i, 0)) ELSE queue[i]]
    /\ asked' = [i \in Streams |-> IF i \in streams
                                   THEN AskedAgain(i, list, 0) ELSE asked[i]]

(* mutant: the queue is assigned to *)
SubscribeReplaces(list, from, streams) ==
    /\ queue' = [i \in Streams |-> IF i \in streams
                                   THEN Subscriptions(Slice(list, i, from)) ELSE queue[i]]
    /\ asked' = [i \in Streams |-> IF i \in streams
                                   THEN AskedAgain(i, list, from) ELSE asked[i]]

(* mutant: the whole list past start_from, the index of the stream is not *)
(* looked at                                                              *)
SubscribeWithoutIndex(list, from, streams) ==
    /\ queue' = [i \in Streams |-> IF i \in streams
                                   THEN queue[i] \o Subscriptions(SubSeq(list, from + 1, Len(list)))
                                   ELSE queue[i]]
    /\ asked' = [i \in Streams |-> IF i \in streams
                                   THEN AskedAgain(i, list, from) ELSE asked[i]]

(* subscribe(start_from) of the streams given, for a list of symbols *)
Subscribe(list, from, streams) ==
    /\ queue' = [i \in Streams |-> IF i \in streams
                                   THEN queue[i] \o Subscriptions(Slice(list, i, from)) ELSE queue[i]]
    /\ asked' = [i \in Streams |-> IF i \in streams
                                   THEN AskedAgain(i, list, from) ELSE asked[i]]

-----------------------------------------------------------------------------
SocketConnected(i) ==
    /\ socket[i] = "down"
    /\ socket' = [socket EXCEPT ![i] = "connected"]
    /\ fault' = (fault \/ logonTimeout[i])
    /\ logonTimeout' = [logonTimeout EXCEPT ![i] = TRUE]
    /\ UNCHANGED <<wsStatus, queue, asked, sent, wsDrops>>

(* Ready: "note! wait for welcome" *)
SocketReady(i) ==
    /\ socket[i] = "connected"
    /\ socket' = [socket EXCEPT ![i] = "open"]
    /\ UNCHANGED <<wsStatus, logonTimeout, queue, asked, sent, wsDrops, fault>>

(* mutant: logon_timeout_ survives *)
DisconnectKeepsTimeout(streams) ==
    /\ socket' = [i \in Streams |-> IF i \in streams THEN "down" ELSE socket[i]]
    /\ wsStatus' = [i \in Streams |-> IF i \in streams THEN "DISCONNECTED" ELSE wsStatus[i]]
    /\ asked' = [i \in Streams |-> IF i \in streams THEN [s \in Symbols |-> 0] ELSE asked[i]]
    /\ UNCHANGED logonTimeout

(* Disconnected; subscribe_queue_ is kept *)
Disconnect(streams) ==
    /\ socket' = [i \in Streams |-> IF i \in streams THEN "down" ELSE socket[i]]
    /\ wsStatus' = [i \in Streams |-> IF i \in streams THEN "DISCONNECTED" ELSE wsStatus[i]]
    /\ logonTimeout' = [i \in Streams |-> logonTimeout[i] /\ i \notin streams]
    /\ asked' = [i \in Streams |-> IF i \in streams THEN [s \in Symbols |-> 0] ELSE asked[i]]

SocketDisconnected(i) ==
    /\ socket[i] \in {"connected", "open"}
    /\ wsDrops < MaxDrops
    /\ wsDrops' = wsDrops + 1
    /\ Disconnect({i})
    /\ sent' = [sent EXCEPT ![i] = {}]
    /\ UNCHANGED <<queue, fault>>

(* mutant: a session subscribes to nothing but new symbols *)
WelcomeWithoutSubscribe(i) ==
    /\ socket[i] = "open" /\ ~Ready(i)
    /\ wsStatus' = [wsStatus EXCEPT ![i] = "READY"]
    /\ UNCHANGED <<socket, logonTimeout, queue, asked, sent, wsDrops, fault>>

(* Welcome, which the exchange sends once in a session *)
Welcome(i) ==
    /\ socket[i] = "open" /\ ~Ready(i)
    /\ wsStatus' = [wsStatus EXCEPT ![i] = "READY"]
    /\ Subscribe(symbols, 0, {i})
    /\ UNCHANGED <<socket, logonTimeout, sent, wsDrops, fault>>

-----------------------------------------------------------------------------
(* check_subscribe_queue of every stream in turn: the rate limiter lets some *)
(* messages go, n from the queue of stream stop, and then no more.           *)
Sends(i, stop, n) ==
    IF ~Ready(i) \/ i > stop THEN 0 ELSE IF i < stop THEN Len(queue[i]) ELSE n

(* Timer; the streams expired have not opened within ws.request_timeout, so *)
(* they have sent nothing.                                                  *)
StreamsTimer(stop, n, expired) ==
    /\ \A i \in expired : socket[i] = "connected" /\ logonTimeout[i]
    /\ wsDrops' = wsDrops + Cardinality(expired)
    /\ wsDrops' <= MaxDrops
    /\ Disconnect(expired)
    /\ fault' = (fault \/ \E i \in expired : Ready(i))
    /\ queue' = [i \in Streams |-> SubSeq(queue[i], Sends(i, stop, n) + 1, Len(queue[i]))]
    /\ sent' = [i \in Streams |-> sent[i] \cup {queue[i][k] : k \in 1..Sends(i, stop, n)}]
=============================================================================
