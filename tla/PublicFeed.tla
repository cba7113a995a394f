----------------------------- MODULE PublicFeed -----------------------------
(***************************************************************************)
(* The public side of the gateway: Rest finds the instruments, clients     *)
(* name more symbols, Controller makes a stream for every slice and tells  *)
(* the streams what is new, and each stream subscribes to its slice again  *)
(* in every session.  One event loop: a callback is one atomic step.       *)
(***************************************************************************)
EXTENDS PublicREST, MarketData

CONSTANTS
    Discarded           \* symbols that dispatcher.discard_symbol filters out

ASSUME FeedAssumption == Discarded \in SUBSET Symbols

vars == <<restVars, symbolVars, wsVars>>

Init == RestInit /\ SymbolsInit /\ MarketDataInit

-----------------------------------------------------------------------------
(* Steps of the public REST connection                                      *)

Rest(A) == A /\ UNCHANGED <<symbolVars, wsVars>>

RestConnect == Rest(RestConnected)
RestDisconnect == Rest(RestDisconnected)
RestRetry == Rest(DownloadRetry)
RestErrorAck == Rest(\E s \in RequestStates : RestError(s))
RestSkippedAck == Rest(\E s \in RequestStates : RestSkipped(s))
RestCurrenciesAck == Rest(CurrenciesAck)

-----------------------------------------------------------------------------
(* mutant: as many streams as the symbols needed before *)
SymbolsUpdateTooEarly ==
    /\ socket' = [i \in Streams |-> IF socket[i] = "absent" /\ i <= Slices(Len(symbols))
                                    THEN "down" ELSE socket[i]]
    /\ Subscribe(symbols', Len(symbols), {i \in Streams : Ready(i)})
    /\ UNCHANGED <<wsStatus, logonTimeout, sent, wsDrops, fault>>

(* Controller::operator()(Trace<SymbolsUpdate>): the streams missing are    *)
(* created and started, then those that are ready subscribe to what is new. *)
SymbolsUpdate ==
    /\ socket' = [i \in Streams |-> IF socket[i] = "absent" /\ i <= Slices(Len(symbols'))
                                    THEN "down" ELSE socket[i]]
    /\ Subscribe(symbols', Len(symbols), {i \in Streams : Ready(i)})
    /\ UNCHANGED <<wsStatus, logonTimeout, sent, wsDrops, fault>>

(* The instruments of the exchange, those discarded are left out            *)
RestInstrumentAck ==
    /\ InstrumentAck
    /\ \E listed \in SUBSET (Symbols \ Discarded) : Add(listed)
    /\ SymbolsUpdate

(* Controller::operator()(Event<server::Subscribe>): symbols of a client    *)
ClientSubscribe ==
    /\ \E listed \in SUBSET Symbols : Add(listed)
    /\ SymbolsUpdate
    /\ UNCHANGED restVars

-----------------------------------------------------------------------------
Ws(A) == A /\ UNCHANGED <<restVars, symbolVars>>

WsConnect(i) == Ws(SocketConnected(i))
WsReady(i) == Ws(SocketReady(i))
WsDisconnect(i) == Ws(SocketDisconnected(i))
WsWelcome(i) == Ws(Welcome(i))

Timer ==
    \E stop \in Streams, expired \in SUBSET Streams :
        \E n \in 0..Len(queue[stop]) : Ws(StreamsTimer(stop, n, expired))

-----------------------------------------------------------------------------
Next ==
    \/ RestConnect \/ RestDisconnect \/ RestRetry
    \/ RestErrorAck \/ RestSkippedAck \/ RestCurrenciesAck \/ RestInstrumentAck
    \/ ClientSubscribe
    \/ \E i \in Streams : WsConnect(i) \/ WsReady(i) \/ WsDisconnect(i) \/ WsWelcome(i)
    \/ Timer

Spec == Init /\ [][Next]_vars

(* Lost connections are made again, requests are called back and retried,   *)
(* the exchange welcomes a session, the event loop ticks and the rate       *)
(* limiter does not refuse the streams for ever.                            *)
Fairness ==
    /\ WF_vars(RestConnect) /\ WF_vars(RestRetry)
    /\ WF_vars(RestErrorAck \/ RestSkippedAck)
    /\ WF_vars(RestCurrenciesAck) /\ WF_vars(RestInstrumentAck)
    /\ \A i \in Streams : WF_vars(WsConnect(i)) /\ WF_vars(WsReady(i)) /\ WF_vars(WsWelcome(i))
    /\ WF_vars(Timer /\ queue' # queue)

FairSpec == Spec /\ Fairness

-----------------------------------------------------------------------------
(* Every variable keeps the type of the member it stands for.               *)
TypeOK == RestTypeOK /\ SymbolsTypeOK /\ MarketDataTypeOK

(* No assert of a stream is hit: a session starts with no logon timeout     *)
(* running and none expires in one that was welcomed                        *)
(* (market_data.cpp:125,184).                                               *)
NoFault == ~fault

(* The list the streams are cut from has every known symbol, and has it     *)
(* once, whoever named it first (rest.cpp:355-357, controller.cpp:137-143). *)
SymbolsAreDistinct ==
    /\ IsInjective(symbols)
    /\ ToSet(symbols) = all_symbols

(* A session subscribes exactly once to each symbol of its slice and to no  *)
(* other, whether the symbol was known when the session began or became     *)
(* known later (market_data.cpp:174-178,232-240, controller.cpp:217-224).   *)
SubscribedOnce ==
    \A i \in Streams : Ready(i) =>
        \A s \in Symbols :
            asked[i][s] = IF \E k \in DOMAIN symbols : InSlice(i, k) /\ symbols[k] = s
                          THEN 1 ELSE 0

(* Every subscription of a session has been sent in it or is in the queue,  *)
(* in spite of what a former session left there                             *)
(* (market_data.cpp:188-197,452-455).                                       *)
NoSubscriptionIsLost ==
    \A i \in Streams : Ready(i) =>
        \A s \in Symbols : asked[i][s] > 0 =>
            \A t \in Topics : Message(t, s) \in sent[i] \cup ToSet(queue[i])

(* A stream exists for each known symbol, and none was made without one     *)
(* (controller.cpp:217-219,246-256).                                        *)
StreamsMatchSlices ==
    \A i \in Streams :
        socket[i] # "absent" <=> \E k \in DOMAIN symbols : InSlice(i, k)

(* READY is published once both steps of this download were answered, never *)
(* because of a request that an earlier one left behind                     *)
(* (rest.cpp:153-169,184-206,281-303).                                      *)
RestReadyIsDownloaded == restStatus = "READY" => processed = RequestStates /\ ~Downloading

(* A stream carries no more symbols than max_subscriptions_per_stream,      *)
(* although its queue outlives its sessions and symbols are added to slices *)
(* that are half full (controller.cpp:246-256, market_data.cpp:188-197).    *)
SubscriptionLimit ==
    \A i \in Streams : Cardinality({m[2] : m \in sent[i]}) <= SliceSize

(* A download that is not finished has a request without callback or a      *)
(* retry to come, whatever late callbacks and lost connections do to it     *)
(* (rest.cpp:153-169,184-206,229-240,283-303).                              *)
RestDownloadGoesOn == Downloading => current \/ retrying

(* The download of the instruments ends neither too early nor never: READY  *)
(* comes after both steps, and until then something of it is still to come  *)
(* (rest.cpp:153-169,184-206,229-240,281-303).                              *)
RestDownloadIsSound == RestReadyIsDownloaded /\ RestDownloadGoesOn

-----------------------------------------------------------------------------
SliceSymbols(i) == {symbols[k] : k \in {n \in DOMAIN symbols : InSlice(i, n)}}

SS == INSTANCE StreamSubscriptions WITH
        Items <- Messages,
        carried <- [i \in Streams |-> Topics \X SliceSymbols(i)],
        subscribed <- sent

(* The public streams implement StreamSubscriptions: a symbol is subscribed *)
(* to on one stream only and stays there, however the list grows, clients   *)
(* and exchange name it and sessions follow each other                      *)
(* (controller.cpp:217-224, market_data.cpp:174-197,452-510).               *)
OneHomeEach == SS!Spec

-----------------------------------------------------------------------------
(* Whatever connections are lost and whenever the symbol became known, its  *)
(* stream ends up subscribed to it on each topic                            *)
(* (controller.cpp:217-224, market_data.cpp:115-129,452-510).               *)
EverySymbolIsSubscribed ==
    \A s \in Symbols :
        s \in all_symbols ~>
            \E i \in Streams : \A t \in Topics : Message(t, s) \in sent[i]

(* The download of the instruments succeeds again after every lost          *)
(* connection and failed request (rest.cpp:153-172,233,287).                *)
InstrumentsAgain == []<>(restStatus = "READY")
=============================================================================
