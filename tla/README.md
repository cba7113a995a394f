# Verification of roq-kucoin-pro

TLA+ models of Roq's KuCoin PRO gateway (`src/roq/kucoin_pro`), their TLC configurations, and theorems about them
checked by TLAPS. The gateway connects clients of the Roq framework to the exchange: it downloads reference data,
streams market data, places orders and follows the state of one or more accounts.

Everything runs on one event loop. A callback (timer, connection event, message, HTTP response, client request) runs
to its end before the next one starts, so one callback is one atomic step of a model. What is hard is not data races
but the order of callbacks: two connections per account that drop and come back independently, HTTP answers that
arrive after the connection they belong to, requests that survive the session which asked for them, and state that
the streams share.

## Inventory

| part | state it keeps | operations | what is hard | what makes it correct |
|---|---|---|---|---|
| `Controller` | streams, accounts, requests | dispatches start, stop, timer (in the order rest, order entry REST, order entry WS, drop copy, market data) and client requests; creates `DropCopy` with the first token and `MarketData` as slices fill up | objects that appear while the gateway runs | each event reaches the right stream once |
| `Request` | six `core::limit::Request`, `details_stale_orders` | request, ready, check_pending, commit, has_response | asked for by one connection, sent by another, answered later | one round trip at a time, nothing asked for is lost |
| `OrderEntryREST` | connection, token download, stale orders counter | token download, snapshots, order queries, create / cancel / cancel all, order books | late and failed callbacks, reconnects during a download | token is downloaded once, requests end exactly once, every order request that was refused is answered |
| `DropCopy` | web socket, token query, download state, timeouts | welcome, subscribe, fetch, poll, stale orders, expired token | restart in any of eleven states, answers of earlier sessions | READY only when this session is complete |
| `Rest` | connection, download of currencies and instruments | download, symbols update | late callbacks, retries | every instrument is known before READY |
| `MarketData` | web socket, subscription queue | welcome, subscribe a slice, order book updates | symbols added while streams connect, queues that survive a reconnect | every symbol is subscribed on its stream in every session |
| `Shared` | symbols and slices, rate limiter, order book sequencers, depth request queue | used by all streams | one stream clears what another one uses | books are consistent, snapshots are asked for |
| `OrderEntryWS` | web socket, logon, ping | logon, create, cancel, answers by request id | orders sent while not ready, answers lost with a connection | an answer names the request it belongs to |
| `Throttle` | rate limit parameters, suspend time | HTTP headers and statuses | answers to requests sent before the suspension, one object for all connections | silence after a 403 |
| `protocol/json` | - | parser, WS parser, encoder, map; generated schemas | two encodings of an order, unknown values | an order comes back as what it is, a message reaches the handler of its type |
| `Account`, `Crypto`, `Config`, `Settings`, applications, bridges | keys, flags | signing, configuration, start up | - | pure functions and wiring |

## Modules

| module | what it models |
|---|---|
| `RequestHub` | `Request`: `hub[s]` is the state of one `core::limit::Request` (asked for, in flight, answered), `details` is `details_stale_orders` |
| `OrderEntryREST` | extends `RequestHub`: REST connection, token download, what a timer sends, order query callbacks |
| `DropCopy` | extends `RequestHub`: the private web socket and its download |
| `AccountSession` | composes the two with the controller: one action per callback, fairness, the properties |
| `SingleFlight` | abstract: round trips go one at a time, but for calls the first token download left behind |
| `SessionDownload` | abstract: subscribe to each channel, then fetch its snapshot, then be ready, all within one session |
| `MCAccountSession` | constants and symmetry for TLC |
| `AccountSession_proofs` | the inductive invariant of an account and the theorems |
| `AccountProgress_proofs` | what an account waits for is still to come: the safety part of its liveness; accounts that are not a master |
| `SymbolSlices` | the part of `Shared` the feed reads: `symbols`, `all_symbols`, the slices `core::Symbols` cuts |
| `PublicREST` | `Rest`: connection and download of currencies and instruments |
| `MarketData` | extends `SymbolSlices`: the web sockets as functions of the stream, what they subscribe to and their queues |
| `PublicFeed` | composes `PublicREST` and `MarketData` with the controller's `SymbolsUpdate` and the `Subscribe` of clients; properties |
| `MCPublicFeed` | constants and symmetry for TLC |
| `StreamSubscriptions` | abstract: an item belongs to one stream for good and is subscribed to nowhere else |
| `PublicFeed_proofs` | the inductive invariant of the public side and the theorems |
| `PublicStreams_proofs` | streams keep to their slice and its limit, implement `StreamSubscriptions`; the download goes on |
| `WSParser` | `protocol/json/ws_parser.cpp`: the handler a message of the order session goes to, by the fields it has |
| `OrderEntryWS` | extends `WSParser`: the order session's web socket, challenge, welcome, logon timeout |
| `OrderActions` | extends `OrderEntryWS`: create, cancel and cancel all of an account over REST or the web socket, their answers; properties |
| `OrderRequests` | abstract: a call is made once, then answered once or given up; only an OMS that raised at the answer is told again |
| `MCOrderActions` | constants and symmetry for TLC |
| `OrderActions_proofs` | the inductive invariant of the order actions and the theorems |
| `OrderBook` | increments, sequencers, `depth_request_queue`, snapshots of the master account, what clients are given; properties |
| `BookReplica` | abstract: the clients' book is the exchange's at its sequence number; while it is live it moves forward, then it stays as it is until a snapshot replaces it, perhaps by an older one |
| `MCOrderBook`, `OrderBook_proofs` | constants for TLC; the inductive invariant and the theorems |
| `OrderMaps` | `protocol/json/map.cpp`, both directions, for orders |
| `OrderEcho` | extends `OrderMaps`: `Encoder`, an exchange that works orders, `get_orders` and what the OMS is told; properties |
| `MCOrderEcho`, `OrderEcho_proofs` | constants for TLC; the inductive invariant and the theorems |
| `Throttle` | `tools/throttle.cpp` on a clock, shared by connections; properties |
| `MCThrottle`, `Throttle_proofs` | constants for TLC; the inductive invariant and the theorems |

The modules of a component constrain their own variables only; the composing module conjoins what the handlers they
call do to the others, so that a step of a composition is a whole callback. Operators whose comment begins with
`mutant` are variations of the definition that follows them; each run property is known to notice one of them.

### State and actions of an account

`restStatus`, `restDownload`, `hasToken`, `counter` are `connection_status_`, `download_.state()`,
`has_downloaded_private_token_`, `download_stale_orders_counter_` of `OrderEntryREST`; `tokenCalls` and `queries` are
the HTTP requests that have no callback yet, split by what `download_.skip` tells apart. `query`, `welcome`, `ready`,
`dcStatus`, `dcState`, `logonTimeout`, `simulate` are the members of `DropCopy`; `socket` and `suspended` the state of
its `web::socket::Client`. `acked` and `fetched` are history: which steps of this session's download were acknowledged
or sent. `fault` names the `assert` or `log::fatal` that was hit; nothing happens after it.

| action | callback |
|---|---|
| `RestConnect`, `RestDisconnect` | `Connected` / `Disconnected` of `OrderEntryREST`: a lost connection keeps a running download and resets a finished one |
| `RestRetry` | `core::Download2` calling `download` again after `retry` |
| `TokenAck` | `get_private_token_ack`: error, skipped, processed; hands the token to `Controller`, which creates `DropCopy` or replaces its token; commits |
| `SnapshotAck`, `OrderAck` | the callbacks of the snapshots and of the order queries |
| `WsConnect`, `WsReady`, `WsDisconnect`, `WsResume` | the private web socket |
| `WsWelcome`, `WsAck` | `Welcome` and `Ack` of `DropCopy`: begin and advance the download |
| `OrdersChange` | the OMS considers other orders stale |
| `Timer` | `Controller::dispatch_helper`: `OrderEntryREST` sends what is due, then `DropCopy` polls, looks for stale orders and lets a token expire; or its logon timeout closes the connection |

### State and actions of the public side

`restStatus` and `restDownload` are `connection_status_` and `download_.state()` of `Rest`; `current` and `late` are
its HTTP requests without callback, of the last invocation of `download` and of earlier ones; `processed` is history.
`symbols` and `all_symbols` are the members of `Shared`. For each stream, `wsStatus`, `logonTimeout`, `queue` are
`connection_status_`, `logon_timeout_`, `subscribe_queue_`; `asked` and `sent` are history: how often this session
called for a symbol, and what it has sent.

| action | callback |
|---|---|
| `RestConnect`, `RestDisconnect`, `RestRetry` | `Connected` / `Disconnected` of `Rest`, `Download2` after `retry` |
| `RestErrorAck`, `RestSkippedAck` | `handle_error` and the skipped branch of both acks |
| `RestCurrenciesAck`, `RestInstrumentAck` | the processed branch; the instruments that are neither discarded nor known go to `SymbolsUpdate` |
| `ClientSubscribe` | `Controller::operator()(Event<Subscribe>)` |
| `SymbolsUpdate` (part of the two above) | create the missing streams, then `subscribe(start_from)` on every stream |
| `WsConnect`, `WsReady`, `WsDisconnect`, `WsWelcome` | the web socket of one stream |
| `Timer` | the streams in order: `check_subscribe_queue` of those that are ready, the logon timeout of others |

### State and actions of the order actions

A call is a request of the OMS and a symbol: one call per create or cancel, one per symbol for cancel all. `net` says
whether it is on its way, over or lost with its session, `effect` what the exchange did with it, `answer` the sequence of
responses the OMS got, `raised` the calls at whose response it raised an exception. `wsStatus`,
`welcome`, `pingFreq`, `logonTimeout` are members of `OrderEntryWS`; `session` is the exchange's side of the logon.
Modify, mass quotes and cancel quotes throw `NotSupported` on both connections and leave no state.

| action | callback |
|---|---|
| `CreateOrder`, `CancelOrder`, `CancelAllOrders` | `Controller`'s `Event<...>` handlers, the choice of connection in `get_order_entry`, `ready()` in `OrderEntryREST`; `OrderEntryWS` sends whatever its state |
| `Callback` | the callback of a REST call: `process_response`, which tries (`Tried`) `handle_success` or `handle_error` by the category of the response, and whose catch clauses (`Caught`) call `handle_error` when the decoder, `expect` or the OMS throws (`Exceptions`) |
| `RestRedirected`, `Ended` | `process_response` of a redirection: `log::fatal`; what follows is nothing |
| `WsOrderText`, `WsSession` | `Text`: `parse`, `WSParser::dispatch` and the handler of the message |
| `WsConnect`, `WsOpen`, `WsDisconnect`, `WsTick` | the web socket, and `Timer`: ping or logon timeout |
| `RestChange` | `OrderEntryREST` becomes READY or stops being so (its own life is in `AccountSession`) |

### State and actions of the order books

The exchange numbers the changes of a book, so a book is the set of the changes in it. `mode`, `buffer`, `last` are
the state of a `market::mbp::Sequencer` of `Shared::mbp_sequencer`; `queued` counts a symbol in
`depth_request_queue`, `calls` the snapshot requests without callback. `clientBook` and `clientSequence` are the book
of the clients and its exchange sequence, put together from what `publish_update` and `publish_snapshot` dispatch: an
increment is applied to it, a snapshot replaces it. `resets`, `badStates`, `failed` are history.

That a symbol has one stream (`StreamOf`) and that a lost connection takes all its subscriptions with it is what the
public side promises (`OneHomeEach`, proved as `SymbolsHaveOneHome`); the order books rely on nothing else of it.

| action | callback |
|---|---|
| `MarketByPrice` | `MarketData::operator()(Trace<OBU>)` with depth INCREMENT, its `BadState` included |
| `Disconnected` | `Disconnected` of one stream, which clears the sequencers of all |
| `CheckRequestQueue` | the end of `check_request_queue` of the master account: some symbols leave the queue, `get_order_book` sends |
| `OrderBookAck`, `GetOrderBookError` | `get_order_book_ack` |
| `Session` | `check_subscribe_queue`: a stream sends the subscription of one symbol |
| `Change`, `Lose` | the exchange: a change, one that is not passed on |

### State and actions of the order echo

`created` is what the OMS asked for, `told` the last `OrderUpdate` it got for an order, `book` the orders of the
exchange, `lists` answers to `get_orders` that were not processed yet. `CreateOrder` and `CancelOrder` encode with
`AddOrder` and `CancelArgs`; `OrdersAck` maps each item of a list with `OrderUpdate`. The exchange accepts, refuses,
triggers, fills, cancels and lists in any order, and other clients of the account place orders of kinds the gateway
does not write (GTT, not yet triggered).

### State and actions of the throttle

`suspendUntil` and `params` are the members of `Throttle`; `MessageHeader` and `MessageEnd` its handlers; `Send` and
`inFlight` the connections that ask it. `forbidden` is history: when a 403 arrived.

### Code outside of the repository

The framework libraries are not part of the repository. They are modelled from how the gateway uses them, in the
module named:

* `core::limit::Request` (`RequestHub`): a request waits until its handler is ready and the limiter agrees, is then in
  flight until `commit`, and has one answer unless it was asked for again meanwhile.
* `core::Download2` (`OrderEntryREST`): waits when `download` returned 1, moves on when it returned 0 or at `check`,
  invokes the state again at `bump` and `retry`; `skip` is true of answers to an invocation that is not the last.
* `web::rest::Client`: every request is called back once, also after the connection it was sent on was lost.
* `web::socket::Client`: `Connected` and `Disconnected` alternate; `refresh` is true while the connection is open;
  `suspend_for` takes the connection down; `close` leads to `Disconnected`.
* `core::limit::Queue` (`MarketData`): in order, and subject to the limiter all queues share.
* `core::Symbols` (`SymbolSlices`): appends, reports the number of slices and the first new position, and cuts slices
  of `ws.max_subscriptions_per_stream`.
* `market::mbp::Sequencer` (`OrderBook`): keeps the first update and requests a snapshot; keeps further updates until a
  snapshot reaches the first of them, requests an older one again; then publishes updates and drops those it has; throws
  `BadState` for a previous sequence it has not seen, and may throw it for a snapshot it waits for.
* the exchange of `OrderActions`: executes or refuses a call and answers truthfully; a server or network error says
  nothing about what it did. That of `OrderEcho`: takes an order without a time in force as GTC, lists every open order
  and perhaps others.
* `web::rest::Client` (`Throttle`): sends only when the clock has passed what the interceptor says; requests in flight
  are answered all the same.
* the OMS behind `server::Dispatcher`: may consider any order stale at any time and may forget one.

## Runs

| run | checks | states |
|---|---|---|
| `account` | `TypeOK`, `NoFault`, `CounterMatchesQueries`, `UnaskedOrdersArePending`, `ReadyIsComplete`, `TokenIsReplaced` as invariants; `OneAtATime` (implements `SingleFlight`) and `SubscribeBeforeFetch` (implements `SessionDownload`) as properties | 208,472 |
| `account_live` | `NothingWaitsInVain` (`SnapshotsAreComing`, `RoundTripsEnd`, `TokenDownloadGoesOn`); `ReadyAgain`, `StaleOrdersAreAsked` under fairness | 23,660 |
| `stale_order_query` | finding: `QueryNamesTheSymbol` is violated | - |
| `rejected_token` | finding: `DownloadedTokenIsUsed` is violated | - |
| `public_feed` | `TypeOK`, `NoFault`, `SubscribedOnce`, `NoSubscriptionIsLost`, `StreamsMatchSlices`, `SubscriptionLimit`, `RestDownloadIsSound` (`RestReadyIsDownloaded`, `RestDownloadGoesOn`); `OneHomeEach` (implements `StreamSubscriptions`) | 208,082 |
| `public_feed_live` | `EverySymbolIsSubscribed`, `InstrumentsAgain` under fairness | 21,400 |
| `order_actions` | `TypeOK`, `NoFault`, `StatusIsOfThisSession`, `AnswersAreTrue`; `OneAnswerEach` (implements `OrderRequests`) | 336,392 |
| `order_actions_live` | `LogsOnAgain`, `CallsAreAnswered` under fairness | 88,976 |
| `rest_order_ack` | finding: `OrderIsAcknowledged` is violated | - |
| `order_book` | `TypeOK`, `AwaitedIsAsked`, `RequestsAreBounded`, `ClientsHaveABook`; `BookIsReplica` (implements `BookReplica`); `BookRecovers` under fairness | 231,491 |
| `order_echo` | `TypeOK`, `EchoMatches`, `OmsFollowsExchange`; `OmsNeverGoesBack` | 1,151,214 |
| `throttle` | `TypeOK`; `BlockedIsSilent` | 13,920 |

`account`: the assertions and the `log::fatal` about the logon and the download of the private session (drop_copy.cpp:141,191,296,465)
are unreachable; those about messages the exchange does not send there (drop_copy.cpp:231,348,352,356) are not modelled, and one
Welcome per session is assumed. READY is earned by this session alone
although requests and answers of earlier ones are still around, and neither a stale order nor the need for a token is
forgotten. `OneAtATime` counts HTTP calls, not the flag of the limiter: a round trip begins when the calls of the last one
have been called back. The exception is the code's: the first token download asks again without waiting, and the late
callback of such a call, which comes when the download is over, is taken for that of a later token round trip
(order_entry_rest.cpp:308-325). That round trip then ends early, its own call is left over, and the next request
overlaps it; `SingleFlight` allows exactly as many such calls as the first download left behind.
`account_live`: when faults stop, the session is READY again and every stale order is asked for; and a session,
a round trip and the token download never wait for something that is not to come (with an OMS that forgets no order: an
account whose forgotten orders are all that it asked for is blocked, which `RoundTripsEnd` names as its exception).
`public_feed`: a symbol that becomes known while streams are absent, connecting, waiting for the welcome or ready is
subscribed by exactly one of the two paths that could do it, on one stream, which never has more than its limit.

`order_actions`: whichever connection carries a call and whatever is lost, the OMS gets at most one response to it,
of the right type and true of what the exchange did; a session is READY only when this connection was welcomed. This is
per call: a cancel all makes one call per symbol under one request id, and besides tells the OMS that each was FORWARDED
(order_entry_rest.cpp:889-909,931), which the model leaves out because it says no more than that the call was made. A second
response exists when the OMS raises an exception at the first: a catch clause of `process_response` then answers the
same call with the error (order_entry_rest.cpp:1141-1149). `AnswersAreTrue` also says what silence means: a call that
was called back without a response was a REST call that the exchange executed. What a server error, a network error or
an exception is answered with may be untrue, and nothing is claimed of it.
`order_actions_live`: a call that left the gateway is answered, unless it was executed over REST (finding 3) or its web
socket was lost. Three ways to leave the OMS without an answer are outside of it by name, because nothing in the
repository says how they end: an order that a web socket which is not open drops, a web socket that is lost, and a cancel
all whose filter leaves no symbol, which makes no call.
`order_book`: although one stream clears the sequencers of all and snapshots arrive late, old or for a sequencer that
was cleared since, a sequencer that waits has a request coming, and the clients put together a book that the exchange
had. Nobody tells them when a sequencer is cleared (`XXX HANS publish stale`, market_data.cpp:196,418-419): their book
then stays as it is, and the next snapshot may replace it by an older one. `BookReplica` allows that at exactly this
point, where `live`, which the clients do not see, is left and entered again; while a sequencer stays ready, the book
moves forward, and while it is not, nothing is published.
`order_echo`: what the OMS knows of an order is what it asked for and what the exchange did, although lists are
absolute. `throttle`: a 429 that answers an older request does not cut the silence after a 403 short.

### Bounds

* `MaxCalls` = 2: a request of the present download and one that an earlier download left behind, the two kinds
  `skip` tells apart. At the bound a download is not invoked, the only guard no code stands for; the runs with one
  late request contain every combination of answers.
* `MaxRestDrops`, `MaxDrops`, `MaxTokenErrors`, `MaxRestErrors` = 1 (2 for the REST connection of the public side and
  the web socket of `account`): a fault can fall into every state of each download and be followed by a complete
  recovery. `public_feed` with `MaxDrops` = 2 and `EnableMbp` (941,680 states) passes as well.
* two tokens (symmetric), two orders of which the exchange has acknowledged one: a token is compared with its
  predecessor only, an order query depends on the acknowledgement.
* three symbols in slices of two: a second stream appears while the first runs, its slice is filled in part, and one
  symbol is filtered out of the exchange's list so that only a client brings it. Two of them are symmetric. The
  liveness run has slices of one, two streams from two symbols.

* order actions: two requests and two symbols (symmetric), two calls (`MaxCalls`), two lost connections or timeouts and
  one refused logon, so that a call is sent before, during and after each phase of a logon, and two calls of one request
  or of two are under way at once; `MaxRaises` = 2: the OMS may raise at the answer of each. The liveness run has one
  request with up to two calls, one raise and three faults.
* order books: two symbols on two streams, four changes, one lost connection, one change left out, one failed request:
  a snapshot can be asked for, invalidated by the other stream and arrive afterwards, and a gap can be found and healed.
* order echo: one order of the OMS and one of another client, of size two (partly filled, then filled or canceled),
  three lists, one request to cancel.
* throttle: two connections with two requests in flight; eight ticks with a block of three and a backoff of one, so that
  a block begins, ends and begins again.

The proofs need none of these bounds.

### Fairness

Liveness is about a gateway whose faults stop (the bounds). Assumed: the event loop ticks (`Timer`); the limiter does
not refuse for ever; `web::*::Client` reconnects (`always_reconnect`, and the connection managers retry); a request is
called back, after its timeout at the latest; the exchange welcomes a session and acknowledges a subscription; a
suspended connection goes down. All of it is weak fairness of single callbacks, with one exception: a snapshot of an
order book is as recent as the last change infinitely often if it is answered infinitely often (strong fairness of
`OrderBookAck` for the latest snapshot), which says that the snapshots of the exchange catch up with its stream.
The order session assumes that the exchange challenges, welcomes and answers what it received. `OrdersChange`, `ClientSubscribe`,
faults and the end of a suspension are not fair: nothing depends on them. A
download may be told that its token was refused: `ReadyAgain` therefore excludes the states in which a token was lost
for good (`TokenLost`), which `rejected_token` shows to exist.

## Findings

1. `stale_order_query`: `check_request_queue` passes symbol, client order id and external order id to `get_order`,
   whose parameters are client order id, external order id and symbol (order_entry_rest.cpp:581,1097,
   order_entry_rest.hpp:129). The query about a stale order asks for `symbol=<external order id>` and
   `orderId=<client order id>`.
2. `rejected_token`: `get_private_token_ack` sets `has_downloaded_private_token_` also when the code of the answer was
   not success (order_entry_rest.cpp:315-321). The download is then READY, nothing asks again, and the private session
   never exists.

3. `rest_order_ack`: `OrderEntryREST` declares `SupportType::ORDER_ACK` (order_entry_rest.cpp:31), but a create that
   the exchange accepted is answered to nobody, `// XXX FIXME TODO we only have the order-id, then what?`
   (order_entry_rest.cpp:798). Over the web socket the same order is answered ACCEPTED (order_entry_ws.cpp:333-347).

## Proofs

The eight `*_proofs` modules prove for every value of the constants, from the assumptions the
modules name (`RestAssumption`, `DropCopyAssumption`; `SliceAssumption`, `PublicRestAssumption`,
`MarketDataAssumption`, `FeedAssumption`; `OrderEntryWSAssumption`, `OrderActionsAssumption`; `OrderBookAssumption`;
`OrderEchoAssumption`; `ThrottleAssumption`: sets are finite where they are counted, bounds are natural numbers, flags are
Boolean, a slice holds at least one symbol; TLC evaluates them in every run):

| theorem | property |
|---|---|
| `TypeCorrect` (each component) | `TypeOK` |
| `NeverFaults` (account, feed, order actions) | `NoFault` |
| `CounterIsExact` | `CounterMatchesQueries` |
| `NothingUnaskedIsForgotten` | `UnaskedOrdersArePending` |
| `ReadyMeansComplete` | `ReadyIsComplete` |
| `RequestsGoOneAtATime` | `OneAtATime`: `Spec` implements `SingleFlight` (in `AccountProgress_proofs`: which calls are left over rests on what a round trip waits for) |
| `ExpiredTokenIsReplaced` | `TokenIsReplaced` |
| `SessionsSubscribeFirst` | `SubscribeBeforeFetch`: `Spec` implements `SessionDownload` |
| `SnapshotsAlwaysCome` | `SnapshotsAreComing` |
| `RoundTripsAlwaysEnd` | `RoundTripsEnd` |
| `TokenDownloadsGoOn` | `TokenDownloadGoesOn` |
| `NothingEverWaitsInVain` | `NothingWaitsInVain`, the three above |
| `OnlyMastersAreReady` | `ReadyIsMaster`: READY only if the account is a master (no run has an account that is not) |
| `StreamForEachSlice` | `StreamsMatchSlices` |
| `OnePlaceEach` | `SymbolsAreDistinct`: the list of symbols has every known one, once |
| `SessionsSubscribeOnce` | `SubscribedOnce` |
| `SubscriptionsSurvive` | `NoSubscriptionIsLost` |
| `ReadyMeansDownloaded` | `RestReadyIsDownloaded` |
| `StreamsKeepToTheirSlice` | `OwnSlice`: a session has sent symbols of its own slice only |
| `StreamsAreLimited` | `SubscriptionLimit` |
| `SymbolsHaveOneHome` | `OneHomeEach`: `Spec` implements `StreamSubscriptions` |
| `DownloadsGoOn` | `RestDownloadGoesOn` |
| `DownloadIsSound` | `RestDownloadIsSound`: `RestReadyIsDownloaded` and `RestDownloadGoesOn` |
| `StatusIsCurrent` | `StatusIsOfThisSession` |
| `AnswersAreAlwaysTrue` | `AnswersAreTrue` |
| `EachCallIsAnsweredOnce` | `OneAnswerEach`: `Spec` implements `OrderRequests`, with the second answer of the catch clauses for an OMS that raised |
| `WaitingIsAskedFor` | `AwaitedIsAsked` |
| `RequestsBounded` | `RequestsAreBounded` |
| `ClientsAlwaysHaveABook` | `ClientsHaveABook` |
| `BooksAreReplicas` | `BookIsReplica`: the book of the clients implements `BookReplica` |
| `OrdersAreEchoed` | `EchoMatches` |
| `OmsIsNotAhead` | `OmsFollowsExchange` |
| `OrdersGoForward` | `OmsNeverGoesBack` |
| `BlocksAreKept` | `BlockedIsSilent` |

The account's inductive invariant adds to the properties: at most one request is in flight and a waiting request has
no answer (`HubInv`); ready, status, download state, welcome and socket agree (`PhaseInv`); and the history of a
session is exactly what its download state says, where a snapshot whose state is current is either still waiting or
was sent in this session (`ProgressInv`). The last is what rules out answers of earlier sessions: entering a state asks
again, which forgets the old answer, and an answer of the older round trip does not count while the new one waits.

The feed's adds: a stream that is not ready has asked for nothing and a logon timeout runs only while a connection is
up (`SessionInv`), and the steps of the download are taken in order (`DownloadInv`). The core is `SubscribeLemma`:
`subscribe(start_from)` adds each symbol of the slice past `start_from` once, because the list has no duplicates, and
keeps every message already queued. With `start_from = 0` at the welcome and `start_from` = old size afterwards, the
two calls cover the slice without overlap.

That of the order actions ties each response to a call that is over and to what the exchange did (`CallInv`), and the
status of the session to this connection (`SessionInv`): a response is true because it is made of the answer to its own
call, and stays true because nothing is executed twice; a call is over in silence only when the try block of
`process_response` said nothing and threw nothing, which `ProcessResponseLemma` shows to be a success. That of the order books says that a
sequencer that waits has an unbroken run of changes up to its last, one that is ready has all changes up to it, and none
has more than the exchange (`BookInv`), and it counts the requests of a symbol (`RequestInv`): a snapshot that reaches
the first change of the run closes the gap below it, whatever happened since it was asked for.
That of the order echo says that a list which is on its way is no newer than the exchange and no older than what the OMS was told, because one request is in flight; the
exchange's orders only move forward in between. That of the throttle is `BlocksInv`: every 403 so far is covered by
`suspend_until_`.

`TokenIsReplaced` rests on two facts that no run checks by themselves (`TokenInv`): a private session exists only once
a token was downloaded, and from then on the download does not run again, so no callback of a token is skipped. For
`SubscribeBeforeFetch` each step of an account is one of five steps of its session (`SessionSteps`): lost, begun, a
channel acknowledged, a snapshot answered, or quiet, in which at most the snapshot of the current state is sent; with
`ProgressInv` each is a step of `SessionDownload`. `StreamsMatchSlices` is counted (`StreamsCount`): a slice has a
symbol when its number is at most `Slices`, which only grows.

`SnapshotsAreComing` and `RoundTripsEnd` are inductive together with the account's invariant (`ComingInv`), one through
the other: GET_STALE_ORDERS is entered with orders to ask for (`StaleOrdersAreThere`), so its request makes a call, whose
last callback ends the round trip, and a commit leaves an answer or another request behind (`CommitComes`). Nothing of
it holds of an account that is not a master: there `GuestInv` shows that the request for balances is never sent, and the
session stays in GET_BALANCES.

`OneHomeEach` and `SubscriptionLimit` rest on `OwnSlice`. A slice only ever grows (`StreamMoves`), so what a session has
sent stays within it; two slices share no symbol because the list has no duplicates (`SlicesAreDisjoint`), and a
slice has at most `max_subscriptions_per_stream` positions. The book of the clients is handled by what a step publishes
(`BookPublished`): a snapshot replaces it by the sequencer's book, an increment is published only by a sequencer that is
ready, whose book the clients have, and continues it; a sequencer that is cleared leaves it alone
(`OnlyReadyPublishes`), and `BooksAreReplicas` puts this together with `StepGoesForward`.

Model-checked only: the liveness properties. Every safety property of the passing runs is proved.

## Not modelled

* The content of answers (balances, positions, orders, reference data, prices), formatting, metrics and logging: no
  property tells them apart.
* `Parser`: its dispatch by channel and type has no state; the messages it delivers are the inputs of `MarketData` and
  `DropCopy` in the models. A channel it does not know is fatal unless `allow_unknown_event_types`.
* The pushes of the private session: `Balance`, `PositionAll` and `OrderAll` are only logged (drop_copy.cpp:359-378), so
  the lists of `OrderEcho` are all that tells the OMS of the state of its orders (the answer to a create over the web
  socket brings the external order id, order_entry_ws.cpp:341), although `DropCopy` declares `SupportType::ORDER` and
  `SupportType::TRADE` (drop_copy.cpp:29-30). The answers to order queries and to executions are only logged as well
  (order_entry_rest.cpp:619-627). Models of these handlers would have nothing to say until the handlers do.
* `mbp_request_max_retries` is 0 by default, which means no limit; with a limit, `request_snapshot` ends in `log::fatal`.
* The maps of liquidity role, margin mode, trade type and of the enumeration `OrderStatus`: used by handlers that only
  log. `guess_error` is a constant.
* `ws_api` with an empty `ws.uri` creates no `OrderEntryWS` and every order throws (controller.cpp:67,300): a matter of
  configuration, not of behaviour over time.
* The second 429: `suspend_until_` is never reset, so a 429 after the first backoff has expired suspends nothing
  (throttle.cpp:123). The model does the same; no property speaks about it, because nothing in the repository says what a
  429 must do.
* Generated JSON decoders, signing, configuration, process start up and the bridges: no state of their own or wiring
  of the framework. Pings: sent on time or not, nothing else reads their state.
* `protocol::json::Error` of `DropCopy`: its handler calls `request_private_token` like the simulated expiry, but the
  parser never produces the message; the model has the action through the simulated expiry.

## Plan

What is left, the most important first:

1. The safety part of the liveness of the order actions and of the throttle: what a pending call and a suspended
   connection wait for.
2. The handlers that only log, when they do more: order pushes, order queries, executions.
