------------------------------ MODULE OrderBook ------------------------------
(***************************************************************************)
(* The order books: MarketData feeds the increments of a symbol to the     *)
(* sequencer of the symbol, which asks for a snapshot; the master account  *)
(* fetches the snapshots (order_entry_rest.cpp), and the sequencer puts    *)
(* the two together.  The sequencers and depth_request_queue are Shared.   *)
(*                                                                         *)
(* The exchange numbers the changes of a book; a stream passes them on in  *)
(* order, some together, from where its session began, and may lose some;  *)
(* a snapshot is the book as it was, and may be behind the stream.         *)
(*                                                                         *)
(* market::mbp::Sequencer is not in the repository.  What is used of it:   *)
(* the first update is kept and a snapshot requested, further updates are  *)
(* kept until a snapshot reaches the first of them, an older snapshot is   *)
(* requested again; then updates are published, those the book has are     *)
(* dropped; a previous_sequence it has not seen throws BadState, and a     *)
(* snapshot it waits for may throw it too.  A snapshot it did not wait for *)
(* is ignored, or, before any update, may be accepted.  core::limit::Queue *)
(* lets some symbols go at a time.                                         *)
(***************************************************************************)
EXTENDS Naturals

CONSTANTS
    Symbols, Streams,
    StreamOf,           \* the MarketData of a symbol
    MaxChanges,         \* bound: changes of the books
    MaxDrops,           \* bound: lost market data connections
    MaxLosses,          \* bound: changes the exchange does not pass on
    MaxErrors           \* bound: snapshot requests that fail

ASSUME OrderBookAssumption ==
    /\ StreamOf \in [Symbols -> Streams]
    /\ MaxChanges \in Nat /\ MaxDrops \in Nat /\ MaxLosses \in Nat /\ MaxErrors \in Nat

VARIABLES
    head,               \* the exchange: changes of the book so far
    subscribed,         \* symbols whose stream is in a session
    position,           \* changes the stream has passed on, or left out
    mode,               \* the sequencer: empty, waiting or ready
    buffer, last,       \* changes it has, the number of the latest
    clientBook,         \* the book of the clients: changes it has
    clientSequence,     \* and its exchange_sequence
    queued,             \* depth_request_queue
    calls,              \* requests without callback
    changes, drops, losses, errors,     \* what is bounded
    resets, badStates,  \* history: sequencers cleared, and those by BadState
    failed              \* history: a request failed since the sequencer waits

bookVars == <<mode, buffer, last>>
clientVars == <<clientBook, clientSequence>>
requestVars == <<queued, calls, failed>>
historyVars == <<changes, drops, losses, errors, resets, badStates>>

vars == <<head, subscribed, position, bookVars, clientVars, requestVars, historyVars>>

Sequences == 0..MaxChanges

Init ==
    /\ head = [s \in Symbols |-> 0]
    /\ subscribed = {}
    /\ position = [s \in Symbols |-> 0]
    /\ mode = [s \in Symbols |-> "empty"]
    /\ buffer = [s \in Symbols |-> {}]
    /\ last = [s \in Symbols |-> 0]
    /\ clientBook = [s \in Symbols |-> {}]
    /\ clientSequence = [s \in Symbols |-> 0]
    /\ queued = [s \in Symbols |-> 0]
    /\ calls = [s \in Symbols |-> 0]
    /\ changes = 0 /\ drops = 0 /\ losses = 0 /\ errors = 0
    /\ resets = [s \in Symbols |-> 0]
    /\ badStates = [s \in Symbols |-> 0]
    /\ failed = [s \in Symbols |-> FALSE]

-----------------------------------------------------------------------------
(* The exchange                                                             *)

Change(s) ==
    /\ changes < MaxChanges
    /\ changes' = changes + 1
    /\ head' = [head EXCEPT ![s] = @ + 1]
    /\ UNCHANGED <<subscribed, position, bookVars, clientVars, requestVars>>
    /\ UNCHANGED <<drops, losses, errors, resets, badStates>>

(* A change is left out *)
Lose(s) ==
    /\ s \in subscribed /\ position[s] < head[s] /\ losses < MaxLosses
    /\ position' = [position EXCEPT ![s] = @ + 1]
    /\ losses' = losses + 1
    /\ UNCHANGED <<head, subscribed, bookVars, clientVars, requestVars>>
    /\ UNCHANGED <<changes, drops, errors, resets, badStates>>

(* A stream sends the subscription of a symbol, from its queue one by one   *)
Session(s) ==
    /\ s \notin subscribed
    /\ subscribed' = subscribed \cup {s}
    /\ position' = [position EXCEPT ![s] = head[s]]
    /\ UNCHANGED <<head, bookVars, clientVars, requestVars, historyVars>>

-----------------------------------------------------------------------------
(* What the dispatcher is given, and the clients have.  An increment is     *)
(* applied to their book, a snapshot replaces it.                           *)

(* publish_update *)
PublishUpdate(s, from, to) ==
    /\ clientBook' = [clientBook EXCEPT ![s] = @ \cup from..to]
    /\ clientSequence' = [clientSequence EXCEPT ![s] = to]

(* mutant: exchange_sequence is the sequence of the snapshot that arrived *)
PublishSnapshotAsOf(s, q) ==
    /\ clientBook' = [clientBook EXCEPT ![s] = buffer'[s]]
    /\ clientSequence' = [clientSequence EXCEPT ![s] = q]

(* publish_snapshot; exchange_sequence is sequencer.last_sequence() *)
PublishSnapshot(s, q) ==
    /\ clientBook' = [clientBook EXCEPT ![s] = buffer'[s]]
    /\ clientSequence' = [clientSequence EXCEPT ![s] = last'[s]]

-----------------------------------------------------------------------------
(* market::mbp::Sequencer, for the symbol s *)

SetSequencer(s, m, b, n) ==
    /\ mode' = [mode EXCEPT ![s] = m]
    /\ buffer' = [buffer EXCEPT ![s] = b]
    /\ last' = [last EXCEPT ![s] = n]

Keep == UNCHANGED <<bookVars, clientVars>>

Larger(a, b) == IF a < b THEN b ELSE a

(* does an update after previous not fit? *)
IsBadState(s, previous) ==
    \/ mode[s] = "waiting" /\ previous # last[s]
    \/ mode[s] = "ready" /\ last[s] < previous

(* an update with the changes from..to *)
SequencerUpdate(s, from, to) ==
    \/ /\ mode[s] = "ready" /\ to <= last[s]
       /\ Keep
    \/ /\ mode[s] = "ready" /\ last[s] < to
       /\ SetSequencer(s, "ready", buffer[s] \cup from..to, to)
       /\ PublishUpdate(s, from, to)
    \/ /\ mode[s] # "ready"
       /\ SetSequencer(s, "waiting", buffer[s] \cup from..to, to)
       /\ UNCHANGED clientVars

(* a snapshot of the changes 1..q *)
Reaches(s, q) == mode[s] = "waiting" /\ \E n \in buffer[s] : n <= q + 1

TooOld(s, q) == mode[s] = "waiting" /\ ~Reaches(s, q)

SequencerSnapshot(s, q) ==
    \/ /\ Reaches(s, q)
       /\ SetSequencer(s, "ready", buffer[s] \cup 1..q, Larger(q, last[s]))
       /\ PublishSnapshot(s, q)
    \/ /\ mode[s] = "empty"
       /\ SetSequencer(s, "ready", 1..q, q)
       /\ PublishSnapshot(s, q)
    \/ ~Reaches(s, q) /\ Keep

(* Sequencer::clear, of the sequencers of a set of symbols; nobody tells    *)
(* the clients that their book is stale                                     *)
Clear(symbols) ==
    /\ mode' = [s \in Symbols |-> IF s \in symbols THEN "empty" ELSE mode[s]]
    /\ buffer' = [s \in Symbols |-> IF s \in symbols THEN {} ELSE buffer[s]]
    /\ last' = [s \in Symbols |-> IF s \in symbols THEN 0 ELSE last[s]]
    /\ resets' = [s \in Symbols |-> IF s \in symbols /\ mode[s] # "empty"
                                    THEN resets[s] + 1 ELSE resets[s]]
    /\ failed' = [s \in Symbols |-> failed[s] /\ s \notin symbols]
    /\ UNCHANGED clientVars

-----------------------------------------------------------------------------
Enqueue(s) == queued' = [queued EXCEPT ![s] = @ + 1]

(* mutant: previous_sequence is what the sequencer has *)
PreviousOf(s, from) == last[s]

(* previous_sequence *)
Previous(s, from) == from - 1

(* catch (BadState &) *)
BadState(s) ==
    /\ Clear({s})
    /\ Enqueue(s)
    /\ badStates' = [badStates EXCEPT ![s] = @ + 1]

(* mutant: every update that is kept requests a snapshot *)
RequestsSnapshotAgain(s) == mode[s] # "ready"

(* does an update request a snapshot? *)
RequestsSnapshot(s) == mode[s] = "empty"

(* MarketData::operator()(Trace<OBU>), INCREMENT; ONE publishes the top of  *)
(* the book as it is and leaves no state behind                             *)
MarketByPrice(s, to) ==
    LET from == position[s] + 1 IN
    /\ s \in subscribed /\ from <= to /\ to <= head[s]
    /\ position' = [position EXCEPT ![s] = to]
    /\ \/ /\ IsBadState(s, Previous(s, from))
          /\ BadState(s)
       \/ /\ ~IsBadState(s, Previous(s, from))
          /\ SequencerUpdate(s, from, to)
          /\ IF RequestsSnapshot(s) THEN Enqueue(s) ELSE UNCHANGED queued
          /\ UNCHANGED <<resets, badStates, failed>>
    /\ UNCHANGED <<head, subscribed, calls, changes, drops, losses, errors>>

(* MarketData, Disconnected: "this is SHARED !!!" *)
Disconnected(i) ==
    /\ drops < MaxDrops
    /\ drops' = drops + 1
    /\ subscribed' = {s \in subscribed : StreamOf[s] # i}
    /\ Clear(Symbols)
    /\ UNCHANGED <<head, position, queued, calls, changes, losses, errors, badStates>>

-----------------------------------------------------------------------------
(* mutant: symbols are let go that are not in the queue *)
CheckRequestQueueOfAny(symbols) ==
    /\ queued' = [s \in Symbols |-> IF s \in symbols THEN queued[s] - 1 ELSE queued[s]]
    /\ calls' = [s \in Symbols |-> IF s \in symbols THEN calls[s] + 1 ELSE calls[s]]
    /\ UNCHANGED <<head, subscribed, position, bookVars, clientVars, failed, historyVars>>

(* check_request_queue of the master account, when it is READY: the queue   *)
(* lets some symbols go, and get_order_book sends                           *)
CheckRequestQueue(symbols) ==
    /\ \A s \in symbols : queued[s] > 0
    /\ queued' = [s \in Symbols |-> IF s \in symbols THEN queued[s] - 1 ELSE queued[s]]
    /\ calls' = [s \in Symbols |-> IF s \in symbols THEN calls[s] + 1 ELSE calls[s]]
    /\ UNCHANGED <<head, subscribed, position, bookVars, clientVars, failed, historyVars>>

Called(s) ==
    /\ calls[s] > 0
    /\ calls' = [calls EXCEPT ![s] = @ - 1]

(* mutant: a snapshot that is too old is not requested again *)
OrderBookAckGivesUp(s, q) ==
    /\ Called(s) /\ q <= head[s]
    /\ SequencerSnapshot(s, q)
    /\ failed' = [failed EXCEPT ![s] = @ /\ mode'[s] = "waiting"]
    /\ UNCHANGED <<head, subscribed, position, queued, historyVars>>

(* OrderBookAck: the snapshot of the changes 1..q *)
OrderBookAck(s, q) ==
    /\ Called(s) /\ q <= head[s]
    /\ \/ /\ SequencerSnapshot(s, q)
          /\ IF TooOld(s, q) THEN Enqueue(s) ELSE UNCHANGED queued
          /\ failed' = [failed EXCEPT ![s] = @ /\ mode'[s] = "waiting"]
          /\ UNCHANGED <<resets, badStates>>
       \/ mode[s] = "waiting" /\ BadState(s)
    /\ UNCHANGED <<head, subscribed, position, changes, drops, losses, errors>>

(* handle_error, or a code that is not success: nothing *)
GetOrderBookError(s) ==
    /\ errors < MaxErrors
    /\ Called(s)
    /\ errors' = errors + 1
    /\ failed' = [failed EXCEPT ![s] = mode[s] = "waiting"]
    /\ UNCHANGED <<head, subscribed, position, bookVars, clientVars, queued>>
    /\ UNCHANGED <<changes, drops, losses, resets, badStates>>

-----------------------------------------------------------------------------
Next ==
    \/ \E s \in Symbols :
          \/ Change(s) \/ Lose(s) \/ Session(s) \/ GetOrderBookError(s)
          \/ \E n \in Sequences : MarketByPrice(s, n) \/ OrderBookAck(s, n)
    \/ \E i \in Streams : Disconnected(i)
    \/ \E symbols \in SUBSET Symbols \ {{}} : CheckRequestQueue(symbols)

Spec == Init /\ [][Next]_vars

(* The master account stays READY, the queue lets every symbol go, requests *)
(* are called back, and the snapshots of the exchange catch up.             *)
Fairness ==
    \A s \in Symbols :
        WF_vars(CheckRequestQueue({s})) /\ SF_vars(OrderBookAck(s, head[s]))

FairSpec == Spec /\ Fairness

-----------------------------------------------------------------------------
(* Every variable keeps the type of the member it stands for.               *)
TypeOK ==
    /\ head \in [Symbols -> Sequences]
    /\ subscribed \in SUBSET Symbols
    /\ position \in [Symbols -> Sequences]
    /\ mode \in [Symbols -> {"empty", "waiting", "ready"}]
    /\ buffer \in [Symbols -> SUBSET (1..MaxChanges)]
    /\ last \in [Symbols -> Sequences]
    /\ clientBook \in [Symbols -> SUBSET (1..MaxChanges)]
    /\ clientSequence \in [Symbols -> Sequences]
    /\ queued \in [Symbols -> Nat]
    /\ calls \in [Symbols -> Nat]
    /\ changes \in 0..MaxChanges /\ drops \in 0..MaxDrops /\ losses \in 0..MaxLosses /\ errors \in 0..MaxErrors
    /\ resets \in [Symbols -> Nat] /\ badStates \in [Symbols -> Nat]
    /\ failed \in [Symbols -> BOOLEAN]

(* A sequencer that waits for a snapshot has one coming: in the queue or on *)
(* its way, whatever was cleared by other streams since it was asked for.   *)
(* A request that failed is the exception, nothing asks again               *)
(* (market_data.cpp:196,408-420, order_entry_rest.cpp:1013-1021,1073-1085). *)
AwaitedIsAsked ==
    \A s \in Symbols :
        mode[s] = "waiting" =>
            failed[s] \/ queued[s] > 0 \/ calls[s] > 0

(* A symbol is asked for once, and once more for each time its sequencer    *)
(* was cleared, twice when by a BadState: then the catch asks, and so does  *)
(* the next update (market_data.cpp:413,419-420).                           *)
RequestsAreBounded ==
    \A s \in Symbols : queued[s] + calls[s] <= 1 + resets[s] + badStates[s]

(* The clients have a book the exchange had, under its sequence number,     *)
(* although what they have survives sequencers that are cleared and thrown  *)
(* BadStates; it is the sequencer's book whenever that is ready             *)
(* (market_data.cpp:395-421, order_entry_rest.cpp:1050-1085).               *)
ClientsHaveABook ==
    \A s \in Symbols :
        /\ clientBook[s] = 1..clientSequence[s] /\ clientSequence[s] <= head[s]
        /\ mode[s] = "ready" => clientSequence[s] = last[s]

-----------------------------------------------------------------------------
BR == INSTANCE BookReplica WITH
        book <- clientBook,
        sequence <- clientSequence,
        live <- {s \in Symbols : mode[s] = "ready"}

(* The books of the clients implement BookReplica: they are put together    *)
(* from whichever sessions, snapshots and updates, but only a ready         *)
(* sequencer changes one, and then forward.  Once it is cleared, which is   *)
(* not published ("publish stale" is missing), their book stays, and the    *)
(* next snapshot may take it back                                           *)
(* (market_data.cpp:196,357-421, order_entry_rest.cpp:1027-1087).           *)
BookIsReplica == BR!Spec

-----------------------------------------------------------------------------
(* A sequencer that waits is released: by a snapshot, or by being cleared,  *)
(* unless a request failed (order_entry_rest.cpp:1027-1087,1108-1113).      *)
BookRecovers == \A s \in Symbols : mode[s] = "waiting" ~> (mode[s] # "waiting" \/ failed[s])
=============================================================================
