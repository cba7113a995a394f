-------------------------- MODULE OrderBook_proofs --------------------------
(***************************************************************************)
(* Proofs about OrderBook for any symbols, any assignment of symbols to    *)
(* streams and any bounds.                                                 *)
(***************************************************************************)
EXTENDS OrderBook, TLAPS

(* The sequencer of s: what it has kept is an unbroken range of changes,    *)
(* from the first when it is ready.                                         *)
BookInv(s) ==
    /\ last[s] <= head[s] /\ position[s] <= head[s] /\ head[s] <= changes
    /\ mode[s] = "empty" => buffer[s] = {} /\ last[s] = 0
    /\ mode[s] = "waiting" => \E a \in 1..last[s] : buffer[s] = a..last[s]
    /\ mode[s] = "ready" => buffer[s] = 1..last[s]

(* The requests for s: one less is accounted for while nothing is kept.     *)
RequestInv(s) ==
    /\ mode[s] = "waiting" => failed[s] \/ queued[s] > 0 \/ calls[s] > 0
    /\ queued[s] + calls[s] <= 1 + resets[s] + badStates[s]
    /\ mode[s] = "empty" => queued[s] + calls[s] <= resets[s] + badStates[s]

(* The inductive invariant.                                                 *)
IInv == TypeOK /\ \A s \in Symbols : BookInv(s) /\ RequestInv(s)

-----------------------------------------------------------------------------
LEMMA InitIInv == Init => IInv
<1> SUFFICES ASSUME Init PROVE IInv
  OBVIOUS
<1> USE DEF Init
<1>1. TypeOK
  BY OrderBookAssumption DEF TypeOK, OrderBookAssumption, Sequences
<1>2. ASSUME NEW s \in Symbols PROVE BookInv(s) /\ RequestInv(s)
  BY DEF BookInv, RequestInv
<1> QED BY <1>1, <1>2 DEF IInv

-----------------------------------------------------------------------------
(* The exchange and the streams.                                            *)

LEMMA ChangeStep == ASSUME IInv, NEW s \in Symbols, Change(s) PROVE IInv'
<1> USE DEF Change, bookVars, clientVars, requestVars
<1>0. TypeOK /\ head[s] <= changes /\ changes < MaxChanges /\ MaxChanges \in Nat
  BY OrderBookAssumption DEF IInv, BookInv, OrderBookAssumption
<1>1. TypeOK'
  <2>1. changes' \in 0..MaxChanges
    BY <1>0 DEF TypeOK
  <2>2. head' \in [Symbols -> Sequences]
    BY <1>0 DEF TypeOK, Sequences
  <2> QED BY <1>0, <2>1, <2>2 DEF TypeOK
<1>2. ASSUME NEW t \in Symbols PROVE BookInv(t)' /\ RequestInv(t)'
  <2>1. BookInv(t) /\ RequestInv(t)
    BY DEF IInv
  <2>2. head[t] \in Nat /\ last[t] \in Nat /\ position[t] \in Nat /\ changes \in Nat
    BY <1>0 DEF TypeOK, Sequences
  <2>3. head[t] <= head'[t] /\ head'[t] <= changes' /\ head'[t] \in Nat
    BY <1>0, <2>1, <2>2 DEF TypeOK, BookInv
  <2>4. BookInv(t)'
    BY <2>1, <2>2, <2>3 DEF BookInv
  <2>5. RequestInv(t)'
    BY <2>1 DEF RequestInv
  <2> QED BY <2>4, <2>5
<1> QED BY <1>1, <1>2 DEF IInv

(* A step that moves streams only.                                          *)
LEMMA PositionStep ==
    ASSUME IInv, UNCHANGED <<head, bookVars, clientVars, requestVars, changes, resets, badStates>>,
           position' \in [Symbols -> Sequences],
           \A s \in Symbols : position'[s] <= head[s],
           subscribed' \in SUBSET Symbols,
           drops' \in 0..MaxDrops, losses' \in 0..MaxLosses, errors' \in 0..MaxErrors
    PROVE  IInv'
<1> USE DEF bookVars, clientVars, requestVars
<1>1. TypeOK'
  BY DEF IInv, TypeOK
<1>2. ASSUME NEW t \in Symbols PROVE BookInv(t)' /\ RequestInv(t)'
  <2>1. BookInv(t) /\ RequestInv(t)
    BY DEF IInv
  <2> QED BY <2>1 DEF BookInv, RequestInv
<1> QED BY <1>1, <1>2 DEF IInv

LEMMA LoseStep == ASSUME IInv, NEW s \in Symbols, Lose(s) PROVE IInv'
<1> USE DEF Lose
<1>1. TypeOK
  BY DEF IInv
<1>2. position' \in [Symbols -> Sequences] /\ \A t \in Symbols : position'[t] <= head[t]
  <2>1. \A t \in Symbols : position[t] <= head[t]
    BY DEF IInv, BookInv
  <2> QED BY <1>1, <2>1, OrderBookAssumption DEF TypeOK, Sequences, OrderBookAssumption
<1>3. losses' \in 0..MaxLosses
  BY <1>1, OrderBookAssumption DEF TypeOK, OrderBookAssumption
<1>4. drops' \in 0..MaxDrops /\ errors' \in 0..MaxErrors /\ subscribed' \in SUBSET Symbols
  BY <1>1 DEF TypeOK
<1> QED BY <1>2, <1>3, <1>4, PositionStep

LEMMA SessionStep == ASSUME IInv, NEW s \in Symbols, Session(s) PROVE IInv'
<1> USE DEF Session, historyVars
<1>1. TypeOK
  BY DEF IInv
<1>2. \A t \in Symbols : position[t] <= head[t] /\ head[t] \in Sequences /\ position[t] \in Sequences
  BY <1>1 DEF IInv, BookInv, TypeOK
<1>3. position' \in [Symbols -> Sequences] /\ \A t \in Symbols : position'[t] <= head[t]
  <2>1. head[s] \in Nat /\ head[s] <= head[s]
    BY <1>2 DEF Sequences
  <2> QED BY <1>1, <1>2, <2>1 DEF TypeOK
<1>4. /\ drops' \in 0..MaxDrops /\ losses' \in 0..MaxLosses /\ errors' \in 0..MaxErrors
      /\ subscribed' \in SUBSET Symbols
  BY <1>1 DEF TypeOK
<1> QED BY <1>3, <1>4, PositionStep

-----------------------------------------------------------------------------
(* The sequencer.                                                           *)

LEMMA ClearStep ==
    ASSUME IInv, NEW symbols \in SUBSET Symbols, Clear(symbols)
    PROVE  /\ mode' \in [Symbols -> {"empty", "waiting", "ready"}]
           /\ buffer' \in [Symbols -> SUBSET (1..MaxChanges)]
           /\ last' \in [Symbols -> Sequences]
           /\ resets' \in [Symbols -> Nat]
           /\ failed' \in [Symbols -> BOOLEAN]
           /\ \A t \in symbols : mode'[t] = "empty" /\ buffer'[t] = {} /\ last'[t] = 0
           /\ \A t \in symbols : resets'[t] = IF mode[t] # "empty" THEN resets[t] + 1 ELSE resets[t]
           /\ \A t \in Symbols \ symbols :
                 /\ mode'[t] = mode[t] /\ buffer'[t] = buffer[t] /\ last'[t] = last[t]
                 /\ resets'[t] = resets[t] /\ failed'[t] = failed[t]
<1> USE DEF Clear
<1>1. TypeOK
  BY DEF IInv
<1>2. mode' \in [Symbols -> {"empty", "waiting", "ready"}]
  BY <1>1 DEF TypeOK
<1>3. buffer' \in [Symbols -> SUBSET (1..MaxChanges)]
  BY <1>1 DEF TypeOK
<1>4. last' \in [Symbols -> Sequences] /\ resets' \in [Symbols -> Nat]
  BY <1>1, OrderBookAssumption DEF TypeOK, Sequences, OrderBookAssumption
<1>5. failed' \in [Symbols -> BOOLEAN]
  OBVIOUS
<1>6. \A t \in Symbols \ symbols : failed'[t] = failed[t]
  <2> SUFFICES ASSUME NEW t \in Symbols \ symbols PROVE failed'[t] = failed[t]
    OBVIOUS
  <2>1. failed'[t] = (failed[t] /\ t \notin symbols)
    OBVIOUS
  <2>2. failed[t] \in BOOLEAN
    BY <1>1 DEF TypeOK
  <2> QED BY <2>1, <2>2
<1> QED BY <1>2, <1>3, <1>4, <1>5, <1>6

(* What a symbol keeps when nothing but its stream moves.                   *)
Untouched(t) ==
    /\ mode'[t] = mode[t] /\ buffer'[t] = buffer[t] /\ last'[t] = last[t]
    /\ queued'[t] = queued[t] /\ calls'[t] = calls[t] /\ failed'[t] = failed[t]
    /\ resets'[t] = resets[t] /\ badStates'[t] = badStates[t]

LEMMA UntouchedStep ==
    ASSUME IInv, NEW t \in Symbols, Untouched(t), position'[t] <= head[t],
           UNCHANGED <<head, changes>>
    PROVE  BookInv(t)' /\ RequestInv(t)'
<1>1. BookInv(t) /\ RequestInv(t)
  BY DEF IInv
<1> QED BY <1>1 DEF Untouched, BookInv, RequestInv

(* A sequencer that is cleared, and asked for again if it was a BadState.   *)
LEMMA BadStateStep ==
    ASSUME IInv, NEW s \in Symbols, BadState(s), mode[s] # "empty",
           calls' \in [Symbols -> Nat], calls'[s] <= calls[s],
           \A t \in Symbols \ {s} : calls'[t] = calls[t],
           position' \in [Symbols -> Sequences], \A t \in Symbols : position'[t] <= head[t],
           UNCHANGED <<head, subscribed, changes, drops, losses, errors>>
    PROVE  IInv'
<1> USE DEF BadState, Enqueue, clientVars
<1>0. TypeOK
  BY DEF IInv
<1>1. {s} \in SUBSET Symbols /\ Clear({s})
  OBVIOUS
<1>2. queued' \in [Symbols -> Nat] /\ badStates' \in [Symbols -> Nat]
  BY <1>0 DEF TypeOK
<1>3. TypeOK'
  <2>1. /\ mode' \in [Symbols -> {"empty", "waiting", "ready"}]
        /\ buffer' \in [Symbols -> SUBSET (1..MaxChanges)]
        /\ last' \in [Symbols -> Sequences]
    BY <1>1, ClearStep
  <2>2. resets' \in [Symbols -> Nat] /\ failed' \in [Symbols -> BOOLEAN]
    BY <1>1, ClearStep
  <2>3. UNCHANGED clientVars
    BY <1>1 DEF Clear
  <2> QED BY <1>0, <1>2, <2>1, <2>2, <2>3 DEF TypeOK
<1>4. ASSUME NEW t \in Symbols PROVE BookInv(t)' /\ RequestInv(t)'
  <2>1. CASE t = s
    <3>1. BookInv(s) /\ RequestInv(s)
      BY DEF IInv
    <3>2. mode'[s] = "empty" /\ buffer'[s] = {} /\ last'[s] = 0 /\ resets'[s] = resets[s] + 1
      BY <1>1, ClearStep
    <3>3. queued'[s] = queued[s] + 1 /\ badStates'[s] = badStates[s] + 1
      BY <1>0 DEF TypeOK
    <3>4. /\ queued[s] \in Nat /\ calls[s] \in Nat /\ calls'[s] \in Nat
          /\ resets[s] \in Nat /\ badStates[s] \in Nat /\ head[s] \in Nat
      BY <1>0 DEF TypeOK, Sequences
    <3>5. BookInv(s)'
      BY <3>1, <3>2, <3>4 DEF BookInv
    <3>6. RequestInv(s)'
      BY <3>1, <3>2, <3>3, <3>4 DEF RequestInv
    <3> QED BY <2>1, <3>5, <3>6
  <2>2. CASE t # s
    <3>1. /\ mode'[t] = mode[t] /\ buffer'[t] = buffer[t] /\ last'[t] = last[t]
          /\ resets'[t] = resets[t]
      BY <1>1, <2>2, ClearStep
    <3>2. failed'[t] = failed[t]
      BY <1>1, <2>2, ClearStep
    <3>3. queued'[t] = queued[t] /\ badStates'[t] = badStates[t] /\ calls'[t] = calls[t]
      BY <1>0, <2>2 DEF TypeOK
    <3>4. Untouched(t)
      BY <3>1, <3>2, <3>3 DEF Untouched
    <3> QED BY <3>4, UntouchedStep
  <2> QED BY <2>1, <2>2
<1> QED BY <1>3, <1>4 DEF IInv

LEMMA DisconnectedStep == ASSUME IInv, NEW i \in Streams, Disconnected(i) PROVE IInv'
<1> USE DEF Disconnected
<1>0. TypeOK
  BY DEF IInv
<1>1. Symbols \in SUBSET Symbols /\ Clear(Symbols)
  OBVIOUS
<1>2. drops' \in 0..MaxDrops
  BY <1>0, OrderBookAssumption DEF TypeOK, OrderBookAssumption
<1>3. TypeOK'
  <2>1. /\ mode' \in [Symbols -> {"empty", "waiting", "ready"}]
        /\ buffer' \in [Symbols -> SUBSET (1..MaxChanges)]
        /\ last' \in [Symbols -> Sequences]
    BY <1>1, ClearStep
  <2>2. resets' \in [Symbols -> Nat] /\ failed' \in [Symbols -> BOOLEAN]
    BY <1>1, ClearStep
  <2>3. subscribed' \in SUBSET Symbols
    BY <1>0 DEF TypeOK
  <2>4. UNCHANGED clientVars
    BY <1>1 DEF Clear
  <2> QED BY <1>0, <1>2, <2>1, <2>2, <2>3, <2>4 DEF TypeOK, clientVars
<1>4. ASSUME NEW t \in Symbols PROVE BookInv(t)' /\ RequestInv(t)'
  <2>1. BookInv(t) /\ RequestInv(t)
    BY DEF IInv
  <2>2. mode'[t] = "empty" /\ buffer'[t] = {} /\ last'[t] = 0
    BY <1>1, ClearStep
  <2>3. resets'[t] = IF mode[t] # "empty" THEN resets[t] + 1 ELSE resets[t]
    BY <1>1, ClearStep
  <2>4. /\ queued[t] \in Nat /\ calls[t] \in Nat /\ resets[t] \in Nat
        /\ badStates[t] \in Nat /\ head[t] \in Nat
    BY <1>0 DEF TypeOK, Sequences
  <2>5. BookInv(t)'
    BY <2>1, <2>2, <2>4 DEF BookInv
  <2>6. RequestInv(t)'
    BY <2>1, <2>2, <2>3, <2>4 DEF RequestInv
  <2> QED BY <2>5, <2>6
<1> QED BY <1>3, <1>4 DEF IInv

LEMMA CheckRequestQueueStep ==
    ASSUME IInv, NEW symbols \in SUBSET Symbols, CheckRequestQueue(symbols)
    PROVE  IInv'
<1> USE DEF CheckRequestQueue, bookVars, clientVars, historyVars
<1>0. TypeOK
  BY DEF IInv
<1>1. queued' \in [Symbols -> Nat] /\ calls' \in [Symbols -> Nat]
  <2>1. \A t \in symbols : queued[t] > 0 /\ queued[t] \in Nat /\ calls[t] \in Nat
    BY <1>0 DEF TypeOK
  <2> QED BY <1>0, <2>1 DEF TypeOK
<1>2. TypeOK'
  BY <1>0, <1>1 DEF TypeOK
<1>3. ASSUME NEW t \in Symbols PROVE BookInv(t)' /\ RequestInv(t)'
  <2>1. BookInv(t) /\ RequestInv(t)
    BY DEF IInv
  <2>2. queued[t] \in Nat /\ calls[t] \in Nat /\ resets[t] \in Nat /\ badStates[t] \in Nat
    BY <1>0 DEF TypeOK
  <2>3. BookInv(t)'
    BY <2>1 DEF BookInv
  <2>4. RequestInv(t)'
    BY <2>1, <2>2 DEF RequestInv
  <2> QED BY <2>3, <2>4
<1> QED BY <1>2, <1>3 DEF IInv

LEMMA GetOrderBookErrorStep == ASSUME IInv, NEW s \in Symbols, GetOrderBookError(s) PROVE IInv'
<1> USE DEF GetOrderBookError, Called, bookVars, clientVars
<1>0. TypeOK
  BY DEF IInv
<1>1. calls' \in [Symbols -> Nat] /\ errors' \in 0..MaxErrors
  BY <1>0, OrderBookAssumption DEF TypeOK, OrderBookAssumption
<1>2. failed' \in [Symbols -> BOOLEAN] /\ failed'[s] = (mode[s] = "waiting")
  BY <1>0 DEF TypeOK
<1>3. TypeOK'
  BY <1>0, <1>1, <1>2 DEF TypeOK
<1>4. ASSUME NEW t \in Symbols PROVE BookInv(t)' /\ RequestInv(t)'
  <2>1. BookInv(t) /\ RequestInv(t)
    BY DEF IInv
  <2>2. queued[t] \in Nat /\ calls[t] \in Nat /\ resets[t] \in Nat /\ badStates[t] \in Nat
    BY <1>0 DEF TypeOK
  <2>3. BookInv(t)'
    BY <2>1 DEF BookInv
  <2>4. calls'[t] <= calls[t] /\ calls'[t] \in Nat
    BY <1>0, <2>2 DEF TypeOK
  <2>5. t = s \/ (failed'[t] = failed[t] /\ calls'[t] = calls[t])
    BY <1>0 DEF TypeOK
  <2>6. mode[t] = "waiting" => failed'[t] \/ queued[t] > 0 \/ calls'[t] > 0
    BY <1>2, <2>1, <2>5 DEF RequestInv
  <2>7. RequestInv(t)'
    BY <2>1, <2>2, <2>4, <2>6 DEF RequestInv
  <2> QED BY <2>3, <2>7
<1> QED BY <1>3, <1>4 DEF IInv

(* A step of the sequencer of s only.                                       *)
LEMMA BookStep ==
    ASSUME IInv, NEW s \in Symbols,
           NEW m \in {"empty", "waiting", "ready"}, NEW b \in SUBSET (1..MaxChanges),
           NEW n \in Sequences, SetSequencer(s, m, b, n),
           clientBook' \in [Symbols -> SUBSET (1..MaxChanges)],
           clientSequence' \in [Symbols -> Sequences],
           calls' \in [Symbols -> Nat], queued' \in [Symbols -> Nat],
           failed' \in [Symbols -> BOOLEAN],
           \A t \in Symbols \ {s} :
              calls'[t] = calls[t] /\ queued'[t] = queued[t] /\ failed'[t] = failed[t],
           position' \in [Symbols -> Sequences], \A t \in Symbols : position'[t] <= head[t],
           UNCHANGED <<head, subscribed, changes, drops, losses, errors, resets, badStates>>,
           BookInv(s)', RequestInv(s)'
    PROVE  IInv'
<1>0. TypeOK
  BY DEF IInv
<1>1. /\ mode' = [mode EXCEPT ![s] = m] /\ buffer' = [buffer EXCEPT ![s] = b]
      /\ last' = [last EXCEPT ![s] = n]
  BY DEF SetSequencer
<1>2. TypeOK'
  BY <1>0, <1>1 DEF TypeOK
<1>3. ASSUME NEW t \in Symbols \ {s} PROVE BookInv(t)' /\ RequestInv(t)'
  <2>1. mode'[t] = mode[t] /\ buffer'[t] = buffer[t] /\ last'[t] = last[t]
    BY <1>0, <1>1 DEF TypeOK
  <2>2. resets'[t] = resets[t] /\ badStates'[t] = badStates[t]
    OBVIOUS
  <2>3. Untouched(t)
    BY <2>1, <2>2 DEF Untouched
  <2> QED BY <2>3, UntouchedStep
<1> QED BY <1>2, <1>3 DEF IInv

(* The facts about s that the steps of its sequencer start from.            *)
LEMMA SymbolTypes ==
    ASSUME IInv, NEW s \in Symbols
    PROVE  /\ head[s] \in Nat /\ position[s] \in Nat /\ last[s] \in Nat /\ changes \in Nat
           /\ head[s] <= MaxChanges /\ MaxChanges \in Nat
           /\ queued[s] \in Nat /\ calls[s] \in Nat
           /\ resets[s] \in Nat /\ badStates[s] \in Nat
           /\ mode[s] \in {"empty", "waiting", "ready"}
           /\ buffer[s] \in SUBSET (1..MaxChanges)
           /\ BookInv(s) /\ RequestInv(s)
BY OrderBookAssumption DEF IInv, TypeOK, Sequences, OrderBookAssumption

(* Unbroken ranges stay unbroken.                                           *)
LEMMA RangeLemma ==
    \A a, l, n \in Nat : a <= l + 1 /\ l < n => (a..l) \cup ((l + 1)..n) = a..n
  OBVIOUS

LEMMA OverlapLemma ==
    \A a, f, l, n \in Nat : a <= f /\ f <= l + 1 /\ l <= n => (a..l) \cup (f..n) = a..n
  OBVIOUS

(* What is published are changes and sequence numbers.                      *)
LEMMA UpdateTypes ==
    ASSUME IInv, NEW s \in Symbols, NEW from \in Nat \ {0}, NEW to \in Sequences,
           PublishUpdate(s, from, to)
    PROVE  /\ clientBook' \in [Symbols -> SUBSET (1..MaxChanges)]
           /\ clientSequence' \in [Symbols -> Sequences]
<1>1. TypeOK /\ MaxChanges \in Nat
  BY OrderBookAssumption DEF IInv, OrderBookAssumption
<1>2. from..to \subseteq 1..MaxChanges
  BY <1>1 DEF Sequences
<1> QED BY <1>1, <1>2 DEF PublishUpdate, TypeOK

LEMMA SnapshotTypes ==
    ASSUME IInv, NEW s \in Symbols, NEW q, PublishSnapshot(s, q),
           buffer'[s] \in SUBSET (1..MaxChanges), last'[s] \in Sequences
    PROVE  /\ clientBook' \in [Symbols -> SUBSET (1..MaxChanges)]
           /\ clientSequence' \in [Symbols -> Sequences]
<1>1. TypeOK
  BY DEF IInv
<1> QED BY <1>1 DEF PublishSnapshot, TypeOK

LEMMA MarketByPriceStep ==
    ASSUME IInv, NEW s \in Symbols, NEW n \in Sequences, MarketByPrice(s, n)
    PROVE  IInv'
<1> DEFINE from == position[s] + 1
<1>0. TypeOK
  BY DEF IInv
<1>1. /\ from <= n /\ n <= head[s] /\ position' = [position EXCEPT ![s] = n]
      /\ UNCHANGED <<head, subscribed, calls, changes, drops, losses, errors>>
  BY DEF MarketByPrice
<1>2. position' \in [Symbols -> Sequences] /\ \A t \in Symbols : position'[t] <= head[t]
  <2>1. \A t \in Symbols : position[t] <= head[t]
    BY DEF IInv, BookInv
  <2> QED BY <1>0, <1>1, <2>1 DEF TypeOK
<1>3. calls' \in [Symbols -> Nat] /\ \A t \in Symbols : calls'[t] = calls[t]
  BY <1>0, <1>1 DEF TypeOK
<1>4. n \in Nat /\ from \in Nat /\ from - 1 = position[s] /\ from >= 1
  BY SymbolTypes DEF Sequences
<1>5. CASE IsBadState(s, Previous(s, from)) /\ BadState(s)
  <2>1. mode[s] # "empty"
    BY <1>5 DEF IsBadState
  <2>2. calls'[s] <= calls[s]
    BY <1>3, SymbolTypes
  <2> QED BY <1>1, <1>2, <1>3, <1>5, <2>1, <2>2, BadStateStep
<1>6. CASE /\ ~IsBadState(s, Previous(s, from))
           /\ SequencerUpdate(s, from, n)
           /\ IF RequestsSnapshot(s) THEN Enqueue(s) ELSE UNCHANGED queued
           /\ UNCHANGED <<resets, badStates, failed>>
  <2>1. queued' \in [Symbols -> Nat] /\ \A t \in Symbols \ {s} : queued'[t] = queued[t]
    BY <1>0, <1>6 DEF Enqueue, TypeOK
  <2>2. /\ mode[s] = "empty" => queued'[s] = queued[s] + 1
        /\ mode[s] # "empty" => queued'[s] = queued[s]
    BY <1>0, <1>6 DEF Enqueue, RequestsSnapshot, TypeOK
  <2>3. failed' \in [Symbols -> BOOLEAN] /\ \A t \in Symbols : failed'[t] = failed[t]
    BY <1>0, <1>6 DEF TypeOK
  <2>4. CASE mode[s] = "ready" /\ n <= last[s]
    <3>1. UNCHANGED bookVars /\ UNCHANGED clientVars
      <4>1. last[s] \in Nat
        BY SymbolTypes
      <4>2. Keep
        BY <1>4, <1>6, <2>4, <4>1 DEF SequencerUpdate
      <4> QED BY <4>2 DEF Keep
    <3>2. TypeOK'
      BY <1>0, <1>1, <1>2, <1>3, <1>6, <2>1, <2>3, <3>1 DEF TypeOK, bookVars, clientVars
    <3>3. ASSUME NEW t \in Symbols PROVE BookInv(t)' /\ RequestInv(t)'
      <4>1. Untouched(t)
        BY <1>1, <1>6, <2>1, <2>2, <2>4, <3>1 DEF Untouched, bookVars
      <4> QED BY <1>1, <1>2, <4>1, UntouchedStep
    <3> QED BY <3>2, <3>3 DEF IInv
  <2>5. CASE ~(mode[s] = "ready" /\ n <= last[s])
    <3> DEFINE m == IF mode[s] = "ready" THEN "ready" ELSE "waiting"
               b == buffer[s] \cup from..n
    <3>1. /\ SetSequencer(s, m, b, n)
          /\ IF mode[s] = "ready" THEN PublishUpdate(s, from, n) ELSE UNCHANGED clientVars
      BY <1>6, <2>5 DEF SequencerUpdate
    <3>9. /\ clientBook' \in [Symbols -> SUBSET (1..MaxChanges)]
          /\ clientSequence' \in [Symbols -> Sequences]
      <4>1. CASE mode[s] = "ready"
        <5>1. from \in Nat \ {0} /\ PublishUpdate(s, from, n)
          BY <1>4, <3>1, <4>1
        <5> HIDE DEF from
        <5> QED BY <5>1, UpdateTypes
      <4>2. CASE mode[s] # "ready"
        BY <1>0, <3>1, <4>2 DEF TypeOK, clientVars
      <4> QED BY <4>1, <4>2
    <3>2. m \in {"empty", "waiting", "ready"} /\ b \in SUBSET (1..MaxChanges)
      BY <1>1, <1>4, SymbolTypes
    <3>3. mode'[s] = m /\ buffer'[s] = b /\ last'[s] = n /\ position'[s] = n
      BY <1>0, <1>1, <3>1 DEF SetSequencer, TypeOK
    <3>4. ~(mode[s] = "waiting" /\ position[s] # last[s]) /\ ~(mode[s] = "ready" /\ last[s] < position[s])
      BY <1>4, <1>6 DEF IsBadState, Previous
    <3>5. mode[s] # "ready" => \E a \in 1..n : b = a..n
      <4>1. CASE mode[s] = "empty"
        <5>1. buffer[s] = {}
          BY <4>1, SymbolTypes DEF BookInv
        <5>2. from \in 1..n /\ b = from..n
          BY <1>1, <1>4, <5>1
        <5> HIDE DEF b, from
        <5> QED BY <5>2
      <4>2. CASE mode[s] = "waiting"
        <5>1. PICK a \in 1..last[s] : buffer[s] = a..last[s]
          BY <4>2, SymbolTypes DEF BookInv
        <5>2. position[s] = last[s] /\ last[s] < n /\ a <= last[s] + 1 /\ a \in Nat /\ last[s] \in Nat
          BY <1>1, <1>4, <3>4, <4>2, <5>1, SymbolTypes
        <5>3. b = a..n
          <6>1. b = (a..last[s]) \cup ((last[s] + 1)..n)
            BY <5>1, <5>2
          <6> HIDE DEF b
          <6> QED BY <1>4, <5>2, <6>1, RangeLemma
        <5>4. a \in 1..n
          BY <1>4, <5>1, <5>2
        <5> HIDE DEF b
        <5> QED BY <5>3, <5>4
      <4> QED BY <4>1, <4>2, SymbolTypes
    <3>6. mode[s] = "ready" => b = 1..n
      <4> SUFFICES ASSUME mode[s] = "ready" PROVE b = 1..n
        OBVIOUS
      <4>1. buffer[s] = 1..last[s] /\ last[s] \in Nat
        BY SymbolTypes DEF BookInv
      <4>2. 1 <= from /\ from <= last[s] + 1 /\ last[s] <= n
        BY <1>4, <2>5, <3>4, SymbolTypes
      <4> QED BY <1>4, <4>1, <4>2, OverlapLemma
    <3>7. BookInv(s)'
      BY <1>1, <1>4, <3>3, <3>5, <3>6, SymbolTypes DEF BookInv
    <3>8. RequestInv(s)'
      BY <1>3, <1>6, <2>2, <2>3, <3>3, SymbolTypes DEF RequestInv
    <3> HIDE DEF m, b
    <3> QED BY <1>1, <1>2, <1>3, <1>6, <2>1, <2>3, <3>1, <3>2, <3>7, <3>8, <3>9, BookStep
  <2> QED BY <2>4, <2>5
<1> QED BY <1>5, <1>6 DEF MarketByPrice

LEMMA OrderBookAckStep ==
    ASSUME IInv, NEW s \in Symbols, NEW q \in Sequences, OrderBookAck(s, q)
    PROVE  IInv'
<1>0. TypeOK
  BY DEF IInv
<1>1. /\ q <= head[s] /\ calls[s] > 0 /\ calls' = [calls EXCEPT ![s] = @ - 1]
      /\ UNCHANGED <<head, subscribed, position, changes, drops, losses, errors>>
  BY DEF OrderBookAck, Called
<1>2. position' \in [Symbols -> Sequences] /\ \A t \in Symbols : position'[t] <= head[t]
  BY <1>0, <1>1 DEF IInv, BookInv, TypeOK
<1>3. calls' \in [Symbols -> Nat] /\ \A t \in Symbols \ {s} : calls'[t] = calls[t]
  BY <1>0, <1>1 DEF TypeOK
<1>4. calls'[s] = calls[s] - 1 /\ q \in Nat
  BY <1>0, <1>1 DEF TypeOK, Sequences
<1>5. CASE mode[s] = "waiting" /\ BadState(s)
  <2>1. calls'[s] <= calls[s]
    BY <1>4, SymbolTypes
  <2> QED BY <1>1, <1>2, <1>3, <1>5, <2>1, BadStateStep
<1>6. CASE /\ SequencerSnapshot(s, q)
           /\ IF TooOld(s, q) THEN Enqueue(s) ELSE UNCHANGED queued
           /\ failed' = [failed EXCEPT ![s] = @ /\ mode'[s] = "waiting"]
           /\ UNCHANGED <<resets, badStates>>
  <2>1. queued' \in [Symbols -> Nat] /\ \A t \in Symbols \ {s} : queued'[t] = queued[t]
    BY <1>0, <1>6 DEF Enqueue, TypeOK
  <2>2. /\ TooOld(s, q) => queued'[s] = queued[s] + 1
        /\ ~TooOld(s, q) => queued'[s] = queued[s]
    BY <1>0, <1>6 DEF Enqueue, TypeOK
  <2>3. failed' \in [Symbols -> BOOLEAN] /\ \A t \in Symbols \ {s} : failed'[t] = failed[t]
    <3>1. failed \in [Symbols -> BOOLEAN]
      BY <1>0 DEF TypeOK
    <3>2. (failed[s] /\ mode'[s] = "waiting") \in BOOLEAN
      OBVIOUS
    <3> QED BY <1>6, <3>1, <3>2
  <2>4. CASE /\ Reaches(s, q)
             /\ SetSequencer(s, "ready", buffer[s] \cup 1..q, Larger(q, last[s]))
             /\ PublishSnapshot(s, q)
    <3> DEFINE n == Larger(q, last[s])
    <3>1. PICK a \in 1..last[s] : buffer[s] = a..last[s]
      BY <2>4, SymbolTypes DEF Reaches, BookInv
    <3>2. a <= q + 1
      BY <1>4, <2>4, <3>1, SymbolTypes DEF Reaches
    <3>3. n \in Nat /\ n <= head[s] /\ n \in Sequences
      BY <1>1, <1>4, SymbolTypes DEF Larger, BookInv, Sequences
    <3>4. buffer[s] \cup 1..q = 1..n
      BY <1>4, <3>1, <3>2, SymbolTypes DEF Larger
    <3>5. 1..n \in SUBSET (1..MaxChanges)
      BY <3>3, SymbolTypes
    <3>6. SetSequencer(s, "ready", 1..n, n)
      BY <2>4, <3>4
    <3>7. mode'[s] = "ready" /\ buffer'[s] = 1..n /\ last'[s] = n
      BY <1>0, <3>6 DEF SetSequencer, TypeOK
    <3>8. BookInv(s)'
      BY <1>1, <3>3, <3>7, SymbolTypes DEF BookInv
    <3>9. RequestInv(s)'
      <4>1. queued'[s] = queued[s]
        BY <2>2, <2>4 DEF TooOld, Reaches
      <4>2. resets' = resets /\ badStates' = badStates
        BY <1>6
      <4>3. queued[s] + calls[s] <= 1 + resets[s] + badStates[s]
        BY SymbolTypes DEF RequestInv
      <4>4. queued'[s] + calls'[s] <= 1 + resets'[s] + badStates'[s]
        BY <1>4, <4>1, <4>2, <4>3, SymbolTypes
      <4> QED BY <3>7, <4>4 DEF RequestInv
    <3>10. /\ clientBook' \in [Symbols -> SUBSET (1..MaxChanges)]
           /\ clientSequence' \in [Symbols -> Sequences]
      BY <2>4, <3>3, <3>5, <3>7, SnapshotTypes
    <3> HIDE DEF n
    <3> QED BY <1>1, <1>2, <1>3, <1>6, <2>1, <2>3, <3>3, <3>5, <3>6, <3>8, <3>9, <3>10, BookStep
  <2>5. CASE mode[s] = "empty" /\ SetSequencer(s, "ready", 1..q, q) /\ PublishSnapshot(s, q)
    <3>1. mode'[s] = "ready" /\ buffer'[s] = 1..q /\ last'[s] = q
      BY <1>0, <2>5 DEF SetSequencer, TypeOK
    <3>2. BookInv(s)'
      BY <1>1, <1>4, <3>1, SymbolTypes DEF BookInv
    <3>3. RequestInv(s)'
      <4>1. queued'[s] = queued[s]
        BY <2>2, <2>5 DEF TooOld, Reaches
      <4>2. resets' = resets /\ badStates' = badStates
        BY <1>6
      <4>3. queued[s] + calls[s] <= 1 + resets[s] + badStates[s]
        BY SymbolTypes DEF RequestInv
      <4>4. queued'[s] + calls'[s] <= 1 + resets'[s] + badStates'[s]
        BY <1>4, <4>1, <4>2, <4>3, SymbolTypes
      <4> QED BY <3>1, <4>4 DEF RequestInv
    <3>4. 1..q \in SUBSET (1..MaxChanges)
      BY <1>1, <1>4, SymbolTypes
    <3>5. /\ clientBook' \in [Symbols -> SUBSET (1..MaxChanges)]
          /\ clientSequence' \in [Symbols -> Sequences]
      BY <2>5, <3>1, <3>4, SnapshotTypes
    <3> QED BY <1>1, <1>2, <1>3, <1>6, <2>1, <2>3, <2>5, <3>2, <3>3, <3>4, <3>5, BookStep
  <2>6. CASE ~Reaches(s, q) /\ Keep
    <3>1. UNCHANGED bookVars /\ UNCHANGED clientVars
      BY <2>6 DEF Keep
    <3>2. TypeOK'
      BY <1>0, <1>1, <1>2, <1>3, <1>6, <2>1, <2>3, <3>1 DEF TypeOK, bookVars, clientVars
    <3>3. BookInv(s)'
      BY <1>1, <3>1, SymbolTypes DEF BookInv, bookVars
    <3>4. mode[s] = "waiting" <=> TooOld(s, q)
      BY <2>6 DEF TooOld
    <3>5. RequestInv(s)'
      <4>1. mode'[s] = mode[s] /\ resets' = resets /\ badStates' = badStates
        BY <1>6, <3>1 DEF bookVars
      <4>2. queued'[s] + calls'[s] <= queued[s] + calls[s]
        BY <1>4, <2>2, SymbolTypes
      <4>3. mode[s] = "waiting" => queued'[s] > 0
        BY <2>2, <3>4, SymbolTypes
      <4>4. queued'[s] \in Nat /\ calls'[s] \in Nat
        BY <1>3, <2>1
      <4> QED BY <4>1, <4>2, <4>3, <4>4, SymbolTypes DEF RequestInv
    <3>6. ASSUME NEW t \in Symbols \ {s} PROVE BookInv(t)' /\ RequestInv(t)'
      <4>1. Untouched(t)
        BY <1>3, <1>6, <2>1, <2>3, <3>1 DEF Untouched, bookVars
      <4> QED BY <1>1, <1>2, <4>1, UntouchedStep
    <3> QED BY <3>2, <3>3, <3>5, <3>6 DEF IInv
  <2> QED BY <1>6, <2>4, <2>5, <2>6 DEF SequencerSnapshot
<1> QED BY <1>5, <1>6 DEF OrderBookAck

-----------------------------------------------------------------------------
LEMMA NextIInv == IInv /\ [Next]_vars => IInv'
<1> SUFFICES ASSUME IInv, [Next]_vars PROVE IInv'
  OBVIOUS
<1>1. CASE \E s \in Symbols : Change(s)
  BY <1>1, ChangeStep
<1>2. CASE \E s \in Symbols : Lose(s)
  BY <1>2, LoseStep
<1>3. CASE \E s \in Symbols : GetOrderBookError(s)
  BY <1>3, GetOrderBookErrorStep
<1>4. CASE \E s \in Symbols : \E n \in Sequences : MarketByPrice(s, n)
  BY <1>4, MarketByPriceStep
<1>5. CASE \E s \in Symbols : \E n \in Sequences : OrderBookAck(s, n)
  BY <1>5, OrderBookAckStep
<1>6. CASE \E s \in Symbols : Session(s)
  BY <1>6, SessionStep
<1>7. CASE \E i \in Streams : Disconnected(i)
  BY <1>7, DisconnectedStep
<1>8. CASE \E symbols \in SUBSET Symbols \ {{}} : CheckRequestQueue(symbols)
  BY <1>8, CheckRequestQueueStep
<1>9. CASE UNCHANGED vars
  BY <1>9 DEF vars, bookVars, clientVars, requestVars, historyVars, IInv, TypeOK, BookInv, RequestInv
<1> QED BY <1>1, <1>2, <1>3, <1>4, <1>5, <1>6, <1>7, <1>8, <1>9 DEF Next

(* The invariant holds in every reachable state.                            *)
THEOREM Invariance == Spec => []IInv
<1> QED BY InitIInv, NextIInv, PTL DEF Spec

(* Every variable keeps its type.                                           *)
THEOREM TypeCorrect == Spec => []TypeOK
<1>1. IInv => TypeOK
  BY DEF IInv
<1> QED BY <1>1, Invariance, PTL

(* A sequencer that waits has a request in the queue or on its way, or one  *)
(* failed.                                                                  *)
THEOREM WaitingIsAskedFor == Spec => []AwaitedIsAsked
<1>1. IInv => AwaitedIsAsked
  BY DEF IInv, RequestInv, AwaitedIsAsked
<1> QED BY <1>1, Invariance, PTL

(* The queue does not grow but by the sequencers that are cleared.          *)
THEOREM RequestsBounded == Spec => []RequestsAreBounded
<1>1. IInv => RequestsAreBounded
  BY DEF IInv, RequestInv, RequestsAreBounded
<1> QED BY <1>1, Invariance, PTL

-----------------------------------------------------------------------------
(* While a sequencer stays ready, its book does not go back.                *)

GoesForward(s) ==
    /\ head[s] <= head'[s]
    /\ mode[s] = "ready" /\ mode'[s] = "ready" => last[s] <= last'[s]

LEMMA StepGoesForward ==
    ASSUME IInv, IInv', [Next]_vars, NEW s \in Symbols
    PROVE  GoesForward(s)
<1>0. TypeOK /\ TypeOK'
  BY DEF IInv
<1>1. head[s] \in Nat /\ last[s] \in Nat /\ last'[s] \in Nat
  BY <1>0 DEF TypeOK, Sequences
<1>2. CASE \E t \in Symbols : Change(t)
  BY <1>0, <1>1, <1>2 DEF Change, GoesForward, bookVars, TypeOK
<1>3. CASE \E t \in Symbols : Lose(t) \/ GetOrderBookError(t)
  BY <1>1, <1>3 DEF Lose, GetOrderBookError, GoesForward, bookVars
<1>4. CASE (\E t \in Symbols : Session(t)) \/ UNCHANGED vars
  BY <1>1, <1>4 DEF Session, GoesForward, bookVars, vars
<1>5. CASE \E symbols \in SUBSET Symbols \ {{}} : CheckRequestQueue(symbols)
  BY <1>1, <1>5 DEF CheckRequestQueue, GoesForward, bookVars
<1>6. CASE \E i \in Streams : Disconnected(i)
  BY <1>1, <1>6 DEF Disconnected, Clear, GoesForward
<1>7. ASSUME NEW t \in Symbols, BadState(t), head' = head
      PROVE  GoesForward(s)
  BY <1>1, <1>7 DEF BadState, Clear, GoesForward
<1>8. ASSUME NEW t \in Symbols, NEW m, NEW b, NEW n \in Nat, SetSequencer(t, m, b, n), head' = head,
             mode[t] = "ready" => last[t] <= n
      PROVE  GoesForward(s)
  BY <1>0, <1>1, <1>8 DEF SetSequencer, GoesForward, TypeOK
<1>9. ASSUME NEW t \in Symbols, NEW n \in Sequences, MarketByPrice(t, n)
      PROVE  GoesForward(s)
  <2>1. n \in Nat /\ last[t] \in Nat /\ head' = head
    BY <1>0, <1>9 DEF TypeOK, Sequences, MarketByPrice
  <2>2. CASE SequencerUpdate(t, position[t] + 1, n)
    <3>1. CASE mode[t] = "ready" /\ n <= last[t]
      BY <1>1, <2>1, <2>2, <3>1 DEF SequencerUpdate, Keep, bookVars, GoesForward
    <3>2. CASE ~(mode[t] = "ready" /\ n <= last[t])
      <4>1. \E m, b : SetSequencer(t, m, b, n)
        BY <2>1, <2>2, <3>2 DEF SequencerUpdate
      <4> QED BY <1>8, <2>1, <3>2, <4>1
    <3> QED BY <3>1, <3>2
  <2> QED BY <1>7, <1>9, <2>1, <2>2 DEF MarketByPrice
<1>10. ASSUME NEW t \in Symbols, NEW n \in Sequences, OrderBookAck(t, n)
       PROVE  GoesForward(s)
  <2>1. n \in Nat /\ last[t] \in Nat /\ head' = head
    BY <1>0, <1>10 DEF TypeOK, Sequences, OrderBookAck
  <2>2. CASE SequencerSnapshot(t, n)
    <3>1. CASE Keep
      BY <1>1, <2>1, <3>1 DEF Keep, bookVars, GoesForward
    <3>2. CASE ~Keep
      <4>1. mode[t] # "ready"
        BY <2>2, <3>2 DEF SequencerSnapshot, Reaches
      <4>2. \E m, b : \E k \in Nat : SetSequencer(t, m, b, k)
        BY <2>1, <2>2, <3>2 DEF SequencerSnapshot, Larger
      <4> QED BY <1>8, <2>1, <4>1, <4>2
    <3> QED BY <3>1, <3>2
  <2> QED BY <1>7, <1>10, <2>1, <2>2 DEF OrderBookAck
<1> QED BY <1>2, <1>3, <1>4, <1>5, <1>6, <1>9, <1>10 DEF Next

(* The book of the clients: either nothing is published, and no sequencer   *)
(* becomes ready, or the sequencer is ready and its book is published.      *)

LEMMA NothingPublished ==
    ASSUME IInv, IInv', ClientsHaveABook, [Next]_vars, UNCHANGED clientVars, NEW s \in Symbols,
           mode'[s] = "ready" => mode[s] = "ready" /\ last'[s] = last[s]
    PROVE  /\ clientBook'[s] = 1..clientSequence'[s] /\ clientSequence'[s] <= head'[s]
           /\ mode'[s] = "ready" => clientSequence'[s] = last'[s]
<1>1. head[s] <= head'[s]
  BY StepGoesForward DEF GoesForward
<1>2. head[s] \in Nat /\ head'[s] \in Nat /\ clientSequence[s] \in Nat
  BY DEF IInv, TypeOK, Sequences
<1> QED BY <1>1, <1>2 DEF ClientsHaveABook, clientVars

LEMMA BookPublished ==
    ASSUME IInv, IInv', NEW s \in Symbols, mode'[s] = "ready",
           clientBook'[s] = buffer'[s], clientSequence'[s] = last'[s]
    PROVE  /\ clientBook'[s] = 1..clientSequence'[s] /\ clientSequence'[s] <= head'[s]
           /\ mode'[s] = "ready" => clientSequence'[s] = last'[s]
<1>1. BookInv(s)'
  BY DEF IInv
<1> QED BY <1>1 DEF BookInv

LEMMA NextKeepsClients ==
    IInv /\ IInv' /\ ClientsHaveABook /\ [Next]_vars => ClientsHaveABook'
<1> SUFFICES ASSUME IInv, IInv', ClientsHaveABook, [Next]_vars, NEW s \in Symbols
             PROVE  /\ clientBook'[s] = 1..clientSequence'[s] /\ clientSequence'[s] <= head'[s]
                    /\ mode'[s] = "ready" => clientSequence'[s] = last'[s]
  BY DEF ClientsHaveABook
<1>0. TypeOK /\ TypeOK'
  BY DEF IInv
<1>1. ASSUME UNCHANGED <<bookVars, clientVars>>
      PROVE  /\ clientBook'[s] = 1..clientSequence'[s] /\ clientSequence'[s] <= head'[s]
             /\ mode'[s] = "ready" => clientSequence'[s] = last'[s]
  BY <1>1, NothingPublished DEF bookVars
<1>2. ASSUME NEW symbols \in SUBSET Symbols, Clear(symbols)
      PROVE  /\ clientBook'[s] = 1..clientSequence'[s] /\ clientSequence'[s] <= head'[s]
             /\ mode'[s] = "ready" => clientSequence'[s] = last'[s]
  BY <1>2, NothingPublished DEF Clear
<1>3. ASSUME NEW t \in Symbols, NEW m, NEW b, NEW n, SetSequencer(t, m, b, n),
             clientBook' = [clientBook EXCEPT ![t] = b],
             clientSequence' = [clientSequence EXCEPT ![t] = n],
             m = "ready"
      PROVE  /\ clientBook'[s] = 1..clientSequence'[s] /\ clientSequence'[s] <= head'[s]
             /\ mode'[s] = "ready" => clientSequence'[s] = last'[s]
  <2>1. CASE s = t
    <3>1. /\ mode'[s] = "ready" /\ buffer'[s] = b /\ last'[s] = n
          /\ clientBook'[s] = b /\ clientSequence'[s] = n
      BY <1>0, <1>3, <2>1 DEF SetSequencer, TypeOK
    <3> QED BY <3>1, BookPublished
  <2>2. CASE s # t
    <3>1. /\ mode'[s] = mode[s] /\ last'[s] = last[s] /\ buffer'[s] = buffer[s]
          /\ clientBook'[s] = clientBook[s] /\ clientSequence'[s] = clientSequence[s]
      BY <1>0, <1>3, <2>2 DEF SetSequencer, TypeOK
    <3>2. head[s] <= head'[s] /\ head[s] \in Nat /\ head'[s] \in Nat /\ clientSequence[s] \in Nat
      BY <1>0, StepGoesForward DEF GoesForward, TypeOK, Sequences
    <3> QED BY <3>1, <3>2 DEF ClientsHaveABook
  <2> QED BY <2>1, <2>2
<1>4. CASE \/ \E t \in Symbols : Change(t) \/ Lose(t) \/ Session(t) \/ GetOrderBookError(t)
           \/ \E symbols \in SUBSET Symbols \ {{}} : CheckRequestQueue(symbols)
           \/ UNCHANGED vars
  BY <1>1, <1>4 DEF Change, Lose, Session, GetOrderBookError, CheckRequestQueue, vars
<1>5. CASE \E i \in Streams : Disconnected(i)
  BY <1>2, <1>5 DEF Disconnected
<1>6. ASSUME NEW t \in Symbols, NEW n \in Sequences, MarketByPrice(t, n)
      PROVE  /\ clientBook'[s] = 1..clientSequence'[s] /\ clientSequence'[s] <= head'[s]
             /\ mode'[s] = "ready" => clientSequence'[s] = last'[s]
  <2> DEFINE b == buffer[t] \cup (position[t] + 1)..n
  <2>1. CASE BadState(t)
    <3>1. {t} \in SUBSET Symbols /\ Clear({t})
      BY <2>1 DEF BadState
    <3> QED BY <1>2, <3>1
  <2>2. CASE Keep
    BY <1>1, <2>2 DEF Keep
  <2>3. CASE mode[t] = "ready" /\ SetSequencer(t, "ready", b, n) /\ PublishUpdate(t, position[t] + 1, n)
    <3>1. clientBook[t] = buffer[t]
      <4>1. BookInv(t)
        BY DEF IInv
      <4> QED BY <2>3, <4>1 DEF ClientsHaveABook, BookInv
    <3>2. /\ clientBook' = [clientBook EXCEPT ![t] = b]
          /\ clientSequence' = [clientSequence EXCEPT ![t] = n]
      BY <1>0, <2>3, <3>1 DEF PublishUpdate, TypeOK
    <3> HIDE DEF b
    <3> QED BY <1>3, <2>3, <3>2
  <2>4. CASE SetSequencer(t, "waiting", b, n) /\ UNCHANGED clientVars
    <3>1. mode'[s] = "ready" => mode[s] = "ready" /\ last'[s] = last[s]
      BY <1>0, <2>4 DEF SetSequencer, TypeOK
    <3> QED BY <2>4, <3>1, NothingPublished
  <2> QED BY <1>6, <2>1, <2>2, <2>3, <2>4 DEF MarketByPrice, SequencerUpdate
<1>7. ASSUME NEW t \in Symbols, NEW q \in Sequences, OrderBookAck(t, q)
      PROVE  /\ clientBook'[s] = 1..clientSequence'[s] /\ clientSequence'[s] <= head'[s]
             /\ mode'[s] = "ready" => clientSequence'[s] = last'[s]
  <2>1. CASE BadState(t)
    <3>1. {t} \in SUBSET Symbols /\ Clear({t})
      BY <2>1 DEF BadState
    <3> QED BY <1>2, <3>1
  <2>2. CASE Keep
    BY <1>1, <2>2 DEF Keep
  <2>3. ASSUME NEW b, NEW n, SetSequencer(t, "ready", b, n), PublishSnapshot(t, q)
        PROVE  /\ clientBook'[s] = 1..clientSequence'[s] /\ clientSequence'[s] <= head'[s]
               /\ mode'[s] = "ready" => clientSequence'[s] = last'[s]
    <3>1. buffer'[t] = b /\ last'[t] = n
      BY <1>0, <2>3 DEF SetSequencer, TypeOK
    <3>2. /\ clientBook' = [clientBook EXCEPT ![t] = b]
          /\ clientSequence' = [clientSequence EXCEPT ![t] = n]
      BY <2>3, <3>1 DEF PublishSnapshot
    <3> QED BY <1>3, <2>3, <3>2
  <2> QED BY <1>7, <2>1, <2>2, <2>3 DEF OrderBookAck, SequencerSnapshot
<1> QED BY <1>4, <1>5, <1>6, <1>7 DEF Next

(* The clients always have a book the exchange had, labelled with its       *)
(* sequence number, and the sequencer's whenever that is ready.             *)
THEOREM ClientsAlwaysHaveABook == Spec => []ClientsHaveABook
<1>1. Init => ClientsHaveABook
  <2> SUFFICES ASSUME Init, NEW s \in Symbols
               PROVE  /\ clientBook[s] = 1..clientSequence[s] /\ clientSequence[s] <= head[s]
                      /\ mode[s] = "ready" => clientSequence[s] = last[s]
    BY DEF ClientsHaveABook
  <2>1. clientBook[s] = {} /\ clientSequence[s] = 0 /\ head[s] = 0 /\ mode[s] = "empty"
    BY DEF Init
  <2>2. 1..0 = {}
    OBVIOUS
  <2> QED BY <2>1, <2>2
<1> QED BY <1>1, NextKeepsClients, Invariance, PTL DEF Spec

Live == {s \in Symbols : mode[s] = "ready"}

(* What a step shows the clients comes from a sequencer that is ready.      *)
LEMMA OnlyReadyPublishes ==
    ASSUME IInv, [Next]_vars, NEW s \in Symbols, mode'[s] # "ready"
    PROVE  clientBook'[s] = clientBook[s] /\ clientSequence'[s] = clientSequence[s]
<1>0. TypeOK
  BY DEF IInv
<1>1. ASSUME NEW t \in Symbols, NEW m, NEW b, NEW n, SetSequencer(t, m, b, n),
             \/ UNCHANGED clientVars
             \/ /\ m = "ready"
                /\ \E c, q : /\ clientBook' = [clientBook EXCEPT ![t] = c]
                             /\ clientSequence' = [clientSequence EXCEPT ![t] = q]
      PROVE  clientBook'[s] = clientBook[s] /\ clientSequence'[s] = clientSequence[s]
  <2>1. CASE UNCHANGED clientVars
    BY <2>1 DEF clientVars
  <2>2. CASE ~UNCHANGED clientVars
    <3>1. m = "ready"
      BY <1>1, <2>2
    <3>2. s # t
      BY <1>0, <1>1, <3>1 DEF SetSequencer, TypeOK
    <3> QED BY <1>0, <1>1, <2>2, <3>2 DEF TypeOK
  <2> QED BY <2>1, <2>2
<1>2. CASE UNCHANGED clientVars
  BY <1>2 DEF clientVars
<1>3. CASE \E t \in Symbols : Change(t) \/ Lose(t) \/ Session(t) \/ GetOrderBookError(t)
  BY <1>2, <1>3 DEF Change, Lose, Session, GetOrderBookError
<1>4. CASE \/ \E i \in Streams : Disconnected(i)
           \/ \E symbols \in SUBSET Symbols \ {{}} : CheckRequestQueue(symbols)
           \/ UNCHANGED vars
  BY <1>2, <1>4 DEF Disconnected, Clear, CheckRequestQueue, vars
<1>5. ASSUME NEW t \in Symbols, NEW n \in Sequences, MarketByPrice(t, n)
      PROVE  clientBook'[s] = clientBook[s] /\ clientSequence'[s] = clientSequence[s]
  <2> DEFINE from == position[t] + 1
             b == buffer[t] \cup from..n
  <2>1. CASE BadState(t) \/ Keep
    BY <1>2, <2>1 DEF BadState, Clear, Keep
  <2>2. CASE SetSequencer(t, "ready", b, n) /\ PublishUpdate(t, from, n)
    <3>1. \E c, q : /\ clientBook' = [clientBook EXCEPT ![t] = c]
                    /\ clientSequence' = [clientSequence EXCEPT ![t] = q]
      BY <2>2 DEF PublishUpdate
    <3> HIDE DEF b
    <3> QED BY <1>1, <2>2, <3>1
  <2>3. CASE SetSequencer(t, "waiting", b, n) /\ UNCHANGED clientVars
    BY <1>2, <2>3
  <2> QED BY <1>5, <2>1, <2>2, <2>3 DEF MarketByPrice, SequencerUpdate
<1>6. ASSUME NEW t \in Symbols, NEW q \in Sequences, OrderBookAck(t, q)
      PROVE  clientBook'[s] = clientBook[s] /\ clientSequence'[s] = clientSequence[s]
  <2>1. CASE BadState(t) \/ Keep
    BY <1>2, <2>1 DEF BadState, Clear, Keep
  <2>2. ASSUME NEW b, NEW n, SetSequencer(t, "ready", b, n), PublishSnapshot(t, q)
        PROVE  clientBook'[s] = clientBook[s] /\ clientSequence'[s] = clientSequence[s]
    BY <1>1, <2>2 DEF PublishSnapshot
  <2> QED BY <1>6, <2>1, <2>2 DEF OrderBookAck, SequencerSnapshot
<1> QED BY <1>3, <1>4, <1>5, <1>6 DEF Next

LEMMA StepRefinesBookReplica ==
    IInv /\ IInv' /\ ClientsHaveABook /\ ClientsHaveABook' /\ [Next]_vars =>
        [BR!Next]_(<<head, clientBook, clientSequence, Live>>)
<1> SUFFICES ASSUME IInv, IInv', ClientsHaveABook, ClientsHaveABook', [Next]_vars,
                    NEW s \in Symbols
             PROVE  head[s] <= head'[s] /\ (BR!Update(s) \/ BR!Snapshot(s) \/ BR!Stale(s))
  BY DEF BR!Next
<1>1. GoesForward(s)
  BY StepGoesForward
<1>2. /\ head'[s] \in Nat /\ last[s] \in Nat /\ last'[s] \in Nat
      /\ clientSequence[s] \in Nat /\ clientSequence'[s] \in Nat
  BY DEF IInv, TypeOK, Sequences
<1>3. /\ clientBook'[s] = 1..clientSequence'[s] /\ clientSequence'[s] <= head'[s]
      /\ mode[s] = "ready" => clientSequence[s] = last[s]
      /\ mode'[s] = "ready" => clientSequence'[s] = last'[s]
  BY DEF ClientsHaveABook
<1>4. CASE mode[s] = "ready" /\ mode'[s] = "ready"
  <2>1. clientSequence[s] <= clientSequence'[s]
    BY <1>1, <1>3, <1>4 DEF GoesForward
  <2> QED BY <1>1, <1>2, <1>3, <1>4, <2>1 DEF GoesForward, BR!Update, BR!Show
<1>5. CASE mode[s] # "ready" /\ mode'[s] = "ready"
  BY <1>1, <1>2, <1>3, <1>5 DEF GoesForward, BR!Snapshot, BR!Show
<1>6. CASE mode'[s] # "ready"
  BY <1>1, <1>6, OnlyReadyPublishes DEF GoesForward, BR!Stale
<1> QED BY <1>4, <1>5, <1>6

(* The book the clients put together is the exchange's at its sequence      *)
(* number, moves forward while the sequencer stays ready, and is left as it *)
(* is while it is not: the books implement BookReplica.                     *)
THEOREM BooksAreReplicas == Spec => BookIsReplica
<1>1. Init => BR!Init
  BY DEF Init, BR!Init
<1>2. IInv /\ IInv' /\ ClientsHaveABook /\ ClientsHaveABook' /\ [Next]_vars =>
        [BR!Next]_(<<head, clientBook, clientSequence, Live>>)
  BY StepRefinesBookReplica
<1> QED BY <1>1, <1>2, Invariance, ClientsAlwaysHaveABook, PTL DEF Spec, BookIsReplica, BR!Spec, Live
=============================================================================
