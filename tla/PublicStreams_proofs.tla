-------------------------- MODULE PublicStreams_proofs --------------------------
(***************************************************************************)
(* What the market data streams are to the rest of the gateway: proofs     *)
(* that PublicFeed implements StreamSubscriptions, keeps to the size of a  *)
(* slice and does not leave its download alone.  They rest on the          *)
(* inductive invariant of PublicFeed_proofs.                               *)
(***************************************************************************)
EXTENDS PublicFeed_proofs

(* What a stream sent or will send is about the symbols of its slice.       *)
OwnSlice ==
    \A i \in Streams : sent[i] \cup ToSet(queue[i]) \subseteq Topics \X SliceSymbols(i)

-----------------------------------------------------------------------------
(* Slices.                                                                  *)

(* A position is in one slice.                                              *)
LEMMA SliceIsUnique ==
    ASSUME NEW i \in Streams, NEW j \in Streams, NEW k \in Nat, InSlice(i, k), InSlice(j, k)
    PROVE  i = j
<1>1. SliceSize \in Nat /\ i \in Nat \ {0} /\ j \in Nat \ {0}
  BY SliceAssumption DEF Streams, SliceAssumption
<1>2. ASSUME NEW a \in Nat \ {0}, NEW b \in Nat \ {0}, a < b, InSlice(a, k), InSlice(b, k)
      PROVE  FALSE
  <2>1. b - 1 \in Nat /\ a <= b - 1
    BY <1>2
  <2>2. a * SliceSize <= (b - 1) * SliceSize
    BY <1>1, <2>1, MulMono
  <2>3. PICK x \in Nat, y \in Nat : x = a * SliceSize /\ y = (b - 1) * SliceSize
    BY <1>1, <2>1
  <2>4. k <= x /\ y < k /\ x <= y
    BY <1>2, <2>2, <2>3 DEF InSlice
  <2> QED BY <2>3, <2>4
<1>3. ~(i < j) /\ ~(j < i)
  BY <1>1, <1>2
<1> QED BY <1>1, <1>3

(* The symbols of slice i of a list.                                        *)
SymbolsOf(list, i) == {list[k] : k \in {n \in DOMAIN list : InSlice(i, n)}}

LEMMA SlicesAreDisjoint ==
    ASSUME NEW list \in Seq(Symbols), IsInjective(list), NEW i \in Streams, NEW j \in Streams,
           i # j
    PROVE  SymbolsOf(list, i) \cap SymbolsOf(list, j) = {}
<1> SUFFICES ASSUME NEW s, s \in SymbolsOf(list, i), s \in SymbolsOf(list, j)
             PROVE  FALSE
  OBVIOUS
<1>1. PICK k \in DOMAIN list : InSlice(i, k) /\ list[k] = s
  BY DEF SymbolsOf
<1>2. PICK n \in DOMAIN list : InSlice(j, n) /\ list[n] = s
  BY DEF SymbolsOf
<1>3. k = n
  BY <1>1, <1>2 DEF IsInjective
<1>4. k \in Nat
  OBVIOUS
<1> QED BY <1>1, <1>2, <1>3, <1>4, SliceIsUnique

(* A slice has as many positions as its size.                               *)
LEMMA SliceIsLimited ==
    ASSUME symbols \in Seq(Symbols), NEW i \in Streams
    PROVE  IsFiniteSet(SliceSymbols(i)) /\ Cardinality(SliceSymbols(i)) <= SliceSize
<1> DEFINE P == {n \in DOMAIN symbols : InSlice(i, n)}
           f == [n \in P |-> symbols[n]]
<1>1. PICK a \in Nat, b \in Nat : a = (i - 1) * SliceSize /\ b = i * SliceSize
  BY SliceBounds
<1>2. SliceSize \in Nat \ {0} /\ b = a + SliceSize
  <2>1. i \in Nat /\ SliceSize \in Nat \ {0}
    BY SliceAssumption DEF SliceAssumption, Streams
  <2>2. i * SliceSize = (i - 1) * SliceSize + SliceSize
    BY <2>1
  <2> QED BY <1>1, <2>1, <2>2
<1>3. P \in SUBSET ((a + 1)..b)
  <2>1. \A n \in P : n \in Nat /\ a < n /\ n <= b
    BY <1>1 DEF InSlice
  <2> QED BY <1>1, <2>1
<1>4. IsFiniteSet((a + 1)..b) /\ Cardinality((a + 1)..b) = SliceSize
  <2>1. a + 1 \in Int /\ b \in Int /\ ~(a + 1 > b) /\ b - (a + 1) + 1 = SliceSize
    BY <1>1, <1>2
  <2> QED BY <2>1, FS_Interval
<1>5. IsFiniteSet(P) /\ Cardinality(P) <= SliceSize
  BY <1>3, <1>4, FS_Subset
<1>6. f \in Surjection(P, SliceSymbols(i))
  BY DEF Surjection, SliceSymbols
<1>7. /\ IsFiniteSet(SliceSymbols(i)) /\ Cardinality(SliceSymbols(i)) <= Cardinality(P)
  BY <1>5, <1>6, FS_Surjection
<1>8. Cardinality(P) \in Nat /\ Cardinality(SliceSymbols(i)) \in Nat
  BY <1>5, <1>7, FS_CardinalityType
<1> QED BY <1>2, <1>5, <1>7, <1>8

-----------------------------------------------------------------------------
(* Subscriptions.                                                           *)

(* subscribe(start_from) is about the slice of the stream.                  *)
LEMMA SubscriptionsAreOfSlice ==
    ASSUME NEW i \in Streams, NEW list \in Seq(Symbols), NEW from \in 0..Len(list)
    PROVE  ToSet(Subscriptions(Slice(list, i, from)))
             \subseteq Topics \X SymbolsOf(list, i)
<1> DEFINE b == SliceBegin(i, from)
           e == SliceEnd(list, i)
           sl == Slice(list, i, from)
           S == SymbolsOf(list, i)
<1>1. /\ b \in Int /\ e \in Int
      /\ \A k \in b..e : k \in DOMAIN list /\ InSlice(i, k)
  BY SlicePositions
<1>2. /\ sl \in Seq(Symbols)
      /\ Len(sl) = IF b <= e THEN e - b + 1 ELSE 0
      /\ \A k \in 1..(e - b + 1) : sl[k] = list[b + k - 1]
  <2>1. \A k \in b..e : list[k] \in Symbols
    BY <1>1
  <2> QED BY <1>1, <2>1, SubSeqProperties DEF Slice
<1>3. \A k \in DOMAIN sl : sl[k] \in S
  <2> SUFFICES ASSUME NEW k \in DOMAIN sl PROVE sl[k] \in S
    OBVIOUS
  <2> HIDE DEF sl, b, e
  <2>1. Len(sl) \in Nat /\ DOMAIN sl = 1..Len(sl)
    BY <1>2
  <2>2. b <= e /\ k \in 1..(e - b + 1)
    BY <1>1, <1>2, <2>1
  <2>3. b + k - 1 \in b..e
    BY <1>1, <2>2
  <2>4. sl[k] = list[b + k - 1]
    BY <1>2, <2>2
  <2> QED BY <1>1, <2>3, <2>4 DEF SymbolsOf
<1> HIDE DEF sl, b, e, S
<1>4. ASSUME NEW t \in Topics
      PROVE  /\ SubscribeTopic(t, sl) \in Seq(Messages)
             /\ ToSet(SubscribeTopic(t, sl)) \subseteq Topics \X S
  <2>1. \A k \in DOMAIN sl : Message(t, sl[k]) \in Messages
    BY <1>2 DEF Messages
  <2>2. SubscribeTopic(t, sl) \in [1..Len(sl) -> Messages] /\ Len(sl) \in Nat
    BY <1>2, <2>1 DEF SubscribeTopic
  <2>3. \A k \in DOMAIN sl : Message(t, sl[k]) \in Topics \X S
    BY <1>3 DEF Message
  <2>4. ToSet(SubscribeTopic(t, sl)) \subseteq Topics \X S
    BY <2>3 DEF ToSet, SubscribeTopic
  <2> QED BY <2>2, <2>4
<1>5. TopOfBook \in Topics /\ "trade" \in Topics /\ (EnableMbp => "obu increment" \in Topics)
  BY DEF Topics
<1> DEFINE x == SubscribeTopic(TopOfBook, sl)
           y == SubscribeTopic("trade", sl)
           z == IF EnableMbp THEN SubscribeTopic("obu increment", sl) ELSE <<>>
<1>6. /\ x \in Seq(Messages) /\ ToSet(x) \subseteq Topics \X S
      /\ y \in Seq(Messages) /\ ToSet(y) \subseteq Topics \X S
  BY <1>4, <1>5
<1>7. z \in Seq(Messages) /\ ToSet(z) \subseteq Topics \X S
  <2>1. <<>> \in Seq(Messages) /\ ToSet(<<>>) = {}
    BY DEF ToSet
  <2> QED BY <1>4, <1>5, <2>1
<1>8. Subscriptions(sl) = (x \o y) \o z
  BY DEF Subscriptions
<1> HIDE DEF x, y, z
<1> DEFINE xy == x \o y
<1>9. xy \in Seq(Messages) /\ ToSet(xy) = ToSet(x) \cup ToSet(y)
  BY <1>6, ConcatTwo, ToSetConcat
<1>12. Subscriptions(sl) = xy \o z
  BY <1>8
<1> HIDE DEF xy
<1>10. ToSet(xy \o z) = ToSet(xy) \cup ToSet(z)
  BY <1>7, <1>9, ToSetConcat
<1>11. ToSet(Subscriptions(sl)) \subseteq Topics \X S
  BY <1>6, <1>7, <1>9, <1>10, <1>12
<1> QED BY <1>11 DEF sl, S

LEMMA SubscribeAdds ==
    ASSUME MarketDataTypeOK, NEW list \in Seq(Symbols), NEW from \in 0..Len(list),
           NEW S \in SUBSET Streams, Subscribe(list, from, S), NEW i \in Streams
    PROVE  ToSet(queue'[i]) \subseteq ToSet(queue[i]) \cup (Topics \X SymbolsOf(list, i))
<1>1. CASE i \in S
  <2>1. queue[i] \in Seq(Messages) /\ Subscriptions(Slice(list, i, from)) \in Seq(Messages)
    BY SubscriptionsLemma DEF MarketDataTypeOK
  <2>2. queue'[i] = queue[i] \o Subscriptions(Slice(list, i, from))
    BY <1>1 DEF Subscribe
  <2>3. ToSet(queue'[i]) = ToSet(queue[i]) \cup ToSet(Subscriptions(Slice(list, i, from)))
    BY <2>1, <2>2, ToSetConcat
  <2> QED BY <2>3, SubscriptionsAreOfSlice
<1>2. CASE i \notin S
  BY <1>2 DEF Subscribe
<1> QED BY <1>1, <1>2

(* The list grows at its end, so a symbol keeps its slice.                  *)
LEMMA SlicesGrow ==
    ASSUME SymbolsTypeOK, SymbolsAreDistinct, NEW listed \in SUBSET Symbols, Add(listed),
           NEW i \in Streams
    PROVE  SliceSymbols(i) \subseteq SliceSymbols(i)'
<1>1. \A k \in DOMAIN symbols : k \in DOMAIN symbols' /\ symbols'[k] = symbols[k]
  BY AddLemma
<1> QED BY <1>1 DEF SliceSymbols, InSlice

LEMMA SuffixLemma ==
    ASSUME NEW S, NEW q \in Seq(S), NEW m \in 0..Len(q)
    PROVE  ToSet(SubSeq(q, m + 1, Len(q))) \cup {q[k] : k \in 1..m} \subseteq ToSet(q)
<1> DEFINE r == SubSeq(q, m + 1, Len(q))
<1>1. Len(q) \in Nat /\ m \in Int /\ DOMAIN q = 1..Len(q)
  OBVIOUS
<1>2. m + 1 \in Int /\ Len(q) \in Int /\ \A k \in (m + 1)..Len(q) : q[k] \in S
  BY <1>1
<1>3. /\ r \in Seq(S)
      /\ Len(r) = IF m + 1 <= Len(q) THEN Len(q) - (m + 1) + 1 ELSE 0
      /\ \A k \in 1..(Len(q) - (m + 1) + 1) : r[k] = q[m + 1 + k - 1]
  BY <1>2, SubSeqProperties
<1> HIDE DEF r
<1>4. \A k \in DOMAIN r : k \in 1..(Len(q) - (m + 1) + 1) /\ m + 1 + k - 1 \in DOMAIN q
  <2> DEFINE n == Len(q)
             l == Len(r)
  <2>1. DOMAIN r = 1..l /\ l = IF m + 1 <= n THEN n - (m + 1) + 1 ELSE 0
    BY <1>3
  <2>2. n \in Nat /\ m \in Int /\ 0 <= m /\ DOMAIN q = 1..n
    BY <1>1
  <2> HIDE DEF n, l
  <2>3. CASE m + 1 <= n
    BY <2>1, <2>2, <2>3 DEF n
  <2>4. CASE ~(m + 1 <= n)
    BY <2>1, <2>2, <2>4
  <2> QED BY <2>3, <2>4
<1>5. ToSet(r) \subseteq ToSet(q)
  BY <1>3, <1>4 DEF ToSet
<1>6. {q[k] : k \in 1..m} \subseteq ToSet(q)
  BY <1>1 DEF ToSet
<1> QED BY <1>5, <1>6 DEF r

-----------------------------------------------------------------------------
(* What a step does to the slices, to what was sent and to the queues.      *)
Kept(i) == SliceSymbols(i) \subseteq SliceSymbols(i)'

FromSlice(i) ==
    sent'[i] \cup ToSet(queue'[i])
        \subseteq sent[i] \cup ToSet(queue[i]) \cup (Topics \X SliceSymbols(i)')

GrowsOrLost(i) == sent[i] \subseteq sent'[i] \/ sent'[i] = {}

LEMMA UpdateMoves ==
    ASSUME IInv, NEW listed \in SUBSET Symbols, Add(listed), SymbolsUpdate, NEW i \in Streams
    PROVE  Kept(i) /\ FromSlice(i) /\ GrowsOrLost(i)
<1>1. SymbolsTypeOK /\ SymbolsAreDistinct /\ MarketDataTypeOK
  BY DEF IInv, TypeOK
<1>2. symbols' \in Seq(Symbols) /\ Len(symbols) \in 0..Len(symbols')
  BY <1>1, AddLemma DEF SymbolsTypeOK
<1>3. /\ Subscribe(symbols', Len(symbols), {j \in Streams : Ready(j)})
      /\ sent' = sent
  BY DEF SymbolsUpdate
<1>4. ToSet(queue'[i]) \subseteq ToSet(queue[i]) \cup (Topics \X SymbolsOf(symbols', i))
  BY <1>1, <1>2, <1>3, SubscribeAdds
<1>5. SliceSymbols(i)' = SymbolsOf(symbols', i)
  BY DEF SliceSymbols, SymbolsOf, InSlice
<1> QED BY <1>1, <1>3, <1>4, <1>5, SlicesGrow DEF Kept, FromSlice, GrowsOrLost

LEMMA WelcomeMoves ==
    ASSUME IInv, NEW j \in Streams, WsWelcome(j), NEW i \in Streams
    PROVE  Kept(i) /\ FromSlice(i) /\ GrowsOrLost(i)
<1>1. symbols \in Seq(Symbols) /\ MarketDataTypeOK /\ 0 \in 0..Len(symbols)
  BY DEF IInv, TypeOK, SymbolsTypeOK
<1>2. Subscribe(symbols, 0, {j}) /\ sent' = sent /\ symbols' = symbols
  BY DEF WsWelcome, Ws, Welcome, symbolVars
<1>3. ToSet(queue'[i]) \subseteq ToSet(queue[i]) \cup (Topics \X SliceSymbols(i))
  BY <1>1, <1>2, SubscribeAdds DEF SliceSymbols, SymbolsOf
<1>4. SliceSymbols(i)' = SliceSymbols(i)
  BY <1>2 DEF SliceSymbols, InSlice
<1> QED BY <1>2, <1>3, <1>4 DEF Kept, FromSlice, GrowsOrLost

LEMMA TimerMoves ==
    ASSUME IInv, Timer, NEW i \in Streams
    PROVE  Kept(i) /\ FromSlice(i) /\ GrowsOrLost(i)
<1>1. PICK stop \in Streams, expired \in SUBSET Streams :
        \E n \in 0..Len(queue[stop]) : Ws(StreamsTimer(stop, n, expired))
  BY DEF Timer
<1>2. PICK n \in 0..Len(queue[stop]) : Ws(StreamsTimer(stop, n, expired))
  BY <1>1
<1> DEFINE q == queue[i]
           m == Sends(i, stop, n)
<1>3. /\ queue'[i] = SubSeq(q, m + 1, Len(q))
      /\ sent'[i] = sent[i] \cup {q[k] : k \in 1..m}
      /\ symbols' = symbols
  BY <1>2 DEF Ws, StreamsTimer, symbolVars
<1>4. q \in Seq(Messages) /\ m \in 0..Len(q)
  <2>1. MarketDataTypeOK
    BY DEF IInv, TypeOK
  <2> QED BY <2>1, SendsLemma DEF MarketDataTypeOK
<1>5. SliceSymbols(i)' = SliceSymbols(i)
  BY <1>3 DEF SliceSymbols, InSlice
<1> HIDE DEF q, m
<1>6. ToSet(queue'[i]) \cup {q[k] : k \in 1..m} \subseteq ToSet(q)
  BY <1>3, <1>4, SuffixLemma
<1>7. FromSlice(i)
  BY <1>3, <1>6 DEF FromSlice, q
<1>8. Kept(i) /\ GrowsOrLost(i)
  BY <1>3, <1>5 DEF Kept, GrowsOrLost
<1> QED BY <1>7, <1>8

LEMMA StreamMoves ==
    ASSUME IInv, [Next]_vars, NEW i \in Streams
    PROVE  Kept(i) /\ FromSlice(i) /\ GrowsOrLost(i)
<1>1. ASSUME symbols' = symbols, queue' = queue, sent'[i] \in {sent[i], {}}
      PROVE  Kept(i) /\ FromSlice(i) /\ GrowsOrLost(i)
  <2>1. SliceSymbols(i)' = SliceSymbols(i)
    BY <1>1 DEF SliceSymbols, InSlice
  <2>2. FromSlice(i)
    BY <1>1 DEF FromSlice
  <2>3. GrowsOrLost(i)
    BY <1>1 DEF GrowsOrLost
  <2> QED BY <2>1, <2>2, <2>3 DEF Kept
<1>2. CASE RestConnect \/ RestDisconnect \/ RestRetry \/ RestErrorAck \/ RestSkippedAck \/ RestCurrenciesAck
  BY <1>1, <1>2
  DEF RestConnect, RestDisconnect, RestRetry, RestErrorAck, RestSkippedAck, RestCurrenciesAck,
      Rest, symbolVars, wsVars
<1>3. CASE RestInstrumentAck
  <2>1. PICK listed \in SUBSET Symbols : Add(listed)
    BY <1>3, FeedAssumption DEF RestInstrumentAck, FeedAssumption
  <2> QED BY <1>3, <2>1, UpdateMoves DEF RestInstrumentAck
<1>4. CASE ClientSubscribe
  BY <1>4, UpdateMoves DEF ClientSubscribe
<1>5. ASSUME NEW j \in Streams, WsConnect(j) \/ WsReady(j) \/ WsDisconnect(j)
      PROVE  Kept(i) /\ FromSlice(i) /\ GrowsOrLost(i)
  <2>1. symbols' = symbols /\ queue' = queue
    BY <1>5
    DEF WsConnect, WsReady, WsDisconnect, Ws, symbolVars, SocketConnected, SocketReady,
        SocketDisconnected
  <2>2. sent'[i] \in {sent[i], {}}
    <3>1. sent \in [Streams -> SUBSET Messages]
      BY DEF IInv, TypeOK, MarketDataTypeOK
    <3>2. sent' = sent \/ sent' = [sent EXCEPT ![j] = {}]
      BY <1>5
      DEF WsConnect, WsReady, WsDisconnect, Ws, SocketConnected, SocketReady, SocketDisconnected
    <3> QED BY <3>1, <3>2
  <2> QED BY <1>1, <2>1, <2>2
<1>6. ASSUME NEW j \in Streams, WsWelcome(j)
      PROVE  Kept(i) /\ FromSlice(i) /\ GrowsOrLost(i)
  BY <1>6, WelcomeMoves
<1>7. CASE Timer
  BY <1>7, TimerMoves
<1>8. CASE UNCHANGED vars
  BY <1>1, <1>8 DEF vars, symbolVars, wsVars
<1> QED BY <1>2, <1>3, <1>4, <1>5, <1>6, <1>7, <1>8 DEF Next

-----------------------------------------------------------------------------
LEMMA InitOwnSlice == Init => OwnSlice
BY DEF Init, MarketDataInit, OwnSlice, ToSet

LEMMA NextKeepsOwnSlice == IInv /\ OwnSlice /\ [Next]_vars => OwnSlice'
<1> SUFFICES ASSUME IInv, OwnSlice, [Next]_vars, NEW i \in Streams
             PROVE  sent'[i] \cup ToSet(queue'[i]) \subseteq Topics \X SliceSymbols(i)'
  BY DEF OwnSlice, Topics, TopOfBook
<1>1. Kept(i) /\ FromSlice(i)
  BY StreamMoves
<1>2. sent[i] \cup ToSet(queue[i]) \subseteq Topics \X SliceSymbols(i)
  BY DEF OwnSlice
<1> QED BY <1>1, <1>2 DEF Kept, FromSlice

(* What a stream sends is about its own slice, session after session        *)
(* (market_data.cpp:174-178,188-197,452-510).                               *)
THEOREM StreamsKeepToTheirSlice == Spec => []OwnSlice
BY InitOwnSlice, NextKeepsOwnSlice, Invariance, PTL DEF Spec

(* A stream carries no more symbols than max_subscriptions_per_stream, the  *)
(* leftovers of its queue included (controller.cpp:246-256,                 *)
(* market_data.cpp:188-197).                                                *)
THEOREM StreamsAreLimited == Spec => []SubscriptionLimit
<1>1. IInv /\ OwnSlice => SubscriptionLimit
  <2> SUFFICES ASSUME IInv, OwnSlice, NEW i \in Streams
               PROVE  Cardinality({m[2] : m \in sent[i]}) <= SliceSize
    BY DEF SubscriptionLimit
  <2> DEFINE T == {m[2] : m \in sent[i]}
  <2>1. sent[i] \subseteq Topics \X SliceSymbols(i)
    BY DEF OwnSlice
  <2>2. T \subseteq SliceSymbols(i)
    BY <2>1
  <2>3. IsFiniteSet(SliceSymbols(i)) /\ Cardinality(SliceSymbols(i)) <= SliceSize
    BY SliceIsLimited DEF IInv, TypeOK, SymbolsTypeOK
  <2> HIDE DEF T
  <2>4. IsFiniteSet(T) /\ Cardinality(T) <= Cardinality(SliceSymbols(i))
    BY <2>2, <2>3, FS_Subset
  <2>5. Cardinality(T) \in Nat /\ Cardinality(SliceSymbols(i)) \in Nat /\ SliceSize \in Nat
    BY <2>3, <2>4, FS_CardinalityType, SliceAssumption DEF SliceAssumption
  <2>6. Cardinality(T) <= SliceSize
    BY <2>3, <2>4, <2>5
  <2> QED BY <2>6 DEF T
<1> QED BY <1>1, StreamsKeepToTheirSlice, Invariance, PTL

-----------------------------------------------------------------------------
(* PublicFeed implements StreamSubscriptions.                               *)

LEMMA SlicesAreAllotted ==
    ASSUME NEW list \in Seq(Symbols), IsInjective(list)
    PROVE  /\ [i \in Streams |-> Topics \X SymbolsOf(list, i)] \in [Streams -> SUBSET Messages]
           /\ \A i, j \in Streams : i # j =>
                (Topics \X SymbolsOf(list, i)) \cap (Topics \X SymbolsOf(list, j)) = {}
<1>1. ASSUME NEW i \in Streams
      PROVE  Topics \X SymbolsOf(list, i) \subseteq Messages
  BY DEF SymbolsOf, Messages, Message
<1>2. ASSUME NEW i \in Streams, NEW j \in Streams, i # j
      PROVE  (Topics \X SymbolsOf(list, i)) \cap (Topics \X SymbolsOf(list, j)) = {}
  BY <1>2, SlicesAreDisjoint
<1> QED BY <1>1, <1>2

LEMMA InitStreams == Init => SS!Init
<1> SUFFICES ASSUME Init PROVE SS!Init
  OBVIOUS
<1>1. /\ symbols \in Seq(Symbols) /\ IsInjective(symbols)
      /\ \A i \in Streams : SliceSymbols(i) = SymbolsOf(symbols, i)
  BY InitIInv DEF IInv, TypeOK, SymbolsTypeOK, SymbolsAreDistinct, SliceSymbols, SymbolsOf
<1>2. sent = [i \in Streams |-> {}]
  BY DEF Init, MarketDataInit
<1> QED BY <1>1, <1>2, SlicesAreAllotted DEF SS!Init, SS!Allotments, SS!Disjoint

LEMMA NextStreams ==
    ASSUME IInv, IInv', OwnSlice', [Next]_vars
    PROVE  [SS!Next]_<<[i \in Streams |-> Topics \X SliceSymbols(i)], sent>>
<1> DEFINE new == [i \in Streams |-> Topics \X SymbolsOf(symbols', i)]
<1> SUFFICES /\ new \in [Streams -> SUBSET Messages]
             /\ \A i, j \in Streams : i # j => new[i] \cap new[j] = {}
             /\ sent' \in [Streams -> SUBSET Messages]
             /\ \A i \in Streams :
                  /\ Topics \X SliceSymbols(i) \subseteq new[i]
                  /\ \/ sent[i] \subseteq sent'[i] /\ sent'[i] \subseteq new[i]
                     \/ sent'[i] = {}
  BY DEF SS!Next, SS!Allotments, SS!Disjoint, SS!Settled, SS!Subscribed, SS!Lost,
         SliceSymbols, SymbolsOf, InSlice, Topics, TopOfBook
<1>1. symbols' \in Seq(Symbols) /\ IsInjective(symbols') /\ sent' \in [Streams -> SUBSET Messages]
  <2>1. symbols' \in Seq(Symbols)
    BY DEF IInv, TypeOK, SymbolsTypeOK
  <2>2. IsInjective(symbols')
    BY DEF IInv, SymbolsAreDistinct, IsInjective
  <2>3. sent' \in [Streams -> SUBSET Messages]
    BY DEF IInv, TypeOK, MarketDataTypeOK
  <2> QED BY <2>1, <2>2, <2>3
<1>2. /\ new \in [Streams -> SUBSET Messages]
      /\ \A i, j \in Streams : i # j => new[i] \cap new[j] = {}
  BY <1>1, SlicesAreAllotted
<1>3. ASSUME NEW i \in Streams
      PROVE  /\ Topics \X SliceSymbols(i) \subseteq new[i]
             /\ \/ sent[i] \subseteq sent'[i] /\ sent'[i] \subseteq new[i]
                \/ sent'[i] = {}
  <2>1. SliceSymbols(i)' = SymbolsOf(symbols', i)
    BY DEF SliceSymbols, SymbolsOf, InSlice
  <2>2. Kept(i) /\ GrowsOrLost(i)
    BY StreamMoves
  <2>3. sent'[i] \subseteq Topics \X SliceSymbols(i)'
    BY DEF OwnSlice, Topics, TopOfBook
  <2> QED BY <2>1, <2>2, <2>3 DEF Kept, GrowsOrLost
<1> QED BY <1>1, <1>2, <1>3

(* The public streams implement StreamSubscriptions: a symbol has one       *)
(* stream and keeps it, whatever is named, lost and welcomed                *)
(* (controller.cpp:217-224, market_data.cpp:174-197,452-510).               *)
THEOREM SymbolsHaveOneHome == Spec => OneHomeEach
BY InitStreams, NextStreams, Invariance, StreamsKeepToTheirSlice, PTL
DEF Spec, OneHomeEach, SS!Spec

-----------------------------------------------------------------------------
(* The download of the instruments.                                         *)

LEMMA NextKeepsDownload == IInv /\ RestDownloadGoesOn /\ [Next]_vars => RestDownloadGoesOn'
<1> SUFFICES ASSUME IInv, RestDownloadGoesOn, [Next]_vars, Downloading'
             PROVE  current' \/ retrying'
  BY DEF RestDownloadGoesOn
<1>1. ASSUME NEW s \in RequestStates, Download(s) PROVE current'
  BY <1>1 DEF Download
<1>2. ASSUME UNCHANGED restVars PROVE current' \/ retrying'
  BY <1>2 DEF restVars, Downloading, RestDownloadGoesOn
<1>3. CASE RestConnect
  <2>1. \E s \in RequestStates : Download(s)
    BY <1>3 DEF RestConnect, Rest, RestConnected, Downloading, RequestStates
  <2> QED BY <1>1, <2>1
<1>4. CASE RestDisconnect
  <2>1. Downloading /\ current' = current /\ retrying' = retrying
    BY <1>4 DEF RestDisconnect, Rest, RestDisconnected, Downloading, RequestStates
  <2> QED BY <2>1 DEF RestDownloadGoesOn
<1>5. CASE RestRetry
  <2>1. \E s \in RequestStates : Download(s)
    BY <1>5 DEF RestRetry, Rest, DownloadRetry, Downloading
  <2> QED BY <1>1, <2>1
<1>6. CASE RestErrorAck
  <2>1. PICK s \in RequestStates : RestError(s)
    BY <1>6 DEF RestErrorAck, Rest
  <2>2. retrying' = (retrying \/ restDownload = s) /\ (LastCallback(s) \/ LateCallback(s))
        /\ restDownload' = restDownload
    BY <2>1 DEF RestError
  <2>3. CASE LastCallback(s)
    BY <2>2, <2>3 DEF LastCallback
  <2>4. CASE LateCallback(s)
    <3>1. current' = current /\ Downloading
      BY <2>2, <2>4 DEF LateCallback, Downloading
    <3> QED BY <2>2, <3>1 DEF RestDownloadGoesOn
  <2> QED BY <2>2, <2>3, <2>4
<1>7. CASE RestSkippedAck
  <2>1. Downloading /\ current' = current /\ retrying' = retrying
    BY <1>7 DEF RestSkippedAck, Rest, RestSkipped, LateCallback, Downloading
  <2> QED BY <2>1 DEF RestDownloadGoesOn
<1>8. CASE RestCurrenciesAck
  <2>1. current /\ current' = current
    BY <1>8 DEF RestCurrenciesAck, Rest, CurrenciesAck
  <2> QED BY <2>1
<1>9. CASE RestInstrumentAck
  <2>1. restDownload' = "DONE"
    BY <1>9 DEF RestInstrumentAck, InstrumentAck
  <2> QED BY <2>1 DEF Downloading, RequestStates
<1>10. CASE ClientSubscribe \/ Timer
  BY <1>2, <1>10 DEF ClientSubscribe, Timer, Ws
<1>11. ASSUME NEW i \in Streams, WsConnect(i) \/ WsReady(i) \/ WsDisconnect(i) \/ WsWelcome(i)
       PROVE  current' \/ retrying'
  BY <1>2, <1>11 DEF WsConnect, WsReady, WsDisconnect, WsWelcome, Ws
<1>12. CASE UNCHANGED vars
  BY <1>2, <1>12 DEF vars
<1> QED BY <1>3, <1>4, <1>5, <1>6, <1>7, <1>8, <1>9, <1>10, <1>11, <1>12 DEF Next

(* A download that is not finished has a request without callback or a      *)
(* retry to come (rest.cpp:153-169,184-206,229-240,283-303).                *)
THEOREM DownloadsGoOn == Spec => []RestDownloadGoesOn
<1>1. Init => RestDownloadGoesOn
  BY DEF Init, RestInit, RestDownloadGoesOn, Downloading, RequestStates
<1> QED BY <1>1, NextKeepsDownload, Invariance, PTL DEF Spec

(* The download of the instruments is READY only with both steps answered,  *)
(* and something of it is to come until then                                *)
(* (rest.cpp:153-169,184-206,229-240,281-303).                              *)
THEOREM DownloadIsSound == Spec => []RestDownloadIsSound
<1>1. RestReadyIsDownloaded /\ RestDownloadGoesOn => RestDownloadIsSound
  BY DEF RestDownloadIsSound
<1> QED BY <1>1, ReadyMeansDownloaded, DownloadsGoOn, PTL
=============================================================================
