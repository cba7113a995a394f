-------------------------- MODULE PublicFeed_proofs --------------------------
(***************************************************************************)
(* Proofs about PublicFeed for any set of symbols, any size of a slice and *)
(* any bounds on faults.                                                   *)
(***************************************************************************)
EXTENDS PublicFeed, FiniteSetTheorems, SequenceTheorems, TLAPS

(* Symbol s has a place of slice i past position from.                      *)
Placed(list, i, from, s) ==
    \E k \in DOMAIN list : k > from /\ InSlice(i, k) /\ list[k] = s

(* Every subscription of stream i to s is sent or queued.                   *)
Delivered(i, s) == \A t \in Topics : Message(t, s) \in sent[i] \cup ToSet(queue[i])

SessionInv ==
    \A i \in Streams :
        /\ logonTimeout[i] => socket[i] \in {"connected", "open"}
        /\ Ready(i) => socket[i] = "open"
        /\ ~Ready(i) => \A s \in Symbols : asked[i][s] = 0

DownloadInv ==
    /\ restStatus = "READY" => restDownload = "DONE"
    /\ restDownload = "INSTRUMENT" => "CURRENCIES" \in processed
    /\ restDownload = "DONE" => processed = RequestStates

(* The inductive invariant.                                                 *)
IInv ==
    /\ TypeOK /\ NoFault /\ SymbolsAreDistinct /\ SessionInv /\ DownloadInv
    /\ SubscribedOnce /\ NoSubscriptionIsLost

-----------------------------------------------------------------------------
(* Slices.                                                                  *)

LEMMA SliceBounds ==
    ASSUME NEW i \in Streams
    PROVE  (i - 1) * SliceSize \in Nat /\ i * SliceSize \in Nat
<1>1. i \in Nat /\ i >= 1 /\ SliceSize \in Nat
  BY SliceAssumption DEF Streams, SliceAssumption
<1>2. i - 1 \in Nat
  BY <1>1
<1> QED BY <1>1, <1>2

LEMMA SlicePositions ==
    ASSUME NEW i \in Streams, NEW list \in Seq(Symbols), NEW from \in 0..Len(list)
    PROVE  /\ SliceBegin(i, from) \in Nat \ {0} /\ SliceEnd(list, i) \in 0..Len(list)
           /\ \A k \in Int : k \in SliceBegin(i, from)..SliceEnd(list, i)
                <=> k \in DOMAIN list /\ k > from /\ InSlice(i, k)
<1>1. Len(list) \in Nat /\ DOMAIN list = 1..Len(list)
  OBVIOUS
<1>2. PICK a \in Nat, b \in Nat : a = (i - 1) * SliceSize /\ b = i * SliceSize
  BY SliceBounds
<1> QED BY <1>1, <1>2 DEF SliceBegin, SliceEnd, InSlice

(* In a list without duplicates a slice has a symbol once or not at all.    *)
LEMMA CountLemma ==
    ASSUME NEW i \in Streams, NEW list \in Seq(Symbols), NEW from \in 0..Len(list),
           IsInjective(list), NEW s
    PROVE  Cardinality({k \in SliceBegin(i, from)..SliceEnd(list, i) : list[k] = s})
             = IF Placed(list, i, from, s) THEN 1 ELSE 0
<1> DEFINE P == {k \in SliceBegin(i, from)..SliceEnd(list, i) : list[k] = s}
<1>1. \A k : k \in P <=> k \in DOMAIN list /\ k > from /\ InSlice(i, k) /\ list[k] = s
  <2>1. DOMAIN list \subseteq Int /\ SliceBegin(i, from)..SliceEnd(list, i) \subseteq Int
    BY SlicePositions
  <2> QED BY <2>1, SlicePositions
<1> HIDE DEF P
<1>2. CASE Placed(list, i, from, s)
  <2>1. PICK k : k \in P
    BY <1>1, <1>2 DEF Placed
  <2>2. P = {k}
    BY <1>1, <2>1 DEF IsInjective
  <2> QED BY <1>2, <2>2, FS_Singleton DEF P
<1>3. CASE ~Placed(list, i, from, s)
  <2>1. P = {}
    BY <1>1, <1>3 DEF Placed
  <2> QED BY <1>3, <2>1, FS_EmptySet DEF P
<1> QED BY <1>2, <1>3

LEMMA ConcatTwo ==
    ASSUME NEW S, NEW x \in Seq(S), NEW y \in Seq(S)
    PROVE  /\ x \o y \in Seq(S) /\ Len(x \o y) = Len(x) + Len(y)
           /\ \A k \in 1..Len(x) : (x \o y)[k] = x[k]
           /\ \A k \in 1..Len(y) : (x \o y)[Len(x) + k] = y[k]
BY ConcatProperties

LEMMA ConcatThree ==
    ASSUME NEW S, NEW x \in Seq(S), NEW y \in Seq(S), NEW z \in Seq(S),
           NEW xy, xy = x \o y, NEW q, q = xy \o z
    PROVE  /\ q \in Seq(S) /\ Len(q) = Len(x) + Len(y) + Len(z)
           /\ \A k \in 1..Len(x) : q[k] = x[k]
           /\ \A k \in 1..Len(y) : q[Len(x) + k] = y[k]
           /\ \A k \in 1..Len(z) : q[Len(x) + Len(y) + k] = z[k]
<1>1. /\ xy \in Seq(S) /\ Len(xy) = Len(x) + Len(y)
      /\ \A k \in 1..Len(x) : xy[k] = x[k]
      /\ \A k \in 1..Len(y) : xy[Len(x) + k] = y[k]
  BY ConcatTwo
<1>2. /\ q \in Seq(S) /\ Len(q) = Len(xy) + Len(z)
      /\ \A k \in 1..Len(xy) : q[k] = xy[k]
      /\ \A k \in 1..Len(z) : q[Len(xy) + k] = z[k]
  <2>1. xy \in Seq(S)
    BY <1>1
  <2> QED BY <2>1, ConcatTwo
<1>3. Len(x) \in Nat /\ Len(y) \in Nat /\ Len(z) \in Nat
  OBVIOUS
<1>4. \A k \in 1..Len(y) : Len(x) + k \in 1..Len(xy)
  BY <1>1, <1>3
<1>5. \A k \in 1..Len(x) : k \in 1..Len(xy)
  BY <1>1, <1>3
<1> QED BY <1>1, <1>2, <1>4, <1>5

(* What subscribe enqueues for a slice: messages, one for each topic and    *)
(* each symbol placed in it.                                                *)
LEMMA SubscriptionsLemma ==
    ASSUME NEW i \in Streams, NEW list \in Seq(Symbols), NEW from \in 0..Len(list)
    PROVE  /\ Subscriptions(Slice(list, i, from)) \in Seq(Messages)
           /\ \A s : Placed(list, i, from, s) =>
                \A t \in Topics : Message(t, s) \in ToSet(Subscriptions(Slice(list, i, from)))
<1> DEFINE b == SliceBegin(i, from)
           e == SliceEnd(list, i)
           sl == Slice(list, i, from)
<1>1. /\ b \in Int /\ e \in Int
      /\ \A k \in b..e : k \in DOMAIN list
  BY SlicePositions
<1>2. /\ sl \in Seq(Symbols)
      /\ Len(sl) = IF b <= e THEN e - b + 1 ELSE 0
      /\ \A k \in 1..(e - b + 1) : sl[k] = list[b + k - 1]
  <2>1. \A k \in b..e : list[k] \in Symbols
    BY <1>1
  <2> QED BY <1>1, <2>1, SubSeqProperties DEF Slice
<1> HIDE DEF sl
<1>3. \A s : Placed(list, i, from, s) => \E k \in DOMAIN sl : sl[k] = s
  <2> SUFFICES ASSUME NEW s, NEW k \in DOMAIN list, k > from, InSlice(i, k), list[k] = s
               PROVE  \E n \in DOMAIN sl : sl[n] = s
    BY DEF Placed
  <2>1. k \in Int /\ k \in b..e
    BY SlicePositions
  <2>2. k - b + 1 \in 1..(e - b + 1) /\ k - b + 1 \in DOMAIN sl
    BY <1>1, <1>2, <2>1
  <2>3. sl[k - b + 1] = list[k]
    <3> HIDE DEF b, e
    <3>1. b + (k - b + 1) - 1 = k
      BY <1>1, <2>1
    <3>2. sl[k - b + 1] = list[b + (k - b + 1) - 1]
      BY <1>2, <2>2
    <3> QED BY <3>1, <3>2
  <2> QED BY <2>2, <2>3
<1> HIDE DEF b, e
<1>4. ASSUME NEW t \in Topics
      PROVE  /\ SubscribeTopic(t, sl) \in Seq(Messages)
             /\ Len(SubscribeTopic(t, sl)) = Len(sl)
             /\ \A k \in DOMAIN sl : SubscribeTopic(t, sl)[k] = Message(t, sl[k])
  <2>1. \A k \in DOMAIN sl : Message(t, sl[k]) \in Messages
    BY <1>2 DEF Messages
  <2>2. SubscribeTopic(t, sl) \in [1..Len(sl) -> Messages] /\ Len(sl) \in Nat
    BY <1>2, <2>1 DEF SubscribeTopic
  <2> QED BY <1>2, <2>2 DEF SubscribeTopic
<1>5. TopOfBook \in Topics /\ "trade" \in Topics /\ (EnableMbp => "obu increment" \in Topics)
  BY DEF Topics
<1> DEFINE x == SubscribeTopic(TopOfBook, sl)
           y == SubscribeTopic("trade", sl)
           z == IF EnableMbp THEN SubscribeTopic("obu increment", sl) ELSE <<>>
           q == Subscriptions(sl)
           n == Len(sl)
           xy == x \o y
<1>6. /\ x \in Seq(Messages) /\ Len(x) = n
      /\ y \in Seq(Messages) /\ Len(y) = n
      /\ \A k \in DOMAIN sl : /\ x[k] = Message(TopOfBook, sl[k])
                              /\ y[k] = Message("trade", sl[k])
  BY <1>4, <1>5
<1>7. /\ z \in Seq(Messages)
      /\ EnableMbp => /\ Len(z) = n
                      /\ \A k \in DOMAIN sl : z[k] = Message("obu increment", sl[k])
  <2>1. <<>> \in Seq(Messages)
    OBVIOUS
  <2> QED BY <1>4, <1>5, <2>1
<1>10. q = xy \o z
  BY DEF Subscriptions
<1>12. xy = x \o y
  OBVIOUS
<1>13. n \in Nat /\ DOMAIN sl = 1..n
  BY <1>2
<1> HIDE DEF x, y, z, q, xy, n
<1>11. /\ q \in Seq(Messages) /\ Len(q) = n + n + Len(z)
       /\ \A k \in 1..n : q[k] = x[k] /\ q[n + k] = y[k]
       /\ \A k \in 1..Len(z) : q[n + n + k] = z[k]
  <2>1. x \in Seq(Messages) /\ y \in Seq(Messages) /\ z \in Seq(Messages)
    BY <1>6, <1>7
  <2>2. /\ q \in Seq(Messages) /\ Len(q) = Len(x) + Len(y) + Len(z)
        /\ \A k \in 1..Len(x) : q[k] = x[k]
        /\ \A k \in 1..Len(y) : q[Len(x) + k] = y[k]
        /\ \A k \in 1..Len(z) : q[Len(x) + Len(y) + k] = z[k]
    BY <2>1, <1>10, <1>12, ConcatThree
  <2>3. Len(x) = n /\ Len(y) = n
    BY <1>6 DEF n
  <2> QED BY <2>2, <2>3
<1>14. Len(z) \in Nat /\ DOMAIN q = 1..(n + n + Len(z))
  <2>3. z \in Seq(Messages)
    BY <1>7
  <2>1. Len(z) \in Nat
    BY <2>3
  <2>2. DOMAIN q = 1..Len(q)
    BY <1>11
  <2> QED BY <2>1, <2>2, <1>11
<1>8. ASSUME NEW s, Placed(list, i, from, s), NEW t \in Topics
      PROVE  Message(t, s) \in ToSet(q)
  <2>1. PICK k \in DOMAIN sl : sl[k] = s
    BY <1>3, <1>8
  <2>2. k \in 1..n
    BY <1>13, <2>1
  <2>3. CASE t = TopOfBook
    <3>1. k \in DOMAIN q /\ q[k] = Message(t, s)
      BY <1>6, <1>11, <1>13, <1>14, <2>1, <2>2, <2>3
    <3> QED BY <3>1 DEF ToSet
  <2>4. CASE t = "trade"
    <3>1. n + k \in DOMAIN q /\ q[n + k] = Message(t, s)
      BY <1>6, <1>11, <1>13, <1>14, <2>1, <2>2, <2>4
    <3> QED BY <3>1 DEF ToSet
  <2>5. CASE EnableMbp /\ t = "obu increment"
    <3>2. Len(z) = n /\ z[k] = Message(t, s)
      BY <1>7, <2>1, <2>5 DEF n
    <3>1. n + n + k \in DOMAIN q /\ q[n + n + k] = Message(t, s)
      BY <1>11, <1>13, <1>14, <2>2, <3>2
    <3> QED BY <3>1 DEF ToSet
  <2> QED BY <2>3, <2>4, <2>5 DEF Topics
<1> QED BY <1>8, <1>11 DEF sl, q

-----------------------------------------------------------------------------
(* Symbols.                                                                 *)

LEMMA ToSetConcat ==
    ASSUME NEW S, NEW x \in Seq(S), NEW y \in Seq(S)
    PROVE  ToSet(x \o y) = ToSet(x) \cup ToSet(y)
<1> DEFINE q == x \o y
<1>1. /\ q \in Seq(S) /\ Len(q) = Len(x) + Len(y)
      /\ \A k \in 1..Len(x) : q[k] = x[k]
      /\ \A k \in 1..Len(y) : q[Len(x) + k] = y[k]
  BY ConcatTwo
<1>2. /\ Len(x) \in Nat /\ Len(y) \in Nat
      /\ DOMAIN x = 1..Len(x) /\ DOMAIN y = 1..Len(y) /\ DOMAIN q = 1..(Len(x) + Len(y))
  BY <1>1
<1> HIDE DEF q
<1>3. \A k \in DOMAIN x : k \in DOMAIN q
  BY <1>2
<1>4. \A k \in DOMAIN y : Len(x) + k \in DOMAIN q
  BY <1>2
<1>5. \A k \in DOMAIN q : k \in DOMAIN x \/ (k - Len(x) \in DOMAIN y /\ k = Len(x) + (k - Len(x)))
  BY <1>2
<1>6. \A e \in ToSet(q) : e \in ToSet(x) \cup ToSet(y)
  BY <1>1, <1>2, <1>5 DEF ToSet
<1>7. \A e \in ToSet(x) \cup ToSet(y) : e \in ToSet(q)
  BY <1>1, <1>2, <1>3, <1>4 DEF ToSet
<1> QED BY <1>6, <1>7 DEF q

(* The orderings of a finite set.                                           *)
LEMMA SeqsLemma ==
    ASSUME NEW S, IsFiniteSet(S), NEW f \in SetToSeqs(S)
    PROVE  f \in Seq(S) /\ IsInjective(f) /\ ToSet(f) = S
<1> DEFINE n == Cardinality(S)
<1>1. n \in Nat
  BY FS_CardinalityType
<1>2. f \in [1..n -> S] /\ \A i, j \in 1..n : i # j => f[i] # f[j]
  BY DEF SetToSeqs
<1>3. f \in Seq(S) /\ DOMAIN f = 1..n
  BY <1>1, <1>2
<1>4. f \in Injection(1..n, S)
  BY <1>2 DEF Injection, IsInjective
<1>5. Cardinality(1..n) = n
  BY <1>1, FS_Interval
<1>6. f \in Surjection(1..n, S)
  BY <1>4, <1>5, FS_Injection
<1> QED BY <1>2, <1>3, <1>6 DEF Surjection, IsInjective, ToSet

LEMMA AddLemma ==
    ASSUME SymbolsTypeOK, SymbolsAreDistinct, NEW listed \in SUBSET Symbols, Add(listed)
    PROVE  /\ SymbolsTypeOK' /\ SymbolsAreDistinct'
           /\ Len(symbols) \in 0..Len(symbols')
           /\ \A k \in DOMAIN symbols : k \in DOMAIN symbols' /\ symbols'[k] = symbols[k]
<1> DEFINE S == listed \ all_symbols
<1>1. PICK new \in SetToSeqs(S) : symbols' = symbols \o new /\ all_symbols' = all_symbols \cup listed
  BY DEF Add
<1>2. IsFiniteSet(S)
  BY SliceAssumption, FS_Subset DEF SliceAssumption
<1>3. new \in Seq(S) /\ IsInjective(new) /\ ToSet(new) = S
  BY <1>2, SeqsLemma
<1>4. symbols \in Seq(Symbols) /\ new \in Seq(Symbols)
  BY <1>3, SeqMonotonic DEF SymbolsTypeOK
<1>5. /\ symbols' \in Seq(Symbols) /\ Len(symbols') = Len(symbols) + Len(new)
      /\ \A k \in 1..Len(symbols) : symbols'[k] = symbols[k]
      /\ \A k \in 1..Len(new) : symbols'[Len(symbols) + k] = new[k]
  BY <1>1, <1>4, ConcatTwo
<1>6. /\ Len(symbols) \in Nat /\ Len(new) \in Nat
      /\ DOMAIN symbols = 1..Len(symbols) /\ DOMAIN new = 1..Len(new)
      /\ DOMAIN symbols' = 1..(Len(symbols) + Len(new))
  BY <1>4, <1>5
<1>7. ToSet(symbols') = all_symbols'
  <2>1. ToSet(symbols') = ToSet(symbols) \cup ToSet(new)
    BY <1>1, <1>4, ToSetConcat
  <2> QED BY <1>1, <1>3, <2>1 DEF SymbolsAreDistinct
<1>8. \A k \in DOMAIN symbols' :
        \/ k \in DOMAIN symbols /\ symbols'[k] = symbols[k] /\ symbols'[k] \in all_symbols
        \/ /\ k - Len(symbols) \in DOMAIN new /\ symbols'[k] = new[k - Len(symbols)]
           /\ symbols'[k] \notin all_symbols
  <2> SUFFICES ASSUME NEW k \in DOMAIN symbols', k \notin DOMAIN symbols
               PROVE  /\ k - Len(symbols) \in DOMAIN new /\ symbols'[k] = new[k - Len(symbols)]
                      /\ symbols'[k] \notin all_symbols
    BY <1>5, <1>6 DEF SymbolsAreDistinct, ToSet
  <2>1. k - Len(symbols) \in DOMAIN new /\ k = Len(symbols) + (k - Len(symbols))
    BY <1>6
  <2>2. symbols'[k] = new[k - Len(symbols)]
    BY <1>5, <1>6, <2>1
  <2> QED BY <1>3, <2>1, <2>2 DEF ToSet
<1>9. IsInjective(symbols')
  <2> SUFFICES ASSUME NEW a \in DOMAIN symbols', NEW b \in DOMAIN symbols', symbols'[a] = symbols'[b]
               PROVE  a = b
    BY DEF IsInjective
  <2>1. a \in Int /\ b \in Int
    BY <1>6
  <2>2. CASE a \in DOMAIN symbols
    <3>1. symbols'[a] = symbols[a] /\ symbols[a] \in all_symbols
      BY <1>6, <1>5, <2>2 DEF SymbolsAreDistinct, ToSet
    <3>2. b \in DOMAIN symbols /\ symbols'[b] = symbols[b]
      BY <1>8, <3>1
    <3> QED BY <2>2, <3>1, <3>2 DEF SymbolsAreDistinct, IsInjective
  <2>3. CASE a \notin DOMAIN symbols
    <3>1. a - Len(symbols) = b - Len(symbols)
      BY <1>3, <1>8, <2>3 DEF IsInjective
    <3> QED BY <1>6, <2>1, <3>1
  <2> QED BY <2>2, <2>3
<1>10. all_symbols' \in SUBSET Symbols
  BY <1>1 DEF SymbolsTypeOK
<1> QED BY <1>5, <1>6, <1>7, <1>9, <1>10 DEF SymbolsTypeOK, SymbolsAreDistinct

-----------------------------------------------------------------------------
(* What Subscribe does to the queues and to the history.                    *)
LEMMA SubscribeLemma ==
    ASSUME MarketDataTypeOK, NEW list \in Seq(Symbols), IsInjective(list),
           NEW from \in 0..Len(list), NEW S \in SUBSET Streams, Subscribe(list, from, S)
    PROVE  /\ queue' \in [Streams -> Seq(Messages)]
           /\ asked' \in [Streams -> [Symbols -> Nat]]
           /\ \A i \in Streams \ S : queue'[i] = queue[i] /\ asked'[i] = asked[i]
           /\ \A i \in S : \A s \in Symbols :
                asked'[i][s] = asked[i][s] + (IF Placed(list, i, from, s) THEN 1 ELSE 0)
           /\ \A i \in S : ToSet(queue[i]) \subseteq ToSet(queue'[i])
           /\ \A i \in S : \A s : Placed(list, i, from, s) =>
                \A t \in Topics : Message(t, s) \in ToSet(queue'[i])
<1>1. \A i \in Streams : queue'[i] = IF i \in S THEN queue[i] \o Subscriptions(Slice(list, i, from))
                                     ELSE queue[i]
  BY DEF Subscribe
<1>2. \A i \in Streams : asked'[i] = IF i \in S THEN AskedAgain(i, list, from) ELSE asked[i]
  BY DEF Subscribe
<1>3. ASSUME NEW i \in S
      PROVE  /\ queue'[i] \in Seq(Messages)
             /\ ToSet(queue'[i]) = ToSet(queue[i]) \cup ToSet(Subscriptions(Slice(list, i, from)))
  <2>1. queue[i] \in Seq(Messages) /\ Subscriptions(Slice(list, i, from)) \in Seq(Messages)
    BY SubscriptionsLemma DEF MarketDataTypeOK
  <2>2. queue'[i] = queue[i] \o Subscriptions(Slice(list, i, from))
    BY <1>1
  <2> QED BY <2>1, <2>2, ConcatTwo, ToSetConcat
<1>4. ASSUME NEW i \in S, NEW s \in Symbols
      PROVE  asked'[i][s] = asked[i][s] + (IF Placed(list, i, from, s) THEN 1 ELSE 0)
  <2>1. asked'[i][s] = asked[i][s]
            + Cardinality({k \in SliceBegin(i, from)..SliceEnd(list, i) : list[k] = s})
    BY <1>2 DEF AskedAgain
  <2> QED BY <2>1, CountLemma
<1>5. queue' \in [Streams -> Seq(Messages)]
  <2>1. \A i \in Streams : queue'[i] \in Seq(Messages)
    BY <1>1, <1>3 DEF MarketDataTypeOK
  <2> QED BY <2>1 DEF Subscribe
<1>6. asked' \in [Streams -> [Symbols -> Nat]]
  <2>1. ASSUME NEW i \in S PROVE asked'[i] \in [Symbols -> Nat]
    <3>1. asked'[i] = AskedAgain(i, list, from)
      BY <1>2
    <3>2. asked[i] \in [Symbols -> Nat]
      BY DEF MarketDataTypeOK
    <3>3. \A s \in Symbols : asked'[i][s] \in Nat
      BY <1>4, <3>2
    <3> QED BY <3>1, <3>3 DEF AskedAgain
  <2>2. \A i \in Streams : asked'[i] \in [Symbols -> Nat]
    BY <1>2, <2>1 DEF MarketDataTypeOK
  <2> QED BY <2>2 DEF Subscribe
<1>7. \A i \in S : \A s : Placed(list, i, from, s) =>
        \A t \in Topics : Message(t, s) \in ToSet(queue'[i])
  BY <1>3, SubscriptionsLemma
<1> QED BY <1>1, <1>2, <1>3, <1>4, <1>5, <1>6, <1>7

LEMMA PlacedFirst ==
    ASSUME NEW list \in Seq(Symbols), NEW i, NEW s
    PROVE  Placed(list, i, 0, s) <=> \E k \in DOMAIN list : InSlice(i, k) /\ list[k] = s
<1>1. \A k \in DOMAIN list : k > 0
  OBVIOUS
<1> QED BY <1>1 DEF Placed

-----------------------------------------------------------------------------
LEMMA InitIInv == Init => IInv
<1> SUFFICES ASSUME Init PROVE IInv
  OBVIOUS
<1> USE DEF Init, RestInit, SymbolsInit, MarketDataInit
<1>1. RestTypeOK
  <2>1. restUp \in BOOLEAN /\ retrying \in BOOLEAN /\ current \in BOOLEAN
    OBVIOUS
  <2>2. late \in [RequestStates -> Nat]
    OBVIOUS
  <2> QED BY <2>1, <2>2, PublicRestAssumption DEF RestTypeOK, PublicRestAssumption
<1>2. SymbolsTypeOK
  BY DEF SymbolsTypeOK
<1>3. MarketDataTypeOK
  <2>1. /\ socket \in [Streams -> {"absent", "down", "connected", "open"}]
        /\ wsStatus \in [Streams -> {"UNDEFINED", "DISCONNECTED", "READY"}]
        /\ sent \in [Streams -> SUBSET Messages]
    OBVIOUS
  <2>2. logonTimeout \in [Streams -> BOOLEAN]
    OBVIOUS
  <2>3. asked \in [Streams -> [Symbols -> Nat]]
    OBVIOUS
  <2>4. queue \in [Streams -> Seq(Messages)]
    <3>1. <<>> \in Seq(Messages)
      OBVIOUS
    <3> QED BY <3>1
  <2>5. wsDrops \in 0..MaxDrops
    BY MarketDataAssumption DEF MarketDataAssumption
  <2>6. fault \in BOOLEAN
    OBVIOUS
  <2> QED BY <2>1, <2>2, <2>3, <2>4, <2>5, <2>6 DEF MarketDataTypeOK
<1>4. SymbolsAreDistinct
  BY DEF SymbolsAreDistinct, IsInjective, ToSet
<1>5. NoFault /\ SessionInv /\ DownloadInv /\ SubscribedOnce /\ NoSubscriptionIsLost
  BY DEF NoFault, SessionInv, DownloadInv, SubscribedOnce, NoSubscriptionIsLost, Ready
<1> QED BY <1>1, <1>2, <1>3, <1>4, <1>5 DEF IInv, TypeOK

-----------------------------------------------------------------------------
(* A step of the REST connection.                                           *)

LEMMA DownloadLemma ==
    ASSUME RestTypeOK, NEW s \in RequestStates, Download(s)
    PROVE  /\ restStatus' = "DOWNLOADING" /\ restDownload' = s
           /\ retrying' \in BOOLEAN /\ current' \in BOOLEAN
           /\ late' \in [RequestStates -> Nat]
<1>1. late' \in [RequestStates -> Nat]
  <2>1. late \in [RequestStates -> Nat]
    BY DEF RestTypeOK
  <2>2. \A r \in RequestStates : late'[r] \in {late[r], late[r] + 1}
    BY <2>1 DEF Download
  <2>3. late' = [r \in RequestStates |-> late'[r]]
    BY <2>1 DEF Download
  <2>4. \A r \in RequestStates : late'[r] \in Nat
    BY <2>1, <2>2
  <2> QED BY <2>3, <2>4
<1>2. retrying' \in BOOLEAN /\ current' \in BOOLEAN
  BY DEF Download
<1> QED BY <1>1, <1>2 DEF Download

LEMMA RestStep ==
    ASSUME RestTypeOK, DownloadInv,
           \/ RestConnected \/ RestDisconnected \/ DownloadRetry \/ CurrenciesAck \/ InstrumentAck
           \/ \E s \in RequestStates : RestError(s) \/ RestSkipped(s)
    PROVE  RestTypeOK' /\ DownloadInv'
<1>1. CASE RestConnected
  <2>1. PICK s \in RequestStates :
            /\ Download(s)
            /\ s = "INSTRUMENT" => restDownload = "INSTRUMENT" /\ processed' = processed
            /\ processed' \in SUBSET RequestStates
    BY <1>1 DEF RestConnected, Downloading, RequestStates, RestTypeOK
  <2>2. restUp' \in BOOLEAN
    BY <1>1 DEF RestConnected
  <2>3. restDrops' \in 0..MaxRestDrops /\ restErrors' \in 0..MaxRestErrors
    BY <1>1 DEF RestConnected, RestTypeOK
  <2>4. RestTypeOK'
    BY <2>1, <2>2, <2>3, DownloadLemma DEF RestTypeOK
  <2>5. DownloadInv'
    BY <2>1, DownloadLemma DEF DownloadInv, RequestStates
  <2> QED BY <2>4, <2>5
<1>2. CASE RestDisconnected
  <2>7. restUp' \in BOOLEAN
    BY <1>2 DEF RestDisconnected
  <2>8. restDrops' \in 0..MaxRestDrops
    BY <1>2, PublicRestAssumption DEF RestDisconnected, RestTypeOK, PublicRestAssumption
  <2>1. restUp' \in BOOLEAN /\ restDrops' \in 0..MaxRestDrops
    BY <2>7, <2>8
  <2>2. restDownload' \in RequestStates \cup {"UNDEFINED"} /\ restStatus' = "DISCONNECTED"
    BY <1>2 DEF RestDisconnected, Downloading
  <2>3. retrying' = retrying /\ current' = current /\ late' = late
        /\ processed' = processed /\ restErrors' = restErrors
    BY <1>2 DEF RestDisconnected
  <2>4. RestTypeOK'
    BY <2>1, <2>2, <2>3 DEF RestTypeOK
  <2>5. restDownload' \in {restDownload, "UNDEFINED"} /\ restDownload' # "DONE"
    BY <1>2, <2>2 DEF RestDisconnected, RequestStates
  <2>6. DownloadInv'
    BY <2>2, <2>3, <2>5 DEF DownloadInv
  <2> QED BY <2>4, <2>6
<1>3. CASE DownloadRetry
  <2>1. restDownload \in RequestStates /\ Download(restDownload)
    BY <1>3 DEF DownloadRetry, Downloading
  <2>2. restUp' = restUp /\ processed' = processed /\ restDrops' = restDrops /\ restErrors' = restErrors
    BY <1>3 DEF DownloadRetry
  <2>3. RestTypeOK'
    BY <2>1, <2>2, DownloadLemma DEF RestTypeOK
  <2>4. DownloadInv'
    BY <2>1, <2>2, DownloadLemma DEF DownloadInv, RequestStates
  <2> QED BY <2>3, <2>4
<1>4. CASE CurrenciesAck
  <2>1. retrying' \in BOOLEAN
    BY <1>4 DEF CurrenciesAck
  <2>2. RestTypeOK'
    BY <1>4, <2>1 DEF CurrenciesAck, RestTypeOK, RequestStates
  <2>3. DownloadInv'
    BY <1>4 DEF CurrenciesAck, DownloadInv
  <2> QED BY <2>2, <2>3
<1>5. CASE InstrumentAck
  <2>1. retrying' \in BOOLEAN /\ current' \in BOOLEAN
    BY <1>5 DEF InstrumentAck, LastCallback
  <2>2. RestTypeOK'
    BY <1>5, <2>1 DEF InstrumentAck, LastCallback, RestTypeOK, RequestStates
  <2>3. DownloadInv'
    BY <1>5 DEF InstrumentAck, LastCallback, DownloadInv, RestTypeOK, RequestStates
  <2> QED BY <2>2, <2>3
<1>6. ASSUME NEW s \in RequestStates, LastCallback(s) \/ LateCallback(s)
      PROVE  current' \in BOOLEAN /\ late' \in [RequestStates -> Nat]
  <2>1. CASE LastCallback(s)
    <3>1. current' \in BOOLEAN
      BY <2>1 DEF LastCallback
    <3> QED BY <2>1, <3>1 DEF LastCallback, RestTypeOK
  <2>2. CASE LateCallback(s)
    <3>1. current' \in BOOLEAN
      BY <2>2 DEF LateCallback, RestTypeOK
    <3>2. late[s] - 1 \in Nat
      BY <2>2 DEF LateCallback, RestTypeOK
    <3>3. late' \in [RequestStates -> Nat]
      BY <2>2, <3>2 DEF LateCallback, RestTypeOK
    <3> QED BY <3>1, <3>3
  <2> QED BY <1>6, <2>1, <2>2
<1>7. ASSUME NEW s \in RequestStates, RestError(s)
      PROVE  RestTypeOK' /\ DownloadInv'
  <2>1. current' \in BOOLEAN /\ late' \in [RequestStates -> Nat]
    BY <1>6, <1>7 DEF RestError
  <2>2. retrying' \in BOOLEAN
    BY <1>7 DEF RestError
  <2>3. restErrors' \in 0..MaxRestErrors
    BY <1>7, PublicRestAssumption DEF RestError, RestTypeOK, PublicRestAssumption
  <2>4. RestTypeOK'
    BY <1>7, <2>1, <2>2, <2>3 DEF RestError, RestTypeOK
  <2>5. DownloadInv'
    BY <1>7 DEF RestError, DownloadInv
  <2> QED BY <2>4, <2>5
<1>8. ASSUME NEW s \in RequestStates, RestSkipped(s)
      PROVE  RestTypeOK' /\ DownloadInv'
  <2>1. current' \in BOOLEAN /\ late' \in [RequestStates -> Nat]
    BY <1>6, <1>8 DEF RestSkipped
  <2>2. RestTypeOK'
    BY <1>8, <2>1 DEF RestSkipped, RestTypeOK
  <2>3. DownloadInv'
    BY <1>8 DEF RestSkipped, DownloadInv
  <2> QED BY <2>2, <2>3
<1> QED BY <1>1, <1>2, <1>3, <1>4, <1>5, <1>7, <1>8

-----------------------------------------------------------------------------
(* The invariant of the streams and the symbols.                            *)
FeedInv ==
    /\ SymbolsTypeOK /\ MarketDataTypeOK /\ NoFault /\ SymbolsAreDistinct /\ SessionInv
    /\ SubscribedOnce /\ NoSubscriptionIsLost

LEMMA SymbolsUpdateStep ==
    ASSUME FeedInv, NEW listed \in SUBSET Symbols, Add(listed), SymbolsUpdate
    PROVE  FeedInv'
<1> DEFINE S == {i \in Streams : Ready(i)}
           from == Len(symbols)
<1> USE DEF FeedInv
<1>1. /\ SymbolsTypeOK' /\ SymbolsAreDistinct' /\ from \in 0..Len(symbols')
      /\ \A k \in DOMAIN symbols : k \in DOMAIN symbols' /\ symbols'[k] = symbols[k]
  BY AddLemma
<1>2. /\ symbols \in Seq(Symbols) /\ symbols' \in Seq(Symbols) /\ IsInjective(symbols')
      /\ S \in SUBSET Streams /\ Subscribe(symbols', from, S)
  BY <1>1 DEF SymbolsTypeOK, SymbolsAreDistinct, SymbolsUpdate
<1>3. /\ queue' \in [Streams -> Seq(Messages)]
      /\ asked' \in [Streams -> [Symbols -> Nat]]
      /\ \A i \in Streams \ S : queue'[i] = queue[i] /\ asked'[i] = asked[i]
      /\ \A i \in S : \A s \in Symbols :
           asked'[i][s] = asked[i][s] + (IF Placed(symbols', i, from, s) THEN 1 ELSE 0)
      /\ \A i \in S : ToSet(queue[i]) \subseteq ToSet(queue'[i])
      /\ \A i \in S : \A s : Placed(symbols', i, from, s) =>
           \A t \in Topics : Message(t, s) \in ToSet(queue'[i])
  <2> HIDE DEF S, from
  <2> QED BY <1>1, <1>2, SubscribeLemma
<1>4. /\ wsStatus' = wsStatus /\ logonTimeout' = logonTimeout /\ sent' = sent
      /\ wsDrops' = wsDrops /\ fault' = fault
  BY DEF SymbolsUpdate
<1>5. /\ socket' \in [Streams -> {"absent", "down", "connected", "open"}]
      /\ \A i \in Streams : socket[i] # "absent" => socket'[i] = socket[i]
  BY DEF SymbolsUpdate, MarketDataTypeOK
<1>6. \A i \in Streams : Ready(i)' <=> i \in S
  BY <1>4 DEF Ready
<1>7. MarketDataTypeOK' /\ NoFault'
  BY <1>3, <1>4, <1>5 DEF MarketDataTypeOK, NoFault
<1>8. SessionInv'
  <2> SUFFICES ASSUME NEW i \in Streams
               PROVE  /\ logonTimeout'[i] => socket'[i] \in {"connected", "open"}
                      /\ Ready(i)' => socket'[i] = "open"
                      /\ ~Ready(i)' => \A s \in Symbols : asked'[i][s] = 0
    BY DEF SessionInv
  <2>1. logonTimeout'[i] => socket'[i] \in {"connected", "open"}
    BY <1>4, <1>5 DEF SessionInv
  <2>2. Ready(i)' => socket'[i] = "open"
    BY <1>5, <1>6 DEF SessionInv
  <2>3. ~Ready(i)' => \A s \in Symbols : asked'[i][s] = 0
    BY <1>3, <1>6 DEF SessionInv
  <2> QED BY <2>1, <2>2, <2>3
<1>9. ASSUME NEW i \in S, NEW s \in Symbols
      PROVE  /\ asked'[i][s] = IF Placed(symbols', i, 0, s) THEN 1 ELSE 0
             /\ asked[i][s] = IF Placed(symbols, i, 0, s) THEN 1 ELSE 0
             /\ Placed(symbols', i, 0, s) =>
                  Placed(symbols, i, 0, s) \/ Placed(symbols', i, from, s)
  <2>1. asked[i][s] = IF Placed(symbols, i, 0, s) THEN 1 ELSE 0
    BY <1>2, PlacedFirst DEF SubscribedOnce
  <2>2. /\ from \in Nat /\ DOMAIN symbols = 1..from
        /\ DOMAIN symbols' \subseteq Int /\ \A k \in DOMAIN symbols' : k > 0
    BY <1>2
  <2>3. Placed(symbols, i, 0, s) => Placed(symbols', i, 0, s)
    BY <1>1 DEF Placed
  <2>4. Placed(symbols', i, from, s) => Placed(symbols', i, 0, s)
    BY <2>2 DEF Placed
  <2>5. Placed(symbols', i, 0, s) => Placed(symbols, i, 0, s) \/ Placed(symbols', i, from, s)
    <3> SUFFICES ASSUME NEW k \in DOMAIN symbols', InSlice(i, k), symbols'[k] = s, ~(k > from)
                 PROVE  Placed(symbols, i, 0, s)
      BY DEF Placed
    <3>1. k \in DOMAIN symbols /\ k > 0
      BY <2>2
    <3> QED BY <1>1, <3>1 DEF Placed
  <2>6. ~(Placed(symbols, i, 0, s) /\ Placed(symbols', i, from, s))
    <3> SUFFICES ASSUME NEW k \in DOMAIN symbols, symbols[k] = s,
                        NEW n \in DOMAIN symbols', n > from, symbols'[n] = s
                 PROVE  FALSE
      BY DEF Placed
    <3>1. k = n
      BY <1>1, <1>2 DEF IsInjective
    <3> QED BY <2>2, <3>1
  <2>7. asked'[i][s] = asked[i][s] + (IF Placed(symbols', i, from, s) THEN 1 ELSE 0)
    BY <1>3
  <2> QED BY <2>1, <2>3, <2>4, <2>5, <2>6, <2>7
<1>10. SubscribedOnce'
  <2> SUFFICES ASSUME NEW i \in S, NEW s \in Symbols
               PROVE  asked'[i][s] =
                        IF \E k \in DOMAIN symbols' : InSlice(i, k) /\ symbols'[k] = s
                        THEN 1 ELSE 0
    BY <1>6 DEF SubscribedOnce, InSlice
  <2> QED BY <1>2, <1>9, PlacedFirst
<1>11. NoSubscriptionIsLost'
  <2> SUFFICES ASSUME NEW i \in S, NEW s \in Symbols, asked'[i][s] > 0, NEW t \in Topics
               PROVE  Message(t, s) \in sent[i] \cup ToSet(queue'[i])
    BY <1>4, <1>6 DEF NoSubscriptionIsLost, Topics, TopOfBook, Message
  <2>1. Placed(symbols', i, 0, s)
    BY <1>9
  <2>2. CASE Placed(symbols, i, 0, s)
    <3>1. Message(t, s) \in sent[i] \cup ToSet(queue[i])
      BY <1>9, <2>2 DEF NoSubscriptionIsLost
    <3> QED BY <1>3, <3>1
  <2>3. CASE Placed(symbols', i, from, s)
    BY <1>3, <2>3
  <2> QED BY <1>9, <2>1, <2>2, <2>3
<1> QED BY <1>1, <1>7, <1>8, <1>10, <1>11

-----------------------------------------------------------------------------
(* Steps of one web socket.                                                 *)

(* A step that moves no symbol, makes no stream ready, forgets no message   *)
(* and subscribes to nothing keeps what is known of the ready streams.      *)
LEMMA FrameLemma ==
    ASSUME SubscribedOnce, NoSubscriptionIsLost, symbols' = symbols,
           \A j \in Streams : Ready(j)' =>
               /\ Ready(j) /\ asked'[j] = asked[j]
               /\ sent[j] \cup ToSet(queue[j]) \subseteq sent'[j] \cup ToSet(queue'[j])
    PROVE  SubscribedOnce' /\ NoSubscriptionIsLost'
<1>1. SubscribedOnce'
  <2> SUFFICES ASSUME NEW j \in Streams, Ready(j)', NEW s \in Symbols
               PROVE  asked'[j][s] =
                        IF \E k \in DOMAIN symbols : InSlice(j, k) /\ symbols[k] = s
                        THEN 1 ELSE 0
    BY DEF SubscribedOnce, InSlice
  <2>1. Ready(j) /\ asked'[j] = asked[j]
    OBVIOUS
  <2>2. asked[j][s] = IF \E k \in DOMAIN symbols : InSlice(j, k) /\ symbols[k] = s
                      THEN 1 ELSE 0
    BY <2>1 DEF SubscribedOnce
  <2> QED BY <2>1, <2>2
<1>2. NoSubscriptionIsLost'
  <2> SUFFICES ASSUME NEW j \in Streams, Ready(j)', NEW s \in Symbols, asked'[j][s] > 0,
                      NEW t \in Topics
               PROVE  Message(t, s) \in sent'[j] \cup ToSet(queue'[j])
    BY DEF NoSubscriptionIsLost, Topics, TopOfBook, Message
  <2>1. Ready(j) /\ asked'[j] = asked[j]
        /\ sent[j] \cup ToSet(queue[j]) \subseteq sent'[j] \cup ToSet(queue'[j])
    OBVIOUS
  <2>2. Message(t, s) \in sent[j] \cup ToSet(queue[j])
    BY <2>1 DEF NoSubscriptionIsLost
  <2> QED BY <2>1, <2>2
<1> QED BY <1>1, <1>2

LEMMA SocketStep ==
    ASSUME FeedInv, NEW i \in Streams, UNCHANGED symbolVars,
           SocketConnected(i) \/ SocketReady(i) \/ SocketDisconnected(i)
    PROVE  FeedInv'
<1> USE DEF FeedInv
<1>1. SymbolsTypeOK' /\ SymbolsAreDistinct' /\ symbols' = symbols
  BY DEF symbolVars, SymbolsTypeOK, SymbolsAreDistinct
<1>2. CASE SocketConnected(i)
  <2>1. ~logonTimeout[i]
    BY <1>2 DEF SocketConnected, SessionInv
  <2>2. MarketDataTypeOK'
    BY <1>2, <2>1 DEF SocketConnected, MarketDataTypeOK
  <2>3. NoFault'
    BY <1>2, <2>1 DEF SocketConnected, NoFault
  <2>4. SessionInv'
    BY <1>2 DEF SocketConnected, MarketDataTypeOK, SessionInv, Ready
  <2>5. SubscribedOnce' /\ NoSubscriptionIsLost'
    <3>1. \A j \in Streams : Ready(j)' => Ready(j)
      BY <1>2 DEF SocketConnected, Ready
    <3> QED BY <1>1, <1>2, <3>1, FrameLemma DEF SocketConnected
  <2> QED BY <1>1, <2>2, <2>3, <2>4, <2>5
<1>3. CASE SocketReady(i)
  <2>2. MarketDataTypeOK' /\ NoFault'
    BY <1>3 DEF SocketReady, MarketDataTypeOK, NoFault
  <2>4. SessionInv'
    BY <1>3 DEF SocketReady, MarketDataTypeOK, SessionInv, Ready
  <2>5. SubscribedOnce' /\ NoSubscriptionIsLost'
    <3>1. \A j \in Streams : Ready(j)' => Ready(j)
      BY <1>3 DEF SocketReady, Ready
    <3> QED BY <1>1, <1>3, <3>1, FrameLemma DEF SocketReady
  <2> QED BY <1>1, <2>2, <2>4, <2>5
<1>4. CASE SocketDisconnected(i)
  <2> USE DEF SocketDisconnected, Disconnect
  <2>1. \A j \in Streams \ {i} :
          /\ wsStatus'[j] = wsStatus[j] /\ socket'[j] = socket[j]
          /\ logonTimeout'[j] = logonTimeout[j]
          /\ asked'[j] = asked[j] /\ sent'[j] = sent[j] /\ queue'[j] = queue[j]
    <3>1. \A j \in Streams \ {i} : logonTimeout'[j] = logonTimeout[j]
      BY <1>4 DEF MarketDataTypeOK
    <3>2. \A j \in Streams \ {i} : sent'[j] = sent[j]
      BY <1>4 DEF MarketDataTypeOK
    <3> QED BY <1>4, <3>1, <3>2
  <2>2. /\ wsStatus'[i] = "DISCONNECTED" /\ socket'[i] = "down" /\ ~logonTimeout'[i]
        /\ asked'[i] = [s \in Symbols |-> 0] /\ sent'[i] = {}
    BY <1>4 DEF MarketDataTypeOK
  <2>3. MarketDataTypeOK'
    <3>1. logonTimeout' \in [Streams -> BOOLEAN]
      BY <1>4 DEF MarketDataTypeOK
    <3>2. asked' \in [Streams -> [Symbols -> Nat]]
      BY <1>4 DEF MarketDataTypeOK
    <3>3. wsDrops' \in 0..MaxDrops
      BY <1>4, MarketDataAssumption DEF MarketDataTypeOK, MarketDataAssumption
    <3>4. /\ socket' \in [Streams -> {"absent", "down", "connected", "open"}]
          /\ wsStatus' \in [Streams -> {"UNDEFINED", "DISCONNECTED", "READY"}]
          /\ sent' \in [Streams -> SUBSET Messages]
      BY <1>4 DEF MarketDataTypeOK
    <3> QED BY <1>4, <3>1, <3>2, <3>3, <3>4 DEF MarketDataTypeOK
  <2>4. NoFault'
    BY <1>4 DEF NoFault
  <2>5. SessionInv'
    BY <2>1, <2>2 DEF SessionInv, Ready
  <2>6. SubscribedOnce' /\ NoSubscriptionIsLost'
    <3>1. \A j \in Streams : Ready(j)' => Ready(j) /\ j # i
      BY <2>1, <2>2 DEF Ready
    <3>2. \A j \in Streams : Ready(j)' =>
            /\ Ready(j) /\ asked'[j] = asked[j]
            /\ sent[j] \cup ToSet(queue[j]) \subseteq sent'[j] \cup ToSet(queue'[j])
      BY <2>1, <3>1
    <3> QED BY <1>1, <3>2, FrameLemma
  <2> QED BY <1>1, <2>3, <2>4, <2>5, <2>6
<1> QED BY <1>2, <1>3, <1>4

LEMMA WelcomeStep ==
    ASSUME FeedInv, NEW i \in Streams, UNCHANGED symbolVars, Welcome(i)
    PROVE  FeedInv'
<1> USE DEF FeedInv
<1>1. SymbolsTypeOK' /\ SymbolsAreDistinct' /\ symbols' = symbols
  BY DEF symbolVars, SymbolsTypeOK, SymbolsAreDistinct
<1>2. /\ symbols \in Seq(Symbols) /\ IsInjective(symbols) /\ 0 \in 0..Len(symbols)
      /\ {i} \in SUBSET Streams /\ Subscribe(symbols, 0, {i})
  BY DEF SymbolsTypeOK, SymbolsAreDistinct, Welcome
<1>3. /\ queue' \in [Streams -> Seq(Messages)]
      /\ asked' \in [Streams -> [Symbols -> Nat]]
      /\ \A j \in Streams \ {i} : queue'[j] = queue[j] /\ asked'[j] = asked[j]
      /\ \A s \in Symbols :
           asked'[i][s] = asked[i][s] + (IF Placed(symbols, i, 0, s) THEN 1 ELSE 0)
      /\ \A s : Placed(symbols, i, 0, s) =>
           \A t \in Topics : Message(t, s) \in ToSet(queue'[i])
  BY <1>2, SubscribeLemma
<1>4. /\ socket[i] = "open" /\ ~Ready(i)
      /\ wsStatus' = [wsStatus EXCEPT ![i] = "READY"]
      /\ socket' = socket /\ logonTimeout' = logonTimeout /\ sent' = sent
      /\ wsDrops' = wsDrops /\ fault' = fault
  BY DEF Welcome
<1>5. MarketDataTypeOK' /\ NoFault'
  BY <1>3, <1>4 DEF MarketDataTypeOK, NoFault
<1>6. Ready(i)' /\ \A j \in Streams \ {i} : Ready(j)' <=> Ready(j)
  BY <1>4 DEF Ready, MarketDataTypeOK
<1>7. SessionInv'
  <2>1. \A j \in Streams : logonTimeout'[j] => socket'[j] \in {"connected", "open"}
    BY <1>4 DEF SessionInv
  <2>2. \A j \in Streams : Ready(j)' => socket'[j] = "open"
    BY <1>4, <1>6 DEF SessionInv
  <2>3. \A j \in Streams : ~Ready(j)' => \A s \in Symbols : asked'[j][s] = 0
    BY <1>3, <1>6 DEF SessionInv
  <2> QED BY <2>1, <2>2, <2>3 DEF SessionInv
<1>8. \A s \in Symbols : asked'[i][s] = IF Placed(symbols, i, 0, s) THEN 1 ELSE 0
  <2> SUFFICES ASSUME NEW s \in Symbols
               PROVE  asked'[i][s] = IF Placed(symbols, i, 0, s) THEN 1 ELSE 0
    OBVIOUS
  <2>1. asked[i][s] = 0
    BY <1>4 DEF SessionInv
  <2>2. asked'[i][s] = asked[i][s] + (IF Placed(symbols, i, 0, s) THEN 1 ELSE 0)
    BY <1>3
  <2> HIDE DEF FeedInv
  <2> DEFINE n == asked'[i][s]
  <2>3. CASE Placed(symbols, i, 0, s)
    <3>1. n = 0 + 1
      BY <2>1, <2>2, <2>3
    <3> QED BY <3>1, <2>3
  <2>4. CASE ~Placed(symbols, i, 0, s)
    <3>1. n = 0 + 0
      BY <2>1, <2>2, <2>4
    <3> QED BY <3>1, <2>4
  <2> QED BY <2>3, <2>4
<1>9. SubscribedOnce'
  <2> SUFFICES ASSUME NEW j \in Streams, Ready(j)', NEW s \in Symbols
               PROVE  asked'[j][s] =
                        IF \E k \in DOMAIN symbols : InSlice(j, k) /\ symbols[k] = s
                        THEN 1 ELSE 0
    BY <1>1 DEF SubscribedOnce, InSlice
  <2>1. CASE j = i
    BY <1>2, <1>8, <2>1, PlacedFirst
  <2>2. CASE j # i
    <3>1. Ready(j) /\ asked'[j] = asked[j]
      BY <1>3, <1>6, <2>2
    <3> QED BY <3>1 DEF SubscribedOnce
  <2> QED BY <2>1, <2>2
<1>10. NoSubscriptionIsLost'
  <2> SUFFICES ASSUME NEW j \in Streams, Ready(j)', NEW s \in Symbols, asked'[j][s] > 0,
                      NEW t \in Topics
               PROVE  Message(t, s) \in sent[j] \cup ToSet(queue'[j])
    BY <1>4 DEF NoSubscriptionIsLost, Topics, TopOfBook, Message
  <2>1. CASE j = i
    <3>1. Placed(symbols, i, 0, s)
      BY <1>8, <2>1
    <3> QED BY <1>3, <2>1, <3>1
  <2>2. CASE j # i
    <3>1. Ready(j) /\ asked'[j] = asked[j] /\ queue'[j] = queue[j]
      BY <1>3, <1>6, <2>2
    <3> QED BY <3>1 DEF NoSubscriptionIsLost
  <2> QED BY <2>1, <2>2
<1> QED BY <1>1, <1>5, <1>7, <1>9, <1>10

(* A stream sends a prefix of its queue.                                    *)
LEMMA SendsLemma ==
    ASSUME MarketDataTypeOK, NEW stop \in Streams, NEW n \in 0..Len(queue[stop]), NEW i \in Streams
    PROVE  Sends(i, stop, n) \in 0..Len(queue[i])
<1>1. i \in Int /\ stop \in Int /\ Len(queue[i]) \in Nat
  BY DEF Streams, MarketDataTypeOK
<1>2. CASE ~Ready(i) \/ i > stop
  BY <1>1, <1>2 DEF Sends
<1>3. CASE Ready(i) /\ i < stop
  <2>1. Sends(i, stop, n) = Len(queue[i])
    BY <1>1, <1>3 DEF Sends
  <2> QED BY <1>1, <2>1
<1>4. CASE Ready(i) /\ i = stop
  <2>1. Sends(i, stop, n) = n /\ n \in 0..Len(queue[i])
    BY <1>1, <1>4 DEF Sends
  <2> QED BY <2>1
<1> QED BY <1>1, <1>2, <1>3, <1>4

LEMMA TimerStep ==
    ASSUME FeedInv, NEW stop \in Streams, NEW expired \in SUBSET Streams,
           NEW n \in 0..Len(queue[stop]), UNCHANGED symbolVars, StreamsTimer(stop, n, expired)
    PROVE  FeedInv'
<1> USE DEF FeedInv
<1>1. SymbolsTypeOK' /\ SymbolsAreDistinct' /\ symbols' = symbols
  BY DEF symbolVars, SymbolsTypeOK, SymbolsAreDistinct
<1>2. \A i \in expired : socket[i] = "connected" /\ logonTimeout[i] /\ ~Ready(i)
                         /\ \A s \in Symbols : asked[i][s] = 0
  BY DEF StreamsTimer, SessionInv
<1>3. ASSUME NEW i \in Streams
      PROVE  /\ Sends(i, stop, n) \in 0..Len(queue[i])
             /\ queue'[i] \in Seq(Messages)
             /\ ToSet(queue[i]) \subseteq ToSet(queue'[i])
                   \cup {queue[i][k] : k \in 1..Sends(i, stop, n)}
             /\ {queue[i][k] : k \in 1..Sends(i, stop, n)} \subseteq Messages
  <2> DEFINE q == queue[i]
             m == Sends(i, stop, n)
  <2>1. q \in Seq(Messages) /\ Len(q) \in Nat
    BY DEF MarketDataTypeOK
  <2>2. m \in 0..Len(q)
    BY SendsLemma
  <2>3. queue'[i] = SubSeq(q, m + 1, Len(q))
    BY DEF StreamsTimer
  <2> HIDE DEF q, m
  <2>4. \A k \in (m + 1)..Len(q) : q[k] \in Messages
    BY <2>1, <2>2
  <2>5. m + 1 \in Int /\ Len(q) \in Int
    BY <2>1, <2>2
  <2>6. /\ queue'[i] \in Seq(Messages)
        /\ Len(queue'[i]) = IF m + 1 <= Len(q) THEN Len(q) - (m + 1) + 1 ELSE 0
        /\ \A k \in 1..(Len(q) - (m + 1) + 1) : queue'[i][k] = q[m + 1 + k - 1]
    BY <2>3, <2>4, <2>5, SubSeqProperties
  <2>7. ASSUME NEW k \in DOMAIN q, k \notin 1..m
        PROVE  q[k] \in ToSet(queue'[i])
    <3>1. k - m \in 1..(Len(q) - (m + 1) + 1) /\ m + 1 + (k - m) - 1 = k
      BY <2>1, <2>2, <2>7
    <3>2. k - m \in DOMAIN queue'[i]
      <4>1. DOMAIN queue'[i] = 1..Len(queue'[i])
        BY <2>6
      <4>2. Len(queue'[i]) = Len(q) - m
        <5>1. m + 1 <= Len(q)
          BY <2>1, <2>2, <3>1
        <5> QED BY <2>1, <2>2, <2>6, <5>1
      <4>3. k - m \in 1..(Len(q) - m)
        BY <2>1, <2>2, <3>1
      <4> QED BY <4>1, <4>2, <4>3
    <3>3. queue'[i][k - m] = q[k]
      BY <2>6, <3>1
    <3> QED BY <3>2, <3>3 DEF ToSet
  <2>8. ToSet(q) \subseteq ToSet(queue'[i]) \cup {q[k] : k \in 1..m}
    BY <2>7 DEF ToSet
  <2>9. \A k \in 1..m : q[k] \in Messages
    BY <2>1, <2>2
  <2> QED BY <2>2, <2>6, <2>8, <2>9 DEF q, m
<1>4. \A i \in Streams : sent'[i] = sent[i] \cup {queue[i][k] : k \in 1..Sends(i, stop, n)}
  BY DEF StreamsTimer
<1>5. MarketDataTypeOK'
  <2>1. socket' \in [Streams -> {"absent", "down", "connected", "open"}]
        /\ wsStatus' \in [Streams -> {"UNDEFINED", "DISCONNECTED", "READY"}]
    BY DEF StreamsTimer, Disconnect, MarketDataTypeOK
  <2>2. logonTimeout' \in [Streams -> BOOLEAN]
    BY DEF StreamsTimer, Disconnect, MarketDataTypeOK
  <2>3. asked' \in [Streams -> [Symbols -> Nat]]
    BY DEF StreamsTimer, Disconnect, MarketDataTypeOK
  <2>4. queue' \in [Streams -> Seq(Messages)]
    <3>1. \A i \in Streams : queue'[i] \in Seq(Messages)
      BY <1>3
    <3> QED BY <3>1 DEF StreamsTimer
  <2>5. sent' \in [Streams -> SUBSET Messages]
    <3>1. \A i \in Streams : sent'[i] \in SUBSET Messages
      BY <1>3, <1>4 DEF MarketDataTypeOK
    <3> QED BY <3>1 DEF StreamsTimer
  <2>6. wsDrops' \in 0..MaxDrops
    <3>1. IsFiniteSet(Streams)
      <4>1. Cardinality(Symbols) \in Nat /\ SliceSize \in Nat \ {0}
        BY SliceAssumption, FS_CardinalityType DEF SliceAssumption
      <4>2. Slices(Cardinality(Symbols)) \in Int
        BY <4>1 DEF Slices
      <4> QED BY <4>2, FS_Interval DEF Streams
    <3>2. Cardinality(expired) \in Nat
      BY <3>1, FS_Subset, FS_CardinalityType
    <3> QED BY <3>2, MarketDataAssumption DEF StreamsTimer, MarketDataTypeOK, MarketDataAssumption
  <2>7. fault' \in BOOLEAN
    BY DEF StreamsTimer
  <2> QED BY <2>1, <2>2, <2>3, <2>4, <2>5, <2>6, <2>7 DEF MarketDataTypeOK
<1>6. NoFault'
  BY <1>2 DEF StreamsTimer, NoFault
<1>7. \A i \in Streams \ expired :
        /\ wsStatus'[i] = wsStatus[i] /\ socket'[i] = socket[i]
        /\ logonTimeout'[i] = logonTimeout[i] /\ asked'[i] = asked[i]
  <2>1. \A i \in Streams \ expired : logonTimeout'[i] = logonTimeout[i]
    BY DEF StreamsTimer, Disconnect, MarketDataTypeOK
  <2> QED BY <2>1 DEF StreamsTimer, Disconnect
<1>8. \A i \in expired :
        /\ wsStatus'[i] = "DISCONNECTED" /\ socket'[i] = "down" /\ ~logonTimeout'[i]
        /\ \A s \in Symbols : asked'[i][s] = 0
  BY DEF StreamsTimer, Disconnect
<1>9. SessionInv'
  BY <1>7, <1>8 DEF SessionInv, Ready
<1>10. \A j \in Streams : Ready(j)' =>
         /\ Ready(j) /\ asked'[j] = asked[j]
         /\ sent[j] \cup ToSet(queue[j]) \subseteq sent'[j] \cup ToSet(queue'[j])
  <2>1. \A j \in Streams : Ready(j)' => j \notin expired
    BY <1>8 DEF Ready
  <2>2. \A j \in Streams : Ready(j)' => Ready(j) /\ asked'[j] = asked[j]
    BY <1>7, <2>1 DEF Ready
  <2> QED BY <1>3, <1>4, <2>2
<1>11. SubscribedOnce' /\ NoSubscriptionIsLost'
  BY <1>1, <1>10, FrameLemma
<1> QED BY <1>1, <1>5, <1>6, <1>9, <1>11

-----------------------------------------------------------------------------
LEMMA NextIInv == IInv /\ [Next]_vars => IInv'
<1> SUFFICES ASSUME IInv, [Next]_vars PROVE IInv'
  OBVIOUS
<1>1. RestTypeOK /\ DownloadInv /\ FeedInv
  BY DEF IInv, TypeOK, FeedInv
<1> SUFFICES RestTypeOK' /\ DownloadInv' /\ FeedInv'
  BY DEF IInv, TypeOK, FeedInv
<1>2. ASSUME UNCHANGED restVars PROVE RestTypeOK' /\ DownloadInv'
  BY <1>1, <1>2 DEF restVars, RestTypeOK, DownloadInv
<1>3. ASSUME UNCHANGED <<symbolVars, wsVars>> PROVE FeedInv'
  <2>1. symbols' = symbols /\ all_symbols' = all_symbols
    BY <1>3 DEF symbolVars
  <2>2. /\ socket' = socket /\ wsStatus' = wsStatus /\ logonTimeout' = logonTimeout
        /\ queue' = queue /\ asked' = asked /\ sent' = sent /\ wsDrops' = wsDrops /\ fault' = fault
    BY <1>3 DEF wsVars
  <2>3. \A j \in Streams : Ready(j)' => Ready(j)
    BY <2>2 DEF Ready
  <2>4. SubscribedOnce' /\ NoSubscriptionIsLost'
    BY <1>1, <2>1, <2>2, <2>3, FrameLemma DEF FeedInv
  <2>5. SymbolsTypeOK' /\ SymbolsAreDistinct'
    BY <1>1, <2>1 DEF FeedInv, SymbolsTypeOK, SymbolsAreDistinct
  <2>6. MarketDataTypeOK' /\ NoFault'
    BY <1>1, <2>2 DEF FeedInv, MarketDataTypeOK, NoFault
  <2>7. SessionInv'
    BY <1>1, <2>2 DEF FeedInv, SessionInv, Ready
  <2> QED BY <2>4, <2>5, <2>6, <2>7 DEF FeedInv
<1>4. CASE RestConnect \/ RestDisconnect \/ RestRetry \/ RestErrorAck \/ RestSkippedAck \/ RestCurrenciesAck
  <2> USE DEF RestConnect, RestDisconnect, RestRetry, RestErrorAck, RestSkippedAck, RestCurrenciesAck, Rest
  <2>1. RestTypeOK' /\ DownloadInv'
    BY <1>1, <1>4, RestStep
  <2>2. UNCHANGED <<symbolVars, wsVars>>
    BY <1>4
  <2> QED BY <1>3, <2>1, <2>2
<1>5. CASE RestInstrumentAck
  <2>1. RestTypeOK' /\ DownloadInv'
    BY <1>1, <1>5, RestStep DEF RestInstrumentAck
  <2>2. FeedInv'
    <3>1. PICK listed \in SUBSET Symbols : Add(listed)
      BY <1>5, FeedAssumption DEF RestInstrumentAck, FeedAssumption
    <3> QED BY <1>1, <1>5, <3>1, SymbolsUpdateStep DEF RestInstrumentAck
  <2> QED BY <2>1, <2>2
<1>6. CASE ClientSubscribe
  <2>1. FeedInv'
    BY <1>1, <1>6, SymbolsUpdateStep DEF ClientSubscribe
  <2> QED BY <1>2, <1>6, <2>1 DEF ClientSubscribe
<1>7. ASSUME NEW i \in Streams, WsConnect(i) \/ WsReady(i) \/ WsDisconnect(i)
      PROVE  RestTypeOK' /\ DownloadInv' /\ FeedInv'
  <2>1. FeedInv'
    BY <1>1, <1>7, SocketStep DEF WsConnect, WsReady, WsDisconnect, Ws
  <2> QED BY <1>2, <1>7, <2>1 DEF WsConnect, WsReady, WsDisconnect, Ws
<1>8. ASSUME NEW i \in Streams, WsWelcome(i)
      PROVE  RestTypeOK' /\ DownloadInv' /\ FeedInv'
  <2>1. FeedInv'
    BY <1>1, <1>8, WelcomeStep DEF WsWelcome, Ws
  <2> QED BY <1>2, <1>8, <2>1 DEF WsWelcome, Ws
<1>9. CASE Timer
  <2>1. PICK stop \in Streams, expired \in SUBSET Streams :
          \E n \in 0..Len(queue[stop]) : Ws(StreamsTimer(stop, n, expired))
    BY <1>9 DEF Timer
  <2>2. PICK n \in 0..Len(queue[stop]) : Ws(StreamsTimer(stop, n, expired))
    BY <2>1
  <2>3. FeedInv'
    BY <1>1, <2>2, TimerStep DEF Ws
  <2> QED BY <1>2, <2>2, <2>3 DEF Ws
<1>10. CASE UNCHANGED vars
  BY <1>2, <1>3, <1>10 DEF vars
<1> QED BY <1>4, <1>5, <1>6, <1>7, <1>8, <1>9, <1>10 DEF Next

-----------------------------------------------------------------------------
(* The invariant holds in every reachable state.                            *)
THEOREM Invariance == Spec => []IInv
BY InitIInv, NextIInv, PTL DEF Spec

(* The members of Rest, Shared and MarketData keep their types.             *)
THEOREM TypeCorrect == Spec => []TypeOK
<1>1. IInv => TypeOK
  BY DEF IInv
<1> QED BY <1>1, Invariance, PTL

(* The asserts on logon_timeout_ and welcome_ hold (market_data.cpp:125,    *)
(* 184).                                                                    *)
THEOREM NeverFaults == Spec => []NoFault
<1>1. IInv => NoFault
  BY DEF IInv
<1> QED BY <1>1, Invariance, PTL

(* However many sources name a symbol, it has one place among the slices    *)
(* (rest.cpp:355-357, controller.cpp:137-143).                              *)
THEOREM OnePlaceEach == Spec => []SymbolsAreDistinct
<1>1. IInv => SymbolsAreDistinct
  BY DEF IInv
<1> QED BY <1>1, Invariance, PTL

(* Every session of every stream subscribes exactly once to each symbol of  *)
(* its slice (market_data.cpp:174-178,232-240).                             *)
THEOREM SessionsSubscribeOnce == Spec => []SubscribedOnce
<1>1. IInv => SubscribedOnce
  BY DEF IInv
<1> QED BY <1>1, Invariance, PTL

(* What a session subscribed to was sent or waits in the queue, on each     *)
(* topic (market_data.cpp:188-197,452-510).                                 *)
THEOREM SubscriptionsSurvive == Spec => []NoSubscriptionIsLost
<1>1. IInv => NoSubscriptionIsLost
  BY DEF IInv
<1> QED BY <1>1, Invariance, PTL

(* The public REST stream is READY only when this download answered both of *)
(* its steps (rest.cpp:153-169,184-206,281-303).                            *)
THEOREM ReadyMeansDownloaded == Spec => []RestReadyIsDownloaded
<1>1. IInv => RestReadyIsDownloaded
  BY DEF IInv, DownloadInv, RestReadyIsDownloaded, Downloading, RequestStates
<1> QED BY <1>1, Invariance, PTL
-----------------------------------------------------------------------------
(* There are as many streams as slices.                                     *)

LEMMA MulMono ==
    ASSUME NEW a \in Nat, NEW b \in Nat, NEW c \in Nat, a <= b
    PROVE  a * c <= b * c
<1>1. PICK d \in Nat : b = a + d
  <2>1. b - a \in Nat /\ b = a + (b - a)
    OBVIOUS
  <2> QED BY <2>1
<1>2. b * c = a * c + d * c
  BY <1>1
<1>3. d * c \in Nat /\ a * c \in Nat
  OBVIOUS
<1> QED BY <1>2, <1>3

LEMMA DivLemma ==
    ASSUME NEW a \in Nat, NEW b \in Nat \ {0}
    PROVE  a \div b \in Nat /\ (a \div b) * b <= a /\ a < (a \div b) * b + b
OBVIOUS

(* The streams up to Slices(n) are those whose slice starts before n.       *)
LEMMA SlicesLemma ==
    ASSUME NEW i \in Streams, NEW n \in Nat
    PROVE  i <= Slices(n) <=> (i - 1) * SliceSize < n
<1>1. PICK j \in Nat, S \in Nat \ {0} : S = SliceSize /\ i = j + 1
  <2>1. i - 1 \in Nat /\ i = (i - 1) + 1
    BY DEF Streams
  <2> QED BY <2>1, SliceAssumption DEF SliceAssumption
<1>2. PICK q \in Nat : /\ q = (n + S - 1) \div S
                       /\ q * S <= n + S - 1 /\ n + S - 1 < q * S + S
  <2>1. n + S - 1 \in Nat
    OBVIOUS
  <2> QED BY <2>1, DivLemma
<1>3. j * S \in Nat /\ q * S \in Nat /\ (j + 1) * S = j * S + S
  OBVIOUS
<1>4. ASSUME j + 1 <= q PROVE j * S < n
  <2>1. (j + 1) * S <= q * S
    BY <1>4, MulMono
  <2> QED BY <1>2, <1>3, <2>1
<1>5. ASSUME q <= j PROVE n <= j * S
  <2>1. q * S <= j * S
    BY <1>5, MulMono
  <2> QED BY <1>2, <1>3, <2>1
<1>6. Slices(n) = q /\ (i - 1) * SliceSize = j * S
  BY <1>1, <1>2 DEF Slices
<1> QED BY <1>1, <1>3, <1>4, <1>5, <1>6

(* A slice is not empty when its first position is one of the list.         *)
LEMMA NonEmptySlice ==
    ASSUME NEW i \in Streams, NEW list \in Seq(Symbols)
    PROVE  (\E k \in DOMAIN list : InSlice(i, k)) <=> i <= Slices(Len(list))
<1>1. Len(list) \in Nat /\ DOMAIN list = 1..Len(list)
  OBVIOUS
<1>2. PICK a \in Nat, b \in Nat : a = (i - 1) * SliceSize /\ b = i * SliceSize
  BY SliceBounds
<1>3. a < b
  <2>1. i \in Nat /\ SliceSize \in Nat \ {0}
    BY SliceAssumption DEF SliceAssumption, Streams
  <2>2. i * SliceSize = (i - 1) * SliceSize + SliceSize
    BY <2>1
  <2> QED BY <1>2, <2>1, <2>2
<1>4. (\E k \in 1..Len(list) : a < k /\ k <= b) <=> a < Len(list)
  <2>1. ASSUME a < Len(list) PROVE a + 1 \in 1..Len(list) /\ a < a + 1 /\ a + 1 <= b
    BY <1>1, <1>3, <2>1
  <2> QED BY <1>1, <2>1
<1> QED BY <1>1, <1>2, <1>4, SlicesLemma DEF InSlice

(* StreamsMatchSlices, in numbers.                                          *)
StreamsCount == \A i \in Streams : socket[i] # "absent" <=> i <= Slices(Len(symbols))

LEMMA CountIsMatch ==
    ASSUME SymbolsTypeOK
    PROVE  StreamsCount <=> StreamsMatchSlices
BY NonEmptySlice DEF SymbolsTypeOK, StreamsCount, StreamsMatchSlices

(* No step removes a stream, and only new symbols make one.                 *)
LEMMA NextKeepsCount == IInv /\ StreamsCount /\ [Next]_vars => StreamsCount'
<1> SUFFICES ASSUME IInv, StreamsCount, [Next]_vars PROVE StreamsCount'
  OBVIOUS
<1>1. ASSUME symbols' = symbols,
             \A i \in Streams : socket'[i] = "absent" <=> socket[i] = "absent"
      PROVE  StreamsCount'
  BY <1>1 DEF StreamsCount, Slices
<1>2. ASSUME NEW listed \in SUBSET Symbols, Add(listed), SymbolsUpdate PROVE StreamsCount'
  <2>1. Len(symbols) \in 0..Len(symbols') /\ Len(symbols') \in Nat /\ Len(symbols) \in Nat
    <3>1. SymbolsTypeOK /\ SymbolsTypeOK' /\ Len(symbols) \in 0..Len(symbols')
      BY <1>2, AddLemma DEF IInv, TypeOK
    <3> QED BY <3>1 DEF SymbolsTypeOK
  <2> SUFFICES ASSUME NEW i \in Streams
               PROVE  socket'[i] # "absent" <=> i <= Slices(Len(symbols'))
    BY DEF StreamsCount, Slices
  <2>2. i <= Slices(Len(symbols)) => i <= Slices(Len(symbols'))
    <3>1. (i - 1) * SliceSize \in Nat
      BY SliceBounds
    <3>2. /\ i <= Slices(Len(symbols)) <=> (i - 1) * SliceSize < Len(symbols)
          /\ i <= Slices(Len(symbols')) <=> (i - 1) * SliceSize < Len(symbols')
      BY <2>1, SlicesLemma
    <3> QED BY <2>1, <3>1, <3>2
  <2>3. socket'[i] = IF socket[i] = "absent" /\ i <= Slices(Len(symbols')) THEN "down" ELSE socket[i]
    BY <1>2 DEF SymbolsUpdate
  <2>4. socket[i] # "absent" <=> i <= Slices(Len(symbols))
    BY DEF StreamsCount
  <2> QED BY <2>2, <2>3, <2>4
<1>3. CASE RestConnect \/ RestDisconnect \/ RestRetry \/ RestErrorAck \/ RestSkippedAck \/ RestCurrenciesAck
  BY <1>1, <1>3
  DEF RestConnect, RestDisconnect, RestRetry, RestErrorAck, RestSkippedAck, RestCurrenciesAck,
      Rest, symbolVars, wsVars
<1>4. CASE RestInstrumentAck
  <2>1. PICK listed \in SUBSET Symbols : Add(listed)
    BY <1>4, FeedAssumption DEF RestInstrumentAck, FeedAssumption
  <2> QED BY <1>2, <1>4, <2>1 DEF RestInstrumentAck
<1>5. CASE ClientSubscribe
  BY <1>2, <1>5 DEF ClientSubscribe
<1>6. socket \in [Streams -> {"absent", "down", "connected", "open"}]
  BY DEF IInv, TypeOK, MarketDataTypeOK
<1>7. ASSUME NEW i \in Streams, WsConnect(i) \/ WsReady(i) \/ WsDisconnect(i) \/ WsWelcome(i)
      PROVE  StreamsCount'
  <2>1. symbols' = symbols
    BY <1>7 DEF WsConnect, WsReady, WsDisconnect, WsWelcome, Ws, symbolVars
  <2>2. \A j \in Streams : socket'[j] = "absent" <=> socket[j] = "absent"
    BY <1>6, <1>7
    DEF WsConnect, WsReady, WsDisconnect, WsWelcome, Ws, SocketConnected, SocketReady,
        SocketDisconnected, Disconnect, Welcome
  <2> QED BY <1>1, <2>1, <2>2
<1>8. CASE Timer
  <2>1. PICK stop \in Streams, expired \in SUBSET Streams :
          \E n \in 0..Len(queue[stop]) : Ws(StreamsTimer(stop, n, expired))
    BY <1>8 DEF Timer
  <2>2. /\ \A i \in expired : socket[i] = "connected"
        /\ socket' = [i \in Streams |-> IF i \in expired THEN "down" ELSE socket[i]]
        /\ symbols' = symbols
    BY <2>1 DEF Ws, StreamsTimer, Disconnect, symbolVars
  <2>3. \A i \in Streams : socket'[i] = "absent" <=> socket[i] = "absent"
    BY <2>2
  <2> QED BY <1>1, <2>2, <2>3
<1>9. CASE UNCHANGED vars
  BY <1>1, <1>9 DEF vars, symbolVars, wsVars
<1> QED BY <1>3, <1>4, <1>5, <1>7, <1>8, <1>9 DEF Next

(* A stream exists for each known symbol, and none was made without one,    *)
(* however the list grew (controller.cpp:217-219,246-256).                  *)
THEOREM StreamForEachSlice == Spec => []StreamsMatchSlices
<1>1. Init => StreamsCount
  <2> SUFFICES ASSUME Init, NEW i \in Streams
               PROVE  ~(i <= Slices(Len(symbols)))
    BY DEF Init, MarketDataInit, StreamsCount
  <2>1. Len(symbols) = 0
    BY DEF Init, SymbolsInit
  <2>2. (i - 1) * SliceSize \in Nat
    BY SliceBounds
  <2> QED BY <2>1, <2>2, SlicesLemma
<1>2. IInv /\ StreamsCount => StreamsMatchSlices
  BY CountIsMatch DEF IInv, TypeOK
<1> QED BY <1>1, <1>2, NextKeepsCount, Invariance, PTL DEF Spec
=============================================================================
