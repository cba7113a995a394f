-------------------------- MODULE OrderEcho_proofs --------------------------
(***************************************************************************)
(* Proofs about OrderEcho for any orders, sizes and bounds.                *)
(***************************************************************************)
EXTENDS OrderEcho, TLAPS

(* An order as the exchange has it: filled exactly when it is reported so,  *)
(* or was canceled after a fill.                                            *)
IsDone(item) == item.status \in {3, 5, 6}

OrderOK(item) ==
    /\ item \in ExchangeOrders
    /\ ~IsDone(item) => item.filled < Size
    /\ item.status \in {5, 6} => item.filled < Size

(* item is what the exchange had as order once, or has it still             *)
Before(item, order) ==
    /\ item.side = order.side /\ item.order_type = order.order_type
    /\ item.time_in_force = order.time_in_force
    /\ item.filled <= order.filled
    /\ IsDone(item) => item = order

(* The order of the exchange is the one the OMS created.                    *)
SameOrder(o, order) ==
    Known(created[o]) =>
        /\ MapSide(order.side) = created[o].side
        /\ order.order_type = created[o].order_type
        /\ created[o].order_type = "LIMIT" /\ created[o].time_in_force \in {"GTC", "IOC", "FOK"}
              => order.time_in_force = created[o].time_in_force

(* What the OMS was told is what the exchange had.                          *)
ToldBy(o, order) == \E item \in ExchangeOrders :
    OrderOK(item) /\ Before(item, order) /\ told[o] = OrderUpdate(item)

IsOrderOf(r, o) == r = [op |-> "uta.order", args |-> AddOrder(o, created[o])]

RequestInv(r) ==
    \/ \E o \in Orders \ Foreign : Known(created[o]) /\ ~Known(book[o]) /\ IsOrderOf(r, o)
    \/ r.op = "uta.cancel" /\ r.args.id \in Orders

BookInv(o) ==
    /\ o \in Foreign => ~Known(created[o])
    /\ Known(book[o]) =>
          /\ OrderOK(book[o]) /\ SameOrder(o, book[o])
          /\ Known(created[o]) \/ o \in Foreign
    /\ Known(told[o]) => Known(book[o]) /\ ToldBy(o, book[o])

ListInv(list) ==
    \A o \in DOMAIN list :
        /\ o \in Orders /\ Known(book[o])
        /\ OrderOK(list[o]) /\ Before(list[o], book[o])
        /\ Known(told[o]) => ToldBy(o, list[o])

(* The inductive invariant.                                                 *)
IInv ==
    /\ created \in [Orders -> CreateOrders \cup {None}]
    /\ told \in [Orders -> OrderUpdates \cup {None}]
    /\ book \in [Orders -> ExchangeOrders \cup {None}]
    /\ asked \in Nat /\ cancels \in 0..MaxCancels /\ listed \in 0..MaxLists
    /\ \A r \in requests : RequestInv(r)
    /\ \A o \in Orders : BookInv(o)
    /\ \A list \in lists : ListInv(list)
    /\ asked > 0 => asked = 1 /\ lists = {}
    /\ \A l1, l2 \in lists : l1 = l2

-----------------------------------------------------------------------------
(* The maps.                                                                *)

LEMMA MapSideLemma ==
    /\ \A text \in SideTexts : MapSide(text) \in Sides
    /\ \A side \in Sides : \A text \in Spellings(side) : text \in SideTexts /\ MapSide(text) = side
BY DEF MapSide, SideTexts, Sides, Spellings

LEMMA MapStatusLemma ==
    /\ MapStatus(0) = "SUSPENDED" /\ MapStatus(1) = "ACCEPTED" /\ MapStatus(2) = "WORKING"
    /\ MapStatus(3) = "COMPLETED" /\ MapStatus(4) = "WORKING"
    /\ MapStatus(5) = "CANCELED" /\ MapStatus(6) = "CANCELED"
BY DEF MapStatus

(* What an OrderUpdate says of the order it is made from.                   *)
LEMMA OrderUpdateLemma ==
    ASSUME NEW item, OrderOK(item)
    PROVE  LET u == OrderUpdate(item) IN
           /\ u \in OrderUpdates
           /\ u.side = MapSide(item.side) /\ u.order_type = item.order_type
           /\ item.time_in_force \in {"GTC", "IOC", "FOK"} => u.time_in_force = item.time_in_force
           /\ u.traded = item.filled
           /\ u.order_status = "COMPLETED" => item.status = 3 /\ item.filled = Size
           /\ u.order_status = "CANCELED" => IsDone(item) /\ u.remaining = 0
           /\ u.order_status # "CANCELED" => u.traded + u.remaining = Size
<1> DEFINE u == OrderUpdate(item)
<1>1. /\ item.side \in SideTexts /\ item.order_type \in OrderTypes
      /\ item.time_in_force \in TimeInForceTexts /\ item.status \in StatusCodes
      /\ item.filled \in 0..Size
  BY DEF OrderOK, ExchangeOrders
<1>2. Size \in Nat /\ item.filled \in Nat /\ Size - item.filled \in 0..Size
  BY <1>1, OrderEchoAssumption DEF OrderEchoAssumption
<1>3. item.status \in {0, 1, 2, 3, 4, 5, 6}
  BY <1>1 DEF StatusCodes
<1>4. /\ OrderStatusOf(item) \in {"SUSPENDED", "ACCEPTED", "WORKING", "COMPLETED", "CANCELED"}
      /\ OrderStatusOf(item) = "COMPLETED" => item.status = 3 /\ item.filled = Size
      /\ OrderStatusOf(item) = "CANCELED" => item.status \in {3, 5, 6}
  BY <1>3, MapStatusLemma DEF OrderStatusOf
<1>5. MapSide(item.side) \in Sides
  BY <1>1, MapSideLemma
<1>6. MapOrderType(item.order_type) = item.order_type
  BY <1>1 DEF MapOrderType
<1>7. /\ MapTimeInForce(item.time_in_force) \in {"GTC", "IOC", "FOK", "UNDEFINED"}
      /\ item.time_in_force \in {"GTC", "IOC", "FOK"} =>
            MapTimeInForce(item.time_in_force) = item.time_in_force
  BY DEF MapTimeInForce
<1> DEFINE remaining == IF OrderStatusOf(item) = "CANCELED" THEN 0 ELSE Size - item.filled
<1>8. u = [side |-> MapSide(item.side), order_type |-> item.order_type,
           time_in_force |-> MapTimeInForce(item.time_in_force),
           order_status |-> OrderStatusOf(item), remaining |-> remaining,
           traded |-> item.filled]
  BY <1>6 DEF OrderUpdate
<1>9. remaining \in 0..Size
  BY <1>2
<1>10. u \in OrderUpdates
  <2> HIDE DEF u, remaining
  <2> QED BY <1>1, <1>4, <1>5, <1>7, <1>8, <1>9 DEF OrderUpdates
<1>11. /\ u.side = MapSide(item.side) /\ u.order_type = item.order_type
       /\ u.time_in_force = MapTimeInForce(item.time_in_force)
       /\ u.order_status = OrderStatusOf(item) /\ u.remaining = remaining
       /\ u.traded = item.filled
  <2> HIDE DEF u, remaining
  <2> QED BY <1>8
<1>12. u.order_status = "CANCELED" => IsDone(item) /\ u.remaining = 0
  BY <1>4, <1>11 DEF IsDone
<1>13. u.order_status # "CANCELED" => u.traded + u.remaining = Size
  BY <1>2, <1>11
<1> HIDE DEF u, remaining
<1> QED BY <1>4, <1>7, <1>10, <1>11, <1>12, <1>13 DEF u

(* An order that is done is told as one that is done.                       *)
LEMMA DoneLemma ==
    ASSUME NEW item, OrderOK(item)
    PROVE  OrderUpdate(item).order_status \in {"COMPLETED", "CANCELED"} => IsDone(item)
BY OrderUpdateLemma DEF IsDone

LEMMA BeforeIsTransitive ==
    ASSUME NEW a, NEW b, NEW c, OrderOK(a), OrderOK(b), OrderOK(c), Before(a, b), Before(b, c)
    PROVE  Before(a, c)
<1>1. a.filled \in Nat /\ b.filled \in Nat /\ c.filled \in Nat
  BY OrderEchoAssumption DEF OrderOK, ExchangeOrders, OrderEchoAssumption
<1> QED BY <1>1 DEF Before

LEMMA NoneLemma ==
    /\ ~Known(None)
    /\ \A order \in CreateOrders \cup ExchangeOrders \cup OrderUpdates : Known(order)
BY OrderEchoAssumption DEF Known, OrderEchoAssumption

-----------------------------------------------------------------------------
LEMMA InitIInv == Init => IInv
<1> SUFFICES ASSUME Init PROVE IInv
  OBVIOUS
<1> USE DEF Init
<1>1. \A o \in Orders : BookInv(o)
  BY NoneLemma DEF BookInv
<1>2. asked \in Nat /\ cancels \in 0..MaxCancels /\ listed \in 0..MaxLists
  BY OrderEchoAssumption DEF OrderEchoAssumption
<1> QED BY <1>1, <1>2 DEF IInv

-----------------------------------------------------------------------------
(* The exchange.                                                            *)

(* An order of the exchange moves on.                                       *)
LEMMA BookStep ==
    ASSUME IInv, NEW o \in Orders, NEW order, Known(book[o]), OrderOK(order),
           Before(book[o], order), SetBook(o, order), requests' \in SUBSET requests
    PROVE  IInv'
<1> USE DEF SetBook
<1>1. order \in ExchangeOrders /\ Known(order)
  BY NoneLemma DEF OrderOK
<1>2. /\ book' \in [Orders -> ExchangeOrders \cup {None}] /\ book'[o] = order
      /\ \A q \in Orders \ {o} : book'[q] = book[q]
  BY <1>1 DEF IInv
<1>3. ASSUME NEW q \in Orders, Known(book[q])
      PROVE  /\ Known(book'[q]) /\ OrderOK(book[q]) /\ OrderOK(book'[q]) /\ Before(book[q], book'[q])
  <2>1. OrderOK(book[q])
    BY <1>3 DEF IInv, BookInv
  <2>2. CASE q = o
    BY <1>1, <1>2, <2>1, <2>2
  <2>3. CASE q # o
    <3>1. book[q].filled \in Nat
      BY <2>1, OrderEchoAssumption DEF OrderOK, ExchangeOrders, OrderEchoAssumption
    <3> QED BY <1>2, <1>3, <2>1, <2>3, <3>1 DEF Before
  <2> QED BY <2>2, <2>3
<1>4. ASSUME NEW r \in requests' PROVE RequestInv(r)'
  <2>1. RequestInv(r)
    BY DEF IInv
  <2>2. CASE \E q \in Orders \ Foreign : Known(created[q]) /\ ~Known(book[q]) /\ IsOrderOf(r, q)
    BY <1>2, <2>2 DEF RequestInv, IsOrderOf
  <2>3. CASE r.op = "uta.cancel" /\ r.args.id \in Orders
    BY <2>3 DEF RequestInv
  <2> QED BY <2>1, <2>2, <2>3 DEF RequestInv
<1>5. ASSUME NEW q \in Orders PROVE BookInv(q)'
  <2>1. BookInv(q)
    BY DEF IInv
  <2>2. Known(book'[q]) => OrderOK(book'[q])
    BY <1>1, <1>2, <1>3
  <2>3. Known(book'[q]) => Known(book[q])
    BY <1>2
  <2>4. Known(book[q]) => SameOrder(q, book'[q])
    BY <1>3, <2>1 DEF BookInv, SameOrder, Before
  <2>5. Known(told[q]) => ToldBy(q, book'[q])
    <3> SUFFICES ASSUME Known(told[q]) PROVE ToldBy(q, book'[q])
      OBVIOUS
    <3>1. PICK item \in ExchangeOrders :
              OrderOK(item) /\ Before(item, book[q]) /\ told[q] = OrderUpdate(item)
      BY <2>1 DEF BookInv, ToldBy
    <3>2. Before(item, book'[q])
      BY <1>3, <2>1, <3>1, BeforeIsTransitive DEF BookInv
    <3> QED BY <3>1, <3>2 DEF ToldBy
  <2>6. Known(told[q]) => Known(book'[q])
    BY <1>3, <2>1 DEF BookInv
  <2> QED BY <2>1, <2>2, <2>3, <2>4, <2>5, <2>6 DEF BookInv, SameOrder, ToldBy
<1>6. ASSUME NEW list \in lists PROVE ListInv(list)'
  <2>1. ASSUME NEW q \in DOMAIN list
        PROVE  /\ q \in Orders /\ Known(book'[q])
               /\ OrderOK(list[q]) /\ Before(list[q], book'[q])
               /\ Known(told[q]) => ToldBy(q, list[q])
    <3>1. /\ q \in Orders /\ Known(book[q])
          /\ OrderOK(list[q]) /\ Before(list[q], book[q])
          /\ Known(told[q]) => ToldBy(q, list[q])
      BY <2>1 DEF IInv, ListInv
    <3>2. Before(list[q], book'[q])
      BY <1>3, <3>1, BeforeIsTransitive
    <3> QED BY <1>3, <3>1, <3>2
  <2> QED BY <2>1 DEF ListInv, ToldBy
<1> QED BY <1>2, <1>4, <1>5, <1>6 DEF IInv

(* An order becomes known to the exchange.                                  *)
LEMMA NewOrderStep ==
    ASSUME IInv, NEW o \in Orders, NEW order, ~Known(book[o]), OrderOK(order),
           SameOrder(o, order), Known(created[o]) \/ o \in Foreign,
           SetBook(o, order), requests' \in SUBSET requests,
           \A r \in requests' : ~IsOrderOf(r, o)
    PROVE  IInv'
<1> USE DEF SetBook
<1>1. order \in ExchangeOrders /\ Known(order)
  BY NoneLemma DEF OrderOK
<1>2. /\ book' \in [Orders -> ExchangeOrders \cup {None}] /\ book'[o] = order
      /\ \A q \in Orders \ {o} : book'[q] = book[q]
  BY <1>1 DEF IInv
<1>3. ASSUME NEW r \in requests' PROVE RequestInv(r)'
  <2>1. RequestInv(r)
    BY DEF IInv
  <2>2. CASE \E q \in Orders \ Foreign : Known(created[q]) /\ ~Known(book[q]) /\ IsOrderOf(r, q)
    <3>1. PICK q \in Orders \ Foreign : Known(created[q]) /\ ~Known(book[q]) /\ IsOrderOf(r, q)
      BY <2>2
    <3>2. q # o
      BY <3>1
    <3>3. Known(created'[q]) /\ ~Known(book'[q]) /\ IsOrderOf(r, q)'
      BY <1>2, <3>1, <3>2 DEF IsOrderOf
    <3> QED BY <3>3 DEF RequestInv
  <2>3. CASE r.op = "uta.cancel" /\ r.args.id \in Orders
    BY <2>3 DEF RequestInv
  <2> QED BY <2>1, <2>2, <2>3 DEF RequestInv
<1>4. ~Known(told[o])
  BY DEF IInv, BookInv
<1>5. ASSUME NEW q \in Orders PROVE BookInv(q)'
  <2>1. BookInv(q)
    BY DEF IInv
  <2>2. CASE q = o
    BY <1>1, <1>2, <1>4, <2>1, <2>2 DEF BookInv, SameOrder
  <2>3. CASE q # o
    BY <1>2, <2>1, <2>3 DEF BookInv, SameOrder, ToldBy
  <2> QED BY <2>2, <2>3
<1>6. ASSUME NEW list \in lists PROVE ListInv(list)'
  <2>1. ASSUME NEW q \in DOMAIN list
        PROVE  /\ q \in Orders /\ Known(book'[q])
               /\ OrderOK(list[q]) /\ Before(list[q], book'[q])
               /\ Known(told[q]) => ToldBy(q, list[q])
    <3>1. /\ q \in Orders /\ Known(book[q])
          /\ OrderOK(list[q]) /\ Before(list[q], book[q])
          /\ Known(told[q]) => ToldBy(q, list[q])
      BY <2>1 DEF IInv, ListInv
    <3> QED BY <1>2, <3>1
  <2> QED BY <2>1 DEF ListInv, ToldBy
<1> QED BY <1>2, <1>3, <1>5, <1>6 DEF IInv

LEMMA AcceptOrderStep ==
    ASSUME IInv, NEW r \in requests, AcceptOrder(r)
    PROVE  IInv'
<1>1. RequestInv(r) /\ r.op = "uta.order" /\ requests' = requests \ {r}
  BY DEF IInv, AcceptOrder
<1>2. PICK o \in Orders \ Foreign : Known(created[o]) /\ ~Known(book[o]) /\ IsOrderOf(r, o)
  BY <1>1 DEF RequestInv
<1>3. created[o] \in CreateOrders
  BY <1>2, NoneLemma DEF IInv
<1>4. /\ created[o].side \in Sides /\ created[o].order_type \in OrderTypes
      /\ created[o].time_in_force \in TimesInForce
  BY <1>3 DEF CreateOrders
<1>5. /\ r.args.clientOid = o /\ r.args.side = created[o].side
      /\ r.args.orderType = created[o].order_type
      /\ r.args.timeInForce = IF created[o].order_type = "LIMIT"
                              THEN TimeInForceText(created[o].time_in_force) ELSE NoText
  BY <1>2, <1>4 DEF IsOrderOf, AddOrder, SideText, OrderTypeText
<1> DEFINE tif == IF r.args.timeInForce = NoText THEN "GTC" ELSE r.args.timeInForce
<1>6. /\ tif \in TimeInForceTexts
      /\ created[o].order_type = "LIMIT" /\ created[o].time_in_force \in {"GTC", "IOC", "FOK"}
            => tif = created[o].time_in_force
  BY <1>5 DEF TimeInForceText, NoText, TimeInForceTexts
<1> HIDE DEF tif
<1>7. PICK side \in Spellings(created[o].side) :
          SetBook(o, [side |-> side, order_type |-> created[o].order_type,
                      time_in_force |-> tif, status |-> 2, filled |-> 0])
  BY <1>5 DEF AcceptOrder, tif
<1> DEFINE order == [side |-> side, order_type |-> created[o].order_type,
                     time_in_force |-> tif, status |-> 2, filled |-> 0]
<1>8. side \in SideTexts /\ MapSide(side) = created[o].side
  BY <1>4, MapSideLemma
<1>9. order \in ExchangeOrders
  BY <1>4, <1>6, <1>8, OrderEchoAssumption DEF ExchangeOrders, StatusCodes, OrderEchoAssumption
<1>10. OrderOK(order)
  BY <1>9, OrderEchoAssumption DEF OrderOK, IsDone, OrderEchoAssumption
<1>11. SameOrder(o, order)
  BY <1>6, <1>8 DEF SameOrder
<1>12. \A q \in requests' : ~IsOrderOf(q, o)
  BY <1>1, <1>2 DEF IsOrderOf
<1> HIDE DEF order
<1> QED BY <1>1, <1>2, <1>7, <1>10, <1>11, <1>12, NewOrderStep DEF order

LEMMA PlaceStep ==
    ASSUME IInv, NEW o \in Orders, NEW order \in Placed, Place(o, order)
    PROVE  IInv'
<1>1. o \in Foreign /\ ~Known(book[o]) /\ SetBook(o, order) /\ requests' = requests
  BY DEF Place
<1>2. OrderOK(order)
  BY OrderEchoAssumption DEF OrderOK, IsDone, OrderEchoAssumption
<1>3. ~Known(created[o])
  BY <1>1 DEF IInv, BookInv
<1>4. SameOrder(o, order)
  BY <1>3 DEF SameOrder
<1>5. ASSUME NEW r \in requests PROVE ~IsOrderOf(r, o)
  <2>1. RequestInv(r)
    BY DEF IInv
  <2>2. CASE r.op = "uta.cancel"
    BY <2>2 DEF IsOrderOf
  <2>3. CASE \E q \in Orders \ Foreign : IsOrderOf(r, q)
    <3>1. PICK q \in Orders \ Foreign : IsOrderOf(r, q)
      BY <2>3
    <3>2. r.args.clientOid = q
      BY <3>1 DEF IsOrderOf, AddOrder
    <3>3. SUFFICES ASSUME IsOrderOf(r, o) PROVE FALSE
      OBVIOUS
    <3>4. r.args.clientOid = o
      BY <3>3 DEF IsOrderOf, AddOrder
    <3> QED BY <1>1, <3>2, <3>4
  <2> QED BY <2>1, <2>2, <2>3 DEF RequestInv
<1> QED BY <1>1, <1>2, <1>4, <1>5, NewOrderStep

(* An open order that is done is as it was, or has moved on.                *)
LEMMA DoneStep ==
    ASSUME IInv, NEW o \in Orders, IsOpen(o), NEW order \in Done(book[o]),
           SetBook(o, order), requests' \in SUBSET requests
    PROVE  IInv'
<1>1. Known(book[o]) /\ OrderOK(book[o]) /\ ~IsDone(book[o])
  BY DEF IInv, BookInv, IsOpen, IsDone
<1>2. PICK s \in {3, 5, 6} :
          order = [book[o] EXCEPT !.status = s] /\ (s = 3 => book[o].filled # 0)
  BY DEF Done
<1>3. book[o] \in ExchangeOrders
  BY <1>1 DEF OrderOK
<1>4. order \in ExchangeOrders
  BY <1>2, <1>3 DEF ExchangeOrders, StatusCodes
<1>5. /\ order.side = book[o].side /\ order.order_type = book[o].order_type
      /\ order.time_in_force = book[o].time_in_force /\ order.filled = book[o].filled
  BY <1>2, <1>3 DEF ExchangeOrders
<1>6. book[o].filled \in Nat
  BY <1>3, OrderEchoAssumption DEF ExchangeOrders, OrderEchoAssumption
<1>7. OrderOK(order)
  BY <1>1, <1>4, <1>5 DEF OrderOK
<1>8. Before(book[o], order)
  BY <1>1, <1>5, <1>6 DEF Before
<1> QED BY <1>1, <1>7, <1>8, BookStep

LEMMA MoveStep ==
    ASSUME IInv, NEW o \in Orders, Trigger(o) \/ Fill(o)
    PROVE  IInv'
<1>1. Known(book[o]) /\ OrderOK(book[o]) /\ ~IsDone(book[o]) /\ requests' = requests
  BY DEF IInv, BookInv, IsOpen, IsDone, Trigger, Fill
<1>2. book[o] \in ExchangeOrders /\ book[o].filled \in Nat /\ book[o].filled < Size /\ Size \in Nat
  BY <1>1, OrderEchoAssumption DEF OrderOK, ExchangeOrders, OrderEchoAssumption
<1>3. CASE Trigger(o)
  <2> DEFINE order == [book[o] EXCEPT !.status = @ + 1]
  <2>1. book[o].status \in {0, 1} /\ SetBook(o, order)
    BY <1>2, <1>3 DEF Trigger, IsOpen
  <2>2. order \in ExchangeOrders /\ order.status \in {1, 2}
    BY <1>2, <2>1 DEF ExchangeOrders, StatusCodes
  <2>3. /\ order.side = book[o].side /\ order.order_type = book[o].order_type
        /\ order.time_in_force = book[o].time_in_force /\ order.filled = book[o].filled
    BY <1>2 DEF ExchangeOrders
  <2> HIDE DEF order
  <2>4. OrderOK(order) /\ Before(book[o], order)
    BY <1>1, <1>2, <2>2, <2>3 DEF OrderOK, Before, IsDone
  <2> QED BY <1>1, <2>1, <2>4, BookStep
<1>4. CASE Fill(o)
  <2> DEFINE s == IF book[o].filled + 1 = Size THEN 3 ELSE 4
             order == [book[o] EXCEPT !.filled = @ + 1, !.status = s]
  <2>1. SetBook(o, order)
    BY <1>4 DEF Fill
  <2>0. s \in {3, 4} /\ s \in StatusCodes /\ (book[o].filled + 1 = Size \/ s = 4)
    BY DEF StatusCodes
  <2>5. book[o].filled + 1 \in 0..Size
    BY <1>2
  <2>6. s = 4 => book[o].filled + 1 < Size
    BY <1>2
  <2> HIDE DEF s
  <2>2. order \in ExchangeOrders /\ order.status = s
    BY <1>2, <2>0, <2>5 DEF ExchangeOrders
  <2>3. /\ order.side = book[o].side /\ order.order_type = book[o].order_type
        /\ order.time_in_force = book[o].time_in_force /\ order.filled = book[o].filled + 1
    BY <1>2 DEF ExchangeOrders
  <2> HIDE DEF order
  <2>4. OrderOK(order) /\ Before(book[o], order)
    BY <1>1, <1>2, <2>0, <2>6, <2>2, <2>3 DEF OrderOK, Before, IsDone
  <2> QED BY <1>1, <2>1, <2>4, BookStep
<1> QED BY <1>3, <1>4

-----------------------------------------------------------------------------
(* The OMS and the private session.                                         *)

LEMMA CreateOrderStep ==
    ASSUME IInv, NEW o \in Orders, NEW order \in Wanted, CreateOrder(o, order)
    PROVE  IInv'
<1> USE DEF CreateOrder
<1>1. order \in CreateOrders /\ Known(order) /\ o \notin Foreign /\ ~Known(created[o])
  BY NoneLemma, OrderEchoAssumption DEF OrderEchoAssumption
<1>2. /\ created' \in [Orders -> CreateOrders \cup {None}] /\ created'[o] = order
      /\ \A q \in Orders \ {o} : created'[q] = created[q]
  BY <1>1 DEF IInv
<1>3. ~Known(book[o]) /\ ~Known(told[o])
  BY <1>1 DEF IInv, BookInv
<1>4. ASSUME NEW r \in requests' PROVE RequestInv(r)'
  <2>1. CASE r \in requests
    <3>1. CASE \E q \in Orders \ Foreign : Known(created[q]) /\ ~Known(book[q]) /\ IsOrderOf(r, q)
      <4>1. PICK q \in Orders \ Foreign : Known(created[q]) /\ ~Known(book[q]) /\ IsOrderOf(r, q)
        BY <3>1
      <4>2. q # o
        BY <1>1, <4>1
      <4>3. Known(created'[q]) /\ ~Known(book'[q]) /\ IsOrderOf(r, q)'
        BY <1>2, <4>1, <4>2 DEF IsOrderOf
      <4> QED BY <4>3 DEF RequestInv
    <3>2. CASE r.op = "uta.cancel" /\ r.args.id \in Orders
      BY <3>2 DEF RequestInv
    <3> QED BY <2>1, <3>1, <3>2 DEF IInv, RequestInv
  <2>2. CASE r = [op |-> "uta.order", args |-> AddOrder(o, order)]
    <3>1. IsOrderOf(r, o)'
      BY <1>2, <2>2 DEF IsOrderOf
    <3>2. Known(created'[o]) /\ ~Known(book'[o])
      BY <1>1, <1>2, <1>3
    <3> QED BY <1>1, <3>1, <3>2 DEF RequestInv
  <2> QED BY <2>1, <2>2
<1>5. ASSUME NEW q \in Orders PROVE BookInv(q)'
  <2>1. BookInv(q)
    BY DEF IInv
  <2>2. CASE q = o
    BY <1>1, <1>2, <1>3, <2>2 DEF BookInv
  <2>3. CASE q # o
    BY <1>2, <2>1, <2>3 DEF BookInv, SameOrder, ToldBy
  <2> QED BY <2>2, <2>3
<1>6. ASSUME NEW list \in lists PROVE ListInv(list)'
  BY DEF IInv, ListInv, ToldBy
<1> QED BY <1>2, <1>4, <1>5, <1>6 DEF IInv

(* A step that adds no order and tells the OMS nothing.                     *)
LEMMA QuietStep ==
    ASSUME IInv, UNCHANGED <<created, told, book>>,
           asked' \in Nat, cancels' \in 0..MaxCancels, listed' \in 0..MaxLists,
           \A r \in requests' : r \in requests \/ (r.op = "uta.cancel" /\ r.args.id \in Orders),
           \A list \in lists' : ListInv(list),
           asked' > 0 => asked' = 1 /\ lists' = {},
           \A l1, l2 \in lists' : l1 = l2
    PROVE  IInv'
<1>1. \A r \in requests' : RequestInv(r)'
  <2> SUFFICES ASSUME NEW r \in requests' PROVE RequestInv(r)'
    OBVIOUS
  <2>1. RequestInv(r)
    BY DEF IInv, RequestInv
  <2> QED BY <2>1 DEF RequestInv, IsOrderOf
<1>2. \A o \in Orders : BookInv(o)'
  BY DEF IInv, BookInv, SameOrder, ToldBy
<1>3. \A list \in lists' : ListInv(list)'
  BY DEF ListInv, ToldBy
<1> QED BY <1>1, <1>2, <1>3 DEF IInv

LEMMA CancelOrderStep == ASSUME IInv, NEW o \in Orders, CancelOrder(o) PROVE IInv'
<1> USE DEF CancelOrder
<1>1. cancels' \in 0..MaxCancels
  BY OrderEchoAssumption DEF IInv, OrderEchoAssumption
<1>2. ASSUME NEW r \in requests', r \notin requests
      PROVE  r.op = "uta.cancel" /\ r.args.id \in Orders
  BY <1>2 DEF CancelArgs
<1> QED BY <1>1, <1>2, QuietStep DEF IInv

LEMMA RefuseStep == ASSUME IInv, NEW r \in requests, Refuse(r) PROVE IInv'
BY QuietStep DEF Refuse, IInv

LEMMA GetOrdersStep == ASSUME IInv, GetOrders PROVE IInv'
<1> USE DEF GetOrders
<1>1. listed' \in 0..MaxLists /\ asked' = 1
  BY OrderEchoAssumption DEF IInv, OrderEchoAssumption
<1> QED BY <1>1, QuietStep DEF IInv

LEMMA OrdersErrorStep == ASSUME IInv, OrdersError PROVE IInv'
<1>1. CASE asked > 0 /\ asked' = asked - 1 /\ UNCHANGED lists
  BY <1>1, QuietStep DEF OrdersError, IInv
<1>2. CASE \E list \in lists : lists' = lists \ {list} /\ UNCHANGED asked
  <2>1. lists' \in SUBSET lists
    BY <1>2
  <2>2. asked' > 0 => asked' = 1 /\ lists' = {}
    BY <1>2, <2>1 DEF IInv
  <2>3. \A l1, l2 \in lists' : l1 = l2
    BY <2>1 DEF IInv
  <2> QED BY <1>2, <2>1, <2>2, <2>3, QuietStep DEF OrdersError, IInv
<1> QED BY <1>1, <1>2 DEF OrdersError

LEMMA ListOrdersStep == ASSUME IInv, ListOrders PROVE IInv'
<1>1. asked = 1 /\ lists = {} /\ asked' = 0
  BY DEF IInv, ListOrders
<1>2. PICK shown \in SUBSET {o \in Orders : Known(book[o])} :
          lists' = lists \cup {[o \in shown |-> book[o]]}
  BY DEF ListOrders
<1> DEFINE list == [o \in shown |-> book[o]]
<1>3. ListInv(list)
  <2> SUFFICES ASSUME NEW o \in shown
               PROVE  /\ o \in Orders /\ Known(book[o])
                      /\ OrderOK(book[o]) /\ Before(book[o], book[o])
                      /\ Known(told[o]) => ToldBy(o, book[o])
    BY DEF ListInv
  <2>1. BookInv(o) /\ Known(book[o])
    BY <1>2 DEF IInv
  <2>2. book[o].filled \in Nat
    BY <2>1, OrderEchoAssumption DEF BookInv, OrderOK, ExchangeOrders, OrderEchoAssumption
  <2> QED BY <2>1, <2>2 DEF BookInv, Before
<1>4. lists' = {list}
  BY <1>1, <1>2
<1> HIDE DEF list
<1> QED BY <1>1, <1>3, <1>4, QuietStep DEF ListOrders, IInv

(* What the OMS is told of the orders in the list.                          *)
LEMMA OrdersAckStep == ASSUME IInv, OrdersAck PROVE IInv'
<1>1. PICK list \in lists :
          /\ lists' = lists \ {list}
          /\ told' = [o \in Orders |-> IF o \in DOMAIN list THEN OrderUpdate(list[o]) ELSE told[o]]
          /\ UNCHANGED <<created, requests, book, asked, cancels, listed>>
  BY DEF OrdersAck
<1>2. ListInv(list) /\ lists' = {} /\ asked' = asked
  BY <1>1 DEF IInv
<1>3. told' \in [Orders -> OrderUpdates \cup {None}]
  <2> SUFFICES ASSUME NEW o \in Orders, o \in DOMAIN list PROVE OrderUpdate(list[o]) \in OrderUpdates
    BY <1>1 DEF IInv
  <2>1. OrderOK(list[o])
    BY <1>2 DEF ListInv
  <2> QED BY <2>1, OrderUpdateLemma
<1>4. ASSUME NEW o \in Orders PROVE BookInv(o)'
  <2>1. BookInv(o)
    BY DEF IInv
  <2>2. CASE o \in DOMAIN list
    <3>1. Known(book[o]) /\ OrderOK(list[o]) /\ Before(list[o], book[o])
      BY <1>2, <2>2 DEF ListInv
    <3>2. told'[o] = OrderUpdate(list[o])
      BY <1>1, <2>2
    <3>3. list[o] \in ExchangeOrders
      BY <3>1 DEF OrderOK
    <3>4. ToldBy(o, book[o])'
      BY <1>1, <3>1, <3>2, <3>3 DEF ToldBy
    <3> QED BY <1>1, <2>1, <3>1, <3>4 DEF BookInv, SameOrder
  <2>3. CASE o \notin DOMAIN list
    <3>1. told'[o] = told[o]
      BY <1>1, <2>3
    <3> QED BY <1>1, <2>1, <3>1 DEF BookInv, SameOrder, ToldBy
  <2> QED BY <2>2, <2>3
<1>5. \A r \in requests' : RequestInv(r)'
  BY <1>1 DEF IInv, RequestInv, IsOrderOf
<1> QED BY <1>1, <1>2, <1>3, <1>4, <1>5 DEF IInv

-----------------------------------------------------------------------------
LEMMA NextIInv == IInv /\ [Next]_vars => IInv'
<1> SUFFICES ASSUME IInv, [Next]_vars PROVE IInv'
  OBVIOUS
<1>1. CASE \E o \in Orders : \E order \in Wanted : CreateOrder(o, order)
  BY <1>1, CreateOrderStep
<1>2. CASE \E o \in Orders : \E order \in Placed : Place(o, order)
  BY <1>2, PlaceStep
<1>3. CASE \E o \in Orders : CancelOrder(o)
  BY <1>3, CancelOrderStep
<1>4. CASE \E o \in Orders : Trigger(o) \/ Fill(o)
  BY <1>4, MoveStep
<1>5. CASE \E o \in Orders : Close(o)
  <2>1. PICK o \in Orders : Close(o)
    BY <1>5
  <2>2. PICK order \in Done(book[o]) : SetBook(o, order)
    BY <2>1 DEF Close
  <2>3. IsOpen(o) /\ requests' = requests
    BY <2>1 DEF Close
  <2> QED BY <2>2, <2>3, DoneStep
<1>6. CASE \E r \in requests : AcceptOrder(r)
  BY <1>6, AcceptOrderStep
<1>7. CASE \E r \in requests : AcceptCancel(r)
  <2>1. PICK r \in requests : AcceptCancel(r)
    BY <1>7
  <2>2. r.args.id \in Orders
    <3>1. RequestInv(r) /\ r.op = "uta.cancel"
      BY <2>1 DEF IInv, AcceptCancel
    <3> QED BY <3>1 DEF RequestInv, IsOrderOf
  <2>3. PICK order \in Done(book[r.args.id]) : SetBook(r.args.id, order)
    BY <2>1 DEF AcceptCancel
  <2>4. IsOpen(r.args.id) /\ requests' \in SUBSET requests
    BY <2>1 DEF AcceptCancel
  <2> QED BY <2>2, <2>3, <2>4, DoneStep
<1>8. CASE \E r \in requests : Refuse(r)
  BY <1>8, RefuseStep
<1>9. CASE GetOrders \/ ListOrders \/ OrdersAck \/ OrdersError
  BY <1>9, GetOrdersStep, ListOrdersStep, OrdersAckStep, OrdersErrorStep
<1>10. CASE UNCHANGED vars
  BY <1>10, QuietStep DEF vars, IInv
<1> QED BY <1>1, <1>2, <1>3, <1>4, <1>5, <1>6, <1>7, <1>8, <1>9, <1>10 DEF Next

(* The invariant holds in every reachable state.                            *)
THEOREM Invariance == Spec => []IInv
<1> QED BY InitIInv, NextIInv, PTL DEF Spec

(* Every variable keeps its type.                                           *)
THEOREM TypeCorrect == Spec => []TypeOK
<1>1. IInv => TypeOK
  BY DEF IInv, TypeOK, ListInv, OrderOK
<1> QED BY <1>1, Invariance, PTL

(* What comes back is what was asked for.                                   *)
THEOREM OrdersAreEchoed == Spec => []EchoMatches
<1>1. IInv => EchoMatches
  <2> SUFFICES ASSUME IInv, NEW o \in Orders, Known(told[o]), Known(created[o])
               PROVE  /\ told[o].side = created[o].side
                      /\ told[o].order_type = created[o].order_type
                      /\ created[o].order_type = "LIMIT" /\ created[o].time_in_force \in {"GTC", "IOC", "FOK"}
                            => told[o].time_in_force = created[o].time_in_force
    BY DEF EchoMatches
  <2>1. SameOrder(o, book[o]) /\ ToldBy(o, book[o])
    BY DEF IInv, BookInv
  <2>2. PICK item \in ExchangeOrders :
            OrderOK(item) /\ Before(item, book[o]) /\ told[o] = OrderUpdate(item)
    BY <2>1 DEF ToldBy
  <2>3. /\ told[o].side = MapSide(item.side) /\ told[o].order_type = item.order_type
        /\ item.time_in_force \in {"GTC", "IOC", "FOK"} => told[o].time_in_force = item.time_in_force
    BY <2>2, OrderUpdateLemma
  <2> QED BY <2>1, <2>2, <2>3 DEF SameOrder, Before
<1> QED BY <1>1, Invariance, PTL

(* The OMS is never ahead of the exchange.                                  *)
THEOREM OmsIsNotAhead == Spec => []OmsFollowsExchange
<1>1. IInv => OmsFollowsExchange
  <2> SUFFICES ASSUME IInv, NEW o \in Orders, Known(told[o])
               PROVE  /\ Known(book[o]) /\ told[o].traded <= book[o].filled
                      /\ told[o].order_status = "COMPLETED" => told[o].traded = Size
                      /\ told[o].order_status = "CANCELED" =>
                            ~IsOpen(o) /\ told[o].remaining = 0 /\ told[o].traded = book[o].filled
                      /\ told[o].order_status # "CANCELED" => told[o].traded + told[o].remaining = Size
    BY DEF OmsFollowsExchange
  <2>1. Known(book[o]) /\ ToldBy(o, book[o])
    BY DEF IInv, BookInv
  <2>2. PICK item \in ExchangeOrders :
            OrderOK(item) /\ Before(item, book[o]) /\ told[o] = OrderUpdate(item)
    BY <2>1 DEF ToldBy
  <2>3. IsDone(item) => ~IsOpen(o) /\ item = book[o]
    BY <2>2 DEF Before, IsDone, IsOpen
  <2>4. /\ told[o].traded = item.filled
        /\ told[o].order_status = "COMPLETED" => item.filled = Size
        /\ told[o].order_status = "CANCELED" => IsDone(item) /\ told[o].remaining = 0
        /\ told[o].order_status # "CANCELED" => told[o].traded + told[o].remaining = Size
    BY <2>2, OrderUpdateLemma
  <2> QED BY <2>1, <2>2, <2>3, <2>4 DEF Before
<1> QED BY <1>1, Invariance, PTL

LEMMA StepGoesForward ==
    ASSUME IInv, Next, NEW o \in Orders, Known(told[o])
    PROVE  /\ Known(told'[o]) /\ told[o].traded <= told'[o].traded
           /\ told[o].order_status \in {"COMPLETED", "CANCELED"} => told'[o] = told[o]
<1>1. told[o] \in OrderUpdates /\ told[o].traded \in Nat
  <2>1. told[o] \in OrderUpdates
    BY DEF IInv, Known
  <2> QED BY <2>1, OrderEchoAssumption DEF OrderUpdates, OrderEchoAssumption
<1>2. CASE told' = told
  BY <1>1, <1>2
<1>3. CASE OrdersAck
  <2>1. PICK list \in lists :
            told' = [q \in Orders |-> IF q \in DOMAIN list THEN OrderUpdate(list[q]) ELSE told[q]]
    BY <1>3 DEF OrdersAck
  <2>2. CASE o \notin DOMAIN list
    BY <1>1, <2>1, <2>2
  <2>3. CASE o \in DOMAIN list
    <3>1. OrderOK(list[o]) /\ ToldBy(o, list[o]) /\ told'[o] = OrderUpdate(list[o])
      BY <2>1, <2>3 DEF IInv, ListInv
    <3>2. PICK item \in ExchangeOrders :
              OrderOK(item) /\ Before(item, list[o]) /\ told[o] = OrderUpdate(item)
      BY <3>1 DEF ToldBy
    <3>3. told[o].traded = item.filled /\ told'[o].traded = list[o].filled
      BY <3>1, <3>2, OrderUpdateLemma
    <3>4. told[o].order_status \in {"COMPLETED", "CANCELED"} => item = list[o]
      BY <3>2, DoneLemma DEF Before
    <3>5. Known(told'[o])
      BY <3>1, NoneLemma, OrderUpdateLemma
    <3> QED BY <3>1, <3>2, <3>3, <3>4, <3>5 DEF Before
  <2> QED BY <2>2, <2>3
<1> QED BY <1>2, <1>3 DEF Next, CreateOrder, Place, CancelOrder, Trigger, Fill, Close, SetBook,
           AcceptOrder, AcceptCancel, Refuse, GetOrders, ListOrders, OrdersError

(* An order does not go back.                                               *)
THEOREM OrdersGoForward == Spec => OmsNeverGoesBack
<1>1. IInv /\ [Next]_vars =>
        [\A o \in Orders :
            Known(told[o]) =>
                /\ Known(told'[o]) /\ told[o].traded <= told'[o].traded
                /\ told[o].order_status \in {"COMPLETED", "CANCELED"} => told'[o] = told[o]]_vars
  BY StepGoesForward
<1> QED BY <1>1, Invariance, PTL DEF Spec, OmsNeverGoesBack
=============================================================================
