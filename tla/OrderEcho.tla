------------------------------ MODULE OrderEcho ------------------------------
(***************************************************************************)
(* What the OMS gets to know about orders: Encoder writes the order the    *)
(* OMS creates, the exchange works it, and the list of open orders the     *)
(* private session asks for is mapped back into OrderUpdates.  The pushes  *)
(* of DropCopy (OrderAll) are only logged, so the lists are all that tells *)
(* of the state of an order; the answer to a create that went over the web *)
(* socket brings its external_order_id.                                    *)
(*                                                                         *)
(* External: the exchange, which takes an order without a known            *)
(* timeInForce as GTC, reports an order that is done as long as it likes,  *)
(* one that was canceled after a fill as filled or as canceled, and lists  *)
(* orders other clients of the account have placed; server::oms, which     *)
(* keeps what it is told and takes the request id of the create as the     *)
(* client order id.  Which connection carries a request and what becomes   *)
(* of its answer is in OrderActions.                                       *)
(***************************************************************************)
EXTENDS OrderMaps

CONSTANTS
    Orders,
    None,               \* no order
    Foreign,            \* the orders other clients place
    Size,               \* of an order, in lots
    Wanted,             \* what the OMS creates
    Placed,             \* what other clients place
    MaxCancels,         \* bound: requests to cancel
    MaxLists            \* bound: requests for the list of open orders

CreateOrders ==
    [side : Sides, order_type : OrderTypes, time_in_force : TimesInForce]

ExchangeOrders ==
    [side : SideTexts, order_type : OrderTypes, time_in_force : TimeInForceTexts,
     status : StatusCodes, filled : 0..Size]

OrderUpdates ==
    [side : Sides, order_type : OrderTypes,
     time_in_force : {"GTC", "IOC", "FOK", "UNDEFINED"},
     order_status : {"SUSPENDED", "ACCEPTED", "WORKING", "COMPLETED", "CANCELED"},
     remaining : 0..Size, traded : 0..Size]

ASSUME OrderEchoAssumption ==
    /\ Foreign \in SUBSET Orders
    /\ Size \in Nat \ {0} /\ MaxCancels \in Nat /\ MaxLists \in Nat
    /\ Wanted \in SUBSET CreateOrders
    /\ Placed \in SUBSET ExchangeOrders
    /\ \A p \in Placed : p.filled = 0 /\ p.status \in 0..2
    /\ None \notin CreateOrders \cup ExchangeOrders \cup OrderUpdates

VARIABLES
    created, told,      \* server::oms: what it asked for, the last OrderUpdate
    requests,           \* requests the exchange has not seen
    book,               \* the exchange: orders by client order id
    asked,              \* get_orders without an answer of the exchange
    lists,              \* answers that get_orders_ack has not seen
    cancels, listed     \* what is bounded

vars == <<created, told, requests, book, asked, lists, cancels, listed>>

Known(order) == order # None

Init ==
    /\ created = [o \in Orders |-> None]
    /\ told = [o \in Orders |-> None]
    /\ requests = {}
    /\ book = [o \in Orders |-> None]
    /\ asked = 0 /\ lists = {}
    /\ cancels = 0 /\ listed = 0

-----------------------------------------------------------------------------
(* To the exchange                                                          *)

(* Encoder::add_order: a market order has no timeInForce; symbol, size,     *)
(* price and the execution instructions are written as they are             *)
AddOrder(o, order) ==
    [clientOid |-> o,
     side |-> SideText(order.side),
     orderType |-> OrderTypeText(order.order_type),
     timeInForce |-> IF order.order_type = "LIMIT" THEN TimeInForceText(order.time_in_force)
                     ELSE NoText]

(* CreateOrder, over whichever connection *)
CreateOrder(o, order) ==
    /\ o \notin Foreign /\ ~Known(created[o])
    /\ created' = [created EXCEPT ![o] = order]
    /\ requests' = requests \cup {[op |-> "uta.order", args |-> AddOrder(o, order)]}
    /\ UNCHANGED <<told, book, asked, lists, cancels, listed>>

(* Encoder::cancel_order: the OMS has the external_order_id from an         *)
(* OrderUpdate, or perhaps from a WSAddOrderAck                             *)
CancelArgs(o) ==
    LET keys == IF Known(told[o]) THEN {"orderId"}
                ELSE IF Known(book[o]) THEN {"orderId", "clientOid"}
                ELSE {"clientOid"}
    IN  {[key |-> k, id |-> o] : k \in keys}

(* CancelOrder *)
CancelOrder(o) ==
    /\ Known(created[o]) /\ cancels < MaxCancels
    /\ cancels' = cancels + 1
    /\ \E args \in CancelArgs(o) : requests' = requests \cup {[op |-> "uta.cancel", args |-> args]}
    /\ UNCHANGED <<created, told, book, asked, lists, listed>>

-----------------------------------------------------------------------------
(* The exchange                                                             *)

IsOpen(o) == Known(book[o]) /\ book[o].status \in {0, 1, 2, 4}

SetBook(o, order) ==
    /\ book' = [book EXCEPT ![o] = order]
    /\ UNCHANGED <<created, told, asked, lists, cancels, listed>>

Spellings(side) == IF side = "BUY" THEN {"buy", "BUY"} ELSE {"sell", "SELL"}

AcceptOrder(r) ==
    /\ r.op = "uta.order" /\ requests' = requests \ {r}
    /\ \E side \in Spellings(r.args.side) :
          SetBook(r.args.clientOid,
                  [side |-> side, order_type |-> r.args.orderType,
                   time_in_force |-> IF r.args.timeInForce = NoText THEN "GTC"
                                     ELSE r.args.timeInForce,
                   status |-> 2, filled |-> 0])

(* An order that is done although not filled *)
Done(order) == {[order EXCEPT !.status = s] : s \in IF order.filled = 0 THEN {5} ELSE {3, 6}}

AcceptCancel(r) ==
    /\ r.op = "uta.cancel" /\ requests' = requests \ {r}
    /\ IsOpen(r.args.id)
    /\ \E order \in Done(book[r.args.id]) : SetBook(r.args.id, order)

Refuse(r) ==
    /\ requests' = requests \ {r}
    /\ UNCHANGED <<created, told, book, asked, lists, cancels, listed>>

Place(o, order) ==
    /\ o \in Foreign /\ ~Known(book[o])
    /\ SetBook(o, order) /\ UNCHANGED requests

Trigger(o) ==
    /\ IsOpen(o) /\ book[o].status < 2
    /\ SetBook(o, [book[o] EXCEPT !.status = @ + 1]) /\ UNCHANGED requests

Fill(o) ==
    /\ IsOpen(o) /\ book[o].status >= 2
    /\ SetBook(o, [book[o] EXCEPT !.filled = @ + 1,
                                  !.status = IF book[o].filled + 1 = Size THEN 3 ELSE 4])
    /\ UNCHANGED requests

Close(o) ==
    /\ IsOpen(o)
    /\ \E order \in Done(book[o]) : SetBook(o, order)
    /\ UNCHANGED requests

(* The answer to get_orders: the orders that are open, and perhaps others *)
ListOrders ==
    /\ asked > 0 /\ asked' = asked - 1
    /\ \E shown \in SUBSET {o \in Orders : Known(book[o])} :
          /\ {o \in Orders : IsOpen(o)} \subseteq shown
          /\ lists' = lists \cup {[o \in shown |-> book[o]]}
    /\ UNCHANGED <<created, told, requests, book, cancels, listed>>

-----------------------------------------------------------------------------
(* mutant: a request is let go while another one is in flight *)
GetOrdersAgain ==
    /\ listed < MaxLists
    /\ asked' = asked + 1 /\ listed' = listed + 1
    /\ UNCHANGED <<created, told, requests, book, lists, cancels>>

(* get_orders, when its Request has no round trip open *)
GetOrders ==
    /\ asked = 0 /\ lists = {}
    /\ listed < MaxLists
    /\ asked' = asked + 1 /\ listed' = listed + 1
    /\ UNCHANGED <<created, told, requests, book, lists, cancels>>

(* mutant: an order that is done was filled *)
OrderStatusOfCode(item) == MapStatus(item.status)

(* the lambda order_status *)
OrderStatusOf(item) ==
    IF MapStatus(item.status) = "COMPLETED" /\ item.filled # Size THEN "CANCELED"
    ELSE MapStatus(item.status)

(* the OrderUpdate of an item of the list *)
OrderUpdate(item) ==
    [side |-> MapSide(item.side),
     order_type |-> MapOrderType(item.order_type),
     time_in_force |-> MapTimeInForce(item.time_in_force),
     order_status |-> OrderStatusOf(item),
     remaining |-> IF OrderStatusOf(item) = "CANCELED" THEN 0 ELSE Size - item.filled,
     traded |-> item.filled]

(* get_orders_ack, code success: operator()(Trace<OrdersAck>) *)
OrdersAck ==
    \E list \in lists :
        /\ lists' = lists \ {list}
        /\ told' = [o \in Orders |-> IF o \in DOMAIN list THEN OrderUpdate(list[o]) ELSE told[o]]
        /\ UNCHANGED <<created, requests, book, asked, cancels, listed>>

(* get_orders_ack, handle_error: nothing is known *)
OrdersError ==
    /\ \/ asked > 0 /\ asked' = asked - 1 /\ UNCHANGED lists
       \/ \E list \in lists : lists' = lists \ {list} /\ UNCHANGED asked
    /\ UNCHANGED <<created, told, requests, book, cancels, listed>>

-----------------------------------------------------------------------------
Next ==
    \/ \E o \in Orders :
          \/ \E order \in Wanted : CreateOrder(o, order)
          \/ \E order \in Placed : Place(o, order)
          \/ CancelOrder(o) \/ Trigger(o) \/ Fill(o) \/ Close(o)
    \/ \E r \in requests : AcceptOrder(r) \/ AcceptCancel(r) \/ Refuse(r)
    \/ GetOrders \/ ListOrders \/ OrdersAck \/ OrdersError

Spec == Init /\ [][Next]_vars

-----------------------------------------------------------------------------
(* Every variable keeps the type of the member it stands for.               *)
TypeOK ==
    /\ created \in [Orders -> CreateOrders \cup {None}]
    /\ told \in [Orders -> OrderUpdates \cup {None}]
    /\ book \in [Orders -> ExchangeOrders \cup {None}]
    /\ asked \in Nat
    /\ \A list \in lists : \A o \in DOMAIN list : o \in Orders /\ list[o] \in ExchangeOrders
    /\ cancels \in 0..MaxCancels /\ listed \in 0..MaxLists

(* What comes back is what was asked for, through two encodings, as far as  *)
(* the exchange knows it (encoder.cpp:16-73, map.cpp,                       *)
(* order_entry_rest.cpp:538-551).                                           *)
EchoMatches ==
    \A o \in Orders :
        Known(told[o]) /\ Known(created[o]) =>
            /\ told[o].side = created[o].side
            /\ told[o].order_type = created[o].order_type
            /\ created[o].order_type = "LIMIT" /\ created[o].time_in_force \in {"GTC", "IOC", "FOK"}
                  => told[o].time_in_force = created[o].time_in_force

(* The OMS is never ahead of the exchange: no more has been traded than     *)
(* filled, an order it has as done is done and has no fill to come, and one *)
(* it has as working adds up (order_entry_rest.cpp:522-537).                *)
OmsFollowsExchange ==
    \A o \in Orders :
        Known(told[o]) =>
            /\ Known(book[o]) /\ told[o].traded <= book[o].filled
            /\ told[o].order_status = "COMPLETED" => told[o].traded = Size
            /\ told[o].order_status = "CANCELED" =>
                  ~IsOpen(o) /\ told[o].remaining = 0 /\ told[o].traded = book[o].filled
            /\ told[o].order_status # "CANCELED" => told[o].traded + told[o].remaining = Size

(* An order does not go back: what was traded stays traded, and what is     *)
(* done stays done.  Lists are absolute, so this rests on one request being *)
(* in flight (request.cpp:17-19, order_entry_rest.cpp:498-515,1094).         *)
OmsNeverGoesBack ==
    [][\A o \in Orders :
          Known(told[o]) =>
              /\ Known(told'[o]) /\ told[o].traded <= told'[o].traded
              /\ told[o].order_status \in {"COMPLETED", "CANCELED"} => told'[o] = told[o]]_vars
=============================================================================
