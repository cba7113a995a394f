----------------------------- MODULE RequestHub -----------------------------
(***************************************************************************)
(* gateway/request.{hpp,cpp}: the six download requests of one account.    *)
(* DropCopy asks (request), OrderEntryREST sends when the rate limiter and *)
(* every other request allow it (check_pending) and reports the callback   *)
(* (commit), DropCopy polls for the outcome (has_response).                *)
(*                                                                         *)
(* core::limit::Request is not in the repository.  What is used of it:     *)
(* request() asks for a new round trip and so forgets an older answer;     *)
(* check_pending() sends a pending request when its handler is ready() and *)
(* can_request(); commit() ends the round trip, and is the answer unless   *)
(* another round trip has been asked for in the meantime; has_response()   *)
(* is true once per answer.  ready() is true outside a round trip: were it *)
(* false for a pending request, Request::ready() could never let one go.   *)
(***************************************************************************)

CONSTANT Orders         \* orders of the account the OMS may know

VARIABLES
    hub,                \* the six requests
    details             \* details_stale_orders

hubVars == <<hub, details>>

Slots == {"private_token", "balances", "positions", "open_orders", "stale_orders", "trades"}

Slot == [pending : BOOLEAN, inflight : BOOLEAN, response : BOOLEAN]

IdleSlot == [pending |-> FALSE, inflight |-> FALSE, response |-> FALSE]

HubInit ==
    /\ hub = [s \in Slots |-> IdleSlot]
    /\ details = {}

HubTypeOK == hub \in [Slots -> Slot] /\ details \in SUBSET Orders

(* core::limit::Request::ready *)
SlotReady(h, s) == ~h[s].inflight

(* mutant: one request forgotten *)
HubReadyWithoutTrades(h) == \A s \in Slots \ {"trades"} : SlotReady(h, s)

(* Request::ready *)
HubReady(h) == \A s \in Slots : SlotReady(h, s)

(* core::limit::Request::request *)
Request(h, s) == [h EXCEPT ![s] = [pending |-> TRUE, inflight |-> @.inflight, response |-> FALSE]]

(* core::limit::Request::check_pending, when it calls back *)
Send(h, s) == [h EXCEPT ![s] = [pending |-> FALSE, inflight |-> TRUE, response |-> FALSE]]

(* core::limit::Request::commit *)
Commit(h, s) == [h EXCEPT ![s] = [pending |-> @.pending, inflight |-> FALSE, response |-> ~@.pending]]

(* core::limit::Request::has_response, when it returned true *)
Consume(h, s) == [h EXCEPT ![s].response = FALSE]
=============================================================================
