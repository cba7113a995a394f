------------------------------ MODULE WSParser ------------------------------
(***************************************************************************)
(* protocol/json/ws_parser.cpp and is_auth_error of utils.cpp: what a      *)
(* message of the order entry web socket is, decided by the fields it has. *)
(* A message is a record: does it have a sessionId, a pingInterval, its op *)
(* and what kind of code.                                                  *)
(***************************************************************************)

OrderAcks == {"ADD_ORDER_ACK", "CANCEL_ORDER_ACK"}

WSOp == OrderAcks \cup {"UNDEFINED", "UNKNOWN", "PONG"}

Codes == {"success", "auth", "other"}

WSMessages == [session_id : BOOLEAN, ping_interval : BOOLEAN, op : WSOp, code : Codes]

IsAuthError(code) == code = "auth"

(* An error: no op at all, or the refusal of an order *)
Failed(m) == m.op = "UNDEFINED" \/ (m.op \in OrderAcks /\ m.code # "success")

(* mutant: the first message with a sessionId is taken for the welcome *)
WSDispatchWithoutInterval(m) ==
    CASE m.session_id -> "WSWelcome"
      [] ~m.session_id /\ Failed(m) -> "WSError"
      [] ~m.session_id /\ m.op = "PONG" -> "WSPong"
      [] ~m.session_id /\ m.op = "ADD_ORDER_ACK" /\ m.code = "success" -> "WSAddOrderAck"
      [] ~m.session_id /\ m.op = "CANCEL_ORDER_ACK" /\ m.code = "success" -> "WSCancelOrderAck"
      [] OTHER -> "fatal"

(* WSParser::dispatch: the handler that is called *)
WSDispatch(m) ==
    CASE m.session_id /\ m.ping_interval -> "WSWelcome"
      [] m.session_id /\ ~m.ping_interval -> "WSAuth"
      [] ~m.session_id /\ Failed(m) -> "WSError"
      [] ~m.session_id /\ m.op = "PONG" -> "WSPong"
      [] ~m.session_id /\ m.op = "ADD_ORDER_ACK" /\ m.code = "success" -> "WSAddOrderAck"
      [] ~m.session_id /\ m.op = "CANCEL_ORDER_ACK" /\ m.code = "success" -> "WSCancelOrderAck"
      [] OTHER -> "fatal"
=============================================================================
