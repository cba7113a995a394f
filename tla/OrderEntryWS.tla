---------------------------- MODULE OrderEntryWS ----------------------------
(***************************************************************************)
(* gateway/order_entry_ws.{hpp,cpp}, the session: the web socket, the      *)
(* challenge, the welcome and the timer.  Orders are in OrderActions.  An  *)
(* action constrains the variables of this module only.                    *)
(*                                                                         *)
(* web::socket::Client: see DropCopy; close() ends in Disconnected, and    *)
(* until then messages still arrive but nothing is sent.  The exchange     *)
(* sends a challenge, and a welcome to who answers it; it may refuse the   *)
(* logon with an error that has no op (test/json_ws_error.cpp), or be      *)
(* silent until the logon timeout.                                         *)
(***************************************************************************)
EXTENDS WSParser, Naturals

CONSTANTS
    RetryLogon,         \* settings.experimental.retry_logon
    MaxDrops,           \* bound: lost connections and logon timeouts
    MaxAuthErrors       \* bound: refused logons

ASSUME OrderEntryWSAssumption ==
    RetryLogon \in BOOLEAN /\ MaxDrops \in Nat /\ MaxAuthErrors \in Nat

VARIABLES
    socket,             \* connection_
    session,            \* the exchange: what it did in this session
    wsStatus,           \* connection_status_
    welcome, pingFreq,  \* welcome_, ping_freq_ # 0
    logonTimeout,       \* logon_timeout_ # 0
    wsDrops, authErrors,
    fault               \* the assert or log::fatal that was hit

wsVars == <<socket, session, wsStatus, welcome, pingFreq, logonTimeout,
            wsDrops, authErrors, fault>>

OrderEntryWSInit ==
    /\ socket = "down"
    /\ session = "none"
    /\ wsStatus = "UNDEFINED"
    /\ welcome = FALSE
    /\ pingFreq = FALSE
    /\ logonTimeout = FALSE
    /\ wsDrops = 0
    /\ authErrors = 0
    /\ fault = "none"

OrderEntryWSTypeOK ==
    /\ socket \in {"down", "connected", "open", "closing"}
    /\ session \in {"none", "challenged", "answered", "refused", "welcomed"}
    /\ wsStatus \in {"UNDEFINED", "DISCONNECTED", "LOGIN_SENT", "READY"}
    /\ welcome \in BOOLEAN /\ pingFreq \in BOOLEAN /\ logonTimeout \in BOOLEAN
    /\ wsDrops \in 0..MaxDrops /\ authErrors \in 0..MaxAuthErrors
    /\ fault \in {"none", "logon_timeout", "welcome", "ping_freq", "logon_refused",
                 "unexpected", "redirected"}

Ready == wsStatus = "READY"

(* web::socket::Client delivers messages *)
Listening == socket \in {"open", "closing"}

-----------------------------------------------------------------------------
WsConnected ==
    /\ socket = "down"
    /\ socket' = "connected"
    /\ fault' = IF logonTimeout THEN "logon_timeout" ELSE fault
    /\ logonTimeout' = TRUE
    /\ UNCHANGED <<session, wsStatus, welcome, pingFreq, wsDrops, authErrors>>

(* Ready: "note! wait for welcome" *)
WsOpened ==
    /\ socket = "connected"
    /\ socket' = "open"
    /\ UNCHANGED <<session, wsStatus, welcome, pingFreq, logonTimeout, wsDrops, authErrors, fault>>

(* mutant: logon_timeout_ survives *)
DisconnectedKeepsTimeout ==
    /\ wsStatus' = "DISCONNECTED"
    /\ welcome' = FALSE /\ pingFreq' = FALSE
    /\ UNCHANGED logonTimeout

(* Disconnected *)
Disconnected ==
    /\ wsStatus' = "DISCONNECTED"
    /\ welcome' = FALSE
    /\ pingFreq' = FALSE
    /\ logonTimeout' = FALSE

WsDisconnected ==
    /\ socket # "down"
    /\ \/ socket = "closing" /\ UNCHANGED wsDrops
       \/ wsDrops < MaxDrops /\ wsDrops' = wsDrops + 1
    /\ socket' = "down" /\ session' = "none"
    /\ Disconnected
    /\ UNCHANGED <<authErrors, fault>>

-----------------------------------------------------------------------------
Challenge == [session_id |-> TRUE, ping_interval |-> FALSE, op |-> "UNDEFINED", code |-> "other"]
Greeting == [session_id |-> TRUE, ping_interval |-> TRUE, op |-> "UNDEFINED", code |-> "other"]
Refusal == [session_id |-> FALSE, ping_interval |-> FALSE, op |-> "UNDEFINED", code |-> "auth"]

(* What the exchange may send about the session *)
SessionMessages ==
    IF ~Listening THEN {}
    ELSE CASE session = "none" -> {Challenge, Refusal}
           [] session = "answered" -> {Greeting, Refusal}
           [] OTHER -> {}

(* The session after a message *)
Sent(m) ==
    CASE m = Challenge -> "challenged" [] m = Greeting -> "welcomed" [] OTHER -> "refused"

(* WSAuth: the challenge is signed and sent back *)
WSAuth(m) ==
    /\ session' = IF socket = "open" /\ m = Challenge THEN "answered" ELSE Sent(m)
    /\ wsStatus' = "LOGIN_SENT"
    /\ UNCHANGED <<socket, welcome, pingFreq, authErrors, fault>>

WSWelcome(m) ==
    /\ session' = Sent(m)
    /\ welcome' = TRUE
    /\ pingFreq' = TRUE
    /\ wsStatus' = "READY"
    /\ UNCHANGED <<socket, authErrors, fault>>

(* mutant: an authentication error is only logged *)
WSLogonErrorIgnored(m) ==
    /\ authErrors < MaxAuthErrors
    /\ authErrors' = authErrors + 1
    /\ session' = Sent(m)
    /\ UNCHANGED <<socket, wsStatus, welcome, pingFreq, fault>>

(* WSError without an op *)
WSLogonError(m) ==
    /\ authErrors < MaxAuthErrors
    /\ authErrors' = authErrors + 1
    /\ session' = Sent(m)
    /\ IF ~IsAuthError(m.code) THEN UNCHANGED <<socket, fault>>
       ELSE IF RetryLogon THEN socket' = "closing" /\ UNCHANGED fault
       ELSE fault' = "logon_refused" /\ UNCHANGED socket
    /\ UNCHANGED <<wsStatus, welcome, pingFreq>>

(* Text: parse a message about the session *)
WsText ==
    \E m \in SessionMessages :
        /\ CASE WSDispatch(m) = "WSAuth" -> WSAuth(m)
             [] WSDispatch(m) = "WSWelcome" -> WSWelcome(m)
             [] WSDispatch(m) = "WSError" -> WSLogonError(m)
             [] OTHER -> /\ fault' = "unexpected"
                          /\ UNCHANGED <<socket, session, wsStatus, welcome, pingFreq, authErrors>>
        /\ UNCHANGED <<logonTimeout, wsDrops>>

-----------------------------------------------------------------------------
(* check_logon_timeout, when the timeout has passed *)
CheckLogonTimeout ==
    /\ logonTimeout /\ wsDrops < MaxDrops
    /\ fault' = IF welcome THEN "welcome" ELSE fault
    /\ socket' = "closing"
    /\ wsDrops' = wsDrops + 1

(* Timer while refresh(): send_ping, or check_logon_timeout *)
WsTimer ==
    /\ Listening
    /\ IF Ready
       THEN /\ fault' = IF pingFreq THEN fault ELSE "ping_freq"
            /\ UNCHANGED <<socket, wsDrops>>
       ELSE CheckLogonTimeout
    /\ UNCHANGED <<session, wsStatus, welcome, pingFreq, logonTimeout, authErrors>>
=============================================================================
