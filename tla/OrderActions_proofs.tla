------------------------- MODULE OrderActions_proofs -------------------------
(***************************************************************************)
(* Proofs about OrderActions for any requests, any symbols and any bounds  *)
(* on faults.                                                              *)
(***************************************************************************)
EXTENDS OrderActions, TLAPS

(* The flags of a session agree with its status and its socket.             *)
SessionInv ==
    /\ StatusIsOfThisSession
    /\ welcome <=> Ready
    /\ pingFreq <=> Ready
    /\ socket = "down" => ~logonTimeout

(* What the OMS is told of a call is true of it.                            *)
AnswerIsTrue(a, c) ==
    /\ a.request_type = KindOf(c)
    /\ a.request_status = "ACCEPTED" => effect[c] = "executed"
    /\ a.request_status = "REJECTED" => effect[c] = "refused"

(* So is that it is told nothing of a call that is over.                    *)
SilenceIsTrue(c) == effect[c] = "executed" /\ ~OverWs(KindOf(c))

(* Responses belong to a call that is over, and stay true.                  *)
CallInv(c) ==
    /\ answer[c] # <<>> => net[c] = "over"
    /\ net[c] # "idle" => KindOf(c) # "none"
    /\ \A i \in DOMAIN answer[c] : AnswerIsTrue(answer[c][i], c)
    /\ net[c] = "over" /\ answer[c] = <<>> => SilenceIsTrue(c)

(* The inductive invariant.                                                 *)
IInv == TypeOK /\ NoFault /\ SessionInv /\ \A c \in Calls : CallInv(c)

CallTypeOK ==
    /\ kind \in [Requests -> Kinds \cup {"none"}]
    /\ net \in [Calls -> {"idle", "sent", "over", "lost"}]
    /\ effect \in [Calls -> {"none", "dropped", "executed", "refused"}]
    /\ answer \in [Calls -> Seq(Responses)]
    /\ raised \in SUBSET Calls

SessionStateOK == OrderEntryWSTypeOK /\ NoFault /\ SessionInv

-----------------------------------------------------------------------------
LEMMA InitIInv == Init => IInv
<1> SUFFICES ASSUME Init PROVE IInv
  OBVIOUS
<1> USE DEF Init, OrderEntryWSInit
<1>1. OrderEntryWSTypeOK
  <2>1. welcome \in BOOLEAN /\ pingFreq \in BOOLEAN /\ logonTimeout \in BOOLEAN
    OBVIOUS
  <2> QED BY <2>1, OrderEntryWSAssumption DEF OrderEntryWSTypeOK, OrderEntryWSAssumption
<1>2. wsApi \in BOOLEAN /\ restReady \in BOOLEAN
  OBVIOUS
<1>3. CallTypeOK
  BY DEF CallTypeOK
<1>4. TypeOK
  BY <1>1, <1>2, <1>3 DEF TypeOK, CallTypeOK
<1>5. SessionInv /\ NoFault
  BY DEF SessionInv, StatusIsOfThisSession, Ready, NoFault
<1>6. \A c \in Calls : CallInv(c)
  BY DEF CallInv
<1> QED BY <1>4, <1>5, <1>6 DEF IInv

-----------------------------------------------------------------------------
(* The session.                                                             *)

LEMMA DispatchLemma ==
    /\ WSDispatch(Challenge) = "WSAuth"
    /\ WSDispatch(Greeting) = "WSWelcome"
    /\ WSDispatch(Refusal) = "WSError"
    /\ Sent(Challenge) = "challenged" /\ Sent(Greeting) = "welcomed" /\ Sent(Refusal) = "refused"
    /\ IsAuthError(Refusal.code)
BY DEF WSDispatch, Failed, OrderAcks, Challenge, Greeting, Refusal, Sent, IsAuthError

LEMMA ConnectedStep ==
    ASSUME SessionStateOK, WsConnected
    PROVE  SessionStateOK'
<1> USE DEF SessionStateOK, WsConnected
<1>1. ~logonTimeout /\ fault' = fault
  BY DEF SessionInv
<1>2. logonTimeout' \in BOOLEAN
  OBVIOUS
<1>3. OrderEntryWSTypeOK'
  BY <1>1, <1>2 DEF OrderEntryWSTypeOK
<1>4. SessionInv'
  BY DEF SessionInv, StatusIsOfThisSession, Ready, Listening
<1> QED BY <1>1, <1>3, <1>4 DEF NoFault

LEMMA OpenedStep ==
    ASSUME SessionStateOK, WsOpened
    PROVE  SessionStateOK'
<1> USE DEF SessionStateOK, WsOpened
<1>3. OrderEntryWSTypeOK'
  BY DEF OrderEntryWSTypeOK
<1>4. SessionInv'
  BY DEF SessionInv, StatusIsOfThisSession, Ready, Listening
<1> QED BY <1>3, <1>4 DEF NoFault

LEMMA DisconnectedStep ==
    ASSUME SessionStateOK, WsDisconnected
    PROVE  SessionStateOK'
<1> USE DEF SessionStateOK, WsDisconnected, Disconnected
<1>1. wsDrops' \in 0..MaxDrops
  BY OrderEntryWSAssumption DEF OrderEntryWSTypeOK, OrderEntryWSAssumption
<1>2. welcome' \in BOOLEAN /\ pingFreq' \in BOOLEAN /\ logonTimeout' \in BOOLEAN
  OBVIOUS
<1>3. OrderEntryWSTypeOK'
  BY <1>1, <1>2 DEF OrderEntryWSTypeOK
<1>4. SessionInv'
  BY DEF SessionInv, StatusIsOfThisSession, Ready, Listening
<1> QED BY <1>3, <1>4 DEF NoFault

LEMMA TextStep ==
    ASSUME SessionStateOK, WsText
    PROVE  SessionStateOK'
<1>1. PICK m \in SessionMessages :
          /\ CASE WSDispatch(m) = "WSAuth" -> WSAuth(m)
               [] WSDispatch(m) = "WSWelcome" -> WSWelcome(m)
               [] WSDispatch(m) = "WSError" -> WSLogonError(m)
               [] OTHER -> /\ fault' = "unexpected"
                           /\ UNCHANGED <<socket, session, wsStatus, welcome, pingFreq, authErrors>>
          /\ UNCHANGED <<logonTimeout, wsDrops>>
  BY DEF WsText
<1>2. Listening /\ m \in {Challenge, Greeting, Refusal}
  BY <1>1 DEF SessionMessages
<1>3. m = Challenge => session = "none"
  BY <1>1 DEF SessionMessages, Challenge, Greeting, Refusal
<1>4. session \in {"none", "answered"}
  BY <1>1 DEF SessionMessages
<1>5. ~Ready /\ ~welcome /\ ~pingFreq
  BY <1>4 DEF SessionStateOK, SessionInv, StatusIsOfThisSession
<1>6. CASE m = Challenge
  <2>1. WSAuth(m)
    BY <1>1, <1>6, DispatchLemma
  <2>2. session' \in {"answered", "challenged"}
    BY <2>1, <1>6, DispatchLemma DEF WSAuth
  <2>3. OrderEntryWSTypeOK'
    BY <1>1, <2>1, <2>2 DEF SessionStateOK, OrderEntryWSTypeOK, WSAuth
  <2>4. SessionInv'
    BY <1>1, <1>2, <1>5, <2>1, <2>2
    DEF WSAuth, SessionStateOK, SessionInv, StatusIsOfThisSession, Ready, Listening
  <2> QED BY <2>1, <2>3, <2>4 DEF WSAuth, SessionStateOK, NoFault
<1>7. CASE m = Greeting
  <2>1. WSWelcome(m) /\ session' = "welcomed"
    BY <1>1, <1>7, DispatchLemma DEF WSWelcome
  <2>2. welcome' \in BOOLEAN /\ pingFreq' \in BOOLEAN
    BY <2>1 DEF WSWelcome
  <2>3. OrderEntryWSTypeOK'
    BY <1>1, <2>1, <2>2 DEF SessionStateOK, OrderEntryWSTypeOK, WSWelcome
  <2>4. SessionInv'
    BY <1>1, <1>2, <2>1
    DEF WSWelcome, SessionStateOK, SessionInv, StatusIsOfThisSession, Ready, Listening
  <2> QED BY <2>1, <2>3, <2>4 DEF WSWelcome, SessionStateOK, NoFault
<1>8. CASE m = Refusal
  <2>1. WSLogonError(m) /\ session' = "refused"
    BY <1>1, <1>8, DispatchLemma DEF WSLogonError
  <2>2. IF RetryLogon THEN socket' = "closing" /\ UNCHANGED fault
        ELSE fault' = "logon_refused" /\ UNCHANGED socket
    BY <2>1, <1>8, DispatchLemma DEF WSLogonError
  <2>3. authErrors' \in 0..MaxAuthErrors
    BY <2>1, OrderEntryWSAssumption
    DEF WSLogonError, SessionStateOK, OrderEntryWSTypeOK, OrderEntryWSAssumption
  <2>4. OrderEntryWSTypeOK'
    BY <1>1, <2>1, <2>2, <2>3 DEF SessionStateOK, OrderEntryWSTypeOK, WSLogonError
  <2>5. UNCHANGED <<wsStatus, welcome, pingFreq>>
    BY <2>1 DEF WSLogonError
  <2>6. socket' \in {"open", "closing"}
    BY <1>2, <2>2 DEF Listening
  <2>7. SessionInv'
    BY <1>5, <2>1, <2>5, <2>6
    DEF SessionStateOK, SessionInv, StatusIsOfThisSession, Ready, Listening
  <2>8. NoFault'
    BY <2>2 DEF SessionStateOK, NoFault
  <2> QED BY <2>4, <2>7, <2>8 DEF SessionStateOK
<1> QED BY <1>2, <1>6, <1>7, <1>8

LEMMA TimerStep ==
    ASSUME SessionStateOK, WsTimer
    PROVE  SessionStateOK'
<1> USE DEF SessionStateOK
<1>1. CASE Ready
  <2>1. UNCHANGED <<socket, session, wsStatus, welcome, pingFreq, logonTimeout, wsDrops, authErrors, fault>>
    BY <1>1 DEF WsTimer, SessionInv
  <2> QED BY <2>1 DEF OrderEntryWSTypeOK, NoFault, SessionInv, StatusIsOfThisSession, Ready, Listening
<1>2. CASE ~Ready
  <2>1. /\ Listening /\ socket' = "closing" /\ wsDrops < MaxDrops /\ wsDrops' = wsDrops + 1
        /\ UNCHANGED <<session, wsStatus, welcome, pingFreq, logonTimeout, authErrors, fault>>
    BY <1>2 DEF WsTimer, CheckLogonTimeout, SessionInv
  <2>2. wsDrops' \in 0..MaxDrops
    BY <2>1, OrderEntryWSAssumption DEF OrderEntryWSTypeOK, OrderEntryWSAssumption
  <2>3. OrderEntryWSTypeOK'
    BY <2>1, <2>2 DEF OrderEntryWSTypeOK
  <2>4. SessionInv'
    BY <2>1 DEF SessionInv, StatusIsOfThisSession, Ready, Listening
  <2> QED BY <2>1, <2>3, <2>4 DEF NoFault
<1> QED BY <1>1, <1>2

LEMMA SessionUnchanged ==
    ASSUME SessionStateOK, UNCHANGED wsVars
    PROVE  SessionStateOK'
BY DEF SessionStateOK, wsVars, OrderEntryWSTypeOK, NoFault, SessionInv,
       StatusIsOfThisSession, Ready, Listening

LEMMA RedirectedStep ==
    ASSUME SessionStateOK, NEW c \in Calls, RestRedirected(c)
    PROVE  SessionStateOK'
<1>1. /\ fault' = "redirected"
      /\ UNCHANGED <<socket, session, wsStatus, welcome, pingFreq, logonTimeout, wsDrops, authErrors>>
  BY DEF RestRedirected
<1>2. OrderEntryWSTypeOK'
  BY <1>1 DEF SessionStateOK, OrderEntryWSTypeOK
<1>3. SessionInv'
  BY <1>1 DEF SessionStateOK, SessionInv, StatusIsOfThisSession, Ready, Listening
<1> QED BY <1>1, <1>2, <1>3 DEF SessionStateOK, NoFault
-----------------------------------------------------------------------------
(* The calls.                                                               *)

CallStateOK == CallTypeOK /\ \A c \in Calls : CallInv(c)

LEMMA KindOfLemma ==
    ASSUME NEW c \in Calls
    PROVE  c[1] \in Requests
BY DEF Calls

LEMMA ForwardStep ==
    ASSUME CallStateOK, NEW r \in Requests, NEW k \in Kinds, NEW symbols \in SUBSET Symbols,
           NEW fate \in {"none", "dropped"}, Forward(r, k, symbols, fate)
    PROVE  CallStateOK'
<1> USE DEF CallStateOK
<1> DEFINE made == {r} \X symbols
<1>1. /\ kind[r] = "none" /\ kind' = [kind EXCEPT ![r] = k]
      /\ net' = [c \in Calls |-> IF c \in made THEN "sent" ELSE net[c]]
      /\ effect' = [c \in Calls |-> IF c \in made THEN fate ELSE effect[c]]
      /\ answer' = answer /\ raised' = raised /\ wsApi' = wsApi
  BY DEF Forward
<1>2. CallTypeOK'
  BY <1>1 DEF CallTypeOK
<1>3. ASSUME NEW c \in Calls PROVE CallInv(c)'
  <2>1. CallInv(c) /\ c[1] \in Requests
    BY KindOfLemma
  <2>2. CASE c[1] = r
    <3>1. net[c] = "idle"
      BY <1>1, <2>1, <2>2 DEF CallInv, KindOf, CallTypeOK
    <3>2. answer[c] = <<>>
      BY <2>1, <3>1 DEF CallInv
    <3>3. KindOf(c)' = k /\ k # "none"
      BY <1>1, <2>1, <2>2 DEF KindOf, CallTypeOK, Kinds
    <3>4. answer'[c] = <<>> /\ net'[c] # "over"
      BY <1>1, <3>1, <3>2
    <3> QED BY <3>3, <3>4 DEF CallInv
  <2>3. CASE c[1] # r
    <3>1. c \notin made
      BY <2>3
    <3>2. KindOf(c)' = KindOf(c)
      BY <1>1, <2>1, <2>3 DEF KindOf, CallTypeOK
    <3>3. net'[c] = net[c] /\ effect'[c] = effect[c] /\ answer'[c] = answer[c] /\ wsApi' = wsApi
      BY <1>1, <3>1
    <3> QED BY <2>1, <3>2, <3>3 DEF CallInv, AnswerIsTrue, SilenceIsTrue, OverWs
  <2> QED BY <2>2, <2>3
<1> QED BY <1>2, <1>3

LEMMA ExecuteStep ==
    ASSUME CallStateOK, NEW d \in Calls, Execute(d)
    PROVE  CallStateOK'
<1> USE DEF CallStateOK
<1>1. PICK e \in {"executed", "refused"} : effect' = [effect EXCEPT ![d] = e]
  BY DEF Execute
<1>2. effect[d] = "none" /\ UNCHANGED <<wsApi, kind, net, answer, raised>>
  BY DEF Execute
<1>3. CallTypeOK'
  BY <1>1, <1>2 DEF CallTypeOK
<1>4. ASSUME NEW c \in Calls PROVE CallInv(c)'
  <2>1. c # d => effect'[c] = effect[c]
    BY <1>1 DEF CallTypeOK
  <2>2. KindOf(c)' = KindOf(c)
    BY <1>2 DEF KindOf
  <2>3. effect[c] \notin {"executed", "refused"} \/ effect'[c] = effect[c]
    BY <1>2, <2>1
  <2> QED BY <1>2, <2>2, <2>3 DEF CallInv, AnswerIsTrue, SilenceIsTrue, OverWs
<1> QED BY <1>3, <1>4

(* A call is over, and what the OMS is given then is all it is told.        *)
LEMMA AnswerStep ==
    ASSUME CallStateOK, NEW d \in Calls, net[d] = "sent",
           NEW given \in Seq(Responses),
           answer' = [answer EXCEPT ![d] = given],
           net' = [net EXCEPT ![d] = "over"],
           UNCHANGED <<wsApi, kind, effect>>, raised' \in SUBSET Calls,
           \A i \in DOMAIN given : AnswerIsTrue(given[i], d),
           given = <<>> => SilenceIsTrue(d)
    PROVE  CallStateOK'
<1> USE DEF CallStateOK
<1>1. KindOf(d) # "none"
  BY DEF CallInv
<1>2. answer'[d] = given /\ \A c \in Calls \ {d} : answer'[c] = answer[c]
  BY DEF CallTypeOK
<1>3. CallTypeOK'
  <2>1. answer' \in [Calls -> Seq(Responses)]
    BY DEF CallTypeOK
  <2>2. net' \in [Calls -> {"idle", "sent", "over", "lost"}]
    BY DEF CallTypeOK
  <2> QED BY <2>1, <2>2 DEF CallTypeOK
<1>4. ASSUME NEW c \in Calls PROVE CallInv(c)'
  <2>1. KindOf(c)' = KindOf(c) /\ effect'[c] = effect[c]
    BY DEF KindOf
  <2>2. CASE c = d
    <3>1. net'[c] = "over"
      BY <2>2 DEF CallTypeOK
    <3> QED BY <1>1, <1>2, <2>1, <2>2, <3>1 DEF CallInv, AnswerIsTrue, SilenceIsTrue, OverWs
  <2>3. CASE c # d
    <3>1. net'[c] = net[c] /\ answer'[c] = answer[c]
      BY <1>2, <2>3 DEF CallTypeOK
    <3> QED BY <2>1, <3>1 DEF CallInv, AnswerIsTrue, SilenceIsTrue, OverWs
  <2> QED BY <2>2, <2>3
<1> QED BY <1>3, <1>4

LEMMA NothingToldYet ==
    ASSUME CallStateOK, NEW c \in Calls, net[c] = "sent"
    PROVE  answer[c] = <<>> /\ KindOf(c) \in Kinds
<1>1. answer[c] = <<>> /\ KindOf(c) # "none"
  BY DEF CallStateOK, CallInv
<1>2. KindOf(c) \in Kinds
  BY <1>1, KindOfLemma DEF CallStateOK, CallTypeOK, KindOf
<1> QED BY <1>1, <1>2

(* The try block says REJECTED only of a call the exchange refused, and     *)
(* process_response says nothing only of one it executed.                   *)
LEMMA ProcessResponseLemma ==
    ASSUME NEW c \in Calls, NEW m \in RestResponse, Truthful(m, c), KindOf(c) \in Kinds,
           NEW e \in Exceptions(KindOf(c), m)
    PROVE  /\ Tried(KindOf(c), m) \in {"none", "SERVER_ERROR", "REJECTED"}
           /\ Caught(e) \in Exceptional \cup {"none"}
           /\ Caught(e) # "none" => e # "none"
           /\ Tried(KindOf(c), m) = "REJECTED" => effect[c] = "refused"
           /\ Tried(KindOf(c), m) = "none" /\ Caught(e) = "none" => effect[c] = "executed"
<1> DEFINE k == KindOf(c)
           tried == Tried(k, m)
<1>1. Caught(e) \in Exceptional \cup {"none"} /\ (Caught(e) # "none" => e # "none")
  BY DEF Caught, Exceptional
<1>2. m.category \in {"success", "client_error", "server_error", "unexpected", "network"}
  BY DEF RestResponse
<1>3. m.body \in {"success", "empty", "refused", "malformed"}
  BY DEF RestResponse
<1>4. e \in {"none", "network", "oms", "std"}
  BY DEF Exceptions
<1>5. CASE Decoded(m) /\ m.body # "malformed"
  <2>1. tried = HandleSuccess(k, m.body)
    BY <1>5 DEF Tried, Decoded
  <2>2. HandleSuccess(k, m.body) \in {"none", "REJECTED"}
    BY DEF HandleSuccess, CreateOrderAck, CancelOrderAck, CancelAllOrdersAck
  <2>3. CASE m.body = "success"
    <3>1. effect[c] = "executed"
      BY <1>5, <2>3 DEF Truthful
    <3>2. HandleSuccess(k, m.body) = "none"
      BY <2>3 DEF HandleSuccess, CreateOrderAck, CancelOrderAck, CancelAllOrdersAck
    <3> QED BY <1>1, <2>1, <3>1, <3>2
  <2>4. CASE m.body = "refused"
    <3>1. effect[c] = "refused"
      BY <1>5, <2>4 DEF Truthful
    <3>2. HandleSuccess(k, m.body) = "REJECTED"
      BY <2>4 DEF HandleSuccess, CreateOrderAck, CancelOrderAck, CancelAllOrdersAck
    <3> QED BY <1>1, <2>1, <3>1, <3>2
  <2>5. CASE m.body = "empty"
    <3>1. effect[c] = "refused" /\ k = "CANCEL_ORDER"
      BY <1>5, <2>5 DEF Truthful
    <3>2. HandleSuccess(k, m.body) = "REJECTED"
      BY <2>5, <3>1 DEF HandleSuccess, CancelOrderAck
    <3> QED BY <1>1, <2>1, <3>1, <3>2
  <2> QED BY <1>3, <1>5, <2>3, <2>4, <2>5
<1>6. CASE Decoded(m) /\ m.body = "malformed"
  <2>1. tried = "none"
    BY <1>6 DEF Tried, Decoded
  <2>2. e = "std"
    BY <1>6, <2>1 DEF Exceptions, Decoded
  <2>3. Caught(e) = "ERROR"
    BY <2>2 DEF Caught
  <2> QED BY <1>1, <2>1, <2>3
<1>7. CASE m.category = "server_error"
  <2>1. tried = "SERVER_ERROR"
    BY <1>7 DEF Tried, Decoded
  <2> QED BY <1>1, <2>1
<1>8. CASE m.category \in {"unexpected", "network"}
  <2>1. tried = "none"
    BY <1>8 DEF Tried, Decoded
  <2>2. e \in {"network", "oms", "std"}
    BY <1>8, <2>1 DEF Exceptions, Decoded
  <2>3. Caught(e) # "none"
    BY <2>2 DEF Caught
  <2> QED BY <1>1, <2>1, <2>3
<1> QED BY <1>2, <1>5, <1>6, <1>7, <1>8 DEF Decoded

LEMMA AppendOnce ==
    ASSUME NEW x, NEW y
    PROVE  Append(<<x>>, y) = <<x, y>>
<1>1. Append(<<x>>, y) = [i \in 1..2 |-> IF i = 2 THEN y ELSE <<x>>[i]]
  <2>1. Len(<<x>>) = 1
    OBVIOUS
  <2> QED BY <2>1
<1>2. <<x, y>> = [i \in 1..2 |-> IF i = 2 THEN y ELSE x]
  OBVIOUS
<1>3. ASSUME NEW i \in 1..2
      PROVE  (IF i = 2 THEN y ELSE <<x>>[i]) = (IF i = 2 THEN y ELSE x)
  <2>1. i = 1 \/ i = 2
    OBVIOUS
  <2> QED BY <2>1
<1> QED BY <1>1, <1>2, <1>3

(* What the OMS is told when the try block says tried and a catch clause    *)
(* says caught.                                                             *)
LEMMA ToldLemma ==
    ASSUME NEW k, NEW tried, NEW caught
    PROVE  Respond(Respond(<<>>, k, tried), k, caught) =
               IF tried = "none"
               THEN IF caught = "none" THEN <<>> ELSE <<Response(k, caught)>>
               ELSE IF caught = "none" THEN <<Response(k, tried)>>
               ELSE <<Response(k, tried), Response(k, caught)>>
<1> DEFINE first == Response(k, tried)
           second == Response(k, caught)
<1>1. Append(<<>>, first) = <<first>> /\ Append(<<>>, second) = <<second>>
  OBVIOUS
<1>2. Append(<<first>>, second) = <<first, second>>
  BY AppendOnce
<1> HIDE DEF first, second
<1>3. Respond(<<>>, k, tried) = IF tried = "none" THEN <<>> ELSE <<first>>
  BY <1>1 DEF Respond, first
<1>4. CASE tried = "none"
  <2>1. Respond(<<>>, k, caught) = IF caught = "none" THEN <<>> ELSE <<second>>
    BY <1>1 DEF Respond, second
  <2> QED BY <1>3, <1>4, <2>1 DEF second
<1>5. CASE tried # "none"
  <2>1. Respond(<<first>>, k, caught) = IF caught = "none" THEN <<first>> ELSE <<first, second>>
    BY <1>2 DEF Respond, second
  <2> QED BY <1>3, <1>5, <2>1 DEF first, second
<1> QED BY <1>4, <1>5

(* What a callback, and what a message, answers.                            *)
RestGiven(c, m, e) == ProcessResponse(<<>>, KindOf(c), m, e)

WsStatus(c) == IF effect[c] = "executed" THEN "ACCEPTED" ELSE "REJECTED"

LEMMA RestCallbackStep ==
    ASSUME CallStateOK, NEW c \in Calls, NEW m \in RestResponse,
           NEW e \in Exceptions(KindOf(c), m), RestCallback(c, m, e)
    PROVE  /\ CallStateOK' /\ answer[c] = <<>>
           /\ net[c] = "sent" /\ net' = [net EXCEPT ![c] = "over"]
           /\ answer' = [answer EXCEPT ![c] = RestGiven(c, m, e)]
           /\ \/ RestGiven(c, m, e) = <<>>
              \/ \E a \in Responses : RestGiven(c, m, e) = <<a>>
              \/ /\ c \in raised'
                 /\ \E a \in Responses, b \in {x \in Responses : x.request_status \in Exceptional} :
                        RestGiven(c, m, e) = <<a, b>>
<1> DEFINE k == KindOf(c)
           tried == Tried(k, m)
           caught == Caught(e)
           given == RestGiven(c, m, e)
<1>1. /\ net[c] = "sent" /\ Truthful(m, c) /\ ~OverWs(k)
      /\ net' = [net EXCEPT ![c] = "over"]
      /\ answer' = [answer EXCEPT ![c] = ProcessResponse(answer[c], k, m, e)]
      /\ raised' = IF tried # "none" /\ e # "none" THEN raised \cup {c} ELSE raised
      /\ UNCHANGED <<wsApi, kind, effect>>
  BY DEF RestCallback
<1>2. answer[c] = <<>> /\ k \in Kinds
  BY <1>1, NothingToldYet
<1>3. answer' = [answer EXCEPT ![c] = given]
  BY <1>1, <1>2 DEF RestGiven
<1>4. /\ tried \in {"none", "SERVER_ERROR", "REJECTED"}
      /\ caught \in Exceptional \cup {"none"}
      /\ caught # "none" => e # "none"
      /\ tried = "REJECTED" => effect[c] = "refused"
      /\ tried = "none" /\ caught = "none" => effect[c] = "executed"
  BY <1>1, <1>2, ProcessResponseLemma
<1>5. given = IF tried = "none"
              THEN IF caught = "none" THEN <<>> ELSE <<Response(k, caught)>>
              ELSE IF caught = "none" THEN <<Response(k, tried)>>
              ELSE <<Response(k, tried), Response(k, caught)>>
  <2>1. given = Respond(Respond(<<>>, k, tried), k, caught)
    BY DEF RestGiven, ProcessResponse
  <2> HIDE DEF k, tried, caught, given
  <2> QED BY <2>1, ToldLemma
<1> HIDE DEF tried, caught, given
<1>6. tried # "none" => /\ Response(k, tried) \in Responses
                        /\ AnswerIsTrue(Response(k, tried), c)
  BY <1>2, <1>4 DEF Response, Responses, Statuses, AnswerIsTrue
<1>7. caught # "none" => /\ Response(k, caught) \in {x \in Responses : x.request_status \in Exceptional}
                         /\ AnswerIsTrue(Response(k, caught), c)
  BY <1>2, <1>4 DEF Response, Responses, Statuses, Exceptional, AnswerIsTrue
<1>8. raised' \in SUBSET Calls
  BY <1>1 DEF CallStateOK, CallTypeOK
<1> HIDE DEF k
<1> DEFINE a == Response(k, tried)
           b == Response(k, caught)
           Shape == \/ given = <<>>
                    \/ \E x \in Responses : given = <<x>>
                    \/ /\ c \in raised'
                       /\ \E x \in Responses,
                             y \in {z \in Responses : z.request_status \in Exceptional} :
                             given = <<x, y>>
           Fits == /\ given \in Seq(Responses)
                   /\ \A i \in DOMAIN given : AnswerIsTrue(given[i], c)
                   /\ given = <<>> => SilenceIsTrue(c)
<1>9. Shape /\ Fits
  <2> HIDE DEF a, b
  <2>1. CASE tried = "none" /\ caught = "none"
    <3>1. given = <<>>
      BY <1>5, <2>1
    <3>2. SilenceIsTrue(c)
      BY <1>1, <1>4, <2>1 DEF SilenceIsTrue, k
    <3> QED BY <3>1, <3>2
  <2>2. CASE tried = "none" /\ caught # "none"
    <3>1. given = <<b>>
      BY <1>5, <2>2 DEF b
    <3>2. b \in Responses /\ AnswerIsTrue(b, c)
      BY <1>7, <2>2 DEF b
    <3>3. given \in Seq(Responses) /\ given # <<>>
      BY <3>1, <3>2
    <3>4. \A i \in DOMAIN given : given[i] = b
      BY <3>1
    <3> QED BY <3>1, <3>2, <3>3, <3>4
  <2>3. CASE tried # "none" /\ caught = "none"
    <3>1. given = <<a>>
      BY <1>5, <2>3 DEF a
    <3>2. a \in Responses /\ AnswerIsTrue(a, c)
      BY <1>6, <2>3 DEF a
    <3>3. given \in Seq(Responses) /\ given # <<>>
      BY <3>1, <3>2
    <3>4. \A i \in DOMAIN given : given[i] = a
      BY <3>1
    <3> QED BY <3>1, <3>2, <3>3, <3>4
  <2>4. CASE tried # "none" /\ caught # "none"
    <3>1. given = <<a, b>>
      BY <1>5, <2>4 DEF a, b
    <3>2. a \in Responses /\ AnswerIsTrue(a, c)
      BY <1>6, <2>4 DEF a
    <3>3. b \in {z \in Responses : z.request_status \in Exceptional} /\ AnswerIsTrue(b, c)
      BY <1>7, <2>4 DEF b
    <3>4. given \in Seq(Responses) /\ given # <<>>
      BY <3>1, <3>2, <3>3
    <3>5. \A i \in DOMAIN given : given[i] = a \/ given[i] = b
      BY <3>1
    <3>6. c \in raised'
      BY <1>1, <1>4, <2>4 DEF tried
    <3> QED BY <3>1, <3>2, <3>3, <3>4, <3>5, <3>6
  <2> QED BY <2>1, <2>2, <2>3, <2>4
<1>10. CallStateOK'
  BY <1>1, <1>3, <1>8, <1>9, AnswerStep
<1>11. RestGiven(c, m, e) = given
  BY DEF given
<1> HIDE DEF a, b, Fits
<1> QED BY <1>1, <1>2, <1>3, <1>9, <1>10, <1>11

(* The handler that the answer to an order reaches.                         *)
LEMMA OrderDispatchLemma ==
    ASSUME NEW c \in Calls, KindOf(c) \in {"CREATE_ORDER", "CANCEL_ORDER"}
    PROVE  (CASE WSDispatch(WsOrderMessage(c)) = "WSAddOrderAck" -> WSAddOrderAck
              [] WSDispatch(WsOrderMessage(c)) = "WSCancelOrderAck" -> WSCancelOrderAck
              [] OTHER -> WSError(WsOrderMessage(c).op)) = Response(KindOf(c), WsStatus(c))
<1> DEFINE m == WsOrderMessage(c)
<1>1. /\ ~m.session_id /\ ~m.ping_interval
      /\ m.op = IF KindOf(c) = "CREATE_ORDER" THEN "ADD_ORDER_ACK" ELSE "CANCEL_ORDER_ACK"
      /\ m.code = IF effect[c] = "executed" THEN "success" ELSE "other"
  BY DEF WsOrderMessage
<1> HIDE DEF m
<1> DEFINE handler == WSDispatch(m)
<1>2. handler = IF effect[c] # "executed" THEN "WSError"
                ELSE IF KindOf(c) = "CREATE_ORDER" THEN "WSAddOrderAck" ELSE "WSCancelOrderAck"
  BY <1>1 DEF WSDispatch, Failed, OrderAcks
<1> HIDE DEF handler
<1>3. (CASE handler = "WSAddOrderAck" -> WSAddOrderAck
         [] handler = "WSCancelOrderAck" -> WSCancelOrderAck
         [] OTHER -> WSError(m.op)) = Response(KindOf(c), WsStatus(c))
  BY <1>1, <1>2 DEF WSAddOrderAck, WSCancelOrderAck, WSError, Response, WsStatus
<1> QED BY <1>3 DEF handler, m

LEMMA WsOrderTextStep ==
    ASSUME CallStateOK, NEW c \in Calls, WsOrderText(c)
    PROVE  /\ CallStateOK' /\ answer[c] = <<>>
           /\ net[c] = "sent" /\ net' = [net EXCEPT ![c] = "over"]
           /\ \E a \in Responses : answer' = [answer EXCEPT ![c] = <<a>>]
<1> DEFINE a == Response(KindOf(c), WsStatus(c))
<1>1. /\ net[c] = "sent" /\ OverWs(KindOf(c)) /\ effect[c] \in {"executed", "refused"}
      /\ net' = [net EXCEPT ![c] = "over"]
      /\ UNCHANGED <<wsApi, kind, effect, raised>>
  BY DEF WsOrderText
<1>2. answer[c] = <<>> /\ KindOf(c) \in {"CREATE_ORDER", "CANCEL_ORDER"}
  BY <1>1, NothingToldYet DEF OverWs, Kinds
<1>3. answer' = [answer EXCEPT ![c] = Append(answer[c], a)]
  BY <1>2, OrderDispatchLemma DEF WsOrderText
<1>4. a \in Responses
  BY <1>2 DEF Response, Responses, Statuses, Kinds, WsStatus
<1>5. AnswerIsTrue(a, c)
  BY <1>1 DEF Response, AnswerIsTrue, WsStatus
<1> HIDE DEF a
<1>6. Append(answer[c], a) = <<a>> /\ <<a>> \in Seq(Responses) /\ <<a>> # <<>>
  BY <1>2, <1>4
<1>7. answer' = [answer EXCEPT ![c] = <<a>>]
  BY <1>3, <1>6
<1>8. \A i \in DOMAIN <<a>> : AnswerIsTrue(<<a>>[i], c)
  BY <1>5
<1>9. raised' \in SUBSET Calls
  BY <1>1 DEF CallStateOK, CallTypeOK
<1>10. CallStateOK'
  BY <1>1, <1>6, <1>7, <1>8, <1>9, AnswerStep
<1> QED BY <1>1, <1>2, <1>4, <1>7, <1>10

LEMMA LostStep ==
    ASSUME CallStateOK, WsDisconnect
    PROVE  CallStateOK'
<1> USE DEF CallStateOK
<1>1. /\ net' = [c \in Calls |-> IF net[c] = "sent" /\ OverWs(KindOf(c)) THEN "lost" ELSE net[c]]
      /\ UNCHANGED <<wsApi, kind, effect, answer, raised>>
  BY DEF WsDisconnect
<1>2. CallTypeOK'
  BY <1>1 DEF CallTypeOK
<1>3. ASSUME NEW c \in Calls PROVE CallInv(c)'
  BY <1>1 DEF CallInv, AnswerIsTrue, SilenceIsTrue, OverWs, KindOf
<1> QED BY <1>2, <1>3

LEMMA CallsUnchanged ==
    ASSUME CallStateOK, UNCHANGED <<wsApi, kind, net, effect, answer, raised>>
    PROVE  CallStateOK'
BY DEF CallStateOK, CallTypeOK, CallInv, AnswerIsTrue, SilenceIsTrue, OverWs, KindOf
-----------------------------------------------------------------------------
(* Both parts together.                                                     *)

LEMMA IInvParts ==
    ASSUME wsApi \in BOOLEAN, restReady \in BOOLEAN
    PROVE  IInv <=> SessionStateOK /\ CallStateOK
BY DEF IInv, TypeOK, SessionStateOK, CallStateOK, CallTypeOK

LEMMA SubmitCases ==
    ASSUME NEW r \in Requests,
           \/ \E s \in Symbols : CreateOrder(r, s) \/ CancelOrder(r, s)
           \/ \E known \in SUBSET Symbols, filter \in Symbols \cup {NoSymbol} :
                 CancelAllOrders(r, known, filter)
    PROVE  \E k \in Kinds, symbols \in SUBSET Symbols, fate \in {"none", "dropped"} :
               Forward(r, k, symbols, fate)
<1>1. ASSUME NEW s \in Symbols, CreateOrder(r, s) \/ CancelOrder(r, s)
      PROVE  \E k \in Kinds, fate \in {"none", "dropped"} : Forward(r, k, {s}, fate)
  <2>1. "CREATE_ORDER" \in Kinds /\ "CANCEL_ORDER" \in Kinds
    BY DEF Kinds
  <2>2. \E k \in {"CREATE_ORDER", "CANCEL_ORDER"}, fate \in {"none", "dropped"} :
            Forward(r, k, {s}, fate)
    BY <1>1 DEF CreateOrder, CancelOrder, RestCreateOrder, RestCancelOrder, WsForward
  <2> QED BY <2>1, <2>2
<1>2. ASSUME NEW known \in SUBSET Symbols, NEW filter \in Symbols \cup {NoSymbol},
             CancelAllOrders(r, known, filter)
      PROVE  \E k \in Kinds, symbols \in SUBSET Symbols : Forward(r, k, symbols, "none")
  <2> DEFINE symbols == {s \in known : filter \in {NoSymbol, s}}
  <2>1. Forward(r, "CANCEL_ALL_ORDERS", symbols, "none")
    BY <1>2 DEF CancelAllOrders
  <2>2. symbols \in SUBSET Symbols /\ "CANCEL_ALL_ORDERS" \in Kinds
    BY DEF Kinds
  <2> QED BY <2>1, <2>2
<1> QED BY <1>1, <1>2

LEMMA SessionStep ==
    ASSUME IInv, WsConnect \/ WsOpen \/ WsSession \/ WsTick
    PROVE  IInv' /\ UNCHANGED actionVars
<1>1. UNCHANGED actionVars
  BY DEF WsConnect, WsOpen, WsSession, WsTick, Ws
<1>2. wsApi \in BOOLEAN /\ restReady \in BOOLEAN /\ wsApi' = wsApi /\ restReady' = restReady
  BY <1>1 DEF IInv, TypeOK, actionVars
<1>3. SessionStateOK /\ CallStateOK
  BY <1>2, IInvParts
<1>4. CallStateOK'
  BY <1>1, <1>3, CallsUnchanged DEF actionVars
<1>5. SessionStateOK'
  BY <1>3, ConnectedStep, OpenedStep, TextStep, TimerStep
  DEF WsConnect, WsOpen, WsSession, WsTick, Ws
<1>6. wsApi' \in BOOLEAN /\ restReady' \in BOOLEAN
  BY <1>2
<1>7. IInv'
  BY <1>4, <1>5, <1>6 DEF IInv, TypeOK, SessionStateOK, CallStateOK, CallTypeOK
<1> QED BY <1>1, <1>7

LEMMA NextKeepsIInv == IInv /\ [Next]_vars => IInv'
<1> SUFFICES ASSUME IInv, [Next]_vars PROVE IInv'
  OBVIOUS
<1>1. wsApi \in BOOLEAN /\ restReady \in BOOLEAN
  BY DEF IInv, TypeOK
<1>2. SessionStateOK /\ CallStateOK
  BY <1>1, IInvParts
<1>3. ASSUME SessionStateOK', CallStateOK', wsApi' = wsApi, restReady' \in BOOLEAN
      PROVE  IInv'
  <2>1. wsApi' \in BOOLEAN
    BY <1>1, <1>3
  <2> QED BY <1>3, <2>1 DEF IInv, TypeOK, SessionStateOK, CallStateOK, CallTypeOK
<1>4. CASE Submit
  <2>1. PICK r \in Requests, k \in Kinds, symbols \in SUBSET Symbols, fate \in {"none", "dropped"} :
            Forward(r, k, symbols, fate)
    BY <1>4, SubmitCases DEF Submit
  <2>2. UNCHANGED <<wsVars, wsApi, restReady>>
    BY <2>1 DEF Forward
  <2>3. CallStateOK' /\ SessionStateOK'
    BY <1>2, <2>1, <2>2, ForwardStep, SessionUnchanged
  <2>4. restReady' \in BOOLEAN
    BY <1>1, <2>2
  <2> QED BY <1>3, <2>2, <2>3, <2>4
<1>5. ASSUME NEW c \in Calls, Execute(c) \/ Callback(c) \/ WsOrderText(c)
      PROVE  IInv'
  <2>1. UNCHANGED <<wsVars, wsApi, restReady>>
    BY <1>5 DEF Execute, Callback, RestCallback, WsOrderText
  <2>2. CallStateOK'
    <3>1. CASE Callback(c)
      <4>1. PICK m \in RestResponse : \E e \in Exceptions(KindOf(c), m) : RestCallback(c, m, e)
        BY <3>1 DEF Callback
      <4>2. PICK e \in Exceptions(KindOf(c), m) : RestCallback(c, m, e)
        BY <4>1
      <4> QED BY <1>2, <4>2, RestCallbackStep
    <3> QED BY <1>2, <1>5, <3>1, ExecuteStep, WsOrderTextStep
  <2>3. SessionStateOK'
    BY <1>2, <2>1, SessionUnchanged
  <2>4. restReady' \in BOOLEAN
    BY <1>1, <2>1
  <2> QED BY <1>3, <2>1, <2>2, <2>3, <2>4
<1>6. CASE WsConnect \/ WsOpen \/ WsSession \/ WsTick
  BY <1>6, SessionStep
<1>7. CASE WsDisconnect
  <2>1. wsApi' = wsApi /\ restReady' \in BOOLEAN
    BY <1>1, <1>7 DEF WsDisconnect
  <2>2. SessionStateOK' /\ CallStateOK'
    BY <1>2, <1>7, DisconnectedStep, LostStep DEF WsDisconnect
  <2> QED BY <1>3, <2>1, <2>2
<1>8. CASE RestChange
  <2>1. UNCHANGED <<wsVars, wsApi, kind, net, effect, answer, raised>>
    BY <1>8 DEF RestChange
  <2>2. restReady' \in BOOLEAN
    BY <1>8 DEF RestChange
  <2>3. CallStateOK' /\ SessionStateOK'
    BY <1>2, <2>1, CallsUnchanged, SessionUnchanged
  <2> QED BY <1>3, <2>1, <2>2, <2>3
<1>9. ASSUME NEW c \in Calls, RestRedirected(c)
      PROVE  IInv'
  <2>1. UNCHANGED actionVars
    BY <1>9 DEF RestRedirected
  <2>2. CallStateOK' /\ SessionStateOK'
    BY <1>2, <1>9, <2>1, CallsUnchanged, RedirectedStep DEF actionVars
  <2>3. wsApi' = wsApi /\ restReady' \in BOOLEAN
    BY <1>1, <2>1 DEF actionVars
  <2> QED BY <1>3, <2>2, <2>3
<1>10. CASE Ended \/ UNCHANGED vars
  <2>1. UNCHANGED <<wsVars, wsApi, restReady, kind, net, effect, answer, raised>>
    BY <1>10 DEF Ended, vars, actionVars
  <2>2. CallStateOK' /\ SessionStateOK'
    BY <1>2, <2>1, CallsUnchanged, SessionUnchanged
  <2>3. restReady' \in BOOLEAN
    BY <1>1, <2>1
  <2> QED BY <1>3, <2>1, <2>2, <2>3
<1> QED BY <1>4, <1>5, <1>6, <1>7, <1>8, <1>9, <1>10 DEF Next

-----------------------------------------------------------------------------
(* IInv holds in every reachable state.                                     *)
THEOREM Invariance == Spec => []IInv
BY InitIInv, NextKeepsIInv, PTL DEF Spec

(* Every variable keeps its type.                                           *)
THEOREM TypeCorrect == Spec => []TypeOK
<1>1. IInv => TypeOK
  BY DEF IInv
<1> QED BY <1>1, Invariance, PTL

(* No assert of the order entry session is hit, a refused logon is fatal    *)
(* only without retry, and nothing else but a redirection is.               *)
THEOREM NeverFaults == Spec => []NoFault
<1>1. IInv => NoFault
  BY DEF IInv
<1> QED BY <1>1, Invariance, PTL

(* READY and LOGIN_SENT are about the session that is open now.             *)
THEOREM StatusIsCurrent == Spec => []StatusIsOfThisSession
<1>1. IInv => StatusIsOfThisSession
  BY DEF IInv, SessionInv
<1> QED BY <1>1, Invariance, PTL

(* ACCEPTED was executed and REJECTED was refused, whichever of the two     *)
(* connections the order went over, and a call that ended in silence was    *)
(* an executed REST call.                                                   *)
THEOREM AnswersAreAlwaysTrue == Spec => []AnswersAreTrue
<1>1. IInv => AnswersAreTrue
  BY DEF IInv, CallInv, AnswerIsTrue, SilenceIsTrue, AnswersAreTrue
<1> QED BY <1>1, Invariance, PTL

-----------------------------------------------------------------------------
(* OrderActions implements OrderRequests.                                   *)

PhaseOf(n) == CASE n = "idle" -> "new" [] n = "sent" -> "pending" [] OTHER -> "closed"

Phases == [c \in Calls |-> PhaseOf(net[c])]

Errors == {a \in Responses : a.request_status \in Exceptional}

(* A step of one call: nothing, made, given up, answered, or answered again *)
(* with the error of the OMS.                                               *)
CallStep(c) ==
    \/ net'[c] = net[c] /\ answer'[c] = answer[c]
    \/ net[c] = "idle" /\ net'[c] = "sent" /\ answer'[c] = answer[c]
    \/ net[c] = "sent" /\ net'[c] \in {"over", "lost"} /\ answer'[c] = answer[c]
    \/ /\ net[c] = "sent" /\ net'[c] = "over"
       /\ answer[c] = <<>> /\ \E a \in Responses : answer'[c] = <<a>>
    \/ /\ net[c] = "sent" /\ net'[c] = "over" /\ c \in raised'
       /\ answer[c] = <<>> /\ \E a \in Responses, b \in Errors : answer'[c] = <<a, b>>

LEMMA ForwardIsCallStep ==
    ASSUME IInv, NEW c \in Calls, NEW r \in Requests, NEW k \in Kinds,
           NEW symbols \in SUBSET Symbols, NEW fate \in {"none", "dropped"},
           Forward(r, k, symbols, fate)
    PROVE  CallStep(c)
<1>1. /\ kind[r] = "none" /\ answer' = answer
      /\ net' = [d \in Calls |-> IF d \in {r} \X symbols THEN "sent" ELSE net[d]]
  BY DEF Forward
<1>2. CASE c \in {r} \X symbols
  <2>1. KindOf(c) = "none"
    BY <1>1, <1>2 DEF KindOf
  <2>2. net[c] = "idle"
    BY <2>1 DEF IInv, CallInv
  <2> QED BY <1>1, <1>2, <2>2 DEF CallStep
<1>3. CASE c \notin {r} \X symbols
  BY <1>1, <1>3 DEF CallStep
<1> QED BY <1>2, <1>3

LEMMA OtherCallKept ==
    ASSUME IInv, NEW c \in Calls, NEW d \in Calls, c # d, NEW given,
           net' = [net EXCEPT ![d] = "over"], answer' = [answer EXCEPT ![d] = given]
    PROVE  CallStep(c)
BY DEF IInv, TypeOK, CallStep

LEMMA AnsweredIsCallStep ==
    ASSUME IInv, NEW d \in Calls, NEW given, net[d] = "sent", answer[d] = <<>>,
           net' = [net EXCEPT ![d] = "over"], answer' = [answer EXCEPT ![d] = given],
           \/ given = <<>>
           \/ \E a \in Responses : given = <<a>>
           \/ d \in raised' /\ \E a \in Responses, b \in Errors : given = <<a, b>>
    PROVE  \A c \in Calls : CallStep(c)
<1>1. net'[d] = "over" /\ answer'[d] = given
  BY DEF IInv, TypeOK
<1>2. CallStep(d)
  <2>1. CASE given = <<>>
    BY <1>1, <2>1 DEF CallStep
  <2>2. CASE \E a \in Responses : given = <<a>>
    BY <1>1, <2>2 DEF CallStep
  <2>3. CASE d \in raised' /\ \E a \in Responses, b \in Errors : given = <<a, b>>
    <3> HIDE DEF Errors
    <3> QED BY <1>1, <2>3 DEF CallStep
  <2> QED BY <2>1, <2>2, <2>3
<1> QED BY <1>2, OtherCallKept

LEMMA NextIsCallStep == IInv /\ [Next]_vars => \A c \in Calls : CallStep(c)
<1> SUFFICES ASSUME IInv, [Next]_vars PROVE \A c \in Calls : CallStep(c)
  OBVIOUS
<1>1. CallStateOK
  BY IInvParts DEF IInv, TypeOK
<1>2. CASE Submit
  <2>1. PICK r \in Requests, k \in Kinds, symbols \in SUBSET Symbols, fate \in {"none", "dropped"} :
            Forward(r, k, symbols, fate)
    BY <1>2, SubmitCases DEF Submit
  <2> QED BY <2>1, ForwardIsCallStep
<1>3. ASSUME NEW d \in Calls, Execute(d) \/ RestRedirected(d)
      PROVE  \A c \in Calls : CallStep(c)
  BY <1>3 DEF Execute, RestRedirected, actionVars, CallStep
<1>4. ASSUME NEW d \in Calls, Callback(d)
      PROVE  \A c \in Calls : CallStep(c)
  <2>0. PICK m \in RestResponse : \E e \in Exceptions(KindOf(d), m) : RestCallback(d, m, e)
    BY <1>4 DEF Callback
  <2>1. PICK e \in Exceptions(KindOf(d), m) : RestCallback(d, m, e)
    BY <2>0
  <2> DEFINE given == RestGiven(d, m, e)
  <2>2. /\ answer[d] = <<>>
        /\ net[d] = "sent" /\ net' = [net EXCEPT ![d] = "over"]
        /\ answer' = [answer EXCEPT ![d] = given]
        /\ \/ given = <<>>
           \/ \E a \in Responses : given = <<a>>
           \/ d \in raised' /\ \E a \in Responses, b \in Errors : given = <<a, b>>
    BY <1>1, <2>1, RestCallbackStep DEF Errors
  <2> HIDE DEF given
  <2> QED BY <2>2, AnsweredIsCallStep
<1>5. ASSUME NEW d \in Calls, WsOrderText(d)
      PROVE  \A c \in Calls : CallStep(c)
  <2>1. PICK a \in Responses : answer' = [answer EXCEPT ![d] = <<a>>]
    BY <1>1, <1>5, WsOrderTextStep
  <2>2. answer[d] = <<>> /\ net[d] = "sent" /\ net' = [net EXCEPT ![d] = "over"]
    BY <1>1, <1>5, WsOrderTextStep
  <2> QED BY <2>1, <2>2, AnsweredIsCallStep
<1>6. CASE WsConnect \/ WsOpen \/ WsSession \/ WsTick
  BY <1>6, SessionStep DEF actionVars, CallStep
<1>7. CASE WsDisconnect
  BY <1>7 DEF WsDisconnect, CallStep
<1>8. CASE RestChange \/ Ended \/ UNCHANGED vars
  BY <1>8 DEF RestChange, Ended, vars, actionVars, CallStep
<1> QED BY <1>2, <1>3, <1>4, <1>5, <1>6, <1>7, <1>8 DEF Next

LEMMA StepRefinesOrderRequests ==
    IInv /\ IInv' /\ [Next]_vars => [OR!Next]_(<<Phases, answer, raised>>)
<1> SUFFICES ASSUME IInv, IInv', [Next]_vars
             PROVE  /\ DOMAIN Phases' = Calls /\ DOMAIN answer' = Calls
                    /\ \A c \in Calls :
                         \/ OR!Forward(c) \/ OR!Answer(c) \/ OR!AnswerAgain(c)
                         \/ OR!GiveUp(c) \/ OR!Stutter(c)
  BY DEF OR!Next, Phases, PhaseOf
<1>1. DOMAIN Phases' = Calls
  BY DEF Phases
<1>2. DOMAIN answer' = Calls
  BY DEF IInv, TypeOK
<1>3. ASSUME NEW c \in Calls
      PROVE  \/ OR!Forward(c) \/ OR!Answer(c) \/ OR!AnswerAgain(c)
             \/ OR!GiveUp(c) \/ OR!Stutter(c)
  <2>1. CallStep(c)
    BY NextIsCallStep
  <2>2. Phases[c] = PhaseOf(net[c]) /\ Phases'[c] = PhaseOf(net'[c])
    BY DEF Phases
  <2>3. /\ PhaseOf("idle") = "new" /\ PhaseOf("sent") = "pending"
        /\ PhaseOf("over") = "closed" /\ PhaseOf("lost") = "closed"
    BY DEF PhaseOf
  <2>4. CASE net'[c] = net[c] /\ answer'[c] = answer[c]
    BY <2>2, <2>4 DEF OR!Stutter, Phases, PhaseOf
  <2>5. CASE net[c] = "idle" /\ net'[c] = "sent" /\ answer'[c] = answer[c]
    BY <2>2, <2>3, <2>5 DEF OR!Forward, Phases, PhaseOf
  <2>6. CASE net[c] = "sent" /\ net'[c] \in {"over", "lost"} /\ answer'[c] = answer[c]
    BY <2>2, <2>3, <2>6 DEF OR!GiveUp, OR!Close, Phases, PhaseOf
  <2>7. CASE /\ net[c] = "sent" /\ net'[c] = "over"
             /\ answer[c] = <<>> /\ \E a \in Responses : answer'[c] = <<a>>
    BY <2>2, <2>3, <2>7 DEF OR!Answer, OR!Close, Phases, PhaseOf
  <2>8. CASE /\ net[c] = "sent" /\ net'[c] = "over" /\ c \in raised'
             /\ answer[c] = <<>> /\ \E a \in Responses, b \in Errors : answer'[c] = <<a, b>>
    BY <2>2, <2>3, <2>8 DEF OR!AnswerAgain, OR!Close, Phases, PhaseOf, Errors
  <2> QED BY <2>1, <2>4, <2>5, <2>6, <2>7, <2>8 DEF CallStep
<1> QED BY <1>1, <1>2, <1>3

(* No call is answered twice, before it was made or after it was given up,  *)
(* but with the error that the OMS itself raised at the first answer: the   *)
(* order actions implement OrderRequests.                                   *)
THEOREM EachCallIsAnsweredOnce == Spec => OneAnswerEach
<1>1. Init => OR!Init
  BY DEF Init, OR!Init
<1>2. IInv /\ IInv' /\ [Next]_vars => [OR!Next]_(<<Phases, answer, raised>>)
  BY StepRefinesOrderRequests
<1> QED BY <1>1, <1>2, Invariance, PTL DEF Spec, OneAnswerEach, OR!Spec, Phases, PhaseOf
=============================================================================
