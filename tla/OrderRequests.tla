--------------------------- MODULE OrderRequests ---------------------------
(***************************************************************************)
(* What the gateway promises the OMS about a call to the exchange: it is   *)
(* answered at most once, only after it was made, and never once the       *)
(* gateway has given it up.  Only an OMS that raised an exception when it  *)
(* was handed the answer is told again, of the error that it raised.       *)
(* Several calls may take a step together.                                 *)
(***************************************************************************)

CONSTANTS
    Calls,
    Responses,          \* what the OMS may be told of a call
    Errors              \* those that stand for an exception

VARIABLES
    phase, answer,
    raised              \* the calls whose answer made the OMS raise

Init ==
    /\ phase = [c \in Calls |-> "new"]
    /\ answer = [c \in Calls |-> <<>>]
    /\ raised = {}

Forward(c) == phase[c] = "new" /\ phase'[c] = "pending" /\ answer'[c] = answer[c]

Close(c) == phase[c] = "pending" /\ phase'[c] = "closed"

Answer(c) == Close(c) /\ answer[c] = <<>> /\ \E a \in Responses : answer'[c] = <<a>>

AnswerAgain(c) ==
    /\ Close(c) /\ c \in raised'
    /\ answer[c] = <<>> /\ \E a \in Responses, b \in Errors : answer'[c] = <<a, b>>

GiveUp(c) == Close(c) /\ answer'[c] = answer[c]

Stutter(c) == phase'[c] = phase[c] /\ answer'[c] = answer[c]

Next ==
    /\ DOMAIN phase' = Calls /\ DOMAIN answer' = Calls
    /\ \A c \in Calls : Forward(c) \/ Answer(c) \/ AnswerAgain(c) \/ GiveUp(c) \/ Stutter(c)

Spec == Init /\ [][Next]_<<phase, answer, raised>>
=============================================================================
