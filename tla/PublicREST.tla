----------------------------- MODULE PublicREST -----------------------------
(***************************************************************************)
(* gateway/rest.{hpp,cpp}: the download of currencies and instruments.  An *)
(* action constrains the variables of this module only; PublicFeed adds    *)
(* what becomes of the instruments.  What web::rest::Client and            *)
(* core::Download2 do is described in OrderEntryREST.                      *)
(***************************************************************************)
EXTENDS Naturals

CONSTANTS
    MaxCalls,           \* bound: requests in flight
    MaxRestDrops,       \* bound: lost connections
    MaxRestErrors       \* bound: requests that fail or are rejected

ASSUME PublicRestAssumption ==
    MaxCalls \in Nat /\ MaxRestDrops \in Nat /\ MaxRestErrors \in Nat

VARIABLES
    restUp,             \* is the connection established?
    restStatus,         \* connection_status_
    restDownload,       \* download_.state()
    retrying,           \* download_.retry called, download not invoked yet
    current,            \* has the last download(state) no callback yet?
    late,               \* requests of earlier ones without callback, by state
    processed,          \* history: steps answered since download_.begin
    restDrops, restErrors

restVars == <<restUp, restStatus, restDownload, retrying, current, late,
              processed, restDrops, restErrors>>

-----------------------------------------------------------------------------
RequestStates == {"CURRENCIES", "INSTRUMENT"}
Downloading == restDownload \in RequestStates

RestInit ==
    /\ restUp = FALSE
    /\ restStatus = "UNDEFINED"
    /\ restDownload = "UNDEFINED"
    /\ retrying = FALSE
    /\ current = FALSE
    /\ late = [s \in RequestStates |-> 0]
    /\ processed = {}
    /\ restDrops = 0 /\ restErrors = 0

RestTypeOK ==
    /\ restUp \in BOOLEAN
    /\ restStatus \in {"UNDEFINED", "DISCONNECTED", "DOWNLOADING", "READY"}
    /\ restDownload \in RequestStates \cup {"UNDEFINED", "DONE"}
    /\ retrying \in BOOLEAN /\ current \in BOOLEAN
    /\ late \in [RequestStates -> Nat]
    /\ processed \in SUBSET RequestStates
    /\ restDrops \in 0..MaxRestDrops /\ restErrors \in 0..MaxRestErrors

InFlight == late["CURRENCIES"] + late["INSTRUMENT"] + (IF current THEN 1 ELSE 0)

-----------------------------------------------------------------------------
(* download(s) for a state with a request; one in flight becomes a late one *)
Download(s) ==
    /\ InFlight < MaxCalls
    /\ restDownload' = s
    /\ restStatus' = "DOWNLOADING"
    /\ retrying' = FALSE
    /\ current' = TRUE
    /\ late' = IF current THEN [late EXCEPT ![restDownload] = @ + 1] ELSE late

(* Connected *)
RestConnected ==
    /\ ~restUp
    /\ restUp' = TRUE
    /\ \/ Downloading /\ Download(restDownload) /\ UNCHANGED processed
       \/ ~Downloading /\ Download("CURRENCIES") /\ processed' = {}
    /\ UNCHANGED <<restDrops, restErrors>>

(* Disconnected *)
RestDisconnected ==
    /\ restUp
    /\ restDrops < MaxRestDrops
    /\ restUp' = FALSE
    /\ restStatus' = "DISCONNECTED"
    /\ restDownload' = IF Downloading THEN restDownload ELSE "UNDEFINED"
    /\ restDrops' = restDrops + 1
    /\ UNCHANGED <<retrying, current, late, processed, restErrors>>

(* core::Download2 invoking download again after a retry *)
DownloadRetry ==
    /\ restUp /\ retrying /\ Downloading
    /\ Download(restDownload)
    /\ UNCHANGED <<restUp, processed, restDrops, restErrors>>

-----------------------------------------------------------------------------
(* The callback of the last request, or of an earlier one *)
LastCallback(s) == restDownload = s /\ current /\ current' = FALSE /\ UNCHANGED late

(* mutant: a request without callback is not required *)
LateCallbackOfNone(s) ==
    /\ InFlight > 0
    /\ late' = [late EXCEPT ![s] = @ - 1]
    /\ UNCHANGED current

LateCallback(s) ==
    /\ late[s] > 0
    /\ late' = [late EXCEPT ![s] = @ - 1]
    /\ UNCHANGED current

(* mutant: no retry *)
RestErrorNotRetried(s) ==
    /\ restErrors < MaxRestErrors
    /\ restErrors' = restErrors + 1
    /\ LastCallback(s) \/ LateCallback(s)
    /\ UNCHANGED <<restUp, restStatus, restDownload, retrying, processed, restDrops>>

(* handle_error of get_currencies_ack and get_instrument_ack: retry(STATE), *)
(* whichever download sequence the request belongs to                       *)
RestError(s) ==
    /\ restErrors < MaxRestErrors
    /\ restErrors' = restErrors + 1
    /\ LastCallback(s) \/ LateCallback(s)
    /\ retrying' = (retrying \/ restDownload = s)
    /\ UNCHANGED <<restUp, restStatus, restDownload, processed, restDrops>>

(* handle_success when download_.skip *)
RestSkipped(s) ==
    /\ restUp
    /\ LateCallback(s)
    /\ UNCHANGED <<restUp, restStatus, restDownload, retrying, processed, restDrops, restErrors>>

(* get_currencies_ack: the next state is INSTRUMENT, which asks at once *)
CurrenciesAck ==
    /\ restUp
    /\ restDownload = "CURRENCIES" /\ current
    /\ restDownload' = "INSTRUMENT"
    /\ retrying' = FALSE
    /\ processed' = processed \cup {"CURRENCIES"}
    /\ UNCHANGED <<restUp, restStatus, current, late, restDrops, restErrors>>

(* mutant: the answer of any sequence ends the download *)
InstrumentAckOfAny ==
    /\ restUp
    /\ \/ LastCallback("INSTRUMENT")
       \/ LateCallback("INSTRUMENT")
    /\ restDownload' = "DONE"
    /\ restStatus' = "READY"
    /\ retrying' = FALSE
    /\ processed' = processed \cup {"INSTRUMENT"}
    /\ UNCHANGED <<restUp, restDrops, restErrors>>

(* get_instrument_ack: download(DONE) *)
InstrumentAck ==
    /\ restUp
    /\ LastCallback("INSTRUMENT")
    /\ restDownload' = "DONE"
    /\ restStatus' = "READY"
    /\ retrying' = FALSE
    /\ processed' = processed \cup {"INSTRUMENT"}
    /\ UNCHANGED <<restUp, restDrops, restErrors>>
=============================================================================
