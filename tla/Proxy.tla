------------------------------- MODULE Proxy -------------------------------
(***************************************************************************)
(* A call of a provider's API through the proxy: from the caller (the node *)
(* client or plain HTTP) to the provider and back, with the retries.       *)
(*                                                                         *)
(*   server/lib/controllers/proxy.controller.ts                            *)
(*   node-client/lib/index.ts                                              *)
(*                                                                         *)
(* backOff of exponential-backoff is external: it calls the provider,      *)
(* counts the attempt when it fails, asks retry, and gives up when retry   *)
(* says so or numOfAttempts (at least 1) is reached.                       *)
(***************************************************************************)
EXTENDS Integers

CONSTANTS
    MaxRetries,     \* bound: the retries a caller asks for
    MaxFaults       \* bound: the single failures, at the provider or in the proxy

ASSUME RetriesAssumption == MaxRetries \in Nat
ASSUME FaultsAssumption == MaxFaults \in Nat

\* A header Retries that is not a number: Number() yields NaN.
NotANumber == -1

VARIABLES
    retries,    \* the caller's header Retries
    down,       \* the provider answers every request with a 5xx
    pc,         \* where the call is
    attempt,    \* the attempts that have failed (bound: counted to MaxRetries + 1)
    retryable,  \* the last failure is one that retry accepts
    faults      \* bound: the failures so far

given == <<retries, down>>
call == <<pc, attempt, retryable, faults>>

CallLocations == {"idle", "checks", "send", "failed", "wait", "again", "respond", "error",
              "answered", "refused", "stopped", "lost"}

Pass(from, to) == pc = from /\ pc' = to
Fault == faults < MaxFaults /\ faults' = faults + 1
Same == UNCHANGED <<attempt, retryable>>

ProxyInit ==
    /\ retries \in 0..MaxRetries \cup {NotANumber}
    /\ down \in BOOLEAN
    /\ pc = "idle" /\ attempt = 0 /\ retryable = FALSE /\ faults = 0
-----------------------------------------------------------------------------
(* The way to the provider.                                                *)

\* nango.proxy(): the promise is pending until an answer or a closed socket.
Call ==
    /\ Pass("idle", "checks")
    /\ attempt' = 0 /\ retryable' = FALSE
    /\ UNCHANGED faults

\* The ids, the credentials, the endpoint, the provider config, the base URL.
RouteCall == Pass("checks", "send") /\ Same /\ UNCHANGED faults

Refuse == Pass("checks", "refused") /\ Same /\ Fault

\* get, post, patch, put and delete differ in the body only.
Succeeds == Pass("send", "respond") /\ ~down /\ Same /\ UNCHANGED faults

\* 5xx, 429, 403 at the rate limit, a reset or timed out connection; or any other.
FailsOnce(accepted) ==
    /\ Pass("send", "failed") /\ Fault
    /\ retryable' = accepted
    /\ UNCHANGED attempt

Down ==
    /\ Pass("send", "failed") /\ down
    /\ retryable' = TRUE
    /\ UNCHANGED <<attempt, faults>>
-----------------------------------------------------------------------------
(* After a failure.                                                        *)

Counted == attempt' = IF attempt > MaxRetries THEN attempt ELSE attempt + 1

\* retry is asked after every failed attempt, the last one included.
Retry ==
    /\ Pass("failed", IF retryable THEN "again" ELSE "error")
    /\ Counted
    /\ UNCHANGED <<retryable, faults>>

\* The template names a header for the rate limit, and the answer has it: a time in
\* the future, or a number of seconds.
RetryHandler ==
    /\ retryable
    /\ Pass("failed", "wait")
    /\ Counted
    /\ UNCHANGED <<retryable, faults>>

WaitEnds == Pass("wait", "again") /\ Same /\ UNCHANGED faults

AttemptLimit == IF retries = 0 THEN 1 ELSE retries

\* numOfAttempts: Number(config.retries), made at least 1.
LimitReached == retries # NotANumber /\ attempt >= AttemptLimit

BackOff ==
    /\ Pass("again", IF LimitReached THEN "error" ELSE "send")
    /\ Same /\ UNCHANGED faults
-----------------------------------------------------------------------------
(* The way back.                                                           *)

HandleResponse == Pass("respond", "answered") /\ Same /\ UNCHANGED faults

\* Nobody awaits handleResponse or handleErrorResponse: when the update of the log
\* rejects, the error is none of axios, or the body breaks off, nothing answers.
ResponseLost == pc \in {"respond", "error"} /\ pc' = "lost" /\ Same /\ Fault

\* The caller has its answer; he may call again.
Receive == Pass("answered", "idle") /\ Same /\ UNCHANGED faults

HandleErrorResponse == Pass("error", "refused") /\ Same /\ UNCHANGED faults

\* The process stops: the caller's socket is closed.
ServerStops ==
    /\ pc \notin {"idle", "answered", "refused", "stopped"} /\ Fault
    /\ pc' = "stopped"
    /\ Same

Proceeds ==
    \/ RouteCall
    \/ Down
    \/ Retry
    \/ RetryHandler
    \/ WaitEnds
    \/ BackOff
    \/ HandleResponse
    \/ HandleErrorResponse

Fails ==
    \/ Refuse
    \/ \E accepted \in BOOLEAN : FailsOnce(accepted)
    \/ ResponseLost
    \/ ServerStops
-----------------------------------------------------------------------------
\* The type of every variable; a call is not tried more often than its limit.
ProxyTypeOK ==
    /\ retries \in 0..MaxRetries \cup {NotANumber}
    /\ down \in BOOLEAN
    /\ pc \in CallLocations /\ retryable \in BOOLEAN
    /\ attempt \in 0..(IF retries = NotANumber THEN MaxRetries + 1 ELSE AttemptLimit)
    /\ faults \in 0..MaxFaults
=============================================================================
