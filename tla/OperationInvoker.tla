-------------------------- MODULE OperationInvoker --------------------------
(***************************************************************************)
(* pkg/invoker/openapi.go: one HTTP operation on a backend service, with   *)
(* its retries.  Each attempt is a request that the backend may receive    *)
(* long after the client gave up on it, and whose effect it may keep even  *)
(* when it answers with an error; the client sees an answer, an error it   *)
(* may retry, an error it may not, or the end of its context.  Invocations *)
(* share no state, so one is enough.                                       *)
(***************************************************************************)
EXTENDS Integers, FiniteSets

CONSTANTS
    MaxAttempts   \* values of cfg.Retry.MaxAttempts; 0 when it is not set

ASSUME InvokerAssumption == MaxAttempts \subseteq Int

\* What the course of a call depends on: whether its method is GET, PUT,
\* DELETE, HEAD or OPTIONS, and the retry settings of its service.
Config == [idempotent : BOOLEAN, maxAttempts : MaxAttempts, idempotentOnly : BOOLEAN]

\* The statuses of isRetryableStatus (500, 502, 503, 504) are "unavailable";
\* "final" is any other outside 2xx.
Status == {"success", "final", "unavailable"}

\* What an attempt without a result is put down to.  A connection error and
\* a context that is over make an ErrorEnvelope.
Envelope == {"BACKEND_UNAVAILABLE", "BACKEND_TIMEOUT"}
Error == Envelope \cup {"request_failed"}

VARIABLES
    config,    \* the method and the settings of the service
    pc,        \* where the call is in executeWithRetry
    attempt,   \* attempts begun
    request,   \* request[n]: what became of the request of attempt n
    effect,    \* effect[n]: the backend carried it out
    over,      \* the call's context is done
    last,      \* what the latest attempt came to
    lastErr,   \* lastErr, "nil" when there is none
    outcome    \* what Invoke returned

wire == <<request, effect>>
vars == <<config, pc, attempt, wire, over, last, lastErr, outcome>>

\* Mutant of Attempts: a missing setting means no attempt.
AttemptsUnclamped == config.maxAttempts

Attempts == IF config.maxAttempts < 1 THEN 1 ELSE config.maxAttempts

\* Mutant of CanRetry: any method may be repeated.
CanRetryAny == TRUE

\* The method is idempotent, or the service lets any be repeated.
CanRetry == config.idempotent \/ ~config.idempotentOnly

-----------------------------------------------------------------------------
Init ==
    /\ config \in Config
    /\ pc = "idle"
    /\ attempt = 0
    /\ request = [n \in 1..Attempts |-> "unsent"]
    /\ effect = [n \in 1..Attempts |-> FALSE]
    /\ over = FALSE
    /\ last = "nil"
    /\ lastErr = "nil"
    /\ outcome = "none"

\* Invoke has found the operation and the service and built the request.
Begin ==
    /\ pc = "idle"
    /\ pc' = "loop"
    /\ UNCHANGED <<config, attempt, wire, over, last, lastErr, outcome>>

\* The caller goes away, or its deadline or provider timeout passes.
ContextDone ==
    /\ pc \notin {"idle", "returned"} /\ ~over
    /\ over' = TRUE
    /\ UNCHANGED <<config, pc, attempt, wire, last, lastErr, outcome>>

Return(o) == pc' = "returned" /\ outcome' = o

\* Mutant of NextAttempt: the pause does not count as an attempt.
NextAttemptUncounted ==
    /\ pc = "loop" /\ attempt < Attempts
    /\ pc' = IF attempt = 0 THEN "send" ELSE "backoff"
    /\ attempt' = 1
    /\ UNCHANGED <<config, wire, over, last, lastErr, outcome>>

\* Mutant of NextAttempt: the loop runs once more than it may.
NextAttemptOneMore ==
    /\ pc = "loop" /\ attempt <= Attempts
    /\ pc' = IF attempt = 0 THEN "send" ELSE "backoff"
    /\ attempt' = attempt + 1
    /\ UNCHANGED <<config, wire, over, last, lastErr, outcome>>

\* The head of the loop: an attempt is left.  The first is made at once, the
\* others after a pause.
NextAttempt ==
    /\ pc = "loop" /\ attempt < Attempts
    /\ pc' = IF attempt = 0 THEN "send" ELSE "backoff"
    /\ attempt' = attempt + 1
    /\ UNCHANGED <<config, wire, over, last, lastErr, outcome>>

\* time.After(delay); with both channels ready, select takes either.
PauseEnds ==
    /\ pc = "backoff"
    /\ pc' = "send"
    /\ UNCHANGED <<config, attempt, wire, over, last, lastErr, outcome>>

\* The context ends the pause: its error is returned as it is.
PauseInterrupted ==
    /\ pc = "backoff" /\ over
    /\ Return("context_error")
    /\ UNCHANGED <<config, attempt, wire, over, last, lastErr>>

\* client.Do sends nothing for a context that is over.
Send ==
    /\ pc = "send" /\ ~over
    /\ pc' = "wait"
    /\ request' = [request EXCEPT ![attempt] = "travelling"]
    /\ UNCHANGED <<config, attempt, effect, over, last, lastErr, outcome>>

\* Mutant of AttemptFailed: envelopes are retried like any other error.
AttemptFailedRetried(e) ==
    /\ last' = e
    /\ lastErr' = e
    /\ IF ~CanRetry THEN Return(e) ELSE pc' = "loop" /\ UNCHANGED outcome
    /\ UNCHANGED <<config, attempt, wire, over>>

\* executeOnce returns an error: an envelope ends the call, and so does any
\* other unless the method may be repeated.
AttemptFailed(e) ==
    /\ last' = e
    /\ lastErr' = e
    /\ IF ~CanRetry \/ e \in Envelope
       THEN Return(e)
       ELSE pc' = "loop" /\ UNCHANGED outcome
    /\ UNCHANGED <<config, attempt, wire, over>>

\* Nothing was sent: no connection can be made, the request cannot be built
\* or client.Do rejects it (its scheme, the peer's certificate), or the
\* context turns out to be over.
SendFails ==
    /\ pc = "send"
    /\ \/ AttemptFailed("BACKEND_UNAVAILABLE")
       \/ AttemptFailed("request_failed")
       \/ over /\ AttemptFailed("BACKEND_TIMEOUT")

\* The request was sent and no answer will be read: the connection breaks,
\* the client's own timeout passes or the body is cut short (which makes for
\* a retry even when it is the context that ended it), or the context ends.
WaitFails ==
    /\ pc = "wait"
    /\ \/ AttemptFailed("BACKEND_UNAVAILABLE")
       \/ AttemptFailed("request_failed")
       \/ over /\ AttemptFailed("BACKEND_TIMEOUT")

(***************************************************************************)
(* The backend, which is not part of the repository: it takes up a request *)
(* whenever it arrives, answers, and has carried it out if it answers with *)
(* success.  With any other answer it may or may not have.                 *)
(***************************************************************************)
Handle(n) ==
    /\ request[n] = "travelling"
    /\ \E s \in Status : request' = [request EXCEPT ![n] = s]
    /\ \/ effect' = [effect EXCEPT ![n] = TRUE]
       \/ request'[n] # "success" /\ UNCHANGED effect
    /\ UNCHANGED <<config, pc, attempt, over, last, lastErr, outcome>>

\* Mutant of Answered: the status of the last attempt is retried too.
AnsweredOnceMore ==
    /\ pc = "wait" /\ request[attempt] \in Status
    /\ last' = request[attempt]
    /\ IF last' = "unavailable" /\ CanRetry
       THEN pc' = "loop" /\ UNCHANGED outcome
       ELSE Return(last')
    /\ UNCHANGED <<config, attempt, wire, over, lastErr>>

\* The answer to the current attempt is read: a retryable status is retried
\* while attempts are left, any other is the result.
Answered ==
    /\ pc = "wait" /\ request[attempt] \in Status
    /\ last' = request[attempt]
    /\ IF last' = "unavailable" /\ CanRetry /\ attempt < Attempts
       THEN pc' = "loop" /\ UNCHANGED outcome
       ELSE Return(last')
    /\ UNCHANGED <<config, attempt, wire, over, lastErr>>

\* The loop is exhausted.  Were there no last error, the result would be the
\* last one that was retried, a zero value if there was none.
Exhausted ==
    /\ pc = "loop" /\ attempt >= Attempts
    /\ Return(IF lastErr # "nil" THEN lastErr ELSE
              IF last # "nil" THEN last ELSE "zero_result")
    /\ UNCHANGED <<config, attempt, wire, over, last, lastErr>>

ExecuteWithRetry ==
    \/ NextAttempt \/ PauseEnds \/ PauseInterrupted
    \/ Send \/ SendFails \/ WaitFails \/ Answered \/ Exhausted

\* The call has returned and no request of it is on its way.
Quiescent ==
    /\ pc = "returned"
    /\ \A n \in 1..Attempts : request[n] # "travelling"

Next ==
    \/ Begin \/ ContextDone \/ ExecuteWithRetry
    \/ \E n \in 1..Attempts : Handle(n)
    \/ Quiescent /\ UNCHANGED vars

Spec == Init /\ [][Next]_vars

(***************************************************************************)
(* The client is scheduled, and gives up waiting when its timeout passes.  *)
(* Neither the backend nor the end of the context can be counted on.       *)
(***************************************************************************)
FairSpec == Spec /\ WF_vars(Begin) /\ WF_vars(ExecuteWithRetry)

-----------------------------------------------------------------------------
TypeOK ==
    /\ config \in Config
    /\ pc \in {"idle", "loop", "backoff", "send", "wait", "returned"}
    /\ attempt \in 0..Attempts
    /\ request \in [1..Attempts -> Status \cup {"unsent", "travelling"}]
    /\ effect \in [1..Attempts -> BOOLEAN]
    /\ over \in BOOLEAN
    /\ last \in Status \cup Error \cup {"nil"}
    /\ lastErr \in Error \cup {"nil"}
    /\ outcome \in Status \cup Error \cup {"none", "context_error", "zero_result"}

(***************************************************************************)
(* Where only idempotent methods may be repeated, the backend carries out  *)
(* any other call at most once, however late its requests arrive.          *)
(***************************************************************************)
NonIdempotentAtMostOnce ==
    config.idempotentOnly /\ ~config.idempotent =>
        Cardinality({n \in 1..Attempts : effect[n]}) <= 1

(***************************************************************************)
(* A call returns what its latest attempt came to: a success the backend   *)
(* carried out, a status it answered with, an error only when that attempt *)
(* failed.  It never returns an empty result without an error, nor an      *)
(* earlier attempt's failure after a later one succeeded.                  *)
(***************************************************************************)
OutcomeIsOfLatestAttempt ==
    pc = "returned" =>
        \/ outcome = "context_error" /\ over
        \/ /\ outcome = last
           /\ outcome \in Status => request[attempt] = outcome
           /\ outcome = "success" => effect[attempt]

(***************************************************************************)
(* A further attempt is made only when the one before came to nothing and  *)
(* the method may be repeated: never after an answer that settles the      *)
(* call, nor after an envelope, BACKEND_UNAVAILABLE or BACKEND_TIMEOUT.     *)
(***************************************************************************)
RetriesAreJustified ==
    [][attempt > 0 /\ attempt' # attempt =>
          CanRetry /\ last \in {"unavailable", "request_failed"}]_vars

(***************************************************************************)
(* Every call returns, although no backend answers and no context ends.    *)
(***************************************************************************)
CallReturns == (pc = "loop") ~> (pc = "returned")

(***************************************************************************)
(* A call keeps what InvocationPromise says, however its requests and      *)
(* their answers are delayed and lost: in particular a success that is     *)
(* returned was carried out, and a call that sent nothing returns no       *)
(* status.                                                                 *)
(***************************************************************************)
Promise == INSTANCE InvocationPromise WITH
    sent <- \E n \in 1..Attempts : request[n] # "unsent",
    done <- \E n \in 1..Attempts : effect[n]

KeepsPromise == Promise!Spec
=============================================================================
