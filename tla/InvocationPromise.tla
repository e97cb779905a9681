------------------------- MODULE InvocationPromise -------------------------
(***************************************************************************)
(* What a handler may count on when it invokes a backend operation, free   *)
(* of attempts, pauses and retries: the call returns once, with a status   *)
(* only if a request was sent, with success only if the backend did what   *)
(* was asked, and with the errors of an ended context only if it ended.    *)
(* An error says nothing of what was sent: a request may fail before it    *)
(* goes out, or be carried out and its answer lost.                        *)
(* What was sent may still be carried out after the call has returned.     *)
(* OperationInvoker implements this specification.                         *)
(***************************************************************************)
EXTENDS Naturals

\* Statuses: 2xx, the retryable 5xx, and all others.
Status == {"success", "final", "unavailable"}

\* The errors: two envelopes, an error put into words, and a context's own.
Error == {"BACKEND_UNAVAILABLE", "BACKEND_TIMEOUT", "request_failed", "context_error"}

VARIABLES
    over,      \* the call's context is done
    sent,      \* a request of the call went out
    done,      \* the backend carried one out
    outcome    \* what the call returned, "none" before

vars == <<over, sent, done, outcome>>

Init ==
    /\ over \in BOOLEAN
    /\ sent = FALSE
    /\ done = FALSE
    /\ outcome = "none"

ContextDone ==
    /\ ~over
    /\ over' = TRUE
    /\ UNCHANGED <<sent, done, outcome>>

Send ==
    /\ outcome = "none" /\ ~sent
    /\ sent' = TRUE
    /\ UNCHANGED <<over, done, outcome>>

\* At any time after it was sent, and whatever the answer will be.
CarryOut ==
    /\ sent /\ ~done
    /\ done' = TRUE
    /\ UNCHANGED <<over, sent, outcome>>

MayReturn(o) ==
    /\ o \in Status => sent
    /\ o = "success" => done
    /\ o \in {"BACKEND_TIMEOUT", "context_error"} => over

Return(o) ==
    /\ outcome = "none"
    /\ MayReturn(o)
    /\ outcome' = o
    /\ UNCHANGED <<over, sent, done>>

Next ==
    \/ ContextDone \/ Send \/ CarryOut
    \/ \E o \in Status \cup Error : Return(o)

Spec == Init /\ [][Next]_vars
=============================================================================
