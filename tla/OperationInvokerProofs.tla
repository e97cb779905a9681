----------------------- MODULE OperationInvokerProofs -----------------------
(***************************************************************************)
(* Theorems about OperationInvoker, for every configuration of retries.    *)
(***************************************************************************)
EXTENDS OperationInvoker, FiniteSetTheorems, TLAPS

\* Requests exist for attempts begun, and effects for requests sent.
Wire ==
    /\ \A n \in 1..Attempts : n > attempt => request[n] = "unsent"
    /\ \A n \in 1..Attempts : effect[n] => request[n] # "unsent"
    /\ \A n \in 1..Attempts : request[n] = "success" => effect[n]

\* Where in the loop the call is tells what its latest attempt came to.
Loop ==
    /\ pc = "idle" => attempt = 0
    /\ pc \in {"backoff", "send", "wait"} => attempt > 0
    /\ attempt > 1 => CanRetry
    /\ pc = "loop" /\ attempt > 0 => CanRetry /\ last \in {"unavailable", "request_failed"}
    /\ pc = "loop" /\ attempt >= Attempts =>
          last = "request_failed" /\ lastErr = "request_failed"

Returned ==
    pc = "returned" =>
        \/ outcome = "context_error" /\ over
        \/ /\ outcome = last
           /\ outcome \in Status => attempt > 0 /\ request[attempt] = outcome

Inv == TypeOK /\ Wire /\ Loop /\ Returned

-----------------------------------------------------------------------------
LEMMA AttemptsPositive == config \in Config => Attempts \in Nat /\ Attempts >= 1
<1> SUFFICES ASSUME config \in Config PROVE Attempts \in Nat /\ Attempts >= 1
  OBVIOUS
<1>1. config.maxAttempts \in MaxAttempts
  BY DEF Config
<1>2. config.maxAttempts \in Int
  BY <1>1, InvokerAssumption
<1> QED BY <1>2 DEF Attempts

LEMMA InitInv == Init => Inv
<1> SUFFICES ASSUME Init PROVE Inv
  OBVIOUS
<1>1. Attempts \in Nat /\ Attempts >= 1
  BY AttemptsPositive DEF Init
<1>2. TypeOK
  <2>1. request \in [1..Attempts -> Status \cup {"unsent", "travelling"}]
    BY DEF Init
  <2>2. effect \in [1..Attempts -> BOOLEAN]
    BY DEF Init
  <2>3. config \in Config /\ attempt \in 0..Attempts
    BY <1>1 DEF Init
  <2> QED BY <2>1, <2>2, <2>3 DEF Init, TypeOK
<1>3. Wire /\ Loop /\ Returned
  BY <1>1 DEF Init, Wire, Loop, Returned
<1> QED BY <1>2, <1>3 DEF Inv

\* A step that changes neither settings nor the wire.
LEMMA SettingsStay ==
    UNCHANGED config => /\ Attempts' = Attempts
                        /\ (CanRetry' <=> CanRetry)
  BY DEF Attempts, CanRetry

(***************************************************************************)
(* A failed attempt keeps the invariant: it is repeated only when it may   *)
(* be, and then as "request_failed".                                       *)
(***************************************************************************)
LEMMA AttemptFailedInv ==
    ASSUME Inv, NEW e \in Error, pc \in {"send", "wait"}, AttemptFailed(e)
    PROVE  Inv'
<1>1. Attempts \in Nat /\ Attempts >= 1 /\ Attempts' = Attempts /\ (CanRetry' <=> CanRetry)
  BY AttemptsPositive, SettingsStay DEF Inv, TypeOK, AttemptFailed
<1>2. TypeOK'
  BY <1>1 DEF Inv, TypeOK, AttemptFailed, Return, wire, Error, Envelope, Status
<1>3. Wire'
  BY <1>1 DEF Inv, TypeOK, Wire, AttemptFailed, wire
<1>4. Loop'
  BY <1>1 DEF Inv, TypeOK, Loop, AttemptFailed, Return, Error
<1>5. Returned'
  BY <1>1 DEF Inv, TypeOK, Returned, AttemptFailed, Return, wire, Error, Envelope, Status
<1> QED BY <1>2, <1>3, <1>4, <1>5 DEF Inv

LEMMA NextInv == Inv /\ [Next]_vars => Inv'
<1> SUFFICES ASSUME Inv, [Next]_vars PROVE Inv'
  OBVIOUS
<1>0. /\ Attempts \in Nat /\ Attempts >= 1
      /\ Attempts' = Attempts /\ (CanRetry' <=> CanRetry)
  <2>1. UNCHANGED config
    BY DEF Next, ExecuteWithRetry, Begin, ContextDone, NextAttempt, PauseEnds, PauseInterrupted,
           Send, SendFails, WaitFails, AttemptFailed, Answered, Exhausted, Handle, vars
  <2> QED BY <2>1, AttemptsPositive, SettingsStay DEF Inv, TypeOK
<1> USE <1>0 DEF wire
<1>1. CASE Begin
  BY <1>1 DEF Inv, TypeOK, Wire, Loop, Returned, Begin
<1>2. CASE ContextDone
  BY <1>2 DEF Inv, TypeOK, Wire, Loop, Returned, ContextDone
<1>3. CASE NextAttempt
  BY <1>3 DEF Inv, TypeOK, Wire, Loop, Returned, NextAttempt
<1>4. CASE PauseEnds
  BY <1>4 DEF Inv, TypeOK, Wire, Loop, Returned, PauseEnds
<1>5. CASE PauseInterrupted
  BY <1>5 DEF Inv, TypeOK, Wire, Loop, Returned, PauseInterrupted, Return
<1>6. CASE Send
  <2>1. TypeOK'
    BY <1>6 DEF Inv, TypeOK, Send
  <2>2. Wire'
    BY <1>6 DEF Inv, TypeOK, Wire, Loop, Send
  <2>3. Loop' /\ Returned'
    BY <1>6 DEF Inv, TypeOK, Loop, Returned, Send
  <2> QED BY <2>1, <2>2, <2>3 DEF Inv
<1>7. CASE SendFails
  BY <1>7, AttemptFailedInv DEF SendFails, Error, Envelope
<1>8. CASE WaitFails
  BY <1>8, AttemptFailedInv DEF WaitFails, Error, Envelope
<1>9. CASE Answered
  <2>1. TypeOK'
    BY <1>9 DEF Inv, TypeOK, Answered, Return, Status
  <2>2. Wire'
    BY <1>9 DEF Inv, TypeOK, Wire, Answered
  <2>3. Loop' /\ Returned'
    BY <1>9 DEF Inv, TypeOK, Loop, Returned, Answered, Return, Status
  <2> QED BY <2>1, <2>2, <2>3 DEF Inv
<1>10. CASE Exhausted
  BY <1>10 DEF Inv, TypeOK, Wire, Loop, Returned, Exhausted, Return, Status, Error
<1>11. ASSUME NEW n \in 1..Attempts, Handle(n) PROVE Inv'
  <2>1. TypeOK'
    <3>1. UNCHANGED <<config, pc, attempt, over, last, lastErr, outcome>>
      BY <1>11 DEF Handle
    <3>2. request' \in [1..Attempts -> Status \cup {"unsent", "travelling"}]
      BY <1>11 DEF Inv, TypeOK, Handle
    <3>3. effect' \in [1..Attempts -> BOOLEAN]
      BY <1>11 DEF Inv, TypeOK, Handle
    <3> QED BY <3>1, <3>2, <3>3 DEF Inv, TypeOK
  <2>2. Wire'
    <3>1. /\ request'[n] \in Status /\ request[n] = "travelling"
          /\ request'[n] = "success" => effect'[n]
      BY <1>11 DEF Inv, TypeOK, Handle, Status
    <3>2. /\ \A m \in 1..Attempts : m # n => request'[m] = request[m] /\ effect'[m] = effect[m]
          /\ attempt' = attempt
      BY <1>11 DEF Inv, TypeOK, Handle
    <3> QED BY <3>1, <3>2 DEF Inv, Wire, Status
  <2>3. UNCHANGED <<pc, attempt, over, last, lastErr, outcome>>
    BY <1>11 DEF Handle
  <2>4. \A m \in 1..Attempts : request[m] \in Status => request'[m] = request[m]
    BY <1>11 DEF Inv, TypeOK, Handle, Status
  <2>5. \A m \in 1..Attempts : effect[m] => effect'[m]
    BY <1>11 DEF Inv, TypeOK, Handle
  <2>6. Loop'
    BY <2>3, <2>4 DEF Inv, TypeOK, Loop
  <2>7. Returned'
    BY <2>3, <2>4, <2>5 DEF Inv, TypeOK, Returned, Status
  <2> QED BY <2>1, <2>2, <2>6, <2>7 DEF Inv
<1>12. CASE UNCHANGED vars
  BY <1>12 DEF Inv, TypeOK, Wire, Loop, Returned, vars
<1> QED
  BY <1>1, <1>2, <1>3, <1>4, <1>5, <1>6, <1>7, <1>8, <1>9, <1>10, <1>11, <1>12
     DEF Next, ExecuteWithRetry

LEMMA Invariance == Spec => []Inv
  BY InitInv, NextInv, PTL DEF Spec

-----------------------------------------------------------------------------
(***************************************************************************)
(* Every reachable state has its types: the loop of executeWithRetry makes *)
(* no attempt beyond the limit and returns only the outcomes listed.       *)
(***************************************************************************)
THEOREM TypeCorrect == Spec => []TypeOK
<1>1. Inv => TypeOK
  BY DEF Inv
<1> QED BY <1>1, Invariance, PTL

(***************************************************************************)
(* A call whose method is not idempotent is carried out at most once by    *)
(* the backend where only idempotent methods are repeated.                 *)
(***************************************************************************)
THEOREM AtMostOnce == Spec => []NonIdempotentAtMostOnce
<1>1. Inv => NonIdempotentAtMostOnce
  <2> SUFFICES ASSUME Inv, config.idempotentOnly, ~config.idempotent
               PROVE  Cardinality({n \in 1..Attempts : effect[n]}) <= 1
    BY DEF NonIdempotentAtMostOnce
  <2> DEFINE Effects == {n \in 1..Attempts : effect[n]}
  <2>1. attempt \in Nat /\ attempt <= 1
    BY AttemptsPositive DEF Inv, TypeOK, Loop, CanRetry
  <2>2. Effects \subseteq {1}
    BY <2>1, AttemptsPositive DEF Inv, TypeOK, Wire
  <2>3. IsFiniteSet({1}) /\ Cardinality({1}) = 1
    BY FS_Singleton
  <2>4. Cardinality(Effects) <= Cardinality({1})
    BY <2>2, <2>3, FS_Subset
  <2> QED BY <2>3, <2>4
<1> QED BY <1>1, Invariance, PTL

(***************************************************************************)
(* What Invoke returns is what the latest attempt came to.                 *)
(***************************************************************************)
THEOREM LatestOutcome == Spec => []OutcomeIsOfLatestAttempt
<1>1. Inv => OutcomeIsOfLatestAttempt
  BY AttemptsPositive DEF Inv, TypeOK, Wire, Returned, OutcomeIsOfLatestAttempt, Status
<1> QED BY <1>1, Invariance, PTL

(***************************************************************************)
(* An attempt is repeated only after one that came to nothing, and only    *)
(* for a method that may be repeated.                                      *)
(***************************************************************************)
THEOREM JustifiedRetries == Spec => RetriesAreJustified
<1>1. Inv /\ [Next]_vars =>
        [attempt > 0 /\ attempt' # attempt =>
            CanRetry /\ last \in {"unavailable", "request_failed"}]_vars
  <2> SUFFICES ASSUME Inv, Next, attempt > 0, attempt' # attempt
               PROVE  CanRetry /\ last \in {"unavailable", "request_failed"}
    OBVIOUS
  <2>1. NextAttempt
    BY DEF Next, ExecuteWithRetry, Begin, ContextDone, PauseEnds, PauseInterrupted, Send,
           SendFails, WaitFails, AttemptFailed, Answered, Exhausted, Handle, vars
  <2> QED BY <2>1 DEF Inv, Loop, NextAttempt
<1> QED BY <1>1, Invariance, PTL DEF Spec, RetriesAreJustified

-----------------------------------------------------------------------------
(***************************************************************************)
(* The refinement.  Beyond Inv, an attempt that is waited for was sent,    *)
(* and nothing is returned before the end.                                 *)
(***************************************************************************)
SomeSent == \E n \in 1..Attempts : request[n] # "unsent"

SomeDone == \E n \in 1..Attempts : effect[n]

Sent ==
    /\ pc # "returned" => outcome = "none"
    /\ pc = "wait" => request[attempt] # "unsent"

LEMMA SentInv == Inv /\ Sent /\ [Next]_vars => Sent'
<1> SUFFICES ASSUME Inv, Sent, [Next]_vars PROVE Sent'
  OBVIOUS
<1>0. /\ Attempts \in Nat /\ Attempts >= 1 /\ Attempts' = Attempts
      /\ attempt \in 0..Attempts
      /\ request \in [1..Attempts -> Status \cup {"unsent", "travelling"}]
  <2>1. UNCHANGED config
    BY DEF Next, ExecuteWithRetry, Begin, ContextDone, NextAttempt, PauseEnds, PauseInterrupted,
           Send, SendFails, WaitFails, AttemptFailed, Answered, Exhausted, Handle, vars
  <2> QED BY <2>1, AttemptsPositive, SettingsStay DEF Inv, TypeOK
<1> USE <1>0 DEF wire
<1>1. CASE Begin
  BY <1>1 DEF Inv, Loop, Sent, SomeSent, Begin
<1>2. CASE ContextDone
  BY <1>2 DEF Sent, SomeSent, ContextDone
<1>3. CASE NextAttempt
  BY <1>3 DEF Sent, SomeSent, NextAttempt
<1>4. CASE PauseEnds
  BY <1>4 DEF Sent, SomeSent, PauseEnds
<1>5. CASE PauseInterrupted
  BY <1>5 DEF Sent, SomeSent, PauseInterrupted, Return
<1>6. CASE Send
  BY <1>6 DEF Inv, Loop, Sent, SomeSent, Send
<1>7. CASE SendFails
  BY <1>7 DEF Sent, SomeSent, SendFails, AttemptFailed, Return, Envelope
<1>8. CASE WaitFails
  BY <1>8 DEF Inv, Loop, Sent, SomeSent, WaitFails, AttemptFailed, Return
<1>9. CASE Answered
  BY <1>9 DEF Inv, Loop, Sent, SomeSent, Answered, Return, Status
<1>10. CASE Exhausted
  BY <1>10 DEF Sent, SomeSent, Exhausted, Return
<1>11. ASSUME NEW n \in 1..Attempts, Handle(n) PROVE Sent'
  BY <1>11 DEF Sent, SomeSent, Handle, Status
<1>12. CASE UNCHANGED vars
  BY <1>12 DEF Sent, SomeSent, vars
<1> QED
  BY <1>1, <1>2, <1>3, <1>4, <1>5, <1>6, <1>7, <1>8, <1>9, <1>10, <1>11, <1>12
     DEF Next, ExecuteWithRetry

LEMMA SentInvariant == Spec => [](Inv /\ Sent)
<1>1. Init => Sent
  BY AttemptsPositive DEF Init, Sent
<1> QED BY <1>1, Invariance, SentInv, PTL DEF Spec

\* Only Send changes what was sent, and only the backend what was done.
WireStays == UNCHANGED <<config, request, effect>>

LEMMA WireStaysShown ==
    ASSUME WireStays
    PROVE  (SomeSent' <=> SomeSent) /\ (SomeDone' <=> SomeDone)
  BY DEF WireStays, SomeSent, SomeDone, Attempts

\* A step that returns is a Return of the promise.
LEMMA ReturnKept ==
    ASSUME NEW o \in Promise!Status \cup Promise!Error, WireStays, UNCHANGED over,
           outcome = "none", outcome' = o, Promise!MayReturn(o)
    PROVE  Promise!Next
<1>1. (SomeSent' <=> SomeSent) /\ (SomeDone' <=> SomeDone)
  BY WireStaysShown
<1>2. Promise!Return(o)
  BY <1>1, Zenon DEF Promise!Return, SomeSent, SomeDone
<1> QED BY <1>2 DEF Promise!Next

(***************************************************************************)
(* An invocation, with its attempts, pauses and late answers, is one call  *)
(* of InvocationPromise: it returns a status only of a request that was    *)
(* sent, a success only of one that was carried out, and a context's error *)
(* only when that is over.                                                 *)
(***************************************************************************)
THEOREM InvokerKeepsPromise == Spec => KeepsPromise
<1>1. Init => Promise!Init
  BY AttemptsPositive DEF Init, Promise!Init
<1>2. Inv /\ Sent /\ [Next]_vars => [Promise!Next]_Promise!vars
  <2> SUFFICES ASSUME Inv, Sent, [Next]_vars PROVE [Promise!Next]_Promise!vars
    OBVIOUS
  <2>0. /\ Attempts \in Nat /\ Attempts >= 1
        /\ request \in [1..Attempts -> Status \cup {"unsent", "travelling"}]
        /\ effect \in [1..Attempts -> BOOLEAN]
        /\ attempt \in 0..Attempts
    BY AttemptsPositive DEF Inv, TypeOK
  <2>1. ASSUME WireStays, UNCHANGED <<over, outcome>>
        PROVE  UNCHANGED Promise!vars
    BY <2>1, WireStaysShown DEF SomeSent, SomeDone, Promise!vars
  <2>2. CASE Begin \/ NextAttempt \/ PauseEnds \/ UNCHANGED vars
    <3>1. WireStays /\ UNCHANGED <<over, outcome>>
      BY <2>2 DEF Begin, NextAttempt, PauseEnds, vars, wire, WireStays
    <3> QED BY <2>1, <3>1
  <2>3. CASE ContextDone
    <3>1. WireStays
      BY <2>3 DEF ContextDone, wire, WireStays
    <3>2. Promise!ContextDone
      BY <2>3, <3>1, WireStaysShown DEF ContextDone, SomeSent, SomeDone, Promise!ContextDone
    <3> QED BY <3>2 DEF Promise!Next
  <2>4. CASE PauseInterrupted
    <3>1. WireStays /\ UNCHANGED over /\ outcome = "none" /\ outcome' = "context_error"
      BY <2>4 DEF PauseInterrupted, Return, wire, WireStays, Sent
    <3>2. Promise!MayReturn("context_error")
      BY <2>4 DEF PauseInterrupted, Promise!MayReturn, Promise!Status
    <3> QED BY <3>1, <3>2, ReturnKept DEF Promise!Error
  <2>5. CASE Send
    <3>1. /\ outcome = "none" /\ UNCHANGED <<over, outcome, config, effect>>
          /\ attempt \in 1..Attempts /\ request'[attempt] # "unsent"
      BY <2>0, <2>5 DEF Send, Sent, Inv, Loop
    <3>2. SomeSent' /\ (SomeDone' <=> SomeDone)
      BY <3>1 DEF SomeSent, SomeDone, Attempts
    <3>3. CASE SomeSent
      BY <3>1, <3>2, <3>3 DEF SomeSent, SomeDone, Promise!vars
    <3>4. CASE ~SomeSent
      <4>1. Promise!Send
        BY <3>1, <3>2, <3>4 DEF SomeSent, SomeDone, Promise!Send
      <4> QED BY <4>1 DEF Promise!Next
    <3> QED BY <3>3, <3>4
  <2>6. ASSUME NEW e \in Error, AttemptFailed(e), pc \in {"send", "wait"},
               e = "BACKEND_TIMEOUT" => over
        PROVE  [Promise!Next]_Promise!vars
    <3>1. WireStays /\ UNCHANGED over /\ outcome = "none"
          /\ (outcome' = e \/ UNCHANGED outcome)
      BY <2>6 DEF AttemptFailed, Return, wire, WireStays, Sent
    <3>2. Promise!MayReturn(e)
      BY <2>6 DEF Promise!MayReturn, Promise!Status, Error, Envelope
    <3>3. e \in Promise!Status \cup Promise!Error
      BY DEF Error, Envelope, Promise!Error
    <3> QED BY <2>1, <3>1, <3>2, <3>3, ReturnKept
  <2>7. CASE SendFails
    BY <2>6, <2>7 DEF SendFails, Error, Envelope
  <2>8. CASE WaitFails
    BY <2>6, <2>8 DEF WaitFails, Error, Envelope
  <2>9. CASE Answered
    <3>1. /\ WireStays /\ UNCHANGED over /\ outcome = "none"
          /\ (outcome' = request[attempt] \/ UNCHANGED outcome)
          /\ request[attempt] \in Status /\ attempt \in 1..Attempts
      BY <2>0, <2>9 DEF Answered, Return, wire, WireStays, Sent, Inv, Loop
    <3>2. SomeSent /\ (request[attempt] = "success" => SomeDone)
      BY <3>1 DEF SomeSent, SomeDone, Status, Inv, Wire
    <3>3. Promise!MayReturn(request[attempt])
      BY <3>1, <3>2 DEF SomeSent, SomeDone, Promise!MayReturn, Status
    <3>4. request[attempt] \in Promise!Status \cup Promise!Error
      BY <3>1 DEF Status, Promise!Status
    <3> QED BY <2>1, <3>1, <3>3, <3>4, ReturnKept
  <2>10. CASE Exhausted
    <3>1. /\ WireStays /\ UNCHANGED over /\ outcome = "none"
          /\ outcome' = "request_failed"
      BY <2>10 DEF Exhausted, Return, wire, WireStays, Sent, Inv, Loop
    <3>2. Promise!MayReturn("request_failed")
      BY DEF Promise!MayReturn, Promise!Status
    <3> QED BY <3>1, <3>2, ReturnKept DEF Promise!Error
  <2>11. ASSUME NEW n \in 1..Attempts, Handle(n)
         PROVE  [Promise!Next]_Promise!vars
    <3>1. UNCHANGED <<over, outcome, config>> /\ SomeSent
      BY <2>11 DEF Handle, SomeSent
    <3>2. SomeSent'
      BY <2>0, <2>11, <3>1 DEF Handle, SomeSent, Attempts, Status
    <3>3. SomeDone => SomeDone'
      BY <2>0, <2>11, <3>1 DEF Handle, SomeDone, Attempts
    <3>4. CASE SomeDone' /\ ~SomeDone
      <4>1. Promise!CarryOut
        BY <3>1, <3>2, <3>4 DEF SomeSent, SomeDone, Promise!CarryOut
      <4> QED BY <4>1 DEF Promise!Next
    <3>5. CASE SomeDone' <=> SomeDone
      BY <3>1, <3>2, <3>5 DEF SomeSent, SomeDone, Promise!vars
    <3> QED BY <3>3, <3>4, <3>5
  <2> QED
    BY <2>2, <2>3, <2>4, <2>5, <2>7, <2>8, <2>9, <2>10, <2>11
       DEF Next, ExecuteWithRetry
<1> QED
  BY <1>1, <1>2, SentInvariant, PTL DEF Spec, KeepsPromise, Promise!Spec

-----------------------------------------------------------------------------
(***************************************************************************)
(* How many steps of its own a call has left at most: four for an attempt  *)
(* that is yet to be made, and what remains of the present one.            *)
(***************************************************************************)
Remaining ==
    CASE pc = "backoff" -> 4
      [] pc = "send" -> 3
      [] pc \in {"idle", "wait"} -> 2
      [] pc = "loop" -> 1

StepsLeft == IF pc = "returned" THEN 0 ELSE 4 * (Attempts - attempt) + Remaining

LEMMA StepsLeftType ==
    ASSUME Inv
    PROVE  /\ StepsLeft \in 0..(4 * Attempts + 2)
           /\ StepsLeft = 0 <=> pc = "returned"
<1>1. /\ Attempts \in Nat /\ attempt \in 0..Attempts
      /\ pc \in {"idle", "loop", "backoff", "send", "wait", "returned"}
      /\ pc = "idle" => attempt = 0
      /\ pc \in {"backoff", "send", "wait"} => attempt > 0
  BY AttemptsPositive DEF Inv, TypeOK, Loop
<1> QED BY <1>1 DEF StepsLeft, Remaining

(***************************************************************************)
(* The safe part of CallReturns.  A call takes at most four steps to an    *)
(* attempt and two besides, and every step it takes leaves fewer: no       *)
(* order of answers, timeouts and ends of the context makes it pause or    *)
(* ask once more than that.  Nothing the backend or the context does       *)
(* prolongs it.                                                            *)
(***************************************************************************)
THEOREM CallGetsOn ==
    Spec => /\ [](StepsLeft \in 0..(4 * Attempts + 2) /\ (StepsLeft = 0 <=> pc = "returned"))
            /\ [][IF Begin \/ ExecuteWithRetry THEN StepsLeft' < StepsLeft
                                               ELSE StepsLeft' = StepsLeft]_vars
<1>1. Inv /\ Inv' /\ [Next]_vars =>
        [IF Begin \/ ExecuteWithRetry THEN StepsLeft' < StepsLeft ELSE StepsLeft' = StepsLeft]_vars
  <2> SUFFICES ASSUME Inv, Inv', Next
               PROVE  IF Begin \/ ExecuteWithRetry THEN StepsLeft' < StepsLeft
                                                   ELSE StepsLeft' = StepsLeft
    OBVIOUS
  <2>1. UNCHANGED config
    BY DEF Next, ExecuteWithRetry, Begin, ContextDone, NextAttempt, PauseEnds, PauseInterrupted,
           Send, SendFails, WaitFails, AttemptFailed, Answered, Exhausted, Handle, vars
  <2>2. /\ Attempts \in Nat /\ Attempts' = Attempts /\ attempt \in 0..Attempts
        /\ pc = "idle" => attempt = 0
    BY <2>1, AttemptsPositive, SettingsStay DEF Inv, TypeOK, Loop
  <2>3. Begin => StepsLeft' < StepsLeft
    BY <2>2 DEF Begin, StepsLeft, Remaining
  <2>4. NextAttempt => StepsLeft' < StepsLeft
    BY <2>2 DEF NextAttempt, StepsLeft, Remaining
  <2>5. PauseEnds \/ Send => StepsLeft' < StepsLeft
    BY <2>2 DEF PauseEnds, Send, StepsLeft, Remaining
  <2>6. ASSUME pc \in {"loop", "backoff", "send", "wait"}, pc' = "returned"
        PROVE  StepsLeft' < StepsLeft
    BY <2>2, <2>6 DEF StepsLeft, Remaining
  <2>7. ASSUME pc \in {"send", "wait"}, pc' = "loop", attempt' = attempt
        PROVE  StepsLeft' < StepsLeft
    BY <2>2, <2>7 DEF StepsLeft, Remaining
  <2>8. PauseInterrupted \/ Exhausted => StepsLeft' < StepsLeft
    BY <2>6 DEF PauseInterrupted, Exhausted, Return
  <2>9. SendFails \/ WaitFails \/ Answered => StepsLeft' < StepsLeft
    <3>1. SendFails \/ WaitFails \/ Answered =>
            attempt' = attempt /\ pc \in {"send", "wait"} /\ pc' \in {"loop", "returned"}
      BY DEF SendFails, WaitFails, AttemptFailed, Answered, Return
    <3> QED BY <2>6, <2>7, <3>1
  <2>10. ~(Begin \/ ExecuteWithRetry) => StepsLeft' = StepsLeft
    <3>1. ~(Begin \/ ExecuteWithRetry) => pc' = pc /\ attempt' = attempt
      BY DEF Next, ContextDone, Handle, vars
    <3>2. pc' = pc /\ attempt' = attempt => StepsLeft' = StepsLeft
      BY <2>2 DEF StepsLeft, Remaining
    <3> QED BY <3>1, <3>2
  <2> QED BY <2>3, <2>4, <2>5, <2>8, <2>9, <2>10 DEF ExecuteWithRetry
<1>2. Inv => StepsLeft \in 0..(4 * Attempts + 2) /\ (StepsLeft = 0 <=> pc = "returned")
  BY StepsLeftType
<1> QED BY <1>1, <1>2, Invariance, PTL DEF Spec
=============================================================================
