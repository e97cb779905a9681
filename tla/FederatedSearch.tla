-------------------------- MODULE FederatedSearch --------------------------
(***************************************************************************)
(* pkg/search/provider.go: one federated search.  A goroutine per eligible *)
(* provider invokes its backend under a timeout of its own and sends the   *)
(* outcome into a channel; a further goroutine waits for all of them and   *)
(* closes the channel; the caller collects until it is closed, then ranks. *)
(* Searches share no state, so one at a time is enough.                    *)
(***************************************************************************)
EXTENDS SearchRanking

CONSTANTS Request   \* requests a caller may make

VARIABLES
    request,    \* the search under way, or NoRequest
    goroutine,  \* goroutine[p]: where the goroutine of provider p is
    ctxErr,     \* ctxErr[p]: ctx.Err() of its context
    reply,      \* reply[p]: what it found, once its invocation is over
    ch,         \* the buffered channel: the providers whose outcome is in it
    closed,     \* close(ch) happened, or was never needed
    collected,  \* executeProviders' results, in the order of arrival
    answer      \* the response, or NoAnswer

vars == <<request, goroutine, ctxErr, reply, ch, closed, collected, answer>>

NoRequest == [domain |-> AnyDomain, caps |-> {}, long |-> FALSE, page |-> 0, pageSize |-> 0]

ASSUME RequestAssumption ==
    /\ NoRequest \notin Request
    /\ \A r \in Request : r.page \in Int /\ r.pageSize \in Int

NoAnswer == Refusal("none")

Quiet == [p \in Provider |-> NoOutcome]

Capacity == Cardinality(Eligible(request))

Running == request # NoRequest /\ answer = NoAnswer

-----------------------------------------------------------------------------
Init ==
    /\ request = NoRequest
    /\ goroutine = [p \in Provider |-> "none"]
    /\ ctxErr = [p \in Provider |-> "none"]
    /\ reply = Quiet
    /\ ch = << >>
    /\ closed = FALSE
    /\ collected = << >>
    /\ answer = NoAnswer

(***************************************************************************)
(* Search up to the point where the caller waits.  The goroutines start    *)
(* while others are still being spawned, which none of them can notice: the *)
(* closer starts after all, and the channel has room for all.              *)
(***************************************************************************)
Ask ==
    /\ request = NoRequest
    /\ request' \in Request
    /\ IF request'.long
       THEN LET asked == Eligible(request')
            IN  /\ goroutine' = [p \in Provider |-> IF p \in asked THEN "invoking" ELSE "none"]
                /\ closed' = (asked = {})
                /\ answer' = NoAnswer
       ELSE answer' = Refusal("BAD_REQUEST") /\ UNCHANGED <<goroutine, closed>>
    /\ UNCHANGED <<ctxErr, reply, ch, collected>>

\* Mutant of ProviderTimeout: one timer for all, set off by the first answer.
ProviderTimeoutShared(p) ==
    /\ goroutine[p] = "invoking" /\ ctxErr[p] = "none"
    /\ \E q \in Provider : goroutine[q] \notin {"none", "invoking"}
    /\ ctxErr' = [ctxErr EXCEPT ![p] = "deadline"]
    /\ UNCHANGED <<request, goroutine, reply, ch, closed, collected, answer>>

\* The timer of one provider's context.
ProviderTimeout(p) ==
    /\ goroutine[p] = "invoking" /\ ctxErr[p] = "none"
    /\ ctxErr' = [ctxErr EXCEPT ![p] = "deadline"]
    /\ UNCHANGED <<request, goroutine, reply, ch, closed, collected, answer>>

\* The caller's own context ends, and those derived from it: the handler
\* deadline passes, or the client goes away.
CallerGone(e) ==
    /\ Running
    /\ \E p \in Provider : goroutine[p] = "invoking" /\ ctxErr[p] = "none"
    /\ ctxErr' = [p \in Provider |->
          IF goroutine[p] = "invoking" /\ ctxErr[p] = "none" THEN e ELSE ctxErr[p]]
    /\ UNCHANGED <<request, goroutine, reply, ch, closed, collected, answer>>

\* executeProvider is over; its outcome is to be sent.
Outcome(p, o) ==
    /\ goroutine[p] = "invoking"
    /\ goroutine' = [goroutine EXCEPT ![p] = "sending"]
    /\ reply' = [reply EXCEPT ![p] = o]
    /\ UNCHANGED <<request, ctxErr, ch, closed, collected, answer>>

\* A 2xx answer, even one that arrives as the context ends.
Answers(p) == \E items \in Items : Outcome(p, Found(p, items))

\* An answer outside 2xx.
Refuses(p) == Outcome(p, Silent("error"))

\* Mutant of Fails: a context that was cancelled is reported as such.
FailsByContext(p) ==
    Outcome(p, Silent(IF ctxErr[p] = "none" THEN "error" ELSE ctxErr[p]))

\* An error of the invocation, called a timeout when the deadline passed.
Fails(p) == Outcome(p, Silent(IF ctxErr[p] = "deadline" THEN "timeout" ELSE "error"))

Invocation(p) == Answers(p) \/ Refuses(p) \/ Fails(p)

\* ch <- result
Send(p) ==
    /\ goroutine[p] = "sending"
    /\ ~closed /\ Len(ch) < Capacity
    /\ ch' = Append(ch, p)
    /\ goroutine' = [goroutine EXCEPT ![p] = "sent"]
    /\ UNCHANGED <<request, ctxErr, reply, closed, collected, answer>>

\* The deferred wg.Done(), after cancel().
Done(p) ==
    /\ goroutine[p] = "sent"
    /\ goroutine' = [goroutine EXCEPT ![p] = "done"]
    /\ UNCHANGED <<request, ctxErr, reply, ch, closed, collected, answer>>

\* Mutant of CloseChannel: wg.Done() comes before the send.
CloseChannelEarly ==
    /\ Running /\ ~closed
    /\ \A p \in Eligible(request) : goroutine[p] # "invoking"
    /\ closed' = TRUE
    /\ UNCHANGED <<request, goroutine, ctxErr, reply, ch, collected, answer>>

\* wg.Wait() returns, and the channel is closed.
CloseChannel ==
    /\ Running /\ ~closed
    /\ \A p \in Eligible(request) : goroutine[p] = "done"
    /\ closed' = TRUE
    /\ UNCHANGED <<request, goroutine, ctxErr, reply, ch, collected, answer>>

\* One round of: for r := range ch
Receive ==
    /\ Running /\ ch # << >>
    /\ collected' = Append(collected, Head(ch))
    /\ ch' = Tail(ch)
    /\ UNCHANGED <<request, goroutine, ctxErr, reply, closed, answer>>

\* p's outcome was collected before q's.
Before(p, q) == \E i, j \in DOMAIN collected : i < j /\ collected[i] = p /\ collected[j] = q

\* Mutant of Deduplicated: the first collected stays, whatever its score.
DeduplicatedFirstCome(all) ==
    {a \in all : \A b \in all : Same(a, b) /\ a # b =>
        Before(a.from, b.from) \/ (a.from = b.from /\ a.at < b.at)}

(***************************************************************************)
(* deduplicate: a result replaces the one kept for its key only when its   *)
(* score is higher, so that among equals the first collected stays.        *)
(***************************************************************************)
Deduplicated(all) ==
    {a \in all : \A b \in all : Same(a, b) =>
        /\ ~Higher(b, a)
        /\ ~Higher(a, b) /\ a # b => Before(a.from, b.from)}

\* The loop ends; results are merged, deduplicated, sorted and cut to a page.
\* A panic in slicing becomes a 500 in the Recovery middleware.
Respond ==
    /\ Running /\ closed /\ ch = << >>
    /\ LET asked == ToSet(collected)
           kept == Deduplicated(Merged(reply, asked))
       IN  IF Panics(request)
           THEN answer' = Refusal("INTERNAL_ERROR")
           ELSE \E s \in Rankings(kept) :
                  answer' = Answered(PageOf(s, request), Len(s), reply, asked)
    /\ UNCHANGED <<request, goroutine, ctxErr, reply, ch, closed, collected>>

Finish ==
    /\ answer # NoAnswer
    /\ request' = NoRequest
    /\ goroutine' = [p \in Provider |-> "none"]
    /\ ctxErr' = [p \in Provider |-> "none"]
    /\ reply' = Quiet
    /\ ch' = << >>
    /\ closed' = FALSE
    /\ collected' = << >>
    /\ answer' = NoAnswer

Provide(p) == Invocation(p) \/ Send(p) \/ Done(p)

Next ==
    \/ Ask \/ CloseChannel \/ Receive \/ Respond \/ Finish
    \/ \E p \in Provider : ProviderTimeout(p) \/ Provide(p)
    \/ \E e \in {"deadline", "cancelled"} : CallerGone(e)

Spec == Init /\ [][Next]_vars

(***************************************************************************)
(* Goroutines are scheduled and timers fire.  A backend need not answer,   *)
(* but the invoker returns once its context is over.                       *)
(***************************************************************************)
FairSpec ==
    /\ Spec
    /\ WF_vars(CloseChannel) /\ WF_vars(Receive) /\ WF_vars(Respond)
    /\ \A p \in Provider :
          /\ WF_vars(ProviderTimeout(p))
          /\ WF_vars(ctxErr[p] # "none" /\ Invocation(p))
          /\ WF_vars(Send(p)) /\ WF_vars(Done(p))

-----------------------------------------------------------------------------
TypeOK ==
    /\ request \in Request \cup {NoRequest}
    /\ goroutine \in [Provider -> {"none", "invoking", "sending", "sent", "done"}]
    /\ ctxErr \in [Provider -> {"none", "deadline", "cancelled"}]
    /\ \A p \in Provider : reply[p] \in Outcomes(p) \cup {NoOutcome}
    /\ ch \in Seq(Provider) /\ collected \in Seq(Provider)
    /\ closed \in BOOLEAN
    /\ answer.code \in {"none", "OK", "BAD_REQUEST", "INTERNAL_ERROR"}

(***************************************************************************)
(* A provider about to send finds the channel open and with room: it can   *)
(* neither panic nor be left behind blocked, whatever the collector does.  *)
(***************************************************************************)
SendersNeverBlock ==
    \A p \in Provider : goroutine[p] = "sending" => ~closed /\ Len(ch) < Capacity

(***************************************************************************)
(* The search with its goroutines, timers and arrival order is the one of  *)
(* SearchPromise: no provider's outcome is lost or counted twice, a slow   *)
(* or failing one costs only its own results, the page is the one asked    *)
(* for of a ranking of everything found, and how the providers were        *)
(* scheduled shows only in the order of equals.                            *)
(***************************************************************************)
Promise == INSTANCE SearchPromise
KeepsPromise == Promise!PromiseSpec

(***************************************************************************)
(* The i-th result of a page stands where its score puts it in the whole   *)
(* ranking: fewer keys than its position do better, and at least as many   *)
(* as its position do as well.  So following the pages in order skips no   *)
(* key, and repeats none but among equals.                                 *)
(***************************************************************************)
PositionsAreEarned ==
    answer.code = "OK" =>
        LET all == Merged(reply, ToSet(collected))
            keys == {<<x.route, x.id>> : x \in all}
            OfKey(k) == {x \in all : <<x.route, x.id>> = k}
            size == IF request.pageSize \in 1..MaxPageSize THEN request.pageSize
                    ELSE IF request.pageSize > MaxPageSize THEN MaxPageSize ELSE DefaultPageSize
            skipped == IF request.page > 1 THEN (request.page - 1) * size ELSE 0
        IN  /\ answer.total = Cardinality(keys)
            /\ Len(answer.results) =
                  Cardinality((skipped + 1)..(skipped + size) \cap 1..answer.total)
            /\ \A i \in DOMAIN answer.results :
                  LET x == answer.results[i]
                      better == {k \in keys : \E y \in OfKey(k) : Higher(y, x)}
                      asGood == {k \in keys : \E y \in OfKey(k) : ~Higher(x, y)}
                  IN  Cardinality(better) < skipped + i /\ skipped + i <= Cardinality(asGood)

(***************************************************************************)
(* Every search that is asked is answered, even when no backend ever is.   *)
(***************************************************************************)
SearchReturns == (request # NoRequest) ~> (answer # NoAnswer)

(***************************************************************************)
(* provider_test.go expects of a page beyond the last result no error and  *)
(* no results.  So every page of an acceptable query is answered.          *)
(***************************************************************************)
PageBeyondIsEmpty ==
    answer # NoAnswer /\ request.long => answer.code = "OK"
=============================================================================
