--------------------------- MODULE SearchPromise ---------------------------
(***************************************************************************)
(* What SearchProvider.Search promises, with no goroutine, channel or      *)
(* arrival order in it: each eligible provider comes to one outcome, and   *)
(* the answer is a page of a ranking of the best result for every key any  *)
(* of them found.  A provider that fails costs its own results only.       *)
(***************************************************************************)
EXTENDS SearchRanking

CONSTANTS Request   \* requests a caller may make

VARIABLES
    request,   \* the search under way, or NoRequest
    reply,     \* reply[p]: the outcome of provider p, or NoOutcome
    answer     \* the response, or NoAnswer

promiseVars == <<request, reply, answer>>

NoRequest == [domain |-> AnyDomain, caps |-> {}, long |-> FALSE, page |-> 0, pageSize |-> 0]

NoAnswer == Refusal("none")

Quiet == [p \in Provider |-> NoOutcome]

PromiseInit ==
    /\ request = NoRequest
    /\ reply = Quiet
    /\ answer = NoAnswer

\* A query of fewer than two characters is refused at once.
Ask ==
    /\ request = NoRequest
    /\ request' \in Request
    /\ answer' = IF request'.long THEN NoAnswer ELSE Refusal("BAD_REQUEST")
    /\ UNCHANGED reply

Report(p) ==
    /\ request # NoRequest /\ answer = NoAnswer
    /\ p \in Eligible(request) /\ reply[p] = NoOutcome
    /\ \E o \in Outcomes(p) : reply' = [reply EXCEPT ![p] = o]
    /\ UNCHANGED <<request, answer>>

Answer ==
    /\ request # NoRequest /\ answer = NoAnswer
    /\ \A p \in Eligible(request) : reply[p] # NoOutcome
    /\ LET asked == Eligible(request)
           all == Merged(reply, asked)
       IN  IF Panics(request)
           THEN answer' = Refusal("INTERNAL_ERROR")
           ELSE \E kept \in SUBSET all :
                  /\ BestOf(kept, all)
                  /\ \E s \in Rankings(kept) :
                        answer' = Answered(PageOf(s, request), Cardinality(kept), reply, asked)
    /\ UNCHANGED <<request, reply>>

Close ==
    /\ answer # NoAnswer
    /\ request' = NoRequest
    /\ reply' = Quiet
    /\ answer' = NoAnswer

PromiseNext ==
    \/ Ask \/ Answer \/ Close
    \/ \E p \in Provider : Report(p)

PromiseSpec == PromiseInit /\ [][PromiseNext]_promiseVars
=============================================================================
