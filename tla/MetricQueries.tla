--------------------------- MODULE MetricQueries ---------------------------
(***************************************************************************)
(* pkg/analytics, without its state: which questions the endpoints take    *)
(* (handler.go, query.go, allowlist.go) and what they become for a backend *)
(* that speaks PromQL (prometheus.go, on which uptrace.go and              *)
(* openobserve.go build).                                                  *)
(*                                                                         *)
(* An expression is kept as far as two of them can mean different things:  *)
(* how it folds which metrics, over what range, by which label, and with   *)
(* which matchers.  The operands of a ratio are no ratios here, and both   *)
(* are given or neither.  Constant factors are left out.                   *)
(***************************************************************************)
EXTENDS Integers, Sequences, FiniteSets, Functions, TLC

CONSTANTS
    Allowed,     \* the names that match a pattern of the allowlist, as they are given
    MetricName,  \* MetricName[m]: the metric that the name m is normalised to
    LabelName    \* LabelName[l]: the label that attribute l is normalised to

\* The sanitizers leave no name as none.  They need not tell names apart, nor
\* need the allowlist let through what an allowed name is normalised to.
ASSUME MetricsAssumption ==
    /\ "" \notin Allowed
    /\ MetricName[""] = "" /\ LabelName[""] = ""

Minute == 60
Hour == 3600
Day == 24 * Hour

\* A window is <<start, end>>, in seconds.
NoQuery == [metric |-> "", aggregation |-> "", filters |-> << >>, group |-> "",
            duration |-> << >>, parts |-> << >>]

(***************************************************************************)
(* The requests of the four endpoints: MetricQuery's fields and the rest.  *)
(***************************************************************************)
NoRequest == [kind |-> "scalar", query |-> NoQuery, window |-> <<0, 0>>, step |-> "", limit |-> 0]

\* A request as it is decoded: all fields there, and a list of operands.
OfRequestType(r) ==
    /\ DOMAIN r = DOMAIN NoRequest
    /\ DOMAIN r.query = DOMAIN NoQuery
    /\ r.query.parts \in Seq(Range(r.query.parts))
    /\ \A part \in Range(r.query.parts) : DOMAIN part = DOMAIN NoQuery

Granularity ==
    [minute |-> Minute, hour |-> Hour, day |-> Day, week |-> 7 * Day, month |-> 30 * Day,
     quarter |-> 90 * Day, year |-> 365 * Day]

\* The time series' step, an hour when none is named.
Step(r) == IF r.step = "" THEN Hour ELSE Granularity[r.step]

Limit(r) == IF r.limit <= 0 THEN 10 ELSE r.limit

\* What the handlers ask of a body before they turn to the engine.
WellFormed(r) ==
    /\ r.kind \in {"grouped", "topn"} => r.query.group # ""
    /\ r.kind = "timeseries" => r.step \in DOMAIN Granularity \cup {""}

\* ToMetricQuery: no durations, and of a ratio nothing but its operands.
ToMetricQuery(r) ==
    IF r.query.parts # << >>
    THEN [r.query EXCEPT !.metric = "", !.aggregation = "", !.duration = << >>]
    ELSE [r.query EXCEPT !.duration = << >>]

MetricsOf(q) == IF q.duration # << >> THEN Range(q.duration) ELSE {q.metric}

\* Mutant of Validate: the denominator is taken on trust.
ValidateNumerator(q) == MetricsOf(IF q.parts # << >> THEN q.parts[1] ELSE q) \subseteq Allowed

Validate(q) ==
    IF q.parts # << >> THEN \A i \in DOMAIN q.parts : MetricsOf(q.parts[i]) \subseteq Allowed
    ELSE MetricsOf(q) \subseteq Allowed

\* The names a query has, those of its operands if it is a ratio.
Names(q) ==
    IF q.parts # << >> THEN UNION {MetricsOf(q.parts[i]) : i \in DOMAIN q.parts}
    ELSE MetricsOf(q)

ScopeLabel == {"tenant_id", "partition_id"}

\* isReservedScopeLabel, of an attribute as it is spelt by the client.
Reserved(l) == LabelName[l] \in ScopeLabel

Cleaned(q) == [q EXCEPT !.filters = Restrict(@, {l \in DOMAIN @ : ~Reserved(l)})]

\* sanitizeQueryFilters, through the operands of a ratio.
SanitizeQueryFilters(q) ==
    [Cleaned(q) EXCEPT !.parts = [i \in DOMAIN @ |-> Cleaned(@[i])]]

-----------------------------------------------------------------------------
(***************************************************************************)
(* PromQL.  A filter is [scoped, tenant, parts], parts a set.              *)
(***************************************************************************)
\* buildLabelMatchers: the scope first, from the filter alone.
Matchers(q, filter) ==
    (IF ~filter.scoped THEN {}
     ELSE {<<"tenant_id", {filter.tenant}>>}
          \cup (IF filter.parts = {} THEN {} ELSE {<<"partition_id", filter.parts>>}))
    \cup {<<LabelName[l], {q.filters[l]}>> : l \in {k \in DOMAIN q.filters : ~Reserved(k)}}

\* formatDuration writes whole days, else whole hours, else whole minutes,
\* and never less than one: what is left of the seconds is not asked for.
FormatDuration(seconds) ==
    LET unit == CASE seconds >= Day -> Day
                  [] seconds \in Hour..(Day - 1) -> Hour
                  [] seconds < Hour -> Minute
    IN  IF seconds < Minute THEN Minute ELSE unit * (seconds \div unit)

\* A name is normalised on its way into the expression, not before.
Selector(name, matchers, range) ==
    [metric |-> MetricName[name], matchers |-> matchers, range |-> range]

\* A gauge is read as it is, anything else as its increase over the range.
Samples(q, filter, range) ==
    Selector(q.metric, Matchers(q, filter), IF q.aggregation = "gauge" THEN 0 ELSE range)

Fold ==
    [gauge |-> "sum", count |-> "sum", sum |-> "sum", avg |-> "avg", count_distinct |-> "count"]

\* buildScalarPromQL of a query that is no ratio.  An unknown aggregation is
\* an ungrouped sum.
FoldPromQL(q, filter, range) ==
    IF q.duration # << >>
    THEN [op |-> "mean", by |-> "",
          of |-> [i \in DOMAIN q.duration |->
                     Selector(q.duration[i], Matchers(q, filter), range)]]
    ELSE [op |-> IF q.aggregation \in DOMAIN Fold THEN Fold[q.aggregation] ELSE "sum",
          by |-> IF q.aggregation \in DOMAIN Fold THEN LabelName[q.group] ELSE "",
          of |-> <<Samples(q, filter, range)>>]

\* buildScalarPromQL: a ratio is of its operands, as they come.
ScalarPromQL(q, filter, range) ==
    IF q.parts # << >>
    THEN [op |-> "ratio", by |-> "",
          of |-> [i \in DOMAIN q.parts |-> FoldPromQL(q.parts[i], filter, range)]]
    ELSE FoldPromQL(q, filter, range)

\* buildRatePromQL looks at the metric, whatever else the query has.
RatePromQL(q, filter, step) ==
    [op |-> "sum", by |-> "", of |-> <<Samples(q, filter, FormatDuration(step))>>]

Selectors(expr) ==
    IF expr.op = "ratio" THEN UNION {Range(expr.of[i].of) : i \in DOMAIN expr.of}
    ELSE Range(expr.of)

(***************************************************************************)
(* What is sent for query q of request r: the expression, the times it is  *)
(* evaluated at, and how many series are to be returned (0: all).          *)
(***************************************************************************)
Span(r) == r.window[2] - r.window[1]

BackendQuery(r, q, filter) ==
    LET grouped == IF r.kind \in {"grouped", "topn"} THEN [q EXCEPT !.group = r.query.group] ELSE q
    IN  IF r.kind = "timeseries"
        THEN [expr |-> RatePromQL(q, filter, Step(r)), at |-> r.window, step |-> Step(r), top |-> 0]
        ELSE [expr |-> ScalarPromQL(grouped, filter, FormatDuration(Span(r))),
              at |-> <<r.window[2], r.window[2]>>, step |-> 0,
              top |-> IF r.kind = "topn" THEN Limit(r) ELSE 0]

(***************************************************************************)
(* Responses, by their status and what their body is: no JSON, an error,   *)
(* or a vector or matrix, whose samples may be unreadable.                 *)
(***************************************************************************)
Response == [status : {200, 400, 500},
             body : {"garbage", "error", "vector", "matrix", "unreadable vector"}]

\* apiGet, and instantQuery or rangeQuery: a series' unreadable samples are
\* zeroes, a scalar's is an error.
Understood(r, response) ==
    /\ response.status = 200
    /\ response.body \in CASE r.kind = "timeseries" -> {"matrix"}
                           [] r.kind = "scalar" -> {"vector"}
                           [] OTHER -> {"vector", "unreadable vector"}

(***************************************************************************)
(* buildCacheKey, the scope apart: the kind, the query, the window to the  *)
(* minute, and what else that kind of request has.                         *)
(***************************************************************************)
Bucket(window) == <<window[1] \div Minute, window[2] \div Minute>>

\* Mutant of RequestKey: the map of extras is not written.
RequestKeyPlain(r, q) == <<r.kind, q, Bucket(r.window)>>

RequestKey(r, q) ==
    <<r.kind, q, Bucket(r.window),
      CASE r.kind = "timeseries" -> <<Step(r)>>
        [] r.kind = "grouped" -> <<r.query.group>>
        [] r.kind = "topn" -> <<r.query.group, Limit(r)>>
        [] OTHER -> << >>>>
=============================================================================
