------------------------ MODULE MetricQueriesProofs ------------------------
(***************************************************************************)
(* What pkg/analytics sends a backend, for every request and every filter: *)
(* which scope it carries, which metrics it reads, and that the response   *)
(* cache's key tells requests apart.                                       *)
(***************************************************************************)
EXTENDS MetricQueries, TLAPS

\* The matchers a filter stands for.
ScopeOf(filter) ==
    IF ~filter.scoped THEN {}
    ELSE {<<"tenant_id", {filter.tenant}>>}
         \cup (IF filter.parts = {} THEN {} ELSE {<<"partition_id", filter.parts>>})

(***************************************************************************)
(* buildLabelMatchers writes the scope of the filter, whatever the labels  *)
(* of the query.                                                           *)
(***************************************************************************)
LEMMA MatchersScope ==
    ASSUME NEW q, NEW filter
    PROVE  {m \in Matchers(q, filter) : m[1] \in ScopeLabel} = ScopeOf(filter)
<1> DEFINE Labels == {<<LabelName[l], {q.filters[l]}>> : l \in {k \in DOMAIN q.filters : ~Reserved(k)}}
<1>1. Matchers(q, filter) = ScopeOf(filter) \cup Labels
  BY DEF Matchers, ScopeOf
<1>2. \A m \in Labels : m[1] \notin ScopeLabel
  BY DEF Reserved
<1>3. \A m \in ScopeOf(filter) : m[1] \in ScopeLabel
  BY DEF ScopeOf, ScopeLabel
<1> HIDE DEF Labels
<1> QED BY <1>1, <1>2, <1>3

\* buildScalarPromQL of a query that is no ratio is no ratio.
LEMMA FoldIsNoRatio ==
    ASSUME NEW q, NEW filter, NEW range
    PROVE  FoldPromQL(q, filter, range).op # "ratio"
  BY DEF FoldPromQL, Fold

\* Which selectors it has.
LEMMA FoldSelectors ==
    ASSUME NEW q, NEW filter, NEW range, NEW s \in Range(FoldPromQL(q, filter, range).of)
    PROVE  s.matchers = Matchers(q, filter) /\ \E m \in MetricsOf(q) : s.metric = MetricName[m]
<1> USE DEF Range, Selector, Samples, MetricsOf
<1>1. CASE q.duration # << >>
  <2>1. FoldPromQL(q, filter, range).of =
            [i \in DOMAIN q.duration |-> Selector(q.duration[i], Matchers(q, filter), range)]
    BY <1>1 DEF FoldPromQL
  <2>2. PICK i \in DOMAIN q.duration : s = Selector(q.duration[i], Matchers(q, filter), range)
    BY <2>1
  <2> QED BY <1>1, <2>2
<1>2. CASE q.duration = << >>
  BY <1>2 DEF FoldPromQL
<1> QED BY <1>1, <1>2

\* And which the whole expression has: those of the query, or of one operand.
LEMMA ScalarSelectors ==
    ASSUME NEW q, NEW filter, NEW range, NEW s \in Selectors(ScalarPromQL(q, filter, range))
    PROVE  \/ /\ q.parts = << >>
              /\ s.matchers = Matchers(q, filter)
              /\ \E m \in MetricsOf(q) : s.metric = MetricName[m]
           \/ /\ q.parts # << >>
              /\ \E i \in DOMAIN q.parts :
                    /\ s.matchers = Matchers(q.parts[i], filter)
                    /\ \E m \in MetricsOf(q.parts[i]) : s.metric = MetricName[m]
<1> DEFINE e == ScalarPromQL(q, filter, range)
<1>1. CASE q.parts # << >>
  <2>1. e = [op |-> "ratio", by |-> "",
             of |-> [i \in DOMAIN q.parts |-> FoldPromQL(q.parts[i], filter, range)]]
    BY <1>1 DEF ScalarPromQL
  <2> HIDE DEF e
  <2>2. Selectors(e) = UNION {Range(e.of[i].of) : i \in DOMAIN e.of}
    BY <2>1 DEF Selectors
  <2>3. PICK i \in DOMAIN q.parts : s \in Range(FoldPromQL(q.parts[i], filter, range).of)
    <3>1. e.of = [i \in DOMAIN q.parts |-> FoldPromQL(q.parts[i], filter, range)]
      BY <2>1
    <3>2. s \in Selectors(e)
      BY DEF e
    <3>3. PICK i \in DOMAIN e.of : s \in Range(e.of[i].of)
      BY <2>2, <3>2
    <3>4. i \in DOMAIN q.parts /\ e.of[i] = FoldPromQL(q.parts[i], filter, range)
      BY <3>1
    <3> QED BY <3>3, <3>4
  <2>4. /\ s.matchers = Matchers(q.parts[i], filter)
        /\ \E m \in MetricsOf(q.parts[i]) : s.metric = MetricName[m]
    BY <2>3, FoldSelectors
  <2> QED BY <1>1, <2>4
<1>2. CASE q.parts = << >>
  <2>1. e = FoldPromQL(q, filter, range)
    BY <1>2 DEF ScalarPromQL
  <2>2. s \in Range(FoldPromQL(q, filter, range).of)
    BY <2>1, FoldIsNoRatio DEF Selectors
  <2> QED BY <1>2, <2>2, FoldSelectors
<1> QED BY <1>1, <1>2

\* buildRatePromQL has one, of the metric.
LEMMA RateSelectors ==
    ASSUME NEW q, NEW filter, NEW step, NEW s \in Selectors(RatePromQL(q, filter, step))
    PROVE  s.matchers = Matchers(q, filter) /\ s.metric = MetricName[q.metric]
  BY DEF RatePromQL, Selectors, Range, Samples, Selector

(***************************************************************************)
(* Whatever is sent for a request, every selector of it carries the scope  *)
(* of the filter, and no other.                                            *)
(***************************************************************************)
THEOREM SelectorsScope ==
    ASSUME NEW r, NEW q, NEW filter, NEW s \in Selectors(BackendQuery(r, q, filter).expr)
    PROVE  {m \in s.matchers : m[1] \in ScopeLabel} = ScopeOf(filter)
<1> DEFINE grouped == IF r.kind \in {"grouped", "topn"} THEN [q EXCEPT !.group = r.query.group] ELSE q
           range == FormatDuration(Span(r))
<1>1. CASE r.kind = "timeseries"
  <2>1. s \in Selectors(RatePromQL(q, filter, Step(r)))
    BY <1>1 DEF BackendQuery
  <2> QED BY <2>1, RateSelectors, MatchersScope
<1>2. CASE r.kind # "timeseries"
  <2>1. s \in Selectors(ScalarPromQL(grouped, filter, range))
    BY <1>2 DEF BackendQuery
  <2> HIDE DEF grouped, range
  <2>2. \E p : s.matchers = Matchers(p, filter)
    BY <2>1, ScalarSelectors
  <2> QED BY <2>2, MatchersScope
<1> QED BY <1>1, <1>2

(***************************************************************************)
(* sanitizeQueryFilters and ToMetricQuery leave the metrics as they are.   *)
(***************************************************************************)
LEMMA SanitizedMetrics ==
    ASSUME NEW q, DOMAIN q = DOMAIN NoQuery, q.parts \in Seq(Range(q.parts)),
           \A part \in Range(q.parts) : DOMAIN part = DOMAIN NoQuery
    PROVE  LET p == SanitizeQueryFilters(q)
           IN  /\ DOMAIN p = DOMAIN NoQuery
               /\ MetricsOf(p) = MetricsOf(q) /\ p.metric = q.metric
               /\ p.duration = q.duration
               /\ p.parts = << >> <=> q.parts = << >>
               /\ DOMAIN p.parts = DOMAIN q.parts
               /\ \A i \in DOMAIN p.parts : MetricsOf(p.parts[i]) = MetricsOf(q.parts[i])
<1> DEFINE p == SanitizeQueryFilters(q)
<1>1. DOMAIN NoQuery = {"metric", "aggregation", "filters", "group", "duration", "parts"}
  BY DEF NoQuery
<1>2. \A x : DOMAIN x = DOMAIN NoQuery =>
          /\ DOMAIN Cleaned(x) = DOMAIN NoQuery
          /\ Cleaned(x).metric = x.metric /\ Cleaned(x).duration = x.duration
          /\ Cleaned(x).parts = x.parts
  BY <1>1 DEF Cleaned
<1>3. \A x : DOMAIN x = DOMAIN NoQuery => MetricsOf(Cleaned(x)) = MetricsOf(x)
  BY <1>2 DEF MetricsOf
<1>4. p.parts = [i \in DOMAIN q.parts |-> Cleaned(q.parts[i])]
  BY <1>1, <1>2 DEF SanitizeQueryFilters
<1>5. DOMAIN p = DOMAIN NoQuery /\ p.metric = q.metric /\ p.duration = q.duration
  BY <1>1, <1>2 DEF SanitizeQueryFilters
<1>6. \A i \in DOMAIN q.parts : DOMAIN q.parts[i] = DOMAIN NoQuery
  BY DEF Range
<1>7. p.parts = << >> <=> q.parts = << >>
  <2>1. DOMAIN q.parts = 1..Len(q.parts) /\ Len(q.parts) \in Nat
    OBVIOUS
  <2>2. q.parts = << >> <=> Len(q.parts) = 0
    OBVIOUS
  <2>3. p.parts \in Seq({Cleaned(q.parts[i]) : i \in DOMAIN q.parts}) /\ Len(p.parts) = Len(q.parts)
    BY <1>4, <2>1
  <2> QED BY <2>2, <2>3
<1> HIDE DEF p
<1>8. MetricsOf(p) = MetricsOf(q)
  BY <1>5 DEF MetricsOf
<1> QED BY <1>3, <1>4, <1>5, <1>6, <1>7, <1>8 DEF p

(***************************************************************************)
(* Whatever a body that was validated makes the backend read is the normal *)
(* form of a name that the body has and the allowlist lets through, unless *)
(* it asks for the time series of a ratio.                                 *)
(***************************************************************************)
THEOREM AllowedIsRead ==
    ASSUME NEW r, OfRequestType(r), Validate(ToMetricQuery(r)), NEW filter,
           ~(r.kind = "timeseries" /\ r.query.parts # << >>),
           NEW s \in Selectors(BackendQuery(r, SanitizeQueryFilters(ToMetricQuery(r)), filter).expr)
    PROVE  \E m \in Allowed \cap Names(ToMetricQuery(r)) : s.metric = MetricName[m]
<1> DEFINE q == ToMetricQuery(r)
           p == SanitizeQueryFilters(q)
           grouped == IF r.kind \in {"grouped", "topn"} THEN [p EXCEPT !.group = r.query.group] ELSE p
<1>1. DOMAIN NoQuery = {"metric", "aggregation", "filters", "group", "duration", "parts"}
  BY DEF NoQuery
<1>2. /\ DOMAIN q = DOMAIN NoQuery /\ q.parts = r.query.parts /\ q.duration = << >>
      /\ q.parts \in Seq(Range(q.parts))
      /\ \A part \in Range(q.parts) : DOMAIN part = DOMAIN NoQuery
  BY <1>1 DEF ToMetricQuery, OfRequestType
<1> HIDE DEF q
<1>3. /\ DOMAIN p = DOMAIN NoQuery
      /\ MetricsOf(p) = MetricsOf(q) /\ p.metric = q.metric
      /\ p.duration = q.duration
      /\ p.parts = << >> <=> q.parts = << >>
      /\ DOMAIN p.parts = DOMAIN q.parts
      /\ \A i \in DOMAIN p.parts : MetricsOf(p.parts[i]) = MetricsOf(q.parts[i])
  BY <1>2, SanitizedMetrics
<1> HIDE DEF p
<1>4. Validate(q)
  BY DEF q
<1>5. /\ grouped.parts = p.parts /\ grouped.metric = p.metric /\ grouped.duration = p.duration
      /\ MetricsOf(grouped) = MetricsOf(p)
  BY <1>1, <1>3 DEF MetricsOf
<1>6. CASE r.kind = "timeseries"
  <2>1. s \in Selectors(RatePromQL(p, filter, Step(r)))
    BY <1>6 DEF BackendQuery, p, q
  <2>2. s.metric = MetricName[q.metric]
    BY <2>1, <1>3, RateSelectors
  <2> QED BY <1>2, <1>4, <1>6, <2>2 DEF Validate, MetricsOf, Names, q
<1>7. CASE r.kind # "timeseries"
  <2>1. s \in Selectors(ScalarPromQL(grouped, filter, FormatDuration(Span(r))))
    BY <1>7 DEF BackendQuery, p, q
  <2> HIDE DEF grouped
  <2>2. CASE q.parts = << >>
    <3>1. PICK m \in MetricsOf(q) : s.metric = MetricName[m]
      BY <1>3, <1>5, <2>1, <2>2, ScalarSelectors
    <3>2. m \in Allowed \cap Names(q)
      BY <1>4, <2>2, <3>1 DEF Validate, Names
    <3> QED BY <3>1, <3>2 DEF q
  <2>3. CASE q.parts # << >>
    <3>1. PICK i \in DOMAIN q.parts : \E m \in MetricsOf(q.parts[i]) : s.metric = MetricName[m]
      BY <1>3, <1>5, <2>1, <2>3, ScalarSelectors
    <3>2. PICK m \in MetricsOf(q.parts[i]) : s.metric = MetricName[m]
      BY <3>1
    <3>3. m \in Allowed \cap Names(q)
      BY <1>4, <2>3, <3>2 DEF Validate, Names
    <3> QED BY <3>2, <3>3 DEF q
  <2> QED BY <2>2, <2>3
<1> QED BY <1>6, <1>7

(***************************************************************************)
(* Requests that share the request's part of the key are sent the backend  *)
(* alike, but for the seconds of their windows.                            *)
(***************************************************************************)
THEOREM KeyTellsQuestionsApart ==
    ASSUME NEW r, NEW p, NEW s, NEW q, OfRequestType(r), OfRequestType(s),
           RequestKey(r, p) = RequestKey(s, q), NEW filter
    PROVE  /\ Bucket(r.window) = Bucket(s.window)
           /\ BackendQuery(r, p, filter) = BackendQuery([s EXCEPT !.window = r.window], q, filter)
<1> DEFINE t == [s EXCEPT !.window = r.window]
<1>1. DOMAIN s = {"kind", "query", "window", "step", "limit"}
  BY DEF OfRequestType, NoRequest
<1>2. t.window = r.window /\ t.kind = s.kind /\ t.query = s.query /\ t.step = s.step /\ t.limit = s.limit
  BY <1>1
<1>3. r.kind = s.kind /\ p = q /\ Bucket(r.window) = Bucket(s.window)
  BY DEF RequestKey
<1> HIDE DEF t
<1>4. r.kind = "timeseries" => Step(t) = Step(r)
  BY <1>2, <1>3 DEF RequestKey, Step
<1>5. r.kind \in {"grouped", "topn"} => t.query.group = r.query.group
  BY <1>2, <1>3 DEF RequestKey
<1>6. r.kind = "topn" => Limit(t) = Limit(r)
  BY <1>2, <1>3 DEF RequestKey, Limit
<1>7. Span(t) = Span(r)
  BY <1>2 DEF Span
<1>8. BackendQuery(r, p, filter) = BackendQuery(t, q, filter)
  BY <1>2, <1>3, <1>4, <1>5, <1>6, <1>7 DEF BackendQuery
<1> QED BY <1>3, <1>8 DEF t
=============================================================================
