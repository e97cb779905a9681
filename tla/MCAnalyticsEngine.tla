------------------------- MODULE MCAnalyticsEngine -------------------------
(***************************************************************************)
(* Small instances of AnalyticsEngine.                                     *)
(***************************************************************************)
EXTENDS AnalyticsEngine

CONSTANTS c1, c2, u1, n1, n2, g, t1, t2, top, a, b

\* u1 is of the partition top, which has a child; n1 and n2 are of two tenants and
\* of no partition; g is of no tenant.
EachTenant == [u \in Caller |-> CASE u = u1 -> t1 [] u = n1 -> t1 [] u = n2 -> t2 [] u = g -> NoTenant]
EachPartition == [u \in Caller |-> IF u = u1 THEN top ELSE NoPartition]

\* An empty partition id has no children ...
OneChild == [u \in Caller |-> IF u = u1 THEN <<a>> ELSE << >>]

\* ... or is taken for the root of the tenant.
RootChildren == [u \in Caller |-> <<a, b>>]

-----------------------------------------------------------------------------
Window == <<0, 36 * Hour>>
Later == <<30, 36 * Hour + 30>>

Labels == [l \in {"", "tenant.id", "status"} |-> IF l = "tenant.id" THEN "tenant_id" ELSE l]

\* Names of services have slashes; two of them are not told apart.
Metrics ==
    [m \in {"", "payments_total", "other"} |-> m]
    @@ ("engine/latency" :> "engine_latency") @@ ("engine.latency" :> "engine_latency")
    @@ ("engine/completed_calls" :> "engine_completed_calls")

Metric(m, fold) == [NoQuery EXCEPT !.metric = m, !.aggregation = fold]
Filtered(q) == [q EXCEPT !.filters = [l \in {"tenant.id", "status"} |-> "ok"]]
Total == Filtered(Metric("payments_total", "count"))
Latency == [NoQuery EXCEPT !.duration = <<"engine/latency", "engine/completed_calls">>]
Over(num, den) == [NoQuery EXCEPT !.parts = <<num, den>>]

Ask(kind, q) == [NoRequest EXCEPT !.kind = kind, !.query = q, !.window = Window]

\* A total; its series by hour and by day; the few highest of a ratio, by
\* status; and a ratio of which one metric is not allowed.
Bodies ==
    [scalar |-> Ask("scalar", Total),
     hourly |-> Ask("timeseries", Total),
     daily |-> [Ask("timeseries", Total) EXCEPT !.step = "day", !.window = Later],
     ratio |-> Ask("topn", [Over(Total, Latency) EXCEPT !.group = "status"]),
     other |-> Ask("scalar", Over(Total, Metric("other", "count")))]

\* The wildcard and a list, which may come to the same scope, and one question
\* asked over no partition of a tenant and over everything.
Mixed ==
    {<<u1, All, "hourly">>, <<u1, <<top, a>>, "daily">>,
     <<n2, Default, "ratio">>, <<g, Default, "ratio">>, <<g, Default, "other">>}
OnlyWildcard == {<<n1, All, "scalar">>}

CallSymmetry == Permutations(Call)
=============================================================================
