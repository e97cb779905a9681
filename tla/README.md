# A TLA+ model of Thesa

Thesa (`service-thesa`) is the backend-for-frontend of the Stawi platform: one
Go service between a Flutter console and a dozen backend services. It keeps no
database. What can go wrong in it goes wrong between requests that share a
cache, between the goroutines of one request, and between a request and a
backend that is slow, absent or answers late. That is what these modules are
about.

- `*.tla` with the name of a component: its specification.
- `MC*.tla` and `*.cfg`: small instances for TLC, one `.cfg` per run.
- `*Proofs.tla`: theorems, checked by TLAPS.
- `PROJECT.json`: components, runs, mutants, the map from definitions to
  source lines, findings, hazards and theorems.

Run a check with `tlc -config X.cfg MCModule.tla`, a proof with
`tlapm XProofs.tla`.

## 1. Inventory

### The parts

| Part | Source | State it keeps | Operations |
| --- | --- | --- | --- |
| Capability resolver | `pkg/capability/resolver.go` | cache: (subject, tenant, partition) to capability set and expiry, under an RWMutex | `Resolve`, `Invalidate` |
| Keto policy | `pkg/capability/keto_policy.go` | none (the checks derived from definitions) | `ResolveCapabilities`: BatchCheck per chunk, one Check each after a failure |
| Lookup provider | `pkg/search/lookup.go` | cache: key by scope to option list and expiry, under an RWMutex | `GetLookup`, `Invalidate` |
| Search provider | `pkg/search/provider.go` | per request: a channel, a WaitGroup, a context per provider | `Search` |
| Operation invoker | `pkg/invoker/` | none (clients and the OpenAPI index are immutable) | `Invoke`, with retries and back-off |
| Analytics engine | `pkg/analytics/` | scope cache (RWMutex), response cache (Mutex) | four query kinds, `Healthy` |
| Command executor | `pkg/command/` | none | `Execute`, `Validate` |
| OpenAPI index | `pkg/openapi/` | the operations of the specs, immutable once loaded | `Load`, look-ups, `ValidateRequest` |
| Definition registry | `pkg/definition/` | an atomic pointer to an immutable snapshot | loading, validation, `Replace`, getters |
| Metadata providers | `pkg/metadata/` | none | pages, forms, menus, schemas, resources, actions |
| Transport | `pkg/transport/` | per request: the context and what middleware puts in it | the routes of `router.go` |
| Configuration, wiring | `pkg/config/`, `apps/default/cmd/bff/` | none after start-up | |
| Console session | `ui/lib/core`, `ui/lib/features/auth` | sign-in state, tenant override, cached claims | sign in and out, switch tenant, RPC |
| Console widgets | `ui/lib` | presentation | |

### How they interact

A request passes authentication, gets a request context from its claims, and
has its capabilities resolved (through the capability cache, at worst by a
dozen calls to Keto). Only then does the handler deadline start, and a handler
run: it reads definitions from the registry's current snapshot, compares
capabilities, and invokes operations on backends through the invoker registry.
Search fans out one goroutine per provider; lookups and analytics put what
backends answer into caches which all requests share. The console calls all of
it over HTTP, and many backends directly by RPC.

### What is hard

- *Concurrency*: `Resolve`, `GetLookup` and the analytics engine look a key up
  under a lock, let go of it, ask a remote service, and store under the lock
  again. Any number of requests may do so for one key at once, with an
  `Invalidate` or an expiry in between. The analytics resolver hands its
  callers the very slice it caches. A search has three kinds of goroutine
  around one channel.
- *Failure*: a batch that fails half-way, a Keto that is down, a request
  whose effect happens although its answer is lost, a provider that never
  answers, a child list that cannot be had.
- *Ordering and time*: an old answer stored last, entries that age from the
  store rather than from the evidence, results that arrive in any order.
- *Limits*: three caches with three different ideas of what to do when full;
  chunks; page arithmetic in `int`.

- *Sequence*: a server that comes up is trusted with definitions nobody looks
  at again; a console follows what an earlier answer offered; a dry run and
  the execution it predicts are two pieces of code.

The list with lines is `hazards` in `PROJECT.json`. A hazard with no property
carries a note that says why.

### What makes each part correct

- Capabilities: what a request works with was really granted, recently; what
  is granted without a break is not lost; an invalidation reaches all it is about, nobody else, and is not
  undone.
- Lookups: nobody is given another tenant's or partition's options; options
  are recent; only live entries can outgrow the limit.
- Search: every outcome counts once; nobody blocks; a page is what its
  position in the ranking of everything found says; every search returns.
- Invoker: a call that must not be repeated is carried out at most once;
  what is returned is what the latest attempt came to; retries have a reason.
- Analytics: an answer, cached or not, is over exactly the tenant and the
  partitions the caller asked for and may see, and to the very question asked;
  access withdrawn is noticed; only names that are allowed are read.
- Boot and definitions: a server that comes up has no dangling references.
- Commands: nothing incomplete is sent, a dry run foretells what the executor
  decides, a success was carried out, and a refusal left every backend alone.
- Metadata: what a descriptor offers can be had; no way around a definition's
  capabilities leads to its operation; a menu comes up without its badges.
- Every request: answered, though no backend ever answers.

## 2. The modules

### Capabilities: `KetoAuthority`, `CapabilityResolver`, `CapabilityPromise`

`KetoAuthority` is the environment: which checks Keto allows for each key,
changed by administrators at any moment, and the clock. It is external code
and keeps, as history, when each check last changed, which is what lets a
property speak of what *was* held.

`CapabilityResolver` has the cache, and for each concurrent call of `Resolve`
its place and locals. The actions follow the code: `Arrive` (middleware),
`Hit` or `Miss` (read lock), `BatchAnswered`/`BatchFailed` per chunk,
`CheckAnswered`/`CheckFailed` per check of the fallback, `Store` (write lock),
`Finish`; `Invalidate` may run at any time. An evaluation takes at most
`MaxEval`, as Keto's client has deadlines (`TimePasses`).

`CapabilityPromise` is the abstract specification: a call asks, and is
answered with any set of capabilities each of which was held at some instant of
the last `Window`. `CapabilityResolver` implements it with
`Window = MaxEval + TTL`: caches, chunks, fallbacks and races cost staleness
and nothing else.

History has a further part: `failed`, the positions of the checks whose own
question failed in the evaluation a set came from. Only those may be missing
(`HeldCapabilitiesReturned`), wherever a batch failed and the fallback took over.
`Addressed` is what an `Invalidate` is about, every partition of a subject in a
tenant, and is not the `Matching` that deletes.

### Lookups: `LookupCache`

The cache is a function on the keys it holds; an option list is whose options
they are and when the backend gave them. `Miss`, `FetchAnswered`/`FetchFailed`
and `Put` are separate, so that fetches overlap each other and `Invalidate`.
`CacheKey` is the key construction with its three scopes (and the fourth: none
or a misspelt one means everybody). `Put` evicts what has expired at capacity
and stores regardless. Ids are opaque, but `Extends` says which lookup ids
begin with which, as `Invalidate` matches by prefix.

### Search: `SearchRanking`, `FederatedSearch`, `SearchPromise`

`SearchRanking` is the pure part: eligibility, scores as exact fractions, the
page bounds with the width of an `int`. `FederatedSearch` is the concurrent
part: provider goroutines (`Answers`/`Refuses`/`Fails`, `Send`, `Done`), their
timers, the closer and the collector. `SearchPromise` is the abstract
specification with none of these: providers report in any order, and the answer
is a page of a ranking. `FederatedSearch` is checked to implement it. Go's
`sort.Slice` is not stable, so any order of equal scores is allowed.

### Invoker: `OperationInvoker`, `InvocationPromise`

One invocation (invocations share nothing) against a backend which receives
each attempt's request whenever it likes, may keep the effect of what it
answers with an error, or never answers. `ExecuteWithRetry` is the loop of
`executeWithRetry` with `executeOnce` inside: the three ways to fail, which of
them end the loop, the pause with its `select`, and exhaustion.

`InvocationPromise` is what a handler may count on, free of attempts and
retries: one outcome, a status only of a request that was sent, a success only
of one that was carried out, a context's error only when the context is over. An
error says nothing of what was sent: a request may fail before it goes out (it
cannot be built, or the client gives up on it), or be carried out and its answer
lost.

### Analytics: `MetricQueries`, `AnalyticsEngine`

`MetricQueries` is pure: what the four endpoints take, the checks they make,
the allowlist, the sanitizing of filters, and the PromQL each becomes, as an
expression with its metrics, matchers, range and grouping rather than as text.
The allowlist looks at names as they are given; `Selector` and the grouping
normalise them (`MetricName`, `LabelName`), and several names may be normalised
to one, an allowed one to what is not allowed as it stands.
`BackendQuery` is all of it together; `RequestKey` is the request's part of the
cache key.

`AnalyticsEngine` is the concurrent part. Slices are the point here, so they
live in a heap: `scopes` (the resolver's cache) and calls refer to them, and
what is unreferred is collected. A slice carries one history field, what its
resolution found; cache entries and calls carry its age. `ScopeHit` hands out
the cached reference.
`Compact` is one round of the loop that drops empty ids *in place*, `Scan` one
of the loop that builds the set an explicit list is compared with. `Miss`
computes the key; `AskBackend` reads the filter again, later. `Put` goes
through `Stored`, which refuses when full; the resolver's `Room` evicts
instead. An answer is the body and the filter that made up the backend's
query, so that a property can compare what was asked with what should have
been. Time is what is left of a cached scope and how old what a call holds is:
there is no horizon.

The resolver modelled is `HierarchicalPartitionResolver`; `main.go` passes none
today, and the engine then uses `DefaultPartitionResolver`, whose fresh
single-element slices are the special case without children or sharing.

### Requests: `Definitions`, `Descriptors`, `Commands`, `ConsoleRequests`

The first three are pure, each extending the one before. `Definitions` has the
OpenAPI index (`LoadIndex`, `ValidateRequest`), the loader, every complaint of
the validator (`Validate`), the registry with its last-one-wins, and capability
matching. `Descriptors` has the metadata providers: what a page, form, menu or
schema shows to whom, which invocation its data takes, and the mapping of
responses. The order in which a descriptor lists its actions is left out. `Commands` has expressions, the input mapper, the checks of
`Execute` and `DryRun`, and what becomes of the answer. A plan is what a
handler decides before a backend is involved: a refusal with its code, or a
binding and a body.

`ConsoleRequests` puts them behind the routes:

| Actions | Code |
| --- | --- |
| `Boot` | `main.go`: specs, definitions, validation; a fault ends the process |
| `Administer`, `CacheExpires` | the environment of the capability cache |
| `Arrive`, `Unauthorized`, `ResolveCapabilities`, `ResolutionFails`, `DeadlinePasses` | `router.go`, `middleware.go`, in the router's order |
| `HandleGetPage`, `HandleGetForm`, `HandleGetSchema`, `HandleCapabilities` | handlers that answer at once |
| `HandleGetPageData`, `HandleGetFormData`, `HandleGetResource`, `HandleGetResourceItem`, `HandleCommand`, `HandleAction`, `HandleNavigation`, `HandleProxy` | handlers that plan invocations |
| `Invoke`, `SendRequest`, `CarryOut`, `CallFails` | the invoker registry and the invocation, whose steps are those of `InvocationPromise` |
| `DataArrives`, `FormDataArrives`, `ItemArrives`, `CommandCompletes`, `BadgeArrives`, `MenuComplete`, `ProxyAnswers`, `ProxyFails` | the rest of each handler |
| `NextRequest` | the console goes on; what the screen offers stays |

`offered` is what the page or form on the screen leads to: in `screen` the page's
own actions, its data and the form's submission, in `rows` the actions of the
page's table, those for several rows included. They are kept apart because the
code treats them apart: the validator does not look at the table's, and
`findActionInRegistry` does not find them.

The registry and the index never change once the server is up, so concurrent
requests meet only in the capability cache, which is `CapabilityResolver`'s
subject. One request at a time is followed, in a session of any length.

### How the modules compose

`InvocationPromise` is what `OperationInvoker` implements (checked and proved)
and what `ConsoleRequests` takes every call from: attempts, pauses and late
answers are behind it. `ResolveCapabilities` likewise takes from the cache, or
from what is granted less what could not be checked, which is what
`CapabilityResolver` is shown to return. The fairness of `ConsoleRequests`
rests on the liveness of these two.

## 3. The plan

Done, in this order, the most important first: capabilities (every request
depends on them), lookups, search, invoker, analytics, definitions and boot,
descriptors, commands, requests, metric queries.

The proofs followed the same order. Every safety invariant, action property and
refinement a passing run checks is a theorem (section 6). So are the safe halves
of the liveness properties: how many steps are left, and that each step leaves
fewer; and of the operators, those whose lemmas say something of their own. What
is left of liveness stays with TLC (section 7).

Runs are kept few: one for each question. When a part is added, its run
replaces the one that says least.

## 4. The runs

| Run | Instance | Shows |
| --- | --- | --- |
| `capability_chunks` | one call, three checks in chunks of two, two of them for one capability in two namespaces; clock 0..1 | `HeldCapabilitiesReturned`: no right is lost in the stitching, nor by the fallback that takes over in the middle. `EveryCallReturns` even when Keto fails everything. The refinement `KeepsPromise`: no answer is credited to another capability |
| `capability_races` | two calls of one key, TTL 2, `MaxEval` 1, clock 0..4 | `RevocationTakesEffect`, and the refinement `KeepsPromise` |
| `capability_invalidation` | two calls, one subject in two partitions of two tenants, no checks; clock 0..2 | `InvalidationHolds`, `InvalidationSparesOthers`: an invalidation is of every partition of the subject in one tenant, overlapping whatever two calls do |
| `capability_outage` | one call, one check | violated `OutageFailsRequest` (finding) |
| `lookup_cache` | two calls; a tenant scoped lookup asked by two tenants, with TTL 0, and a partition scoped one asked by two partitions, with TTL 1, the id of the former beginning with that of the latter; room for one entry; clock 0..2 | `OptionsBelongToCaller`, `OptionsAreRecent`, `OverfullOnlyWithLiveEntries`, `InvalidationHolds` |
| `search_promise` | two providers of one route, one protected and capped at one result, unequal weights; lists that are disjoint, overlapping, repeat an id or are empty; pages 0 to 3 | `SendersNeverBlock`, `PositionsAreEarned`, `SearchReturns`, and the refinement `KeepsPromise` |
| `search_far_page` | as above with an `int` of four bits | violated `PageBeyondIsEmpty` (finding) |
| `invoker_retries` | every method and setting, attempts not set, one, three | `NonIdempotentAtMostOnce`, `OutcomeIsOfLatestAttempt`, `RetriesAreJustified`, `CallReturns`, and the refinement `KeepsPromise` |
| `analytics_scope` | two calls of three callers (a partition with a child, another tenant without a partition claim, a global viewer); the wildcard with a series by hour and the list with one by day half a minute later, which may come to one scope; the highest of a ratio by status over no partition of a tenant and over everything; a ratio of which one operand is not allowed; names that are normalised to one metric; both caches with room for one; TTL and longest resolution 1 | `AnswerIsOfScope`, `AnswerIsToQuestion`, `OnlyAllowedMetricsAreRead`, `ScopeIsRecent`, `CachesStayBounded` |
| `analytics_wildcard` | two wildcard queries of a caller without a partition claim | violated `WildcardMeansAll` (finding) |
| `console_requests` | two domains cut down from the integration tests' definitions; a whole deployment and five with something wrong (neglected references, a service without an address, a dangling reference, a file that does not parse, an invalid spec); three sets of capabilities; every route with ids that exist, are another thing's or do not exist, and bodies whole, incomplete, null and malformed | `CallsAreEntitled`, `RefusedMeansUntouched`, `OffersAreHonoured`, `DryRunPredicts`, `SuccessMeansDone`, `FailuresAreOwned`, `MenuSurvivesBackends`, `FormDataIsOfForm`, `EveryRequestAnswered` |
| `row_actions` | the whole deployment only | violated `RowOffersAreHonoured` (finding) |

Each component's passing run also checks its `TypeOK`. Every property of a passing
run has a mutant: a definition changed the way a plausible bug would change it,
kept in the module next to the original, under which TLC finds the property
violated. The definitions named "Mutant" are used for nothing else.

**Why these bounds.** Races in these components are between two: a second call
that overlaps the first, or an invalidation. A third would add orders but no
new relation between a stored value and who looks at it, and calls are
symmetric. Where there is a clock, it reaches (but in
`capability_chunks`) past a TTL and a longest
evaluation after the first store, so that an entry expires, is stored anew and
is served again; `AnalyticsEngine` counts ages up to `OldAge` instead, one past
what `ScopeIsRecent` allows. Three checks in chunks of two give a full chunk, a
partial one, and a failure in either. Caches with room for one are full at
once. The definitions of `console_requests` have, of every construct the
providers tell apart, one with it and one without; sessions are unbounded, as
all a session carries on is capabilities and offers. `capability_chunks` is about
stitching: entries are served, and expiry is for the next two runs.
`capability_invalidation` needs four keys and no capabilities. Symmetry is used
over calls, there over tenants and partitions too, and in no run with a liveness
property.

**Deadlock** is checked everywhere. No model stops but where the code does:
`OperationInvoker`, which is a single call, says when it is `Quiescent`, and
`ConsoleRequests` that a process that failed to boot has `Stopped`. Otherwise
finished calls make way for new ones.

**Fairness**, where liveness is claimed:

- `CapabilityResolver`: a call that has begun goes on (`WF` of `Resolve(c)`):
  its goroutine is scheduled, and Keto's client answers or fails.
- `FederatedSearch`: goroutines are scheduled and timers fire. No backend need
  answer; the invoker returns once its context is over.
- `OperationInvoker`: the client is scheduled and its HTTP client has a timeout.
  Neither the backend nor the end of the context is counted on.
- `ConsoleRequests`: the server boots and serves (`WF` of `Boot` and `Serve`).
  That a resolution and an invocation end is `EveryCallReturns` and
  `CallReturns` of the modules above; a proxied request ends with the handler's
  deadline.

Nothing is assumed of administrators, callers, backends or invalidations.

## 5. What the checks found

- *Outage of the authorization service.* `middleware.go` says a request fails
  with 502 then. The fallback skips every failed check and returns no error, so
  the resolver returns, and caches for a TTL, an empty capability set.
- *Far pages.* The page's offset is an unchecked `int` product; far enough out it
  wraps to a negative offset and slicing panics, where the tests expect an empty
  page.
- *Actions of table rows.* A page shows the console the actions of its table's
  rows, and the bulk actions. The route that executes "a declared action" looks
  among the actions of pages only: any of these is answered with 404.
- *Wildcard queries.* Two overlapping ones of a caller without a partition claim
  compact one slice at once, lose a partition, and leave it lost in the cached
  scope. (In the library; the resolver is not wired up by `main.go` today.)

Noticed while modelling, with no run. Comments and docs say otherwise in the
first three:

- *Operations of definitions.* `README.md:164` says every operation a definition
  refers to is looked up at boot. Those of load sources, badges, searches and
  lookups are not, and the first request for them fails. The deployment
  `neglected` of `console_requests` has such references, and comes up.
- *Invalidate of a lookup* "removes a specific cache entry" (`lookup.go:160`). It
  removes those of lookups whose id begins with its own, too, as the match has no
  separator. `Matching` and the instance of `lookup_cache` have that.
- *Form data* is filtered, says `form.go` (lines 64-66 and 121), to what the form's
  descriptor has. It is filtered to what the definition has: hidden fields are
  sent, and those of sections the caller is not shown. `FormDataIsOfForm` is of
  the definition's fields for that reason.

No line promises otherwise, or there is nothing to run, in the rest:

- `README.md:126` speaks of a circuit breaker and the configuration has its
  settings; no code reads them.
- A time series of a ratio looks at the metric of the query, which a ratio has
  none of: it reads a selector without a name (`prometheus.go:200`).
  `OnlyAllowedMetricsAreRead` excepts it.
- A window that is no whole number of days, hours or minutes is cut to one
  (`prometheus.go:297`).
- The allowlist is matched against the name as it is given, and the query is made
  with its normal form (`prometheus.go:281`): `a/b` may be allowed by a pattern
  that `a_b` does not match. What is read is the normal form of an allowed name;
  no line says that it is allowed itself.
- A command whose backend fails is answered with 400, whatever the backend's
  status (`executor.go:91`), and an upload or download without a configured
  service of files with 400 too (`handler_file.go:24`). `FailuresAreOwned` names
  both.
- A dry run approves a command whose operation cannot be invoked, for want of a
  service or of a handler: it asks what the executor asks, not the invoker.
  Execution is then a 500, with no backend touched.
- The status of a backend's answer is not looked at for page data, form data
  and resources: an error with a JSON body is a success without items.
- Two domains of one name are not refused (`registry.go` keeps the later, but
  the pages and forms of both), and an action may name a command its type does
  not carry out, which the validator then does not look up. Either way what a
  page offers can be answered with 404; the definitions of the tests do neither.
- A resource's item is fetched by the first operation found for its type, with
  the id in the body.

## 6. What is proved

Everything safe that the passing runs check: each invariant, each action property
and each of the three refinements, for every value of the constants. The
assumptions stand in the modules, named, and TLC evaluates them on every run:

- `AuthorityAssumption`, `ResolverAssumption`, `InvokerAssumption`,
  `LookupAssumption`: types and signs, nothing about sizes.
- `RankingAssumption`, `RequestAssumption`: providers are finitely many, weights
  and pages are integers (negative and zero ones included), and the fallbacks
  `config.go` gives are positive.
- `MetricsAssumption`, `AnalyticsAssumption`: requests have the fields their
  types have; no metric is named the empty string; the ages counted reach past
  what `ScopeIsRecent` allows.
- `RequestsAssumption`, `FilesAssumption`: finitely many requests; no service is
  configured without a name; what is read from a file has lists for lists.

Four of the theorems are the safe half of a liveness property, and all have one
form: a measure of the steps that are left, bounded by the constants, that each
step of the thing itself makes smaller and no step of anything else makes larger.
`CapabilityResolver`: `CallsGetOn`, a step to a check and three. `OperationInvoker`:
`CallGetsOn`, four to an attempt and two. `FederatedSearch`: `SearchGetsOn`, five
to a provider and two, as a finite set that shrinks, for steps of many goroutines.
`ConsoleRequests`: `RequestsGetOn`, a finite set once the request is planned.
`AnalyticsEngine`, of which no run checks liveness, has `CallsGetOn` too: two to
a child and nine. What remains is that something may always happen next:
`SearchNeverStuck` and `AnswersAreTaken` say that of the two components where it
is in doubt, with the guards written out; and that what may happen does, which is
fairness.

Some theorems need more, which is then a hypothesis of theirs and explained
below: `Tidy`, `Near`, `WellNamed`. The instances of the passing runs satisfy each.

The properties are seldom inductive. Each proof module has an inductive `Inv`
that TLC checked on the run's instance first, a lemma per action, and the
properties as consequences.

`CapabilityResolverProofs`:

- `TypeCorrect`, `RevocationBound`, `NothingHeldIsDropped`,
  `InvalidationIsNotUndone`: the four invariants of the three runs;
- `InvalidationReachesNobodyElse`: an action property, of `Invalidate` alone;
- `ResolverKeepsPromise`: the refinement of `CapabilityPromise`;
- `CallsGetOn`: chunks and the fallback after a failed chunk both pass the checks
  they were for, so that failures of Keto never make a call go round.

The properties speak of returned calls only and are not inductive: a returned
set came from an entry or an evaluation, perhaps of another call. `Inv` adds
what must be true of those. `EntryInv`: an entry's capabilities each have
evidence since the entry's evaluation began, it expires at most
`MaxEval + TTL` after that, and if Keto answered everything nothing held
throughout is missing. `CallInv`: the same of a call, for the positions it has
passed so far, with the deadline that bounds its age. `ClearedInv`: a cleared key
has no entry and no evaluation in flight that could bring one back. That
evidence stays evidence under any step of the environment is the lemma
`GrantedSinceStable`; that what has held throughout held a step before is
`HeldThroughoutBefore`; then there is a lemma per action. For the refinement,
every step is an `Ask`, `Answer` or `Finish` of the promise, a step of the
environment, or a stutter; `ReturnAnswers` is the one that needs `Inv`.

`LookupCacheProofs`: `TypeCorrect`, `OwnOptions`, `InvalidationIsNotUndone`, and
the action properties `RecentOptions` and `OverfullMeansAlive`. An answer is
compared with its caller's tenant and partition, but it comes from whoever stored
it. So `Inv` says of entries, and of what is fetched and returned, that *the key
made of whose options they are* is the key they are stored or asked under
(`EntryInv`, `CallInv`); `KeyTellsCallersApart` then says what equal keys have in
common, scope by scope, and is a theorem in its own right. `ClearedInv` is the resolver's, with all the keys one
`Invalidate` matches. `OverfullMeansAlive` is a property of one step: `Put` is the
only one that adds a key, after it threw out what had expired.

`FederatedSearchProofs`: `TypeCorrect`, `NoSenderBlocks`, the refinement
`SearchKeepsPromise` and, under `Near`, `PagesAreEarned`. `Inv` says where every
outcome is: in the goroutine that has yet to send it, in the channel or collected,
and once (`ArrivalsInv`), with the channel closed only after the last goroutine is
done (`GoroutinesInv`). That is why a channel with as much room as there are
eligible providers never fills, and why the response shows every outcome. For the
refinement, `SameRanking` and `RespondKept` say that ranking what was collected,
in the order it came, is a ranking of everything reported. `PagesAreEarned` needs
that a ranking is made of the best hit for each key (`DeduplicatedIsBest`,
whatever order providers answer in) and
that the place of a hit is the number of better ones (`PlacesAreEarned`). `Near`:
no request's offset is beyond an `int`. Without it the offset wraps, which is the
finding `search_far_page`.

`SearchGetsOn` counts what goroutines, closer and collector have still to do;
`SearchNeverStuck` goes through who may be next: as long as an eligible provider is
not done its goroutine has a step, a send included, since the channel has room;
after that the channel can be closed, then drained, and then there is an answer.
The last needs that what was collected can be ranked: `RankingExists`, that
results are finitely many and scores can be compared without a cycle, by way of
`InOrder`, which numbers a finite strict order.

`OperationInvokerProofs`: `TypeCorrect`, `AtMostOnce`, `LatestOutcome`,
`JustifiedRetries`. `Inv` relates the wire to the loop (`Wire`: no request is
beyond the attempts begun, no effect without a request, no success without an
effect), the place in the loop to what the latest attempt came to (`Loop`: in
particular, the loop can only be exhausted with a failed last attempt, so that an
earlier failure or an empty result is never returned), and the outcome to both
(`Returned`).

`CallGetsOn` follows from `Inv` and the order of the loop's stages: the only way
back is to the next attempt. `InvokerKeepsPromise`, there too, is the refinement of `InvocationPromise`. It
needs `Sent` besides: nothing is returned before the end, and what is waited for
was sent. Then a step is the end of the
context, a first sending, a first effect, a return of an outcome the promise
allows (`ReturnKept`), or a stutter (`WireStaysShown`).

`MetricQueriesProofs` are about pure operators: whatever the labels of a query,
the scope's matchers are those of the filter (`MatchersScope`), in every selector
of every kind of query (`SelectorsScope`); whatever a query that passed
the allowlist reads is the normal form of an allowed name it gave (`AllowedIsRead`); and equal request keys are the same question
(`KeyTellsQuestionsApart`).

`AnalyticsEngineProofs`: `TypeCorrect`, `CachesBounded`, `RecentScope`,
`AllowedOnly` and `AnswerOfTenant` without conditions: whatever a caller does, and
whatever others do to a slice they share, an answer is of the caller's tenant, and
no cached scope outlives its TTL and resolution. On partitions, `OthersDoNoHarm`
says of one tenant that its callers' answers are over exactly the partitions
asked for and to the very question, if the tenant is `Tidy`: nobody of it without
a partition claim has children. An empty id is then alone in its slice, the loop
that drops them writes every other element onto itself, and sharing is harmless,
whatever becomes of other tenants' slices in the same caches. Per caller it would
be false: one who is not tidy can store a wrong answer under a key another of the
tenant asks for. `AnswerInScope` and `AnswerToQuestion` are the two properties of
the run, for tidy tenants all round. `analytics_wildcard` violates `Tidy`, and
scopes break: the hypothesis is the boundary of the finding, not a convenience.
`Inv` says which slices settle (`Settled`: a slice other calls write keeps its
length and what was found, and if settled is left as it is), which
slices are shared and which are a call's own (`Unshared`), how far each loop is in
its slice (`LoopInv`), that what is left of an entry and its age add up
(`ScopeEntryInv`, `AgeInv`), and that the key under which an answer is stored is
that of the query that was sent, although the filter is read again in between
(`AnswerInv`, `ResultInv`).

`CallsGetOn` counts a query's steps: one to a child while the scope is resolved,
one to an id while the wildcard's slice is gone through. The second count is of a
slice other queries write into at the same time. It does not grow under the loop:
a slice that is shared keeps its length (`Kin`), and while it is built it has room
for the caller's own partition and one id to a child (`RoomForChildren`).

`ConsoleRequestsProofs`: `TypeCorrect`, `CallsEntitled`, `RefusalsTouchNothing`,
`CommandsComplete`, `DryRunsPredict`, `SuccessesDone`, `FailuresOwned`,
`MenuSurvives`, `FormDataOwn`, and under `WellNamed` `OffersHonoured`. First come
lemmas on what handlers decide, for any definitions: whatever a plan invokes is
bound behind capabilities the user has (`PageDataSound`, `FormDataSound`,
`ResourceItemSound`, `ExecuteSound`, `BadgesHeld`), and what the registry finds
was loaded (`RegistryHolds`) and the other way round (`RegistryFinds`), both
theorems of `NewRegistry` for any definitions.
`Inv` is `Surroundings`, of the session, and `Served`, of the request under way:
where it is and that only a menu makes more than one call (`Flow`), that what waits
to be invoked was entitled when it was planned (`Bindings`) and is complete if it
can be sent (`Commanded`), what a menu may do (`Menu`), and what may have been
answered (`Ends`). The two dozen actions are of a handful of kinds (`Aside`,
`EarlyReply`, `Planned`, `CallReplied`, `MenuGoesOn`); that a kind preserves
`Served` is proved once, and each action is shown to be of its kind.
`OffersHonoured` has an inductive invariant of its own, `Offers`: a server that is
up was validated, and each thing on offer was found when it was offered. That
links the validator, at boot, to answers many requests later: `ReferencesFound`.
It is of the page's own actions; of those of its table the property is false (the
finding `row_actions`).
`DryRunsPredict` has `Course`: a command goes the way its plan says, refused with
the plan's code or to the plan's binding and from there to a reply, while nothing
the plan depends on changes; and `DryRunAgrees` compares the dry run with the
plan. `FailuresOwned` names what the code excepts: an unconfigured service of
files, and a command's backend whose failure is an answer. `FormDataOwn` is of the
definition's fields (section 5). `CommandsComplete` is proved and in no run: it
follows from what `Execute` checks last.
`RequestsGetOn` and `AnswersAreTaken` have another, `Waiting`: a call that is
waited for has not returned, is none of those still to come, and was planned from
a command or a page the handler finds again. A menu's badges are finitely many
(`BadgesFinite`), and of a body there is always something to make: a mapping
(`MappingExists`), fields that are renamed onto each other included
(`RenamedExists`).
`WellNamed` is what the validator does not see to: loaded domains have names of
their own, and an action names a command or a form only if its type uses it.

## 7. Only model-checked

Liveness (`EveryCallReturns`, `SearchReturns`, `CallReturns`,
`EveryRequestAnswered`): fairness and ENABLED are beyond the prover. What it can
say of them is proved, that steps run out (section 6); that a step which stays
possible is taken, and that nothing deadlocks, is TLC's. The four violations are TLC's by nature.

What the theorems' hypotheses leave out: pages beyond an `int`, callers whose
cached scope holds an empty id, and definitions that are not `WellNamed`. For the
first two, runs show that the property fails there.

No theorem says what a recursive definition computes for every input; there is
none in a module with theorems. Where an operator of the community modules is a
recursion over a sequence (`SelectSeq`), proofs use nothing of it but that equal
arguments give equal results.

## 8. Not modelled

- Text: URLs, headers, JSON decoding, the spelling and escaping of PromQL,
  labels, icons, logs, request ids. Each is a conversion whose result the
  properties here do not tell apart.
- In `ConsoleRequests`: panics and `Recovery`, health routes, requests the
  router or the size limit rejects, streamed file contents. Search, lookups and
  analytics have modules of their own.
- In `MetricQueries`: authentication, health checks, the numbers in a response
  and what cannot be written as JSON, ratios of ratios, operands given one
  without the other. In `AnalyticsEngine`: a response cache that is disabled.
- Types, formats and ranges of a request body: the OpenAPI library checks them;
  `ValidateRequest` models required fields.
- The registry's `Replace` after boot: nothing calls it.
- The static policy evaluator and SDK handlers: `main.go` uses neither. That an
  SDK binding is refused is modelled.
- `CollectCapabilityChecks` and `findDomainService` (`keto_policy.go`), which
  derive the list of checks from the definitions once, at boot: the list is a
  constant of `CapabilityResolver`, any list.
- Loading of configuration: its values are constants of the modules.
- The console (`ui/`). Widgets and features are presentation. The session
  (sign-in state, tenant override, cached claims) is a thin layer over the auth
  runtime, a package outside this repository: which events that sends, and when
  after a sign-out, would all be assumptions.
- Frame, Keto, the Go runtime, the HTTP client: modelled as far as this
  repository relies on them, and marked external in the map.
- Definitions and specs: data. The models take any definitions of their
  constants' types.
