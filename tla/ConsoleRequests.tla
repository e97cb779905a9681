-------------------------- MODULE ConsoleRequests --------------------------
(***************************************************************************)
(* apps/default/cmd/bff/main.go and pkg/transport: the server is booted    *)
(* from specifications and definition files, and then answers the          *)
(* console's requests: authentication, capabilities, the deadline and the  *)
(* handler of each route, which answers from the registry or invokes       *)
(* backend operations first.                                               *)
(*                                                                         *)
(* The registry and the index never change once the server is up, so       *)
(* concurrent requests meet only in the capability cache, which            *)
(* CapabilityResolver is about.  One request at a time is followed here,   *)
(* in a session of any number of them.  What a backend operation comes to  *)
(* is taken from InvocationPromise.  Search, lookups and analytics are     *)
(* followed in FederatedSearch, LookupCache and AnalyticsEngine.           *)
(***************************************************************************)
EXTENDS Commands

CONSTANTS
    Deployment,   \* what the server may be given to boot from
    Grant,        \* the sets of capabilities the user may come to hold
    Target,       \* the requests the console may make
    Body          \* the bodies of the backends' answers

(***************************************************************************)
(* A deployment is [specs, files, services], services being the ids of the *)
(* configured services; a target is [route, id, wellFormed, input, params, *)
(* checks]: the route, the id in its path, whether its JSON body parses,   *)
(* and what that body holds.  No target is made of a request line that the *)
(* router itself rejects.                                                  *)
(***************************************************************************)
Named(route, id) ==
    [route |-> route, id |-> id, wellFormed |-> TRUE, input |-> << >>, params |-> << >>,
     checks |-> {}]

NoTarget == Named("none", << >>)

ASSUME RequestsAssumption ==
    /\ IsFiniteSet(Target) /\ NoTarget \notin Target
    /\ \A d \in DOMAIN Deployment :
          /\ DOMAIN Deployment[d] = {"specs", "files", "services"}
          /\ << >> \notin Deployment[d].services

\* What is read from files: lists are sequences, a badge is there or not, and
\* a command has one operation.
ASSUME FilesAssumption ==
    \A d \in DOMAIN Deployment :
        LET defs == LoadAll(Deployment[d].files)
        IN  /\ defs \in Seq(ToSet(defs))
            /\ \A x \in ToSet(defs) :
                  /\ x.pages \in Seq(ToSet(x.pages)) /\ x.forms \in Seq(ToSet(x.forms))
                  /\ x.commands \in Seq(ToSet(x.commands)) /\ x.children \in Seq(ToSet(x.children))
                  /\ \A p \in ToSet(x.pages) : p.actions \in Seq(ToSet(p.actions))
                  /\ \A c \in ToSet(x.children) : \A a, b \in c.badge : a = b
                  /\ \A c \in ToSet(x.commands) : DOMAIN c.operation = DOMAIN NoBinding

VARIABLES
    deployed,   \* the deployment the server is given
    phase,      \* "booting", "up" or "fatal"
    granted,    \* what the authority would say the user may do now
    cached,     \* the capability set in the resolver's cache, if there is one
    request,    \* the target being served, NoTarget when there is none
    pc,         \* how far it has got
    caps,       \* the capabilities that were resolved for it
    todo,       \* bindings still to be invoked for it
    call,       \* the binding being invoked, or invoked last
    body,       \* the JSON body that is sent with it
    touched,    \* bindings of which a request went out on its behalf
    failure,    \* why the latest invocation came to nothing, "none" without
                \* one or with an answer
    over, sent, done, outcome,   \* the invocation, as in InvocationPromise
    reply,      \* the status of the answer, 0 before it
    shown,      \* names of the fields, badges or capabilities it shows
    offered     \* targets that the page or form on the screen leads to, those of
                \* the actions of table rows apart: [screen |-> ..., rows |-> ...]

server == <<deployed, phase>>
user == <<granted, cached>>
invocation == <<over, sent, done, outcome>>
answer == <<reply, shown, offered>>
progress == <<request, pc, caps, todo, call, body, touched, failure>>
vars == <<server, user, progress, invocation, answer>>

Invocation == INSTANCE InvocationPromise

\* What booting makes of a deployment.
IndexOf == [d \in DOMAIN Deployment |-> LoadIndex(Deployment[d].specs)]
DefinitionsOf == [d \in DOMAIN Deployment |-> LoadAll(Deployment[d].files)]
RegistryOf == [d \in DOMAIN Deployment |-> NewRegistry(DefinitionsOf[d])]

index == IndexOf[deployed]
registry == RegistryOf[deployed]

-----------------------------------------------------------------------------
Init ==
    /\ deployed \in DOMAIN Deployment
    /\ phase = "booting"
    /\ granted \in Grant
    /\ cached = {}
    /\ request = NoTarget /\ pc = "idle" /\ caps = {} /\ todo = {} /\ call = NoBinding
    /\ body = << >> /\ touched = {} /\ failure = "none"
    /\ over = FALSE /\ sent = FALSE /\ done = FALSE /\ outcome = "none"
    /\ reply = 0 /\ shown = {} /\ offered = [screen |-> {}, rows |-> {}]

\* main: anything that does not load or validate ends the process.
Boot ==
    /\ phase = "booting"
    /\ phase' = IF /\ SpecsLoad(Deployment[deployed].specs)
                   /\ FilesLoad(Deployment[deployed].files)
                   /\ Validate(DefinitionsOf[deployed], IndexOf[deployed]) = {}
                THEN "up" ELSE "fatal"
    /\ UNCHANGED <<deployed, user, progress, invocation, answer>>

\* Somebody changes what the user may do.
Administer ==
    /\ phase = "up"
    /\ granted' \in Grant \ {granted}
    /\ UNCHANGED <<server, cached, progress, invocation, answer>>

CacheExpires ==
    /\ cached # {}
    /\ cached' = {}
    /\ UNCHANGED <<server, granted, progress, invocation, answer>>

-----------------------------------------------------------------------------
(***************************************************************************)
(* The way in.                                                             *)
(***************************************************************************)
Arrive ==
    /\ phase = "up" /\ pc = "idle"
    /\ request' \in Target
    /\ pc' = "arrived"
    /\ UNCHANGED <<server, user, caps, todo, call, body, touched, failure, invocation, answer>>

StatusForCode ==
    [OK |-> 200, BAD_REQUEST |-> 400, UNAUTHORIZED |-> 401, FORBIDDEN |-> 403,
     NOT_FOUND |-> 404, CONFLICT |-> 409, VALIDATION_ERROR |-> 422, RATE_LIMITED |-> 429,
     INTERNAL_ERROR |-> 500, BACKEND_UNAVAILABLE |-> 502, BACKEND_TIMEOUT |-> 504]

\* Mutant of WriteError: every error is an envelope of the backend's.
WriteErrorAsOwn(error) == 400

\* Mutant of WriteError: an error without an envelope gets no status.
WriteErrorUncoded(error) == IF error \in DOMAIN StatusForCode THEN StatusForCode[error] ELSE 0

\* An error without an envelope is an internal error.
WriteError(error) ==
    IF error \in DOMAIN StatusForCode THEN StatusForCode[error] ELSE 500

Reply(status, names) ==
    /\ pc' = "replied"
    /\ reply' = status
    /\ shown' = names

Unauthorized ==
    /\ pc = "arrived"
    /\ Reply(WriteError("UNAUTHORIZED"), {})
    /\ UNCHANGED <<server, user, request, caps, todo, call, body, touched, failure,
                   invocation, offered>>

\* What the resolver may answer: its cache, or what it is told now, less what
\* could not be checked (CapabilityResolver).
Resolved(S) == IF cached # {} THEN S \in cached ELSE S \in Grant /\ S \subseteq granted

ResolveCapabilities ==
    /\ pc = "arrived"
    /\ \E S \in Grant : Resolved(S) /\ caps' = S /\ cached' = {S}
    /\ pc' = "handle"
    /\ UNCHANGED <<server, granted, request, todo, call, body, touched, failure,
                   invocation, answer>>

\* An evaluator may return an error, although the Keto one never does.
ResolutionFails ==
    /\ pc = "arrived" /\ cached = {}
    /\ Reply(WriteError("BACKEND_UNAVAILABLE"), {})
    /\ UNCHANGED <<server, user, request, caps, todo, call, body, touched, failure,
                   invocation, offered>>

\* The handler's deadline, which is set after capabilities are resolved.
DeadlinePasses ==
    /\ pc \in {"handle", "invoke", "calling"}
    /\ Invocation!ContextDone
    /\ UNCHANGED <<server, user, progress, answer>>

-----------------------------------------------------------------------------
(***************************************************************************)
(* Handlers that answer from the registry or the resolver.                 *)
(***************************************************************************)
Handling(routes) == pc = "handle" /\ request.route \in routes

Stay == UNCHANGED <<server, user, request, caps, todo, call, body, touched, failure, invocation>>

\* What a page or a form lets the console do next.
ActionTargets(actions) ==
    UNION {{Named("action", a.id)}
           \cup (IF a.command # << >> THEN {Named("command", a.command)} ELSE {})
           \cup (IF a.form # << >> THEN {Named("form", a.form)} ELSE {}) : a \in actions}

HandleGetPage ==
    /\ Handling({"page"})
    /\ LET access == PageAccess(registry, caps, request.id)
           page == GetPage(caps, registry.pages[request.id])
       IN  IF access = "OK"
           THEN /\ Reply(200, {})
                /\ offered' =
                      [screen |-> ActionTargets(page.actions)
                                  \cup {Named("page_data", page.id) : t \in page.table},
                       rows |-> UNION {ActionTargets(t.rowActions \cup t.bulkActions) :
                                          t \in page.table}]
           ELSE Reply(WriteError(access), {}) /\ UNCHANGED offered
    /\ Stay

DescriptorFields(form) == UNION {{<<f.field>> : f \in ToSet(s)} : s \in ToSet(form.sections)}

HandleGetForm ==
    /\ Handling({"form"})
    /\ LET access == FormAccess(registry, caps, request.id)
           form == GetForm(caps, registry.forms[request.id])
       IN  IF access = "OK"
           THEN /\ Reply(200, DescriptorFields(form))
                /\ offered' = [screen |-> {Named("command", form.submit), Named("form_data", form.id)},
                               rows |-> {}]
           ELSE Reply(WriteError(access), {}) /\ UNCHANGED offered
    /\ Stay

SchemaFields(s) == {<<f.name>> : f \in ToSet(s.sections)} \cup {<<f.name>> : f \in ToSet(s.columns)}

HandleGetSchema ==
    /\ Handling({"schema"})
    /\ LET schemas == GetSchema(registry, request.id)
       IN  \/ schemas = {} /\ Reply(WriteError("NOT_FOUND"), {})
           \/ \E s \in schemas : Reply(200, SchemaFields(s))
    /\ UNCHANGED offered
    /\ Stay

\* The capabilities are resolved once more, and an error of that is plain.
HandleCapabilities ==
    /\ Handling({"capabilities", "batch_check"})
    /\ \/ ~request.wellFormed /\ Reply(WriteError("BAD_REQUEST"), {}) /\ UNCHANGED cached
       \/ request.wellFormed /\ cached = {} /\ Reply(WriteError("resolve"), {}) /\ UNCHANGED cached
       \/ /\ request.wellFormed
          /\ \E S \in Grant :
                /\ Resolved(S) /\ cached' = {S}
                /\ Reply(200, IF request.route = "capabilities" THEN S
                              ELSE {p \in UNION {c.permissions : c \in request.checks} :
                                       \E c \in request.checks :
                                          p \in c.permissions /\ (Has(S, p) \/ Has(S, c.namespace \o p))})
    /\ UNCHANGED <<server, granted, request, caps, todo, call, body, touched, failure,
                   invocation, offered>>

-----------------------------------------------------------------------------
(***************************************************************************)
(* Handlers that plan the invocation of an operation.                      *)
(***************************************************************************)
Follow(plan) ==
    /\ \/ /\ plan.code = "CALL"
          /\ pc' = "invoke" /\ todo' = {plan.binding} /\ body' = plan.body
          /\ UNCHANGED <<reply, shown>>
       \/ /\ plan.code # "CALL"
          /\ Reply(WriteError(plan.code), {})
          /\ UNCHANGED <<todo, body>>
    /\ UNCHANGED <<server, user, request, caps, call, touched, failure, invocation, offered>>

HandleGetPageData ==
    Handling({"page_data"}) /\ Follow(GetPageData(registry, caps, request.id))

HandleGetFormData ==
    Handling({"form_data"}) /\ Follow(GetFormData(registry, caps, request.id))

HandleGetResource ==
    /\ Handling({"resource"})
    /\ \E plan \in GetResourceList(registry, caps, request.id) : Follow(plan)

HandleGetResourceItem ==
    /\ Handling({"resource_item"})
    /\ \E plan \in GetResourceItem(registry, index, caps, request.id) : Follow(plan)

HandleCommand ==
    /\ Handling({"command"})
    /\ Follow(IF request.wellFormed
              THEN Execute(registry, index, caps, request.id, request.input, request.params)
              ELSE Refuse("BAD_REQUEST"))

\* The first action of a domain's pages that has the id, if there is one.
FirstAction(d, id) ==
    LET Action(p) == SelectInSeq(p.actions, LAMBDA a : a.id = id)
        n == SelectInSeq(d.pages, LAMBDA p : Action(p) # 0)
    IN  IF n = 0 THEN {} ELSE {d.pages[n].actions[Action(d.pages[n])]}

\* Whichever domain has one may be found first.  Those of table rows are not
\* among them.
ActionsNamed(id) == UNION {FirstAction(d, id) : d \in AllDomains(registry)}

\* Only "command" does anything here, and without any route parameters; the
\* other types are for the console to carry out.
HandleAction ==
    /\ Handling({"action"})
    /\ LET actions == ActionsNamed(request.id)
       IN  \/ ~request.wellFormed /\ Follow(Refuse("BAD_REQUEST"))
           \/ request.wellFormed /\ actions = {} /\ Follow(Refuse("NOT_FOUND"))
           \/ request.wellFormed /\ \E a \in actions :
                 Follow(IF a.type # "command" THEN Refuse("OK")
                        ELSE IF a.command = << >> THEN Refuse("BAD_REQUEST")
                        ELSE Execute(registry, index, caps, a.command, request.input, << >>))

HandleNavigation ==
    /\ Handling({"navigation"})
    /\ pc' = "invoke"
    /\ todo' = Badges(registry, caps)
    /\ UNCHANGED <<server, user, request, caps, call, body, touched, failure, invocation, answer>>

\* Uploads and downloads are handed on to the service of files.  Without one
\* they are bad requests.
FileBinding == [NoBinding EXCEPT !.service = <<"files", "svc">>]

HandleProxy ==
    /\ Handling({"upload", "download"})
    /\ IF FileBinding.service \in Deployment[deployed].services
       THEN pc' = "calling" /\ call' = FileBinding /\ UNCHANGED <<failure, reply, shown>>
       ELSE /\ Reply(WriteError("BAD_REQUEST"), {})
            /\ failure' = "files_unconfigured"
            /\ UNCHANGED call
    /\ UNCHANGED <<server, user, request, caps, todo, body, touched, invocation, offered>>

-----------------------------------------------------------------------------
(***************************************************************************)
(* Invocations.                                                            *)
(***************************************************************************)

\* The invoker registry and the invokers: an operation that is indexed, of a
\* service that is configured.  main registers no SDK handler.
Invocable(b) ==
    /\ b.type = "openapi"
    /\ HasOperation(index, b.service, b.operation)
    /\ b.service \in Deployment[deployed].services

\* Mutant of InvocationFails: a badge that cannot be had fails the menu.
InvocationFailsMenuToo(error) ==
    /\ failure' = error
    /\ Reply(WriteError(error), {})

\* An error without any answer: a menu does without the badge.
InvocationFails(error) ==
    /\ failure' = error
    /\ IF request.route = "navigation"
       THEN pc' = "invoke" /\ UNCHANGED <<reply, shown>>
       ELSE Reply(WriteError(error), {})

\* Mutant of Invoke: a binding that cannot be invoked is kept for later.
InvokeKeeping ==
    /\ pc = "invoke"
    /\ \E b \in todo :
          /\ todo' = IF Invocable(b) THEN todo \ {b} ELSE todo
          /\ call' = b
          /\ \/ Invocable(b) /\ pc' = "calling" /\ UNCHANGED <<failure, reply, shown>>
             \/ ~Invocable(b) /\ InvocationFails("no_operation")
    /\ sent' = FALSE /\ done' = FALSE /\ outcome' = "none"
    /\ UNCHANGED <<server, user, request, caps, body, touched, over, offered>>

Invoke ==
    /\ pc = "invoke"
    /\ \E b \in todo :
          /\ todo' = todo \ {b} /\ call' = b
          /\ \/ Invocable(b) /\ pc' = "calling" /\ UNCHANGED <<failure, reply, shown>>
             \/ ~Invocable(b) /\ InvocationFails("no_operation")
    /\ sent' = FALSE /\ done' = FALSE /\ outcome' = "none"
    /\ UNCHANGED <<server, user, request, caps, body, touched, over, offered>>

SendRequest ==
    /\ pc = "calling"
    /\ Invocation!Send
    /\ touched' = touched \cup {call}
    /\ UNCHANGED <<server, user, request, pc, caps, todo, call, body, failure, answer>>

\* The backend, at any time after that, even when nobody waits any more.
CarryOut ==
    /\ Invocation!CarryOut
    /\ UNCHANGED <<server, user, progress, answer>>

CallFails ==
    /\ pc = "calling" /\ request.route \notin {"upload", "download"}
    /\ \E error \in Invocation!Error : Invocation!Return(error) /\ InvocationFails(error)
    /\ UNCHANGED <<server, user, request, caps, todo, call, body, touched, offered>>

\* Whatever goes wrong with the service of files is its being unavailable.
ProxyFails ==
    /\ pc = "calling" /\ request.route \in {"upload", "download"}
    /\ \E error \in Invocation!Error :
          Invocation!Return(error) /\ InvocationFails("BACKEND_UNAVAILABLE")
    /\ UNCHANGED <<server, user, request, caps, todo, call, body, touched, offered>>

(***************************************************************************)
(* What the handler makes of an answer, per route.                         *)
(***************************************************************************)
Answered(status) ==
    /\ pc = "calling"
    /\ Invocation!Return(status)
    /\ UNCHANGED <<server, user, request, caps, todo, call, body, touched, failure, offered>>

ItemNames(items) == UNION {{<<k>> : k \in DOMAIN i} : i \in ToSet(items)}

TableMapping == PageSource(registry.pages[request.id]).mapping

\* A list is mapped as its page says, which for a resource is the page found.
DataArrives ==
    /\ request.route \in {"page_data", "resource"}
    /\ \E s \in Invocation!Status, b \in Body :
          /\ Answered(s)
          /\ LET mappings == IF request.route = "page_data" THEN {TableMapping}
                             ELSE {PageSource(p).mapping : p \in ListPages(registry, request.id)}
             IN  \E m \in mappings : \E data \in ApplyResponseMapping(b, m) :
                    Reply(200, ItemNames(data.items))

FormDataArrives ==
    /\ request.route = "form_data"
    /\ \E s \in Invocation!Status, b \in Body :
          /\ Answered(s)
          /\ LET form == registry.forms[request.id]
                 source == CHOOSE x \in form.loadSource : TRUE
             IN  \E data \in FormData(form, source, b) : Reply(200, {<<k>> : k \in DOMAIN data})

ItemArrives ==
    /\ request.route = "resource_item"
    /\ \E s \in Invocation!Status, b \in Body :
          /\ Answered(s)
          /\ Reply(200, IF b.object THEN {<<k>> : k \in DOMAIN b.fields} ELSE {})

\* The commands a request may have come to: its own, or an action's.
CommandsOf(target) ==
    {registry.commands[id] : id \in
        (IF target.route = "command" THEN {target.id}
         ELSE {a.command : a \in ActionsNamed(target.id)}) \cap DOMAIN registry.commands}

CommandCompletes ==
    /\ request.route \in {"command", "action"}
    /\ \E s \in Invocation!Status, b \in Body :
          /\ Answered(s)
          /\ \E c \in CommandsOf(request) :
                /\ c.operation = call
                /\ Reply(WriteError(HandleResponse(s)),
                         IF s = "success" THEN {<<k>> : k \in OutputFields(c.output, b)} ELSE {})

\* A badge is shown under the name of its operation.
BadgeArrives ==
    /\ request.route = "navigation"
    /\ \E s \in Invocation!Status, b \in Body :
          /\ Answered(s)
          /\ \E d \in MenuDomains(registry, caps) : \E c \in MenuChildren(caps, d) :
                \E badge \in c.badge :
                   /\ BadgeBinding(d, c) = call
                   /\ shown' = IF BadgeCount(b, badge.field) = {} THEN shown
                               ELSE shown \cup {badge.operation}
    /\ pc' = "invoke"
    /\ UNCHANGED reply

MenuComplete ==
    /\ pc = "invoke" /\ todo = {}
    /\ Reply(200, shown)
    /\ Stay /\ UNCHANGED offered

\* The backend's own status is handed on.
ProxyStatus == [success |-> 200, final |-> 404, unavailable |-> 503]

ProxyAnswers ==
    /\ request.route \in {"upload", "download"}
    /\ \E s \in Invocation!Status : Answered(s) /\ Reply(ProxyStatus[s], {})

\* The answer is out; what is on the screen stays until the next page.
NextRequest ==
    /\ pc = "replied"
    /\ request' = NoTarget /\ pc' = "idle" /\ caps' = {} /\ todo' = {} /\ call' = NoBinding
    /\ body' = << >> /\ touched' = {} /\ failure' = "none"
    /\ over' = FALSE /\ sent' = FALSE /\ done' = FALSE /\ outcome' = "none"
    /\ reply' = 0 /\ shown' = {}
    /\ UNCHANGED <<server, user, offered>>

-----------------------------------------------------------------------------
Handle ==
    \/ HandleGetPage \/ HandleGetForm \/ HandleGetSchema \/ HandleCapabilities
    \/ HandleGetPageData \/ HandleGetFormData \/ HandleGetResource \/ HandleGetResourceItem
    \/ HandleCommand \/ HandleAction \/ HandleNavigation \/ HandleProxy

CallReturns ==
    \/ CallFails \/ ProxyFails
    \/ DataArrives \/ FormDataArrives \/ ItemArrives \/ CommandCompletes \/ BadgeArrives
    \/ ProxyAnswers

Serve ==
    \/ Unauthorized \/ ResolveCapabilities \/ ResolutionFails
    \/ Handle \/ Invoke \/ CallReturns \/ MenuComplete

\* The process has ended.
Stopped == phase = "fatal" /\ UNCHANGED vars

Next ==
    \/ Boot \/ Administer \/ CacheExpires
    \/ Arrive \/ Serve \/ DeadlinePasses \/ SendRequest \/ CarryOut \/ NextRequest
    \/ Stopped

Spec == Init /\ [][Next]_vars

(***************************************************************************)
(* The server is scheduled: capabilities are resolved (CapabilityResolver, *)
(* EveryCallReturns), an operation returns (OperationInvoker, CallReturns),*)
(* and what is handed on to the service of files ends with the deadline.   *)
(* Nothing is assumed of the console, the authority or the backends.       *)
(***************************************************************************)
FairSpec == Spec /\ WF_vars(Boot) /\ WF_vars(Serve)

-----------------------------------------------------------------------------
(***************************************************************************)
(* The types, and that a status is written exactly when a request ends.    *)
(***************************************************************************)
TypeOK ==
    /\ deployed \in DOMAIN Deployment
    /\ phase \in {"booting", "up", "fatal"}
    /\ granted \in Grant /\ caps \in Grant \cup {{}}
    /\ cached \in {{}} \cup {{S} : S \in Grant}
    /\ request \in Target \cup {NoTarget}
    /\ pc \in {"idle", "arrived", "handle", "invoke", "calling", "replied"}
    /\ over \in BOOLEAN /\ sent \in BOOLEAN /\ done \in BOOLEAN
    /\ outcome \in {"none"} \cup Invocation!Status \cup Invocation!Error
    /\ \A b \in todo \cup touched \cup {call} : DOMAIN b = DOMAIN NoBinding
    /\ reply \in {0, 200, 400, 401, 403, 404, 422, 500, 502, 503, 504}
    /\ pc = "replied" <=> reply # 0

(***************************************************************************)
(* Every operation a request reaches is one that some definition binds     *)
(* behind capabilities the user was resolved to have: a page's source      *)
(* and the getter that goes with it, a form's source, a command's          *)
(* operation, a badge.  No route, action or resource type leads around     *)
(* them.                                                                   *)
(***************************************************************************)
DomainsLoaded == ToSet(DefinitionsOf[deployed])

\* A page leads to its source, and to getters of what its domain or it is about.
PageLeadsTo(d, p, b) ==
    \E t \in p.table :
        \/ SourceBinding(t.source) = b
        \/ /\ t.source.service = b.service
           /\ b.operation \in GetOperation(index, b.service, d.name)
                              \cup GetOperation(index, b.service, <<p.id[1]>>)

Entitling(b) ==
    UNION {{p.caps : p \in {q \in ToSet(d.pages) : PageLeadsTo(d, q, b)}}
           \cup {f.caps : f \in {g \in ToSet(d.forms) :
                                    \E s \in g.loadSource : SourceBinding(s) = b}}
           \cup {c.caps : c \in {e \in ToSet(d.commands) : e.operation = b}}
           \cup {d.caps \cup h.caps : h \in {g \in ToSet(d.children) :
                                                g.badge # {} /\ BadgeBinding(d, g) = b}} :
              d \in DomainsLoaded}

CallsAreEntitled ==
    \A b \in touched \ {FileBinding} : \E needed \in Entitling(b) : HasAll(caps, needed)

(***************************************************************************)
(* A console that is told that it may not, that there is no such thing, or *)
(* that a field is missing may count on no backend having heard of the     *)
(* request.  Files are the exception: their service's status is relayed.   *)
(***************************************************************************)
RefusedMeansUntouched ==
    reply \in {401, 403, 404, 422} /\ request.route \notin {"upload", "download"} => touched = {}

(***************************************************************************)
(* What the page or the form on the screen leads to exists: following the  *)
(* page's own actions, its data or the form's submission never ends in a   *)
(* 404, because the validator lets no dangling reference through.  The     *)
(* actions of the page's table, which the validator does not look at, are  *)
(* left to RowOffersAreHonoured.                                           *)
(***************************************************************************)
OffersAreHonoured == reply = 404 => Named(request.route, request.id) \notin offered.screen

(***************************************************************************)
(* README.md, on the routes: "POST /ui/actions/{actionId}: Execute a       *)
(* declared action."  The actions of table rows, and those for several     *)
(* rows, are declared and are shown to the console with the page.          *)
(***************************************************************************)
RowOffersAreHonoured == reply = 404 => Named(request.route, request.id) \notin offered.rows

(***************************************************************************)
(* What a command or an action sends has the fields that the operation's   *)
(* description requires.                                                   *)
(***************************************************************************)
NothingIncompleteIsSent ==
    request.route \in {"command", "action"} =>
        \A b \in touched : LET o == index[<<b.service, b.operation>>]
                           IN  o.body => o.required \subseteq DOMAIN body

(***************************************************************************)
(* The dry run tells how the executor will decide.  Once a command is past *)
(* authentication and the resolution of capabilities: what the dry run     *)
(* finds fault with is answered with that fault, and no backend hears of   *)
(* it; what it approves has its operation invoked.  An approval does not   *)
(* promise that there is a backend to reach: an operation without a        *)
(* service, with an SDK handler or of a service without an address passes  *)
(* the dry run and ends in a 500 with no backend touched.                  *)
(***************************************************************************)
StatusOfFinding == [NOT_FOUND |-> 404, FORBIDDEN |-> 403, MAPPING_ERROR |-> 400, INVALID |-> 422]

TurnedAwayAtTheDoor == call = NoBinding /\ reply \in {401, 502}

DryRunPredicts ==
    LET found == DryRun(registry, index, caps, request.id, request.input, request.params)
    IN  /\ request.route = "command" /\ request.wellFormed
        /\ pc \in {"calling", "replied"} /\ ~TurnedAwayAtTheDoor
        =>  \/ /\ \E f \in found : reply = StatusOfFinding[f]
               /\ call = NoBinding /\ touched = {}
            \/ /\ found = {}
               /\ call = registry.commands[request.id].operation
               /\ ~Invocable(call) => reply = 500 /\ touched = {}

(***************************************************************************)
(* The console hears of a success only of what the backend has carried     *)
(* out.                                                                    *)
(***************************************************************************)
SuccessMeansDone ==
    /\ reply = 200 /\ request.route \in {"command", "action", "upload"}
    /\ call # NoBinding
    => done

(***************************************************************************)
(* An operation that cannot be invoked, cannot be reached or does not      *)
(* answer in time is reported as the server's failure and never as a fault *)
(* of the request; a fault of the request that comes after an invocation   *)
(* is an answer of the backend's own.  The code makes two exceptions: a    *)
(* service of files that is not configured is a 400, and so is any answer  *)
(* to a command that is not a success, those of a backend that failed      *)
(* included.                                                               *)
(***************************************************************************)
FailuresAreOwned ==
    /\ reply # 0 /\ failure # "none" /\ request.route # "navigation"
       => reply >= 500 \/ (reply = 400 /\ failure = "files_unconfigured")
    /\ reply \in 400..499 /\ call # NoBinding
       => /\ outcome \in Invocation!Status \ {"success"}
          /\ request.route \in {"command", "action", "upload", "download"}

(***************************************************************************)
(* The menu comes up whatever becomes of the badges, with nothing in it    *)
(* but badges of children the user may see.                                *)
(***************************************************************************)
MenuSurvivesBackends ==
    request.route = "navigation" =>
        /\ reply # 0 /\ call # NoBinding => reply = 200
        /\ shown \subseteq {b.operation : b \in Badges(registry, caps)}

(***************************************************************************)
(* Form data never has a name that is not a field of the form's            *)
(* definition, whatever the backend sends and however it is renamed.  The  *)
(* fields are those of all sections, as in collectFormFields: hidden ones  *)
(* and those of sections that the caller is not shown are among them, and  *)
(* this does not say, as comments of form.go do, that the data is of the   *)
(* fields of the descriptor.                                               *)
(***************************************************************************)
FormDataIsOfForm ==
    request.route = "form_data" /\ reply = 200 =>
        shown \subseteq {<<f>> : f \in FormFields(registry.forms[request.id])}

(***************************************************************************)
(* Every request is answered, though backends may never be heard of.       *)
(***************************************************************************)
EveryRequestAnswered == pc = "arrived" ~> pc = "replied"
=============================================================================
