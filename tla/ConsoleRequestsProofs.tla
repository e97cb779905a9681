------------------------ MODULE ConsoleRequestsProofs ------------------------
(***************************************************************************)
(* Theorems about ConsoleRequests, for any deployment, any requests and    *)
(* whatever the backends answer.                                           *)
(***************************************************************************)
EXTENDS ConsoleRequests, FiniteSetTheorems, WellFoundedInduction, TLAPS

-----------------------------------------------------------------------------
(***************************************************************************)
(* What is found in a list.                                                *)
(***************************************************************************)
LEMMA Least ==
    ASSUME NEW I \in SUBSET Nat, I # {}
    PROVE  /\ Min(I) \in I
           /\ \A i \in I : Min(I) <= i
<1>1. PICK k \in I : \A i \in I : ~(<<i, k>> \in OpToRel(<, Nat))
  BY NatLessThanWellFounded, WFMin
<1>2. ASSUME NEW i \in I PROVE ~(i < k)
  <2>1. <<i, k>> \in Nat \X Nat /\ <<i, k>>[1] = i /\ <<i, k>>[2] = k
    OBVIOUS
  <2>2. <<i, k>> \notin {ss \in Nat \X Nat : ss[1] < ss[2]}
    BY <1>1, Zenon DEF OpToRel
  <2> QED BY <2>1, <2>2
<1>3. \A i \in I : k <= i
  BY <1>2
<1>4. \E x \in I : \A y \in I : x <= y
  BY <1>3
<1> QED BY <1>4 DEF Min

LEMMA Greatest ==
    ASSUME NEW n \in Nat, NEW I \in SUBSET 1..n, I # {}
    PROVE  /\ Max(I) \in I
           /\ \A i \in I : Max(I) >= i
<1> DEFINE J == {n - i : i \in I}
<1>1. J \in SUBSET Nat /\ J # {}
  <2>1. \A i \in I : n - i \in Nat
    OBVIOUS
  <2> QED BY <2>1
<1>2. Min(J) \in J /\ \A j \in J : Min(J) <= j
  BY <1>1, Least
<1>3. PICK k \in I : Min(J) = n - k
  BY <1>2
<1>4. ASSUME NEW i \in I PROVE k >= i
  <2>1. n - i \in J
    OBVIOUS
  <2>2. n - k <= n - i
    BY <1>2, <1>3, <2>1
  <2>3. i \in Nat /\ k \in Nat
    OBVIOUS
  <2> QED BY <2>2, <2>3
<1> QED BY <1>4 DEF Max

\* The registry has every definition of every file, and nothing else.
LEMMA ByIdFinds ==
    ASSUME NEW lists, NEW n \in Nat, DOMAIN lists = 1..n,
           \A m \in 1..n : lists[m] \in Seq(ToSet(lists[m]))
    PROVE  /\ DOMAIN ById(lists) = UNION {IDs(lists[m]) : m \in 1..n}
           /\ \A i \in DOMAIN ById(lists) :
                 \E m \in 1..n : ById(lists)[i] \in ToSet(lists[m]) /\ ById(lists)[i].id = i
<1> DEFINE Held(i) == {m \in 1..n : i \in IDs(lists[m])}
           Latest(i) == lists[Max(Held(i))]
           At(i) == {k \in 1..Len(Latest(i)) : Latest(i)[k].id = i}
<1>1. ById(lists) = [i \in UNION {IDs(lists[m]) : m \in 1..n} |->
                       Latest(i)[IF At(i) # {} THEN Max(At(i)) ELSE 0]]
  BY DEF ById, SelectLastInSeq
<1>2. ASSUME NEW i \in UNION {IDs(lists[m]) : m \in 1..n}
      PROVE  \E m \in 1..n : ById(lists)[i] \in ToSet(lists[m]) /\ ById(lists)[i].id = i
  <2>1. Held(i) \in SUBSET 1..n /\ Held(i) # {}
    OBVIOUS
  <2>2. Max(Held(i)) \in Held(i)
    BY <2>1, Greatest
  <2>3. PICK m \in 1..n : Latest(i) = lists[m] /\ i \in IDs(lists[m])
    BY <2>2
  <2>4. Len(lists[m]) \in Nat /\ DOMAIN lists[m] = 1..Len(lists[m])
    OBVIOUS
  <2>5. At(i) \in SUBSET 1..Len(lists[m]) /\ At(i) # {}
    BY <2>3, <2>4 DEF IDs, ToSet
  <2>6. Max(At(i)) \in At(i)
    BY <2>4, <2>5, Greatest
  <2>7. ById(lists)[i] = lists[m][Max(At(i))]
    BY <1>1, <2>3, <2>5
  <2> QED BY <2>3, <2>4, <2>6, <2>7 DEF ToSet
<1> QED BY <1>1, <1>2

-----------------------------------------------------------------------------
(***************************************************************************)
(* The registry and the index of a deployment.                             *)
(***************************************************************************)
LEMMA ListsHold ==
    ASSUME NEW list, list \in Seq(ToSet(list)), NEW i, i # 0,
           NEW Found, Found \subseteq 1..Len(list),
           i = (IF Found # {} THEN Max(Found) ELSE 0) \/ i = (IF Found # {} THEN Min(Found) ELSE 0)
    PROVE  i \in Found /\ list[i] \in ToSet(list)
<1>1. Len(list) \in Nat /\ DOMAIN list = 1..Len(list)
  OBVIOUS
<1>2. Found # {}
  OBVIOUS
<1>3. Max(Found) \in Found
  BY <1>1, <1>2, Greatest
<1>4. Found \in SUBSET Nat
  BY <1>1
<1>5. Min(Found) \in Found
  BY <1>2, <1>4, Least
<1> QED BY <1>1, <1>2, <1>3, <1>5 DEF ToSet

(***************************************************************************)
(* NewRegistry makes nothing up: each domain, and each page, form and      *)
(* command found under an id, stands in a definition that was loaded, in   *)
(* whatever order the files come and whichever of them use an id twice.    *)
(***************************************************************************)
THEOREM RegistryHolds ==
    ASSUME NEW defs, defs \in Seq(ToSet(defs)),
           \A x \in ToSet(defs) :
              /\ x.pages \in Seq(ToSet(x.pages)) /\ x.forms \in Seq(ToSet(x.forms))
              /\ x.commands \in Seq(ToSet(x.commands))
    PROVE  LET r == NewRegistry(defs)
           IN  /\ AllDomains(r) \subseteq ToSet(defs)
               /\ \A i \in DOMAIN r.pages : \E x \in ToSet(defs) : r.pages[i] \in ToSet(x.pages)
               /\ \A i \in DOMAIN r.forms : \E x \in ToSet(defs) : r.forms[i] \in ToSet(x.forms)
               /\ \A i \in DOMAIN r.commands : \E x \in ToSet(defs) : r.commands[i] \in ToSet(x.commands)
<1> DEFINE n == Len(defs)
           r == NewRegistry(defs)
           pages == [m \in DOMAIN defs |-> defs[m].pages]
           forms == [m \in DOMAIN defs |-> defs[m].forms]
           commands == [m \in DOMAIN defs |-> defs[m].commands]
           names == {x.name : x \in ToSet(defs)}
           of(name) == {m \in 1..n : defs[m].name = name}
<1>1. n \in Nat /\ DOMAIN defs = 1..n /\ \A m \in 1..n : defs[m] \in ToSet(defs)
  BY DEF ToSet
<1>2. /\ r.pages = ById(pages) /\ r.forms = ById(forms) /\ r.commands = ById(commands)
  BY DEF NewRegistry
<1>3. r.domains = [name \in names |-> defs[IF of(name) # {} THEN Max(of(name)) ELSE 0]]
  BY DEF NewRegistry, SelectLastInSeq
<1>4. \A i \in DOMAIN r.pages : \E x \in ToSet(defs) : r.pages[i] \in ToSet(x.pages)
  <2>1. DOMAIN pages = 1..n /\ \A m \in 1..n : pages[m] \in Seq(ToSet(pages[m]))
    BY <1>1
  <2>2. \A i \in DOMAIN ById(pages) : \E m \in 1..n : ById(pages)[i] \in ToSet(pages[m])
    BY <1>1, <2>1, ByIdFinds
  <2> QED BY <1>1, <1>2, <2>2
<1>5. \A i \in DOMAIN r.forms : \E x \in ToSet(defs) : r.forms[i] \in ToSet(x.forms)
  <2>1. DOMAIN forms = 1..n /\ \A m \in 1..n : forms[m] \in Seq(ToSet(forms[m]))
    BY <1>1
  <2>2. \A i \in DOMAIN ById(forms) : \E m \in 1..n : ById(forms)[i] \in ToSet(forms[m])
    BY <1>1, <2>1, ByIdFinds
  <2> QED BY <1>1, <1>2, <2>2
<1>6. \A i \in DOMAIN r.commands : \E x \in ToSet(defs) : r.commands[i] \in ToSet(x.commands)
  <2>1. DOMAIN commands = 1..n /\ \A m \in 1..n : commands[m] \in Seq(ToSet(commands[m]))
    BY <1>1
  <2>2. \A i \in DOMAIN ById(commands) : \E m \in 1..n : ById(commands)[i] \in ToSet(commands[m])
    BY <1>1, <2>1, ByIdFinds
  <2> QED BY <1>1, <1>2, <2>2
<1>7. ASSUME NEW name \in names PROVE r.domains[name] \in ToSet(defs)
  <2>1. of(name) # {} /\ of(name) \in SUBSET 1..n
    BY <1>1 DEF ToSet
  <2>2. Max(of(name)) \in of(name)
    BY <1>1, <2>1, Greatest
  <2> QED BY <1>1, <1>3, <2>1, <2>2
<1>8. AllDomains(r) \subseteq ToSet(defs)
  <2> HIDE DEF r, names, of
  <2>1. DOMAIN r.domains = names
    BY <1>3
  <2> QED BY <1>7, <2>1 DEF AllDomains
<1> QED BY <1>4, <1>5, <1>6, <1>8

\* What the invariant says of the bindings of a request: somebody's
\* definition leads to them, and the user holds what that asks for.
HeldFor(b) == \E needed \in Entitling(b) : HasAll(caps, needed)

LEMMA Loaded ==
    ASSUME deployed \in DOMAIN Deployment
    PROVE  /\ AllDomains(registry) \subseteq DomainsLoaded
           /\ \A i \in DOMAIN registry.pages : \E x \in DomainsLoaded : registry.pages[i] \in ToSet(x.pages)
           /\ \A i \in DOMAIN registry.forms : \E x \in DomainsLoaded : registry.forms[i] \in ToSet(x.forms)
           /\ \A i \in DOMAIN registry.commands :
                 \E x \in DomainsLoaded : registry.commands[i] \in ToSet(x.commands)
           /\ \A x \in DomainsLoaded :
                 /\ x.pages \in Seq(ToSet(x.pages))
                 /\ \A c \in ToSet(x.children) : \A a, b \in c.badge : a = b
                 /\ \A c \in ToSet(x.commands) : DOMAIN c.operation = DOMAIN NoBinding
<1> DEFINE defs == LoadAll(Deployment[deployed].files)
<1>1. DefinitionsOf[deployed] = defs /\ registry = NewRegistry(defs) /\ DomainsLoaded = ToSet(defs)
  BY DEF DefinitionsOf, registry, RegistryOf, DomainsLoaded
<1>2. /\ defs \in Seq(ToSet(defs))
      /\ \A x \in ToSet(defs) :
            /\ x.pages \in Seq(ToSet(x.pages)) /\ x.forms \in Seq(ToSet(x.forms))
            /\ x.commands \in Seq(ToSet(x.commands))
            /\ \A c \in ToSet(x.children) : \A a, b \in c.badge : a = b
            /\ \A c \in ToSet(x.commands) : DOMAIN c.operation = DOMAIN NoBinding
  BY FilesAssumption
<1> HIDE DEF defs
<1>3. /\ AllDomains(NewRegistry(defs)) \subseteq ToSet(defs)
      /\ \A i \in DOMAIN NewRegistry(defs).pages :
            \E x \in ToSet(defs) : NewRegistry(defs).pages[i] \in ToSet(x.pages)
      /\ \A i \in DOMAIN NewRegistry(defs).forms :
            \E x \in ToSet(defs) : NewRegistry(defs).forms[i] \in ToSet(x.forms)
      /\ \A i \in DOMAIN NewRegistry(defs).commands :
            \E x \in ToSet(defs) : NewRegistry(defs).commands[i] \in ToSet(x.commands)
  BY <1>2, RegistryHolds
<1> QED BY <1>1, <1>2, <1>3

LEMMA HeldByPage ==
    ASSUME NEW d \in DomainsLoaded, NEW p \in ToSet(d.pages), HasAll(caps, p.caps), NEW t \in p.table
    PROVE  /\ HeldFor(SourceBinding(t.source))
           /\ \A o \in GetOperation(index, t.source.service, d.name)
                       \cup GetOperation(index, t.source.service, <<p.id[1]>>) :
                 HeldFor([NoBinding EXCEPT !.type = "openapi", !.service = t.source.service,
                                           !.operation = o])
<1>1. ASSUME NEW b, \/ SourceBinding(t.source) = b
                    \/ /\ t.source.service = b.service
                       /\ b.operation \in GetOperation(index, b.service, d.name)
                                          \cup GetOperation(index, b.service, <<p.id[1]>>)
      PROVE  HeldFor(b)
  <2>1. PageLeadsTo(d, p, b)
    BY <1>1 DEF PageLeadsTo
  <2>2. p.caps \in Entitling(b)
    BY <2>1 DEF Entitling
  <2> QED BY <2>2 DEF HeldFor
<1>2. HeldFor(SourceBinding(t.source))
  BY <1>1
<1>3. ASSUME NEW o \in GetOperation(index, t.source.service, d.name)
                       \cup GetOperation(index, t.source.service, <<p.id[1]>>)
      PROVE  HeldFor([NoBinding EXCEPT !.type = "openapi", !.service = t.source.service,
                                       !.operation = o])
  <2> DEFINE b == [NoBinding EXCEPT !.type = "openapi", !.service = t.source.service,
                                    !.operation = o]
  <2>1. b.service = t.source.service /\ b.operation = o
    BY DEF NoBinding
  <2> HIDE DEF b
  <2>2. HeldFor(b)
    BY <1>1, <2>1
  <2> QED BY <2>2 DEF b
<1> QED BY <1>2, <1>3

LEMMA HeldByForm ==
    ASSUME NEW d \in DomainsLoaded, NEW f \in ToSet(d.forms), HasAll(caps, f.caps),
           NEW s \in f.loadSource
    PROVE  HeldFor(SourceBinding(s))
<1>1. f.caps \in Entitling(SourceBinding(s))
  BY DEF Entitling
<1> QED BY <1>1 DEF HeldFor

LEMMA HeldByCommand ==
    ASSUME NEW d \in DomainsLoaded, NEW c \in ToSet(d.commands), HasAll(caps, c.caps)
    PROVE  HeldFor(c.operation)
<1>1. c.caps \in Entitling(c.operation)
  BY DEF Entitling
<1> QED BY <1>1 DEF HeldFor

LEMMA HeldByBadge ==
    ASSUME NEW d \in DomainsLoaded, HasAll(caps, d.caps),
           NEW c \in ToSet(d.children), HasAll(caps, c.caps), c.badge # {}
    PROVE  HeldFor(BadgeBinding(d, c))
<1>1. d.caps \cup c.caps \in Entitling(BadgeBinding(d, c))
  BY DEF Entitling
<1>2. HasAll(caps, d.caps \cup c.caps)
  BY DEF HasAll
<1> QED BY <1>1, <1>2 DEF HeldFor

-----------------------------------------------------------------------------
(***************************************************************************)
(* The plans of the handlers: each invokes what the user is entitled to.   *)
(***************************************************************************)
IsBinding(b) == DOMAIN b = DOMAIN NoBinding

Code == {"NOT_FOUND", "FORBIDDEN", "BAD_REQUEST", "VALIDATION_ERROR", "OK", "CALL"}

Sound(plan) ==
    /\ plan.code \in Code
    /\ plan.code = "CALL" => HeldFor(plan.binding) /\ IsBinding(plan.binding)

Complete(b, sent_body) ==
    LET o == index[<<b.service, b.operation>>] IN o.body => o.required \subseteq DOMAIN sent_body

LEMMA RefusalSound ==
    ASSUME NEW code \in Code \ {"CALL"}
    PROVE  Sound(Refuse(code)) /\ Refuse(code).code # "CALL"
  BY DEF Sound, Refuse

LEMMA CallSound ==
    ASSUME NEW b, NEW sent_body, HeldFor(b), IsBinding(b)
    PROVE  Sound(Call(b, sent_body))
  BY DEF Sound, Call, Code

LEMMA BindingShapes ==
    /\ \A s : IsBinding(SourceBinding(s))
    /\ \A d, c : IsBinding(BadgeBinding(d, c))
    /\ IsBinding(NoBinding) /\ IsBinding(FileBinding)
  BY DEF IsBinding, NoBinding, SourceBinding, BadgeBinding, FileBinding

LEMMA AccessCodes ==
    ASSUME NEW known, NEW needed
    PROVE  /\ Access(known, caps, needed) \in {"NOT_FOUND", "FORBIDDEN", "OK"}
           /\ Access(known, caps, needed) = "OK" => known /\ HasAll(caps, needed)
  BY DEF Access

LEMMA PageDataSound ==
    ASSUME deployed \in DOMAIN Deployment, NEW id
    PROVE  Sound(GetPageData(registry, caps, id))
<1> DEFINE access == PageAccess(registry, caps, id)
           p == registry.pages[id]
           t == CHOOSE u \in p.table : TRUE
<1>1. /\ access \in {"NOT_FOUND", "FORBIDDEN", "OK"}
      /\ access = "OK" => id \in DOMAIN registry.pages /\ HasAll(caps, p.caps)
  BY AccessCodes DEF PageAccess
<1>2. GetPageData(registry, caps, id) =
          IF access # "OK" THEN Refuse(access)
          ELSE IF p.table = {} THEN Refuse("BAD_REQUEST") ELSE Call(SourceBinding(t.source), << >>)
  BY DEF GetPageData
<1>3. CASE access # "OK" \/ p.table = {}
  BY <1>1, <1>2, <1>3, RefusalSound DEF Code
<1>4. CASE access = "OK" /\ p.table # {}
  <2>1. PICK d \in DomainsLoaded : p \in ToSet(d.pages)
    BY <1>1, <1>4, Loaded
  <2>2. t \in p.table
    BY <1>4
  <2> HIDE DEF access, p, t
  <2>3. HeldFor(SourceBinding(t.source)) /\ IsBinding(SourceBinding(t.source))
    BY <1>1, <1>4, <2>1, <2>2, HeldByPage, BindingShapes
  <2> QED BY <1>2, <1>4, <2>3, CallSound
<1> QED BY <1>3, <1>4

LEMMA FormDataSound ==
    ASSUME deployed \in DOMAIN Deployment, NEW id
    PROVE  Sound(GetFormData(registry, caps, id))
<1> DEFINE access == FormAccess(registry, caps, id)
           f == registry.forms[id]
           s == CHOOSE u \in f.loadSource : TRUE
<1>1. /\ access \in {"NOT_FOUND", "FORBIDDEN", "OK"}
      /\ access = "OK" => id \in DOMAIN registry.forms /\ HasAll(caps, f.caps)
  BY AccessCodes DEF FormAccess
<1>2. GetFormData(registry, caps, id) =
          IF access # "OK" THEN Refuse(access)
          ELSE IF f.loadSource = {} THEN Refuse("OK") ELSE Call(SourceBinding(s), << >>)
  BY DEF GetFormData
<1>3. CASE access # "OK" \/ f.loadSource = {}
  BY <1>1, <1>2, <1>3, RefusalSound DEF Code
<1>4. CASE access = "OK" /\ f.loadSource # {}
  <2>1. PICK d \in DomainsLoaded : f \in ToSet(d.forms)
    BY <1>1, <1>4, Loaded
  <2>2. s \in f.loadSource
    BY <1>4
  <2> HIDE DEF access, f, s
  <2>3. HeldFor(SourceBinding(s)) /\ IsBinding(SourceBinding(s))
    BY <1>1, <1>4, <2>1, <2>2, HeldByForm, BindingShapes
  <2> QED BY <1>2, <1>4, <2>3, CallSound
<1> QED BY <1>3, <1>4

\* The page found for a resource has a table and is about it.
LEMMA ListPagesFound ==
    ASSUME deployed \in DOMAIN Deployment, NEW type, NEW p \in ListPages(registry, type)
    PROVE  \E d \in DomainsLoaded :
              /\ p \in ToSet(d.pages) /\ PageSource(p) \in {t.source : t \in p.table}
              /\ d.name = type \/ <<p.id[1]>> = type
<1>1. PICK d \in AllDomains(registry) :
         ListPageNumber(d, type) # 0 /\ p = d.pages[ListPageNumber(d, type)]
  BY DEF ListPages
<1>2. d \in DomainsLoaded /\ d.pages \in Seq(ToSet(d.pages))
  BY <1>1, Loaded
<1> DEFINE found == {n \in 1..Len(d.pages) :
                        /\ d.name = type \/ (d.pages[n].id # << >> /\ <<d.pages[n].id[1]>> = type)
                        /\ d.pages[n].table # {} /\ d.pages[n].layout = "table"}
           i == ListPageNumber(d, type)
<1>3. i = IF found # {} THEN Min(found) ELSE 0
  BY DEF ListPageNumber, SelectInSeq
<1>4. i \in found /\ p \in ToSet(d.pages)
  <2> HIDE DEF found, i
  <2>1. found \subseteq 1..Len(d.pages)
    BY DEF found
  <2> QED BY <1>1, <1>2, <1>3, <2>1, ListsHold DEF i
<1>5. p.table # {} /\ (d.name = type \/ <<p.id[1]>> = type)
  BY <1>1, <1>4
<1>6. PageSource(p) \in {t.source : t \in p.table}
  BY <1>5 DEF PageSource
<1> QED BY <1>2, <1>4, <1>5, <1>6

LEMMA ResourceListSound ==
    ASSUME deployed \in DOMAIN Deployment, NEW type,
           NEW plan \in GetResourceList(registry, caps, type)
    PROVE  Sound(plan)
<1>1. CASE plan = Refuse("NOT_FOUND") \/ plan = Refuse("FORBIDDEN")
  BY <1>1, RefusalSound DEF Code
<1>2. ASSUME NEW p \in ListPages(registry, type), HasAll(caps, p.caps),
             plan = Call(SourceBinding(PageSource(p)), << >>)
      PROVE  Sound(plan)
  <2>1. PICK d \in DomainsLoaded :
           p \in ToSet(d.pages) /\ PageSource(p) \in {t.source : t \in p.table}
    BY ListPagesFound
  <2>2. PICK t \in p.table : PageSource(p) = t.source
    BY <2>1
  <2>3. HeldFor(SourceBinding(PageSource(p))) /\ IsBinding(SourceBinding(PageSource(p)))
    BY <1>2, <2>1, <2>2, HeldByPage, BindingShapes
  <2> QED BY <1>2, <2>3, CallSound
<1> QED BY <1>1, <1>2 DEF GetResourceList

LEMMA ResourceItemSound ==
    ASSUME deployed \in DOMAIN Deployment, NEW type,
           NEW plan \in GetResourceItem(registry, index, caps, type)
    PROVE  Sound(plan)
<1> DEFINE Getter(p) == GetOperation(index, PageSource(p).service, type)
           binding(p) == [NoBinding EXCEPT !.type = "openapi", !.service = PageSource(p).service,
                                           !.operation = CHOOSE o \in Getter(p) : TRUE]
<1>1. CASE plan = Refuse("NOT_FOUND") \/ plan = Refuse("FORBIDDEN")
  BY <1>1, RefusalSound DEF Code
<1>2. ASSUME NEW p \in ListPages(registry, type), HasAll(caps, p.caps), Getter(p) # {},
             plan = Call(binding(p), [id |-> "id"])
      PROVE  Sound(plan)
  <2>1. PICK d \in DomainsLoaded :
           /\ p \in ToSet(d.pages) /\ PageSource(p) \in {t.source : t \in p.table}
           /\ d.name = type \/ <<p.id[1]>> = type
    BY ListPagesFound
  <2>2. PICK t \in p.table : PageSource(p) = t.source
    BY <2>1
  <2> DEFINE o == CHOOSE x \in Getter(p) : TRUE
  <2>3. o \in GetOperation(index, t.source.service, d.name)
              \cup GetOperation(index, t.source.service, <<p.id[1]>>)
    BY <1>2, <2>1, <2>2
  <2>4. binding(p) = [NoBinding EXCEPT !.type = "openapi", !.service = t.source.service,
                                       !.operation = o]
    BY <2>2
  <2> HIDE DEF o, binding, Getter
  <2>5. \A x \in GetOperation(index, t.source.service, d.name)
                \cup GetOperation(index, t.source.service, <<p.id[1]>>) :
           HeldFor([NoBinding EXCEPT !.type = "openapi", !.service = t.source.service,
                                     !.operation = x])
    BY <1>2, <2>1, HeldByPage
  <2>6. HeldFor(binding(p))
    BY <2>3, <2>4, <2>5
  <2>7. IsBinding(binding(p))
    BY <2>4 DEF IsBinding, NoBinding
  <2> QED BY <1>2, <2>6, <2>7, CallSound
<1>3. \/ plan = Refuse("NOT_FOUND") \/ plan = Refuse("FORBIDDEN")
      \/ \E p \in ListPages(registry, type) :
            HasAll(caps, p.caps) /\ Getter(p) # {} /\ plan = Call(binding(p), [id |-> "id"])
  BY DEF GetResourceItem
<1> QED BY <1>1, <1>2, <1>3

LEMMA ExecuteSound ==
    ASSUME deployed \in DOMAIN Deployment, NEW id, NEW input, NEW params
    PROVE  LET plan == Execute(registry, index, caps, id, input, params)
           IN  /\ Sound(plan)
               /\ plan.code = "CALL" /\ Invocable(plan.binding) => Complete(plan.binding, plan.body)
<1> DEFINE plan == Execute(registry, index, caps, id, input, params)
           access == CommandAccess(registry, caps, id)
           c == registry.commands[id]
           mapped == MapBody(c.input, input, params)
           errors == SchemaErrors(index, c, input, params)
<1>1. /\ access \in {"NOT_FOUND", "FORBIDDEN", "OK"}
      /\ access = "OK" => id \in DOMAIN registry.commands /\ HasAll(caps, c.caps)
  BY AccessCodes DEF CommandAccess
<1>2. \/ plan \in {Refuse(access), Refuse("BAD_REQUEST"), Refuse("VALIDATION_ERROR")} /\ plan.code # "CALL"
      \/ access = "OK" /\ errors = {} /\ plan = Call(c.operation, mapped)
  <2>1. access # "OK" => Refuse(access).code # "CALL"
    BY <1>1, RefusalSound DEF Code
  <2>2. Refuse("BAD_REQUEST").code # "CALL" /\ Refuse("VALIDATION_ERROR").code # "CALL"
    BY DEF Refuse
  <2> HIDE DEF access, c, mapped, errors
  <2> QED BY <2>1, <2>2 DEF Execute, access, c, mapped, errors
<1> HIDE DEF plan
<1>3. CASE plan \in {Refuse(access), Refuse("BAD_REQUEST"), Refuse("VALIDATION_ERROR")} /\ plan.code # "CALL"
  <2>1. plan.code \in Code
    BY <1>1, <1>3 DEF Refuse, Code
  <2> QED BY <1>3, <2>1 DEF Sound, plan
<1>4. CASE access = "OK" /\ errors = {} /\ plan = Call(c.operation, mapped)
  <2>1. PICK d \in DomainsLoaded : c \in ToSet(d.commands)
    BY <1>1, <1>4, Loaded
  <2>2. HeldFor(c.operation) /\ IsBinding(c.operation)
    BY <1>1, <1>4, <2>1, HeldByCommand, Loaded DEF IsBinding
  <2>3. plan.binding = c.operation /\ plan.body = mapped
    BY <1>4 DEF Call
  <2>4. Sound(plan)
    BY <1>4, <2>2, CallSound
  <2>5. ASSUME Invocable(c.operation) PROVE Complete(c.operation, mapped)
    <3>1. /\ c.operation.type = "openapi" /\ c.operation.service # << >>
          /\ HasOperation(index, c.operation.service, c.operation.operation)
      BY <2>5, RequestsAssumption DEF Invocable
    <3>2. ValidateRequest(index, c.operation.service, c.operation.operation, mapped) = {}
      BY <1>4, <3>1 DEF SchemaErrors
    <3> HIDE DEF c, mapped
    <3> QED BY <3>1, <3>2 DEF ValidateRequest, Complete
  <2> QED BY <2>3, <2>4, <2>5 DEF plan
<1> QED BY <1>2, <1>3, <1>4

LEMMA BadgesHeld ==
    ASSUME deployed \in DOMAIN Deployment, NEW b \in Badges(registry, caps)
    PROVE  HeldFor(b) /\ IsBinding(b)
<1>1. PICK d \in MenuDomains(registry, caps) :
         \E c \in MenuChildren(caps, d) : (\E x \in c.badge : x.operation # << >>) /\ b = BadgeBinding(d, c)
  BY DEF Badges
<1>2. PICK c \in MenuChildren(caps, d) : c.badge # {} /\ b = BadgeBinding(d, c)
  BY <1>1
<1>3. /\ d \in DomainsLoaded /\ HasAll(caps, d.caps)
      /\ c \in ToSet(d.children) /\ HasAll(caps, c.caps)
  BY <1>1, <1>2, Loaded DEF MenuDomains, MenuChildren
<1> QED BY <1>2, <1>3, HeldByBadge, BindingShapes

-----------------------------------------------------------------------------
(***************************************************************************)
(* The inductive invariant.                                                *)
(***************************************************************************)
Stage == {"idle", "arrived", "handle", "invoke", "calling", "replied"}

Statuses == {200, 400, 401, 403, 404, 422, 500, 502, 503, 504}

Surroundings ==
    /\ deployed \in DOMAIN Deployment
    /\ phase \in {"booting", "up", "fatal"}
    /\ granted \in Grant /\ caps \in Grant \cup {{}}
    /\ cached \in {{}} \cup {{S} : S \in Grant}
    /\ request \in Target \cup {NoTarget}
    /\ over \in BOOLEAN /\ sent \in BOOLEAN /\ done \in BOOLEAN
    /\ outcome \in {"none"} \cup Invocation!Status \cup Invocation!Error

\* Nothing has been invoked for the request.
Fresh == call = NoBinding /\ touched = {} /\ failure = "none" /\ shown = {}

\* Only a menu goes back from a call to the next one, so that any other
\* request makes at most one, and ends with it.
Flow ==
    /\ pc \in Stage
    /\ reply \in Statuses \cup {0} /\ (pc = "replied" <=> reply # 0)
    /\ pc \in {"idle", "arrived", "handle"} => Fresh /\ todo = {}
    /\ request.route # "navigation" /\ pc = "invoke" => Fresh /\ todo # {}
    /\ request.route # "navigation" /\ pc = "calling" => failure = "none"

\* What waits to be invoked was entitled when it was planned.
Bindings ==
    /\ \A b \in todo : HeldFor(b)
    /\ pc = "calling" => call = FileBinding \/ HeldFor(call)
    /\ \A b \in touched \ {FileBinding} : HeldFor(b)
    /\ \A b \in todo \cup touched \cup {call} : IsBinding(b)

\* What a command waits to send is complete, if it can be sent.
Commanded ==
    request.route \in {"command", "action"} =>
        /\ \A b \in todo : Invocable(b) => Complete(b, body)
        /\ pc = "calling" => Complete(call, body)
        /\ \A b \in touched : Complete(b, body)

\* A menu invokes badges only.
Menu ==
    request.route = "navigation" =>
        /\ todo \subseteq Badges(registry, caps)
        /\ pc = "calling" => call \in Badges(registry, caps)
        /\ reply # 0 /\ call # NoBinding => reply = 200
        /\ shown \subseteq {b.operation : b \in Badges(registry, caps)}

\* What a page or a form leads to can be found: itself, and for an action
\* the command it carries out.
Found(route, id) ==
    \/ route = "page_data" /\ id \in DOMAIN registry.pages
    \/ route \in {"form", "form_data"} /\ id \in DOMAIN registry.forms
    \/ route = "command" /\ id \in DOMAIN registry.commands
    \/ /\ route = "action" /\ ActionsNamed(id) # {}
       /\ \A a \in ActionsNamed(id) :
             a.type = "command" /\ a.command # << >> => a.command \in DOMAIN registry.commands

NotFoundMeansAbsent == reply = 404 => ~Found(request.route, request.id)

Ends ==
    /\ NotFoundMeansAbsent
    /\ RefusedMeansUntouched
    /\ SuccessMeansDone
    /\ FailuresAreOwned
    /\ FormDataIsOfForm

Served == Flow /\ Bindings /\ Commanded /\ Menu /\ Ends

Inv == Surroundings /\ Served

-----------------------------------------------------------------------------
(***************************************************************************)
(* The kinds of steps a request goes through, and that each preserves what *)
(* the invariant says of it.                                               *)
(***************************************************************************)
Aside ==
    /\ UNCHANGED <<deployed, progress, outcome, reply, shown>>
    /\ done => done'

EarlyReply(status, names) ==
    /\ pc \in {"arrived", "handle"} /\ pc' = "replied"
    /\ status \in Statuses /\ reply' = status /\ shown' = names
    /\ request.route \in {"navigation", "form_data"} => names = {}
    /\ status = 404 => ~Found(request.route, request.id)
    /\ failure' = failure \/ (failure' = "files_unconfigured" /\ status = 400)
    /\ UNCHANGED <<deployed, request, caps, todo, call, body, touched, invocation>>

Planned ==
    /\ pc = "handle" /\ pc' = "invoke"
    /\ \A b \in todo' : HeldFor(b) /\ IsBinding(b)
    /\ request.route # "navigation" => todo' # {}
    /\ request.route = "navigation" => todo' \subseteq Badges(registry, caps)
    /\ request.route \in {"command", "action"} =>
          \A b \in todo' : Invocable(b) => Complete(b, body')
    /\ UNCHANGED <<deployed, request, caps, call, touched, failure, invocation, reply, shown>>

CallReplied(status, names) ==
    /\ pc = "calling" /\ pc' = "replied" /\ request.route # "navigation"
    /\ status \in Statuses /\ reply' = status /\ shown' = names
    /\ status \in {401, 403, 404, 422} => request.route \in {"upload", "download"}
    /\ status = 200 /\ request.route \in {"command", "action", "upload"} => done
    /\ failure' # "none" => status >= 500
    /\ status \in 400..499 =>
          /\ outcome' \in Invocation!Status \ {"success"}
          /\ request.route \in {"command", "action", "upload", "download"}
    /\ status = 200 /\ request.route = "form_data" =>
          names \subseteq {<<f>> : f \in FormFields(registry.forms[request.id])}
    /\ UNCHANGED <<deployed, request, caps, todo, call, body, touched, done>>

MenuGoesOn ==
    /\ pc = "calling" /\ pc' = "invoke" /\ request.route = "navigation"
    /\ shown' \subseteq shown \cup {call.operation}
    /\ UNCHANGED <<deployed, request, caps, todo, call, body, touched, done, reply>>

LEMMA Fixed ==
    ASSUME UNCHANGED <<deployed, caps>>
    PROVE  /\ registry' = registry
           /\ \A b : (HeldFor(b))' <=> HeldFor(b)
           /\ \A b : (Invocable(b))' <=> Invocable(b)
           /\ \A b, x : (Complete(b, x))' <=> Complete(b, x)
           /\ \A route, id : (Found(route, id))' <=> Found(route, id)
<1>1. registry' = registry /\ index' = index /\ DomainsLoaded' = DomainsLoaded
  BY DEF registry, index, DomainsLoaded
<1>2. \A b : (HeldFor(b))' <=> HeldFor(b)
  BY <1>1 DEF HeldFor, Entitling, PageLeadsTo
<1>3. \A b : (Invocable(b))' <=> Invocable(b)
  BY <1>1 DEF Invocable
<1>4. \A b, x : (Complete(b, x))' <=> Complete(b, x)
  BY <1>1 DEF Complete
<1>5. \A route, id : (Found(route, id))' <=> Found(route, id)
  <2>1. AllDomains(registry)' = AllDomains(registry)
    BY <1>1 DEF AllDomains
  <2>2. \A id : (ActionsNamed(id))' = ActionsNamed(id)
    BY <2>1 DEF ActionsNamed
  <2> QED BY <1>1, <2>2 DEF Found
<1> QED BY <1>1, <1>2, <1>3, <1>4, <1>5

LEMMA AsideServes ==
    ASSUME Inv, Aside
    PROVE  Served'
<1>1. /\ UNCHANGED <<deployed, request, pc, caps, todo, call, body, touched, failure, outcome,
                     reply, shown>>
      /\ done => done'
  BY DEF Aside, progress
<1>2. Flow'
  BY <1>1 DEF Inv, Served, Flow, Fresh
<1>3. Bindings'
  BY <1>1, Fixed DEF Inv, Served, Bindings
<1>4. Commanded'
  BY <1>1, Fixed DEF Inv, Served, Commanded
<1>5. Menu'
  BY <1>1, Fixed DEF Inv, Served, Menu
<1>6. Ends'
  BY <1>1, Fixed DEF Inv, Served, Ends, NotFoundMeansAbsent, RefusedMeansUntouched, SuccessMeansDone,
                     FailuresAreOwned, FormDataIsOfForm
<1> QED BY <1>2, <1>3, <1>4, <1>5, <1>6 DEF Served

LEMMA EarlyReplyServes ==
    ASSUME Inv, NEW status, NEW names, EarlyReply(status, names)
    PROVE  Served'
<1>1. /\ pc' = "replied" /\ status \in Statuses /\ reply' = status /\ shown' = names
      /\ request.route \in {"navigation", "form_data"} => names = {}
      /\ status = 404 => ~Found(request.route, request.id)
      /\ failure' = failure \/ (failure' = "files_unconfigured" /\ status = 400)
      /\ UNCHANGED <<deployed, request, caps, todo, call, body, touched, done>>
      /\ Fresh /\ todo = {}
  BY DEF EarlyReply, invocation, Inv, Served, Flow
<1>2. Flow'
  BY <1>1 DEF Inv, Served, Flow, Stage, Statuses
<1>3. Bindings'
  BY <1>1, Fixed DEF Inv, Served, Bindings, Fresh
<1>4. Commanded'
  BY <1>1, Fixed DEF Inv, Served, Commanded, Fresh
<1>5. Menu'
  BY <1>1, Fixed DEF Inv, Served, Menu, Fresh
<1>6. Ends'
  BY <1>1, Fixed DEF Ends, Fresh, NotFoundMeansAbsent, RefusedMeansUntouched, SuccessMeansDone,
                     FailuresAreOwned, FormDataIsOfForm
<1> QED BY <1>2, <1>3, <1>4, <1>5, <1>6 DEF Served

LEMMA PlannedServes ==
    ASSUME Inv, Planned
    PROVE  Served'
<1>1. /\ pc' = "invoke" /\ Fresh /\ todo = {} /\ reply = 0
      /\ UNCHANGED <<deployed, request, caps, call, touched, failure, done, reply, shown>>
  BY DEF Planned, invocation, Inv, Served, Flow
<1>2. Flow'
  BY <1>1 DEF Planned, Inv, Served, Flow, Fresh, Stage
<1>3. Bindings'
  BY <1>1, Fixed DEF Planned, Inv, Served, Bindings, Fresh
<1>4. Commanded'
  BY <1>1, Fixed DEF Planned, Commanded, Fresh
<1>5. Menu'
  BY <1>1, Fixed DEF Planned, Menu, Fresh
<1>6. Ends'
  BY <1>1 DEF Ends, Fresh, NotFoundMeansAbsent, RefusedMeansUntouched, SuccessMeansDone,
              FailuresAreOwned, FormDataIsOfForm
<1> QED BY <1>2, <1>3, <1>4, <1>5, <1>6 DEF Served

LEMMA CallRepliedServes ==
    ASSUME Inv, NEW status, NEW names, CallReplied(status, names)
    PROVE  Served'
<1>1. /\ pc = "calling" /\ pc' = "replied" /\ request.route # "navigation"
      /\ status \in Statuses /\ reply' = status /\ shown' = names
      /\ UNCHANGED <<deployed, request, caps, todo, call, body, touched, done>>
  BY DEF CallReplied
<1>2. Flow'
  BY <1>1 DEF Flow, Stage, Statuses
<1>3. Bindings'
  BY <1>1, Fixed DEF Inv, Served, Bindings
<1>4. Commanded'
  BY <1>1, Fixed DEF Inv, Served, Commanded
<1>5. Menu'
  BY <1>1 DEF Menu
<1>6. RefusedMeansUntouched' /\ SuccessMeansDone' /\ FailuresAreOwned'
  BY <1>1 DEF CallReplied, RefusedMeansUntouched, SuccessMeansDone, FailuresAreOwned
<1>7. FormDataIsOfForm'
  BY <1>1, Fixed DEF CallReplied, FormDataIsOfForm
<1>8. NotFoundMeansAbsent'
  BY <1>1, Fixed DEF CallReplied, NotFoundMeansAbsent, Found
<1> QED BY <1>2, <1>3, <1>4, <1>5, <1>6, <1>7, <1>8 DEF Served, Ends

LEMMA MenuGoesOnServes ==
    ASSUME Inv, MenuGoesOn
    PROVE  Served'
<1>1. /\ pc = "calling" /\ pc' = "invoke" /\ request.route = "navigation" /\ reply = 0
      /\ shown' \subseteq shown \cup {call.operation}
      /\ UNCHANGED <<deployed, request, caps, todo, call, body, touched, done, reply>>
  BY DEF MenuGoesOn, Inv, Served, Flow
<1>2. Flow'
  BY <1>1 DEF Inv, Served, Flow, Stage
<1>3. Bindings'
  BY <1>1, Fixed DEF Inv, Served, Bindings
<1>4. Commanded'
  BY <1>1 DEF Commanded
<1>5. Menu'
  BY <1>1, Fixed DEF Inv, Served, Menu
<1>6. Ends'
  BY <1>1 DEF Ends, NotFoundMeansAbsent, RefusedMeansUntouched, SuccessMeansDone, FailuresAreOwned, FormDataIsOfForm
<1> QED BY <1>2, <1>3, <1>4, <1>5, <1>6 DEF Served

-----------------------------------------------------------------------------
(***************************************************************************)
(* The steps that are of none of these kinds.                              *)
(***************************************************************************)
LEMMA AfreshServes ==
    ASSUME deployed' \in DOMAIN Deployment, pc' \in {"idle", "arrived", "handle"},
           Fresh', todo' = {}, reply' = 0
    PROVE  Served'
<1>1. Flow'
  BY DEF Flow, Stage, Fresh
<1>2. Bindings'
  BY BindingShapes DEF Bindings, Fresh, IsBinding
<1>3. Commanded' /\ Menu'
  BY DEF Commanded, Menu, Fresh
<1>4. Ends'
  BY DEF Ends, NotFoundMeansAbsent, RefusedMeansUntouched, SuccessMeansDone, FailuresAreOwned, FormDataIsOfForm
<1> QED BY <1>1, <1>2, <1>3, <1>4 DEF Served

LEMMA ProxyStarts ==
    ASSUME Inv, pc = "handle", request.route \in {"upload", "download"},
           pc' = "calling", call' = FileBinding,
           UNCHANGED <<deployed, request, caps, todo, body, touched, failure, done, reply, shown>>
    PROVE  Served'
<1>1. Fresh /\ todo = {} /\ reply = 0
  BY DEF Inv, Served, Flow
<1>2. Flow'
  BY <1>1 DEF Flow, Stage, Fresh
<1>3. Bindings'
  BY <1>1, BindingShapes DEF Bindings, Fresh, IsBinding
<1>4. Commanded' /\ Menu'
  BY DEF Commanded, Menu
<1>5. Ends'
  BY <1>1 DEF Ends, NotFoundMeansAbsent, RefusedMeansUntouched, SuccessMeansDone, FailuresAreOwned, FormDataIsOfForm
<1> QED BY <1>2, <1>3, <1>4, <1>5 DEF Served

LEMMA InvokeServes ==
    ASSUME Inv, NEW b \in todo, pc = "invoke", Invocable(b),
           pc' = "calling", call' = b, todo' = todo \ {b},
           UNCHANGED <<deployed, request, caps, body, touched, failure, reply, shown>>
    PROVE  Served'
<1>1. reply = 0 /\ todo' \subseteq todo
  BY DEF Inv, Served, Flow
<1>2. Flow'
  BY DEF Inv, Served, Flow, Stage, Fresh
<1>3. Bindings'
  BY <1>1, Fixed DEF Inv, Served, Bindings, IsBinding
<1>4. Commanded'
  BY <1>1, Fixed DEF Inv, Served, Commanded
<1>5. Menu'
  BY <1>1, Fixed DEF Inv, Served, Menu
<1>6. Ends'
  BY <1>1 DEF Ends, NotFoundMeansAbsent, RefusedMeansUntouched, SuccessMeansDone, FailuresAreOwned, FormDataIsOfForm
<1> QED BY <1>2, <1>3, <1>4, <1>5, <1>6 DEF Served

LEMMA InvokeFailsServes ==
    ASSUME Inv, NEW b \in todo, pc = "invoke", call' = b, todo' = todo \ {b},
           UNCHANGED <<deployed, request, caps, body, touched>>,
           \/ request.route = "navigation" /\ pc' = "invoke" /\ UNCHANGED <<reply, shown>>
           \/ request.route # "navigation" /\ pc' = "replied" /\ reply' = 500 /\ shown' = {}
    PROVE  Served'
<1>1. reply = 0 /\ todo' \subseteq todo
  BY DEF Inv, Served, Flow
<1>2. request.route # "navigation" => touched = {}
  BY DEF Inv, Served, Flow, Fresh
<1>3. Flow'
  BY DEF Inv, Served, Flow, Stage, Statuses, Fresh
<1>4. Bindings'
  BY <1>1, Fixed DEF Inv, Served, Bindings, IsBinding
<1>5. Commanded'
  BY <1>1, Fixed DEF Inv, Served, Commanded
<1>6. Menu'
  BY <1>1, Fixed DEF Inv, Served, Menu
<1>7. Ends'
  BY <1>1, <1>2 DEF Ends, NotFoundMeansAbsent, RefusedMeansUntouched, SuccessMeansDone, FailuresAreOwned, FormDataIsOfForm
<1> QED BY <1>3, <1>4, <1>5, <1>6, <1>7 DEF Served

LEMMA SendServes ==
    ASSUME Inv, pc = "calling", touched' = touched \cup {call},
           UNCHANGED <<deployed, request, pc, caps, todo, call, body, failure, done, reply, shown>>
    PROVE  Served'
<1>1. reply = 0
  BY DEF Inv, Served, Flow
<1>2. Flow'
  BY DEF Inv, Served, Flow, Fresh
<1>3. Bindings'
  BY Fixed DEF Inv, Served, Bindings, IsBinding
<1>4. Commanded'
  BY Fixed DEF Inv, Served, Commanded
<1>5. Menu'
  BY Fixed DEF Inv, Served, Menu
<1>6. Ends'
  BY <1>1 DEF Ends, NotFoundMeansAbsent, RefusedMeansUntouched, SuccessMeansDone, FailuresAreOwned, FormDataIsOfForm
<1> QED BY <1>2, <1>3, <1>4, <1>5, <1>6 DEF Served

LEMMA MenuEnds ==
    ASSUME Inv, pc = "invoke", todo = {}, pc' = "replied", reply' = 200, shown' = shown,
           UNCHANGED <<deployed, request, caps, todo, call, body, touched, failure, done>>
    PROVE  Served'
<1>1. request.route = "navigation"
  BY DEF Inv, Served, Flow
<1>2. Flow'
  BY <1>1 DEF Flow, Stage, Statuses
<1>3. Bindings'
  BY Fixed DEF Inv, Served, Bindings, IsBinding
<1>4. Commanded'
  BY <1>1 DEF Commanded
<1>5. Menu'
  BY <1>1, Fixed DEF Inv, Served, Menu
<1>6. Ends'
  BY <1>1 DEF Ends, NotFoundMeansAbsent, RefusedMeansUntouched, SuccessMeansDone, FailuresAreOwned, FormDataIsOfForm
<1> QED BY <1>2, <1>3, <1>4, <1>5, <1>6 DEF Served

-----------------------------------------------------------------------------
(***************************************************************************)
(* The statuses of errors.                                                 *)
(***************************************************************************)
LEMMA ErrorStatuses ==
    /\ WriteError("OK") = 200 /\ WriteError("BAD_REQUEST") = 400
    /\ WriteError("UNAUTHORIZED") = 401 /\ WriteError("FORBIDDEN") = 403
    /\ WriteError("NOT_FOUND") = 404 /\ WriteError("VALIDATION_ERROR") = 422
    /\ WriteError("BACKEND_UNAVAILABLE") = 502 /\ WriteError("BACKEND_TIMEOUT") = 504
    /\ WriteError("resolve") = 500 /\ WriteError("no_operation") = 500
    /\ WriteError("request_failed") = 500 /\ WriteError("context_error") = 500
<1> DEFINE coded == {"OK", "BAD_REQUEST", "UNAUTHORIZED", "FORBIDDEN", "NOT_FOUND", "CONFLICT",
                     "VALIDATION_ERROR", "RATE_LIMITED", "INTERNAL_ERROR",
                     "BACKEND_UNAVAILABLE", "BACKEND_TIMEOUT"}
<1>1. DOMAIN StatusForCode = coded
  BY DEF StatusForCode
<1>2. \A code \in coded : WriteError(code) = StatusForCode[code]
  BY <1>1 DEF WriteError
<1>3. /\ WriteError("OK") = 200 /\ WriteError("BAD_REQUEST") = 400
      /\ WriteError("UNAUTHORIZED") = 401 /\ WriteError("FORBIDDEN") = 403
      /\ WriteError("NOT_FOUND") = 404 /\ WriteError("VALIDATION_ERROR") = 422
      /\ WriteError("BACKEND_UNAVAILABLE") = 502 /\ WriteError("BACKEND_TIMEOUT") = 504
  BY <1>2 DEF StatusForCode
<1>4. \A error : error \notin coded => WriteError(error) = 500
  BY <1>1 DEF WriteError
<1>5. {"resolve", "no_operation", "request_failed", "context_error"} \cap coded = {}
  OBVIOUS
<1> HIDE DEF coded
<1> QED BY <1>3, <1>4, <1>5

LEMMA Unmoved ==
    ASSUME Surroundings,
           UNCHANGED <<deployed, phase, granted, caps, cached, request, over, sent, done, outcome>>
    PROVE  Surroundings'
  BY DEF Surroundings

-----------------------------------------------------------------------------
(***************************************************************************)
(* Every action preserves the invariant.                                   *)
(***************************************************************************)
LEMMA InitInv == Init => Inv
<1> SUFFICES ASSUME Init PROVE Inv
  OBVIOUS
<1>1. Surroundings
  BY DEF Init, Surroundings
<1>2. Flow
  BY DEF Init, Flow, Stage, Fresh
<1>3. Bindings
  BY BindingShapes DEF Init, Bindings, IsBinding
<1>4. Commanded /\ Menu
  BY DEF Init, Commanded, Menu, NoTarget, Named
<1>5. Ends
  BY DEF Init, Ends, NotFoundMeansAbsent, RefusedMeansUntouched, SuccessMeansDone, FailuresAreOwned, FormDataIsOfForm
<1> QED BY <1>1, <1>2, <1>3, <1>4, <1>5 DEF Inv, Served

\* What happens around a request.
LEMMA AroundInv ==
    ASSUME Inv, Boot \/ Administer \/ CacheExpires \/ DeadlinePasses \/ CarryOut \/ UNCHANGED vars
    PROVE  Inv'
<1>1. Surroundings
  BY DEF Inv
<1>2. CASE Boot
  <2>1. Aside
    BY <1>2 DEF Boot, Aside, user, progress, invocation, answer
  <2>2. Surroundings'
    BY <1>1, <1>2 DEF Boot, Surroundings, user, progress, invocation, answer
  <2> QED BY <2>1, <2>2, AsideServes DEF Inv
<1>3. CASE Administer
  <2>1. Aside
    BY <1>3 DEF Administer, Aside, server, progress, invocation, answer
  <2>2. Surroundings'
    BY <1>1, <1>3 DEF Administer, Surroundings, server, progress, invocation, answer
  <2> QED BY <2>1, <2>2, AsideServes DEF Inv
<1>4. CASE CacheExpires
  <2>1. Aside
    BY <1>4 DEF CacheExpires, Aside, server, progress, invocation, answer
  <2>2. Surroundings'
    BY <1>1, <1>4 DEF CacheExpires, Surroundings, server, progress, invocation, answer
  <2> QED BY <2>1, <2>2, AsideServes DEF Inv
<1>5. CASE DeadlinePasses
  <2>1. Aside
    BY <1>5 DEF DeadlinePasses, Invocation!ContextDone, Aside, server, user, progress, answer
  <2>2. Surroundings'
    BY <1>1, <1>5 DEF DeadlinePasses, Invocation!ContextDone, Surroundings, server, user, progress, answer
  <2> QED BY <2>1, <2>2, AsideServes DEF Inv
<1>6. CASE CarryOut
  <2>1. Aside
    BY <1>6 DEF CarryOut, Invocation!CarryOut, Aside, server, user, progress, answer
  <2>2. Surroundings'
    BY <1>1, <1>6 DEF CarryOut, Invocation!CarryOut, Surroundings, server, user, progress, answer
  <2> QED BY <2>1, <2>2, AsideServes DEF Inv
<1>7. CASE UNCHANGED vars
  <2>1. Aside
    BY <1>7 DEF vars, Aside, server, user, progress, invocation, answer
  <2>2. Surroundings'
    BY <1>1, <1>7, Unmoved DEF vars, server, user, progress, invocation, answer
  <2> QED BY <2>1, <2>2, AsideServes DEF Inv
<1> QED BY <1>2, <1>3, <1>4, <1>5, <1>6, <1>7

LEMMA WayInInv ==
    ASSUME Inv, Arrive \/ Unauthorized \/ ResolveCapabilities \/ ResolutionFails \/ NextRequest
    PROVE  Inv'
<1>1. Surroundings /\ deployed \in DOMAIN Deployment
  BY DEF Inv, Surroundings
<1>2. CASE Arrive
  <2>1. Fresh /\ todo = {} /\ reply = 0
    BY <1>2 DEF Arrive, Inv, Served, Flow
  <2>2. Served'
    BY <1>1, <1>2, <2>1, AfreshServes
       DEF Arrive, Fresh, server, answer
  <2>3. Surroundings'
    BY <1>1, <1>2 DEF Arrive, Surroundings, server, user, invocation
  <2> QED BY <2>2, <2>3 DEF Inv
<1>3. CASE Unauthorized
  <2>1. EarlyReply(401, {})
    BY <1>3, ErrorStatuses DEF Unauthorized, EarlyReply, Reply, Statuses, server
  <2>2. Surroundings'
    BY <1>1, <1>3, Unmoved DEF Unauthorized, server, user, invocation
  <2> QED BY <2>1, <2>2, EarlyReplyServes DEF Inv
<1>4. CASE ResolveCapabilities
  <2>1. Fresh /\ todo = {} /\ reply = 0
    BY <1>4 DEF ResolveCapabilities, Inv, Served, Flow
  <2>2. Served'
    BY <1>1, <1>4, <2>1, AfreshServes
       DEF ResolveCapabilities, Fresh, server, answer
  <2>3. Surroundings'
    BY <1>1, <1>4 DEF ResolveCapabilities, Surroundings, server, invocation
  <2> QED BY <2>2, <2>3 DEF Inv
<1>5. CASE ResolutionFails
  <2>1. EarlyReply(502, {})
    BY <1>5, ErrorStatuses DEF ResolutionFails, EarlyReply, Reply, Statuses, server
  <2>2. Surroundings'
    BY <1>1, <1>5, Unmoved DEF ResolutionFails, server, user, invocation
  <2> QED BY <2>1, <2>2, EarlyReplyServes DEF Inv
<1>6. CASE NextRequest
  <2>1. Fresh' /\ todo' = {} /\ reply' = 0 /\ pc' = "idle" /\ deployed' = deployed
    BY <1>6 DEF NextRequest, Fresh, server
  <2>2. Served'
    BY <1>1, <2>1, AfreshServes
  <2>3. Surroundings'
    BY <1>1, <1>6 DEF NextRequest, Surroundings, server, user
  <2> QED BY <2>2, <2>3 DEF Inv
<1> QED BY <1>2, <1>3, <1>4, <1>5, <1>6

LEMMA FollowInv ==
    ASSUME Inv, NEW plan, pc = "handle", Sound(plan), Follow(plan),
           request.route \notin {"navigation", "upload", "download"},
           plan.code = "NOT_FOUND" => ~Found(request.route, request.id),
           plan.code = "CALL" /\ request.route \in {"command", "action"} =>
               (Invocable(plan.binding) => Complete(plan.binding, plan.body))
    PROVE  Inv'
<1>1. Surroundings'
  BY Unmoved DEF Inv, Follow, server, user, invocation
<1>2. CASE plan.code = "CALL"
  <2>1. Planned
    BY <1>2 DEF Follow, Planned, Sound, server
  <2> QED BY <1>1, <2>1, PlannedServes DEF Inv
<1>3. CASE plan.code # "CALL"
  <2>1. /\ WriteError(plan.code) \in Statuses
        /\ WriteError(plan.code) = 404 => plan.code = "NOT_FOUND"
    BY <1>3, ErrorStatuses DEF Sound, Code, Statuses
  <2>2. EarlyReply(WriteError(plan.code), {})
    BY <1>3, <2>1 DEF Follow, EarlyReply, Reply, server
  <2> QED BY <1>1, <2>2, EarlyReplyServes DEF Inv
<1> QED BY <1>2, <1>3

LEMMA DescribeInv ==
    ASSUME Inv, HandleGetPage \/ HandleGetForm \/ HandleGetSchema \/ HandleCapabilities
    PROVE  Inv'
<1>1. \A code \in {"NOT_FOUND", "FORBIDDEN", "OK"} : WriteError(code) \in Statuses
  BY ErrorStatuses DEF Statuses
<1>2. \A id : \A route \in {"page", "schema", "capabilities", "batch_check"} : ~Found(route, id)
  BY DEF Found
<1>3. CASE HandleGetPage
  <2>1. PageAccess(registry, caps, request.id) \in {"NOT_FOUND", "FORBIDDEN", "OK"}
    BY AccessCodes DEF PageAccess
  <2>2. PICK status \in Statuses : Reply(status, {})
    BY <1>1, <1>3, <2>1 DEF HandleGetPage, Statuses
  <2>3. EarlyReply(status, {})
    BY <1>2, <1>3, <2>2 DEF HandleGetPage, Handling, Stay, EarlyReply, Reply, server
  <2>4. Surroundings'
    BY <1>3, Unmoved DEF Inv, HandleGetPage, Stay, server, user, invocation
  <2> QED BY <2>3, <2>4, EarlyReplyServes DEF Inv
<1>4. CASE HandleGetForm
  <2>1. FormAccess(registry, caps, request.id) \in {"NOT_FOUND", "FORBIDDEN", "OK"}
    BY AccessCodes DEF FormAccess
  <2>2. /\ FormAccess(registry, caps, request.id) = "NOT_FOUND" => ~Found("form", request.id)
        /\ request.route = "form"
    BY <1>4 DEF FormAccess, Access, Found, HandleGetForm, Handling
  <2>3. PICK status, names : /\ status \in Statuses /\ Reply(status, names)
                             /\ status = 404 => ~Found(request.route, request.id)
    BY <1>1, <1>4, <2>1, <2>2, ErrorStatuses DEF HandleGetForm, Statuses
  <2>4. EarlyReply(status, names)
    BY <1>4, <2>3 DEF HandleGetForm, Handling, Stay, EarlyReply, Reply, server
  <2>5. Surroundings'
    BY <1>4, Unmoved DEF Inv, HandleGetForm, Stay, server, user, invocation
  <2> QED BY <2>4, <2>5, EarlyReplyServes DEF Inv
<1>5. CASE HandleGetSchema
  <2>1. PICK status, names : status \in Statuses /\ Reply(status, names)
    BY <1>1, <1>5 DEF HandleGetSchema, Statuses
  <2>2. EarlyReply(status, names)
    BY <1>2, <1>5, <2>1 DEF HandleGetSchema, Handling, Stay, EarlyReply, Reply, server
  <2>3. Surroundings'
    BY <1>5, Unmoved DEF Inv, HandleGetSchema, Stay, server, user, invocation
  <2> QED BY <2>2, <2>3, EarlyReplyServes DEF Inv
<1>6. CASE HandleCapabilities
  <2>1. \/ Reply(WriteError("BAD_REQUEST"), {})
        \/ Reply(WriteError("resolve"), {})
        \/ \E names : Reply(200, names)
    BY <1>6, Zenon DEF HandleCapabilities
  <2>2. PICK status, names : status \in Statuses /\ Reply(status, names)
    BY <2>1, ErrorStatuses DEF Statuses
  <2>3. EarlyReply(status, names)
    BY <1>2, <1>6, <2>2 DEF HandleCapabilities, Handling, EarlyReply, Reply, server
  <2>4. cached' = cached \/ \E S \in Grant : cached' = {S}
    BY <1>6 DEF HandleCapabilities
  <2>5. Surroundings'
    BY <1>6, <2>4 DEF Inv, Surroundings, HandleCapabilities, server, invocation
  <2> QED BY <2>3, <2>5, EarlyReplyServes DEF Inv
<1> QED BY <1>3, <1>4, <1>5, <1>6

\* What is not found is not there.
LEMMA NotFoundPlans ==
    ASSUME NEW id
    PROVE  /\ GetPageData(registry, caps, id).code = "NOT_FOUND" => id \notin DOMAIN registry.pages
           /\ GetFormData(registry, caps, id).code = "NOT_FOUND" => id \notin DOMAIN registry.forms
           /\ \A input, params :
                 Execute(registry, index, caps, id, input, params).code = "NOT_FOUND"
                 => id \notin DOMAIN registry.commands
<1>1. /\ \A code : Refuse(code).code = code
      /\ \A b, x : Call(b, x).code = "CALL"
  BY DEF Refuse, Call
<1>2. \A known, needed : Access(known, caps, needed) = "NOT_FOUND" => ~known
  BY DEF Access
<1>3. GetPageData(registry, caps, id).code = "NOT_FOUND" => id \notin DOMAIN registry.pages
  BY <1>1, <1>2 DEF GetPageData, PageAccess
<1>4. GetFormData(registry, caps, id).code = "NOT_FOUND" => id \notin DOMAIN registry.forms
  BY <1>1, <1>2 DEF GetFormData, FormAccess
<1>5. ASSUME NEW input, NEW params,
             Execute(registry, index, caps, id, input, params).code = "NOT_FOUND"
      PROVE  id \notin DOMAIN registry.commands
  BY <1>1, <1>2, <1>5 DEF Execute, CommandAccess
<1> QED BY <1>3, <1>4, <1>5

LEMMA PlanInv ==
    ASSUME Inv, \/ HandleGetPageData \/ HandleGetFormData \/ HandleGetResource
                \/ HandleGetResourceItem \/ HandleCommand \/ HandleAction
    PROVE  Inv'
<1>1. deployed \in DOMAIN Deployment
  BY DEF Inv, Surroundings
<1>2. CASE HandleGetPageData
  <2>1. PICK plan : plan = GetPageData(registry, caps, request.id)
    OBVIOUS
  <2>2. Follow(plan) /\ pc = "handle" /\ request.route = "page_data"
    BY <1>2, <2>1 DEF HandleGetPageData, Handling
  <2>3. Sound(plan) /\ (plan.code = "NOT_FOUND" => ~Found("page_data", request.id))
    BY <1>1, <2>1, PageDataSound, NotFoundPlans DEF Found
  <2> QED BY <2>2, <2>3, FollowInv
<1>3. CASE HandleGetFormData
  <2>1. PICK plan : plan = GetFormData(registry, caps, request.id)
    OBVIOUS
  <2>2. Follow(plan) /\ pc = "handle" /\ request.route = "form_data"
    BY <1>3, <2>1 DEF HandleGetFormData, Handling
  <2>3. Sound(plan) /\ (plan.code = "NOT_FOUND" => ~Found("form_data", request.id))
    BY <1>1, <2>1, FormDataSound, NotFoundPlans DEF Found
  <2> QED BY <2>2, <2>3, FollowInv
<1>4. CASE HandleGetResource
  <2>1. PICK plan \in GetResourceList(registry, caps, request.id) : Follow(plan)
    BY <1>4 DEF HandleGetResource
  <2>2. pc = "handle" /\ request.route = "resource"
    BY <1>4 DEF HandleGetResource, Handling
  <2>3. Sound(plan) /\ ~Found("resource", request.id)
    BY <1>1, ResourceListSound DEF Found
  <2> QED BY <2>1, <2>2, <2>3, FollowInv
<1>5. CASE HandleGetResourceItem
  <2>1. PICK plan \in GetResourceItem(registry, index, caps, request.id) : Follow(plan)
    BY <1>5 DEF HandleGetResourceItem
  <2>2. pc = "handle" /\ request.route = "resource_item"
    BY <1>5 DEF HandleGetResourceItem, Handling
  <2>3. Sound(plan) /\ ~Found("resource_item", request.id)
    BY <1>1, ResourceItemSound DEF Found
  <2> QED BY <2>1, <2>2, <2>3, FollowInv
<1>6. ASSUME NEW code \in Code \ {"CALL"}, Follow(Refuse(code)), pc = "handle",
             request.route \in {"command", "action"},
             code = "NOT_FOUND" => ~Found(request.route, request.id)
      PROVE  Inv'
  <2>1. Sound(Refuse(code)) /\ Refuse(code).code # "CALL" /\ Refuse(code).code = code
    BY RefusalSound DEF Refuse
  <2> QED BY <1>6, <2>1, FollowInv
<1>7. ASSUME NEW id, NEW input, NEW params, Follow(Execute(registry, index, caps, id, input, params)),
             pc = "handle", request.route \in {"command", "action"},
             id \notin DOMAIN registry.commands => ~Found(request.route, request.id)
      PROVE  Inv'
  <2>1. PICK plan : plan = Execute(registry, index, caps, id, input, params)
    OBVIOUS
  <2>2. /\ Sound(plan)
        /\ plan.code = "CALL" /\ Invocable(plan.binding) => Complete(plan.binding, plan.body)
    BY <1>1, <2>1, ExecuteSound
  <2>4. plan.code = "NOT_FOUND" => ~Found(request.route, request.id)
    BY <1>7, <2>1, NotFoundPlans
  <2>3. Follow(plan)
    BY <1>7, <2>1
  <2> QED BY <1>7, <2>2, <2>3, <2>4, FollowInv
<1>8. CASE HandleCommand
  <2>1. pc = "handle" /\ request.route = "command"
    BY <1>8 DEF HandleCommand, Handling
  <2>2. CASE request.wellFormed
    <3>1. Follow(Execute(registry, index, caps, request.id, request.input, request.params))
      BY <1>8, <2>2 DEF HandleCommand
    <3>2. request.id \notin DOMAIN registry.commands => ~Found("command", request.id)
      BY DEF Found
    <3> QED BY <1>7, <2>1, <3>1, <3>2
  <2>3. CASE ~request.wellFormed
    <3>1. Follow(Refuse("BAD_REQUEST"))
      BY <1>8, <2>3 DEF HandleCommand
    <3> QED BY <1>6, <2>1, <3>1 DEF Code
  <2> QED BY <2>2, <2>3
<1>9. CASE HandleAction
  <2>1. pc = "handle" /\ request.route = "action"
    BY <1>9 DEF HandleAction, Handling
  <2>2. \/ \E code \in {"BAD_REQUEST", "OK"} : Follow(Refuse(code))
        \/ ActionsNamed(request.id) = {} /\ Follow(Refuse("NOT_FOUND"))
        \/ \E a \in ActionsNamed(request.id) :
              /\ a.type = "command" /\ a.command # << >>
              /\ Follow(Execute(registry, index, caps, a.command, request.input, << >>))
    BY <1>9 DEF HandleAction
  <2>3. CASE \E code \in {"BAD_REQUEST", "OK"} : Follow(Refuse(code))
    BY <1>6, <2>1, <2>3 DEF Code
  <2>4. CASE ActionsNamed(request.id) = {} /\ Follow(Refuse("NOT_FOUND"))
    <3>1. ~Found("action", request.id)
      BY <2>4 DEF Found
    <3> QED BY <1>6, <2>1, <2>4, <3>1 DEF Code
  <2>5. ASSUME NEW a \in ActionsNamed(request.id), a.type = "command", a.command # << >>,
               Follow(Execute(registry, index, caps, a.command, request.input, << >>))
        PROVE  Inv'
    <3>1. a.command \notin DOMAIN registry.commands => ~Found("action", request.id)
      BY <2>5 DEF Found
    <3> QED BY <1>7, <2>1, <2>5, <3>1
  <2> QED BY <2>2, <2>3, <2>4, <2>5
<1> QED BY <1>2, <1>3, <1>4, <1>5, <1>8, <1>9

LEMMA StartInv ==
    ASSUME Inv, HandleNavigation \/ HandleProxy
    PROVE  Inv'
<1>1. deployed \in DOMAIN Deployment
  BY DEF Inv, Surroundings
<1>2. CASE HandleNavigation
  <2>1. todo' = Badges(registry, caps) /\ request.route = "navigation"
    BY <1>2 DEF HandleNavigation, Handling
  <2>2. \A b \in todo' : HeldFor(b) /\ IsBinding(b)
    BY <1>1, <2>1, BadgesHeld
  <2>3. Planned
    BY <1>2, <2>1, <2>2 DEF HandleNavigation, Handling, Planned, server, answer
  <2>4. Surroundings'
    BY <1>2, Unmoved DEF Inv, HandleNavigation, server, user, invocation
  <2> QED BY <2>3, <2>4, PlannedServes DEF Inv
<1>3. CASE HandleProxy
  <2>1. Surroundings'
    BY <1>3, Unmoved DEF Inv, HandleProxy, server, user, invocation
  <2>2. CASE FileBinding.service \in Deployment[deployed].services
    <3>1. Served'
      BY <1>3, <2>2, ProxyStarts DEF HandleProxy, Handling, server, invocation
    <3> QED BY <2>1, <3>1 DEF Inv
  <2>3. CASE FileBinding.service \notin Deployment[deployed].services
    <3>1. EarlyReply(400, {})
      BY <1>3, <2>3, ErrorStatuses DEF HandleProxy, Handling, EarlyReply, Reply, Statuses, server
    <3> QED BY <2>1, <3>1, EarlyReplyServes DEF Inv
  <2> QED BY <2>2, <2>3
<1> QED BY <1>2, <1>3

LEMMA CallInv ==
    ASSUME Inv, Invoke \/ SendRequest \/ MenuComplete
    PROVE  Inv'
<1>1. Surroundings
  BY DEF Inv
<1>2. CASE Invoke
  <2>1. PICK b \in todo :
           /\ todo' = todo \ {b} /\ call' = b
           /\ \/ Invocable(b) /\ pc' = "calling" /\ UNCHANGED <<failure, reply, shown>>
              \/ ~Invocable(b) /\ InvocationFails("no_operation")
    BY <1>2 DEF Invoke
  <2>2. pc = "invoke" /\ UNCHANGED <<deployed, request, caps, body, touched>>
    BY <1>2 DEF Invoke, server
  <2>3. Served'
    <3>1. CASE Invocable(b) /\ pc' = "calling" /\ UNCHANGED <<failure, reply, shown>>
      BY <2>1, <2>2, <3>1, InvokeServes
    <3>2. CASE InvocationFails("no_operation")
      <4>1. \/ request.route = "navigation" /\ pc' = "invoke" /\ UNCHANGED <<reply, shown>>
            \/ request.route # "navigation" /\ pc' = "replied" /\ reply' = 500 /\ shown' = {}
        BY <3>2, ErrorStatuses DEF InvocationFails, Reply
      <4> QED BY <2>1, <2>2, <4>1, InvokeFailsServes
    <3> QED BY <2>1, <3>1, <3>2
  <2>4. Surroundings'
    BY <1>1, <1>2 DEF Invoke, Surroundings, server, user
  <2> QED BY <2>3, <2>4 DEF Inv
<1>3. CASE SendRequest
  <2>1. Served'
    BY <1>3, SendServes DEF SendRequest, Invocation!Send, server, answer
  <2>2. Surroundings'
    BY <1>1, <1>3 DEF SendRequest, Invocation!Send, Surroundings, server, user
  <2> QED BY <2>1, <2>2 DEF Inv
<1>4. CASE MenuComplete
  <2>1. Served'
    BY <1>4, MenuEnds DEF MenuComplete, Reply, Stay, server, invocation
  <2>2. Surroundings'
    BY <1>1, <1>4, Unmoved DEF MenuComplete, Stay, server, user, invocation
  <2> QED BY <2>1, <2>2 DEF Inv
<1> QED BY <1>2, <1>3, <1>4

\* What every return of a call leaves, and that a success was carried out.
LEMMA Returned ==
    ASSUME Surroundings, NEW o \in Invocation!Status \cup Invocation!Error, Invocation!Return(o),
           UNCHANGED <<server, user, request, caps, todo, call, body, touched, offered>>
    PROVE  /\ Surroundings' /\ (o = "success" => done)
           /\ UNCHANGED <<deployed, request, caps, todo, call, body, touched, done>>
<1>1. outcome' = o /\ UNCHANGED <<over, sent, done>> /\ (o = "success" => done)
  BY DEF Invocation!Return, Invocation!MayReturn
<1> QED BY <1>1 DEF Surroundings, server, user

LEMMA FailureInv ==
    ASSUME Inv, CallFails \/ ProxyFails
    PROVE  Inv'
<1>1. Surroundings
  BY DEF Inv
<1>2. CASE CallFails
  <2>1. PICK error \in Invocation!Error : Invocation!Return(error) /\ InvocationFails(error)
    BY <1>2 DEF CallFails
  <2>2. /\ Surroundings' /\ pc = "calling"
        /\ UNCHANGED <<deployed, request, caps, todo, call, body, touched, done>>
    BY <1>1, <1>2, <2>1, Returned DEF CallFails
  <2>3. CASE request.route = "navigation"
    <3>1. MenuGoesOn
      BY <2>1, <2>2, <2>3 DEF InvocationFails, MenuGoesOn
    <3> QED BY <2>2, <3>1, MenuGoesOnServes DEF Inv
  <2>4. CASE request.route # "navigation"
    <3>1. WriteError(error) \in {500, 502, 504}
      BY <2>1, ErrorStatuses DEF Invocation!Error
    <3>2. CallReplied(WriteError(error), {})
      BY <2>1, <2>2, <2>4, <3>1 DEF InvocationFails, Reply, CallReplied, Statuses
    <3> QED BY <2>2, <3>2, CallRepliedServes DEF Inv
  <2> QED BY <2>3, <2>4
<1>3. CASE ProxyFails
  <2>1. PICK error \in Invocation!Error :
           Invocation!Return(error) /\ InvocationFails("BACKEND_UNAVAILABLE")
    BY <1>3 DEF ProxyFails
  <2>2. /\ Surroundings' /\ pc = "calling" /\ request.route \in {"upload", "download"}
        /\ UNCHANGED <<deployed, request, caps, todo, call, body, touched, done>>
    BY <1>1, <1>3, <2>1, Returned DEF ProxyFails
  <2>3. CallReplied(502, {})
    BY <2>1, <2>2, ErrorStatuses DEF InvocationFails, Reply, CallReplied, Statuses
  <2> QED BY <2>2, <2>3, CallRepliedServes DEF Inv
<1> QED BY <1>2, <1>3

LEMMA AnswerReplies ==
    ASSUME Inv, NEW s \in Invocation!Status, Answered(s), NEW status, NEW names, Reply(status, names),
           request.route # "navigation", status \in Statuses,
           status \in {401, 403, 404, 422} => request.route \in {"upload", "download"},
           status = 200 /\ request.route \in {"command", "action", "upload"} => s = "success",
           status \in 400..499 =>
               s # "success" /\ request.route \in {"command", "action", "upload", "download"},
           status = 200 /\ request.route = "form_data" =>
               names \subseteq {<<f>> : f \in FormFields(registry.forms[request.id])}
    PROVE  Inv'
<1>1. /\ Surroundings' /\ (s = "success" => done)
      /\ UNCHANGED <<deployed, request, caps, todo, call, body, touched, done>>
  BY Returned DEF Answered, Inv
<1>2. pc = "calling" /\ failure' = failure /\ failure = "none" /\ outcome' = s
  BY DEF Answered, Invocation!Return, Inv, Served, Flow
<1>3. CallReplied(status, names)
  BY <1>1, <1>2 DEF CallReplied, Reply
<1> QED BY <1>1, <1>3, CallRepliedServes DEF Inv

\* A form's data has no field that the form has not.
LEMMA FormDataFields ==
    ASSUME NEW form, NEW source, NEW b, NEW data \in FormData(form, source, b)
    PROVE  DOMAIN data \subseteq FormFields(form)
<1>1. CASE data = << >>
  BY <1>1
<1>2. CASE \E r : data = [k \in (DOMAIN r) \cap FormFields(form) |-> r[k]]
  BY <1>2
<1>3. data = << >> \/ \E r : data = [k \in (DOMAIN r) \cap FormFields(form) |-> r[k]]
  BY Zenon DEF FormData
<1> QED BY <1>1, <1>2, <1>3

LEMMA AnswerInv ==
    ASSUME Inv, DataArrives \/ FormDataArrives \/ ItemArrives \/ CommandCompletes \/ ProxyAnswers
    PROVE  Inv'
<1>1. CASE DataArrives
  <2>1. PICK s \in Invocation!Status : Answered(s) /\ \E names : Reply(200, names)
    BY <1>1, Zenon DEF DataArrives
  <2>2. PICK names : Reply(200, names)
    BY <2>1
  <2>3. request.route \in {"page_data", "resource"}
    BY <1>1 DEF DataArrives
  <2> QED BY <2>1, <2>2, <2>3, AnswerReplies DEF Statuses
<1>2. CASE FormDataArrives
  <2> DEFINE form == registry.forms[request.id]
  <2>1. PICK s \in Invocation!Status, b \in Body :
           /\ Answered(s)
           /\ \E data \in FormData(form, CHOOSE x \in form.loadSource : TRUE, b) :
                 Reply(200, {<<k>> : k \in DOMAIN data})
    BY <1>2 DEF FormDataArrives
  <2>2. PICK data \in FormData(form, CHOOSE x \in form.loadSource : TRUE, b) :
           Reply(200, {<<k>> : k \in DOMAIN data})
    BY <2>1
  <2>3. request.route = "form_data"
    BY <1>2 DEF FormDataArrives
  <2>4. DOMAIN data \subseteq FormFields(form)
    BY FormDataFields
  <2>5. {<<k>> : k \in DOMAIN data} \subseteq {<<f>> : f \in FormFields(form)}
    BY <2>4
  <2> QED BY <2>1, <2>2, <2>3, <2>5, AnswerReplies DEF Statuses
<1>3. CASE ItemArrives
  <2>1. PICK s \in Invocation!Status : Answered(s) /\ \E names : Reply(200, names)
    BY <1>3, Zenon DEF ItemArrives
  <2>2. PICK names : Reply(200, names)
    BY <2>1
  <2>3. request.route = "resource_item"
    BY <1>3 DEF ItemArrives
  <2> QED BY <2>1, <2>2, <2>3, AnswerReplies DEF Statuses
<1>4. CASE CommandCompletes
  <2>1. PICK s \in Invocation!Status :
           Answered(s) /\ \E names : Reply(WriteError(HandleResponse(s)), names)
    BY <1>4, Zenon DEF CommandCompletes
  <2>2. PICK names : Reply(WriteError(HandleResponse(s)), names)
    BY <2>1
  <2>3. request.route \in {"command", "action"}
    BY <1>4 DEF CommandCompletes
  <2>4. WriteError(HandleResponse(s)) = IF s = "success" THEN 200 ELSE 400
    BY ErrorStatuses DEF HandleResponse
  <2> QED BY <2>1, <2>2, <2>3, <2>4, AnswerReplies DEF Statuses
<1>5. CASE ProxyAnswers
  <2>1. PICK s \in Invocation!Status : Answered(s) /\ Reply(ProxyStatus[s], {})
    BY <1>5 DEF ProxyAnswers
  <2>2. request.route \in {"upload", "download"}
    BY <1>5 DEF ProxyAnswers
  <2>3. ProxyStatus[s] \in {200, 404, 503} /\ (ProxyStatus[s] = 200 <=> s = "success")
    BY DEF ProxyStatus, Invocation!Status
  <2> QED BY <2>1, <2>2, <2>3, AnswerReplies DEF Statuses
<1> QED BY <1>1, <1>2, <1>3, <1>4, <1>5

LEMMA BadgeInv ==
    ASSUME Inv, BadgeArrives
    PROVE  Inv'
<1>1. PICK s \in Invocation!Status, b \in Body :
         /\ Answered(s)
         /\ \E d \in MenuDomains(registry, caps) : \E c \in MenuChildren(caps, d) :
               \E badge \in c.badge :
                  /\ BadgeBinding(d, c) = call
                  /\ shown' = IF BadgeCount(b, badge.field) = {} THEN shown
                              ELSE shown \cup {badge.operation}
  BY DEF BadgeArrives
<1>2. PICK d, c, badge :
         /\ d \in MenuDomains(registry, caps)
         /\ c \in MenuChildren(caps, d) /\ badge \in c.badge
         /\ BadgeBinding(d, c) = call
         /\ shown' = IF BadgeCount(b, badge.field) = {} THEN shown
                     ELSE shown \cup {badge.operation}
  BY <1>1
<1>3. d \in DomainsLoaded /\ c \in ToSet(d.children)
  BY <1>2, Loaded DEF Inv, Surroundings, MenuDomains, MenuChildren
<1>4. \A x, y \in c.badge : x = y
  BY <1>3, Loaded DEF Inv, Surroundings
<1>5. (CHOOSE x \in c.badge : TRUE) = badge
  BY <1>2, <1>4
<1>6. call.operation = badge.operation
  BY <1>2, <1>5 DEF BadgeBinding
<1>7. shown' \subseteq shown \cup {call.operation}
  BY <1>2, <1>6
<1>8. /\ Surroundings'
      /\ UNCHANGED <<deployed, request, caps, todo, call, body, touched, done>>
  BY <1>1, Returned DEF Answered, Inv
<1>9. MenuGoesOn
  BY <1>1, <1>7, <1>8 DEF BadgeArrives, Answered, MenuGoesOn
<1> QED BY <1>8, <1>9, MenuGoesOnServes DEF Inv

LEMMA NextInv == Inv /\ [Next]_vars => Inv'
<1> SUFFICES ASSUME Inv, [Next]_vars PROVE Inv'
  OBVIOUS
<1>1. CASE \/ Boot \/ Administer \/ CacheExpires \/ DeadlinePasses \/ CarryOut
           \/ Stopped \/ UNCHANGED vars
  BY <1>1, AroundInv DEF Stopped
<1>2. CASE Arrive \/ Unauthorized \/ ResolveCapabilities \/ ResolutionFails \/ NextRequest
  BY <1>2, WayInInv
<1>3. CASE Handle
  BY <1>3, DescribeInv, PlanInv, StartInv DEF Handle
<1>4. CASE Invoke \/ SendRequest \/ MenuComplete
  BY <1>4, CallInv
<1>5. CASE CallReturns
  BY <1>5, FailureInv, AnswerInv, BadgeInv DEF CallReturns
<1> QED BY <1>1, <1>2, <1>3, <1>4, <1>5 DEF Next, Serve

\* Inv holds of every behaviour.
THEOREM InvariantHolds == Spec => []Inv
<1>1. Init => Inv
  BY InitInv
<1>2. Inv /\ [Next]_vars => Inv'
  BY NextInv
<1> QED BY <1>1, <1>2, PTL DEF Spec

-----------------------------------------------------------------------------
(***************************************************************************)
(* Every state is of the types that are declared, and a status is written  *)
(* exactly when a request ends.                                            *)
(***************************************************************************)
THEOREM TypeCorrect == Spec => []TypeOK
<1>1. Inv => TypeOK
  BY DEF Inv, Surroundings, Served, Flow, Bindings, IsBinding, Stage, Statuses, TypeOK
<1> QED BY <1>1, InvariantHolds, PTL

(***************************************************************************)
(* No request goes out but for an operation that a loaded definition binds *)
(* behind capabilities that were resolved for the user, whatever the route *)
(* and whatever was changed or expired meanwhile.                          *)
(***************************************************************************)
THEOREM CallsEntitled == Spec => []CallsAreEntitled
<1>1. Inv => CallsAreEntitled
  BY DEF Inv, Served, Bindings, HeldFor, CallsAreEntitled
<1> QED BY <1>1, InvariantHolds, PTL

(***************************************************************************)
(* A refusal was decided before any backend heard of the request.          *)
(***************************************************************************)
THEOREM RefusalsTouchNothing == Spec => []RefusedMeansUntouched
<1>1. Inv => RefusedMeansUntouched
  BY DEF Inv, Served, Ends
<1> QED BY <1>1, InvariantHolds, PTL

(***************************************************************************)
(* What commands and actions send has what the operation requires: either  *)
(* it was validated, or the operation cannot be invoked.                   *)
(***************************************************************************)
THEOREM CommandsComplete == Spec => []NothingIncompleteIsSent
<1>1. Inv => NothingIncompleteIsSent
  BY DEF Inv, Served, Commanded, Complete, NothingIncompleteIsSent
<1> QED BY <1>1, InvariantHolds, PTL

(***************************************************************************)
(* The console is told of a success only once the backend has carried it   *)
(* out, however late, timed out or retried the call was.                   *)
(***************************************************************************)
THEOREM SuccessesDone == Spec => []SuccessMeansDone
<1>1. Inv => SuccessMeansDone
  BY DEF Inv, Served, Ends
<1> QED BY <1>1, InvariantHolds, PTL

(***************************************************************************)
(* An operation that could not be invoked, reached or waited for is never  *)
(* put down to the request, and a fault of the request that comes after an *)
(* invocation is the backend's own answer; an unconfigured service of      *)
(* files, and what a command's backend answers, are the exceptions that    *)
(* the property names.                                                     *)
(***************************************************************************)
THEOREM FailuresOwned == Spec => []FailuresAreOwned
<1>1. Inv => FailuresAreOwned
  BY DEF Inv, Served, Ends
<1> QED BY <1>1, InvariantHolds, PTL

(***************************************************************************)
(* A menu whose badges were asked for comes up, with badges that the user  *)
(* may see.                                                                *)
(***************************************************************************)
THEOREM MenuSurvives == Spec => []MenuSurvivesBackends
<1>1. Inv => MenuSurvivesBackends
  BY DEF Inv, Served, Menu, MenuSurvivesBackends
<1> QED BY <1>1, InvariantHolds, PTL

(***************************************************************************)
(* A form is never filled with what is no field of its definition.         *)
(***************************************************************************)
THEOREM FormDataOwn == Spec => []FormDataIsOfForm
<1>1. Inv => FormDataIsOfForm
  BY DEF Inv, Served, Ends
<1> QED BY <1>1, InvariantHolds, PTL

-----------------------------------------------------------------------------
(***************************************************************************)
(* The dry run and the course of a command.                                *)
(***************************************************************************)
CommandPlan == Execute(registry, index, caps, request.id, request.input, request.params)

\* A command goes the way its plan says.
Course ==
    request.route = "command" /\ request.wellFormed =>
        /\ pc = "invoke" => CommandPlan.code = "CALL" /\ todo = {CommandPlan.binding}
        /\ pc = "calling" => CommandPlan.code = "CALL" /\ call = CommandPlan.binding /\ Invocable(call)
        /\ pc = "replied" =>
              \/ TurnedAwayAtTheDoor
              \/ /\ CommandPlan.code # "CALL" /\ reply = WriteError(CommandPlan.code)
                 /\ call = NoBinding /\ touched = {}
              \/ /\ CommandPlan.code = "CALL" /\ call = CommandPlan.binding
                 /\ ~Invocable(call) => reply = 500 /\ touched = {}

LEMMA PlanFixed ==
    ASSUME UNCHANGED <<deployed, caps, request>>
    PROVE  /\ CommandPlan' = CommandPlan
           /\ \A b : (Invocable(b))' <=> Invocable(b)
<1>1. registry' = registry /\ index' = index
  BY DEF registry, index
<1>2. \A b : (Invocable(b))' <=> Invocable(b)
  BY <1>1 DEF Invocable
<1> QED BY <1>1, <1>2 DEF CommandPlan

LEMMA CourseAside ==
    ASSUME Course, UNCHANGED <<deployed, request, pc, caps, todo, call, reply>>,
           pc = "calling" \/ touched' = touched
    PROVE  Course'
  BY PlanFixed DEF Course, TurnedAwayAtTheDoor

\* The steps before a plan is made, and those of another route.
LEMMA CourseElsewhere ==
    ASSUME \/ pc' \in {"idle", "arrived", "handle"}
           \/ request'.route # "command"
           \/ pc' = "replied" /\ TurnedAwayAtTheDoor'
    PROVE  Course'
  BY DEF Course

LEMMA CourseBegins ==
    ASSUME Inv, HandleCommand
    PROVE  Course'
<1>1. /\ pc = "handle" /\ call = NoBinding /\ touched = {}
      /\ UNCHANGED <<deployed, request, caps, call, touched>>
  BY DEF HandleCommand, Handling, Follow, Inv, Served, Flow, Fresh, server
<1>2. SUFFICES ASSUME request.wellFormed PROVE Course'
  BY <1>1 DEF Course
<1>3. Follow(CommandPlan)
  BY <1>2 DEF HandleCommand, CommandPlan
<1>4. CASE CommandPlan.code = "CALL"
  <2>1. pc' = "invoke" /\ todo' = {CommandPlan.binding}
    BY <1>3, <1>4 DEF Follow
  <2> QED BY <1>1, <1>4, <2>1, PlanFixed DEF Course
<1>5. CASE CommandPlan.code # "CALL"
  <2>1. pc' = "replied" /\ reply' = WriteError(CommandPlan.code)
    BY <1>3, <1>5 DEF Follow, Reply
  <2>2. WriteError(CommandPlan'.code) = WriteError(CommandPlan.code)
    BY <1>1, PlanFixed
  <2>3. (WriteError(CommandPlan.code))' = WriteError(CommandPlan'.code)
    BY DEF WriteError, StatusForCode
  <2> QED BY <1>1, <1>5, <2>1, <2>2, <2>3, PlanFixed DEF Course
<1> QED BY <1>4, <1>5

LEMMA CourseInvokes ==
    ASSUME Inv, Course, Invoke
    PROVE  Course'
<1>1. PICK b \in todo :
         /\ call' = b
         /\ \/ Invocable(b) /\ pc' = "calling"
            \/ ~Invocable(b) /\ InvocationFails("no_operation")
  BY DEF Invoke
<1>2. pc = "invoke" /\ UNCHANGED <<deployed, request, caps, touched>>
  BY DEF Invoke, server
<1>3. SUFFICES ASSUME request.route = "command", request.wellFormed PROVE Course'
  BY <1>2 DEF Course
<1>4. CommandPlan.code = "CALL" /\ b = CommandPlan.binding /\ touched = {}
  BY <1>1, <1>2, <1>3 DEF Course, Inv, Served, Flow, Fresh
<1>5. CASE Invocable(b) /\ pc' = "calling"
  BY <1>1, <1>2, <1>4, <1>5, PlanFixed DEF Course
<1>6. CASE ~Invocable(b) /\ InvocationFails("no_operation")
  <2>1. pc' = "replied" /\ reply' = 500
    BY <1>3, <1>6, ErrorStatuses DEF InvocationFails, Reply
  <2> QED BY <1>1, <1>2, <1>4, <1>6, <2>1, PlanFixed DEF Course
<1> QED BY <1>1, <1>5, <1>6

LEMMA CourseReturns ==
    ASSUME Inv, Course, CallReturns
    PROVE  Course'
<1>1. /\ pc = "calling" /\ UNCHANGED <<deployed, request, caps, call>>
      /\ pc' = "replied" \/ request.route = "navigation"
  <2>1. CASE CallFails \/ ProxyFails
    BY <2>1 DEF CallFails, ProxyFails, InvocationFails, Reply, server
  <2>2. CASE \/ DataArrives \/ FormDataArrives \/ ItemArrives \/ CommandCompletes \/ BadgeArrives
             \/ ProxyAnswers
    <3>1. \E s : Answered(s)
      BY <2>2, Zenon DEF DataArrives, FormDataArrives, ItemArrives, CommandCompletes, BadgeArrives,
                         ProxyAnswers
    <3>2. request.route = "navigation" \/ \E status, names : Reply(status, names)
      BY <2>2, Zenon DEF DataArrives, FormDataArrives, ItemArrives, CommandCompletes, BadgeArrives,
                         ProxyAnswers
    <3> QED BY <3>1, <3>2 DEF Answered, Reply, server
  <2> QED BY <2>1, <2>2 DEF CallReturns
<1>2. SUFFICES ASSUME request.route = "command", request.wellFormed PROVE Course'
  BY <1>1 DEF Course
<1>3. CommandPlan.code = "CALL" /\ call = CommandPlan.binding /\ Invocable(call)
  BY <1>1, <1>2 DEF Course
<1> QED BY <1>1, <1>2, <1>3, PlanFixed DEF Course

LEMMA CourseStep == Inv /\ Course /\ [Next]_vars => Course'
<1> SUFFICES ASSUME Inv, Course, [Next]_vars PROVE Course'
  OBVIOUS
<1>1. CASE \/ Boot \/ Administer \/ CacheExpires \/ DeadlinePasses \/ CarryOut \/ SendRequest
           \/ Stopped \/ UNCHANGED vars
  BY <1>1, CourseAside
     DEF Boot, Administer, CacheExpires, DeadlinePasses, CarryOut, SendRequest, Stopped, vars,
         server, user, progress, answer
<1>2. CASE Arrive \/ ResolveCapabilities \/ NextRequest
  BY <1>2, CourseElsewhere DEF Arrive, ResolveCapabilities, NextRequest
<1>3. CASE Unauthorized \/ ResolutionFails
  <2>1. pc' = "replied" /\ reply' \in {401, 502} /\ call' = call /\ pc = "arrived"
    BY <1>3, ErrorStatuses DEF Unauthorized, ResolutionFails, Reply
  <2>2. call = NoBinding
    BY <2>1 DEF Inv, Served, Flow, Fresh
  <2>3. TurnedAwayAtTheDoor'
    BY <2>1, <2>2 DEF TurnedAwayAtTheDoor, NoBinding
  <2> QED BY <2>1, <2>3, CourseElsewhere
<1>4. CASE HandleCommand
  BY <1>4, CourseBegins
<1>5. CASE \/ HandleGetPage \/ HandleGetForm \/ HandleGetSchema \/ HandleCapabilities
           \/ HandleGetPageData \/ HandleGetFormData \/ HandleGetResource \/ HandleGetResourceItem
           \/ HandleAction \/ HandleNavigation \/ HandleProxy
  <2>1. request.route # "command"
    BY <1>5 DEF HandleGetPage, HandleGetForm, HandleGetSchema, HandleCapabilities,
                HandleGetPageData, HandleGetFormData, HandleGetResource, HandleGetResourceItem,
                HandleAction, HandleNavigation, HandleProxy, Handling
  <2>2. request' = request
    <3>1. CASE HandleGetPage \/ HandleGetForm \/ HandleGetSchema
      BY <3>1 DEF HandleGetPage, HandleGetForm, HandleGetSchema, Stay
    <3>2. CASE HandleCapabilities \/ HandleNavigation \/ HandleProxy
      BY <3>2 DEF HandleCapabilities, HandleNavigation, HandleProxy
    <3>3. CASE \/ HandleGetPageData \/ HandleGetFormData \/ HandleGetResource
               \/ HandleGetResourceItem \/ HandleAction
      <4>1. \E plan : Follow(plan)
        BY <3>3, Zenon DEF HandleGetPageData, HandleGetFormData, HandleGetResource,
                           HandleGetResourceItem, HandleAction
      <4> QED BY <4>1 DEF Follow
    <3> QED BY <1>5, <3>1, <3>2, <3>3
  <2> QED BY <2>1, <2>2, CourseElsewhere
<1>6. CASE Invoke
  BY <1>6, CourseInvokes
<1>7. CASE CallReturns
  BY <1>7, CourseReturns
<1>8. CASE MenuComplete
  <2>1. request.route = "navigation" /\ request' = request
    BY <1>8 DEF MenuComplete, Stay, Inv, Served, Flow
  <2> QED BY <2>1, CourseElsewhere
<1> QED BY <1>1, <1>2, <1>3, <1>4, <1>5, <1>6, <1>7, <1>8 DEF Next, Serve, Handle

\* The dry run finds fault exactly with what the plan refuses, and with the
\* fault that the refusal tells of.
LEMMA DryRunAgrees ==
    ASSUME NEW id, NEW input, NEW params
    PROVE  LET found == DryRun(registry, index, caps, id, input, params)
               plan == Execute(registry, index, caps, id, input, params)
           IN  /\ plan.code = "CALL" => found = {} /\ plan.binding = registry.commands[id].operation
               /\ plan.code # "CALL" => \E f \in found : WriteError(plan.code) = StatusOfFinding[f]
<1> DEFINE access == CommandAccess(registry, caps, id)
           c == registry.commands[id]
           errors == SchemaErrors(index, c, input, params)
           fields == FieldErrors(index, c, input, params)
           found == DryRun(registry, index, caps, id, input, params)
           plan == Execute(registry, index, caps, id, input, params)
           mapped == MapBody(c.input, input, params)
           maps == InputMaps(c.input, input, params)
<1>1. fields = {} <=> errors = {}
  BY DEF FieldErrors
<1>2. access \in {"NOT_FOUND", "FORBIDDEN", "OK"}
  BY AccessCodes DEF CommandAccess
<1>3. found = IF access # "OK" THEN {access}
              ELSE IF ~maps THEN {"MAPPING_ERROR"}
              ELSE IF fields # {} THEN {"INVALID"} ELSE {}
  BY DEF DryRun
<1>4. plan = IF access # "OK" THEN Refuse(access)
             ELSE IF ~maps THEN Refuse("BAD_REQUEST")
             ELSE IF errors # {} THEN Refuse("VALIDATION_ERROR")
             ELSE Call(c.operation, mapped)
  BY DEF Execute
<1> HIDE DEF access, errors, fields, found, plan, mapped, maps
<1>5. \A code : Refuse(code).code = code
  BY DEF Refuse
<1>6. \A b, x : Call(b, x).code = "CALL" /\ Call(b, x).binding = b
  BY DEF Call
<1>7. /\ StatusOfFinding["NOT_FOUND"] = 404 /\ StatusOfFinding["FORBIDDEN"] = 403
      /\ StatusOfFinding["MAPPING_ERROR"] = 400 /\ StatusOfFinding["INVALID"] = 422
  BY DEF StatusOfFinding
<1>8. CASE access # "OK"
  <2>1. found = {access} /\ plan.code = access
    BY <1>3, <1>4, <1>5, <1>8
  <2>2. WriteError(access) = StatusOfFinding[access]
    BY <1>2, <1>7, <1>8, ErrorStatuses
  <2> QED BY <1>2, <2>1, <2>2 DEF found, plan
<1>9. CASE access = "OK" /\ ~maps
  <2>1. found = {"MAPPING_ERROR"} /\ plan.code = "BAD_REQUEST"
    BY <1>3, <1>4, <1>5, <1>9
  <2> QED BY <1>7, <2>1, ErrorStatuses DEF found, plan
<1>10. CASE access = "OK" /\ maps /\ errors # {}
  <2>1. found = {"INVALID"} /\ plan.code = "VALIDATION_ERROR"
    BY <1>1, <1>3, <1>4, <1>5, <1>10
  <2> QED BY <1>7, <2>1, ErrorStatuses DEF found, plan
<1>11. CASE access = "OK" /\ maps /\ errors = {}
  <2>1. found = {} /\ plan = Call(c.operation, mapped)
    BY <1>1, <1>3, <1>4, <1>11
  <2> QED BY <1>6, <2>1 DEF found, plan
<1> QED BY <1>8, <1>9, <1>10, <1>11

(***************************************************************************)
(* The dry run tells how the executor will decide, for every command,      *)
(* input and set of capabilities: with what it finds, or by invoking the   *)
(* command's operation, which ends in a 500 and nowhere else if there is   *)
(* no backend for it.                                                      *)
(***************************************************************************)
THEOREM DryRunsPredict == Spec => []DryRunPredicts
<1>1. Init => Course
  BY DEF Init, Course
<1>2. Inv /\ Course /\ [Next]_vars => Course'
  BY CourseStep
<1>3. Course => DryRunPredicts
  <2> DEFINE found == DryRun(registry, index, caps, request.id, request.input, request.params)
  <2> SUFFICES ASSUME Course, request.route = "command", request.wellFormed,
                      pc \in {"calling", "replied"}, ~TurnedAwayAtTheDoor
               PROVE  \/ /\ \E f \in found : reply = StatusOfFinding[f]
                         /\ call = NoBinding /\ touched = {}
                      \/ /\ found = {}
                         /\ call = registry.commands[request.id].operation
                         /\ ~Invocable(call) => reply = 500 /\ touched = {}
    BY Zenon DEF DryRunPredicts
  <2>1. /\ CommandPlan.code = "CALL" =>
              found = {} /\ CommandPlan.binding = registry.commands[request.id].operation
        /\ CommandPlan.code # "CALL" =>
              \E f \in found : WriteError(CommandPlan.code) = StatusOfFinding[f]
    BY DryRunAgrees DEF CommandPlan
  <2> HIDE DEF found
  <2> QED BY <2>1 DEF Course
<1>4. Spec => []Inv
  BY InvariantHolds
<1> QED BY <1>1, <1>2, <1>3, <1>4, PTL DEF Spec

-----------------------------------------------------------------------------
(***************************************************************************)
(* What is offered can be found.                                           *)
(***************************************************************************)

(***************************************************************************)
(* NewRegistry loses nothing: what is found under an id has that id, every *)
(* form and command of every file is found under its own, and if no two    *)
(* domains have the same name every domain is there.                       *)
(***************************************************************************)
THEOREM RegistryFinds ==
    ASSUME NEW defs, defs \in Seq(ToSet(defs)),
           \A x \in ToSet(defs) :
              /\ x.pages \in Seq(ToSet(x.pages)) /\ x.forms \in Seq(ToSet(x.forms))
              /\ x.commands \in Seq(ToSet(x.commands))
    PROVE  LET r == NewRegistry(defs)
           IN  /\ \A i \in DOMAIN r.pages : r.pages[i].id = i
               /\ \A i \in DOMAIN r.forms : r.forms[i].id = i
               /\ \A x \in ToSet(defs) :
                     IDs(x.forms) \subseteq DOMAIN r.forms /\ IDs(x.commands) \subseteq DOMAIN r.commands
               /\ (\A x, y \in ToSet(defs) : x.name = y.name => x = y)
                     => ToSet(defs) \subseteq AllDomains(r)
<1> DEFINE n == Len(defs)
           r == NewRegistry(defs)
           pages == [m \in DOMAIN defs |-> defs[m].pages]
           forms == [m \in DOMAIN defs |-> defs[m].forms]
           commands == [m \in DOMAIN defs |-> defs[m].commands]
           names == {x.name : x \in ToSet(defs)}
           of(name) == {m \in 1..n : defs[m].name = name}
<1>1. /\ n \in Nat /\ DOMAIN defs = 1..n /\ \A m \in 1..n : defs[m] \in ToSet(defs)
      /\ \A x \in ToSet(defs) : \E m \in 1..n : x = defs[m]
  BY DEF ToSet
<1>2. /\ r.pages = ById(pages) /\ r.forms = ById(forms) /\ r.commands = ById(commands)
  BY DEF NewRegistry
<1>3. r.domains = [name \in names |-> defs[IF of(name) # {} THEN Max(of(name)) ELSE 0]]
  BY DEF NewRegistry, SelectLastInSeq
<1>4. \A i \in DOMAIN r.pages : r.pages[i].id = i
  <2>1. DOMAIN pages = 1..n /\ \A m \in 1..n : pages[m] \in Seq(ToSet(pages[m]))
    BY <1>1
  <2>2. \A i \in DOMAIN ById(pages) : ById(pages)[i].id = i
    BY <1>1, <2>1, ByIdFinds
  <2> QED BY <1>2, <2>2
<1>5. /\ \A i \in DOMAIN r.forms : r.forms[i].id = i
      /\ \A x \in ToSet(defs) : IDs(x.forms) \subseteq DOMAIN r.forms
  <2>1. DOMAIN forms = 1..n /\ \A m \in 1..n : forms[m] \in Seq(ToSet(forms[m]))
    BY <1>1
  <2>2. /\ \A i \in DOMAIN ById(forms) : ById(forms)[i].id = i
        /\ DOMAIN ById(forms) = UNION {IDs(forms[m]) : m \in 1..n}
    BY <1>1, <2>1, ByIdFinds
  <2>3. \A m \in 1..n : forms[m] = defs[m].forms
    BY <1>1
  <2> HIDE DEF forms, n
  <2>4. \A m \in 1..n : IDs(defs[m].forms) \subseteq DOMAIN ById(forms)
    BY <2>2, <2>3
  <2> QED BY <1>1, <1>2, <2>2, <2>4
<1>6. \A x \in ToSet(defs) : IDs(x.commands) \subseteq DOMAIN r.commands
  <2>1. DOMAIN commands = 1..n /\ \A m \in 1..n : commands[m] \in Seq(ToSet(commands[m]))
    BY <1>1
  <2>2. DOMAIN ById(commands) = UNION {IDs(commands[m]) : m \in 1..n}
    BY <1>1, <2>1, ByIdFinds
  <2>3. \A m \in 1..n : commands[m] = defs[m].commands
    BY <1>1
  <2> HIDE DEF commands, n
  <2>4. \A m \in 1..n : IDs(defs[m].commands) \subseteq DOMAIN ById(commands)
    BY <2>2, <2>3
  <2> QED BY <1>1, <1>2, <2>4
<1>7. ASSUME \A x, y \in ToSet(defs) : x.name = y.name => x = y, NEW x \in ToSet(defs)
      PROVE  x \in AllDomains(r)
  <2>1. x.name \in names /\ of(x.name) # {} /\ of(x.name) \in SUBSET 1..n
    BY <1>1
  <2>2. Max(of(x.name)) \in of(x.name)
    BY <1>1, <2>1, Greatest
  <2>3. r.domains[x.name] = defs[Max(of(x.name))]
    BY <1>3, <2>1
  <2>4. defs[Max(of(x.name))] \in ToSet(defs) /\ defs[Max(of(x.name))].name = x.name
    BY <1>1, <2>2
  <2>5. r.domains[x.name] = x
    BY <1>7, <2>3, <2>4
  <2>6. x.name \in DOMAIN r.domains
    BY <1>3, <2>1
  <2> HIDE DEF r, names, of
  <2> QED BY <2>5, <2>6 DEF AllDomains
<1> QED BY <1>4, <1>5, <1>6, <1>7

\* The first action of a domain's pages with an id is one of them, and there
\* is a first one if there is any.
LEMMA FirstActionIs ==
    ASSUME NEW d, d.pages \in Seq(ToSet(d.pages)),
           \A p \in ToSet(d.pages) : p.actions \in Seq(ToSet(p.actions)), NEW id
    PROVE  /\ FirstAction(d, id) \subseteq UNION {ToSet(p.actions) : p \in ToSet(d.pages)}
           /\ (\E p \in ToSet(d.pages) : \E a \in ToSet(p.actions) : a.id = id)
                 => FirstAction(d, id) # {}
<1> DEFINE named(p) == {k \in 1..Len(p.actions) : p.actions[k].id = id}
           Action(p) == SelectInSeq(p.actions, LAMBDA a : a.id = id)
           paged == {m \in 1..Len(d.pages) : Action(d.pages[m]) # 0}
           n == SelectInSeq(d.pages, LAMBDA p : Action(p) # 0)
<1>1. \A p : Action(p) = IF named(p) # {} THEN Min(named(p)) ELSE 0
  BY DEF SelectInSeq
<1>2. n = IF paged # {} THEN Min(paged) ELSE 0
  BY DEF SelectInSeq
<1>3. FirstAction(d, id) = IF n = 0 THEN {} ELSE {d.pages[n].actions[Action(d.pages[n])]}
  BY DEF FirstAction
<1>4. paged \in SUBSET Nat /\ \A p : named(p) \in SUBSET Nat
  <2> HIDE DEF Action
  <2> QED OBVIOUS
<1>5. \A m \in 1..Len(d.pages) : d.pages[m] \in ToSet(d.pages)
  BY DEF ToSet
<1> HIDE DEF n
<1>6. n # 0 => n \in paged
  BY <1>2, <1>4, Least
<1>7. ASSUME NEW p \in ToSet(d.pages)
      PROVE  /\ Action(p) # 0 => p.actions[Action(p)] \in ToSet(p.actions)
             /\ (\E a \in ToSet(p.actions) : a.id = id) => Action(p) # 0
  <2>1. p.actions \in Seq(ToSet(p.actions))
    OBVIOUS
  <2>2. named(p) # {} => Min(named(p)) \in named(p)
    BY <1>4, Least
  <2>3. (\E a \in ToSet(p.actions) : a.id = id) => named(p) # {}
    <3> HIDE DEF Action
    <3>1. named(p) = {m \in 1..Len(p.actions) : p.actions[m].id = id}
      BY Zenon
    <3>2. \A a \in ToSet(p.actions) : \E m \in 1..Len(p.actions) : a = p.actions[m]
      BY <2>1 DEF ToSet
    <3> HIDE DEF named
    <3> QED BY <3>1, <3>2
  <2> HIDE DEF Action
  <2>4. Action(p) # 0 => Action(p) \in named(p)
    BY <1>1, <2>2
  <2>5. named(p) # {} => Action(p) # 0
    BY <1>1, <2>2
  <2> QED BY <2>1, <2>3, <2>4, <2>5 DEF ToSet
<1>8. FirstAction(d, id) \subseteq UNION {ToSet(p.actions) : p \in ToSet(d.pages)}
  <2> HIDE DEF Action
  <2> QED BY <1>3, <1>5, <1>6, <1>7
<1>9. ASSUME NEW p \in ToSet(d.pages), \E a \in ToSet(p.actions) : a.id = id
      PROVE  FirstAction(d, id) # {}
  <2>1. Action(p) # 0
    BY <1>7, <1>9
  <2>2. PICK m \in 1..Len(d.pages) : p = d.pages[m]
    BY DEF ToSet
  <2>3. m \in paged
    BY <2>1, <2>2
  <2>4. n \in paged
    BY <1>2, <1>4, <2>3, Least
  <2>5. n # 0
    BY <2>4
  <2> QED BY <1>3, <2>5
<1> QED BY <1>8, <1>9

\* What a domain that passes validation refers to is defined in it.
LEMMA ValidatedRefers ==
    ASSUME NEW d, NEW ix, ValidateDomain(d, ix) = {}
    PROVE  /\ \A f \in ToSet(d.forms) : f.submit \in IDs(d.commands)
           /\ \A p \in ToSet(d.pages) : \A a \in ToSet(p.actions) :
                 /\ a.type = "form" => a.form \in IDs(d.forms) \cup {<< >>}
                 /\ a.type \in {"command", "confirm"} => a.command \in IDs(d.commands) \cup {<< >>}
<1> DEFINE formIDs == IDs(d.forms)
           commandIDs == IDs(d.commands)
           actions == UNION {ToSet(p.actions) : p \in ToSet(d.pages)}
           others == Complaint(d.name = << >>, "REQUIRED", "domain")
                     \cup Complaint(~d.versioned, "REQUIRED", "version")
                     \cup Complaint(~d.labelled, "REQUIRED", "navigation.label")
                     \cup Complaint(d.children = << >>, "REQUIRED", "navigation.children")
                     \cup (UNION {ValidatePage(p, d.name, ix) : p \in ToSet(d.pages)})
           commands == UNION {ValidateCommand(c, d.name, ix) : c \in ToSet(d.commands)}
<1>1. \A wrong, code, field : Complaint(wrong, code, field) = {} => ~wrong
  BY DEF Complaint
<1>2. ValidateDomain(d, ix) =
          others \cup (UNION {ValidateForm(f, commandIDs) : f \in ToSet(d.forms)}) \cup commands
          \cup (UNION {ValidateActionRef(a, formIDs, commandIDs) : a \in actions})
  BY Zenon DEF ValidateDomain
<1> HIDE DEF others, commands
<1>3. ASSUME NEW f \in ToSet(d.forms)
      PROVE  f.submit \in IDs(d.commands)
  <2>1. ValidateForm(f, IDs(d.commands)) = {}
    BY <1>2
  <2>2. /\ Complaint(f.submit = << >>, "REQUIRED", "submit_command") = {}
        /\ Complaint(f.submit \notin IDs(d.commands) \cup {<< >>}, "REF_NOT_FOUND", "submit_command") = {}
    BY <2>1 DEF ValidateForm
  <2> QED BY <1>1, <2>2
<1>4. ASSUME NEW p \in ToSet(d.pages), NEW a \in ToSet(p.actions)
      PROVE  /\ a.type = "form" => a.form \in IDs(d.forms) \cup {<< >>}
             /\ a.type \in {"command", "confirm"} => a.command \in IDs(d.commands) \cup {<< >>}
  <2>1. a \in actions
    OBVIOUS
  <2> HIDE DEF actions
  <2>2. ValidateActionRef(a, IDs(d.forms), IDs(d.commands)) = {}
    BY <1>2, <2>1
  <2>3. /\ Complaint(a.type = "form" /\ a.form \notin IDs(d.forms) \cup {<< >>},
                     "REF_NOT_FOUND", "form_id") = {}
        /\ Complaint(/\ a.type \in {"command", "confirm"}
                     /\ a.command \notin IDs(d.commands) \cup {<< >>},
                     "REF_NOT_FOUND", "command_id") = {}
    BY <2>2 DEF ValidateActionRef
  <2> QED BY <1>1, <2>3
<1> QED BY <1>3, <1>4

(***************************************************************************)
(* What the validator does not see to: that domains have names of their    *)
(* own, and that an action names a command only to carry it out and a form *)
(* only to open it.                                                        *)
(***************************************************************************)
WellNamed ==
    \A d \in DOMAIN Deployment :
        LET defs == DefinitionsOf[d]
        IN  /\ \A x, y \in ToSet(defs) : x.name = y.name => x = y
            /\ \A x \in ToSet(defs) : \A p \in ToSet(x.pages) : \A a \in ToSet(p.actions) :
                  /\ a.command # << >> => a.type \in {"command", "confirm"}
                  /\ a.form # << >> => a.type = "form"

Validated == Validate(DefinitionsOf[deployed], IndexOf[deployed]) = {}

LEMMA ReferencesFound ==
    ASSUME WellNamed, deployed \in DOMAIN Deployment, Validated
    PROVE  /\ \A x \in DomainsLoaded : \A f \in ToSet(x.forms) : Found("command", f.submit)
           /\ \A x \in DomainsLoaded : \A p \in ToSet(x.pages) : \A a \in ToSet(p.actions) :
                 /\ Found("action", a.id)
                 /\ a.command # << >> => Found("command", a.command)
                 /\ a.form # << >> => Found("form", a.form)
<1> DEFINE defs == LoadAll(Deployment[deployed].files)
<1>1. /\ DefinitionsOf[deployed] = defs /\ registry = NewRegistry(defs) /\ DomainsLoaded = ToSet(defs)
  BY DEF DefinitionsOf, registry, RegistryOf, DomainsLoaded
<1>2. /\ defs \in Seq(ToSet(defs))
      /\ \A x \in ToSet(defs) :
            /\ x.pages \in Seq(ToSet(x.pages)) /\ x.forms \in Seq(ToSet(x.forms))
            /\ x.commands \in Seq(ToSet(x.commands))
            /\ \A p \in ToSet(x.pages) : p.actions \in Seq(ToSet(p.actions))
  BY FilesAssumption
<1>3. /\ \A x, y \in ToSet(defs) : x.name = y.name => x = y
      /\ \A x \in ToSet(defs) : \A p \in ToSet(x.pages) : \A a \in ToSet(p.actions) :
            /\ a.command # << >> => a.type \in {"command", "confirm"}
            /\ a.form # << >> => a.type = "form"
  BY <1>1 DEF WellNamed
<1> HIDE DEF defs
<1>4. /\ ToSet(defs) \subseteq AllDomains(registry)
      /\ \A x \in ToSet(defs) : /\ IDs(x.forms) \subseteq DOMAIN registry.forms
                                /\ IDs(x.commands) \subseteq DOMAIN registry.commands
  BY <1>1, <1>2, <1>3, RegistryFinds
<1>5. AllDomains(registry) \subseteq ToSet(defs)
  BY <1>1, <1>2, RegistryHolds
<1>6. \A x \in ToSet(defs) : ValidateDomain(x, IndexOf[deployed]) = {}
  BY <1>1 DEF Validated, Validate
<1>7. ASSUME NEW x \in ToSet(defs), NEW p \in ToSet(x.pages), NEW a \in ToSet(p.actions)
      PROVE  /\ a.command # << >> => a.command \in DOMAIN registry.commands
             /\ a.form # << >> => a.form \in DOMAIN registry.forms
  BY <1>3, <1>4, <1>6, <1>7, ValidatedRefers
<1>8. ASSUME NEW x \in ToSet(defs), NEW f \in ToSet(x.forms)
      PROVE  Found("command", f.submit)
  <2>1. f.submit \in DOMAIN registry.commands
    BY <1>4, <1>6, ValidatedRefers
  <2> QED BY <2>1 DEF Found
<1>9. ASSUME NEW x \in ToSet(defs), NEW p \in ToSet(x.pages), NEW a \in ToSet(p.actions)
      PROVE  Found("action", a.id)
  <2>1. FirstAction(x, a.id) # {}
    BY <1>2, FirstActionIs
  <2>2. ActionsNamed(a.id) # {}
    BY <1>4, <2>1 DEF ActionsNamed
  <2>3. ASSUME NEW b \in ActionsNamed(a.id), b.command # << >>
        PROVE  b.command \in DOMAIN registry.commands
    <3>1. PICK y \in ToSet(defs) : b \in FirstAction(y, a.id)
      BY <1>5 DEF ActionsNamed
    <3>2. FirstAction(y, a.id) \subseteq UNION {ToSet(q.actions) : q \in ToSet(y.pages)}
      BY <1>2, FirstActionIs
    <3>3. \E q \in ToSet(y.pages) : b \in ToSet(q.actions)
      BY <3>1, <3>2
    <3> QED BY <1>7, <2>3, <3>3
  <2> QED BY <2>2, <2>3 DEF Found
<1>10. ASSUME NEW x \in ToSet(defs), NEW p \in ToSet(x.pages), NEW a \in ToSet(p.actions)
       PROVE  /\ a.command # << >> => Found("command", a.command)
              /\ a.form # << >> => Found("form", a.form)
  BY <1>7 DEF Found
<1> QED BY <1>1, <1>8, <1>9, <1>10

LEMMA PagesHaveIds ==
    ASSUME deployed \in DOMAIN Deployment
    PROVE  /\ \A i \in DOMAIN registry.pages : registry.pages[i].id = i
           /\ \A i \in DOMAIN registry.forms : registry.forms[i].id = i
<1> DEFINE defs == LoadAll(Deployment[deployed].files)
<1>1. registry = NewRegistry(defs)
  BY DEF DefinitionsOf, registry, RegistryOf
<1>2. /\ defs \in Seq(ToSet(defs))
      /\ \A x \in ToSet(defs) :
            /\ x.pages \in Seq(ToSet(x.pages)) /\ x.forms \in Seq(ToSet(x.forms))
            /\ x.commands \in Seq(ToSet(x.commands))
  BY FilesAssumption
<1> HIDE DEF defs
<1> QED BY <1>1, <1>2, RegistryFinds

\* What is offered was found when it was offered, and still is.
Offers ==
    /\ phase # "up" => pc = "idle" /\ offered.screen = {}
    /\ phase = "up" => Validated
    /\ \A t \in offered.screen : Found(t.route, t.id)

LEMMA PageOffers ==
    ASSUME WellNamed, Inv, Validated, HandleGetPage
    PROVE  \A t \in offered'.screen : t \in offered.screen \/ Found(t.route, t.id)
<1> DEFINE access == PageAccess(registry, caps, request.id)
           p == registry.pages[request.id]
           actions == GetPage(caps, p).actions
<1>1. deployed \in DOMAIN Deployment
  BY DEF Inv, Surroundings
<1> DEFINE leads == ActionTargets(actions)
                    \cup {Named("page_data", GetPage(caps, p).id) : t \in GetPage(caps, p).table}
<1>2. \/ offered' = offered
      \/ access = "OK" /\ offered'.screen = leads
  <2>1. \/ offered' = offered
        \/ access = "OK" /\ \E rows : offered' = [screen |-> leads, rows |-> rows]
    BY Zenon DEF HandleGetPage
  <2> HIDE DEF access, leads
  <2> QED BY <2>1
<1>3. SUFFICES ASSUME access = "OK",
                      NEW t \in ActionTargets(actions) \cup {Named("page_data", GetPage(caps, p).id)}
               PROVE  Found(t.route, t.id)
  <2> HIDE DEF access, p, actions
  <2> QED BY <1>2
<1>4. request.id \in DOMAIN registry.pages /\ GetPage(caps, p).id = p.id
  <2>1. GetPage(caps, p).id = p.id
    BY DEF GetPage
  <2>2. access = "OK" => request.id \in DOMAIN registry.pages
    BY DEF PageAccess, Access
  <2> QED BY <1>3, <2>1, <2>2
<1>5. p.id = request.id
  BY <1>1, <1>4, PagesHaveIds
<1>6. PICK x \in DomainsLoaded : p \in ToSet(x.pages)
  BY <1>1, <1>4, Loaded
<1>7. \A route, id : Named(route, id).route = route /\ Named(route, id).id = id
  BY DEF Named
<1>8. CASE t = Named("page_data", GetPage(caps, p).id)
  BY <1>4, <1>5, <1>7, <1>8 DEF Found
<1>9. CASE t \in ActionTargets(actions)
  <2>1. actions = ResolveActions(caps, p.actions, << >>)
    BY DEF GetPage
  <2> HIDE DEF actions, p
  <2>2. PICK b \in actions : \/ t = Named("action", b.id)
                             \/ b.command # << >> /\ t = Named("command", b.command)
                             \/ b.form # << >> /\ t = Named("form", b.form)
    BY <1>9 DEF ActionTargets
  <2>3. PICK a \in ToSet(p.actions) : b = ResolveAction(a, << >>)
    BY <2>1 DEF ResolveActions
  <2>4. b.id = a.id /\ b.command = a.command /\ b.form = a.form
    BY <2>3, Zenon DEF ResolveAction
  <2>5. /\ Found("action", a.id)
        /\ a.command # << >> => Found("command", a.command)
        /\ a.form # << >> => Found("form", a.form)
    BY <1>1, <1>6, ReferencesFound
  <2> QED BY <1>7, <2>2, <2>4, <2>5
<1> QED BY <1>3, <1>8, <1>9

LEMMA FormOffers ==
    ASSUME WellNamed, Inv, Validated, HandleGetForm
    PROVE  \A t \in offered'.screen : t \in offered.screen \/ Found(t.route, t.id)
<1> DEFINE access == FormAccess(registry, caps, request.id)
           f == registry.forms[request.id]
<1>1. deployed \in DOMAIN Deployment
  BY DEF Inv, Surroundings
<1> DEFINE leads == {Named("command", GetForm(caps, f).submit), Named("form_data", GetForm(caps, f).id)}
<1>2. \/ offered' = offered
      \/ access = "OK" /\ offered'.screen = leads
  <2>1. \/ offered' = offered
        \/ access = "OK" /\ offered' = [screen |-> leads, rows |-> {}]
    BY Zenon DEF HandleGetForm
  <2> HIDE DEF access, leads
  <2> QED BY <2>1
<1>3. SUFFICES ASSUME access = "OK"
               PROVE  Found("command", GetForm(caps, f).submit) /\ Found("form_data", GetForm(caps, f).id)
  <2>1. \A route, id : Named(route, id).route = route /\ Named(route, id).id = id
    BY DEF Named
  <2> HIDE DEF access, f
  <2> QED BY <1>2, <2>1
<1>4. request.id \in DOMAIN registry.forms
  BY <1>3 DEF FormAccess, Access
<1>5. GetForm(caps, f).submit = f.submit /\ GetForm(caps, f).id = f.id
  BY DEF GetForm
<1>6. f.id = request.id
  BY <1>1, <1>4, PagesHaveIds
<1>7. PICK x \in DomainsLoaded : f \in ToSet(x.forms)
  BY <1>1, <1>4, Loaded
<1>8. Found("command", f.submit)
  BY <1>1, <1>7, ReferencesFound
<1>9. Found("form_data", f.id)
  BY <1>4, <1>6 DEF Found
<1> HIDE DEF f
<1> QED BY <1>5, <1>8, <1>9

\* Only pages and forms offer anything, and nothing is served before the
\* server is up.
LEMMA OnlyScreensOffer ==
    ASSUME [Next]_vars
    PROVE  \/ Boot
           \/ /\ UNCHANGED <<deployed, phase>>
              /\ pc = "idle" => pc' = "idle" \/ phase = "up"
              /\ HandleGetPage \/ HandleGetForm \/ offered' = offered
<1>1. CASE \/ Administer \/ CacheExpires \/ DeadlinePasses \/ CarryOut \/ Stopped \/ UNCHANGED vars
  BY <1>1 DEF Administer, CacheExpires, DeadlinePasses, CarryOut, Stopped, vars,
              server, user, progress, answer
<1>2. CASE Arrive \/ Unauthorized \/ ResolveCapabilities \/ ResolutionFails \/ NextRequest
  BY <1>2 DEF Arrive, Unauthorized, ResolveCapabilities, ResolutionFails, NextRequest, server, answer
<1>3. CASE HandleGetPage \/ HandleGetForm
  BY <1>3 DEF HandleGetPage, HandleGetForm, Handling, Stay, server
<1>4. CASE HandleGetSchema
  BY <1>4 DEF HandleGetSchema, Handling, Stay, server
<1>5. CASE HandleCapabilities
  BY <1>5 DEF HandleCapabilities, Handling, server
<1>6. CASE HandleGetPageData \/ HandleGetFormData \/ HandleGetResource \/ HandleGetResourceItem
  BY <1>6 DEF HandleGetPageData, HandleGetFormData, HandleGetResource, HandleGetResourceItem,
              Handling, Follow, server
<1>7. CASE HandleCommand \/ HandleAction
  BY <1>7 DEF HandleCommand, HandleAction, Handling, Follow, server
<1>8. CASE HandleNavigation \/ HandleProxy
  BY <1>8 DEF HandleNavigation, HandleProxy, Handling, server, answer
<1>9. CASE Invoke \/ SendRequest \/ MenuComplete
  BY <1>9 DEF Invoke, SendRequest, MenuComplete, Stay, server, answer
<1>10. CASE CallFails \/ ProxyFails
  BY <1>10 DEF CallFails, ProxyFails, server
<1>11. CASE \/ DataArrives \/ FormDataArrives \/ ItemArrives \/ CommandCompletes \/ BadgeArrives
            \/ ProxyAnswers
  <2>1. \E s : Answered(s)
    BY <1>11, Zenon DEF DataArrives, FormDataArrives, ItemArrives, CommandCompletes, BadgeArrives,
                        ProxyAnswers
  <2> QED BY <2>1 DEF Answered, server
<1> QED BY <1>1, <1>2, <1>3, <1>4, <1>5, <1>6, <1>7, <1>8, <1>9, <1>10, <1>11
        DEF Next, Serve, Handle, CallReturns

(***************************************************************************)
(* Given names of their own, what a page, leaving the actions of its table *)
(* aside, or a form leads to is never answered with a 404: what the        *)
(* validator checks at boot is enough.                                     *)
(***************************************************************************)
THEOREM OffersHonoured ==
    ASSUME WellNamed
    PROVE  Spec => []OffersAreHonoured
<1>1. Init => Offers
  BY DEF Init, Offers
<1>2. Inv /\ Offers /\ [Next]_vars => Offers'
  <2> SUFFICES ASSUME Inv, Offers, [Next]_vars PROVE Offers'
    OBVIOUS
  <2>1. CASE Boot
    <3>1. /\ phase = "booting" /\ phase' \in {"up", "fatal"}
          /\ phase' = "up" => Validated
          /\ UNCHANGED <<deployed, pc, offered>>
      BY <2>1 DEF Boot, Validated, progress, answer
    <3>2. pc = "idle" /\ offered.screen = {}
      BY <3>1 DEF Offers
    <3>3. Validated' <=> Validated
      BY <3>1 DEF Validated
    <3> QED BY <3>1, <3>2, <3>3 DEF Offers
  <2>2. CASE /\ UNCHANGED <<deployed, phase>>
             /\ pc = "idle" => pc' = "idle" \/ phase = "up"
             /\ HandleGetPage \/ HandleGetForm \/ offered' = offered
    <3>1. \A t \in offered'.screen : t \in offered.screen \/ Found(t.route, t.id)
      <4>1. HandleGetPage \/ HandleGetForm => Validated
        BY DEF HandleGetPage, HandleGetForm, Handling, Offers
      <4> QED BY <2>2, <4>1, PageOffers, FormOffers
    <3>2. phase # "up" => offered' = offered
      BY <2>2 DEF HandleGetPage, HandleGetForm, Handling, Offers
    <3>3. \A route, id : (Found(route, id))' <=> Found(route, id)
      <4>1. registry' = registry
        BY <2>2 DEF registry
      <4>2. AllDomains(registry)' = AllDomains(registry)
        BY <4>1 DEF AllDomains
      <4>3. \A id : (ActionsNamed(id))' = ActionsNamed(id)
        BY <4>2 DEF ActionsNamed
      <4> QED BY <4>1, <4>3 DEF Found
    <3>4. Validated' <=> Validated
      BY <2>2 DEF Validated
    <3>5. \A t \in offered'.screen : (Found(t.route, t.id))'
      BY <3>1, <3>3 DEF Offers
    <3> QED BY <2>2, <3>2, <3>4, <3>5 DEF Offers
  <2> QED BY <2>1, <2>2, OnlyScreensOffer
<1>3. Inv /\ Offers => OffersAreHonoured
  <2> SUFFICES ASSUME Inv, Offers, reply = 404,
                      Named(request.route, request.id) \in offered.screen
               PROVE  FALSE
    BY DEF OffersAreHonoured
  <2>1. Found(request.route, request.id)
    BY DEF Offers, Named
  <2> QED BY <2>1 DEF Inv, Served, Ends, NotFoundMeansAbsent
<1>4. Spec => []Inv
  BY InvariantHolds
<1> QED BY <1>1, <1>2, <1>3, <1>4, PTL DEF Spec
-----------------------------------------------------------------------------
(***************************************************************************)
(* That every request gets on.  First, that a handler can make something   *)
(* of whatever a backend sends, and that a menu has finitely many badges.  *)
(***************************************************************************)
LEMMA RenamedExists ==
    ASSUME NEW row, NEW fieldMap
    PROVE  Renamed(row, fieldMap) # {}
<1> DEFINE Sources(name) == {k \in DOMAIN row : Rename(fieldMap, k) = name}
           names == {Rename(fieldMap, k) : k \in DOMAIN row}
           r == [name \in names |-> row[CHOOSE k \in Sources(name) : TRUE]]
<1>1. ASSUME NEW name \in names
      PROVE  \E k \in Sources(name) : r[name] = row[k]
  <2>1. (CHOOSE k \in Sources(name) : TRUE) \in Sources(name)
    OBVIOUS
  <2> QED BY <2>1
<1>2. r \in [names -> {row[k] : k \in DOMAIN row}]
  BY <1>1
<1> HIDE DEF r
<1>3. r \in Renamed(row, fieldMap)
  BY <1>1, <1>2 DEF Renamed
<1> QED BY <1>3

LEMMA MappingExists ==
    ASSUME NEW b, NEW mapping
    PROVE  ApplyResponseMapping(b, mapping) # {}
<1> DEFINE rows == IF b.object /\ mapping.items \in DOMAIN b.lists
                   THEN b.lists[mapping.items] ELSE << >>
           total == IF b.object /\ mapping.total \in DOMAIN b.numbers
                    THEN b.numbers[mapping.total] ELSE 0
           all == UNION {Renamed(rows[n], mapping.fieldMap) : n \in DOMAIN rows}
           s == [n \in DOMAIN rows |-> CHOOSE r \in Renamed(rows[n], mapping.fieldMap) : TRUE]
<1>1. ASSUME NEW n \in DOMAIN rows
      PROVE  s[n] \in Renamed(rows[n], mapping.fieldMap)
  <2> HIDE DEF rows
  <2>1. Renamed(rows[n], mapping.fieldMap) # {}
    BY RenamedExists
  <2> QED BY <2>1
<1>2. s \in [DOMAIN rows -> all]
  <2> HIDE DEF rows
  <2> QED BY <1>1
<1> HIDE DEF s
<1>3. [items |-> s, total |-> IF total = 0 THEN Len(rows) ELSE total] \in ApplyResponseMapping(b, mapping)
  <2> HIDE DEF rows, total
  <2>1. s \in {t \in [DOMAIN rows -> all] :
                  \A n \in DOMAIN rows : t[n] \in Renamed(rows[n], mapping.fieldMap)}
    BY <1>1, <1>2
  <2> QED BY <2>1 DEF ApplyResponseMapping, rows, total
<1> QED BY <1>3

LEMMA FormDataExists ==
    ASSUME NEW f, NEW source, NEW b
    PROVE  FormData(f, source, b) # {}
<1>1. Renamed(b.fields, source.mapping.fieldMap) # {}
  BY RenamedExists
<1> QED BY <1>1 DEF FormData

LEMMA ListIsFinite ==
    ASSUME NEW list, list \in Seq(ToSet(list))
    PROVE  IsFiniteSet(ToSet(list))
<1>1. Len(list) \in Nat /\ DOMAIN list = 1..Len(list)
  OBVIOUS
<1>2. list \in Surjection(1..Len(list), ToSet(list))
  BY <1>1 DEF Surjection, ToSet
<1>3. IsFiniteSet(1..Len(list))
  BY <1>1, FS_Interval
<1> QED BY <1>2, <1>3, FS_Surjection

LEMMA ImageIsFinite ==
    ASSUME NEW f, IsFiniteSet(DOMAIN f)
    PROVE  IsFiniteSet({f[x] : x \in DOMAIN f})
<1>1. [x \in DOMAIN f |-> f[x]] \in Surjection(DOMAIN f, {f[x] : x \in DOMAIN f})
  BY DEF Surjection
<1> QED BY <1>1, FS_Surjection

LEMMA BadgesFinite ==
    ASSUME deployed \in DOMAIN Deployment
    PROVE  IsFiniteSet(Badges(registry, caps))
<1> DEFINE Of(d) == {BadgeBinding(d, c) : c \in ToSet(d.children)}
           of == [d \in DomainsLoaded |-> Of(d)]
<1>1. /\ IsFiniteSet(DomainsLoaded)
      /\ \A d \in DomainsLoaded : IsFiniteSet(ToSet(d.children))
  <2> DEFINE defs == LoadAll(Deployment[deployed].files)
  <2>1. /\ DomainsLoaded = ToSet(defs) /\ defs \in Seq(ToSet(defs))
        /\ \A d \in ToSet(defs) : d.children \in Seq(ToSet(d.children))
    BY FilesAssumption DEF DomainsLoaded, DefinitionsOf
  <2> HIDE DEF defs
  <2> QED BY <2>1, ListIsFinite
<1>2. ASSUME NEW d \in DomainsLoaded PROVE IsFiniteSet(Of(d))
  <2> DEFINE g == [c \in ToSet(d.children) |-> BadgeBinding(d, c)]
  <2>1. IsFiniteSet({g[c] : c \in DOMAIN g})
    BY <1>1, ImageIsFinite
  <2>2. {g[c] : c \in DOMAIN g} = Of(d)
    OBVIOUS
  <2> QED BY <2>1, <2>2
<1>3. IsFiniteSet({of[d] : d \in DOMAIN of})
  <2>1. DOMAIN of = DomainsLoaded
    OBVIOUS
  <2> HIDE DEF of
  <2> QED BY <1>1, <2>1, ImageIsFinite
<1>4. IsFiniteSet(UNION {of[d] : d \in DOMAIN of})
  <2>1. \A T \in {of[d] : d \in DOMAIN of} : IsFiniteSet(T)
    BY <1>2
  <2> HIDE DEF of
  <2> QED BY <1>3, <2>1, FS_UNION
<1>5. Badges(registry, caps) \subseteq UNION {of[d] : d \in DOMAIN of}
  <2> SUFFICES ASSUME NEW b \in Badges(registry, caps)
               PROVE  b \in UNION {of[d] : d \in DOMAIN of}
    OBVIOUS
  <2>1. PICK d \in MenuDomains(registry, caps) : \E c \in MenuChildren(caps, d) : b = BadgeBinding(d, c)
    BY DEF Badges
  <2>2. d \in DomainsLoaded /\ \E c \in ToSet(d.children) : b = BadgeBinding(d, c)
    BY <2>1, Loaded DEF MenuDomains, MenuChildren
  <2>3. b \in of[d]
    BY <2>1, <2>2
  <2> QED BY <2>2, <2>3
<1> QED BY <1>4, <1>5, FS_Subset
-----------------------------------------------------------------------------
(***************************************************************************)
(* What a request that waits for an answer can count on: the call has not  *)
(* returned yet, it is one of those that were planned, and what the        *)
(* handler will need is there, the command that was carried out and a page *)
(* of the resource.                                                        *)
(***************************************************************************)
Calls == {"page_data", "form_data", "resource", "resource_item", "command", "action",
          "navigation", "upload", "download"}

Awaited(b) ==
    /\ request.route \in {"command", "action"} => \E c \in CommandsOf(request) : c.operation = b
    /\ request.route = "resource" => ListPages(registry, request.id) # {}

Waiting ==
    /\ pc \in {"idle", "arrived", "handle", "calling"} => outcome = "none"
    /\ pc \in {"invoke", "calling"} => request.route \in Calls
    /\ IsFiniteSet(todo)
    /\ \A b \in todo : Awaited(b)
    /\ pc = "calling" => Awaited(call) /\ call \notin todo

LEMMA SameAwaited ==
    ASSUME UNCHANGED <<deployed, request>>
    PROVE  \A b : (Awaited(b))' <=> Awaited(b)
<1>1. registry' = registry
  BY DEF registry
<1>2. AllDomains(registry)' = AllDomains(registry)
  BY <1>1 DEF AllDomains
<1>3. \A id : (ActionsNamed(id))' = ActionsNamed(id)
  BY <1>2 DEF ActionsNamed
<1>4. CommandsOf(request)' = CommandsOf(request)
  BY <1>1, <1>3 DEF CommandsOf
<1>5. ListPages(registry, request.id)' = ListPages(registry, request.id)
  BY <1>1, <1>2 DEF ListPages
<1> QED BY <1>4, <1>5 DEF Awaited

\* What is executed is the operation of the command.
LEMMA ExecuteOperation ==
    ASSUME NEW id, NEW input, NEW params,
           Execute(registry, index, caps, id, input, params).code = "CALL"
    PROVE  /\ id \in DOMAIN registry.commands
           /\ Execute(registry, index, caps, id, input, params).binding
                  = registry.commands[id].operation
<1> DEFINE plan == Execute(registry, index, caps, id, input, params)
           access == CommandAccess(registry, caps, id)
           c == registry.commands[id]
           mapped == MapBody(c.input, input, params)
<1>1. /\ access \in {"NOT_FOUND", "FORBIDDEN", "OK"}
      /\ access = "OK" => id \in DOMAIN registry.commands
  <2>1. access = Access(id \in DOMAIN registry.commands, caps, c.caps)
    BY DEF CommandAccess
  <2> HIDE DEF access, plan
  <2> QED BY <2>1 DEF Access
<1>2. Refuse(access).code = access /\ Refuse("BAD_REQUEST").code = "BAD_REQUEST"
      /\ Refuse("VALIDATION_ERROR").code = "VALIDATION_ERROR"
  BY DEF Refuse
<1>3. \/ plan \in {Refuse(access), Refuse("BAD_REQUEST"), Refuse("VALIDATION_ERROR")}
      \/ access = "OK" /\ plan = Call(c.operation, mapped)
  <2> HIDE DEF access, c, mapped
  <2> QED BY DEF Execute, access, c, mapped
<1>4. Call(c.operation, mapped).binding = c.operation
  BY DEF Call
<1> HIDE DEF plan, access, c, mapped
<1>5. plan.code = "CALL"
  BY DEF plan
<1>6. access = "OK" /\ plan = Call(c.operation, mapped)
  BY <1>1, <1>2, <1>3, <1>5
<1> QED BY <1>1, <1>4, <1>6 DEF plan, c

\* Steps that leave a request where it is.
LEMMA StillWaiting ==
    ASSUME Waiting, UNCHANGED <<deployed, request, pc, todo, call, outcome>>
    PROVE  Waiting'
  BY SameAwaited DEF Waiting

\* Steps that end it.
LEMMA EndWaits ==
    ASSUME Waiting, UNCHANGED <<deployed, request, todo>>, pc' = "replied"
    PROVE  Waiting'
  BY SameAwaited DEF Waiting

LEMMA FollowWaits ==
    ASSUME Inv, Waiting, NEW plan, pc = "handle", Follow(plan), request.route \in Calls,
           plan.code = "CALL" => Awaited(plan.binding)
    PROVE  Waiting' /\ pc' \in {"invoke", "replied"} /\ UNCHANGED <<deployed, request>>
<1>1. UNCHANGED <<deployed, request>>
  BY DEF Follow, server
<1>2. CASE plan.code = "CALL"
  <2>1. pc' = "invoke" /\ todo' = {plan.binding}
    BY <1>2 DEF Follow
  <2>2. IsFiniteSet(todo')
    BY <2>1, FS_Singleton
  <2> QED BY <1>1, <1>2, <2>1, <2>2, SameAwaited DEF Waiting
<1>3. CASE plan.code # "CALL"
  <2>1. pc' = "replied" /\ todo' = todo
    BY <1>3 DEF Follow, Reply
  <2> QED BY <1>1, <2>1, EndWaits
<1> QED BY <1>2, <1>3

\* A handler invokes or replies.
LEMMA HandleMoves ==
    ASSUME Inv, Waiting, Handle
    PROVE  /\ Waiting'
           /\ pc = "handle" /\ pc' \in {"invoke", "calling", "replied"}
           /\ UNCHANGED <<deployed, request>>
<1>1. deployed \in DOMAIN Deployment /\ (pc = "handle" => todo = {} /\ outcome = "none")
  BY DEF Inv, Surroundings, Served, Flow, Waiting
<1>2. CASE HandleGetPage \/ HandleGetForm \/ HandleGetSchema \/ HandleCapabilities
  <2>1. UNCHANGED <<deployed, request, todo>> /\ pc = "handle" /\ pc' = "replied"
    BY <1>2 DEF HandleGetPage, HandleGetForm, HandleGetSchema, HandleCapabilities, Handling,
                Reply, Stay, server
  <2> QED BY <2>1, EndWaits
<1>3. CASE HandleGetPageData \/ HandleGetFormData
  <2>1. pc = "handle" /\ request.route \in {"page_data", "form_data"}
        /\ \E plan : Follow(plan)
    BY <1>3 DEF HandleGetPageData, HandleGetFormData, Handling
  <2>2. PICK plan : Follow(plan)
    BY <2>1
  <2> QED BY <2>1, <2>2, FollowWaits DEF Awaited, Calls
<1>4. CASE HandleGetResource
  <2>1. PICK plan \in GetResourceList(registry, caps, request.id) : Follow(plan)
    BY <1>4 DEF HandleGetResource
  <2>2. pc = "handle" /\ request.route = "resource"
    BY <1>4 DEF HandleGetResource, Handling
  <2>3. plan.code = "CALL" => ListPages(registry, request.id) # {}
    BY <2>1 DEF GetResourceList, Refuse
  <2> QED BY <2>1, <2>2, <2>3, FollowWaits DEF Awaited, Calls
<1>5. CASE HandleGetResourceItem
  <2>1. PICK plan \in GetResourceItem(registry, index, caps, request.id) : Follow(plan)
    BY <1>5 DEF HandleGetResourceItem
  <2>2. pc = "handle" /\ request.route = "resource_item"
    BY <1>5 DEF HandleGetResourceItem, Handling
  <2> QED BY <2>1, <2>2, FollowWaits DEF Awaited, Calls
<1>6. ASSUME NEW code \in Code \ {"CALL"}, Follow(Refuse(code)), pc = "handle",
             request.route \in {"command", "action"}
      PROVE  Waiting' /\ pc' \in {"invoke", "replied"} /\ UNCHANGED <<deployed, request>>
  <2>1. Refuse(code).code # "CALL"
    BY RefusalSound
  <2> QED BY <1>6, <2>1, FollowWaits DEF Calls
<1>7. ASSUME NEW id, NEW input, NEW params, Follow(Execute(registry, index, caps, id, input, params)),
             pc = "handle", request.route \in {"command", "action"},
             id \in DOMAIN registry.commands => registry.commands[id] \in CommandsOf(request)
      PROVE  Waiting' /\ pc' \in {"invoke", "replied"} /\ UNCHANGED <<deployed, request>>
  <2>1. PICK plan : plan = Execute(registry, index, caps, id, input, params)
    OBVIOUS
  <2>2. plan.code = "CALL" =>
           id \in DOMAIN registry.commands /\ plan.binding = registry.commands[id].operation
    BY <2>1, ExecuteOperation
  <2>3. plan.code = "CALL" => Awaited(plan.binding)
    BY <1>7, <2>2 DEF Awaited
  <2>4. Follow(plan)
    BY <1>7, <2>1
  <2> QED BY <1>7, <2>3, <2>4, FollowWaits DEF Calls
<1>8. CASE HandleCommand
  <2>1. pc = "handle" /\ request.route = "command"
    BY <1>8 DEF HandleCommand, Handling
  <2>2. CASE request.wellFormed
    <3>1. Follow(Execute(registry, index, caps, request.id, request.input, request.params))
      BY <1>8, <2>2 DEF HandleCommand
    <3>2. request.id \in DOMAIN registry.commands =>
             registry.commands[request.id] \in CommandsOf(request)
      BY <2>1 DEF CommandsOf
    <3> QED BY <1>7, <2>1, <3>1, <3>2
  <2>3. CASE ~request.wellFormed
    <3>1. Follow(Refuse("BAD_REQUEST"))
      BY <1>8, <2>3 DEF HandleCommand
    <3> QED BY <1>6, <2>1, <3>1 DEF Code
  <2> QED BY <2>2, <2>3
<1>9. CASE HandleAction
  <2>1. pc = "handle" /\ request.route = "action"
    BY <1>9 DEF HandleAction, Handling
  <2>2. \/ \E code \in {"BAD_REQUEST", "OK", "NOT_FOUND"} : Follow(Refuse(code))
        \/ \E a \in ActionsNamed(request.id) :
              Follow(Execute(registry, index, caps, a.command, request.input, << >>))
    BY <1>9 DEF HandleAction
  <2>3. CASE \E code \in {"BAD_REQUEST", "OK", "NOT_FOUND"} : Follow(Refuse(code))
    BY <1>6, <2>1, <2>3 DEF Code
  <2>4. ASSUME NEW a \in ActionsNamed(request.id),
               Follow(Execute(registry, index, caps, a.command, request.input, << >>))
        PROVE  Waiting' /\ pc' \in {"invoke", "replied"} /\ UNCHANGED <<deployed, request>>
    <3>1. a.command \in DOMAIN registry.commands =>
             registry.commands[a.command] \in CommandsOf(request)
      BY <2>1 DEF CommandsOf
    <3> QED BY <1>7, <2>1, <2>4, <3>1
  <2> QED BY <2>1, <2>2, <2>3, <2>4
<1>10. CASE HandleNavigation
  <2>1. /\ pc = "handle" /\ pc' = "invoke" /\ request.route = "navigation"
        /\ todo' = Badges(registry, caps) /\ UNCHANGED <<deployed, request, outcome>>
    BY <1>10 DEF HandleNavigation, Handling, server, invocation
  <2>2. IsFiniteSet(todo')
    BY <1>1, <2>1, BadgesFinite
  <2> QED BY <2>1, <2>2 DEF Waiting, Awaited, Calls
<1>11. CASE HandleProxy
  <2>1. pc = "handle" /\ request.route \in {"upload", "download"}
        /\ UNCHANGED <<deployed, request, todo, outcome>> /\ pc' \in {"calling", "replied"}
    BY <1>11 DEF HandleProxy, Handling, Reply, server, invocation
  <2>2. todo' = {} /\ outcome' = "none" /\ IsFiniteSet(todo')
    BY <1>1, <2>1, FS_EmptySet
  <2> QED BY <2>1, <2>2 DEF Waiting, Awaited, Calls
<1> QED BY <1>2, <1>3, <1>4, <1>5, <1>8, <1>9, <1>10, <1>11 DEF Handle

\* A call that returns ends its request, or a menu goes on to the next.
LEMMA ReturnMoves ==
    ASSUME Inv, Waiting, CallReturns
    PROVE  /\ Waiting'
           /\ pc = "calling" /\ pc' \in {"invoke", "replied"}
           /\ UNCHANGED <<deployed, request, todo, call>>
<1>1. /\ pc = "calling" /\ pc' \in {"invoke", "replied"}
      /\ UNCHANGED <<deployed, request, todo, call>>
  <2>1. CASE CallFails \/ ProxyFails
    BY <2>1 DEF CallFails, ProxyFails, InvocationFails, Reply, server
  <2>2. CASE DataArrives
    <3>1. PICK status, names : Answered(status) /\ Reply(200, names)
      BY <2>2 DEF DataArrives
    <3> QED BY <3>1 DEF Answered, Reply, server
  <2>3. CASE FormDataArrives \/ ItemArrives \/ ProxyAnswers
    <3>1. \E status, code, names : Answered(status) /\ Reply(code, names)
      BY <2>3 DEF FormDataArrives, ItemArrives, ProxyAnswers
    <3> QED BY <3>1 DEF Answered, Reply, server
  <2>4. CASE CommandCompletes
    <3>1. \E status, code, names : Answered(status) /\ Reply(code, names)
      BY <2>4 DEF CommandCompletes
    <3> QED BY <3>1 DEF Answered, Reply, server
  <2>5. CASE BadgeArrives
    BY <2>5 DEF BadgeArrives, Answered, server
  <2> QED BY <2>1, <2>2, <2>3, <2>4, <2>5 DEF CallReturns
<1>2. request.route \in Calls
  BY <1>1 DEF Waiting
<1> QED BY <1>1, <1>2, SameAwaited DEF Waiting
\* A binding is taken up, or cannot be invoked.
LEMMA InvokeMoves ==
    ASSUME Inv, Waiting, Invoke
    PROVE  /\ Waiting'
           /\ pc = "invoke" /\ UNCHANGED <<deployed, request>>
           /\ \E b \in todo : /\ todo' = todo \ {b}
                              /\ \/ pc' = "calling" /\ call' = b
                                 \/ pc' \in {"invoke", "replied"}
<1>1. PICK b \in todo :
         /\ todo' = todo \ {b} /\ call' = b
         /\ \/ Invocable(b) /\ pc' = "calling" /\ UNCHANGED <<failure, reply, shown>>
            \/ ~Invocable(b) /\ InvocationFails("no_operation")
  BY DEF Invoke
<1>2. pc = "invoke" /\ outcome' = "none" /\ UNCHANGED <<deployed, request>>
  BY DEF Invoke, server
<1>3. pc' = "calling" \/ pc' \in {"invoke", "replied"}
  BY <1>1 DEF InvocationFails, Reply
<1>4. IsFiniteSet(todo')
  BY <1>1, FS_RemoveElement DEF Waiting
<1>5. request.route \in Calls
  BY <1>2 DEF Waiting
<1>6. Awaited(b) /\ \A x \in todo' : Awaited(x)
  BY <1>1 DEF Waiting
<1>7. Waiting'
  BY <1>1, <1>2, <1>3, <1>4, <1>5, <1>6, SameAwaited DEF Waiting
<1> QED BY <1>1, <1>2, <1>3, <1>7

LEMMA OutsideMoves ==
    ASSUME \/ Boot \/ Administer \/ CacheExpires \/ DeadlinePasses \/ SendRequest \/ CarryOut
           \/ Stopped \/ UNCHANGED vars
    PROVE  UNCHANGED <<deployed, request, pc, todo, call, outcome>>
<1>1. CASE Boot \/ Administer \/ CacheExpires
  BY <1>1 DEF Boot, Administer, CacheExpires, server, progress, invocation
<1>2. CASE DeadlinePasses \/ SendRequest \/ CarryOut
  BY <1>2 DEF DeadlinePasses, SendRequest, CarryOut, Invocation!ContextDone, Invocation!Send,
              Invocation!CarryOut, server, progress
<1>3. CASE Stopped \/ UNCHANGED vars
  BY <1>3 DEF Stopped, vars, server, progress, invocation
<1> QED BY <1>1, <1>2, <1>3

\* On the way in, nothing has been planned.
LEMMA WayInMoves ==
    ASSUME Inv, Waiting, Unauthorized \/ ResolveCapabilities \/ ResolutionFails
    PROVE  Waiting' /\ pc = "arrived" /\ pc' \in {"handle", "replied"} /\ UNCHANGED <<deployed, request>>
<1>1. /\ pc = "arrived" /\ pc' \in {"handle", "replied"}
      /\ UNCHANGED <<deployed, request, todo, call, outcome>>
  BY DEF Unauthorized, ResolveCapabilities, ResolutionFails, Reply, server, invocation
<1> QED BY <1>1, SameAwaited DEF Waiting

LEMMA FreshWaits ==
    ASSUME Inv, Waiting, Arrive \/ NextRequest
    PROVE  Waiting' /\ pc \in {"idle", "replied"}
<1>1. CASE Arrive
  <2>1. pc = "idle" /\ pc' = "arrived" /\ todo' = todo /\ outcome' = outcome
    BY <1>1 DEF Arrive, invocation
  <2>2. todo' = {} /\ outcome' = "none"
    BY <2>1 DEF Inv, Served, Flow, Waiting
  <2> QED BY <2>1, <2>2, FS_EmptySet DEF Waiting
<1>2. CASE NextRequest
  <2>1. pc = "replied" /\ pc' = "idle" /\ todo' = {} /\ outcome' = "none"
    BY <1>2 DEF NextRequest
  <2> QED BY <2>1, FS_EmptySet DEF Waiting
<1> QED BY <1>1, <1>2

LEMMA MenuCompleteMoves ==
    ASSUME Waiting, MenuComplete
    PROVE  Waiting' /\ pc = "invoke" /\ pc' = "replied" /\ UNCHANGED <<deployed, request>>
<1>1. UNCHANGED <<deployed, request, todo>> /\ pc = "invoke" /\ pc' = "replied"
  BY DEF MenuComplete, Stay, Reply, server
<1> QED BY <1>1, EndWaits

LEMMA WaitingHolds == Spec => []Waiting
<1>1. Init => Waiting
  BY FS_EmptySet DEF Init, Waiting
<1>2. Inv /\ Waiting /\ [Next]_vars => Waiting'
  <2> SUFFICES ASSUME Inv, Waiting, [Next]_vars PROVE Waiting'
    OBVIOUS
  <2>1. CASE \/ Boot \/ Administer \/ CacheExpires \/ DeadlinePasses \/ SendRequest \/ CarryOut
             \/ Stopped \/ UNCHANGED vars
    BY <2>1, OutsideMoves, StillWaiting
  <2>2. CASE Arrive \/ NextRequest
    BY <2>2, FreshWaits
  <2>3. CASE Serve
    BY <2>3, WayInMoves, HandleMoves, InvokeMoves, ReturnMoves, MenuCompleteMoves DEF Serve
  <2> QED BY <2>1, <2>2, <2>3 DEF Next
<1> QED BY <1>1, <1>2, InvariantHolds, PTL DEF Spec

-----------------------------------------------------------------------------
\* What the handler of the request needs to make an answer of a body.
CanAnswer(b) ==
    LET route == request.route
        form == registry.forms[request.id]
    IN  \/ route \in {"resource_item", "upload", "download"}
        \/ route = "page_data" /\ ApplyResponseMapping(b, TableMapping) # {}
        \/ route = "resource" /\ \E p \in ListPages(registry, request.id) :
                                    ApplyResponseMapping(b, PageSource(p).mapping) # {}
        \/ route = "form_data" /\ FormData(form, CHOOSE x \in form.loadSource : TRUE, b) # {}
        \/ route \in {"command", "action"} /\ \E c \in CommandsOf(request) : c.operation = call
        \/ route = "navigation" /\ \E d \in MenuDomains(registry, caps) :
                                      \E c \in MenuChildren(caps, d) :
                                         c.badge # {} /\ BadgeBinding(d, c) = call

(***************************************************************************)
(* Whatever a backend sends, there is something to make of it: rows and    *)
(* fields that are renamed into each other, bodies that are no object, a   *)
(* resource that several domains have, an action that several domains      *)
(* carry out, a badge that several children show.  No body, and none of    *)
(* them missing, leaves a request without an answer.                       *)
(***************************************************************************)
THEOREM AnswersAreTaken ==
    Spec => [](pc = "calling" => outcome = "none" /\ \A b : CanAnswer(b))
<1>1. ASSUME Inv, Waiting, pc = "calling", NEW b PROVE CanAnswer(b)
  <2>1. request.route \in Calls /\ Awaited(call)
    BY <1>1 DEF Waiting
  <2>2. CASE request.route = "page_data"
    BY <2>2, MappingExists DEF CanAnswer
  <2>3. CASE request.route = "resource"
    <3>1. PICK p \in ListPages(registry, request.id) : TRUE
      BY <2>1, <2>3 DEF Awaited
    <3>2. ApplyResponseMapping(b, PageSource(p).mapping) # {}
      BY MappingExists
    <3> QED BY <2>3, <3>2 DEF CanAnswer
  <2>4. CASE request.route = "form_data"
    BY <2>4, FormDataExists DEF CanAnswer
  <2>5. CASE request.route \in {"command", "action"}
    BY <2>1, <2>5 DEF CanAnswer, Awaited
  <2>6. CASE request.route = "navigation"
    <3>1. call \in Badges(registry, caps)
      BY <1>1, <2>6 DEF Inv, Served, Menu
    <3>2. PICK d \in MenuDomains(registry, caps) :
             \E c \in MenuChildren(caps, d) : c.badge # {} /\ call = BadgeBinding(d, c)
      BY <3>1 DEF Badges
    <3> QED BY <2>6, <3>2 DEF CanAnswer
  <2> QED BY <2>1, <2>2, <2>3, <2>4, <2>5, <2>6 DEF CanAnswer, Calls
<1>2. Inv /\ Waiting => (pc = "calling" => outcome = "none" /\ \A b : CanAnswer(b))
  BY <1>1 DEF Waiting
<1> QED BY <1>2, InvariantHolds, WaitingHolds, PTL

\* What is still to be done for a request: each binding to be invoked, and
\* its return to be waited for, and the reply.
ToDo ==
    IF pc \in {"invoke", "calling"}
    THEN {<<"invoke", b>> : b \in todo} \cup {<<"return", b>> : b \in todo}
         \cup (IF pc = "calling" THEN {<<"return", call>>} ELSE {}) \cup {<<"reply", NoBinding>>}
    ELSE {}

(***************************************************************************)
(* Every request gets on: it is let in or refused, answered at once or     *)
(* planned, and from then on there are finitely many things to be done for *)
(* it, of which each step of the server leaves fewer.  Neither what        *)
(* backends and administrators do nor a cache or a deadline that runs out  *)
(* gives it more to do or sets it back.                                    *)
(***************************************************************************)
THEOREM RequestsGetOn ==
    Spec => /\ []IsFiniteSet(ToDo)
            /\ [][Serve => \/ pc = "arrived" /\ pc' \in {"handle", "replied"}
                           \/ pc = "handle" /\ pc' \in {"invoke", "calling", "replied"}
                           \/ ToDo' \subseteq ToDo /\ ToDo' # ToDo]_vars
            /\ [][pc \notin {"idle", "replied"} /\ ~Serve =>
                     UNCHANGED <<request, pc, ToDo>>]_vars
<1> DEFINE Moves == \/ pc = "arrived" /\ pc' \in {"handle", "replied"}
                    \/ pc = "handle" /\ pc' \in {"invoke", "calling", "replied"}
                    \/ ToDo' \subseteq ToDo /\ ToDo' # ToDo
<1>1. Waiting => IsFiniteSet(ToDo)
  <2> SUFFICES ASSUME Waiting PROVE IsFiniteSet(ToDo)
    OBVIOUS
  <2> DEFINE f == [b \in todo |-> <<"invoke", b>>]
             g == [b \in todo |-> <<"return", b>>]
             last == IF pc = "calling" THEN {<<"return", call>>} ELSE {}
  <2>1. IsFiniteSet({f[b] : b \in DOMAIN f}) /\ IsFiniteSet({g[b] : b \in DOMAIN g})
    BY ImageIsFinite DEF Waiting
  <2>2. /\ {f[b] : b \in DOMAIN f} = {<<"invoke", b>> : b \in todo}
        /\ {g[b] : b \in DOMAIN g} = {<<"return", b>> : b \in todo}
    OBVIOUS
  <2>3. IsFiniteSet({<<"reply", NoBinding>>}) /\ IsFiniteSet(last) /\ IsFiniteSet({})
    BY FS_Singleton, FS_EmptySet
  <2> DEFINE F == {<<"invoke", b>> : b \in todo}
             G == {<<"return", b>> : b \in todo}
             R == {<<"reply", NoBinding>>}
  <2>4. IsFiniteSet(F) /\ IsFiniteSet(G)
    BY <2>1, <2>2
  <2>5. ToDo = IF pc \in {"invoke", "calling"} THEN F \cup G \cup last \cup R ELSE {}
    BY DEF ToDo
  <2> HIDE DEF F, G, R, last
  <2>6. IsFiniteSet(F \cup G \cup last \cup R)
    BY <2>3, <2>4, FS_Union DEF R
  <2> QED BY <2>3, <2>5, <2>6
<1>2. ASSUME Inv, Waiting, Serve PROVE Moves
  <2>1. CASE Unauthorized \/ ResolveCapabilities \/ ResolutionFails
    BY <1>2, <2>1, WayInMoves
  <2>2. CASE Handle
    BY <1>2, <2>2, HandleMoves
  <2>3. ASSUME pc \in {"invoke", "calling"}, pc' \notin {"invoke", "calling"}
        PROVE  ToDo' \subseteq ToDo /\ ToDo' # ToDo
    BY <2>3 DEF ToDo
  <2>4. CASE Invoke
    <3>1. PICK b \in todo :
             /\ todo' = todo \ {b}
             /\ (pc' = "calling" /\ call' = b) \/ pc' \in {"invoke", "replied"}
      BY <1>2, <2>4, InvokeMoves
    <3>2. pc = "invoke"
      BY <2>4 DEF Invoke
    <3>3. CASE pc' = "replied"
      BY <2>3, <3>2, <3>3
    <3>4. CASE (pc' = "calling" /\ call' = b) \/ pc' = "invoke"
      <4>1. ToDo' \subseteq ToDo
        BY <3>1, <3>2, <3>4 DEF ToDo
      <4>2. <<"invoke", b>> \in ToDo
        BY <3>1, <3>2 DEF ToDo
      <4>3. <<"invoke", b>> \notin ToDo'
        BY <3>1, <3>4 DEF ToDo
      <4> QED BY <4>1, <4>2, <4>3
    <3> QED BY <3>1, <3>3, <3>4
  <2>5. CASE CallReturns
    <3>1. pc = "calling" /\ pc' \in {"invoke", "replied"} /\ UNCHANGED <<todo, call>>
      BY <1>2, <2>5, ReturnMoves
    <3>2. CASE pc' = "replied"
      BY <2>3, <3>1, <3>2
    <3>3. CASE pc' = "invoke"
      <4>1. ToDo' \subseteq ToDo
        BY <3>1, <3>3 DEF ToDo
      <4>2. <<"return", call>> \in ToDo
        BY <3>1 DEF ToDo
      <4>3. call \notin todo
        BY <1>2, <3>1 DEF Waiting
      <4>4. <<"return", call>> \notin ToDo'
        BY <3>1, <3>3, <4>3 DEF ToDo
      <4> QED BY <4>1, <4>2, <4>4
    <3> QED BY <3>1, <3>2, <3>3
  <2>6. CASE MenuComplete
    BY <1>2, <2>3, <2>6, MenuCompleteMoves
  <2> QED BY <1>2, <2>1, <2>2, <2>4, <2>5, <2>6 DEF Serve
<1>3. Inv /\ Waiting /\ [Next]_vars => [Serve => Moves]_vars
  BY <1>2
<1>4. ASSUME Inv, Waiting, Next, pc \notin {"idle", "replied"}, ~Serve
      PROVE  UNCHANGED <<request, pc, ToDo>>
  <2>1. ~Arrive /\ ~NextRequest
    BY <1>4, FreshWaits
  <2>2. UNCHANGED <<deployed, request, pc, todo, call, outcome>>
    BY <1>4, <2>1, OutsideMoves DEF Next
  <2> QED BY <2>2 DEF ToDo
<1>5. Inv /\ Waiting /\ [Next]_vars =>
         [pc \notin {"idle", "replied"} /\ ~Serve => UNCHANGED <<request, pc, ToDo>>]_vars
  BY <1>4
<1> QED BY <1>1, <1>3, <1>5, InvariantHolds, WaitingHolds, PTL DEF Spec
=============================================================================
