---------------------------- MODULE Definitions ----------------------------
(***************************************************************************)
(* model/definition.go, model/capability.go, pkg/definition and            *)
(* pkg/openapi/index.go: what a deployment of the console is described by, *)
(* how it is loaded and validated at boot, and the registry and the index  *)
(* every request is answered from.                                         *)
(*                                                                         *)
(* Identifiers and capabilities are sequences of the words that their      *)
(* separators part (orders.list, orders-svc, orders:view); << >> is the    *)
(* empty string.  A pointer that may be nil is a set of at most one        *)
(* element.  Labels, icons, routes, styles, confirmations and the order of  *)
(* menus are left out.                                                     *)
(***************************************************************************)
EXTENDS Integers, Sequences, FiniteSets, SequencesExt

\* The zero values that reading a file leaves in what it does not mention.
NoMapping == [items |-> "", total |-> "", fieldMap |-> << >>]
NoDataSource ==
    [service |-> << >>, operation |-> << >>, handler |-> "", mapping |-> NoMapping]
NoBinding == [type |-> "", service |-> << >>, operation |-> << >>, handler |-> ""]
NoCondition == [field |-> "", operator |-> "", value |-> {}, effect |-> ""]
NoAction ==
    [id |-> << >>, caps |-> {}, type |-> "", command |-> << >>, form |-> << >>,
     conditions |-> << >>]
NoField ==
    [field |-> "", type |-> "", visibility |-> "", required |-> FALSE, readOnly |-> "",
     options |-> << >>, dependsOn |-> << >>]
NoSection == [caps |-> {}, fields |-> << >>]
NoColumn == [field |-> "", type |-> "", sortable |-> FALSE]
NoTable ==
    [source |-> NoDataSource, columns |-> << >>, rowActions |-> << >>,
     bulkActions |-> << >>, pageSize |-> 0]
NoPage ==
    [id |-> << >>, titled |-> FALSE, layout |-> "", caps |-> {}, table |-> {},
     sections |-> << >>, actions |-> << >>]
NoForm ==
    [id |-> << >>, titled |-> FALSE, caps |-> {}, submit |-> << >>, loadSource |-> {},
     sections |-> << >>]
\* The fields of a mapping are functions from names to expressions.
NoInput ==
    [pathParams |-> << >>, queryParams |-> << >>, headerParams |-> << >>,
     bodyMapping |-> "", template |-> << >>, projection |-> << >>]
NoOutput == [fields |-> << >>]
NoCommand ==
    [id |-> << >>, caps |-> {}, operation |-> NoBinding, input |-> NoInput,
     output |-> NoOutput]
\* A search or a lookup, as far as booting looks at it.
NoProvider == [id |-> << >>, operation |-> NoBinding]
NoChild == [page |-> << >>, caps |-> {}, badge |-> {}]
NoDomain ==
    [name |-> << >>, versioned |-> FALSE, labelled |-> FALSE, caps |-> {}, children |-> << >>,
     pages |-> << >>, forms |-> << >>, commands |-> << >>, searches |-> << >>, lookups |-> << >>]

-----------------------------------------------------------------------------
(***************************************************************************)
(* Capability sets.                                                        *)
(***************************************************************************)

\* "*" matches anything, "orders:*" what begins with "orders:".
MatchWildcard(pattern, cap) ==
    \/ pattern = <<"*">>
    \/ /\ Len(pattern) > 1 /\ pattern[Len(pattern)] = "*"
       /\ Len(cap) >= Len(pattern) /\ IsPrefix(Front(pattern), cap)

Has(granted, cap) ==
    cap \in granted \/ \E pattern \in granted : MatchWildcard(pattern, cap)

HasAll(granted, caps) == \A cap \in caps : Has(granted, cap)

-----------------------------------------------------------------------------
(***************************************************************************)
(* The OpenAPI index: the operations of the loaded specifications by       *)
(* service and operation id.  An operation is                              *)
(*     [required |-> the fields its JSON body must have,                   *)
(*      body     |-> whether it describes a JSON body,                     *)
(*      rank     |-> the place of its id in alphabetical order,            *)
(*      gets     |-> the resource types its id reads as the getter of].    *)
(***************************************************************************)

\* A specification that cannot be read or is not valid ends the loading.
SpecsLoad(specs) == \A n \in DOMAIN specs : specs[n].valid

\* Of two specifications of a service, the later one has an operation.
LoadIndex(specs) ==
    LET Described(n) == {<<specs[n].service, o>> : o \in DOMAIN specs[n].operations}
    IN  [k \in UNION {Described(n) : n \in DOMAIN specs} |->
            specs[SelectLastInSeq(specs, LAMBDA s : s.service = k[1]
                                           /\ k[2] \in DOMAIN s.operations)].operations[k[2]]]

HasOperation(index, service, operation) == <<service, operation>> \in DOMAIN index

AllOperationIDs(index, service) == {k[2] : k \in {j \in DOMAIN index : j[1] = service}}

\* The fields that a body lacks; the whole of it, when the operation is unknown.
ValidateRequest(index, service, operation, body) ==
    IF ~HasOperation(index, service, operation) THEN {""}
    ELSE IF ~index[<<service, operation>>].body THEN {}
    ELSE index[<<service, operation>>].required \ DOMAIN body

-----------------------------------------------------------------------------
(***************************************************************************)
(* Loading: files in the order of the walk, each                           *)
(*     [yaml |-> its extension is .yaml or .yml,                           *)
(*      parses |-> it can be read and parsed, domain |-> its content].     *)
(***************************************************************************)
YamlFiles(files) == SelectSeq(files, LAMBDA f : f.yaml)

\* The first file that does not parse ends the loading.
FilesLoad(files) == \A f \in ToSet(YamlFiles(files)) : f.parses

LoadAll(files) == [n \in DOMAIN YamlFiles(files) |-> YamlFiles(files)[n].domain]

-----------------------------------------------------------------------------
(***************************************************************************)
(* The validator: the set of what it finds wrong, as code and field.       *)
(***************************************************************************)
Complaint(wrong, code, field) == IF wrong THEN {<<code, field>>} ELSE {}

IDs(seq) == {x.id : x \in ToSet(seq)}

OrEmpty(service, domain) == IF service = << >> THEN Append(domain, "svc") ELSE service

ValidateTable(t, domain, index) ==
    Complaint(t.columns = << >>, "REQUIRED", "columns")
    \cup Complaint(t.pageSize \notin 0..200, "RANGE", "page_size")
    \cup Complaint(/\ t.source.operation # << >>
                   /\ ~HasOperation(index, OrEmpty(t.source.service, domain), t.source.operation),
                   "OPERATION_NOT_FOUND", "data_source.operation_id")

PageLayout == {"list", "detail", "dashboard", "custom", "table"}

ValidatePage(p, domain, index) ==
    Complaint(p.id = << >>, "REQUIRED", "id")
    \cup Complaint(~p.titled, "REQUIRED", "title")
    \cup Complaint(p.layout = "", "REQUIRED", "layout")
    \cup Complaint(p.layout \notin PageLayout \cup {""}, "INVALID_ENUM", "layout")
    \cup Complaint(p.layout \in {"list", "table"} /\ p.table = {}, "REQUIRED", "table")
    \cup (UNION {ValidateTable(t, domain, index) : t \in p.table})
    \cup Complaint(\E c \in p.caps : c # <<"*">> /\ Len(c) < 2, "INVALID_FORMAT", "capabilities")

\* Mutant of ValidateForm: the command it submits is not looked up.
ValidateFormBlind(f, commandIDs) ==
    Complaint(f.id = << >>, "REQUIRED", "id")
    \cup Complaint(f.submit = << >>, "REQUIRED", "submit_command")

ValidateForm(f, commandIDs) ==
    Complaint(f.id = << >>, "REQUIRED", "id")
    \cup Complaint(~f.titled, "REQUIRED", "title")
    \cup Complaint(f.submit = << >>, "REQUIRED", "submit_command")
    \cup Complaint(f.submit \notin commandIDs \cup {<< >>}, "REF_NOT_FOUND", "submit_command")
    \cup Complaint(f.sections = << >>, "REQUIRED", "sections")

ValidateCommand(c, domain, index) ==
    LET o == c.operation
    IN  Complaint(c.id = << >>, "REQUIRED", "id")
        \cup Complaint(o.type = "", "REQUIRED", "operation.type")
        \cup Complaint(o.type \notin {"openapi", "sdk", ""}, "INVALID_ENUM", "operation.type")
        \cup Complaint(o.type = "sdk" /\ o.handler = "", "REQUIRED", "operation.handler")
        \cup Complaint(o.type = "openapi" /\ o.operation = << >>, "REQUIRED", "operation.operation_id")
        \cup Complaint(/\ o.type = "openapi" /\ o.operation # << >>
                       /\ ~HasOperation(index, OrEmpty(o.service, domain), o.operation),
                       "OPERATION_NOT_FOUND", "operation.operation_id")

\* Only the actions of the page itself are looked at, never those of rows.
ValidateActionRef(a, formIDs, commandIDs) ==
    Complaint(a.type = "form" /\ a.form \notin formIDs \cup {<< >>}, "REF_NOT_FOUND", "form_id")
    \cup Complaint(/\ a.type \in {"command", "confirm"}
                   /\ a.command \notin commandIDs \cup {<< >>}, "REF_NOT_FOUND", "command_id")

ValidateDomain(d, index) ==
    LET formIDs == IDs(d.forms)
        commandIDs == IDs(d.commands)
        actions == UNION {ToSet(p.actions) : p \in ToSet(d.pages)}
    IN  Complaint(d.name = << >>, "REQUIRED", "domain")
        \cup Complaint(~d.versioned, "REQUIRED", "version")
        \cup Complaint(~d.labelled, "REQUIRED", "navigation.label")
        \cup Complaint(d.children = << >>, "REQUIRED", "navigation.children")
        \cup (UNION {ValidatePage(p, d.name, index) : p \in ToSet(d.pages)})
        \cup (UNION {ValidateForm(f, commandIDs) : f \in ToSet(d.forms)})
        \cup (UNION {ValidateCommand(c, d.name, index) : c \in ToSet(d.commands)})
        \cup (UNION {ValidateActionRef(a, formIDs, commandIDs) : a \in actions})

Validate(defs, index) == UNION {ValidateDomain(d, index) : d \in ToSet(defs)}

-----------------------------------------------------------------------------
(***************************************************************************)
(* The registry: every definition of every domain under its own id, the    *)
(* later one when two have the same.                                       *)
(***************************************************************************)
ById(lists) ==
    LET Latest(i) == lists[Max({n \in DOMAIN lists : i \in IDs(lists[n])})]
    IN  [i \in UNION {IDs(lists[n]) : n \in DOMAIN lists} |->
            Latest(i)[SelectLastInSeq(Latest(i), LAMBDA x : x.id = i)]]

NewRegistry(defs) ==
    LET All(Part(_)) == ById([n \in DOMAIN defs |-> Part(defs[n])])
    IN  [domains  |-> [n \in {d.name : d \in ToSet(defs)} |->
                          defs[SelectLastInSeq(defs, LAMBDA d : d.name = n)]],
         pages    |-> All(LAMBDA d : d.pages),
         forms    |-> All(LAMBDA d : d.forms),
         commands |-> All(LAMBDA d : d.commands),
         searches |-> All(LAMBDA d : d.searches),
         lookups  |-> All(LAMBDA d : d.lookups)]

\* In no particular order.
AllDomains(registry) == {registry.domains[n] : n \in DOMAIN registry.domains}
=============================================================================
