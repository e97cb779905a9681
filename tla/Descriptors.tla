---------------------------- MODULE Descriptors ----------------------------
(***************************************************************************)
(* pkg/metadata: what the console is told about pages, forms, actions,     *)
(* menus, schemas and resources, for a registry and the capabilities of    *)
(* the caller, and which backend operation the data behind them takes.     *)
(*                                                                         *)
(* A provider that needs a backend is split where it calls: a plan says    *)
(* how the request is refused, or with which binding and body the          *)
(* operation is invoked, and another operator makes the answer of the      *)
(* body that comes back.  Such a body is                                   *)
(*     [object |-> whether it is a JSON object,  fields |-> its fields,    *)
(*      lists |-> the rows found at a path, numbers |-> the numbers],      *)
(* a dotted path being one name.                                           *)
(***************************************************************************)
EXTENDS Definitions

Refuse(code) == [code |-> code, binding |-> NoBinding, body |-> << >>]
Call(binding, body) == [code |-> "CALL", binding |-> binding, body |-> body]

\* What each provider begins with.
Access(known, granted, caps) ==
    IF ~known THEN "NOT_FOUND" ELSE IF HasAll(granted, caps) THEN "OK" ELSE "FORBIDDEN"

PageAccess(registry, granted, id) ==
    Access(id \in DOMAIN registry.pages, granted, registry.pages[id].caps)

FormAccess(registry, granted, id) ==
    Access(id \in DOMAIN registry.forms, granted, registry.forms[id].caps)

SourceBinding(ds) ==
    [type |-> IF ds.handler = "" THEN "openapi" ELSE "sdk",
     service |-> ds.service, operation |-> ds.operation, handler |-> ds.handler]

-----------------------------------------------------------------------------
(***************************************************************************)
(* Actions.  data holds the fields of the resource the actions are for; no *)
(* caller passes any, so that in this server all conditions go to the      *)
(* console.                                                                *)
(***************************************************************************)
Met(cond, data) ==
    \/ cond.operator \in {"eq", "equals", "==", "in"} /\ data[cond.field] \in cond.value
    \/ cond.operator \in {"neq", "not_equals", "!=", "not_in"} /\ data[cond.field] \notin cond.value
    \/ cond.operator = "exists"

ResolveAction(a, data) ==
    LET static == {c \in ToSet(a.conditions) : c.field \in DOMAIN data}
    IN  [id |-> a.id, type |-> a.type, command |-> a.command, form |-> a.form,
         visible |-> ~\E c \in static : \/ c.effect = "hide" /\ Met(c, data)
                                        \/ c.effect = "show" /\ ~Met(c, data),
         enabled |-> ~\E c \in static : \/ c.effect = "disable" /\ Met(c, data)
                                        \/ c.effect = "enable" /\ ~Met(c, data),
         conditions |-> SelectSeq(a.conditions, LAMBDA c : c.field \notin DOMAIN data)]

\* In no particular order.
ResolveActions(granted, actions, data) ==
    {ResolveAction(a, data) : a \in {x \in ToSet(actions) : HasAll(granted, x.caps)}}

-----------------------------------------------------------------------------
(***************************************************************************)
(* Pages and forms.                                                        *)
(***************************************************************************)
ResolveField(f) ==
    [field |-> f.field, type |-> f.type, required |-> f.required,
     readOnly |-> f.readOnly \in {"true", "always"},
     options |-> f.options, dependsOn |-> f.dependsOn]

ResolveSections(granted, sections) ==
    LET allowed == SelectSeq(sections, LAMBDA s : HasAll(granted, s.caps))
        Visible(s) == SelectSeq(s.fields, LAMBDA f : f.visibility # "hidden")
    IN  [n \in DOMAIN allowed |->
            [i \in DOMAIN Visible(allowed[n]) |-> ResolveField(Visible(allowed[n])[i])]]

ResolveTable(granted, t) ==
    [columns |-> t.columns,
     pageSize |-> IF t.pageSize <= 0 THEN 25 ELSE t.pageSize,
     rowActions |-> ResolveActions(granted, t.rowActions, << >>),
     bulkActions |-> ResolveActions(granted, t.bulkActions, << >>)]

GetPage(granted, p) ==
    [id |-> p.id,
     table |-> {ResolveTable(granted, t) : t \in p.table},
     sections |-> ResolveSections(granted, p.sections),
     actions |-> ResolveActions(granted, p.actions, << >>)]

GetForm(granted, f) ==
    [id |-> f.id, submit |-> f.submit, sections |-> ResolveSections(granted, f.sections)]

GetPageData(registry, granted, id) ==
    LET access == PageAccess(registry, granted, id)
        tables == registry.pages[id].table
    IN  IF access # "OK" THEN Refuse(access)
        ELSE IF tables = {} THEN Refuse("BAD_REQUEST")
        ELSE Call(SourceBinding((CHOOSE t \in tables : TRUE).source), << >>)

\* A form without a source of data is answered with nothing.
GetFormData(registry, granted, id) ==
    LET access == FormAccess(registry, granted, id)
        sources == registry.forms[id].loadSource
    IN  IF access # "OK" THEN Refuse(access)
        ELSE IF sources = {} THEN Refuse("OK")
        ELSE Call(SourceBinding(CHOOSE s \in sources : TRUE), << >>)

-----------------------------------------------------------------------------
(***************************************************************************)
(* What is made of a backend's answer.  Its status is not looked at.       *)
(***************************************************************************)
Rename(fieldMap, k) == IF k \in DOMAIN fieldMap THEN fieldMap[k] ELSE k

\* Fields that get the same name overwrite each other in any order.
Renamed(row, fieldMap) ==
    LET Sources(name) == {k \in DOMAIN row : Rename(fieldMap, k) = name}
        names == {Rename(fieldMap, k) : k \in DOMAIN row}
    IN  {r \in [names -> {row[k] : k \in DOMAIN row}] :
            \A name \in names : \E k \in Sources(name) : r[name] = row[k]}

\* Rows that are not objects are dropped before, so a row is a function here.
ApplyResponseMapping(body, mapping) ==
    LET rows == IF body.object /\ mapping.items \in DOMAIN body.lists
                THEN body.lists[mapping.items] ELSE << >>
        total == IF body.object /\ mapping.total \in DOMAIN body.numbers
                 THEN body.numbers[mapping.total] ELSE 0
    IN  {[items |-> items, total |-> IF total = 0 THEN Len(rows) ELSE total] :
            items \in {s \in [DOMAIN rows -> UNION {Renamed(rows[n], mapping.fieldMap) :
                                                      n \in DOMAIN rows}] :
                          \A n \in DOMAIN rows : s[n] \in Renamed(rows[n], mapping.fieldMap)}}

FormFields(f) == UNION {{x.field : x \in ToSet(s.fields)} : s \in ToSet(f.sections)}

\* Mutant of FormData: the backend's names are filtered, then renamed.
FormDataFilteredFirst(f, source, body) ==
    IF ~body.object THEN {<< >>}
    ELSE Renamed([k \in (DOMAIN body.fields) \cap (FormFields(f) \cup DOMAIN source.mapping.fieldMap)
                     |-> body.fields[k]], source.mapping.fieldMap)

\* Renamed, then filtered by the fields of all sections of the form, those
\* the caller is not shown included.
FormData(f, source, body) ==
    IF ~body.object THEN {<< >>}
    ELSE {[k \in (DOMAIN r) \cap FormFields(f) |-> r[k]] :
             r \in Renamed(body.fields, source.mapping.fieldMap)}

-----------------------------------------------------------------------------
(***************************************************************************)
(* The menu.                                                               *)
(***************************************************************************)
MenuDomains(registry, granted) ==
    {d \in AllDomains(registry) : HasAll(granted, d.caps)}

MenuChildren(granted, d) == {c \in ToSet(d.children) : HasAll(granted, c.caps)}

\* A badge's service is the name of the domain.
BadgeBinding(d, c) ==
    [type |-> "openapi", service |-> d.name,
     operation |-> (CHOOSE b \in c.badge : TRUE).operation, handler |-> ""]

\* The badges that are asked for, one after the other; children that show
\* the same badge are taken together.
Badges(registry, granted) ==
    UNION {{BadgeBinding(d, c) : c \in {x \in MenuChildren(granted, d) :
                                          \E b \in x.badge : b.operation # << >>}} :
              d \in MenuDomains(registry, granted)}

\* No badge for a field that is missing, not a number or not positive.
BadgeCount(body, field) ==
    IF body.object /\ field \in DOMAIN body.numbers /\ body.numbers[field] > 0
    THEN {body.numbers[field]} ELSE {}

-----------------------------------------------------------------------------
(***************************************************************************)
(* Resources: the first page with a table, in the order of its file, that  *)
(* has the type as its domain or as the first word of its id.  Whichever   *)
(* domain has one may be found first.                                      *)
(***************************************************************************)
ListPageNumber(d, type) ==
    SelectInSeq(d.pages, LAMBDA p : /\ d.name = type \/ (p.id # << >> /\ <<p.id[1]>> = type)
                                    /\ p.table # {} /\ p.layout = "table")

ListPages(registry, type) ==
    {d.pages[ListPageNumber(d, type)] :
        d \in {x \in AllDomains(registry) : ListPageNumber(x, type) # 0}}

PageSource(p) == (CHOOSE t \in p.table : TRUE).source

\* Of the operations that read as getters of the type, the alphabetically first.
GetOperation(index, service, type) ==
    LET getters == {o \in AllOperationIDs(index, service) : type \in index[<<service, o>>].gets}
    IN  {o \in getters : \A q \in getters : index[<<service, o>>].rank <= index[<<service, q>>].rank}

GetResourceList(registry, granted, type) ==
    LET pages == ListPages(registry, type)
    IN  IF pages = {} THEN {Refuse("NOT_FOUND")}
        ELSE {IF HasAll(granted, p.caps) THEN Call(SourceBinding(PageSource(p)), << >>)
              ELSE Refuse("FORBIDDEN") : p \in pages}

\* Mutant of GetResourceItem: the list page's capabilities are not asked for.
GetResourceItemOpen(registry, index, granted, type) ==
    LET pages == ListPages(registry, type)
        Getter(p) == GetOperation(index, PageSource(p).service, type)
    IN  IF pages = {} THEN {Refuse("NOT_FOUND")}
        ELSE {IF Getter(p) = {} \/ PageSource(p).service = << >> THEN Refuse("NOT_FOUND")
              ELSE Call([NoBinding EXCEPT !.type = "openapi", !.service = PageSource(p).service,
                                          !.operation = CHOOSE o \in Getter(p) : TRUE],
                        [id |-> "id"]) : p \in pages}

GetResourceItem(registry, index, granted, type) ==
    LET pages == ListPages(registry, type)
        Getter(p) == GetOperation(index, PageSource(p).service, type)
    IN  IF pages = {} THEN {Refuse("NOT_FOUND")}
        ELSE {IF ~HasAll(granted, p.caps) THEN Refuse("FORBIDDEN")
              ELSE IF Getter(p) = {} \/ PageSource(p).service = << >> THEN Refuse("NOT_FOUND")
              ELSE Call([NoBinding EXCEPT !.type = "openapi", !.service = PageSource(p).service,
                                          !.operation = CHOOSE o \in Getter(p) : TRUE],
                        [id |-> "id"]) : p \in pages}

-----------------------------------------------------------------------------
(***************************************************************************)
(* Schemas.  They are not filtered by capabilities.                        *)
(***************************************************************************)
MapFieldType(t) ==
    CASE t \in {"text", "textarea"} -> "string"
      [] t \in {"select", "badge"}  -> "enum"
      [] t = "currency"             -> "money"
      [] t = "date_range"           -> "date"
      [] OTHER                      -> t

MapColumnType(t) ==
    CASE t = "text"       -> "string"
      [] t = "badge"      -> "enum"
      [] t = "currency"   -> "money"
      [] t = "date_range" -> "date"
      [] OTHER            -> t

\* Only the first dependency of a field is kept.
FieldToSchema(f) ==
    [name |-> f.field, type |-> MapFieldType(f.type), required |-> f.required,
     readOnly |-> f.readOnly \in {"true", "always"}, options |-> f.options,
     visibleWhen |-> IF f.dependsOn = << >> THEN {} ELSE {f.dependsOn[1]}]

SectionSchema(sections) ==
    LET fields == FlattenSeq([n \in DOMAIN sections |-> sections[n].fields])
    IN  [n \in DOMAIN fields |-> FieldToSchema(fields[n])]

\* Two columns each of the priorities 1, 2 and 3; the others have 4.
ColumnSchema(columns) ==
    [n \in DOMAIN columns |->
        [name |-> columns[n].field, type |-> MapColumnType(columns[n].type),
         sortable |-> columns[n].sortable, priority |-> IF n > 6 THEN 4 ELSE (n + 1) \div 2]]

FormSchema(f) == [id |-> f.id, sections |-> SectionSchema(f.sections), columns |-> << >>]

PageSchema(p) ==
    IF p.table = {}
    THEN [id |-> p.id, sections |-> SectionSchema(p.sections), columns |-> << >>]
    ELSE [id |-> p.id, sections |-> << >>,
          columns |-> ColumnSchema((CHOOSE t \in p.table : TRUE).columns)]

\* The first form, or else the first page, whose id begins with the prefix,
\* in whichever domain has one.
SchemaByPrefix(registry, prefix) ==
    LET Form(d) == SelectInSeq(d.forms, LAMBDA f : IsPrefix(prefix, f.id))
        Page(d) == SelectInSeq(d.pages, LAMBDA p : IsPrefix(prefix, p.id))
    IN  {IF Form(d) # 0 THEN FormSchema(d.forms[Form(d)]) ELSE PageSchema(d.pages[Page(d)]) :
            d \in {x \in AllDomains(registry) : Form(x) # 0 \/ Page(x) # 0}}

\* No schema at all makes a NOT_FOUND.
GetSchema(registry, id) ==
    IF id \in DOMAIN registry.forms THEN {FormSchema(registry.forms[id])}
    ELSE IF id \in DOMAIN registry.pages THEN {PageSchema(registry.pages[id])}
    ELSE SchemaByPrefix(registry, id)
=============================================================================
