------------------------------ MODULE Commands ------------------------------
(***************************************************************************)
(* pkg/command: how the input of a command becomes the request of its      *)
(* operation, what stops it on the way, and what becomes of the backend's  *)
(* answer.                                                                 *)
(*                                                                         *)
(* The input and the route parameters are functions from names, dotted     *)
(* paths being one name, to values; "null" is JSON's null.  An expression  *)
(* is [source |-> "input" | "route" | "context" | "workflow" | "literal" | *)
(* "malformed", path |-> the rest, or the literal itself].                 *)
(***************************************************************************)
EXTENDS Descriptors

ContextField == {"subject_id", "tenant_id", "partition_id", "email"}

\* Resolve returns no error.  There is never a workflow, and a name that is
\* missing or null is an error; the context has all its fields.
Resolves(e, input, route) ==
    \/ e.source = "literal"
    \/ e.source = "input" /\ e.path \in DOMAIN input /\ input[e.path] # "null"
    \/ e.source = "route" /\ e.path \in DOMAIN route
    \/ e.source = "context" /\ e.path \in ContextField

Value(e, input, route) ==
    CASE e.source = "input" -> input[e.path]
      [] e.source = "route" -> route[e.path]
      [] OTHER              -> e.path

AllResolve(expressions, input, route) ==
    \A k \in DOMAIN expressions : Resolves(expressions[k], input, route)

ResolveAll(expressions, input, route) ==
    [k \in DOMAIN expressions |-> Value(expressions[k], input, route)]

Strategy == {"passthrough", "", "template", "projection"}

\* The expressions the body is built from, none when the input is the body.
BodyExpressions(mapping) ==
    CASE mapping.bodyMapping = "template"   -> mapping.template
      [] mapping.bodyMapping = "projection" -> mapping.projection
      [] OTHER                              -> << >>

\* MapInput returns no error.
InputMaps(mapping, input, route) ==
    /\ \A part \in {"pathParams", "queryParams", "headerParams"} :
           AllResolve(mapping[part], input, route)
    /\ mapping.bodyMapping \in Strategy
    /\ AllResolve(BodyExpressions(mapping), input, route)

MapBody(mapping, input, route) ==
    IF mapping.bodyMapping \in {"passthrough", ""} THEN input
    ELSE ResolveAll(BodyExpressions(mapping), input, route)

\* The input field behind a field of the body, where it is projected from one.
ReverseFieldMap(projection, field) ==
    IF field \in DOMAIN projection /\ projection[field].source = "input"
    THEN projection[field].path ELSE field

-----------------------------------------------------------------------------
(***************************************************************************)
(* The executor up to the call of the backend.  An operation without a     *)
(* service is not validated: an empty service id is not defaulted here, as *)
(* it is in the validator.                                                 *)
(***************************************************************************)
CommandAccess(registry, granted, id) ==
    Access(id \in DOMAIN registry.commands, granted, registry.commands[id].caps)

SchemaErrors(index, c, input, route) ==
    IF c.operation.type = "openapi" /\ c.operation.service # << >>
    THEN ValidateRequest(index, c.operation.service, c.operation.operation,
                         MapBody(c.input, input, route))
    ELSE {}

\* Mutant of Execute: the schema is left to the dry run.
ExecuteUnvalidated(registry, index, granted, id, input, route) ==
    LET access == CommandAccess(registry, granted, id)
        c == registry.commands[id]
    IN  IF access # "OK" THEN Refuse(access)
        ELSE IF ~InputMaps(c.input, input, route) THEN Refuse("BAD_REQUEST")
        ELSE Call(c.operation, MapBody(c.input, input, route))

Execute(registry, index, granted, id, input, route) ==
    LET access == CommandAccess(registry, granted, id)
        c == registry.commands[id]
    IN  IF access # "OK" THEN Refuse(access)
        ELSE IF ~InputMaps(c.input, input, route) THEN Refuse("BAD_REQUEST")
        ELSE IF SchemaErrors(index, c, input, route) # {} THEN Refuse("VALIDATION_ERROR")
        ELSE Call(c.operation, MapBody(c.input, input, route))

\* The names the console is told of in a VALIDATION_ERROR.
FieldErrors(index, c, input, route) ==
    {ReverseFieldMap(c.input.projection, f) : f \in SchemaErrors(index, c, input, route)}

\* The dry run: what it finds, as codes; nothing when all is well.
DryRun(registry, index, granted, id, input, route) ==
    LET access == CommandAccess(registry, granted, id)
        c == registry.commands[id]
    IN  IF access # "OK" THEN {access}
        ELSE IF ~InputMaps(c.input, input, route) THEN {"MAPPING_ERROR"}
        ELSE IF FieldErrors(index, c, input, route) # {} THEN {"INVALID"}
        ELSE {}

-----------------------------------------------------------------------------
(***************************************************************************)
(* The executor after the call.                                            *)
(***************************************************************************)

\* What the console is shown of a result: all of it, or what Fields names.
\* A path that leads nowhere gives a null.
OutputFields(output, body) ==
    IF ~body.object THEN {}
    ELSE IF DOMAIN output.fields = {} THEN DOMAIN body.fields
    ELSE DOMAIN output.fields

\* Mutant of HandleResponse: a 4xx is relayed as what it most often is.
HandleResponseRelaying(status) ==
    CASE status = "success" -> "OK" [] status = "final" -> "NOT_FOUND" [] OTHER -> "BAD_REQUEST"

\* Mutant of HandleResponse: that there is an answer is enough.
HandleResponseBlind(status) == "OK"

\* handleResponse: anything but a 2xx is a BAD_REQUEST of the caller's,
\* whoever is to blame.  The field errors it takes from a 4xx do not get
\* into that error.
HandleResponse(status) == IF status = "success" THEN "OK" ELSE "BAD_REQUEST"
=============================================================================
