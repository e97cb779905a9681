------------------------- MODULE MCConsoleRequests -------------------------
(***************************************************************************)
(* Small instances of ConsoleRequests: a domain cut down from the orders   *)
(* definitions of test/integration/testdata, next to a second one whose    *)
(* service is named after it, and deployments with something wrong.        *)
(***************************************************************************)
EXTENDS ConsoleRequests

View == <<"orders", "view">>
Edit == <<"orders", "edit">>
Cancel == <<"orders", "cancel">>
Stock == <<"stock", "*">>

\* Nobody, a viewer, a manager of orders who has the whole of stock besides.
Grants == {{}, {View}, {View, Edit, Cancel, Stock}}

-----------------------------------------------------------------------------
(***************************************************************************)
(* Specifications.                                                         *)
(***************************************************************************)
OrdersSvc == <<"orders", "svc">>
StockSvc == <<"stock">>

Reads(rank, types) == [required |-> {}, body |-> FALSE, rank |-> rank, gets |-> types]
Writes(rank, required) == [required |-> required, body |-> TRUE, rank |-> rank, gets |-> {}]

OrdersSpec ==
    [service |-> OrdersSvc, valid |-> TRUE,
     operations |->
         (<<"getOrder">>       :> Reads(3, {<<"orders">>}))
      @@ (<<"getOrderCounts">> :> Reads(4, {<<"orders">>}))
      @@ (<<"listOrders">>     :> Reads(5, {}))
      @@ (<<"updateOrder">>    :> Writes(6, {"address"}))
      @@ (<<"cancelOrder">>    :> Writes(1, {}))]

StockSpec ==
    [service |-> StockSvc, valid |-> TRUE,
     operations |->
         (<<"listStock">>   :> Reads(2, {}))
      @@ (<<"countStock">>  :> Reads(1, {}))
      @@ (<<"alertStock">>  :> Reads(0, {}))
      @@ (<<"adjustStock">> :> Writes(3, {"quantity"}))]

-----------------------------------------------------------------------------
(***************************************************************************)
(* Definitions.                                                            *)
(***************************************************************************)
OpenAPI(service, operation) ==
    [NoBinding EXCEPT !.type = "openapi", !.service = service, !.operation = <<operation>>]

Source(service, operation, mapping) ==
    [NoDataSource EXCEPT !.service = service, !.operation = <<operation>>, !.mapping = mapping]

Rows(fieldMap) == [items |-> "data", total |-> "total_count", fieldMap |-> fieldMap]

Table(source) == [NoTable EXCEPT !.source = source, !.columns = <<[NoColumn EXCEPT !.field = "order_number"]>>]

Input(path) == [source |-> "input", path |-> path]

Field(name, visibility) == [NoField EXCEPT !.field = name, !.type = "text", !.visibility = visibility]

IfPending == [field |-> "status", operator |-> "in", value |-> {"pending"}, effect |-> "show"]

CommandAction(id, needed, command) ==
    [NoAction EXCEPT !.id = <<id>>, !.caps = needed, !.type = "command", !.command = command,
                     !.conditions = <<IfPending>>]

FormAction(id, needed, form) ==
    [NoAction EXCEPT !.id = <<id>>, !.caps = needed, !.type = "form", !.form = form]

OrdersList ==
    [NoPage EXCEPT !.id = <<"orders", "list">>, !.titled = TRUE, !.layout = "table", !.caps = {View},
        !.table = {[Table(Source(OrdersSvc, "listOrders", Rows([orderNumber |-> "order_number"])))
                       EXCEPT !.rowActions = <<CommandAction("cancel_row", {Cancel}, <<"orders", "cancel">>)>>,
                              !.bulkActions = <<CommandAction("cancel_all", {Cancel}, <<"orders", "cancel">>)>>]}]

OrdersDetail ==
    [NoPage EXCEPT !.id = <<"orders", "detail">>, !.titled = TRUE, !.layout = "detail", !.caps = {View},
        !.sections = <<[caps |-> {}, fields |-> <<Field("status", "")>>]>>,
        !.actions = <<FormAction("edit", {Edit}, <<"orders", "edit_form">>),
                      CommandAction("cancel", {Cancel}, <<"orders", "cancel">>)>>]

EditForm ==
    [NoForm EXCEPT !.id = <<"orders", "edit_form">>, !.titled = TRUE, !.caps = {Edit},
        !.submit = <<"orders", "update">>,
        !.loadSource = {Source(OrdersSvc, "getOrder",
                               Rows([shippingAddress |-> "address", status |-> "state"]))},
        !.sections = <<[caps |-> {}, fields |-> <<Field("address", ""), Field("notes", "hidden")>>],
                       [caps |-> {Cancel}, fields |-> <<Field("internal_code", "")>>]>>]

ConfirmForm ==
    [NoForm EXCEPT !.id = <<"orders", "confirm_form">>, !.titled = TRUE,
        !.submit = <<"orders", "cancel">>, !.sections = <<NoSection>>]

UpdateOrder ==
    [NoCommand EXCEPT !.id = <<"orders", "update">>, !.caps = {Edit},
        !.operation = OpenAPI(OrdersSvc, "updateOrder"),
        !.input = [NoInput EXCEPT !.pathParams = [id |-> [source |-> "route", path |-> "id"]],
                                  !.bodyMapping = "projection",
                                  !.projection = [address |-> Input("address"),
                                                  author |-> [source |-> "context", path |-> "email"]]]]

CancelOrder ==
    [NoCommand EXCEPT !.id = <<"orders", "cancel">>, !.caps = {Cancel},
        !.operation = OpenAPI(OrdersSvc, "cancelOrder"),
        !.input = [NoInput EXCEPT !.pathParams = [id |-> Input("id")],
                                  !.bodyMapping = "projection",
                                  !.projection = [reason |-> Input("reason")]],
        !.output = [fields |-> [state |-> "status"]]]

\* The badge's operation belongs to orders-svc, but is asked of "orders".
Orders ==
    [NoDomain EXCEPT !.name = <<"orders">>, !.versioned = TRUE, !.labelled = TRUE, !.caps = {View},
        !.children = <<[page |-> <<"orders", "list">>, caps |-> {View},
                        badge |-> {[operation |-> <<"getOrderCounts">>, field |-> "pending"]}]>>,
        !.pages = <<OrdersList, OrdersDetail>>,
        !.forms = <<EditForm, ConfirmForm>>,
        !.commands = <<UpdateOrder, CancelOrder>>]

StockList ==
    [NoPage EXCEPT !.id = <<"stock", "list">>, !.titled = TRUE, !.layout = "table",
        !.caps = {<<"stock", "view">>},
        !.table = {Table(Source(StockSvc, "listStock", Rows(<< >>)))},
        !.actions = <<CommandAction("cancel", {}, <<"stock", "adjust">>),
                      CommandAction("print", {}, << >>)>>]

AdjustStock ==
    [NoCommand EXCEPT !.id = <<"stock", "adjust">>, !.caps = {Stock},
        !.operation = OpenAPI(StockSvc, "adjustStock"),
        !.input = [NoInput EXCEPT !.bodyMapping = "passthrough"]]

StockDomain ==
    [NoDomain EXCEPT !.name = <<"stock">>, !.versioned = TRUE, !.labelled = TRUE,
        !.children = <<[page |-> <<"stock", "list">>, caps |-> {},
                        badge |-> {[operation |-> <<"countStock">>, field |-> "low"]}],
                       [page |-> <<"stock", "list">>, caps |-> {<<"stock", "view">>},
                        badge |-> {[operation |-> <<"alertStock">>, field |-> "low"]}],
                       [NoChild EXCEPT !.page = <<"stock", "plan">>]>>,
        !.pages = <<StockList>>,
        !.commands = <<AdjustStock>>]

\* A form that loads from an operation no specification has, a command that
\* leaves its service out, one with an SDK handler, a template that asks for
\* a workflow, and a page without a table.
ReturnForm ==
    [NoForm EXCEPT !.id = <<"returns", "form">>, !.titled = TRUE, !.submit = <<"returns", "open">>,
        !.loadSource = {Source(OrdersSvc, "getReturn", NoMapping)}, !.sections = <<NoSection>>]

Returns ==
    [NoDomain EXCEPT !.name = <<"orders">>, !.versioned = TRUE, !.labelled = TRUE,
        !.children = <<[NoChild EXCEPT !.page = <<"returns", "list">>]>>,
        !.pages = <<[NoPage EXCEPT !.id = <<"returns", "list">>, !.titled = TRUE, !.layout = "dashboard"]>>,
        !.forms = <<ReturnForm>>,
        !.commands = <<[NoCommand EXCEPT !.id = <<"returns", "open">>,
                            !.operation = OpenAPI(<< >>, "cancelOrder")],
                       [NoCommand EXCEPT !.id = <<"returns", "print">>,
                            !.operation = [NoBinding EXCEPT !.type = "sdk", !.handler = "printer"]],
                       [NoCommand EXCEPT !.id = <<"returns", "close">>,
                            !.operation = OpenAPI(OrdersSvc, "cancelOrder"),
                            !.input = [NoInput EXCEPT !.bodyMapping = "template",
                                          !.template = [id |-> [source |-> "workflow", path |-> "id"]]]]>>]

-----------------------------------------------------------------------------
(***************************************************************************)
(* Deployments.                                                            *)
(***************************************************************************)
File(domain) == [yaml |-> TRUE, parses |-> TRUE, domain |-> domain]
NotYaml == [yaml |-> FALSE, parses |-> FALSE, domain |-> NoDomain]

Whole ==
    [specs |-> <<OrdersSpec, StockSpec>>,
     files |-> <<NotYaml, File(Orders), File(StockDomain)>>,
     services |-> {OrdersSvc, StockSvc, FileBinding.service}]

\* All is in order as far as booting looks.
Neglected ==
    [specs |-> <<OrdersSpec>>, files |-> <<File(Returns)>>, services |-> {OrdersSvc}]

Dangling ==
    [Whole EXCEPT !.files = <<File([Orders EXCEPT !.commands = <<CancelOrder>>])>>]

WholeOnly == [whole |-> Whole]

\* The service of the orders is described but was not given an address.
Deployments ==
    [whole      |-> Whole,
     neglected  |-> Neglected,
     unserved   |-> [Whole EXCEPT !.services = {StockSvc}],
     dangling   |-> Dangling,
     unparsable |-> [Whole EXCEPT !.files = Append(@, [NotYaml EXCEPT !.yaml = TRUE])],
     misdescribed |-> [Whole EXCEPT !.specs[2].valid = FALSE]]

-----------------------------------------------------------------------------
(***************************************************************************)
(* Requests: every route, ids that exist, that are of another thing and    *)
(* that do not exist, and bodies that are whole, incomplete, null or       *)
(* malformed.                                                              *)
(***************************************************************************)
Order == [id |-> "7", address |-> "here", reason |-> "late"]

With(route, id, input, params) ==
    [Named(route, id) EXCEPT !.input = input, !.params = params]

Malformed(route, id) == [Named(route, id) EXCEPT !.wellFormed = FALSE]

Targets ==
    {Named(route, id) : route \in {"page", "page_data"},
                        id \in {<<"orders", "list">>, <<"orders", "detail">>, <<"returns", "list">>}}
    \cup {Named(route, id) : route \in {"form", "form_data"},
                             id \in {<<"orders", "edit_form">>, <<"orders", "confirm_form">>,
                                     <<"returns", "form">>, <<"orders", "list">>}}
    \cup {Named("schema", id) : id \in {<<"orders", "edit_form">>, <<"orders", "detail">>,
                                        <<"stock">>, <<"nothing">>}}
    \cup {Named("resource", <<"orders">>), Named("resource", <<"nothing">>),
          Named("resource_item", <<"orders">>), Named("resource_item", <<"stock">>)}
    \cup {With("command", <<"orders", "update">>, Order, [id |-> "7"]),
          With("command", <<"orders", "update">>, Order, << >>),
          With("command", <<"orders", "cancel">>, [Order EXCEPT !.reason = "null"], << >>),
          With("command", <<"stock", "adjust">>, [quantity |-> "1"], << >>),
          With("command", <<"stock", "adjust">>, [amount |-> "1"], << >>),
          Named("command", <<"returns", "open">>), Named("command", <<"returns", "print">>),
          Named("command", <<"returns", "close">>), Malformed("command", <<"orders", "cancel">>)}
    \cup {With("action", <<"cancel">>, Order, << >>), Named("action", <<"edit">>),
          Named("action", <<"cancel_row">>), Named("action", <<"print">>),
          Malformed("action", <<"edit">>)}
    \cup {Named("navigation", << >>), Named("upload", << >>), Named("download", <<"f">>),
          Named("capabilities", << >>), Malformed("batch_check", << >>),
          [Named("batch_check", << >>) EXCEPT
              !.checks = {[namespace |-> <<"orders">>, permissions |-> {<<"view">>, <<"edit">>}]}]}

\* An object in which two fields get one name, an empty one, and a list.
Bodies ==
    {[object |-> TRUE,
      fields |-> [shippingAddress |-> "b", address |-> "a", status |-> "a", notes |-> "a",
                  internal_code |-> "a"],
      lists |-> [data |-> <<[orderNumber |-> "a", order_number |-> "b"], [status |-> "a"]>>],
      numbers |-> [total_count |-> 5, low |-> 2]],
     [object |-> TRUE, fields |-> << >>, lists |-> << >>, numbers |-> [low |-> 0]],
     [object |-> FALSE, fields |-> << >>, lists |-> << >>, numbers |-> << >>]}
=============================================================================
