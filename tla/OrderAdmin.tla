----------------------------- MODULE OrderAdmin -----------------------------
(***************************************************************************)
(* The order server's Get, List, Update, Delete and GetProducts, and the   *)
(* product server's GetByOrder.  Each is one or two autocommitted          *)
(* statements; requests, catalogue changes and new orders run in between.  *)
(***************************************************************************)
EXTENDS OrderTables

CONSTANTS
  Requests,   \* the handlers of clients' calls
  None,       \* no call yet; a finish_date that is NULL
  Faults      \* the kinds of fault that can happen

FaultKinds == {"statement", "ackLost", "crash"}

Statuses == {"new", "processing", "completed", "cancelled"}

\* An UpdateOrderRequest can leave the status out, or name none by its number:
\* both arrive as the empty string.
Unset == ""

Calls ==
  [operation : {"Get", "List", "Delete", "GetProducts"}, order : OrderUuids]
    \cup [operation : {"Update"}, order : OrderUuids, status : Statuses \cup {Unset}]

\* The columns of an order that change.  A date is named by the request at whose
\* NOW() it was set; "owned" says that user_id and staff_id are not blank.
Details == [status : Statuses, finish : Requests \cup {None}, owned : BOOLEAN]

ASSUME AdminAssumption ==
  /\ None \notin Requests /\ None \notin Calls
  /\ NoRow \notin Details
  /\ Faults \subseteq FaultKinds

VARIABLES
  details,   \* these columns of the orders' rows
  pc,        \* where each handler is
  call,      \* what it was called for
  answer,    \* the lines it answers with
  placed     \* history: the lines each order was created with

vars == <<details, pc, call, answer, placed, product, orders, orderProducts>>

Running == {"readingRow", "updating", "readingLines", "listing",
            "deletingLines", "deletingRow"}

TypeOK ==
  /\ TablesTypeOK
  /\ details \in [OrderUuids -> Details \cup {NoRow}]
  /\ pc \in [Requests -> Running \cup {"idle", "done", "failed", "dead"}]
  /\ call \in [Requests -> Calls \cup {None}]
  /\ answer \in [Requests -> SUBSET OrderProduct]
  /\ placed \in [OrderUuids -> SUBSET OrderProduct]

Init ==
  /\ product \in [ProductUuids -> ProductRow \cup {NoRow}]
  /\ orders = [o \in OrderUuids |-> NoRow]
  /\ orderProducts = {}
  /\ details = [o \in OrderUuids |-> NoRow]
  /\ placed = [o \in OrderUuids |-> {}]
  /\ pc = [r \in Requests |-> "idle"]
  /\ call = [r \in Requests |-> None]
  /\ answer = [r \in Requests |-> {}]

GoTo(r, step) == pc' = [pc EXCEPT ![r] = step]

\* A statement took effect; its acknowledgement may be lost.
Applied(r, step) ==
  GoTo(r, step) \/ ("ackLost" \in Faults /\ GoTo(r, "failed"))

-----------------------------------------------------------------------------
(* Orders come and go with the catalogue *)

\* COMMIT of CreateWithProducts: an order appears with all its lines, each of an
\* existing product (OrderCreation: CompleteOrders).
Place(o) ==
  /\ placed[o] = {}
  /\ \E us \in SUBSET {u \in ProductUuids : product[u] # NoRow}, cost \in Prices :
       LET lines == {[order |-> o, product |-> u, price |-> product[u].cost, amount |-> 1] :
                       u \in us}
       IN /\ us # {}
          /\ orders' = [orders EXCEPT ![o] = cost]
          /\ orderProducts' = orderProducts \cup lines
          /\ placed' = [placed EXCEPT ![o] = lines]
  /\ details' = [details EXCEPT ![o] = [status |-> "new", finish |-> None, owned |-> TRUE]]
  /\ UNCHANGED <<pc, call, answer, product>>

ChangeCatalogue ==
  /\ \E u \in ProductUuids :
       \/ \E c \in Codes, cost \in Prices : CreateProduct(u, c, cost)
       \/ DeleteProduct(u, {})
  /\ UNCHANGED <<details, pc, call, answer, placed>>

-----------------------------------------------------------------------------
(* The handlers *)

\* Mutant of FirstStep: Delete begins with the order's row.
RowFirst ==
  [Get |-> "readingRow", List |-> "listing", Update |-> "updating",
   Delete |-> "deletingRow", GetProducts |-> "readingLines"]

FirstStep ==
  [Get |-> "readingRow", List |-> "listing", Update |-> "updating",
   Delete |-> "deletingLines", GetProducts |-> "readingLines"]

\* A client names an order whose uuid it was told: one that was placed.
Receive(r, c) ==
  /\ pc[r] = "idle"
  /\ placed[c.order] # {}
  /\ call' = [call EXCEPT ![r] = c]
  /\ GoTo(r, FirstStep[c.operation])
  /\ UNCHANGED <<details, answer, placed, tableVars>>

\* GetOrder; no row is an error.
ReadRow(r) ==
  /\ pc[r] = "readingRow"
  /\ GoTo(r, IF orders[call[r].order] = NoRow THEN "failed" ELSE "readingLines")
  /\ UNCHANGED <<details, call, answer, placed, tableVars>>

\* GetOrderProducts or GetProductsByOrder: the lines joined with their products.
ReadLines(r) ==
  /\ pc[r] = "readingLines"
  /\ answer' = [answer EXCEPT ![r] =
       {l \in RowsOf(call[r].order) : product[l.product] # NoRow}]
  /\ GoTo(r, "done")
  /\ UNCHANGED <<details, call, placed, tableVars>>

\* List passes the status on as a code point, which the enum refuses.
ListOrders(r) ==
  /\ pc[r] = "listing"
  /\ GoTo(r, "failed")
  /\ UNCHANGED <<details, call, answer, placed, tableVars>>

\* Mutant of NewFinish: the CASE of UpdateOrderStatus, a query nobody runs.
FinishNotReset(row, status, r) ==
  IF status = "completed" THEN r ELSE row.finish

\* Mutant of NewFinish: without AND status != 'completed'.
FinishMovedOn(row, status, r) ==
  IF status = "completed" THEN r ELSE None

\* The CASE of UpdateOrder.
NewFinish(row, status, r) ==
  CASE status = "completed" /\ row.status # "completed" -> r
    [] status # "completed" -> None
    [] OTHER -> row.finish

\* The row after UpdateOrder.  COALESCE keeps the comment and the cost, sent as
\* NULL, but not user_id and staff_id, sent as the empty string.
Updated(row, status, r) ==
  [status |-> status, finish |-> NewFinish(row, status, r), owned |-> FALSE]

\* Mutant of UpdateRow: INSERT ... ON CONFLICT DO UPDATE.
UpsertRow(r) ==
  LET o == call[r].order IN
  /\ pc[r] = "updating"
  /\ call[r].status # Unset
  /\ details' = [details EXCEPT ![o] =
       [status |-> call[r].status, finish |-> None, owned |-> FALSE]]
  /\ \E cost \in Prices : orders' = [orders EXCEPT ![o] = cost]
  /\ Applied(r, "readingLines")
  /\ UNCHANGED <<call, answer, placed, product, orderProducts>>

\* Mutant of UpdateRow: the status column is a TEXT.
UpdateRowAsText(r) ==
  LET o == call[r].order IN
  /\ pc[r] = "updating"
  /\ orders[o] # NoRow
  /\ details' = [details EXCEPT ![o] = Updated(@, call[r].status, r)]
  /\ Applied(r, "readingLines")
  /\ UNCHANGED <<call, answer, placed, tableVars>>

\* UpdateOrder; no row and a status the enum refuses are errors.
UpdateRow(r) ==
  LET o == call[r].order
      updates == orders[o] # NoRow /\ call[r].status # Unset
  IN
  /\ pc[r] = "updating"
  /\ \/ /\ updates
        /\ details' = [details EXCEPT ![o] = Updated(@, call[r].status, r)]
        /\ Applied(r, "readingLines")
     \/ ~ updates /\ GoTo(r, "failed") /\ UNCHANGED details
  /\ UNCHANGED <<call, answer, placed, tableVars>>

\* Mutant of DeleteLines: RemoveProductFromOrder for one line after the other.
DeleteLineByLine(r) ==
  LET o == call[r].order IN
  /\ pc[r] = "deletingLines"
  /\ \/ /\ \E l \in RowsOf(o) : orderProducts' = orderProducts \ {l}
        /\ UNCHANGED pc
     \/ RowsOf(o) = {} /\ GoTo(r, "deletingRow") /\ UNCHANGED orderProducts
  /\ UNCHANGED <<details, call, answer, placed, product, orders>>

\* DeleteOrderProducts; that there are none is no error.
DeleteLines(r) ==
  /\ pc[r] = "deletingLines"
  /\ orderProducts' = orderProducts \ RowsOf(call[r].order)
  /\ Applied(r, "deletingRow")
  /\ UNCHANGED <<details, call, answer, placed, product, orders>>

\* DeleteOrder; Exec does not report that there was no row.  The foreign key of
\* order_products would refuse an order with lines.
DeleteRow(r) ==
  LET o == call[r].order IN
  /\ pc[r] = "deletingRow"
  /\ RowsOf(o) = {}
  /\ orders' = [orders EXCEPT ![o] = NoRow]
  /\ details' = [details EXCEPT ![o] = NoRow]
  /\ Applied(r, "done")
  /\ UNCHANGED <<call, answer, placed, product, orderProducts>>

Handle(r) ==
  \/ ReadRow(r) \/ ReadLines(r) \/ ListOrders(r)
  \/ UpdateRow(r) \/ DeleteLines(r) \/ DeleteRow(r)

-----------------------------------------------------------------------------
(* Faults *)

\* A statement returns an error and has no effect, also because the client's
\* cancellation or deadline ended its context.
StatementFails(r) ==
  /\ "statement" \in Faults
  /\ pc[r] \in Running
  /\ GoTo(r, "failed")
  /\ UNCHANGED <<details, call, answer, placed, tableVars>>

\* The process dies under its handlers.
Crash ==
  /\ "crash" \in Faults
  /\ pc' = [r \in Requests |-> IF pc[r] \in Running THEN "dead" ELSE pc[r]]
  /\ UNCHANGED <<details, call, answer, placed, tableVars>>

Next ==
  \/ \E o \in OrderUuids : Place(o)
  \/ ChangeCatalogue
  \/ \E r \in Requests :
       \/ \E c \in Calls : Receive(r, c)
       \/ Handle(r) \/ StatementFails(r)
  \/ Crash

Safety == Init /\ [][Next]_vars

-----------------------------------------------------------------------------
(* Properties *)

\* An order has a finish date exactly while it is completed, whichever updates
\* race and whichever of them are answered with an error.
FinishedIffCompleted ==
  \A o \in OrderUuids : orders[o] # NoRow =>
    (details[o].status = "completed") <=> (details[o].finish # None)

\* Completing a completed order, as a client does that retries after a lost
\* answer, keeps the date on which it was first completed.
FinishDateKept ==
  [][\A o \in OrderUuids :
       orders[o] # NoRow /\ orders'[o] # NoRow
         /\ details[o].status = "completed" /\ details'[o].status = "completed"
       => details'[o].finish = details[o].finish]_vars

\* An order whose deletion was answered stays deleted: no update in flight brings
\* it back, and no line of it keeps a product from being deleted.
DeletedForGood ==
  \A r \in Requests : pc[r] = "done" /\ call[r].operation = "Delete" =>
    orders[call[r].order] = NoRow /\ RowsOf(call[r].order) = {}

\* Get and Update read the order and its lines by two statements, between which
\* orders and products are deleted.  They still answer all lines the order was
\* created with, or none; and none only of an order that has lost them for good.
AnswersWhole ==
  \A r \in Requests :
    pc[r] = "done" /\ call[r].operation \in {"Get", "Update", "GetProducts"} =>
      LET o == call[r].order IN
      answer[r] = placed[o] \/ (answer[r] = {} /\ RowsOf(o) = {})

\* The inductive invariant behind these: an order's row, its lines, their products
\* and the handlers that have seen some of them fit together.
RowMatchesLines(o) ==
  /\ orders[o] = NoRow <=> details[o] = NoRow
  /\ orders[o] = NoRow => RowsOf(o) = {}
  /\ RowsOf(o) \in {{}, placed[o]}
  /\ \A l \in RowsOf(o) : product[l.product] # NoRow

CallMatchesStep(r) ==
  /\ pc[r] # "idle" => call[r] \in Calls /\ placed[call[r].order] # {}
  /\ pc[r] = "readingRow" => call[r].operation = "Get"
  /\ pc[r] = "updating" => call[r].operation = "Update"
  /\ pc[r] = "readingLines" => call[r].operation # "Delete"
  /\ pc[r] \in {"deletingLines", "deletingRow"} => call[r].operation = "Delete"
  /\ pc[r] = "deletingRow" => RowsOf(call[r].order) = {}

Consistent ==
  /\ \A o \in OrderUuids : RowMatchesLines(o)
  /\ \A r \in Requests : CallMatchesStep(r)

\* models.OrderCreateRequest requires user_id and staff_id (tag "validate"), and an
\* update has no way to ask for another: an order keeps its owner.
OrdersKeepOwner ==
  \A o \in OrderUuids : orders[o] # NoRow => details[o].owned
=============================================================================
