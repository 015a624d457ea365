--------------------------- MODULE OrderAdminProofs ---------------------------
(***************************************************************************)
(* What the order server's handlers guarantee for any number of orders,    *)
(* products and concurrent requests, and under any set of fault kinds.     *)
(***************************************************************************)
EXTENDS OrderAdmin, TLAPS

\* What an ended handler has answered: DeletedForGood and AnswersWhole for one request.
Answered(r) ==
  pc[r] = "done" =>
    LET o == call[r].order IN
    IF call[r].operation = "Delete"
      THEN orders[o] = NoRow /\ RowsOf(o) = {}
      ELSE answer[r] = placed[o] \/ (answer[r] = {} /\ RowsOf(o) = {})

\* The inductive invariant.
IInv ==
  /\ TypeOK /\ Consistent /\ FinishedIffCompleted
  /\ \A r \in Requests : Answered(r)

LEMMA InitIInv == Init => IInv
  BY DEF Init, IInv, TypeOK, TablesTypeOK, Consistent, RowMatchesLines, CallMatchesStep,
         FinishedIffCompleted, Answered, RowsOf

-----------------------------------------------------------------------------
(* What the statements do to the tables *)

\* The lines Place inserts.
LinesFor(o, us) ==
  {[order |-> o, product |-> u, price |-> product[u].cost, amount |-> 1] : u \in us}

LEMMA LinesType ==
  ASSUME TypeOK, NEW o \in OrderUuids, NEW us \in SUBSET ProductUuids,
         \A u \in us : product[u] # NoRow
  PROVE  /\ LinesFor(o, us) \subseteq OrderProduct
         /\ \A l \in LinesFor(o, us) : l.order = o /\ product[l.product] # NoRow
<1>1. \A u \in us : product[u].cost \in Prices
  BY DEF TypeOK, TablesTypeOK, ProductRow
<1> QED
  BY <1>1 DEF LinesFor, OrderProduct

\* An order's new row, whatever it was and whatever is asked for.
LEMMA UpdatedType ==
  ASSUME NEW row \in Details, NEW status \in Statuses, NEW r \in Requests
  PROVE  /\ Updated(row, status, r) \in Details
         /\ (row.status = "completed") <=> (row.finish # None) =>
            LET new == Updated(row, status, r) IN
            (new.status = "completed") <=> (new.finish # None)
<1>1. NewFinish(row, status, r) \in Requests \cup {None}
  BY DEF NewFinish, Details
<1> QED
  BY <1>1, AdminAssumption DEF Updated, NewFinish, Details
\* Once placed, an order only loses: its lines, then its row.
Forward(o) ==
  placed[o] # {} =>
    /\ placed'[o] = placed[o]
    /\ RowsOf(o) = {} => RowsOf(o)' = {}
    /\ orders[o] = NoRow => orders'[o] = NoRow

\* What every step keeps of the tables.
TablesKept ==
  /\ TypeOK'
  /\ \A o \in OrderUuids : RowMatchesLines(o)' /\ Forward(o)

LEMMA PlaceKeepsTables ==
  ASSUME TypeOK, Consistent, NEW o \in OrderUuids, Place(o)
  PROVE  TablesKept
<1>1. PICK us \in SUBSET {u \in ProductUuids : product[u] # NoRow}, cost \in Prices :
        /\ us # {}
        /\ orders' = [orders EXCEPT ![o] = cost]
        /\ orderProducts' = orderProducts \cup LinesFor(o, us)
        /\ placed' = [placed EXCEPT ![o] = LinesFor(o, us)]
  BY DEF Place, LinesFor
<1>2. /\ LinesFor(o, us) \subseteq OrderProduct
      /\ \A l \in LinesFor(o, us) : l.order = o /\ product[l.product] # NoRow
  BY LinesType
<1>3. details' = [details EXCEPT ![o] = [status |-> "new", finish |-> None, owned |-> TRUE]]
      /\ UNCHANGED <<pc, call, answer, product>> /\ placed[o] = {}
  BY DEF Place
<1>4. TypeOK'
  BY <1>1, <1>2, <1>3, TablesAssumption DEF TypeOK, TablesTypeOK, Details, Statuses
<1>5. RowsOf(o)' = LinesFor(o, us)
  BY <1>1, <1>2, <1>3 DEF RowsOf, Consistent, RowMatchesLines
<1>6. RowMatchesLines(o)' /\ Forward(o)
  <2>1. cost # NoRow /\ details'[o] # NoRow
    <3>1. [status |-> "new", finish |-> None, owned |-> TRUE] \in Details
      BY DEF Details, Statuses
    <3> QED
      BY <1>3, <3>1, TablesAssumption, AdminAssumption DEF TypeOK
  <2> QED
    BY <1>1, <1>2, <1>3, <1>5, <2>1 DEF RowMatchesLines, Forward, TypeOK, TablesTypeOK
<1>7. ASSUME NEW p \in OrderUuids \ {o} PROVE RowMatchesLines(p)' /\ Forward(p)
  <2>1. RowsOf(p)' = RowsOf(p)
    BY <1>1, <1>2 DEF RowsOf
  <2> QED
    BY <1>1, <1>3, <2>1 DEF RowMatchesLines, Forward, Consistent, TypeOK, TablesTypeOK
<1> QED
  BY <1>4, <1>6, <1>7 DEF TablesKept

LEMMA CatalogueKeepsTables ==
  ASSUME TypeOK, Consistent, ChangeCatalogue
  PROVE  TablesKept
<1>1. UNCHANGED <<details, pc, call, answer, placed, orders, orderProducts>>
  BY DEF ChangeCatalogue, CreateProduct, DeleteProduct
<1>2. product' \in [ProductUuids -> ProductRow \cup {NoRow}]
  BY DEF ChangeCatalogue, CreateProduct, DeleteProduct, TypeOK, TablesTypeOK, ProductRow
<1>3. \A l \in orderProducts : product[l.product] # NoRow => product'[l.product] # NoRow
  <2>1. ASSUME NEW u \in ProductUuids, NEW c \in Codes, NEW cost \in Prices,
               CreateProduct(u, c, cost), NEW l \in orderProducts, product[l.product] # NoRow
        PROVE  product'[l.product] # NoRow
    BY <2>1 DEF CreateProduct, TypeOK, TablesTypeOK, OrderProduct
  <2>2. ASSUME NEW u \in ProductUuids, DeleteProduct(u, {}), NEW l \in orderProducts,
               product[l.product] # NoRow
        PROVE  product'[l.product] # NoRow
    BY <2>2 DEF DeleteProduct, TypeOK, TablesTypeOK, OrderProduct
  <2> QED
    BY <2>1, <2>2 DEF ChangeCatalogue
<1>4. \A o : RowsOf(o)' = RowsOf(o)
  BY <1>1 DEF RowsOf
<1> QED
  BY <1>1, <1>2, <1>3, <1>4
  DEF TablesKept, TypeOK, TablesTypeOK, RowMatchesLines, Forward, Consistent, RowsOf

\* The statements of the handlers that only read, and the steps with none.
LEMMA ReadersKeepTables ==
  ASSUME TypeOK, Consistent, UNCHANGED <<details, placed, tableVars>>,
         pc' \in [Requests -> Running \cup {"idle", "done", "failed", "dead"}],
         call' \in [Requests -> Calls \cup {None}],
         answer' \in [Requests -> SUBSET OrderProduct]
  PROVE  TablesKept
<1>1. \A o : RowsOf(o)' = RowsOf(o)
  BY DEF RowsOf, tableVars
<1> QED
  BY <1>1 DEF TablesKept, TypeOK, TablesTypeOK, tableVars, RowMatchesLines, Forward, Consistent

LEMMA UpdateKeepsTables ==
  ASSUME TypeOK, Consistent, NEW r \in Requests, UpdateRow(r)
  PROVE  TablesKept
<1> DEFINE o == call[r].order
<1>1. call[r] \in Calls /\ call[r].operation = "Update"
  BY DEF UpdateRow, Consistent, CallMatchesStep
<1>2. o \in OrderUuids /\ call[r].status \in Statuses \cup {Unset}
  BY <1>1 DEF Calls
<1>3. UNCHANGED <<call, answer, placed, product, orders, orderProducts>>
      /\ pc' \in [Requests -> Running \cup {"idle", "done", "failed", "dead"}]
  BY DEF UpdateRow, Applied, GoTo, TypeOK, Running, tableVars
<1>4. details' \in [OrderUuids -> Details \cup {NoRow}]
      /\ \A p \in OrderUuids : details'[p] = NoRow <=> details[p] = NoRow
  <2>1. CASE UNCHANGED details
    BY <2>1 DEF TypeOK
  <2>2. CASE /\ orders[o] # NoRow /\ call[r].status # Unset
             /\ details' = [details EXCEPT ![o] = Updated(@, call[r].status, r)]
    <3>1. details[o] \in Details
      BY <1>2, <2>2 DEF TypeOK, Consistent, RowMatchesLines
    <3>2. Updated(details[o], call[r].status, r) \in Details
      BY <1>2, <2>2, <3>1, UpdatedType
    <3> QED
      BY <1>2, <2>2, <3>1, <3>2, AdminAssumption DEF TypeOK
  <2> QED
    BY <2>1, <2>2 DEF UpdateRow
<1>5. \A p : RowsOf(p)' = RowsOf(p)
  BY <1>3 DEF RowsOf
<1> QED
  BY <1>3, <1>4, <1>5
  DEF TablesKept, TypeOK, TablesTypeOK, RowMatchesLines, Forward, Consistent

LEMMA DeletionKeepsTables ==
  ASSUME TypeOK, Consistent, NEW r \in Requests, DeleteLines(r) \/ DeleteRow(r)
  PROVE  TablesKept
<1> DEFINE o == call[r].order
<1>1. o \in OrderUuids
  BY DEF DeleteLines, DeleteRow, Consistent, CallMatchesStep, Calls
<1>2. pc' \in [Requests -> Running \cup {"idle", "done", "failed", "dead"}]
  BY DEF DeleteLines, DeleteRow, Applied, GoTo, TypeOK, Running
<1>3. CASE DeleteLines(r)
  <2>1. orderProducts' = orderProducts \ RowsOf(o)
        /\ UNCHANGED <<details, call, answer, placed, product, orders>>
    BY <1>3 DEF DeleteLines
  <2>2. \A p : RowsOf(p)' = IF p = o THEN {} ELSE RowsOf(p)
    BY <2>1 DEF RowsOf
  <2> QED
    BY <1>2, <2>1, <2>2
    DEF TablesKept, TypeOK, TablesTypeOK, RowMatchesLines, Forward, Consistent
<1>4. CASE DeleteRow(r)
  <2>1. /\ RowsOf(o) = {}
        /\ orders' = [orders EXCEPT ![o] = NoRow] /\ details' = [details EXCEPT ![o] = NoRow]
        /\ UNCHANGED <<call, answer, placed, product, orderProducts>>
    BY <1>4 DEF DeleteRow
  <2>2. \A p : RowsOf(p)' = RowsOf(p)
    BY <2>1 DEF RowsOf
  <2> QED
    BY <1>1, <1>2, <2>1, <2>2
    DEF TablesKept, TypeOK, TablesTypeOK, RowMatchesLines, Forward, Consistent
<1> QED
  BY <1>3, <1>4

\* Every step keeps the tables consistent and moves orders forward only.
LEMMA TablesStep == TypeOK /\ Consistent /\ [Next]_vars => TablesKept
<1> SUFFICES ASSUME TypeOK, Consistent, [Next]_vars PROVE TablesKept
  OBVIOUS
<1>1. CASE UNCHANGED vars
  BY <1>1, ReadersKeepTables DEF vars, tableVars, TypeOK
<1>2. ASSUME NEW r \in Requests, NEW c \in Calls, Receive(r, c) PROVE TablesKept
  BY <1>2, ReadersKeepTables DEF Receive, GoTo, FirstStep, TypeOK, Running, Calls
<1>3. ASSUME NEW r \in Requests, Handle(r) PROVE TablesKept
  <2>1. CASE ReadRow(r) \/ ListOrders(r)
    BY <2>1, ReadersKeepTables DEF ReadRow, ListOrders, GoTo, TypeOK, Running
  <2>2. CASE ReadLines(r)
    <3>1. answer' \in [Requests -> SUBSET OrderProduct]
      BY <2>2 DEF ReadLines, RowsOf, TypeOK, TablesTypeOK
    <3> QED
      BY <2>2, <3>1, ReadersKeepTables DEF ReadLines, GoTo, TypeOK, Running
  <2> QED
    BY <1>3, <2>1, <2>2, UpdateKeepsTables, DeletionKeepsTables DEF Handle
<1>4. ASSUME NEW r \in Requests, StatementFails(r) PROVE TablesKept
  BY <1>4, ReadersKeepTables DEF StatementFails, GoTo, TypeOK, Running
<1>5. CASE Crash
  BY <1>5, ReadersKeepTables DEF Crash, TypeOK, Running
<1> QED
  BY <1>1, <1>2, <1>3, <1>4, <1>5, PlaceKeepsTables, CatalogueKeepsTables DEF Next
-----------------------------------------------------------------------------
(* What the handlers know *)

\* A step of one handler moves no other, and no order's step moves any handler.
OthersStand(r) ==
  \A q \in Requests \ {r} : pc'[q] = pc[q] /\ call'[q] = call[q] /\ answer'[q] = answer[q]

LEMMA HandlersMoveAlone ==
  ASSUME TypeOK, NEW r \in Requests,
         (\E c \in Calls : Receive(r, c)) \/ Handle(r) \/ StatementFails(r)
  PROVE  OthersStand(r)
<1> USE DEF TypeOK, GoTo, Applied, OthersStand, tableVars
<1>1. CASE \E c \in Calls : Receive(r, c)
  BY <1>1 DEF Receive
<1>2. CASE Handle(r)
  BY <1>2 DEF Handle, ReadRow, ReadLines, ListOrders, UpdateRow, DeleteLines, DeleteRow
<1>3. CASE StatementFails(r)
  BY <1>3 DEF StatementFails
<1> QED
  BY <1>1, <1>2, <1>3

LEMMA HandlerStands ==
  ASSUME TypeOK, NEW r \in Requests, CallMatchesStep(r), Answered(r),
         \A o \in OrderUuids : Forward(o),
         pc'[r] = pc[r] \/ (pc'[r] = "dead" /\ pc[r] \in Running),
         call'[r] = call[r], answer'[r] = answer[r]
  PROVE  CallMatchesStep(r)' /\ Answered(r)'
<1>1. CASE pc[r] = "idle"
  BY <1>1 DEF CallMatchesStep, Answered, Running
<1>2. CASE pc[r] # "idle"
  <2>1. call[r] \in Calls /\ call[r].order \in OrderUuids /\ placed[call[r].order] # {}
    BY <1>2 DEF CallMatchesStep, Calls
  <2>2. Forward(call[r].order)
    BY <2>1
  <2> QED
    BY <1>2, <2>1, <2>2 DEF CallMatchesStep, Answered, Forward
<1> QED
  BY <1>1, <1>2
\* The handler that takes a step knows what it has just seen or done.
LEMMA HandlerMoves ==
  ASSUME TypeOK, Consistent, NEW r \in Requests, TablesKept,
         (\E c \in Calls : Receive(r, c)) \/ Handle(r) \/ StatementFails(r)
  PROVE  CallMatchesStep(r)' /\ Answered(r)'
<1> USE DEF TypeOK, GoTo, Applied, tableVars
<1> CallMatchesStep(r)
  BY DEF Consistent
<1>1. ASSUME NEW c \in Calls, Receive(r, c) PROVE CallMatchesStep(r)' /\ Answered(r)'
  <2>1. /\ pc'[r] = FirstStep[c.operation] /\ call'[r] = c
        /\ placed'[c.order] # {}
    BY <1>1 DEF Receive
  <2> QED
    BY <2>1 DEF CallMatchesStep, Answered, FirstStep, Calls
<1>2. CASE Handle(r) \/ StatementFails(r)
  <2> DEFINE o == call[r].order
  <2>1. /\ call[r] \in Calls /\ o \in OrderUuids /\ placed[o] # {}
        /\ call'[r] = call[r] /\ placed'[o] # {}
    <3>1. pc[r] # "idle" /\ UNCHANGED <<call, placed>>
      BY <1>2 DEF Handle, StatementFails, Running, ReadRow, ReadLines, ListOrders,
                  UpdateRow, DeleteLines, DeleteRow
    <3> QED
      BY <3>1 DEF CallMatchesStep, Calls
  <2>2. CASE ReadRow(r)
    BY <2>1, <2>2 DEF ReadRow, CallMatchesStep, Answered
  <2>3. CASE ReadLines(r)
    <3>1. RowsOf(o)' = RowsOf(o)
      BY <2>3 DEF ReadLines, RowsOf
    <3>2. answer'[r] = RowsOf(o)
      BY <2>1, <2>3 DEF ReadLines, Consistent, RowMatchesLines
    <3>3. RowsOf(o) \in {{}, placed[o]} /\ placed'[o] = placed[o]
      BY <2>1, <2>3 DEF ReadLines, Consistent, RowMatchesLines
    <3>4. call[r].operation # "Delete" /\ pc'[r] = "done"
      BY <2>3 DEF ReadLines, CallMatchesStep
    <3> QED
      BY <2>1, <3>1, <3>2, <3>3, <3>4 DEF CallMatchesStep, Answered
  <2>4. CASE ListOrders(r)
    BY <2>1, <2>4 DEF ListOrders, CallMatchesStep, Answered
  <2>5. CASE UpdateRow(r)
    BY <2>1, <2>5 DEF UpdateRow, CallMatchesStep, Answered
  <2>6. CASE DeleteLines(r)
    <3>1. RowsOf(o)' = {}
      BY <2>6 DEF DeleteLines, RowsOf
    <3> QED
      BY <2>1, <2>6, <3>1 DEF DeleteLines, CallMatchesStep, Answered
  <2>7. CASE DeleteRow(r)
    <3>1. RowsOf(o)' = {} /\ orders'[o] = NoRow
      BY <2>1, <2>7 DEF DeleteRow, RowsOf, TablesTypeOK
    <3> QED
      BY <2>1, <2>7, <3>1 DEF DeleteRow, CallMatchesStep, Answered
  <2>8. CASE StatementFails(r)
    BY <2>1, <2>8 DEF StatementFails, CallMatchesStep, Answered
  <2> QED
    BY <1>2, <2>2, <2>3, <2>4, <2>5, <2>6, <2>7, <2>8 DEF Handle
<1> QED
  BY <1>1, <1>2
\* Every handler's knowledge and answer survive every step.
LEMMA HandlersStep ==
  TypeOK /\ Consistent /\ (\A r \in Requests : Answered(r)) /\ [Next]_vars
    => \A r \in Requests : CallMatchesStep(r)' /\ Answered(r)'
<1> SUFFICES ASSUME TypeOK, Consistent, \A q \in Requests : Answered(q), [Next]_vars,
                    NEW r \in Requests
             PROVE  CallMatchesStep(r)' /\ Answered(r)'
  OBVIOUS
<1>1. TablesKept /\ \A o \in OrderUuids : Forward(o)
  BY TablesStep DEF TablesKept
<1>2. CallMatchesStep(r) /\ Answered(r)
  BY DEF Consistent
<1>3. CASE UNCHANGED <<pc, call, answer>>
  BY <1>1, <1>2, <1>3, HandlerStands
<1>4. ASSUME NEW q \in Requests,
             (\E c \in Calls : Receive(q, c)) \/ Handle(q) \/ StatementFails(q)
      PROVE  CallMatchesStep(r)' /\ Answered(r)'
  <2>1. CASE q = r
    BY <1>1, <1>4, <2>1, HandlerMoves
  <2>2. CASE q # r
    BY <1>1, <1>2, <1>4, <2>2, HandlersMoveAlone, HandlerStands DEF OthersStand
  <2> QED
    BY <2>1, <2>2
<1>5. CASE Crash
  <2>1. pc'[r] = pc[r] \/ (pc'[r] = "dead" /\ pc[r] \in Running)
    BY <1>5 DEF Crash
  <2> QED
    BY <1>1, <1>2, <1>5, <2>1, HandlerStands DEF Crash
<1> QED
  BY <1>3, <1>4, <1>5 DEF Next, vars, Place, ChangeCatalogue

-----------------------------------------------------------------------------
(* The finish date *)

LEMMA FinishStep ==
  TypeOK /\ Consistent /\ FinishedIffCompleted /\ [Next]_vars => FinishedIffCompleted'
<1> SUFFICES ASSUME TypeOK, Consistent, FinishedIffCompleted, [Next]_vars,
                    NEW o \in OrderUuids, orders'[o] # NoRow
             PROVE  (details'[o].status = "completed") <=> (details'[o].finish # None)
  BY DEF FinishedIffCompleted
<1>1. CASE details'[o] = details[o] /\ orders'[o] = orders[o]
  BY <1>1 DEF FinishedIffCompleted
<1>2. ASSUME NEW p \in OrderUuids, Place(p)
      PROVE  (details'[o].status = "completed") <=> (details'[o].finish # None)
  <2>1. CASE o = p
    <3>1. details'[o] = [status |-> "new", finish |-> None, owned |-> TRUE]
      BY <1>2, <2>1 DEF Place, TypeOK
    <3> QED
      BY <3>1
  <2>2. CASE o # p
    BY <1>1, <1>2, <2>2 DEF Place, TypeOK, TablesTypeOK
  <2> QED
    BY <2>1, <2>2
<1>3. ASSUME NEW r \in Requests, UpdateRow(r)
      PROVE  (details'[o].status = "completed") <=> (details'[o].finish # None)
  <2>1. orders'[o] = orders[o] /\ call[r] \in Calls /\ call[r].operation = "Update"
    BY <1>3 DEF UpdateRow, tableVars, Consistent, CallMatchesStep
  <2>2. CASE /\ o = call[r].order /\ call[r].status # Unset
             /\ details' = [details EXCEPT ![o] = Updated(@, call[r].status, r)]
    <3>1. details[o] \in Details /\ call[r].status \in Statuses
      BY <2>1, <2>2 DEF TypeOK, Consistent, RowMatchesLines, Calls
    <3>2. (details[o].status = "completed") <=> (details[o].finish # None)
      BY <2>1 DEF FinishedIffCompleted
    <3>3. details'[o] = Updated(details[o], call[r].status, r)
      BY <2>2 DEF TypeOK
    <3> QED
      BY <3>1, <3>2, <3>3, UpdatedType
  <2>3. CASE details'[o] = details[o]
    BY <1>1, <2>1, <2>3
  <2> QED
    BY <1>3, <2>2, <2>3 DEF UpdateRow, TypeOK
<1>4. ASSUME NEW r \in Requests, DeleteRow(r)
      PROVE  (details'[o].status = "completed") <=> (details'[o].finish # None)
  BY <1>1, <1>4 DEF DeleteRow, TypeOK, TablesTypeOK
<1>5. CASE UNCHANGED <<details, orders>>
  BY <1>1, <1>5
<1> QED
  <2>1. ASSUME NEW r \in Requests,
               \/ \E c \in Calls : Receive(r, c)
               \/ ReadRow(r) \/ ReadLines(r) \/ ListOrders(r) \/ DeleteLines(r)
               \/ StatementFails(r)
        PROVE  UNCHANGED <<details, orders>>
    BY <2>1 DEF Receive, ReadRow, ReadLines, ListOrders, DeleteLines, StatementFails, tableVars
  <2>2. Crash \/ ChangeCatalogue \/ UNCHANGED vars => UNCHANGED <<details, orders>>
    BY DEF Crash, ChangeCatalogue, CreateProduct, DeleteProduct, vars, tableVars
  <2> QED
    BY <1>2, <1>3, <1>4, <1>5, <2>1, <2>2 DEF Next, Handle

-----------------------------------------------------------------------------
(* Theorems *)

LEMMA Invariance == Safety => []IInv
<1>1. IInv /\ [Next]_vars => IInv'
  BY TablesStep, HandlersStep, FinishStep DEF IInv, TablesKept, Consistent
<1> QED
  BY <1>1, InitIInv, PTL DEF Safety

\* The variables keep their types, and rows, lines, products and handlers fit
\* together, whatever requests, new orders, catalogue changes and faults come.
THEOREM TypesHold == Safety => []TypeOK
  BY Invariance, PTL DEF IInv

THEOREM ConsistencyHolds == Safety => []Consistent
  BY Invariance, PTL DEF IInv

\* UpdateOrder's CASE keeps the finish date in step with the status.
THEOREM FinishDatesHold == Safety => []FinishedIffCompleted
  BY Invariance, PTL DEF IInv

\* An answered DeleteOrder is final.
THEOREM DeletionIsFinal == Safety => []DeletedForGood
<1>1. IInv => DeletedForGood
  BY DEF IInv, Answered, DeletedForGood
<1> QED
  BY <1>1, Invariance, PTL

\* GetOrder, UpdateOrder and GetOrderProducts answer whole orders or emptied ones.
THEOREM AnswersAreWhole == Safety => []AnswersWhole
<1>1. IInv => AnswersWhole
  BY DEF IInv, Answered, AnswersWhole
<1> QED
  BY <1>1, Invariance, PTL

\* UpdateOrder of a completed order to completed keeps its date.
THEOREM DatesStand == Safety => FinishDateKept
<1> DEFINE Kept ==
      \A o \in OrderUuids :
        orders[o] # NoRow /\ orders'[o] # NoRow
          /\ details[o].status = "completed" /\ details'[o].status = "completed"
        => details'[o].finish = details[o].finish
<1>1. IInv /\ [Next]_vars => [Kept]_vars
  <2> SUFFICES ASSUME IInv, Next, NEW o \in OrderUuids,
                      details[o].status = "completed", details'[o].status = "completed",
                      orders'[o] # NoRow
               PROVE  details'[o].finish = details[o].finish
    OBVIOUS
  <2> USE DEF IInv, TypeOK
  <2>1. ASSUME NEW p \in OrderUuids, Place(p)
        PROVE  details'[o] = details[o]
    <3>1. CASE p = o
      BY <2>1, <3>1 DEF Place
    <3> QED
      BY <2>1, <3>1 DEF Place
  <2>2. ASSUME NEW r \in Requests, UpdateRow(r)
        PROVE  details'[o].finish = details[o].finish
    BY <2>2 DEF UpdateRow, Updated, NewFinish
  <2>3. ASSUME NEW r \in Requests, DeleteRow(r)
        PROVE  details'[o] = details[o]
    BY <2>3 DEF DeleteRow, TablesTypeOK
  <2>4. ASSUME NEW r \in Requests,
               \/ \E c \in Calls : Receive(r, c)
               \/ ReadRow(r) \/ ReadLines(r) \/ ListOrders(r) \/ DeleteLines(r)
               \/ StatementFails(r)
        PROVE  details'[o] = details[o]
    BY <2>4 DEF Receive, ReadRow, ReadLines, ListOrders, DeleteLines, StatementFails
  <2>5. Crash \/ ChangeCatalogue => details'[o] = details[o]
    BY DEF Crash, ChangeCatalogue
  <2> QED
    BY <2>1, <2>2, <2>3, <2>4, <2>5 DEF Next, Handle
<1> QED
  BY <1>1, Invariance, PTL DEF Safety, FinishDateKept
===============================================================================
