---------------------------- MODULE OrderCreation ----------------------------
(***************************************************************************)
(* Creating an order, the two ways that end in CreateWithProducts:         *)
(*   - the REST saga (controllers Create -> CreateSagaOrder): validate the *)
(*     cart, write the goods off in the storage service (SMS), insert the  *)
(*     order in one transaction, and on an error from there on write the   *)
(*     goods back on in a deferred call;                                   *)
(*   - the gRPC Create (CreateOrder): the same without the warehouse.      *)
(* Handlers run concurrently with each other, with changes of the product  *)
(* catalogue, with SMS and with the faults named in Faults.                *)
(***************************************************************************)
EXTENDS OrderTables, LineAmount, Functions

CONSTANTS
  Sagas,      \* the orders requested over REST; the others come over gRPC
  Carts,      \* the carts a request can hold
  CostLimit,  \* a total this far from 0 prints as 1e+06: no Numeric scans it
  Drifting,   \* carts, with their priced lines, whose float64 sums differ although
              \*   the exact ones agree
  Faults      \* the kinds of fault that can happen

FaultKinds == {"statement", "readBack", "commitAck", "transport", "crash"}

\* Nothing validates an amount: it can be 0 or negative.
Item == [code : Codes, amount : Int]
PricedItem == [code : Codes, price : Prices, amount : Int]

ASSUME CreationAssumption ==
  /\ Sagas \subseteq OrderUuids
  /\ Carts \subseteq Seq(Item)
  /\ <<>> \in Carts
  /\ CostLimit \in Nat \ {0}
  /\ Faults \subseteq FaultKinds

VARIABLES
  pc,        \* where the handler of each request is
  cart,      \* the products it was asked for
  priced,    \* the lines validateOrderProducts has built so far
  total,     \* the cost it has summed so far
  pending,   \* the uncommitted lines of its open transaction
  summed,    \* the cost CreateWithProducts has summed over them
  call,      \* its call to SMS: under way, answered, or none
  taken,     \* SMS's ledger: write-offs applied for the request
  returned,  \* SMS's ledger: write-ons applied for the request
  struck     \* history: faults that hid from the handler what had been applied

handlerVars == <<pc, cart, priced, total, pending, summed>>
ledgerVars == <<taken, returned, struck>>
smsVars == <<call, ledgerVars>>
vars == <<pc, cart, priced, total, pending, summed,
          call, taken, returned, struck, product, orders, orderProducts>>

InTransaction == {"looking", "inserting", "checking", "committing"}
Ended == {"done", "failed", "dead"}
Steps == {"idle", "validating", "removing", "opening", "readingBack",
          "compensating"} \cup InTransaction \cup Ended
Calls == {"none", "remove", "removeOk", "removeErr",
          "writeOn", "writeOnOk"}

TypeOK ==
  /\ TablesTypeOK
  /\ pc \in [OrderUuids -> Steps]
  /\ cart \in [OrderUuids -> Carts]
  /\ priced \in [OrderUuids -> Seq(PricedItem)]
  /\ total \in [OrderUuids -> Int]
  /\ pending \in [OrderUuids -> Seq(OrderProduct)]
  /\ summed \in [OrderUuids -> Int]
  /\ call \in [OrderUuids -> Calls]
  /\ taken \in [OrderUuids -> Nat]
  /\ returned \in [OrderUuids -> Nat]
  /\ struck \in [OrderUuids -> SUBSET Faults]

\* Any catalogue can be there already; orders of others do not matter here.
Init ==
  /\ product \in [ProductUuids -> ProductRow \cup {NoRow}]
  /\ orders = [o \in OrderUuids |-> NoRow]
  /\ orderProducts = {}
  /\ pc = [o \in OrderUuids |-> "idle"]
  /\ cart = [o \in OrderUuids |-> <<>>]
  /\ priced = [o \in OrderUuids |-> <<>>]
  /\ total = [o \in OrderUuids |-> 0]
  /\ pending = [o \in OrderUuids |-> <<>>]
  /\ summed = [o \in OrderUuids |-> 0]
  /\ call = [o \in OrderUuids |-> "none"]
  /\ taken = [o \in OrderUuids |-> 0]
  /\ returned = [o \in OrderUuids |-> 0]
  /\ struck = [o \in OrderUuids |-> {}]

GoTo(o, step) == pc' = [pc EXCEPT ![o] = step]
Call(o, c) == call' = [call EXCEPT ![o] = c]

-----------------------------------------------------------------------------
(* validateOrderProducts, then the write-off *)

Receive(o, c) ==
  /\ pc[o] = "idle"
  /\ GoTo(o, "validating")
  /\ cart' = [cart EXCEPT ![o] = c]
  /\ UNCHANGED <<priced, total, pending, summed, smsVars, tableVars>>

\* POST /create: JSON amounts are numbers of any size, cut down to an int.
ReceiveRest(o, c) == o \in Sagas /\ Receive(o, c)

\* OrderService.Create: the amounts of the message are int32 already.
ReceiveGrpc(o, c) ==
  /\ o \notin Sagas
  /\ \A i \in DOMAIN c : Fits(c[i].amount)
  /\ Receive(o, c)

\* One iteration: read the product by its code and price the line.  The line holds
\* an int32; the total is summed, and SMS is asked, with the amount of the request.
ValidateItem(o) ==
  /\ pc[o] = "validating"
  /\ Len(priced[o]) < Len(cart[o])
  /\ LET item == cart[o][Len(priced[o]) + 1] IN
       \/ \E u \in RowsWithCode(item.code) :
            /\ priced' = [priced EXCEPT ![o] = Append(@,
                  [code   |-> item.code,
                   price  |-> product[u].cost,
                   amount |-> Int32(item.amount)])]
            /\ total' = [total EXCEPT ![o] = @ + product[u].cost * item.amount]
            /\ UNCHANGED pc
       \/ /\ RowsWithCode(item.code) = {}
          /\ GoTo(o, "failed")
          /\ UNCHANGED <<priced, total>>
  /\ UNCHANGED <<cart, pending, summed, smsVars, tableVars>>

\* The saga calls RemoveCoupleProducts; the gRPC path goes straight on.
FinishValidation(o) ==
  /\ pc[o] = "validating"
  /\ Len(priced[o]) = Len(cart[o])
  /\ IF o \in Sagas
       THEN GoTo(o, "removing") /\ Call(o, "remove")
       ELSE GoTo(o, "opening") /\ UNCHANGED call
  /\ UNCHANGED <<cart, priced, total, pending, summed, ledgerVars, tableVars>>

\* Mutant of RemoveReply: the error of the write-off is shadowed.
RemoveReplyUnchecked(o) ==
  /\ pc[o] = "removing"
  /\ call[o] \in {"removeOk", "removeErr"} /\ GoTo(o, "opening")
  /\ Call(o, "none")
  /\ UNCHANGED <<cart, priced, total, pending, summed, ledgerVars, tableVars>>

\* Mutant of RemoveReply: the compensation is deferred before the error check.
RemoveReplyDeferred(o) ==
  /\ pc[o] = "removing"
  /\ \/ call[o] = "removeOk" /\ GoTo(o, "opening") /\ Call(o, "none")
     \/ call[o] = "removeErr" /\ GoTo(o, "compensating") /\ Call(o, "writeOn")
  /\ UNCHANGED <<cart, priced, total, pending, summed, ledgerVars, tableVars>>

\* An error returns before the compensation is deferred.
RemoveReply(o) ==
  /\ pc[o] = "removing"
  /\ \/ call[o] = "removeOk" /\ GoTo(o, "opening")
     \/ call[o] = "removeErr" /\ GoTo(o, "failed")
  /\ Call(o, "none")
  /\ UNCHANGED <<cart, priced, total, pending, summed, ledgerVars, tableVars>>

-----------------------------------------------------------------------------
(* CreateWithProducts *)

\* Mutant of Abort: the error is shadowed, so the deferred function sees nil.
AbortShadowed(o) ==
  /\ pending' = [pending EXCEPT ![o] = <<>>]
  /\ summed' = [summed EXCEPT ![o] = 0]
  /\ GoTo(o, "failed")
  /\ UNCHANGED call

\* An error return: the deferred Rollback discards the transaction, then the
\* saga's deferred function calls WriteOnCoupleProducts.
Abort(o) ==
  /\ pending' = [pending EXCEPT ![o] = <<>>]
  /\ summed' = [summed EXCEPT ![o] = 0]
  /\ IF o \in Sagas
       THEN GoTo(o, "compensating") /\ Call(o, "writeOn")
       ELSE GoTo(o, "failed") /\ UNCHANGED call

\* Float64ToNumericWithPrecision formats with 'g': an exponent does not scan.
Convertible(t) == - CostLimit < t /\ t < CostLimit

\* Mutant of OpenTransaction: the conversion returns before the defer statement.
OpenBeforeDefer(o) ==
  /\ pc[o] = "opening"
  /\ \/ ~ Convertible(total[o]) /\ GoTo(o, "failed") /\ UNCHANGED <<pending, summed, call>>
     \/ Convertible(total[o]) /\ priced[o] = <<>> /\ Abort(o)
     \/ /\ Convertible(total[o]) /\ priced[o] # <<>> /\ GoTo(o, "looking")
        /\ UNCHANGED <<pending, summed, call>>
  /\ UNCHANGED <<cart, priced, total, ledgerVars, tableVars>>

\* Mutant of OpenTransaction: the order is inserted outside the transaction.
OpenAutocommitted(o) ==
  /\ pc[o] = "opening"
  /\ IF ~ Convertible(total[o]) \/ priced[o] = <<>>
       THEN Abort(o) /\ UNCHANGED orders
       ELSE /\ GoTo(o, "looking")
            /\ orders' = [orders EXCEPT ![o] = total[o]]
            /\ UNCHANGED <<pending, summed, call>>
  /\ UNCHANGED <<cart, priced, total, ledgerVars, product, orderProducts>>

\* Convert the cost, refuse an empty cart, begin, insert the order row.
OpenTransaction(o) ==
  /\ pc[o] = "opening"
  /\ IF ~ Convertible(total[o]) \/ priced[o] = <<>>
       THEN Abort(o)
       ELSE GoTo(o, "looking") /\ UNCHANGED <<pending, summed, call>>
  /\ UNCHANGED <<cart, priced, total, ledgerVars, tableVars>>

NextLine(o) == priced[o][Len(pending[o]) + 1]

\* Mutant of LookUpProduct: a missing product is no error.
LookUpProductPatiently(o) ==
  /\ pc[o] = "looking"
  /\ RowsWithCode(NextLine(o).code) # {}
  /\ GoTo(o, "inserting")
  /\ UNCHANGED <<cart, priced, total, pending, summed, smsVars, tableVars>>

\* GetProduct inside the transaction: does the product still exist?
LookUpProduct(o) ==
  /\ pc[o] = "looking"
  /\ IF RowsWithCode(NextLine(o).code) = {}
       THEN Abort(o)
       ELSE GoTo(o, "inserting") /\ UNCHANGED <<pending, summed, call>>
  /\ UNCHANGED <<cart, priced, total, ledgerVars, tableVars>>

\* Mutant of NewLine: the product is named by its code, not its primary key.
NewLineByCode(o, line, u) ==
  [order |-> o, product |-> line.code, price |-> line.price, amount |-> line.amount]

\* Mutant of NewLine: priced by the product as it is now.
NewLineRepriced(o, line, u) ==
  [order |-> o, product |-> u, price |-> product[u].cost, amount |-> line.amount]

\* The row of order_products: priced as validated, for product row u.
NewLine(o, line, u) ==
  [order |-> o, product |-> u, price |-> line.price, amount |-> line.amount]

\* AddProductToOrder, and on to the next line or to the checks of the total.
InsertLine(o) ==
  /\ pc[o] = "inserting"
  /\ LET line == NextLine(o)
         addable == Addable(line.code, {l.product : l \in Range(pending[o])})
     IN \/ \E u \in addable :
             /\ pending' = [pending EXCEPT ![o] = Append(@, NewLine(o, line, u))]
             /\ summed' = [summed EXCEPT ![o] = @ + line.price * line.amount]
             /\ GoTo(o, IF Len(pending[o]) + 1 = Len(priced[o])
                          THEN "checking" ELSE "looking")
             /\ UNCHANGED call
        \/ addable = {} /\ Abort(o)
  /\ UNCHANGED <<cart, priced, total, ledgerVars, tableVars>>

\* ErrInvalidOrderTotal: the row's DECIMAL(10,2) cost, from the amounts requested,
\* is not the float64 sum over the lines.  What float64 does to a sum is in Money.
TotalDiffers(o) == total[o] # summed[o] \/ <<cart[o], priced[o]>> \in Drifting

\* A zero cost is written again by UpdateOrder, whose empty status the enum
\* order_status refuses: that statement always fails.
CheckTotal(o) ==
  /\ pc[o] = "checking"
  /\ IF TotalDiffers(o) \/ total[o] = 0
       THEN Abort(o)
       ELSE GoTo(o, "committing") /\ UNCHANGED <<pending, summed, call>>
  /\ UNCHANGED <<cart, priced, total, ledgerVars, tableVars>>

\* COMMIT makes the order and its lines visible at once.
Publish(o) ==
  /\ orders' = [orders EXCEPT ![o] = total[o]]
  /\ orderProducts' = orderProducts \cup Range(pending[o])
  /\ UNCHANGED product

Commit(o) ==
  /\ pc[o] = "committing"
  /\ Publish(o)
  /\ GoTo(o, "readingBack")
  /\ pending' = [pending EXCEPT ![o] = <<>>]
  /\ UNCHANGED <<cart, priced, total, summed, smsVars>>

\* Mutant of ReadBack: the deferred function compensates without an error.
ReadBackCompensated(o) ==
  /\ pc[o] = "readingBack"
  /\ Abort(o)
  /\ UNCHANGED <<cart, priced, total, ledgerVars, tableVars>>

\* GetOrderProducts for the response.
ReadBack(o) ==
  /\ pc[o] = "readingBack"
  /\ GoTo(o, "done")
  /\ UNCHANGED <<cart, priced, total, pending, summed, smsVars, tableVars>>

\* The result of WriteOnCoupleProducts is ignored.
Compensated(o) ==
  /\ pc[o] = "compensating"
  /\ call[o] = "writeOnOk"
  /\ GoTo(o, "failed")
  /\ Call(o, "none")
  /\ UNCHANGED <<cart, priced, total, pending, summed, ledgerVars, tableVars>>

Handle(o) ==
  \/ ValidateItem(o) \/ FinishValidation(o) \/ RemoveReply(o)
  \/ OpenTransaction(o) \/ LookUpProduct(o) \/ InsertLine(o)
  \/ CheckTotal(o) \/ Commit(o) \/ ReadBack(o) \/ Compensated(o)

-----------------------------------------------------------------------------
(* The storage service.  It answers only a caller that still waits. *)

Answer(o, waiting, reply) ==
  Call(o, IF pc[o] = waiting THEN reply ELSE "none")

SmsRemove(o) ==
  /\ call[o] = "remove"
  /\ \/ /\ taken' = [taken EXCEPT ![o] = @ + 1]
        /\ Answer(o, "removing", "removeOk")
     \/ /\ Answer(o, "removing", "removeErr")    \* not enough goods
        /\ UNCHANGED taken
  /\ UNCHANGED <<returned, struck, handlerVars, tableVars>>

SmsWriteOn(o) ==
  /\ call[o] = "writeOn"
  /\ returned' = [returned EXCEPT ![o] = @ + 1]
  /\ Answer(o, "compensating", "writeOnOk")
  /\ UNCHANGED <<taken, struck, handlerVars, tableVars>>

SmsServe(o) == SmsRemove(o) \/ SmsWriteOn(o)

-----------------------------------------------------------------------------
(* Faults *)

\* A statement of the database returns an error; nothing it did remains.
StatementFails(o) ==
  /\ "statement" \in Faults
  /\ \/ /\ pc[o] = "validating"
        /\ GoTo(o, "failed")
        /\ UNCHANGED <<pending, summed, call>>
     \/ /\ pc[o] \in {"opening"} \cup InTransaction
        /\ Abort(o)
  /\ UNCHANGED <<cart, priced, total, ledgerVars, tableVars>>

\* A fault that leaves the handler with a wrong idea of what was applied.
Strike(o, kind) ==
  /\ kind \in Faults
  /\ struck' = [struck EXCEPT ![o] = @ \cup {kind}]

\* COMMIT is applied and its acknowledgement lost: the handler sees an error.
CommitAckLost(o) ==
  /\ Strike(o, "commitAck")
  /\ pc[o] = "committing"
  /\ Publish(o)
  /\ Abort(o)
  /\ UNCHANGED <<cart, priced, total, taken, returned>>

\* GetOrderProducts fails after the commit: err is set, the defer runs.
ReadBackFails(o) ==
  /\ Strike(o, "readBack")
  /\ pc[o] = "readingBack"
  /\ Abort(o)
  /\ UNCHANGED <<cart, priced, total, taken, returned, tableVars>>

\* The handler's call to SMS returns an error that says nothing of its effect:
\* it may never arrive, may be applied already, or may still be applied later.
TransportError(o) ==
  /\ Strike(o, "transport")
  /\ pc[o] \in {"removing", "compensating"}
  /\ GoTo(o, "failed")
  /\ \/ Call(o, "none")
     \/ call[o] \in {"remove", "writeOn"} /\ UNCHANGED call
  /\ UNCHANGED <<cart, priced, total, pending, summed, taken, returned, tableVars>>

\* The process dies, of a product uuid that uuid.MustParse panics at, too, and on
\* SIGTERM: main returns without waiting for the HTTP handlers.  PostgreSQL rolls
\* open transactions back; sent calls are on their way.
Crash ==
  /\ "crash" \in Faults
  /\ pc' = [o \in OrderUuids |->
              IF pc[o] \in {"idle"} \cup Ended THEN pc[o] ELSE "dead"]
  /\ pending' = [o \in OrderUuids |-> <<>>]
  /\ call' = [o \in OrderUuids |->
                IF call[o] \in {"remove", "writeOn"} THEN call[o] ELSE "none"]
  /\ UNCHANGED <<cart, priced, total, summed, ledgerVars, tableVars>>

Fail(o) ==
  \/ StatementFails(o) \/ CommitAckLost(o) \/ ReadBackFails(o) \/ TransportError(o)

-----------------------------------------------------------------------------
(* The catalogue, changed by other clients.  UpdateProduct never succeeds:  *)
(* see README, so a row is only ever created or deleted.                    *)

Locked == {l.product : l \in UNION {Range(pending[o]) : o \in OrderUuids}}

ChangeCatalogue ==
  /\ \E u \in ProductUuids :
       \/ \E c \in Codes, cost \in Prices : CreateProduct(u, c, cost)
       \/ DeleteProduct(u, Locked)
  /\ UNCHANGED <<handlerVars, smsVars>>

Next ==
  \/ \E o \in OrderUuids :
       \/ \E c \in Carts : ReceiveRest(o, c) \/ ReceiveGrpc(o, c)
       \/ Handle(o) \/ SmsServe(o) \/ Fail(o)
  \/ Crash
  \/ ChangeCatalogue

Safety == Init /\ [][Next]_vars

\* A handler goroutine runs on; SMS answers, or its connection breaks.
Fairness == \A o \in OrderUuids : WF_vars(Handle(o)) /\ WF_vars(SmsServe(o))

Spec == Safety /\ Fairness

-----------------------------------------------------------------------------
(* Properties *)

\* The deferred WriteOnCoupleProducts undoes one applied RemoveCoupleProducts:
\* whatever fails, goods are never written on that were not written off for the
\* same request, and neither call is applied twice.
ReturnedOnlyTaken ==
  \A o \in OrderUuids : returned[o] <= taken[o] /\ taken[o] <= 1

\* CreateSagaOrder returning an error leaves no goods behind: each of its error
\* returns after the write-off reaches the deferred write-on.  Only a call to SMS
\* that failed without telling its effect lets this request, and no other, down.
NoStranding ==
  \A o \in Sagas :
    pc[o] = "failed" /\ "transport" \notin struck[o] => taken[o] = returned[o]

\* An order of the REST saga in the database has its goods out of the warehouse,
\* crash or not.  Only an error after its COMMIT was applied, which CreateSagaOrder
\* takes for a failed order, gives goods away.
NoGiveAway ==
  \A o \in Sagas :
    orders[o] # NoRow /\ struck[o] \cap {"commitAck", "readBack"} = {}
      => taken[o] = 1 /\ returned[o] = 0

\* CreateWithProducts is all or nothing, through faults and catalogue changes:
\* an order is seen with one line per product asked for, of an existing product
\* that has the code, the price that was validated and the amount asked for, as far
\* as an int32 holds that: beyond, CreateWithProducts still demands that the sums
\* agree, and they do for a product without a price.  Lines are never seen without
\* their order.
HasItem(o, i) ==
  \E l \in RowsOf(o) :
    /\ l.amount = Int32(cart[o][i].amount)
    /\ l.price = priced[o][i].price
    /\ product[l.product] # NoRow
    /\ product[l.product].code = cart[o][i].code

Complete(o) ==
  IF orders[o] = NoRow
    THEN RowsOf(o) = {}
    ELSE /\ Cardinality(RowsOf(o)) = Len(cart[o]) /\ cart[o] # <<>>
         /\ \A i \in DOMAIN cart[o] : HasItem(o, i)

CompleteOrders == \A o \in OrderUuids : Complete(o)

\* The cost of an order is the sum over its lines, although it is computed from
\* an earlier read of products that may be deleted and created anew, at another
\* price, before the lines are inserted.
CostOf(lines) == MapThenSumSet(LAMBDA l : l.price * l.amount, lines)

CostMatchesLines ==
  \A o \in OrderUuids : orders[o] # NoRow => orders[o] = CostOf(RowsOf(o))

\* Goods the saga has written off are settled: its order gets placed or its
\* compensation gets applied, unless this saga's own call to SMS failed without
\* telling its effect.  What fails for other requests does not hold it up.
SagaSettles ==
  \A o \in Sagas :
    taken[o] = 1 ~> (orders[o] # NoRow \/ returned[o] = 1 \/ "transport" \in struck[o])

\* Every request is answered, whatever other handlers and catalogue changes do.
EveryRequestEnds ==
  \A o \in OrderUuids : pc[o] = "validating" ~> pc[o] \in Ended

\* The saga implements OrderPromise: its applied write-off, COMMIT, error return
\* and applied write-on are the promise's steps, and it does nothing else to the
\* goods or the order.  A lost reply or acknowledgement misleads the one request
\* it was meant for; statement errors and crashes mislead none.
GoodsOf(o) ==
  IF taken[o] = 0 THEN "shelf" ELSE IF returned[o] = 0 THEN "out" ELSE "back"

OutcomeOf(o) ==
  IF orders[o] # NoRow THEN "placed" ELSE IF pc[o] = "failed" THEN "refused" ELSE "open"

Promise == INSTANCE OrderPromise WITH
  Requests <- Sagas,
  goods <- [o \in Sagas |-> GoodsOf(o)],
  outcome <- [o \in Sagas |-> OutcomeOf(o)],
  misled <- {o \in Sagas : struck[o] # {}}

PromiseSafe == Promise!Safety

\* It also implements the promise's fairness, as long as nothing crashes: goods
\* that were taken do not stay in limbo.
PromiseKept == Promise!Spec

\* The inductive invariant behind these: what a request's step and its call to
\* SMS say of SMS's ledger and of its order.  It relates the two services at
\* every step of every handler, also when the handler has failed or is dead.
CallMatchesLedger(o) ==
  /\ taken[o] \in {0, 1} /\ returned[o] \in {0, taken[o]}
  /\ call[o] \in {"remove", "removeErr"} => taken[o] = 0
  /\ call[o] \in {"removeOk", "writeOn"} => taken[o] = 1 /\ returned[o] = 0
  /\ call[o] = "writeOnOk" => returned[o] = 1

StepMatchesCall(o) ==
  /\ pc[o] = "removing" => o \in Sagas /\ call[o] \in {"remove", "removeOk", "removeErr"}
  /\ pc[o] = "compensating" => o \in Sagas /\ call[o] \in {"writeOn", "writeOnOk"}
  /\ pc[o] \in {"failed", "dead"} => call[o] \in {"none", "remove", "writeOn"}
  /\ pc[o] \notin {"removing", "compensating", "failed", "dead"} => call[o] = "none"

StepMatchesLedger(o) ==
  /\ pc[o] \in {"idle", "validating"} => taken[o] = 0
  /\ pc[o] \in {"removing", "opening", "readingBack", "done"} \cup InTransaction =>
       returned[o] = 0
  /\ pc[o] \in {"opening", "readingBack", "done"} \cup InTransaction =>
       (o \in Sagas => taken[o] = 1)
  /\ pc[o] = "failed" /\ "transport" \notin struck[o] =>
       call[o] = "none" /\ (o \in Sagas => taken[o] = returned[o])

StepMatchesOrder(o) ==
  LET mistaken == struck[o] \cap {"commitAck", "readBack"} # {} IN
  o \in Sagas /\ orders[o] # NoRow =>
    \/ pc[o] \in {"readingBack", "done"}
    \/ pc[o] \in {"compensating", "failed", "dead"} /\ mistaken
    \/ pc[o] = "dead" /\ call[o] = "none" /\ taken[o] = 1 /\ returned[o] = 0

StepMatchesLines(o) ==
  /\ pc[o] \notin InTransaction => pending[o] = <<>>
  /\ pc[o] \in {"looking", "inserting"} => Len(pending[o]) < Len(priced[o])

Phase(o) ==
  /\ CallMatchesLedger(o) /\ StepMatchesCall(o) /\ StepMatchesLedger(o)
  /\ StepMatchesOrder(o) /\ StepMatchesLines(o)

Phases == \A o \in OrderUuids : Phase(o)

\* The inductive invariant behind CompleteOrders and CostMatchesLines: the lines
\* priced so far are the first of the cart, the uncommitted ones the first of
\* those, each of a product of its own that cannot be deleted, and the cost summed
\* is theirs.  It holds while others create and delete products between the
\* pricing of a line and its insertion.
Unplaced == {"idle", "validating", "removing", "opening"} \cup InTransaction

PricedAsAsked(o) ==
  /\ Len(priced[o]) <= Len(cart[o])
  /\ \A i \in DOMAIN priced[o] :
       priced[o][i].code = cart[o][i].code /\ priced[o][i].amount = Int32(cart[o][i].amount)
  /\ pc[o] = "idle" => priced[o] = <<>>
  /\ pc[o] \in Unplaced \ {"idle", "validating"} => Len(priced[o]) = Len(cart[o])
  /\ pc[o] \in InTransaction => priced[o] # <<>>

PendingAsPriced(o) ==
  /\ Len(pending[o]) <= Len(priced[o])
  /\ pc[o] \in {"checking", "committing"} => Len(pending[o]) = Len(priced[o])
  /\ \A i \in DOMAIN pending[o] :
       LET l == pending[o][i] IN
         /\ l.order = o
         /\ l.price = priced[o][i].price /\ l.amount = priced[o][i].amount
         /\ product[l.product] # NoRow
         /\ product[l.product].code = priced[o][i].code
  /\ \A i, j \in DOMAIN pending[o] :
       pending[o][i].product = pending[o][j].product => i = j

CostAsLines(o) ==
  /\ pc[o] \in Unplaced => summed[o] = CostOf(Range(pending[o]))
  /\ pc[o] = "committing" => total[o] = summed[o]
  /\ orders[o] # NoRow => orders[o] = CostOf(RowsOf(o))

Assembled(o) ==
  /\ PricedAsAsked(o) /\ PendingAsPriced(o) /\ CostAsLines(o) /\ Complete(o)
  /\ pc[o] \in Unplaced => orders[o] = NoRow

Assembly == \A o \in OrderUuids : Assembled(o)

\* CreateWithProducts fills in an unstated total "in case it was not given": once
\* its total agrees with the lines, an order is on its way to COMMIT.
UnstatedTotalIsFilled ==
  [][\A o \in OrderUuids :
       pc[o] = "checking" /\ pc'[o] # "checking" /\ ~ TotalDiffers(o)
         => pc'[o] = "committing"]_vars
=============================================================================
