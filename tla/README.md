# A specification of stocky-oms

stocky-oms is the order service of the Stocky project: it keeps a catalogue of
products and orders of them in PostgreSQL, and has another service, the storage
service (SMS), write the ordered goods off. An order can be made in three ways, over
REST, gRPC and a gRPC stream, and each changes two stores that no common
transaction covers. The TLA+ modules here model those operations at the
grain of one SQL statement, one remote call and one message; TLC checks them on
small instances and TLAPS proves the central results for every instance.

Paths below are relative to the root of the repository.

## 1. Inventory

### Components

| component | source | state it keeps | operations | what makes it correct |
|---|---|---|---|---|
| REST saga | `controllers/order.go` Create, `service/order.go` CreateSagaOrder | none between requests; in a request: cart, priced lines, a deferred compensation | Create | goods written off and the order in the database agree after every ending of the handler; nothing is written on that was not written off |
| gRPC Create | `grpc/order.go` Create, `service/order.go` CreateOrder | the same, without the warehouse | Create | orders appear whole, at the sum of their lines |
| CreateWithProducts | `repository/order.go:102` | one transaction | insert the order, its lines, check the total | all or nothing, though it runs beside changes of the catalogue |
| TCC stream | `grpc/order.go` TCCCreateOrder, `clients/oms.go` TCCOrderCreation | `createOrderMu`, two streams, the order inserted so far | Create (stream) | an answered creation is complete; an unanswered one loses no goods; the mutex is always released |
| order administration | `grpc/order.go` Get, List, Update, Delete, GetProducts | none; rows of `orders`, `order_products` | one to three autocommitted statements each | finish date follows the status; an order is deleted with its lines; reads see an order with its own lines |
| product catalogue | `grpc/product.go`, `service/product.go`, `repository/product.go` | rows of `product` | Create, Get, List, Update, Delete, GetByOrder | the operations agree on which product a request names; a product in use is not deleted |
| tables and SQL | `cmd/changelog/*.sql`, `db/*.sql.go` | `product`, `orders`, `order_products` | the sqlc statements | primary and foreign keys, NOT NULL, the enum `order_status` |
| money conversion | `repository/errors.go` Float64ToNumericWithPrecision, NumericToFloat64 | none | float64 to and from DECIMAL(10,2) | a cost survives being stored and read |
| SMS and OMS clients | `clients/sms.go`, `clients/oms.go` | a gRPC connection each | thin wrappers of the stubs | every caller sees the service's error or its reply |
| server lifecycle | `main.go`, `grpc/server.go`, `grpc/connection.go`, `web/http_server.go` | listeners, the signal context | start, serve, stop | started parts are stopped; running requests are drained |
| configuration, request and response types | `config/`, `models/`, `requests/` | none | | limits that the tags of `models/order.go` state |

### How they interact

A REST client or a gRPC client calls a handler; each request is a goroutine of its
own. Handlers share the connection pool, the tables, the clients of SMS and, in
the TCC stream only, `createOrderMu`. A handler talks to SMS by unary calls
(RemoveCoupleProducts, WriteOnCoupleProducts: the saga) or by a stream
(ChangeCoupleProductAmount: the TCC stream). Nothing calls back, nothing is
persisted outside the three tables and SMS, and nothing resumes after a restart.

    REST Create --> CreateSagaOrder --> SMS.RemoveCoupleProducts
                        |                (deferred: SMS.WriteOnCoupleProducts)
                        v
                    CreateWithProducts --> product, orders, order_products
                        ^
    gRPC Create --> CreateOrder

    REST TCCCreate --> TCCOrderCreation ==stream==> TCCCreateOrder ==stream==> SMS
                                                     (createOrderMu)
                                                     |--> CreateNakedOrder, AddOrderProduct
                                                     '--> deferred DeleteOrder

### What is hard

* **Partial failure of two stores.** Every error return of the saga between the
  write-off and COMMIT must reach the deferred compensation with `err` set
  (`service/order.go:191`), and none before may.
* **Errors that hide an effect.** A lost reply of SMS, a lost acknowledgement of
  COMMIT, and the read of the lines *after* COMMIT (`service/order.go:222`), whose
  failure makes the saga compensate an order that exists.
* **Stale reads.** Products are priced before the transaction and looked up again
  in it; the catalogue may have changed in between, and a code is not unique.
* **Crash and stop.** On SIGTERM `main` drains the gRPC server only and returns; REST handlers die
  between any two steps. A malformed product uuid in one gRPC request panics and ends them all. The drain has no deadline, and swallows further signals: it ends only because every stream does.
* **Start and stop in parallel.** The two servers run in goroutines `main` does not wait for: a signal can come before
  the gRPC server serves, whose `MustRun` then panics.
* **Cancellation.** The TCC handler's deferred deletion runs under the context of the
  stream (`grpc/order.go:84`): when the client has left, the deletion fails.
* **A mutex held across waits** for the client and for SMS.
* **Atomicity.** TCC orders are inserted, and all orders deleted, statement by statement.
* **Paging.** `List` of products goes by LIMIT and OFFSET over a catalogue that changes, sorted by a name that need not be unique.
* **Two keys.** Get takes a product's *code* for the uuid in its request, Delete and Update its primary key.
* **Numbers.** float64 sums compared with DECIMAL(10,2); totals of a million or
  more print with an exponent and do not convert; a zero total takes a branch that
  always fails; prices and amounts are never validated, and an amount a REST request may carry wraps in the int32 of its line.

`PROJECT.json` lists each of these at its line, with the properties that watch it.

### Facts of the code the models rest on

* `UpdateProduct` cannot succeed, though the tags of `models/product.go:31` and the query `UpdateProduct` mean it to: with a code, `Scan` is handed a `*string`, which
  `pgtype.UUID` refuses (`service/product.go:115`); without one, the UPDATE
  sets the NOT NULL column to NULL. So a product row never changes once it is created,
  and the models create and delete rows only. What is stated of the orders' lines and products is stated for that catalogue.
* A pgtype.Numeric does not scan an exponent, and `Float64ToNumericWithPrecision`
  formats with `g`: a total of a million or more fails, long before DECIMAL(10,2) overflows.
* `int32(item.Amount)` (`service/order.go:257`) wraps. Over gRPC an amount is an int32 already; a REST request may carry more.
  The total, and what SMS is asked to write off, go by the amount of the request, the line and the second sum by the wrapped one.
  Where the product has a price the sums differ and the order is refused, after the write-off; where it has none
  they agree, and beside a line that costs something the order is committed with an amount that nobody asked for (`CompleteOrders` says which).
* The tag `gt=0` of a product's prices is never evaluated: no validator runs. Prices of 0 and below are stored.
* An autocommitted INSERT whose acknowledgement is lost returns an error although the row is there. TCCCreateOrder then returns before its
  deletion is deferred (`grpc/order.go:78-81`), and the order stays, without lines, with no goods written off for it.
* `UpdateOrder` with the status left out sends the empty string, which the enum
  refuses. CreateWithProducts does this when the total is 0
  (`repository/order.go:163-177`).
* `List` converts the requested status number to a Go string as a code point, which is
  never one of the enum's values: it always fails. The uuid of an order thus
  becomes known to others only from its creator's answer, and no Delete or Update
  can meet an order that is still being created.
* A gin context handed on as a `context.Context` is never cancelled: a REST saga runs
  on when its client has left. The context of a gRPC stream is cancelled.
* `UpdateOrder` ignores the comment it is given (`service/order.go:325` builds a text that is not Valid, so NULL) and blanks
  user_id and staff_id, which it sends as empty strings that COALESCE does not take for absent (`admin_owner`).
* The order server compares errors with `repository.ErrOrderNotFound`, the service returns its own `ErrOrderNotFound`: a
  missing order is answered Internal, never NotFound. Deleting a missing order is answered as a success.
* REST TCCCreate reads `product.Product.Uuid` of an answer that carries no Product (`service/order.go:74`): it panics, and
  gin's recovery answers 500, for every order with products that was created.
* A malformed product uuid makes `uuid.MustParse` panic (`grpc/order.go:66` and `:141`), which no
  interceptor recovers: the process dies with everything in it. That is `HandlerPanics` in `ServerLifecycle` and one cause of `Crash` in the modules of one handler.
* `main` dials the OMS client at the address of SMS (`main.go:73`), so REST TCCCreate
  reaches a TCCCreateOrder only if both services answer there. The client in
  `TccOrder` stands for any caller of the stream that behaves like TCCOrderCreation.

## 2. Modules

| module | models | builds on |
|---|---|---|
| `OrderTables` | the tables, their keys, the statements of order creation | |
| `LineAmount` | the conversion of an amount to int32 | |
| `OrderPromise` | the abstract specification: each request ends placed with its goods out, or refused with its goods never taken or put back, unless it was misled | |
| `OrderCreation` | REST saga and gRPC Create down to the statements of CreateWithProducts, SMS's unary calls, faults, changes of the catalogue | `OrderTables`, `LineAmount`, implements `OrderPromise` |
| `TccOrder` | the TCC stream: client, handler with its mutex, deferred deletion, SMS's stream, cancellation, faults | `OrderTables`, implements `OrderPromise` |
| `OrderAdmin` | Get, List, Update, Delete, GetProducts of the order server and GetByOrder of the product server, with status and finish date | `OrderTables` |
| `ServerLifecycle` | `main`, the two servers, signal, graceful stop and panics, around the streams | `TccOrder` |
| `ProductCatalogue` | Create, Get, List, Update, Delete of the product server, beside orders that come and go | `OrderTables` |
| `Money` | the float64 sums of an order, its DECIMAL(10,2) cost and their comparison | `LineAmount` |
| `OrderCostProofs` | lemmas about `CostOf`, the sum over a set of lines | `OrderCreation`, `TLAPS` |
| `OrderCreationProofs` | theorems about `OrderCreation` | `OrderCostProofs` |
| `TccOrderProofs` | theorems about `TccOrder` | `TccOrder`, `TLAPS` |
| `ServerLifecycleProofs` | theorems about `ServerLifecycle` | `ServerLifecycle`, `TccOrderProofs` |
| `OrderAdminProofs` | theorems about `OrderAdmin` | `OrderAdmin`, `TLAPS` |
| `ProductCatalogueProofs` | theorems about `ProductCatalogue` | `ProductCatalogue`, `TLAPS` |
| `MoneyProofs` | theorems about `Money` | `Money`, `TLAPS` |
| `MCOrderCreation`, `MCTccOrder`, `MCOrderAdmin`, `MCServerLifecycle`, `MCProductCatalogue`, `MCMoney` | values of the constants for TLC | |

### OrderTables

`product[u]` is the row with primary key `u`, reduced to its code and cost;
`orders[o]` is the `order_cost` of a committed order; `orderProducts` are the
committed rows of `order_products`. Names, comments, user and staff ids and dates
play no part in creation. `RowsWithCode` is what `GetProduct` (by code, LIMIT 1) may return.
`Addable` puts the three ways `AddProductToOrder` fails into one set: no product with
the code, more than one (its scalar subquery), the product already in the
order (primary key). A duplicate product in one cart is such a failure. `DeleteProduct` has
the foreign key as its guard, and the row locks that uncommitted lines hold on
their products. Where the code waits for such a lock, or returns the key's error, the
action is simply not enabled; neither changes a table.

### LineAmount

`Int32(n)` is Go's conversion, with `MaxAmount` for 2^31 - 1: two's complement in as many bits as `MaxAmount` needs, and one. `Fits(n)` says that
it loses nothing. TLC runs it with one to three bits, where amounts of a few units wrap.

### OrderPromise

Two functions, `goods` ("shelf", "out", "back") and `outcome` ("open", "placed", "refused"), and a set,
`misled`: the requests from which a fault has hidden an effect. The steps are Take, PutBack, Place (only with the goods out), Refuse (only with
them not out), and Mislead. A misled request may be placed or refused whatever its goods are, any other may not; any step of a
request may mislead it, and it stays so. Its fairness: goods that are out get placed or put back, unless the request is misled.
So the refinements hold under the faults that the code cannot see through, too, and say exactly whom those faults touch.

### OrderCreation

A request `o` is named by the uuid of the order it makes (`uuid.New()` never
repeats). `pc[o]` is the step its handler takes next; the table gives the steps, in order.

| `pc` | code | actions |
|---|---|---|
| `idle` | controllers Create, with any amounts / gRPC Create, with amounts that fit an int32 | `ReceiveRest`, `ReceiveGrpc` |
| `validating` | validateOrderProducts, one GetProduct per item | `ValidateItem`, `FinishValidation` |
| `removing` | `s.sms.RemoveCoupleProducts` (saga) | `RemoveReply` |
| `opening` | conversion of the cost, ErrEmptyOrder, Begin, CreateOrder | `OpenTransaction` |
| `looking`, `inserting` | the loop over the products: GetProduct, AddProductToOrder | `LookUpProduct`, `InsertLine` |
| `checking` | ErrInvalidOrderTotal, the UpdateOrder of a zero total | `CheckTotal` |
| `committing` | `tx.Commit` | `Commit`, `CommitAckLost` |
| `readingBack` | GetOrderProducts for the response | `ReadBack`, `ReadBackFails` |
| `compensating` | the deferred WriteOnCoupleProducts | `Compensated` |
| `done`, `failed`, `dead` | answered, answered with an error, cut off by a crash | |

`Abort` is every error return from `opening` on: the deferred Rollback, then the
saga's deferred compensation, in the order Go runs them. `pending[o]` holds the
transaction's uncommitted lines, which nobody else sees; `Publish` makes them and the order
visible at once. `total` is validateOrderProducts' sum, of the amounts asked for, and `summed`
CreateWithProducts' own, of the amounts in the lines; `CheckTotal` compares them. Both are exact here: what float64 loses is `Money`'s
subject, and where it makes float64 and DECIMAL(10,2) disagree on equal sums is the constant `Drifting`, a set of carts with their priced lines; the limit
of the conversion is the constant `CostLimit`. Both are parameters so that a theorem
holds whatever the arithmetic of a build gives.

SMS is the variables `call` (at most one call of a request is under way), `taken` and `returned` (its
ledger: how often the two calls were applied for a request). It may refuse a
write-off. It may answer an abandoned call, too: a caller whose call failed or whose
process died may still have the call applied. That is why `SmsRemove` and `SmsWriteOn`
do not look at `pc` except to decide who hears the answer.

`Faults` names the kinds of faults that may happen, any number of times:
`statement` (a database statement errs, to no effect), `commitAck` (COMMIT is applied and
its acknowledgement lost), `readBack` (the read after COMMIT errs), `transport` (a call to SMS
errs; it may never arrive, be applied already, or be applied later), `crash`. `struck[o]` is a history variable:
the kinds of fault that hid an effect from request `o`. No action reads it; properties use it to say "except where this
very request was misled", which is much stronger than excluding a kind of fault altogether.

### TccOrder

One stream per order. `pc` walks through TCCCreateOrder: `receiving` (the freeze
request), `locking`, `freezing` (open SMS's stream, send the freeze event), `awaiting` (the
order), `creating` and `adding` (CreateNakedOrder, AddOrderProduct, autocommitted), `asking`
and `confirming` (the amounts to SMS, its reply), `answering`, and for an error return
after the order exists `deletingLines` and `deletingOrder` (the deferred DeleteOrder) before
the deferred Unlock. `gone[o]` is the cancellation of the stream's context; every statement and call under it fails,
the deferred deletion's too, while `Lock` does not watch it. A statement that errs under a cancelled context, or whose acknowledgement is lost (`ackLost`), may have
been applied: the order's INSERT then leaves an order that no deletion is deferred for, a line's INSERT leaves the line to the deferred deletion, and the DELETE of the
lines keeps that of the order from running. `Finish` is a return with
the mutex held, `Undo` an error return once the deletion is deferred.

The price of a line and the cost of an order are 200 whatever the product
(`service/order.go:102`), the constant `FlatCost`.

### OrderAdmin

Handlers `r` serve calls `call[r]` statement by statement: Get reads the row (`ReadRow`) and then the lines (`ReadLines`), Update
writes the row (`UpdateRow`) and reads the lines, Delete deletes the lines (`DeleteLines`) and then the row (`DeleteRow`), GetProducts and
GetByOrder read the lines, List fails (`ListOrders`). `details[o]` are the columns that matter here: the status, the finish date and whether
user_id and staff_id are there. A date is named by the request at whose `NOW()` it was set, so that two dates can be told apart without a clock. `NewFinish`
is the CASE of `UpdateOrder`. An order appears whole by `Place`, the COMMIT of CreateWithProducts: what `OrderCreation`
checks as `CompleteOrders` is used here. A call can name only orders that were placed, whose uuid someone was told. An order of the TCC stream joins them when its
uuid is answered, by when it is whole (`AnsweredIsSettled`).

Faults: `statement` (no effect, an error; also a cancelled context), `ackLost` (the effect, and an error), `crash`. The foreign key is the guard of `DeleteRow`; it never
refuses, because lines are deleted first and no statement adds lines to an order that was answered (`Consistent`). `placed[o]` is a history variable, the lines an order was created with; its emptiness also says
that `o` has not been created yet.

### ServerLifecycle

The process around `TccOrder`'s streams: `main` (preparing, at its select, draining, returned), `grpc` (the goroutine of `MustRun`: launched, listening, serving,
stopped, or how it panicked), `http` and `signalled` (`mainCtx`). Every action of `TccOrder` that runs in the process is
guarded by the process being alive, a stream is opened only where the gRPC server admits it, and `CutOff`, the part of `TccOrder`'s `Crash` that ends the handlers, goes with
`main`'s return and with a panic. That GracefulStop waits for all handlers is grpc-go's (1.72) behaviour, which `MainReturns` has
as its guard; so is that connections admit streams until their clients have seen GOAWAY, and that Serve after GracefulStop errs. `Prepare` stands for
everything before the goroutines are launched, which ends in Fatal or not. The HTTP server is never shut down; its end is an event for `main`. A second
signal changes nothing, because NotifyContext keeps catching it.

### ProductCatalogue

A request is one statement. `name[u]` is the column List sorts by; a row otherwise is `OrderTables`'. A request names a product by `id`, a primary key or a code:
`Get` looks for it among the codes, `Delete` and `Update` among the primary keys, as the SQL does. `Update` fails on every path; its two mutants
show what happens if one of its two errors is repaired alone. A `List` call is a client that asks for page after page with the offset at what it has received; `Page` is the set of answers that ORDER BY name, LIMIT and
OFFSET admit. `open[o]` are products in uncommitted lines, whose rows are share-locked: a deletion waits for them. A page size of 0 or a negative one is left out: the first gives an
empty page, the second an error of the statement. `made`, `steady`, `grown` and `shrunk` are history variables.

### Money

One order's way through validateOrderProducts, the conversion of its cost, the loop of CreateWithProducts and its check. A float is an integer of units of 2^-`Scale` with at
most `Precision` significant bits, rounded half to even (`Round`, of a number of any size); order_cost is a number of cents. The shortest decimal that reads as a float, rounded to cents by
the database, is the nearest number of cents, unless the decimal half-way between two reads as that float; then either is allowed, and the check refuses both. `HasExponent` says where
`g` prints an exponent, which does not convert: from a million on, and below a ten-thousandth, which lines of amounts of both signs can add up to where the sum should be 0. What follows a check that passes (a total of 0 included) is in `OrderCreation`.

## 3. Runs

`CHECK_DEADLOCK FALSE` is in every cfg for one reason: the system really may stop. Each request is made once,
so when all have ended and every product row is referenced by a line, nothing is left to do.
Progress is checked as liveness instead.

| run | specification and bounds | shows |
|---|---|---|
| `saga_safety` | `Safety`; a saga and a gRPC Create; all five kinds of fault | `TypeOK`, `Phases` and `Assembly` (the inductive invariants), `ReturnedOnlyTaken`, `NoStranding`, `NoGiveAway`, `CompleteOrders`, `CostMatchesLines`, and `PromiseSafe`: step by step the saga implements `OrderPromise`, crashes included |
| `saga_promise` | `Spec`; a saga and a gRPC Create; every fault but crashes | `PromiseKept`: the saga implements `OrderPromise`, its fairness included; `SagaSettles`, `EveryRequestEnds` |
| `saga_unstated_total` | `Safety`; one saga, no faults | **violated**: `UnstatedTotalIsFilled` |
| `tcc_safety` | `Safety`; two streams; all five kinds of fault | `TypeOK`, `Streams` (the inductive invariant), `AnsweredIsSettled`, `TakenGoodsHaveOrder`, `OnlyHolderUnfinished` |
| `tcc_promise` | `Spec`; two streams; every fault but crashes | `PromiseSafe`, `PromiseKept`: the stream implements `OrderPromise`; `EveryCreationEnds` |
| `admin_safety` | `Safety`; three requests, two orders; all three kinds of fault | `TypeOK`, `Consistent`, `FinishedIffCompleted`, `FinishDateKept`, `DeletedForGood`, `AnswersWhole` |
| `admin_owner` | `Safety`; one request, one order, no faults | **violated**: `OrdersKeepOwner` |
| `tcc_transaction` | `Safety`; one stream, no faults | **violated**: `OrdersAppearWhole` |
| `lifecycle` | `LifecycleSpec`; two streams, one product; clients leaving, lost acknowledgements, broken streams to SMS, all three faults of the listeners, malformed requests | `LifecycleTypeOK`, `NoStreamCutOff`, `DrainedStreamsSettled`, `ShutdownEnds` |
| `catalogue` | `Safety`; two calls, three products, one order; all three kinds of fault | `TypeOK`, `LinesKeepProduct`, `DeletedForGood`, `OnlyNamedVanish`, `PagesComplete` |
| `money` | `Spec`; carts of up to three lines, floats of 13 bits | `TypeOK`, `OrderCostIsDue`, `RefusedOnlyByDrift` |
| `money_drift` | the same | **violated**: `MatchingTotalIsAccepted` |

Bounds. Two product rows, two codes: enough for a code to be absent, unique or used twice, for a product to
be deleted and created anew under its code, and for two lines of an order. Two
prices in `saga_*`, 0 and 1: a product can come back at another price, and one without a price lets an amount that wraps through the check of the total. The carts: none, two
different products, the same product twice, a cart whose total is 0, a cart whose total does not convert, a cart with an amount that wraps (`MaxAmount` is 1); one cart drifts
at one pricing. Two requests: the tables are the only thing requests share, and
each interaction (a line of one keeps a product from being deleted under the other; a holder
of the mutex and a waiter) is between two. In the `saga_*` runs one of the two is a saga and one is not.
No counter needs a bound: `taken` and `returned` are unbounded naturals and never exceed 1, which is one of the properties.
`admin_safety` has three requests: an update, a deletion and a read, or two updates and a retry, meet on one order; the second order shows that they leave others
alone. `lifecycle` has one product, and carts that are empty, of one line, or that fail at their second line after the order was inserted. `catalogue` has two calls, because each of its hazards
is a race of two (a deletion with a listing, a creation with a listing, a call with an order), three products and pages of one or two: enough for a product to cross the edge of a page in either direction. `MaxLines` bounds an order there to one
line. `money` cannot have 53 bits in TLC's integers. With 13 bits and a limit of 11 the relation that matters is kept: three sums below the limit lose less than half a cent, as 53 bits do below a million for any cart that fits a
request; and most prices are no float in either. Prices and amounts of both signs and of 0 are in, and an amount that wraps (7, with `MaxAmount` 3), but none so large that lines far above the limit cancel: those lose whole cents on the way, which nothing in the code prevents. `CostIsDue` in section 4 says how large is too large. Symmetry: product uuids in the safety runs, orders too in `tcc_safety`, orders and requests in `admin_safety`, requests and codes in `catalogue`; never with liveness.

### The properties, and what would break them

* `ReturnedOnlyTaken`: the write-on is registered only after a successful
  write-off. Registering the deferred function one statement earlier breaks it.
* `NoStranding`: an error answer of the saga means nothing stays written off, unless *this*
  request's own call to SMS erred without telling its effect. The defer statement below
  the cost's conversion, or a shadowed `err`, breaks it.
* `NoGiveAway`: an order in the database has its goods out. The code's two exceptions are built into the
  statement (`commitAck`, `readBack`): the saga cannot tell a COMMIT that failed from one
  whose acknowledgement was lost, and compensates when the read after COMMIT fails.
* `CompleteOrders`, `CostMatchesLines`: what a reader of the tables sees, while
  the catalogue changes under the handler.
* `SagaSettles`, `EveryRequestEnds`: progress.
* `PromiseSafe`, `PromiseKept`: step by step, the two stores move only as `OrderPromise` allows.
  Under the mapping, goods are out once the ledger says so and an order is placed once COMMIT
  is applied, so the refinement is about the stores and not about what the handler believes.
* `AnsweredIsSettled`, `TakenGoodsHaveOrder`: the TCC stream has no compensation; it relies on
  the write-off being the last thing that can fail. That the deferred deletion uses
  the stream's context is what saves an order whose goods are already gone when the client has left.
* `OnlyHolderUnfinished`: the order of Go's deferred calls, deletion before Unlock. It excepts, request by request, the ends after which nothing deletes what was inserted:
  the client left, the process died, the acknowledgement of the INSERT or of the deletion was lost, the stream to SMS broke after the write-off.
* `EveryCreationEnds`: no path keeps `createOrderMu`.
* `NoStreamCutOff`, `DrainedStreamsSettled`, `ShutdownEnds`: the stop composed with the protocol. Stop in place of GracefulStop breaks the first; a handler that answers
  before SMS has written off breaks the second, and a mutex that stays locked the third, because then the drain waits for ever.
* `LinesKeepProduct`, `DeletedForGood`, `OnlyNamedVanish`: a deletion that races with an order being placed, and goes by a key that Get does not go by.
* `PagesComplete`: what a client that pages can rely on although the catalogue changes, and no more. Without ORDER BY nothing of it holds.
* `OrderCostIsDue`, `RefusedOnlyByDrift`: what is stored is right to the cent, so the check of CreateWithProducts refuses only orders that are right, and those whose lines hold other amounts than were asked for.
  The carts it refuses are `OrderCreation`'s `Drifting`.
* `FinishedIffCompleted`, `FinishDateKept`: updates and retries of updates race; the CASE of the query nobody runs, `UpdateOrderStatus`, would break the first.
* `DeletedForGood`, `AnswersWhole`: handlers of two statements each, deletions cut off between theirs, products deleted and created in between.

The violated ones state what the repository says: `service/order.go`'s UpdateOrder against the tag `required` of `models/order.go:44` and the COALESCE
of `db/sql/order_query.sql:58`, `repository/order.go:162` (the
total is filled in "in case it was not given"), `service/order.go:100` ("Create order with transaction") and `repository/errors.go:14` ("order total doesn't match products sum", of totals that do match).
The last is no artefact of 13 bits: in float64 three times 1.10 is 3.3000000000000003, the column holds 3.30, and such an order is refused after its goods were written off.

### Fairness

`WF(Handle(o))`: a handler is a goroutine, and the Go scheduler runs every goroutine that is ready.
`WF(SmsServe(o))`: the saga's calls have no deadline; SMS is assumed to answer what it received (or the call errs, where `transport`
is among the faults). `WF(ClientSends(o, c))` for some cart, in TccOrder only: TCCOrderCreation
sends its order right after the freeze request with nothing in between. `LifecycleSpec` adds `main`'s own steps, a goroutine like any other; it assumes no signal, and nothing of the servers' goroutines.
A caller of the stream that opens it and then neither sends nor leaves keeps the mutex, and a drain, waiting for ever; that is the code's behaviour, and this fairness is what excludes it. Nothing is assumed of the catalogue's clients, of
faults, or of a client leaving. The mutex needs no strong fairness: each stream takes it once, so a waiter
is overtaken at most once by each other stream and weak fairness of its holder frees it for good.
Liveness is checked without `crash`: a process that dies ends no request, and nothing in the code resumes them.

## 4. Proofs

Every invariant and every action property that a run checks is also a theorem, for any number of requests, streams, products and orders, any carts and prices, and any set
of fault kinds. Two of the statements carry a hypothesis that the run's property does not have; what it means is said below. Liveness is left to TLC.

| module | theorem | statement |
|---|---|---|
| `OrderCreationProofs` | `TypesHold`, `PhasesHold`, `AssemblyHolds` | `Safety => []TypeOK`, `[]Phases`, `[]Assembly` |
| | `NothingReturnedTwice` | `Safety => []ReturnedOnlyTaken` |
| | `FailureLeavesNothingTaken` | `Safety => []NoStranding` |
| | `OrdersHaveTheirGoods` | `Safety => []NoGiveAway` |
| | `OrdersAreComplete` | `Safety => []CompleteOrders` |
| | `CostsMatchLines` | `Safety => []CostMatchesLines` |
| | `SagaKeepsPromise` | `Safety => PromiseSafe` |
| `TccOrderProofs` | `TypesHold`, `StreamsHold` | `Safety => []TypeOK`, `[]Streams` |
| | `AnsweredAreSettled` | `Safety => []AnsweredIsSettled` |
| | `TakenGoodsAccounted` | `Safety => []TakenGoodsHaveOrder` |
| | `OnlyHolderIsUnfinished` | `Safety => []OnlyHolderUnfinished` |
| | `TccKeepsPromise` | without crashes, `Safety => PromiseSafe` |
| `ServerLifecycleProofs` | `LifecycleTypesHold` | `LifecycleSpec => []LifecycleTypeOK` |
| | `OnlyRunningServerCutsOff` | `LifecycleSpec => []NoStreamCutOff` |
| | `NothingHalfDoneAtExit` | `LifecycleSpec => []DrainedStreamsSettled` |
| `OrderAdminProofs` | `TypesHold`, `ConsistencyHolds` | `Safety => []TypeOK`, `[]Consistent` |
| | `FinishDatesHold` | `Safety => []FinishedIffCompleted` |
| | `DatesStand` | `Safety => FinishDateKept` |
| | `DeletionIsFinal` | `Safety => []DeletedForGood` |
| | `AnswersAreWhole` | `Safety => []AnswersWhole` |
| `ProductCatalogueProofs` | `TypesHold` | `Safety => []TypeOK` |
| | `LinesHaveProducts` | `Safety => []LinesKeepProduct` |
| | `DeletionIsFinal` | `Safety => []DeletedForGood` |
| | `VanishedWereNamed` | `Safety => []OnlyNamedVanish` |
| | `ListingsAreComplete` | `Safety => []PagesComplete` |
| `MoneyProofs` | `TypesHold` | `Spec => []TypeOK` |
| | `OnlyDriftIsRefused` | `Spec => []RefusedOnlyByDrift` |
| | `CostIsDue` | `Spec => [](FineSums => OrderCostIsDue)` |

Assumptions on the constants: `TablesAssumption` (prices are integers, the absent row is no row), `CreationAssumption` (sagas are requests, carts are sequences
of items, the limit is positive, faults are of the named kinds), `AmountAssumption` (`MaxAmount` is a natural number), `TccAssumption`, `AdminAssumption`, `CatalogueAssumption` (likewise, for their modules; in the last, page sizes are positive and a fresh uuid is no product's code) and `MoneyAssumption`. TLC evaluates each in the runs of its module.
`MoneyAssumption` names what float64 and the million meet: `50 * 2^Precision <= 2^Scale`, the unit is fine enough to give the least price, a cent, all its bits; `700 * CostLimit <= 2^Precision`, floats below the limit
tell cents apart, and half cents from cents, which 53 bits and a million satisfy many times over. Prices are any integers and the number of lines is free. Amounts are at most 2^`Precision` in
magnitude, and `MaxAmount` is below it, so that `float64(amount)` is exact: an amount over 2^53 is not covered.

Where a theorem says less than one might read into it:

* `TccKeepsPromise` assumes that `"crash"` is not among the faults, as the run does. The outcome of a stream is there what its handler has decided; a process that
  dies forgets that, so an order about to be answered would go from placed to open. What a crash leaves in the two stores is `TakenGoodsAccounted` and `OnlyHolderIsUnfinished`, under every fault.
* `CostIsDue` speaks of states with `FineSums`: 2(2n + 5)(M + 1) is at most 2^`Precision`, where n is the number of lines and M their cost in cents with
  nothing deducted. The total alone cannot be the condition, since nothing in the code asks prices or amounts to be positive and lines far above the limit may cancel.
  In float64 a thousand lines of twenty thousand million together satisfy it, so a cart that breaks it is no order.

**OrderCreation: goods.** The inductive invariant is `IInv == TypeOK /\ Phases`. `NoStranding` alone is not inductive: that a failed saga
has returned what it took follows from what was true when its compensation was answered, which follows from what was
true when it was called, and so on back to the write-off. `Phases` says that for each request: its step, its
call to SMS, SMS's ledger, the order table and the open transaction fit together. It is split by what it relates:
`CallMatchesLedger`, `StepMatchesCall`, `StepMatchesLedger`, `StepMatchesOrder`, `StepMatchesLines`.
The last is there for the types alone: that the next line to insert exists. `TypeStep` and `PhaseStep` go through the actions one by one.
`OthersUnchanged` and `PhaseFrame` dispose of all requests but the one that moves, and `AbortPhase` of the error return that six actions share.

**OrderCreation: orders.** That a committed order is complete needs `Assembly` on top of `IInv`: the lines priced so far are the first of the cart, the uncommitted lines the first of
those, each of a product of its own that stands and has the item's code, and the sum kept in the handler is theirs (`PricedAsAsked`, `PendingAsPriced`, `CostAsLines`). The catalogue cannot
disturb it, because a product in an uncommitted line is locked and one in a committed line is referenced. The sum is over a *set* of lines, a fold that picks lines in an order of its own;
`OrderCostProofs` shows that a line more adds exactly its cost, whatever that order is.

**The refinement of the saga** holds under every fault, because a request that a fault has hidden an effect from is `misled` in the abstract specification. `PromiseStep(o)` lists what one step may do to a request's goods and outcome, and that a misled one stays misled; `RequestKeepsPromise` shows from `IInv`, before and
after, that each action does that to its request, and `PromiseOneStep` that such a step is a step of `OrderPromise`. Crashes are steps of all requests at once
and change neither goods nor outcome.

**TccOrder.** `IInv == TypeOK /\ Streams`. `AnsweredIsSettled` says nothing of a handler on its way, `OnlyHolderUnfinished` nothing of the holder, so neither is inductive. `Streams` has that: `HolderInside`, the mutex is with the one stream that is between Lock and the
deferred Unlock; `StepMatchesOrder`, as many lines are in the table as the loop has come to (`LinesUpTo`, which counts products, because the loop does); `StepMatchesSms`, the ledger is what SMS answered, and whoever asked
has a whole order and either still waits, or has been answered, or is cancelled. The last case is why `TakenGoodsHaveOrder` holds of a stream whose client left: its deletion is cancelled with it.
The refinement goes through the same `PromiseStep` as the saga's.

**ServerLifecycle.** `LifecycleInv` adds `HandlersMatchServer` to `TccOrder`'s invariant: nothing is open before Serve, nothing is at work once `main` has returned, only a panic of the serving process has killed a handler.
`StreamsMove` is the composition: a step of the process is a step of `TccOrder`, leaves its variables alone, or is its `CutOff`. So `TccOrder`'s invariant is inherited, not proved anew.

**OrderAdmin.** `IInv` is `TypeOK`, `Consistent`, `FinishedIffCompleted` and `Answered(r)` for every request, which is `DeletedForGood` and `AnswersWhole` request by request.
The lemma the rest leans on is `TablesStep`: every step keeps each order's row, lines and products consistent, and moves each order `Forward`: once placed it
only loses, first its lines and then its row. What a handler knows or has answered (`HandlerStands`) is stated in terms that moving forward cannot
falsify; that is why a read that was overtaken by a deletion is still right. `HandlerMoves` is the handler that takes the step.

**ProductCatalogue.** `CatalogueInv` is behind everything but paging: `TypeOK`, which rows have a name, that what stands was made and that a deletion names what was made or no primary key, with the three safety properties.
`PagesInv` is about a listing on its way. The `Rank` of a product is one more than the number of rows of lesser name; unless a deletion has moved rows up under it, a product that stood all the time is on a page already or has
a rank beyond what the client has received, and unless a creation has moved rows down, one it has received has a rank below. `PlaceIsRank` relates that to the page: in a list sorted by name, a product with a name of its own
stands at its rank. A catalogue starts with finitely many rows (`IsFiniteSet(Standing)` in `Init`), which is all that is asked of its size.

**Money.** `RoundNat` is defined for a number of any size, so that no bound on sums is needed to know what rounding yields. `RoundNatNear` bounds its relative error by 2^-`Precision`, `NoHalfWay` shows that
what is near enough to a number of cents does not read as half a cent more or less, and `CentsSurvive` that a number of
cents below the limit is read back as it was stored. `MoneyInv` has the partial sums of the lines, in float64, in cents and in magnitude, as history that the state determines, and that both loops are on the same ones where the amounts fit (`BothSums`); `LineAdds` is one line's share of the error and `SumsNear` the error
of the whole sum. `OnlyDriftIsRefused` needs only that what is stored is nearest to the sum.

**Induction.** The library's induction theorems take an operator as a parameter, which none of the provers instantiates. Where a proof needs induction all the same it gets it from the minimum of a set of counterexamples, which
the library's well-founded order of finite subsets provides (`WFMin`, `FS_StrictSubsetOrderingWellFounded`): `MinimalSubset` for sums over sets, `Least` for numbers. Powers of two are reached through the number of
subsets of an interval (`TwoToThe`).

Only model-checked: liveness, since fairness and ENABLED are out of the prover's reach (`PromiseKept` of both protocols, `SagaSettles`, `EveryRequestEnds`, `EveryCreationEnds`, `ShutdownEnds`), and `OrderCostIsDue` without
`FineSums`, within the bounds of `money`.

## 5. Not modelled

* The response of a creation, beyond the read of the lines that can fail.
* Responses of the product server beyond the order of a list; names of more than 80 characters (an error of the statement, like any other).
* Fused multiply-add, which Go may use on some platforms in the sum of CreateWithProducts and not in that of validateOrderProducts: `Money` rounds each product, as amd64 does.
* SMS beyond the three calls that are made: it either applies a call as a whole or refuses it. Stock levels are
  not modelled; a refusal is possible at any time.
* A freshly started process beside requests of a dead one is covered: requests that are still `idle` start after a `Crash`.
  A second replica of the service is not: its mutex would be its own.
* Panics other than `HandlerPanics`, those of the servers, and `Crash`; amounts so large that float64 rounds them, or that a JSON number does not fit an int; configuration, logging, the types of responses.

## 6. Plan

1. The modules of section 2, their runs, and the theorems of section 4 (done).
2. `TccKeepsPromise` under crashes: the outcome of a stream has to survive the handler that decided it, as a history variable or stated by the two stores.
3. `DrainedStreamsSettled` names streams that no fault has touched; from `TakenGoodsHaveOrder` and the mutex more can be said of the others.
4. `OrderAdmin` takes `CompleteOrders` for granted; it is a theorem of `OrderCreation`, and a composition could state that.
