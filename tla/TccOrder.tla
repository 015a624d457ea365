------------------------------ MODULE TccOrder ------------------------------
(***************************************************************************)
(* Creating an order over the TCC stream (gRPC TCCCreateOrder).  A client  *)
(* first asks to freeze resources, then sends the order; the handler holds *)
(* createOrderMu from the first message to its return, inserts the order   *)
(* and its lines as autocommitted statements, has the storage service      *)
(* (SMS) write the goods off over a stream of its own, and on an error     *)
(* deletes the order in a deferred call, under the context of the stream.  *)
(***************************************************************************)
EXTENDS OrderTables

CONSTANTS
  Carts,      \* the carts a client can send
  NoOne,      \* nobody holds createOrderMu
  Faults      \* the kinds of fault that can happen

FaultKinds == {"statement", "ackLost", "transport", "cancel", "crash"}

\* A message carries amounts as int32, which is what a line holds, too.
Item == [code : Codes, amount : Int]

\* The cost CreateNakedOrder and AddOrderProduct write, whatever the product.
FlatCost == 200

ASSUME TccAssumption ==
  /\ Carts \subseteq Seq(Item)
  /\ <<>> \in Carts
  /\ NoOne \notin OrderUuids
  /\ FlatCost \in Prices
  /\ Faults \subseteq FaultKinds

VARIABLES
  pc,       \* where the handler of each stream is
  cart,     \* the products of the client's second message
  sent,     \* how many messages the client has sent
  gone,     \* whether the stream's context is cancelled
  holder,   \* the stream whose handler holds createOrderMu
  sms,      \* the handler's stream to SMS
  taken,    \* SMS's ledger: write-offs applied for the order
  struck    \* history: faults that hid a write-off or what a statement had
            \*   done, or stopped a deletion

clientVars == <<cart, sent, gone>>
smsVars == <<sms, taken>>
vars == <<pc, cart, sent, gone, holder, sms, taken, struck,
          product, orders, orderProducts>>

Locked == {"freezing", "awaiting", "creating", "adding", "asking",
           "confirming", "answering", "deletingLines", "deletingOrder"}
Ended == {"done", "failed", "dead"}
Steps == {"idle", "receiving", "locking"} \cup Locked \cup Ended

TypeOK ==
  /\ TablesTypeOK
  /\ pc \in [OrderUuids -> Steps]
  /\ cart \in [OrderUuids -> Carts]
  /\ sent \in [OrderUuids -> 0 .. 2]
  /\ gone \in [OrderUuids -> BOOLEAN]
  /\ holder \in OrderUuids \cup {NoOne}
  /\ sms \in [OrderUuids -> {"none", "frozen", "asked", "accepted", "refused"}]
  /\ taken \in [OrderUuids -> Nat]
  /\ struck \in [OrderUuids -> SUBSET Faults]

Init ==
  /\ product \in [ProductUuids -> ProductRow \cup {NoRow}]
  /\ orders = [o \in OrderUuids |-> NoRow]
  /\ orderProducts = {}
  /\ pc = [o \in OrderUuids |-> "idle"]
  /\ cart = [o \in OrderUuids |-> <<>>]
  /\ sent = [o \in OrderUuids |-> 0]
  /\ gone = [o \in OrderUuids |-> FALSE]
  /\ holder = NoOne
  /\ sms = [o \in OrderUuids |-> "none"]
  /\ taken = [o \in OrderUuids |-> 0]
  /\ struck = [o \in OrderUuids |-> {}]

GoTo(o, step) == pc' = [pc EXCEPT ![o] = step]

-----------------------------------------------------------------------------
(* The client (TCCOrderCreation): both messages, then wait for the answer. *)

ClientOpens(o) ==
  /\ pc[o] = "idle"
  /\ GoTo(o, "receiving")
  /\ sent' = [sent EXCEPT ![o] = 1]
  /\ UNCHANGED <<cart, gone, struck, holder, smsVars, tableVars>>

ClientSends(o, c) ==
  /\ sent[o] = 1 /\ ~ gone[o] /\ pc[o] \notin Ended
  /\ sent' = [sent EXCEPT ![o] = 2]
  /\ cart' = [cart EXCEPT ![o] = c]
  /\ UNCHANGED <<pc, gone, struck, holder, smsVars, tableVars>>

\* The client cancels or its connection breaks: the stream's context ends.
ClientLeaves(o) ==
  /\ "cancel" \in Faults
  /\ sent[o] > 0 /\ ~ gone[o] /\ pc[o] \notin Ended
  /\ gone' = [gone EXCEPT ![o] = TRUE]
  /\ UNCHANGED <<pc, cart, sent, struck, holder, smsVars, tableVars>>

-----------------------------------------------------------------------------
(* The handler.  A statement or call under a cancelled context fails.       *)

Fault(kind) == kind \in Faults

Strike(o, kind) ==
  /\ kind \in Faults
  /\ struck' = [struck EXCEPT ![o] = @ \cup {kind}]

\* Mutant of Finish: no deferred Unlock.
FinishHolding(o, step) == GoTo(o, step) /\ UNCHANGED holder

\* Return with createOrderMu held.
Finish(o, step) == GoTo(o, step) /\ holder' = NoOne

\* Mutant of Undo: the mutex is unlocked before the order is deleted.
UndoUnlocked(o) == GoTo(o, "deletingLines") /\ holder' = NoOne

\* An error return once the order is created: the deferred DeleteOrder runs.
Undo(o) == GoTo(o, "deletingLines") /\ UNCHANGED holder

\* The freeze request; an error returns before the mutex is taken.
ReceiveFreeze(o) ==
  /\ pc[o] = "receiving"
  /\ \/ GoTo(o, "locking")
     \/ gone[o] /\ GoTo(o, "failed")
  /\ UNCHANGED <<clientVars, struck, holder, smsVars, tableVars>>

\* Lock waits for the mutex, not for the context.
Lock(o) ==
  /\ pc[o] = "locking"
  /\ holder = NoOne
  /\ holder' = o
  /\ GoTo(o, "freezing")
  /\ UNCHANGED <<clientVars, struck, smsVars, tableVars>>

\* Open the stream to SMS and send the freeze event.
Freeze(o) ==
  /\ pc[o] = "freezing"
  /\ \/ /\ ~ gone[o]
        /\ sms' = [sms EXCEPT ![o] = "frozen"]
        /\ GoTo(o, "awaiting") /\ UNCHANGED holder
     \/ (gone[o] \/ Fault("transport")) /\ Finish(o, "failed") /\ UNCHANGED sms
  /\ UNCHANGED <<clientVars, struck, taken, tableVars>>

\* Wait for the order, with the mutex held.
ReceiveOrder(o) ==
  /\ pc[o] = "awaiting"
  /\ \/ sent[o] = 2 /\ GoTo(o, "creating") /\ UNCHANGED holder
     \/ gone[o] /\ Finish(o, "failed")
  /\ UNCHANGED <<clientVars, struck, smsVars, tableVars>>

\* Whether all the lines of the cart are there.
NextLoop(o, lines) == IF lines = Len(cart[o]) THEN "asking" ELSE "adding"

\* The deferred DeleteOrder is registered only when this has succeeded: an error
\* returns past it, and the row is there all the same when it was the
\* acknowledgement that was lost, or the client left as the statement ran.
CreateNakedOrder(o) ==
  /\ pc[o] = "creating"
  /\ \/ /\ ~ gone[o]
        /\ orders' = [orders EXCEPT ![o] = FlatCost]
        /\ GoTo(o, NextLoop(o, 0)) /\ UNCHANGED <<holder, struck>>
     \/ /\ (gone[o] /\ UNCHANGED struck) \/ Strike(o, "ackLost")
        /\ orders' = [orders EXCEPT ![o] = FlatCost]
        /\ Finish(o, "failed")
     \/ /\ gone[o] \/ Fault("statement")
        /\ Finish(o, "failed") /\ UNCHANGED <<orders, struck>>
  /\ UNCHANGED <<clientVars, smsVars, product, orderProducts>>

\* Mutant of NewLine: the product is named by its code, not its primary key.
NewLineByCode(o, item, u) ==
  [order |-> o, product |-> item.code, price |-> FlatCost, amount |-> item.amount]

NewLine(o, item, u) ==
  [order |-> o, product |-> u, price |-> FlatCost, amount |-> item.amount]

\* One iteration of the loop over the products.  On an error the deferred
\* deletion takes the line along, if it was inserted.
AddOrderProduct(o) ==
  /\ pc[o] = "adding"
  /\ LET present == {l.product : l \in RowsOf(o)}
         item == cart[o][Cardinality(present) + 1]
         addable == Addable(item.code, present)
     IN \/ \E u \in addable :
             /\ orderProducts' = orderProducts \cup {NewLine(o, item, u)}
             /\ \/ /\ ~ gone[o]
                   /\ GoTo(o, NextLoop(o, Cardinality(present) + 1)) /\ UNCHANGED holder
                \/ (gone[o] \/ Fault("ackLost")) /\ Undo(o)
        \/ /\ gone[o] \/ Fault("statement") \/ addable = {}
           /\ Undo(o) /\ UNCHANGED orderProducts
  /\ UNCHANGED <<clientVars, struck, smsVars, product, orders>>

\* Send the amounts to SMS.
Ask(o) ==
  /\ pc[o] = "asking"
  /\ \/ /\ ~ gone[o]
        /\ sms' = [sms EXCEPT ![o] = "asked"]
        /\ GoTo(o, "confirming") /\ UNCHANGED holder
     \/ (gone[o] \/ Fault("transport")) /\ Undo(o) /\ UNCHANGED sms
  /\ UNCHANGED <<clientVars, struck, taken, tableVars>>

\* Mutant of Confirm: the error of Recv is not checked.
ConfirmUnchecked(o) ==
  /\ pc[o] = "confirming"
  /\ \/ sms[o] \in {"accepted", "refused"} /\ GoTo(o, "answering") /\ UNCHANGED <<holder, struck>>
     \/ gone[o] /\ Undo(o) /\ UNCHANGED struck
     \/ Strike(o, "transport") /\ Undo(o)
  /\ UNCHANGED <<clientVars, smsVars, tableVars>>

\* Mutant of Confirm: SMS's reply is not awaited.
ConfirmUnread(o) ==
  /\ pc[o] = "confirming"
  /\ GoTo(o, "answering")
  /\ UNCHANGED <<clientVars, struck, holder, smsVars, tableVars>>

\* SMS's reply.
Confirm(o) ==
  /\ pc[o] = "confirming"
  /\ \/ sms[o] = "accepted" /\ GoTo(o, "answering") /\ UNCHANGED <<holder, struck>>
     \/ (sms[o] = "refused" \/ gone[o]) /\ Undo(o) /\ UNCHANGED struck
     \/ Strike(o, "transport") /\ Undo(o)
  /\ UNCHANGED <<clientVars, smsVars, tableVars>>

\* An error of the last Send is dropped: the handler returns nil.
Answer(o) ==
  /\ pc[o] = "answering"
  /\ Finish(o, "done")
  /\ UNCHANGED <<clientVars, struck, smsVars, tableVars>>

\* Mutant of DeleteLines: the deletion does not use the stream's context.
DeleteLinesDetached(o) ==
  /\ pc[o] = "deletingLines"
  /\ orderProducts' = orderProducts \ RowsOf(o)
  /\ GoTo(o, "deletingOrder") /\ UNCHANGED holder
  /\ UNCHANGED <<clientVars, struck, smsVars, product, orders>>

\* The deferred DeleteOrder: two statements, no transaction, errors ignored.  An
\* error of the first keeps the second from running, though it was applied.
DeleteLines(o) ==
  /\ pc[o] = "deletingLines"
  /\ \/ /\ ~ gone[o]
        /\ orderProducts' = orderProducts \ RowsOf(o)
        /\ GoTo(o, "deletingOrder") /\ UNCHANGED <<holder, struck>>
     \/ /\ ~ gone[o] /\ Strike(o, "ackLost")
        /\ orderProducts' = orderProducts \ RowsOf(o)
        /\ Finish(o, "failed")
     \/ /\ (gone[o] /\ UNCHANGED struck) \/ Strike(o, "statement")
        /\ Finish(o, "failed") /\ UNCHANGED orderProducts
  /\ UNCHANGED <<clientVars, smsVars, product, orders>>

DeleteRow(o) ==
  /\ pc[o] = "deletingOrder"
  /\ \/ ~ gone[o] /\ orders' = [orders EXCEPT ![o] = NoRow] /\ UNCHANGED struck
     \/ gone[o] /\ UNCHANGED <<orders, struck>>
     \/ Strike(o, "statement") /\ UNCHANGED orders
  /\ Finish(o, "failed")
  /\ UNCHANGED <<clientVars, smsVars, product, orderProducts>>

Handle(o) ==
  \/ ReceiveFreeze(o) \/ Lock(o) \/ Freeze(o) \/ ReceiveOrder(o)
  \/ CreateNakedOrder(o) \/ AddOrderProduct(o) \/ Ask(o) \/ Confirm(o)
  \/ Answer(o) \/ DeleteLines(o) \/ DeleteRow(o)

-----------------------------------------------------------------------------
(* The storage service *)

\* It writes the goods off or refuses, whether or not anyone waits.
SmsServe(o) ==
  /\ sms[o] = "asked"
  /\ \/ /\ taken' = [taken EXCEPT ![o] = @ + 1]
        /\ sms' = [sms EXCEPT ![o] = "accepted"]
     \/ sms' = [sms EXCEPT ![o] = "refused"] /\ UNCHANGED taken
  /\ UNCHANGED <<pc, clientVars, struck, holder, tableVars>>

\* The handler's stream to SMS ends with the context it was opened under, and
\* that ends when the handler has returned: SMS drops what it has not begun.
SmsDrops(o) ==
  /\ sms[o] \in {"frozen", "asked"}
  /\ gone[o] \/ pc[o] \in Ended
  /\ sms' = [sms EXCEPT ![o] = "none"]
  /\ UNCHANGED <<pc, clientVars, struck, holder, taken, tableVars>>

-----------------------------------------------------------------------------

\* The process ends: no deferred call of a handler runs.
CutOff ==
  /\ pc' = [o \in OrderUuids |->
              IF pc[o] \in {"idle"} \cup Ended THEN pc[o] ELSE "dead"]
  /\ holder' = NoOne
  /\ UNCHANGED <<clientVars, struck, smsVars, tableVars>>

\* The process dies, of a product uuid that uuid.MustParse panics at, too, and is
\* started anew; nothing in it remembers the streams.
Crash == "crash" \in Faults /\ CutOff

ChangeCatalogue ==
  /\ \E u \in ProductUuids :
       \/ \E c \in Codes, cost \in Prices : CreateProduct(u, c, cost)
       \/ DeleteProduct(u, {})
  /\ UNCHANGED <<pc, clientVars, struck, holder, smsVars>>

Next ==
  \/ \E o \in OrderUuids :
       \/ ClientOpens(o) \/ ClientLeaves(o)
       \/ \E c \in Carts : ClientSends(o, c)
       \/ Handle(o) \/ SmsServe(o) \/ SmsDrops(o)
  \/ Crash
  \/ ChangeCatalogue

Safety == Init /\ [][Next]_vars

\* A client sends its order right after the freeze request; a handler goroutine
\* runs on; SMS answers.  No fairness is asked of the mutex beyond this: every
\* stream takes it once.
Fairness ==
  \A o \in OrderUuids :
    /\ WF_vars(\E c \in Carts : ClientSends(o, c))
    /\ WF_vars(Handle(o))
    /\ WF_vars(SmsServe(o))

Spec == Safety /\ Fairness

-----------------------------------------------------------------------------
(* Properties *)

\* The lines of order o are those the client asked for.
Whole(o) ==
  /\ Cardinality(RowsOf(o)) = Len(cart[o])
  /\ \A i \in DOMAIN cart[o] : \E l \in RowsOf(o) :
       /\ l.amount = cart[o][i].amount
       /\ product[l.product] # NoRow
       /\ product[l.product].code = cart[o][i].code

Settled(o) == orders[o] # NoRow /\ Whole(o) /\ taken[o] = 1
Absent(o) == orders[o] = NoRow /\ RowsOf(o) = {} /\ taken[o] = 0

\* createOrderMu hides the making of an order from other creations: only its
\* holder's order can be partial, or complete with its goods still in the
\* warehouse.  Every other one is complete with its goods gone, or not there,
\* refused ones with some lines inserted included, unless its own client left, it
\* was cut off by a crash, or a fault struck its own reply, insertion or deletion:
\* an order whose insertion errs after it was applied stays, without lines.
OnlyHolderUnfinished ==
  \A o \in OrderUuids \ {holder} :
    ~ gone[o] /\ pc[o] # "dead" /\ struck[o] = {} => Settled(o) \/ Absent(o)

\* A handler that returns without an error leaves an order with all its lines and
\* its goods written off, whatever fails in or around other handlers.
AnsweredIsSettled ==
  \A o \in OrderUuids : pc[o] = "done" => Settled(o)

\* No goods leave the warehouse without an order that accounts for them: not when
\* the client leaves at any point, the process dies or a statement fails.  Only
\* when this handler's own stream to SMS breaks is such an order deleted.
TakenGoodsHaveOrder ==
  \A o \in OrderUuids : taken[o] > 0 /\ "transport" \notin struck[o] => Settled(o)

\* Every creation ends, and with it the wait of the others for createOrderMu: no
\* error return, cancelled or refused, leaves the mutex locked.
EveryCreationEnds ==
  \A o \in OrderUuids : sent[o] > 0 ~> pc[o] \in Ended

\* The protocol implements the promise of OrderPromise: the handler decides on
\* SMS's reply, and a refusal means that nothing was taken.  Only the client that
\* leaves, or the stream to SMS that breaks, misleads a request, and no other.
Promise == INSTANCE OrderPromise WITH
  Requests <- OrderUuids,
  goods <- [o \in OrderUuids |-> IF taken[o] = 0 THEN "shelf" ELSE "out"],
  outcome <- [o \in OrderUuids |->
                CASE pc[o] \in {"answering", "done"} -> "placed"
                  [] pc[o] \in {"deletingLines", "deletingOrder", "failed"} -> "refused"
                  [] OTHER -> "open"],
  misled <- {o \in OrderUuids : gone[o] \/ "transport" \in struck[o]}

PromiseKept == Promise!Spec

\* Its safety part: goods are taken only for a request that is open, a request is
\* placed only with its goods out and refused only with its goods on the shelf,
\* and neither is ever undone.
PromiseSafe == Promise!Safety

\* The inductive invariant behind these: what a stream's step says of the mutex,
\* of SMS's reply and ledger, and of how much of the order is in the tables.  It
\* holds of every stream, also when its handler has failed, or is dead and SMS
\* has yet to answer it.
HolderInside == \A o \in OrderUuids : pc[o] \in Locked <=> holder = o

Present(o) == {l.product : l \in RowsOf(o)}

\* The lines of order o are the first n its client asked for, of n products.
LinesUpTo(o, n) ==
  /\ IsFiniteSet(RowsOf(o)) /\ Cardinality(RowsOf(o)) = n
  /\ IsFiniteSet(Present(o)) /\ Cardinality(Present(o)) = n
  /\ \A i \in 1 .. n : \E l \in RowsOf(o) :
       /\ l.amount = cart[o][i].amount
       /\ product[l.product] # NoRow
       /\ product[l.product].code = cart[o][i].code

Ordered == {"creating", "adding", "asking", "confirming", "answering", "done",
            "deletingLines", "deletingOrder"}

StepMatchesOrder(o) ==
  /\ pc[o] \in Ordered => sent[o] = 2
  /\ pc[o] \in {"idle", "receiving", "locking", "freezing", "awaiting", "creating"} =>
       orders[o] = NoRow /\ RowsOf(o) = {}
  /\ pc[o] = "adding" =>
       orders[o] # NoRow /\ \E n \in 0 .. Len(cart[o]) - 1 : LinesUpTo(o, n)
  /\ pc[o] \in {"asking", "confirming", "answering", "done"} =>
       orders[o] # NoRow /\ Whole(o)
  /\ pc[o] = "deletingOrder" => RowsOf(o) = {}
  /\ pc[o] = "failed" /\ ~ gone[o] /\ struck[o] = {} =>
       orders[o] = NoRow /\ RowsOf(o) = {}

StepMatchesSms(o) ==
  /\ taken[o] = IF sms[o] = "accepted" THEN 1 ELSE 0
  /\ pc[o] \in {"idle", "receiving", "locking", "freezing"} => sms[o] = "none"
  /\ pc[o] \in {"awaiting", "creating", "adding", "asking"} => sms[o] \in {"none", "frozen"}
  /\ pc[o] \in {"answering", "done"} => sms[o] = "accepted"
  /\ sms[o] \in {"asked", "accepted"} /\ "transport" \notin struck[o] =>
       /\ orders[o] # NoRow /\ Whole(o)
       /\ \/ pc[o] \in {"confirming", "answering", "done", "dead"}
          \/ pc[o] \in {"deletingLines", "failed"} /\ gone[o]

Stream(o) == StepMatchesOrder(o) /\ StepMatchesSms(o)

Streams == HolderInside /\ \A o \in OrderUuids : Stream(o)

\* CreateNakedOrder is commented "Create order with transaction": an order would
\* be seen with its lines or not at all.
OrdersAppearWhole ==
  \A o \in OrderUuids : orders[o] # NoRow => Whole(o)
=============================================================================
