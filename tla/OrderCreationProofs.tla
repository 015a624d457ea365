------------------------- MODULE OrderCreationProofs -------------------------
(***************************************************************************)
(* What the handlers of OrderCreation guarantee for any number of          *)
(* requests, any catalogue, any carts and any set of fault kinds.          *)
(***************************************************************************)
EXTENDS OrderCostProofs

\* The inductive invariant: the types, the phase every request is in, and how
\* much of its order is there.
IInv == TypeOK /\ Phases /\ Assembly

LEMMA InitIInv == Init => IInv
<1> SUFFICES ASSUME Init PROVE IInv
  OBVIOUS
<1>1. TypeOK /\ Phases
  BY CreationAssumption, TablesAssumption
  DEF Init, TypeOK, TablesTypeOK, Phases, Phase, CallMatchesLedger, StepMatchesCall,
      StepMatchesLedger, StepMatchesOrder, StepMatchesLines, Steps, Ended, InTransaction, Calls
<1>2. Assembly
  <2> SUFFICES ASSUME NEW o \in OrderUuids PROVE Assembled(o)
    BY DEF Assembly
  <2>1. /\ pc[o] = "idle" /\ cart[o] = <<>> /\ priced[o] = <<>> /\ pending[o] = <<>>
        /\ summed[o] = 0 /\ orders[o] = NoRow /\ RowsOf(o) = {}
    BY DEF Init, RowsOf
  <2>2. Range(pending[o]) = {} /\ Len(<<>>) = 0 /\ DOMAIN (<<>>) = {}
    BY <2>1 DEF Range
  <2>3. PricedAsAsked(o) /\ PendingAsPriced(o)
    BY <2>1, <2>2 DEF PricedAsAsked, PendingAsPriced, Unplaced, InTransaction
  <2>4. CostAsLines(o) /\ Complete(o)
    BY <2>1, <2>2, CostOfNone DEF CostAsLines, Complete
  <2> QED
    BY <2>1, <2>3, <2>4 DEF Assembled
<1> QED
  BY <1>1, <1>2 DEF IInv

-----------------------------------------------------------------------------
(* Types *)

\* A line made of a priced item and an existing product is a row of the table.
LEMMA NewLineType ==
  ASSUME NEW o \in OrderUuids, NEW line \in PricedItem, NEW u \in ProductUuids
  PROVE  NewLine(o, line, u) \in OrderProduct
  BY DEF NewLine, PricedItem, OrderProduct

\* An amount stays an integer, whatever int32 makes of it.
LEMMA Int32Type ==
  ASSUME NEW n \in Int
  PROVE  Int32(n) \in Int
  BY AmountAssumption DEF Int32

\* The next line to insert is one of those that were priced.
LEMMA NextLineType ==
  ASSUME TypeOK, NEW o \in OrderUuids, Phase(o), pc[o] \in {"looking", "inserting"}
  PROVE  NextLine(o) \in PricedItem
<1>1. priced[o] \in Seq(PricedItem) /\ pending[o] \in Seq(OrderProduct)
  BY DEF TypeOK
<1>2. Len(pending[o]) + 1 \in 1 .. Len(priced[o])
  BY <1>1 DEF Phase, StepMatchesLines
<1> QED
  BY <1>1, <1>2 DEF NextLine

\* The lines COMMIT publishes are rows of the table.
LEMMA PublishType ==
  ASSUME TypeOK, NEW o \in OrderUuids, Publish(o)
  PROVE  TablesTypeOK'
<1>1. Range(pending[o]) \subseteq OrderProduct
  BY DEF TypeOK, Range
<1> QED
  BY <1>1 DEF Publish, TypeOK, TablesTypeOK

\* So is what an error return assigns.
LEMMA AbortType ==
  ASSUME TypeOK, NEW o \in OrderUuids, Abort(o)
  PROVE  /\ pc' \in [OrderUuids -> Steps] /\ call' \in [OrderUuids -> Calls]
         /\ pending' \in [OrderUuids -> Seq(OrderProduct)] /\ summed' \in [OrderUuids -> Int]
<1>1. <<>> \in Seq(OrderProduct)
  OBVIOUS
<1>2. pending' \in [OrderUuids -> Seq(OrderProduct)]
  BY <1>1 DEF TypeOK, Abort
<1>3. summed' \in [OrderUuids -> Int]
  BY DEF TypeOK, Abort
<1>4. pc' \in [OrderUuids -> Steps] /\ call' \in [OrderUuids -> Calls]
  BY DEF TypeOK, Abort, GoTo, Call, Steps, Calls, Ended
<1> QED
  BY <1>2, <1>3, <1>4

\* Every step keeps the types.
LEMMA TypeStep == IInv /\ [Next]_vars => TypeOK'
<1> SUFFICES ASSUME TypeOK, Phases, [Next]_vars PROVE TypeOK'
  BY DEF IInv
<1> USE DEF TypeOK, TablesTypeOK, GoTo, Call, Strike, handlerVars, smsVars, ledgerVars, tableVars,
            Steps, Calls, Ended, InTransaction
<1>1. CASE UNCHANGED vars
  BY <1>1 DEF vars
<1>2. ASSUME NEW o \in OrderUuids, NEW c \in Carts, Receive(o, c) PROVE TypeOK'
  BY <1>2 DEF Receive
<1>3. ASSUME NEW o \in OrderUuids, Handle(o) PROVE TypeOK'
  <2>1. CASE ValidateItem(o)
    <3> DEFINE item == cart[o][Len(priced[o]) + 1]
    <3>1. cart[o] \in Seq(Item) /\ priced[o] \in Seq(PricedItem)
      BY CreationAssumption
    <3>2. item \in Item
      BY <2>1, <3>1 DEF ValidateItem
    <3>3. CASE RowsWithCode(item.code) = {}
      BY <2>1, <3>3 DEF ValidateItem
    <3>4. ASSUME NEW u \in RowsWithCode(item.code),
                 priced' = [priced EXCEPT ![o] = Append(@,
                   [code |-> item.code, price |-> product[u].cost,
                    amount |-> Int32(item.amount)])],
                 total' = [total EXCEPT ![o] = @ + product[u].cost * item.amount],
                 UNCHANGED pc
          PROVE  TypeOK'
      <4>1. product[u] \in ProductRow
        BY DEF RowsWithCode
      <4>2. product[u].cost \in Prices /\ product[u].cost \in Int
        BY <4>1, TablesAssumption DEF ProductRow
      <4>3. [code |-> item.code, price |-> product[u].cost, amount |-> Int32(item.amount)]
              \in PricedItem
        BY <3>2, <4>2, Int32Type DEF Item, PricedItem
      <4>4. product[u].cost * item.amount \in Int
        BY <3>2, <4>2 DEF Item
      <4>5. priced' \in [OrderUuids -> Seq(PricedItem)]
        BY <3>1, <3>4, <4>3
      <4>6. total' \in [OrderUuids -> Int]
        BY <3>4, <4>4
      <4> QED
        BY <2>1, <3>4, <4>5, <4>6 DEF ValidateItem
    <3> QED
      BY <2>1, <3>3, <3>4 DEF ValidateItem
  <2>2. CASE FinishValidation(o)
    BY <2>2 DEF FinishValidation
  <2>3. CASE RemoveReply(o)
    BY <2>3 DEF RemoveReply
  <2>4. CASE OpenTransaction(o)
    BY <2>4, AbortType DEF OpenTransaction
  <2>5. CASE LookUpProduct(o)
    BY <2>5, AbortType DEF LookUpProduct
  <2>6. CASE InsertLine(o)
    <3> DEFINE line == NextLine(o)
    <3>1. line \in PricedItem
      BY <2>6, NextLineType DEF InsertLine, Phases
    <3>2. CASE Abort(o)
      BY <2>6, <3>2, AbortType DEF InsertLine
    <3>3. ASSUME NEW u \in ProductUuids,
                 pending' = [pending EXCEPT ![o] = Append(@, NewLine(o, line, u))],
                 summed' = [summed EXCEPT ![o] = @ + line.price * line.amount],
                 pc' = [pc EXCEPT ![o] = IF Len(pending[o]) + 1 = Len(priced[o])
                                           THEN "checking" ELSE "looking"],
                 UNCHANGED call
          PROVE  TypeOK'
      <4>1. NewLine(o, line, u) \in OrderProduct
        BY <3>1, NewLineType
      <4>2. pending' \in [OrderUuids -> Seq(OrderProduct)]
        BY <3>3, <4>1
      <4>3. line.price * line.amount \in Int
        <5>1. line.price \in Int /\ line.amount \in Int
          BY <3>1, TablesAssumption DEF PricedItem
        <5> QED
          BY <5>1
      <4>4. summed' \in [OrderUuids -> Int]
        BY <3>3, <4>3
      <4> QED
        BY <2>6, <3>3, <4>2, <4>4 DEF InsertLine
    <3> QED
      BY <2>6, <3>2, <3>3 DEF InsertLine, Addable, RowsWithCode
  <2>7. CASE CheckTotal(o)
    BY <2>7, AbortType DEF CheckTotal
  <2>8. CASE Commit(o)
    BY <2>8, PublishType DEF Commit
  <2>9. CASE ReadBack(o)
    BY <2>9 DEF ReadBack
  <2>10. CASE Compensated(o)
    BY <2>10 DEF Compensated
  <2> QED
    BY <1>3, <2>1, <2>2, <2>3, <2>4, <2>5, <2>6, <2>7, <2>8, <2>9, <2>10 DEF Handle
<1>4. ASSUME NEW o \in OrderUuids, SmsServe(o) PROVE TypeOK'
  <2>1. call' \in [OrderUuids -> Calls]
    BY <1>4 DEF SmsServe, SmsRemove, SmsWriteOn, Answer
  <2>2. taken' \in [OrderUuids -> Nat] /\ returned' \in [OrderUuids -> Nat]
    <3>1. CASE SmsRemove(o)
      <4>1. taken[o] + 1 \in Nat
        OBVIOUS
      <4> QED
        BY <3>1, <4>1 DEF SmsRemove
    <3>2. CASE SmsWriteOn(o)
      <4>1. returned[o] + 1 \in Nat
        OBVIOUS
      <4> QED
        BY <3>2, <4>1 DEF SmsWriteOn
    <3> QED
      BY <1>4, <3>1, <3>2 DEF SmsServe
  <2> QED
    BY <1>4, <2>1, <2>2 DEF SmsServe, SmsRemove, SmsWriteOn
<1>5. ASSUME NEW o \in OrderUuids, Fail(o) PROVE TypeOK'
  <2>1. CASE StatementFails(o)
    BY <2>1, AbortType DEF StatementFails
  <2>2. CASE CommitAckLost(o)
    BY <2>2, PublishType, AbortType DEF CommitAckLost
  <2>3. CASE ReadBackFails(o)
    BY <2>3, AbortType DEF ReadBackFails
  <2>4. CASE TransportError(o)
    BY <2>4 DEF TransportError
  <2> QED
    BY <1>5, <2>1, <2>2, <2>3, <2>4 DEF Fail
<1>6. CASE Crash
  BY <1>6 DEF Crash
<1>7. CASE ChangeCatalogue
  <2>1. ASSUME NEW u \in ProductUuids, NEW c \in Codes, NEW cost \in Prices,
               CreateProduct(u, c, cost)
        PROVE  TypeOK'
    <3>1. [code |-> c, cost |-> cost] \in ProductRow
      BY DEF ProductRow
    <3> QED
      BY <1>7, <2>1, <3>1 DEF ChangeCatalogue, CreateProduct
  <2>2. ASSUME NEW u \in ProductUuids, DeleteProduct(u, Locked) PROVE TypeOK'
    BY <1>7, <2>2 DEF ChangeCatalogue, DeleteProduct
  <2> QED
    BY <1>7, <2>1, <2>2 DEF ChangeCatalogue
<1> QED
  BY <1>1, <1>2, <1>3, <1>4, <1>5, <1>6, <1>7 DEF Next, ReceiveRest, ReceiveGrpc

-----------------------------------------------------------------------------
(* Phases *)

\* A step that does not touch request p leaves its phase alone.
LEMMA PhaseFrame ==
  ASSUME NEW p \in OrderUuids, Phase(p),
         pc'[p] = pc[p], call'[p] = call[p], orders'[p] = orders[p],
         taken'[p] = taken[p], returned'[p] = returned[p], struck'[p] = struck[p],
         pending'[p] = pending[p], priced'[p] = priced[p]
  PROVE  Phase(p)'
  BY DEF Phase, CallMatchesLedger, StepMatchesCall, StepMatchesLedger,
         StepMatchesOrder, StepMatchesLines

\* What the loop's second half does, except for the line it adds.
LEMMA InsertLineMoves ==
  ASSUME TypeOK, NEW o \in OrderUuids, InsertLine(o)
  PROVE  /\ pc[o] = "inserting"
         /\ UNCHANGED <<cart, priced, total, taken, returned, struck, product, orders, orderProducts>>
         /\ \A p \in OrderUuids \ {o} :
              pc'[p] = pc[p] /\ call'[p] = call[p] /\ pending'[p] = pending[p]
         /\ pc'[o] = "failed" => o \notin Sagas
<1>t. /\ pc \in [OrderUuids -> Steps] /\ call \in [OrderUuids -> Calls]
      /\ pending \in [OrderUuids -> Seq(OrderProduct)]
  BY DEF TypeOK
<1>1. /\ pc[o] = "inserting"
      /\ UNCHANGED <<cart, priced, total, taken, returned, struck, product, orders, orderProducts>>
  BY DEF InsertLine, ledgerVars, tableVars
<1>2. ASSUME NEW x
      PROVE  /\ pc' = [pc EXCEPT ![o] = x] => pc'[o] = x /\ \A p \in OrderUuids \ {o} : pc'[p] = pc[p]
             /\ call' = [call EXCEPT ![o] = x] => \A p \in OrderUuids \ {o} : call'[p] = call[p]
             /\ pending' = [pending EXCEPT ![o] = x] => \A p \in OrderUuids \ {o} : pending'[p] = pending[p]
  BY <1>t
<1> DEFINE Others == \A p \in OrderUuids \ {o} :
                       pc'[p] = pc[p] /\ call'[p] = call[p] /\ pending'[p] = pending[p]
           Ends == pc'[o] = "failed" => o \notin Sagas
<1>3. CASE Abort(o)
  <2>1. \A p \in OrderUuids \ {o} : pending'[p] = pending[p]
    BY <1>2, <1>3 DEF Abort
  <2>2. \A p \in OrderUuids \ {o} : call'[p] = call[p]
    BY <1>2, <1>3 DEF Abort, Call
  <2>3. CASE o \in Sagas
    <3>1. pc' = [pc EXCEPT ![o] = "compensating"]
      BY <1>3, <2>3 DEF Abort, GoTo
    <3>2. pc'[o] = "compensating" /\ \A p \in OrderUuids \ {o} : pc'[p] = pc[p]
      BY <1>2, <3>1
    <3> QED
      BY <1>1, <2>1, <2>2, <3>2
  <2>4. CASE o \notin Sagas
    <3>1. pc' = [pc EXCEPT ![o] = "failed"]
      BY <1>3, <2>4 DEF Abort, GoTo
    <3>2. \A p \in OrderUuids \ {o} : pc'[p] = pc[p]
      BY <1>2, <3>1
    <3> QED
      BY <1>1, <2>1, <2>2, <2>4, <3>2
  <2> QED
    BY <2>3, <2>4
<1>4. ASSUME NEW ls, pending' = [pending EXCEPT ![o] = ls], UNCHANGED call,
             GoTo(o, IF Len(pending[o]) + 1 = Len(priced[o]) THEN "checking" ELSE "looking")
      PROVE  Others /\ Ends
  <2> DEFINE step == IF Len(pending[o]) + 1 = Len(priced[o]) THEN "checking" ELSE "looking"
  <2>1. step # "failed" /\ pc' = [pc EXCEPT ![o] = step]
    BY <1>4 DEF GoTo
  <2> HIDE DEF step
  <2>2. pc'[o] = step /\ \A p \in OrderUuids \ {o} : pc'[p] = pc[p]
    BY <1>2, <2>1
  <2>3. \A p \in OrderUuids \ {o} : pending'[p] = pending[p] /\ call'[p] = call[p]
    BY <1>2, <1>4
  <2> QED
    BY <2>1, <2>2, <2>3
<1> HIDE DEF Others, Ends
<1>5. CASE ~ Abort(o)
  <2> DEFINE Adds(u) == Append(pending[o], NewLine(o, NextLine(o), u))
  <2>1. PICK u \in ProductUuids :
          /\ pending' = [pending EXCEPT ![o] = Adds(u)] /\ UNCHANGED call
          /\ GoTo(o, IF Len(pending[o]) + 1 = Len(priced[o]) THEN "checking" ELSE "looking")
    BY <1>5 DEF InsertLine, Addable, RowsWithCode
  <2> HIDE DEF Adds
  <2>2. Others /\ Ends
    BY <1>4, <2>1, Zenon
  <2> QED
    BY <1>1, <2>2 DEF Others, Ends
<1> QED
  BY <1>3, <1>5

\* A step of request o is no step of request p.
RequestStep(o) ==
  \/ \E c \in Carts : Receive(o, c)
  \/ Handle(o) \/ SmsServe(o) \/ Fail(o)

LEMMA OthersUnchanged ==
  ASSUME TypeOK, NEW o \in OrderUuids, NEW p \in OrderUuids \ {o}, RequestStep(o)
  PROVE  /\ pc'[p] = pc[p] /\ call'[p] = call[p] /\ orders'[p] = orders[p]
         /\ taken'[p] = taken[p] /\ returned'[p] = returned[p] /\ struck'[p] = struck[p]
         /\ pending'[p] = pending[p] /\ priced'[p] = priced[p]
<1> USE DEF TypeOK, TablesTypeOK, GoTo, Call, Strike, Abort, handlerVars, smsVars, ledgerVars, tableVars
<1>1. CASE \E c \in Carts : Receive(o, c)
  BY <1>1 DEF Receive
<1>2. CASE Handle(o)
  <2>1. CASE ValidateItem(o)
    <3>1. UNCHANGED <<call, taken, returned, struck, pending, orders>>
      BY <2>1 DEF ValidateItem
    <3>2. pc'[p] = pc[p] /\ priced'[p] = priced[p]
      BY <2>1 DEF ValidateItem
    <3> QED
      BY <3>1, <3>2
  <2>5. CASE FinishValidation(o) \/ RemoveReply(o)
    BY <2>5 DEF FinishValidation, RemoveReply
  <2>2. CASE OpenTransaction(o) \/ LookUpProduct(o)
    BY <2>2 DEF OpenTransaction, LookUpProduct
  <2>3. CASE InsertLine(o)
    BY <2>3, InsertLineMoves
  <2>4. CASE CheckTotal(o) \/ Commit(o) \/ ReadBack(o) \/ Compensated(o)
    BY <2>4 DEF CheckTotal, Commit, Publish, ReadBack, Compensated
  <2> QED
    BY <1>2, <2>1, <2>2, <2>3, <2>4, <2>5 DEF Handle
<1>3. CASE SmsServe(o)
  BY <1>3 DEF SmsServe, SmsRemove, SmsWriteOn, Answer
<1>4. CASE Fail(o)
  BY <1>4 DEF Fail, StatementFails, CommitAckLost, Publish, ReadBackFails, TransportError
<1> QED
  BY <1>1, <1>2, <1>3, <1>4 DEF RequestStep

\* An error return of CreateWithProducts, or after it, ends the handler or
\* starts the compensation of a write-off that was applied.
LEMMA AbortPhase ==
  ASSUME TypeOK, NEW o \in OrderUuids, Phase(o), Abort(o),
         pc[o] \in {"opening", "readingBack"} \cup InTransaction,
         UNCHANGED <<taken, returned, priced>>,
         o \in Sagas /\ orders'[o] # NoRow => struck'[o] \cap {"commitAck", "readBack"} # {}
  PROVE  Phase(o)'
  BY DEF TypeOK, Abort, GoTo, Call, Phase, CallMatchesLedger, StepMatchesCall,
         StepMatchesLedger, StepMatchesOrder, StepMatchesLines, InTransaction

\* Every step keeps every request in a phase.
LEMMA PhaseStep == IInv /\ [Next]_vars => Phases'
<1> SUFFICES ASSUME TypeOK, Phases, [Next]_vars PROVE Phases'
  BY DEF IInv
<1> USE DEF Phase, CallMatchesLedger, StepMatchesCall, StepMatchesLedger,
            StepMatchesOrder, StepMatchesLines, InTransaction,
            GoTo, Call, Strike, handlerVars, smsVars, ledgerVars, tableVars
<1>1. CASE UNCHANGED vars
  BY <1>1 DEF vars, Phases
<1>2. ASSUME NEW o \in OrderUuids, \E c \in Carts : Receive(o, c) PROVE Phase(o)'
  <2>1. Phase(o) /\ pc[o] = "idle" /\ pc' = [pc EXCEPT ![o] = "validating"]
    BY <1>2 DEF Receive, Phases
  <2>2. UNCHANGED <<call, taken, returned, struck, pending, priced, orders>>
    BY <1>2 DEF Receive, tableVars
  <2> QED
    BY <2>1, <2>2 DEF TypeOK
<1>3. ASSUME NEW o \in OrderUuids, Handle(o) PROVE Phase(o)'
  <2> Phase(o)
    BY DEF Phases
  <2>1. CASE ValidateItem(o)
    BY <2>1 DEF ValidateItem, TypeOK, TablesTypeOK
  <2>2. CASE FinishValidation(o)
    BY <2>2 DEF FinishValidation, TypeOK, TablesTypeOK
  <2>3. CASE RemoveReply(o)
    BY <2>3 DEF RemoveReply, TypeOK, TablesTypeOK
  <2>4. CASE OpenTransaction(o)
    <3>1. CASE Abort(o)
      BY <2>4, <3>1, AbortPhase DEF OpenTransaction
    <3>2. CASE GoTo(o, "looking") /\ priced[o] # <<>> /\ UNCHANGED <<pending, summed, call>>
      BY <2>4, <3>2 DEF OpenTransaction, TypeOK, TablesTypeOK
    <3> QED
      BY <2>4, <3>1, <3>2 DEF OpenTransaction
  <2>5. CASE LookUpProduct(o)
    <3>1. CASE Abort(o)
      BY <2>5, <3>1, AbortPhase DEF LookUpProduct
    <3>2. CASE GoTo(o, "inserting") /\ UNCHANGED <<pending, summed, call>>
      BY <2>5, <3>2 DEF LookUpProduct, TypeOK, TablesTypeOK
    <3> QED
      BY <2>5, <3>1, <3>2 DEF LookUpProduct
  <2>6. CASE InsertLine(o)
    <3>1. CASE Abort(o)
      BY <2>6, <3>1, AbortPhase DEF InsertLine
    <3>2. ASSUME NEW l, pending' = [pending EXCEPT ![o] = Append(@, l)],
                 pc' = [pc EXCEPT ![o] = IF Len(pending[o]) + 1 = Len(priced[o])
                                           THEN "checking" ELSE "looking"],
                 UNCHANGED call
          PROVE  Phase(o)'
      BY <2>6, <3>2 DEF InsertLine, TypeOK, TablesTypeOK
    <3> QED
      BY <2>6, <3>1, <3>2 DEF InsertLine
  <2>7. CASE CheckTotal(o)
    <3>1. CASE Abort(o)
      BY <2>7, <3>1, AbortPhase DEF CheckTotal
    <3>2. CASE GoTo(o, "committing") /\ UNCHANGED <<pending, summed, call>>
      BY <2>7, <3>2 DEF CheckTotal, TypeOK, TablesTypeOK
    <3> QED
      BY <2>7, <3>1, <3>2 DEF CheckTotal
  <2>8. CASE Commit(o)
    BY <2>8 DEF Commit, Publish, TypeOK, TablesTypeOK
  <2>9. CASE ReadBack(o)
    BY <2>9 DEF ReadBack, TypeOK, TablesTypeOK
  <2>10. CASE Compensated(o)
    BY <2>10 DEF Compensated, TypeOK, TablesTypeOK
  <2> QED
    BY <1>3, <2>1, <2>2, <2>3, <2>4, <2>5, <2>6, <2>7, <2>8, <2>9, <2>10 DEF Handle
<1>4. ASSUME NEW o \in OrderUuids, SmsServe(o) PROVE Phase(o)'
  <2> Phase(o)
    BY DEF Phases
  <2>1. CASE SmsRemove(o)
    <3>1. taken[o] = 0 /\ returned[o] = 0 /\ pc[o] \in {"removing", "failed", "dead"}
      BY <2>1 DEF SmsRemove
    <3>2. CASE UNCHANGED taken /\ Answer(o, "removing", "removeErr")
      BY <2>1, <3>1, <3>2 DEF SmsRemove, Answer, TypeOK
    <3>3. CASE taken' = [taken EXCEPT ![o] = @ + 1] /\ Answer(o, "removing", "removeOk")
      <4>1. taken'[o] = 1
        BY <3>1, <3>3 DEF TypeOK
      <4> QED
        BY <2>1, <3>1, <3>3, <4>1 DEF SmsRemove, Answer, TypeOK
    <3> QED
      BY <2>1, <3>2, <3>3 DEF SmsRemove
  <2>2. CASE SmsWriteOn(o)
    <3>1. taken[o] = 1 /\ returned[o] = 0 /\ pc[o] \in {"compensating", "failed", "dead"}
      BY <2>2 DEF SmsWriteOn
    <3>2. returned'[o] = 1
      BY <2>2, <3>1 DEF SmsWriteOn, TypeOK
    <3> QED
      BY <2>2, <3>1, <3>2 DEF SmsWriteOn, Answer, TypeOK
  <2> QED
    BY <1>4, <2>1, <2>2 DEF SmsServe
<1>5. ASSUME NEW o \in OrderUuids, Fail(o) PROVE Phase(o)'
  <2> Phase(o)
    BY DEF Phases
  <2>1. CASE StatementFails(o)
    BY <2>1, AbortPhase DEF StatementFails, TypeOK, TablesTypeOK
  <2>2. CASE CommitAckLost(o)
    <3>1. "commitAck" \in struck'[o]
      BY <2>2 DEF CommitAckLost, TypeOK
    <3> QED
      BY <2>2, <3>1, AbortPhase DEF CommitAckLost
  <2>3. CASE ReadBackFails(o)
    <3>1. "readBack" \in struck'[o]
      BY <2>3 DEF ReadBackFails, TypeOK
    <3> QED
      BY <2>3, <3>1, AbortPhase DEF ReadBackFails
  <2>4. CASE TransportError(o)
    BY <2>4 DEF TransportError, TypeOK, TablesTypeOK
  <2> QED
    BY <1>5, <2>1, <2>2, <2>3, <2>4 DEF Fail
<1>6. CASE Crash
  BY <1>6 DEF Crash, TypeOK, TablesTypeOK, Phases, Ended, Steps
<1>7. CASE ChangeCatalogue
  BY <1>7 DEF ChangeCatalogue, CreateProduct, DeleteProduct, Phases
<1> QED
  <2> SUFFICES ASSUME NEW p \in OrderUuids PROVE Phase(p)'
    BY DEF Phases
  <2>1. ASSUME NEW o \in OrderUuids, RequestStep(o) PROVE Phase(p)'
    <3>1. CASE p = o
      BY <2>1, <3>1, <1>2, <1>3, <1>4, <1>5 DEF RequestStep
    <3>2. CASE p # o
      <4>1. Phase(p)
        BY DEF Phases
      <4> QED
        BY <2>1, <3>2, <4>1, OthersUnchanged, PhaseFrame
    <3> QED
      BY <3>1, <3>2
  <2> QED
    BY <1>1, <1>6, <1>7, <2>1 DEF Next, ReceiveRest, ReceiveGrpc, RequestStep, Phases

-----------------------------------------------------------------------------
(* Assembly *)

\* The lines of order p, committed or not, and their products stay as they are.
LinesStand(p) ==
  /\ pending'[p] = pending[p] /\ RowsOf(p)' = RowsOf(p)
  /\ \A l \in RowsOf(p) \cup Range(pending[p]) :
       product[l.product] # NoRow => product'[l.product] = product[l.product]

LEMMA AssemblyFrame ==
  ASSUME NEW p \in OrderUuids, Assembled(p), LinesStand(p),
         pc'[p] = pc[p], cart'[p] = cart[p], priced'[p] = priced[p],
         total'[p] = total[p], summed'[p] = summed[p], orders'[p] = orders[p]
  PROVE  Assembled(p)'
<1>1. PricedAsAsked(p)'
  BY DEF Assembled, PricedAsAsked
<1>2. PendingAsPriced(p)'
  <2>1. \A i \in DOMAIN pending[p] : pending[p][i] \in Range(pending[p])
    BY DEF Range
  <2> QED
    BY <2>1 DEF Assembled, PendingAsPriced, LinesStand
<1>3. CostAsLines(p)' /\ Complete(p)'
  BY DEF Assembled, CostAsLines, Complete, HasItem, LinesStand
<1> QED
  BY <1>1, <1>2, <1>3 DEF Assembled

\* An order whose rows, cart and prices stay is as complete as it was.
LEMMA CompleteFrame ==
  ASSUME NEW o \in OrderUuids, Complete(o),
         cart'[o] = cart[o], orders'[o] = orders[o], UNCHANGED <<product, orderProducts>>,
         orders[o] # NoRow => priced'[o] = priced[o]
  PROVE  /\ Complete(o)' /\ RowsOf(o)' = RowsOf(o)
         /\ (orders[o] # NoRow => orders[o] = CostOf(RowsOf(o)))
              => (orders'[o] # NoRow => orders'[o] = CostOf(RowsOf(o)'))
  BY DEF Complete, HasItem, RowsOf

\* A request that is no longer on its way to COMMIT has no uncommitted lines.
LEMMA LeaveAssembly ==
  ASSUME TypeOK, NEW o \in OrderUuids, Assembled(o), pc'[o] \notin Unplaced, pending'[o] = <<>>,
         cart'[o] = cart[o], priced'[o] = priced[o], orders'[o] = orders[o],
         UNCHANGED <<product, orderProducts>>
  PROVE  Assembled(o)'
<1>1. Complete(o)' /\ CostAsLines(o)'
  BY CompleteFrame DEF Assembled, CostAsLines, Unplaced, InTransaction
<1>2. PricedAsAsked(o)'
  BY DEF Assembled, PricedAsAsked, Unplaced, InTransaction
<1>3. PendingAsPriced(o)'
  <2>1. Len(priced[o]) \in Nat
    BY DEF TypeOK
  <2> QED
    BY <2>1 DEF PendingAsPriced, Unplaced, InTransaction
<1> QED
  BY <1>1, <1>2, <1>3 DEF Assembled

\* The lines of a sequence are finitely many, and as many as its entries when no
\* two of them have the same product.
LEMMA LinesAreFinite ==
  ASSUME NEW s \in Seq(OrderProduct)
  PROVE  /\ IsFiniteSet(Range(s))
         /\ (\A i, j \in DOMAIN s : s[i].product = s[j].product => i = j)
              => Cardinality(Range(s)) = Len(s)
<1>1. DOMAIN s = 1 .. Len(s) /\ Len(s) \in Nat
  OBVIOUS
<1>2. IsFiniteSet(1 .. Len(s)) /\ Cardinality(1 .. Len(s)) = Len(s)
  BY <1>1, FS_Interval
<1>3. s \in Surjection(1 .. Len(s), Range(s))
  BY <1>1 DEF Surjection, Range
<1>4. IsFiniteSet(Range(s))
  BY <1>2, <1>3, FS_Surjection
<1>5. ASSUME \A i, j \in DOMAIN s : s[i].product = s[j].product => i = j
      PROVE  Cardinality(Range(s)) = Len(s)
  <2>1. s \in Injection(1 .. Len(s), Range(s))
    BY <1>1, <1>3, <1>5 DEF Injection, Surjection, IsInjective
  <2> QED
    BY <1>2, <1>3, <2>1, FS_Surjection
<1> QED
  BY <1>4, <1>5

\* A line more is pending, of a product that is not among the others.
LEMMA LineIsPending ==
  ASSUME TypeOK, NEW o \in OrderUuids, Phase(o), Assembled(o), pc[o] = "inserting",
         NEW u \in Addable(NextLine(o).code, {l.product : l \in Range(pending[o])}),
         pending' = [pending EXCEPT ![o] = Append(@, NewLine(o, NextLine(o), u))],
         summed' = [summed EXCEPT ![o] = @ + NextLine(o).price * NextLine(o).amount],
         GoTo(o, IF Len(pending[o]) + 1 = Len(priced[o]) THEN "checking" ELSE "looking"),
         UNCHANGED <<cart, priced, product>>
  PROVE  /\ PendingAsPriced(o)'
         /\ summed'[o] = CostOf(Range(pending'[o]))
<1> DEFINE n == Len(pending[o])
           line == NextLine(o)
           new == NewLine(o, line, u)
<1>1. /\ pending[o] \in Seq(OrderProduct) /\ priced[o] \in Seq(PricedItem)
      /\ n < Len(priced[o]) /\ n \in Nat /\ Len(priced[o]) \in Nat
  BY DEF TypeOK, Phase, StepMatchesLines
<1>2. new.order = o /\ new.product = u /\ new.price = line.price /\ new.amount = line.amount
  BY DEF NewLine
<1>3. /\ product[u] # NoRow /\ product[u].code = line.code /\ u \in ProductUuids
      /\ \A l \in Range(pending[o]) : l.product # u
  BY DEF Addable, RowsWithCode
<1>4. line = priced[o][n + 1] /\ line \in PricedItem
  BY <1>1 DEF NextLine
<1>5. /\ pending'[o] = Append(pending[o], new) /\ DOMAIN pending'[o] = 1 .. n + 1
      /\ DOMAIN pending[o] = 1 .. n /\ Len(pending'[o]) = n + 1
      /\ pending'[o][n + 1] = new /\ \A i \in 1 .. n : pending'[o][i] = pending[o][i]
  <2>1. pending'[o] = Append(pending[o], new)
    BY DEF TypeOK
  <2>2. new \in OrderProduct
    BY <1>3, <1>4, NewLineType
  <2> HIDE DEF new
  <2> QED
    BY <1>1, <2>1, <2>2
<1>6. \A i \in 1 .. n : pending[o][i] \in Range(pending[o])
  BY <1>5 DEF Range
<1> HIDE DEF new, line
<1>7. PendingAsPriced(o)'
  <2>1. pc'[o] \in {"checking", "committing"} => n + 1 = Len(priced[o])
    BY DEF TypeOK, GoTo
  <2>2. ASSUME NEW i \in 1 .. n + 1
        PROVE  /\ pending'[o][i].order = o
               /\ pending'[o][i].price = priced[o][i].price
               /\ pending'[o][i].amount = priced[o][i].amount
               /\ product[pending'[o][i].product] # NoRow
               /\ product[pending'[o][i].product].code = priced[o][i].code
    <3>1. CASE i = n + 1
      BY <1>2, <1>3, <1>4, <1>5, <3>1
    <3>2. CASE i \in 1 .. n
      BY <1>5, <3>2 DEF Assembled, PendingAsPriced
    <3>3. i = n + 1 \/ i \in 1 .. n
      BY <1>1
    <3> QED
      BY <3>1, <3>2, <3>3
  <2>3. ASSUME NEW i \in 1 .. n + 1, NEW j \in 1 .. n + 1,
               pending'[o][i].product = pending'[o][j].product
        PROVE  i = j
    <3>1. CASE i \in 1 .. n /\ j \in 1 .. n
      <4>1. pending[o][i].product = pending[o][j].product
        BY <1>5, <2>3, <3>1
      <4> QED
        BY <1>5, <3>1, <4>1 DEF Assembled, PendingAsPriced
    <3>2. CASE i \in 1 .. n /\ j = n + 1
      BY <1>2, <1>3, <1>5, <1>6, <2>3, <3>2
    <3>3. CASE i = n + 1 /\ j \in 1 .. n
      BY <1>2, <1>3, <1>5, <1>6, <2>3, <3>3
    <3> QED
      BY <1>1, <3>1, <3>2, <3>3
  <2> QED
    BY <1>1, <1>5, <2>1, <2>2, <2>3 DEF PendingAsPriced
<1>8. summed'[o] = CostOf(Range(pending'[o]))
  <2>1. Range(pending'[o]) = Range(pending[o]) \cup {new}
    BY <1>1, <1>5 DEF Range
  <2>2. IsFiniteSet(Range(pending[o]))
    BY <1>1, LinesAreFinite
  <2>3. new \notin Range(pending[o])
    BY <1>2, <1>3
  <2>4. \A k \in Range(pending[o]) \cup {new} : k.price \in Int /\ k.amount \in Int
    <3>1. \A k \in Range(pending[o]) : k \in OrderProduct
      BY <1>1 DEF Range
    <3> QED
      BY <1>2, <1>4, <3>1, TablesAssumption DEF OrderProduct, PricedItem
  <2>5. CostOf(Range(pending[o]) \cup {new}) = CostOf(Range(pending[o])) + new.price * new.amount
    BY <2>2, <2>3, <2>4, CostOfAdd
  <2>6. summed[o] = CostOf(Range(pending[o]))
    BY DEF Assembled, CostAsLines, Unplaced, InTransaction
  <2>7. summed'[o] = summed[o] + line.price * line.amount
    BY DEF TypeOK, line
  <2> QED
    BY <1>2, <2>1, <2>5, <2>6, <2>7
<1> QED
  BY <1>7, <1>8

\* COMMIT shows the pending lines, which are those of the whole cart.
LEMMA PublishCompletes ==
  ASSUME TypeOK, NEW o \in OrderUuids, Assembled(o), pc[o] = "committing", Publish(o),
         UNCHANGED <<cart, priced>>
  PROVE  /\ Complete(o)'
         /\ orders'[o] # NoRow /\ orders'[o] = CostOf(RowsOf(o)')
<1> DEFINE n == Len(pending[o])
<1>a. PricedAsAsked(o) /\ PendingAsPriced(o) /\ CostAsLines(o) /\ Complete(o) /\ orders[o] = NoRow
  BY DEF Assembled, Unplaced, InTransaction
<1>1. /\ pending[o] \in Seq(OrderProduct) /\ DOMAIN pending[o] = 1 .. n
      /\ n = Len(priced[o]) /\ n = Len(cart[o]) /\ DOMAIN cart[o] = 1 .. n
      /\ priced[o] # <<>> /\ DOMAIN priced[o] = 1 .. n
  <2>1. pending[o] \in Seq(OrderProduct) /\ cart[o] \in Seq(Item) /\ priced[o] \in Seq(PricedItem)
    BY CreationAssumption DEF TypeOK
  <2> QED
    BY <1>a, <2>1 DEF PricedAsAsked, PendingAsPriced, Unplaced, InTransaction
<1>2. RowsOf(o)' = Range(pending[o])
  <2>1. RowsOf(o) = {}
    BY <1>a DEF Complete
  <2>2. \A l \in Range(pending[o]) : l.order = o
    BY <1>a DEF PendingAsPriced, Range
  <2> QED
    BY <2>1, <2>2 DEF Publish, RowsOf
<1>3. Cardinality(RowsOf(o)') = n
  <2>1. \A i, j \in DOMAIN pending[o] : pending[o][i].product = pending[o][j].product => i = j
    BY <1>a DEF PendingAsPriced
  <2> QED
    BY <1>1, <1>2, <2>1, LinesAreFinite
<1>4. ASSUME NEW i \in 1 .. n PROVE HasItem(o, i)'
  <2>1. pending[o][i] \in RowsOf(o)'
    BY <1>1, <1>2 DEF Range
  <2>2. /\ pending[o][i].price = priced[o][i].price
        /\ pending[o][i].amount = Int32(cart[o][i].amount)
        /\ product[pending[o][i].product] # NoRow
        /\ product[pending[o][i].product].code = cart[o][i].code
    BY <1>a, <1>1 DEF PendingAsPriced, PricedAsAsked
  <2> QED
    BY <2>1, <2>2 DEF HasItem, Publish
<1>5. cart[o] # <<>>
  BY <1>1
<1>6. orders'[o] = total[o] /\ total[o] # NoRow
  BY TablesAssumption DEF Publish, TypeOK, TablesTypeOK
<1>7. total[o] = CostOf(Range(pending[o]))
  BY <1>a DEF CostAsLines, Unplaced, InTransaction
<1> QED
  BY <1>1, <1>2, <1>3, <1>4, <1>5, <1>6, <1>7 DEF Complete

\* A published request is assembled, also when it does not know.
LEMMA PublishAssembles ==
  ASSUME TypeOK, NEW o \in OrderUuids, Assembled(o), pc[o] = "committing", Publish(o),
         UNCHANGED <<cart, priced>>, pc'[o] \notin Unplaced, pending'[o] = <<>>
  PROVE  Assembled(o)'
<1>1. Complete(o)' /\ CostAsLines(o)'
  BY PublishCompletes DEF CostAsLines, Unplaced, InTransaction
<1>2. PricedAsAsked(o)'
  BY DEF Assembled, PricedAsAsked, Unplaced, InTransaction
<1>3. PendingAsPriced(o)'
  <2>1. Len(priced[o]) \in Nat
    BY DEF TypeOK
  <2> QED
    BY <2>1 DEF PendingAsPriced, Unplaced, InTransaction
<1> QED
  BY <1>1, <1>2, <1>3 DEF Assembled

\* A request on its way to COMMIT that changes neither its lines nor its sums.
LEMMA StayUnplaced ==
  ASSUME NEW o \in OrderUuids, Assembled(o), pc[o] \in Unplaced,
         cart'[o] = cart[o], pending'[o] = pending[o], summed'[o] = summed[o],
         priced'[o] = priced[o], UNCHANGED tableVars
  PROVE  Complete(o)' /\ orders'[o] = NoRow /\ RowsOf(o)' = RowsOf(o)
         /\ summed'[o] = CostOf(Range(pending'[o]))
  BY DEF Assembled, CostAsLines, Complete, RowsOf, tableVars

\* A request's own step assembles its order as the cart says.
LEMMA OwnAssembly ==
  ASSUME IInv, NEW o \in OrderUuids, RequestStep(o)
  PROVE  Assembled(o)'
<1>t. TypeOK /\ Phase(o) /\ Assembled(o)
  BY DEF IInv, Phases, Assembly
<1>d. /\ cart[o] \in Seq(Item) /\ priced[o] \in Seq(PricedItem)
      /\ pending[o] \in Seq(OrderProduct)
  BY <1>t, CreationAssumption DEF TypeOK
<1> USE <1>t
<1>1. ASSUME NEW c \in Carts, Receive(o, c) PROVE Assembled(o)'
  <2>1. /\ pc[o] = "idle" /\ pc'[o] = "validating" /\ priced[o] = <<>> /\ orders[o] = NoRow
        /\ UNCHANGED <<priced, pending, summed, total, product, orders, orderProducts>>
        /\ cart'[o] = c
    BY <1>1 DEF Receive, TypeOK, GoTo, smsVars, tableVars, Assembled, PricedAsAsked, Unplaced
  <2>2. c \in Seq(Item) /\ Len(<<>>) = 0 /\ DOMAIN (<<>>) = {} /\ Len(c) \in Nat
    BY CreationAssumption
  <2>3. PricedAsAsked(o)'
    BY <2>1, <2>2 DEF PricedAsAsked, Unplaced, InTransaction
  <2>4. PendingAsPriced(o)' /\ CostAsLines(o)' /\ Complete(o)'
    BY <2>1 DEF Assembled, PendingAsPriced, CostAsLines, Complete, RowsOf, Unplaced
  <2> QED
    BY <2>1, <2>3, <2>4 DEF Assembled
<1>2. CASE ValidateItem(o)
  <2>1. /\ pc[o] = "validating" /\ Len(priced[o]) < Len(cart[o]) /\ pending[o] = <<>>
        /\ pc'[o] \in {"validating", "failed"}
        /\ UNCHANGED <<cart, pending, summed, product, orders, orderProducts>>
    BY <1>2 DEF ValidateItem, TypeOK, GoTo, smsVars, tableVars, Phase, StepMatchesLines, InTransaction
  <2>2. orders[o] = NoRow /\ Complete(o)' /\ CostAsLines(o)'
    BY <2>1, CompleteFrame DEF Assembled, CostAsLines, Unplaced
  <2>3. PricedAsAsked(o)' /\ Len(priced'[o]) \in Nat
    <3>1. CASE UNCHANGED priced
      BY <1>d, <2>1, <3>1 DEF Assembled, PricedAsAsked, Unplaced, InTransaction
    <3>2. ASSUME NEW u, LET item == cart[o][Len(priced[o]) + 1] IN
                          priced' = [priced EXCEPT ![o] = Append(@,
                            [code |-> item.code, price |-> product[u].cost,
                             amount |-> Int32(item.amount)])]
          PROVE  PricedAsAsked(o)' /\ Len(priced'[o]) \in Nat
      <4> DEFINE n == Len(priced[o])
                 item == cart[o][n + 1]
                 line == [code |-> item.code, price |-> product[u].cost,
                          amount |-> Int32(item.amount)]
      <4>1. line.code = item.code /\ line.amount = Int32(item.amount)
        OBVIOUS
      <4>2. priced'[o] = Append(priced[o], line)
        BY <3>2 DEF TypeOK
      <4> HIDE DEF line
      <4>3. /\ n \in Nat /\ Len(priced'[o]) = n + 1 /\ DOMAIN priced'[o] = 1 .. n + 1
            /\ priced'[o][n + 1] = line /\ DOMAIN priced[o] = 1 .. n
            /\ \A i \in 1 .. n : priced'[o][i] = priced[o][i]
        BY <1>d, <4>2
      <4>4. ASSUME NEW i \in 1 .. n + 1
            PROVE  /\ priced'[o][i].code = cart[o][i].code
                   /\ priced'[o][i].amount = Int32(cart[o][i].amount)
        <5>1. i = n + 1 \/ i \in 1 .. n
          BY <4>3
        <5>2. CASE i = n + 1
          BY <4>1, <4>3, <5>2
        <5>3. CASE i \in 1 .. n
          BY <4>3, <5>3 DEF Assembled, PricedAsAsked
        <5> QED
          BY <5>1, <5>2, <5>3
      <4>5. Len(cart[o]) \in Nat /\ n + 1 <= Len(cart[o])
        BY <1>d, <2>1
      <4> QED
        BY <2>1, <4>3, <4>4, <4>5 DEF PricedAsAsked, Unplaced, InTransaction
    <3> QED
      BY <1>2, <3>1, <3>2 DEF ValidateItem
  <2>4. PendingAsPriced(o)'
    <3>1. Len(<<>>) = 0 /\ DOMAIN (<<>>) = {}
      OBVIOUS
    <3> QED
      BY <2>1, <2>3, <3>1 DEF PendingAsPriced
  <2> QED
    BY <2>1, <2>2, <2>3, <2>4 DEF Assembled
<1>3. CASE FinishValidation(o) \/ RemoveReply(o) \/ OpenTransaction(o) \/ LookUpProduct(o)
             \/ CheckTotal(o) \/ Compensated(o) \/ ReadBack(o) \/ StatementFails(o)
             \/ ReadBackFails(o) \/ TransportError(o)
  <2>1. /\ cart'[o] = cart[o] /\ priced'[o] = priced[o] /\ total'[o] = total[o]
        /\ orders'[o] = orders[o] /\ UNCHANGED <<product, orders, orderProducts>>
    BY <1>3 DEF FinishValidation, RemoveReply, OpenTransaction, LookUpProduct, CheckTotal, Compensated,
                ReadBack, StatementFails, ReadBackFails, TransportError, tableVars
  <2>2. pc'[o] \notin Unplaced /\ pending'[o] = <<>> => Assembled(o)'
    BY <2>1, LeaveAssembly
  <2>3. pc'[o] \in Unplaced \/ pending'[o] # <<>> =>
          /\ pc[o] \in Unplaced /\ pc'[o] \in Unplaced
          /\ pending'[o] = pending[o] /\ summed'[o] = summed[o]
          /\ PricedAsAsked(o)'
          /\ pc'[o] \in {"checking", "committing"} => pc[o] = "checking"
          /\ pc'[o] = "committing" => total[o] = summed[o]
    <3> USE <1>d DEF TypeOK, Phase, StepMatchesLines, Assembled, PricedAsAsked, Unplaced, InTransaction,
                     Abort, GoTo
    <3>1. CASE FinishValidation(o) \/ RemoveReply(o)
      BY <3>1 DEF FinishValidation, RemoveReply
    <3>2. CASE OpenTransaction(o) \/ LookUpProduct(o)
      BY <3>2 DEF OpenTransaction, LookUpProduct
    <3>3. CASE CheckTotal(o)
      BY <3>3 DEF CheckTotal, TotalDiffers
    <3>4. CASE Compensated(o) \/ ReadBack(o) \/ ReadBackFails(o) \/ TransportError(o)
      BY <3>4 DEF Compensated, ReadBack, ReadBackFails, TransportError
    <3>5. CASE StatementFails(o)
      BY <3>5 DEF StatementFails
    <3> QED
      BY <1>3, <3>1, <3>2, <3>3, <3>4, <3>5
  <2>4. ASSUME pc'[o] \in Unplaced \/ pending'[o] # <<>> PROVE Assembled(o)'
    <3>1. /\ Complete(o)' /\ orders'[o] = NoRow
          /\ summed'[o] = CostOf(Range(pending'[o]))
      BY <2>1, <2>3, <2>4, StayUnplaced DEF tableVars
    <3>2. CostAsLines(o)'
      BY <2>1, <2>3, <2>4, <3>1 DEF CostAsLines
    <3>3. PendingAsPriced(o)'
      BY <2>1, <2>3, <2>4 DEF Assembled, PendingAsPriced
    <3> QED
      BY <2>3, <2>4, <3>1, <3>2, <3>3 DEF Assembled
  <2> QED
    BY <2>2, <2>4
<1>4. CASE InsertLine(o)
  <2>1. /\ pc[o] = "inserting" /\ UNCHANGED <<cart, priced, total, product, orders, orderProducts>>
    BY <1>4 DEF InsertLine, tableVars
  <2>2. CASE Abort(o)
    <3>1. pc'[o] \notin Unplaced /\ pending'[o] = <<>>
      BY <2>2 DEF Abort, GoTo, TypeOK, Unplaced, InTransaction
    <3> QED
      BY <2>1, <3>1, LeaveAssembly
  <2>3. ASSUME NEW u \in Addable(NextLine(o).code, {l.product : l \in Range(pending[o])}),
               pending' = [pending EXCEPT ![o] = Append(@, NewLine(o, NextLine(o), u))],
               summed' = [summed EXCEPT ![o] = @ + NextLine(o).price * NextLine(o).amount],
               GoTo(o, IF Len(pending[o]) + 1 = Len(priced[o]) THEN "checking" ELSE "looking")
        PROVE  Assembled(o)'
    <3>1. PendingAsPriced(o)' /\ summed'[o] = CostOf(Range(pending'[o]))
      BY <2>1, <2>3, LineIsPending
    <3>2. pc'[o] \in {"checking", "looking"}
      BY <2>3 DEF GoTo, TypeOK
    <3>3. orders[o] = NoRow /\ Complete(o)'
      BY <2>1, CompleteFrame DEF Assembled, Unplaced, InTransaction
    <3>4. PricedAsAsked(o)'
      BY <2>1, <3>2 DEF Assembled, PricedAsAsked, Unplaced, InTransaction
    <3> QED
      BY <2>1, <3>1, <3>2, <3>3, <3>4 DEF Assembled, CostAsLines
  <2> QED
    BY <1>4, <2>2, <2>3 DEF InsertLine
<1>5. CASE Commit(o) \/ CommitAckLost(o)
  <2>1. /\ pc[o] = "committing" /\ Publish(o) /\ UNCHANGED <<cart, priced>>
        /\ pc'[o] \notin Unplaced /\ pending'[o] = <<>>
    BY <1>5 DEF Commit, CommitAckLost, Abort, GoTo, TypeOK, Unplaced, InTransaction
  <2> QED
    BY <2>1, PublishAssembles
<1>6. CASE SmsServe(o)
  <2>1. UNCHANGED <<pc, cart, priced, total, pending, summed, product, orders, orderProducts>>
    BY <1>6 DEF SmsServe, SmsRemove, SmsWriteOn, handlerVars, tableVars
  <2> QED
    BY <2>1, AssemblyFrame DEF LinesStand, RowsOf
<1> QED
  BY <1>1, <1>2, <1>3, <1>4, <1>5, <1>6 DEF RequestStep, Handle, Fail

\* A request's step leaves the lines of the others alone: what it publishes is its.
LEMMA OthersStand ==
  ASSUME IInv, NEW o \in OrderUuids, NEW p \in OrderUuids \ {o}, RequestStep(o)
  PROVE  /\ cart'[p] = cart[p] /\ total'[p] = total[p] /\ summed'[p] = summed[p]
         /\ LinesStand(p)
<1>1. TypeOK /\ Assembled(o)
  BY DEF IInv, Assembly
<1>2. /\ cart'[p] = cart[p] /\ total'[p] = total[p] /\ summed'[p] = summed[p]
      /\ UNCHANGED product
      /\ UNCHANGED orderProducts \/ (pc[o] = "committing" /\ Publish(o))
  <2> USE <1>1 DEF TypeOK, Abort, handlerVars, tableVars
  <2>1. CASE \E c \in Carts : Receive(o, c)
    BY <2>1 DEF Receive
  <2>2. CASE ValidateItem(o) \/ FinishValidation(o) \/ RemoveReply(o)
    BY <2>2 DEF ValidateItem, FinishValidation, RemoveReply
  <2>3. CASE OpenTransaction(o) \/ LookUpProduct(o) \/ InsertLine(o) \/ CheckTotal(o)
    BY <2>3 DEF OpenTransaction, LookUpProduct, InsertLine, CheckTotal
  <2>4. CASE Commit(o) \/ CommitAckLost(o)
    BY <2>4 DEF Commit, CommitAckLost, Publish
  <2>5. CASE ReadBack(o) \/ Compensated(o) \/ SmsServe(o)
    BY <2>5 DEF ReadBack, Compensated, SmsServe, SmsRemove, SmsWriteOn
  <2>6. CASE StatementFails(o) \/ ReadBackFails(o) \/ TransportError(o)
    BY <2>6 DEF StatementFails, ReadBackFails, TransportError
  <2> QED
    BY <2>1, <2>2, <2>3, <2>4, <2>5, <2>6 DEF RequestStep, Handle, Fail
<1>3. RowsOf(p)' = RowsOf(p)
  <2>1. \A l \in Range(pending[o]) : l.order = o
    BY <1>1 DEF Assembled, PendingAsPriced, Range
  <2> QED
    BY <1>2, <2>1 DEF Publish, RowsOf
<1> QED
  BY <1>1, <1>2, <1>3, OthersUnchanged DEF LinesStand

\* No product of a line can be deleted: the foreign key keeps those of committed
\* lines, the share locks of an open transaction those of uncommitted ones.
LEMMA CatalogueStands ==
  ASSUME TypeOK, NEW p \in OrderUuids, ChangeCatalogue
  PROVE  LinesStand(p)
<1>1. UNCHANGED <<pending, orderProducts>>
  BY DEF ChangeCatalogue, CreateProduct, DeleteProduct, handlerVars
<1>2. ASSUME NEW l \in RowsOf(p) \cup Range(pending[p]), product[l.product] # NoRow
      PROVE  product'[l.product] = product[l.product]
  <2>1. l.product \in ProductUuids /\ (l \in orderProducts \/ l \in Range(pending[p]))
    <3>1. pending[p] \in Seq(OrderProduct)
      BY DEF TypeOK
    <3>2. Range(pending[p]) \subseteq OrderProduct
      BY <3>1 DEF Range
    <3> QED
      BY <3>2 DEF RowsOf, TypeOK, TablesTypeOK, OrderProduct
  <2>2. l \in Range(pending[p]) => l.product \in Locked
    BY DEF Locked
  <2>3. ASSUME NEW u \in ProductUuids, NEW c \in Codes, NEW cost \in Prices,
               CreateProduct(u, c, cost)
        PROVE  product'[l.product] = product[l.product]
    BY <1>2, <2>1, <2>3 DEF CreateProduct, TypeOK, TablesTypeOK
  <2>4. ASSUME NEW u \in ProductUuids, DeleteProduct(u, Locked)
        PROVE  product'[l.product] = product[l.product]
    BY <2>1, <2>2, <2>4 DEF DeleteProduct, TypeOK, TablesTypeOK
  <2> QED
    BY <2>3, <2>4 DEF ChangeCatalogue
<1> QED
  BY <1>1, <1>2 DEF LinesStand, RowsOf

\* Every step leaves every request's order assembled.
LEMMA AssemblyStep == IInv /\ [Next]_vars => Assembly'
<1> SUFFICES ASSUME IInv, [Next]_vars, NEW p \in OrderUuids PROVE Assembled(p)'
  BY DEF Assembly
<1>t. TypeOK /\ Phase(p) /\ Assembled(p)
  BY DEF IInv, Phases, Assembly
<1>1. CASE UNCHANGED vars
  BY <1>t, <1>1, AssemblyFrame DEF vars, LinesStand, RowsOf
<1>2. ASSUME NEW o \in OrderUuids, RequestStep(o) PROVE Assembled(p)'
  <2>1. CASE p = o
    BY <1>2, <2>1, OwnAssembly
  <2>2. CASE p # o
    BY <1>t, <1>2, <2>2, OthersUnchanged, OthersStand, AssemblyFrame
  <2> QED
    BY <2>1, <2>2
<1>3. CASE Crash
  <2>1. /\ UNCHANGED <<cart, priced, total, summed, product, orders, orderProducts>>
        /\ pending'[p] = <<>>
        /\ pc'[p] = pc[p] \/ pc'[p] = "dead"
        /\ pc[p] \in {"idle"} \cup Ended \/ pc'[p] = "dead"
    BY <1>3 DEF Crash, tableVars
  <2>2. CASE pc'[p] = "dead"
    BY <1>t, <2>1, <2>2, LeaveAssembly DEF Unplaced, InTransaction
  <2>3. CASE pc'[p] = pc[p] /\ pc'[p] # "dead"
    <3>1. pending[p] = <<>>
      BY <1>t, <2>1, <2>3 DEF Phase, StepMatchesLines, InTransaction, Ended
    <3> QED
      BY <1>t, <2>1, <2>3, <3>1, AssemblyFrame DEF LinesStand, RowsOf
  <2> QED
    BY <1>3, <2>2, <2>3 DEF Crash
<1>4. CASE ChangeCatalogue
  BY <1>t, <1>4, CatalogueStands, AssemblyFrame
     DEF ChangeCatalogue, CreateProduct, DeleteProduct, handlerVars
<1> QED
  BY <1>1, <1>2, <1>3, <1>4 DEF Next, ReceiveRest, ReceiveGrpc, RequestStep

LEMMA Invariance == Safety => []IInv
<1>1. Init => IInv
  BY InitIInv
<1>2. IInv /\ [Next]_vars => IInv'
  BY TypeStep, PhaseStep, AssemblyStep DEF IInv
<1> QED
  BY <1>1, <1>2, PTL DEF Safety

-----------------------------------------------------------------------------
(* Theorems *)

\* The variables keep their types, whatever requests, catalogue changes and
\* faults come (OrderCreation as a whole).
THEOREM TypesHold == Safety => []TypeOK
  BY Invariance, PTL DEF IInv

\* Every request stays in a phase: its step and its call to SMS agree with SMS's
\* ledger and with the order table (CreateSagaOrder and CreateWithProducts).
THEOREM PhasesHold == Safety => []Phases
  BY Invariance, PTL DEF IInv

\* No goods are written on that were not written off, and nothing is applied
\* twice, under any faults (the deferred call of CreateSagaOrder).
THEOREM NothingReturnedTwice == Safety => []ReturnedOnlyTaken
<1>1. IInv => ReturnedOnlyTaken
  BY DEF IInv, Phases, Phase, CallMatchesLedger, ReturnedOnlyTaken
<1> QED
  BY <1>1, Invariance, PTL

\* A saga that answers with an error has put back what it took, whatever struck
\* other requests, unless its own call to SMS failed without telling its effect.
THEOREM FailureLeavesNothingTaken == Safety => []NoStranding
<1>1. IInv => NoStranding
  BY CreationAssumption
  DEF IInv, Phases, Phase, StepMatchesLedger, NoStranding
<1> QED
  BY <1>1, Invariance, PTL

\* A saga's order in the database has its goods out of the warehouse, unless this
\* saga saw an error after its COMMIT had been applied.
THEOREM OrdersHaveTheirGoods == Safety => []NoGiveAway
<1>1. IInv => NoGiveAway
  BY CreationAssumption
  DEF IInv, Phases, Phase, StepMatchesLedger, StepMatchesOrder, NoGiveAway
<1> QED
  BY <1>1, Invariance, PTL

\* The lines of every order, from the first priced one to COMMIT, are the cart's with
\* amounts as an int32 keeps them, of products nobody can delete, and its cost is
\* theirs (validateOrderProducts, CreateWithProducts).
THEOREM AssemblyHolds == Safety => []Assembly
  BY Invariance, PTL DEF IInv

\* An order is seen with the lines its client asked for, at the validated prices and
\* with the amounts as an int32 keeps them, or not at all, whatever the catalogue and
\* the faults do (CreateWithProducts).
THEOREM OrdersAreComplete == Safety => []CompleteOrders
<1>1. IInv => CompleteOrders
  BY DEF IInv, Assembly, Assembled, CompleteOrders
<1> QED
  BY <1>1, Invariance, PTL

\* The cost of an order is the sum over the rows of its lines, summed in any
\* order (CreateWithProducts compares the totals before COMMIT).
THEOREM CostsMatchLines == Safety => []CostMatchesLines
<1>1. IInv => CostMatchesLines
  BY DEF IInv, Assembly, Assembled, CostAsLines, CostMatchesLines
<1> QED
  BY <1>1, Invariance, PTL

-----------------------------------------------------------------------------
(* The saga implements its promise *)

\* What one step may do to a request's goods and outcome, and what it may not
\* undo: that the request is misled.
Misled(o) == struck[o] # {}

PromiseStep(o) ==
  /\ Misled(o) => Misled(o)'
  /\ \/ GoodsOf(o)' = GoodsOf(o) /\ OutcomeOf(o)' = OutcomeOf(o)
     \/ /\ OutcomeOf(o) = "open" \/ Misled(o)'
        /\ OutcomeOf(o)' = OutcomeOf(o)
        /\ \/ GoodsOf(o) = "shelf" /\ GoodsOf(o)' = "out"
           \/ GoodsOf(o) = "out" /\ GoodsOf(o)' = "back"
     \/ /\ OutcomeOf(o) = "open" /\ GoodsOf(o)' = GoodsOf(o)
        /\ \/ GoodsOf(o) = "out" /\ OutcomeOf(o)' = "placed"
           \/ /\ GoodsOf(o) # "out" \/ Misled(o)'
              /\ OutcomeOf(o)' = "refused"

\* Such a step of one request is a step of the promise.
LEMMA PromiseOneStep ==
  ASSUME NEW o \in Sagas, PromiseStep(o),
         \A p \in Sagas \ {o} : /\ GoodsOf(p)' = GoodsOf(p) /\ OutcomeOf(p)' = OutcomeOf(p)
                               /\ struck'[p] = struck[p]
  PROVE  [Promise!Next]_(Promise!vars)
<1> DEFINE goods == [p \in Sagas |-> GoodsOf(p)]
           outcome == [p \in Sagas |-> OutcomeOf(p)]
           misled == {p \in Sagas : struck[p] # {}}
<1>1. goods' = [goods EXCEPT ![o] = GoodsOf(o)']
  OBVIOUS
<1>2. outcome' = [outcome EXCEPT ![o] = OutcomeOf(o)']
  OBVIOUS
<1>3. goods[o] = GoodsOf(o) /\ outcome[o] = OutcomeOf(o)
  OBVIOUS
<1>4. GoodsOf(o)' = GoodsOf(o) => goods' = goods
  BY <1>1
<1>5. OutcomeOf(o)' = OutcomeOf(o) => outcome' = outcome
  BY <1>2
<1>6. misled' = IF Misled(o)' THEN misled \cup {o} ELSE misled
  BY DEF PromiseStep, Misled
<1>7. Misled(o)' <=> o \in misled'
  BY DEF Misled
<1> HIDE DEF goods, outcome, misled
<1>8. PromiseStep(o) =>
        \/ goods' = goods /\ outcome' = outcome /\ misled' = misled
        \/ Promise!Take(o) \/ Promise!PutBack(o) \/ Promise!Place(o) \/ Promise!Refuse(o)
        \/ Promise!Mislead(o)
  BY <1>1, <1>2, <1>3, <1>4, <1>5, <1>6, <1>7
  DEF PromiseStep, Promise!Misleads, Promise!Take, Promise!PutBack, Promise!Place,
      Promise!Refuse, Promise!Mislead, goods, outcome, misled
<1> QED
  BY <1>8 DEF Promise!Next, Promise!vars, goods, outcome, misled

\* A step of a request is one, also when it loses a reply or an acknowledgement.
LEMMA RequestKeepsPromise ==
  ASSUME IInv, IInv', NEW o \in Sagas, RequestStep(o)
  PROVE  PromiseStep(o)
<1> o \in OrderUuids
  BY CreationAssumption
<1>p. Phase(o) /\ Phase(o)' /\ TypeOK /\ TypeOK'
  BY DEF IInv, Phases
<1> USE <1>p DEF Phase, CallMatchesLedger, StepMatchesCall, StepMatchesLedger,
            StepMatchesOrder, InTransaction, TypeOK, TablesTypeOK, GoTo, Call,
            Strike, handlerVars, smsVars, ledgerVars, tableVars, PromiseStep, Misled, GoodsOf, OutcomeOf
<1>1. CASE \E c \in Carts : Receive(o, c)
  BY <1>1 DEF Receive
<1>2. CASE Handle(o)
  <2>1. CASE ValidateItem(o) \/ FinishValidation(o)
    BY <2>1 DEF ValidateItem, FinishValidation
  <2>2. CASE RemoveReply(o) \/ Compensated(o)
    BY <2>2 DEF RemoveReply, Compensated
  <2>3. CASE OpenTransaction(o) \/ LookUpProduct(o) \/ CheckTotal(o)
    BY <2>3 DEF OpenTransaction, LookUpProduct, CheckTotal, Abort
  <2>4. CASE InsertLine(o)
    <3>1. pc[o] = "inserting" /\ UNCHANGED <<taken, returned, orders, struck>>
      BY <2>4, InsertLineMoves
    <3>2. pc'[o] # "failed"
      BY <2>4, InsertLineMoves DEF Abort
    <3>3. GoodsOf(o)' = GoodsOf(o) /\ OutcomeOf(o)' = OutcomeOf(o)
      BY <3>1, <3>2
    <3> QED
      BY <3>1, <3>3
  <2>5. CASE Commit(o)
    <3>1. total[o] # NoRow /\ orders'[o] = total[o]
      BY <2>5, TablesAssumption DEF Commit, Publish
    <3>2. /\ pc'[o] = "readingBack" /\ taken'[o] = taken[o]
          /\ returned'[o] = returned[o] /\ struck'[o] = struck[o]
      BY <2>5 DEF Commit
    <3>3. pc[o] = "committing" /\ orders[o] = NoRow /\ taken[o] = 1 /\ returned[o] = 0
      BY <2>5 DEF Commit
    <3> QED
      BY <3>1, <3>2, <3>3
  <2>6. CASE ReadBack(o)
    BY <2>6 DEF ReadBack
  <2> QED
    BY <1>2, <2>1, <2>2, <2>3, <2>4, <2>5, <2>6 DEF Handle
<1>3. CASE SmsServe(o)
  <2>1. CASE SmsRemove(o)
    BY <2>1 DEF SmsRemove
  <2>2. CASE SmsWriteOn(o)
    BY <2>2 DEF SmsWriteOn
  <2> QED
    BY <1>3, <2>1, <2>2 DEF SmsServe
<1>4. CASE Fail(o)
  <2>1. CASE StatementFails(o)
    BY <2>1 DEF StatementFails, Abort
  <2>2. CASE CommitAckLost(o)
    <3>1. total[o] # NoRow /\ orders'[o] = total[o]
      BY <2>2, TablesAssumption DEF CommitAckLost, Publish
    <3>2. pc'[o] = "compensating" /\ taken'[o] = taken[o] /\ returned'[o] = returned[o]
      BY <2>2 DEF CommitAckLost, Abort
    <3>3. pc[o] = "committing" /\ orders[o] = NoRow /\ taken[o] = 1 /\ returned[o] = 0
      BY <2>2 DEF CommitAckLost
    <3>4. struck'[o] # {}
      BY <2>2 DEF CommitAckLost
    <3> QED
      BY <3>1, <3>2, <3>3, <3>4
  <2>3. CASE ReadBackFails(o)
    BY <2>3 DEF ReadBackFails, Abort
  <2>4. CASE TransportError(o)
    BY <2>4 DEF TransportError
  <2> QED
    BY <1>4, <2>1, <2>2, <2>3, <2>4 DEF Fail
<1> QED
  BY <1>1, <1>2, <1>3, <1>4 DEF RequestStep

\* Whatever fails, CreateSagaOrder does to goods and orders what OrderPromise
\* promises and nothing else: only a request that was itself told something untrue
\* may end with the two apart, and its goods too move one way only.
THEOREM SagaKeepsPromise == Safety => PromiseSafe
<1>1. Init => Promise!Init
  BY CreationAssumption DEF Init, Promise!Init, GoodsOf, OutcomeOf
<1>2. IInv /\ IInv' /\ [Next]_vars => [Promise!Next]_(Promise!vars)
  <2> SUFFICES ASSUME IInv, IInv', [Next]_vars PROVE [Promise!Next]_(Promise!vars)
    OBVIOUS
  <2>1. ASSUME \A p \in Sagas : /\ GoodsOf(p)' = GoodsOf(p) /\ OutcomeOf(p)' = OutcomeOf(p)
                              /\ struck'[p] = struck[p]
        PROVE  [Promise!Next]_(Promise!vars)
    BY <2>1 DEF Promise!vars
  <2>2. CASE UNCHANGED vars
    BY <2>1, <2>2 DEF vars, GoodsOf, OutcomeOf
  <2>3. ASSUME NEW o \in OrderUuids, RequestStep(o) PROVE [Promise!Next]_(Promise!vars)
    <3>1. \A p \in Sagas \ {o} : /\ GoodsOf(p)' = GoodsOf(p) /\ OutcomeOf(p)' = OutcomeOf(p)
                                /\ struck'[p] = struck[p]
      BY <2>3, OthersUnchanged, CreationAssumption DEF IInv, GoodsOf, OutcomeOf
    <3>2. CASE o \in Sagas
      BY <2>3, <3>1, <3>2, RequestKeepsPromise, PromiseOneStep
    <3>3. CASE o \notin Sagas
      BY <2>1, <3>1, <3>3
    <3> QED
      BY <3>2, <3>3
  <2>4. CASE Crash
    <3>1. \A p \in Sagas : (pc'[p] = "failed") <=> (pc[p] = "failed")
      BY <2>4, CreationAssumption DEF Crash, IInv, TypeOK, Ended
    <3> QED
      BY <2>1, <2>4, <3>1 DEF Crash, GoodsOf, OutcomeOf, ledgerVars, tableVars
  <2>5. CASE ChangeCatalogue
    BY <2>1, <2>5 DEF ChangeCatalogue, CreateProduct, DeleteProduct,
                      GoodsOf, OutcomeOf, handlerVars, smsVars, ledgerVars
  <2> QED
    BY <2>2, <2>3, <2>4, <2>5 DEF Next, ReceiveRest, ReceiveGrpc, RequestStep
<1> QED
  BY <1>1, <1>2, Invariance, PTL DEF Safety, PromiseSafe, Promise!Safety
=============================================================================
