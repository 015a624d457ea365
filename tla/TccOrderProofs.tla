---------------------------- MODULE TccOrderProofs ----------------------------
(***************************************************************************)
(* What the TCC stream guarantees for any number of streams, any           *)
(* catalogue, any carts and any set of fault kinds.                        *)
(***************************************************************************)
EXTENDS TccOrder, FiniteSetTheorems, TLAPS

\* The inductive invariant: the types, and what each stream's step says.
IInv == TypeOK /\ Streams

LEMMA InitIInv == Init => IInv
  BY TccAssumption
  DEF Init, IInv, TypeOK, TablesTypeOK, Streams, HolderInside, Stream, StepMatchesOrder,
      StepMatchesSms, RowsOf, Steps, Locked, Ended, Ordered

\* A step of one stream: its client's, its handler's, or SMS's for it.
StreamStep(o) ==
  \/ ClientOpens(o) \/ ClientLeaves(o)
  \/ \E c \in Carts : ClientSends(o, c)
  \/ Handle(o) \/ SmsServe(o) \/ SmsDrops(o)

-----------------------------------------------------------------------------
(* Types *)

\* What AddOrderProduct does to the tables and where it goes.
NextItem(o) == cart[o][Cardinality(Present(o)) + 1]

LEMMA AddOrderProductCases ==
  ASSUME NEW o \in OrderUuids, AddOrderProduct(o)
  PROVE  /\ pc[o] = "adding"
         /\ UNCHANGED <<cart, sent, gone, struck, sms, taken, product, orders>>
         /\ \/ \E u \in Addable(NextItem(o).code, Present(o)) :
                 /\ orderProducts' = orderProducts \cup {NewLine(o, NextItem(o), u)}
                 /\ \/ /\ GoTo(o, NextLoop(o, Cardinality(Present(o)) + 1))
                       /\ UNCHANGED holder
                    \/ Undo(o)
            \/ Undo(o) /\ UNCHANGED orderProducts
  BY DEF AddOrderProduct, NextItem, Present, clientVars, smsVars

\* The product the loop has come to, as long as lines are missing.
LEMMA NextItemType ==
  ASSUME TypeOK, NEW o \in OrderUuids, StepMatchesOrder(o), pc[o] = "adding"
  PROVE  /\ Cardinality(Present(o)) + 1 \in 1 .. Len(cart[o])
         /\ NextItem(o) \in Item
<1>1. cart[o] \in Seq(Item)
  BY TccAssumption DEF TypeOK
<1>2. PICK n \in 0 .. Len(cart[o]) - 1 : Cardinality(Present(o)) = n
  BY DEF StepMatchesOrder, LinesUpTo
<1>3. n + 1 \in 1 .. Len(cart[o])
  BY <1>1, <1>2
<1> QED
  BY <1>1, <1>2, <1>3 DEF NextItem

\* A line made of a cart's item and an existing product is a row of the table.
LEMMA NewLineType ==
  ASSUME NEW o \in OrderUuids, NEW item \in Item, NEW u \in ProductUuids
  PROVE  NewLine(o, item, u) \in OrderProduct
  BY TccAssumption DEF NewLine, Item, OrderProduct

\* Every step of a stream keeps the types.
LEMMA StreamKeepsTypes ==
  ASSUME IInv, NEW o \in OrderUuids, StreamStep(o)
  PROVE  TypeOK'
<1> TypeOK /\ Stream(o)
  BY DEF IInv, Streams
<1> USE DEF TypeOK, TablesTypeOK, GoTo, Finish, Undo, Strike, clientVars, smsVars, tableVars,
            Steps, Locked, Ended
<1>1. CASE ClientOpens(o) \/ ClientLeaves(o) \/ \E c \in Carts : ClientSends(o, c)
  <2>1. CASE ClientOpens(o)
    BY <2>1 DEF ClientOpens
  <2>2. CASE ClientLeaves(o)
    BY <2>2 DEF ClientLeaves
  <2>3. ASSUME NEW c \in Carts, ClientSends(o, c) PROVE TypeOK'
    BY <2>3 DEF ClientSends
  <2> QED
    BY <1>1, <2>1, <2>2, <2>3
<1>2. CASE Handle(o)
  <2>1. CASE ReceiveFreeze(o) \/ Lock(o) \/ Freeze(o) \/ ReceiveOrder(o)
    BY <2>1 DEF ReceiveFreeze, Lock, Freeze, ReceiveOrder
  <2>2. CASE CreateNakedOrder(o)
    <3>1. FlatCost \in Int
      BY DEF FlatCost
    <3>2. /\ UNCHANGED <<clientVars, smsVars, product, orderProducts>>
          /\ struck' \in [OrderUuids -> SUBSET Faults]
      BY <2>2 DEF CreateNakedOrder
    <3>3. orders' \in [OrderUuids -> Int \cup {NoRow}]
      BY <2>2, <3>1 DEF CreateNakedOrder
    <3>4. pc' \in [OrderUuids -> Steps] /\ holder' \in OrderUuids \cup {NoOne}
      BY <2>2 DEF CreateNakedOrder, NextLoop
    <3> QED
      BY <3>2, <3>3, <3>4
  <2>3. CASE AddOrderProduct(o)
    <3>1. NextItem(o) \in Item
      BY <2>3, AddOrderProductCases, NextItemType DEF Stream
    <3>2. \A u \in ProductUuids : NewLine(o, NextItem(o), u) \in OrderProduct
      BY <3>1, NewLineType
    <3>3. orderProducts' \subseteq OrderProduct
      BY <2>3, <3>2, AddOrderProductCases DEF Addable
    <3>4. pc' \in [OrderUuids -> Steps] /\ holder' \in OrderUuids \cup {NoOne}
      BY <2>3, AddOrderProductCases DEF NextLoop
    <3> QED
      BY <2>3, <3>3, <3>4, AddOrderProductCases
  <2>4. CASE Ask(o) \/ Confirm(o) \/ Answer(o)
    BY <2>4 DEF Ask, Confirm, Answer
  <2>5. CASE DeleteLines(o) \/ DeleteRow(o)
    BY <2>5 DEF DeleteLines, DeleteRow
  <2> QED
    BY <1>2, <2>1, <2>2, <2>3, <2>4, <2>5 DEF Handle
<1>3. CASE SmsServe(o)
  <2>1. taken[o] + 1 \in Nat
    OBVIOUS
  <2> QED
    BY <1>3, <2>1 DEF SmsServe
<1>4. CASE SmsDrops(o)
  BY <1>4 DEF SmsDrops
<1> QED
  BY <1>1, <1>2, <1>3, <1>4 DEF StreamStep

\* So does every other step.
LEMMA TypeStep == IInv /\ ([Next]_vars \/ CutOff) => TypeOK'
<1> SUFFICES ASSUME IInv, [Next]_vars \/ CutOff PROVE TypeOK'
  OBVIOUS
<1> TypeOK
  BY DEF IInv
<1>1. CASE UNCHANGED vars
  BY <1>1 DEF vars, TypeOK, TablesTypeOK
<1>2. CASE CutOff
  BY <1>2 DEF CutOff, TypeOK, TablesTypeOK, clientVars, smsVars, tableVars, Steps, Ended
<1>3. CASE ChangeCatalogue
  <2>1. product' \in [ProductUuids -> ProductRow \cup {NoRow}]
    BY <1>3 DEF ChangeCatalogue, CreateProduct, DeleteProduct, TypeOK, TablesTypeOK, ProductRow
  <2>2. UNCHANGED <<orders, orderProducts>>
    BY <1>3 DEF ChangeCatalogue, CreateProduct, DeleteProduct
  <2> QED
    BY <1>3, <2>1, <2>2 DEF ChangeCatalogue, TypeOK, TablesTypeOK, clientVars, smsVars
<1> QED
  BY <1>1, <1>2, <1>3, StreamKeepsTypes DEF Next, StreamStep, Crash

-----------------------------------------------------------------------------
(* The mutex *)

\* No two streams are inside: a stream enters a free mutex, and leaves it with
\* every return.
LEMMA HolderStep == IInv /\ ([Next]_vars \/ CutOff) => HolderInside'
<1> SUFFICES ASSUME TypeOK, HolderInside, [Next]_vars \/ CutOff PROVE HolderInside'
  BY DEF IInv, Streams
<1> USE DEF HolderInside
<1>1. CASE UNCHANGED <<pc, holder>>
  BY <1>1
<1>2. ASSUME NEW o \in OrderUuids, StreamStep(o) PROVE HolderInside'
  <2> USE DEF TypeOK
  <2>s. ASSUME NEW step \in Locked, pc[o] \in Locked, GoTo(o, step), UNCHANGED holder
        PROVE  HolderInside'
    BY <2>s DEF GoTo
  <2>f. ASSUME NEW step \in Ended, pc[o] \in Locked, Finish(o, step)
        PROVE  HolderInside'
    BY <2>f, TccAssumption DEF Finish, GoTo, Locked, Ended
  <2>o. ASSUME NEW step \in Steps \ Locked, pc[o] \notin Locked, GoTo(o, step), UNCHANGED holder
        PROVE  HolderInside'
    BY <2>o DEF GoTo
  <2>1. CASE ClientOpens(o) \/ ReceiveFreeze(o)
    BY <2>1, <2>o DEF ClientOpens, ReceiveFreeze, Steps, Locked, Ended
  <2>2. CASE Lock(o)
    BY <2>2, TccAssumption DEF Lock, GoTo, Locked
  <2>3. CASE Freeze(o) \/ ReceiveOrder(o)
    BY <2>3, <2>s, <2>f DEF Freeze, ReceiveOrder, Locked, Ended
  <2>4. CASE CreateNakedOrder(o)
    BY <2>4, <2>s, <2>f DEF CreateNakedOrder, NextLoop, Locked, Ended
  <2>5. CASE AddOrderProduct(o)
    BY <2>5, <2>s, AddOrderProductCases DEF NextLoop, Undo, Locked
  <2>6. CASE Ask(o) \/ Confirm(o) \/ Answer(o)
    BY <2>6, <2>s, <2>f DEF Ask, Confirm, Answer, Undo, Locked, Ended
  <2>7. CASE DeleteLines(o) \/ DeleteRow(o)
    BY <2>7, <2>s, <2>f DEF DeleteLines, DeleteRow, Locked, Ended
  <2>8. CASE ClientLeaves(o) \/ (\E c \in Carts : ClientSends(o, c)) \/ SmsServe(o) \/ SmsDrops(o)
    BY <1>1, <2>8 DEF ClientLeaves, ClientSends, SmsServe, SmsDrops
  <2> QED
    BY <1>2, <2>1, <2>2, <2>3, <2>4, <2>5, <2>6, <2>7, <2>8 DEF StreamStep, Handle
<1>3. CASE CutOff
  BY <1>3, TccAssumption DEF CutOff, TypeOK, Steps, Locked, Ended
<1>4. CASE ChangeCatalogue
  BY <1>1, <1>4 DEF ChangeCatalogue
<1> QED
  BY <1>1, <1>2, <1>3, <1>4 DEF Next, vars, StreamStep, Crash

-----------------------------------------------------------------------------
(* The lines of an order *)

\* That an order is whole depends on its own lines and on their products alone.
SameLines(o) ==
  /\ cart'[o] = cart[o] /\ RowsOf(o)' = RowsOf(o)
  /\ \A l \in RowsOf(o) : product[l.product] # NoRow => product'[l.product] = product[l.product]

LEMMA LinesFrame ==
  ASSUME NEW o \in OrderUuids, SameLines(o)
  PROVE  /\ Whole(o) => Whole(o)'
         /\ \A n : LinesUpTo(o, n) => LinesUpTo(o, n)'
<1>1. Whole(o) => Whole(o)'
  BY DEF SameLines, Whole
<1>2. ASSUME NEW n, LinesUpTo(o, n) PROVE LinesUpTo(o, n)'
  <2>1. Present(o)' = Present(o)
    BY DEF SameLines, Present
  <2> QED
    BY <1>2, <2>1 DEF SameLines, LinesUpTo
<1> QED
  BY <1>1, <1>2

\* When no product is missing, the order is whole.
LEMMA AllLinesAreWhole ==
  ASSUME TypeOK, NEW o \in OrderUuids, LinesUpTo(o, Len(cart[o]))
  PROVE  Whole(o)
<1>1. DOMAIN cart[o] = 1 .. Len(cart[o])
  BY TccAssumption DEF TypeOK
<1> QED
  BY <1>1 DEF LinesUpTo, Whole

\* No products, no lines: an empty cart makes a whole order.
LEMMA NoLines ==
  ASSUME NEW o \in OrderUuids, RowsOf(o) = {}
  PROVE  LinesUpTo(o, 0)
<1>1. Present(o) = {}
  BY DEF Present
<1> QED
  BY <1>1, FS_EmptySet DEF LinesUpTo

\* An iteration of the loop adds the next line, of a product not yet there.
LEMMA OneLineMore ==
  ASSUME TypeOK, NEW o \in OrderUuids, NEW n \in Nat, LinesUpTo(o, n),
         NEW u \in Addable(NextItem(o).code, Present(o)),
         orderProducts' = orderProducts \cup {NewLine(o, NextItem(o), u)},
         UNCHANGED <<cart, product>>
  PROVE  LinesUpTo(o, n + 1)'
<1> DEFINE line == NewLine(o, NextItem(o), u)
<1>1. line.order = o /\ line.product = u /\ line.amount = NextItem(o).amount
  BY DEF NewLine
<1>2. RowsOf(o)' = RowsOf(o) \cup {line}
  BY <1>1 DEF RowsOf
<1>3. Present(o)' = Present(o) \cup {u}
  BY <1>1, <1>2 DEF Present
<1>4. u \notin Present(o) /\ product[u] # NoRow /\ product[u].code = NextItem(o).code
  BY DEF Addable, RowsWithCode
<1>5. line \notin RowsOf(o)
  BY <1>1, <1>4 DEF Present
<1>6. /\ IsFiniteSet(RowsOf(o)) /\ Cardinality(RowsOf(o)) = n
      /\ IsFiniteSet(Present(o)) /\ Cardinality(Present(o)) = n
  BY DEF LinesUpTo
<1>7. /\ IsFiniteSet(RowsOf(o))' /\ Cardinality(RowsOf(o))' = n + 1
      /\ IsFiniteSet(Present(o))' /\ Cardinality(Present(o))' = n + 1
  BY <1>2, <1>3, <1>4, <1>5, <1>6, FS_AddElement
<1>8. NextItem(o) = cart[o][n + 1]
  BY <1>6 DEF NextItem
<1>9. ASSUME NEW i \in 1 .. n + 1
      PROVE  \E l \in RowsOf(o)' : /\ l.amount = cart'[o][i].amount
                                  /\ product'[l.product] # NoRow
                                  /\ product'[l.product].code = cart'[o][i].code
  <2>1. CASE i = n + 1
    BY <1>1, <1>2, <1>4, <1>8, <2>1
  <2>2. CASE i \in 1 .. n
    BY <1>2, <2>2 DEF LinesUpTo
  <2> QED
    BY <2>1, <2>2
<1> QED
  BY <1>7, <1>9 DEF LinesUpTo

-----------------------------------------------------------------------------
(* The streams *)

\* A step that does not touch stream p's order leaves what is known of p.
Untouched(p) ==
  /\ pc'[p] = pc[p] /\ sent'[p] = sent[p] /\ gone'[p] = gone[p]
  /\ sms'[p] = sms[p] /\ taken'[p] = taken[p] /\ struck'[p] = struck[p]
  /\ orders'[p] = orders[p] /\ SameLines(p)

LEMMA StreamFrame ==
  ASSUME NEW p \in OrderUuids, Stream(p), Untouched(p)
  PROVE  Stream(p)'
<1>1. /\ Whole(p) => Whole(p)'
      /\ \A n : LinesUpTo(p, n) => LinesUpTo(p, n)'
      /\ RowsOf(p)' = RowsOf(p) /\ cart'[p] = cart[p]
  BY LinesFrame DEF Untouched, SameLines
<1>2. StepMatchesOrder(p)'
  BY <1>1 DEF Stream, StepMatchesOrder, Untouched
<1>3. StepMatchesSms(p)'
  BY <1>1 DEF Stream, StepMatchesSms, Untouched
<1> QED
  BY <1>2, <1>3 DEF Stream

LEMMA OthersUntouched ==
  ASSUME TypeOK, NEW o \in OrderUuids, NEW p \in OrderUuids \ {o}, StreamStep(o)
  PROVE  Untouched(p)
<1> USE DEF TypeOK, TablesTypeOK, GoTo, Finish, Undo, Strike, clientVars, smsVars, tableVars,
            Untouched, SameLines, RowsOf
<1>1. CASE ClientOpens(o) \/ ClientLeaves(o) \/ \E c \in Carts : ClientSends(o, c)
  BY <1>1 DEF ClientOpens, ClientLeaves, ClientSends
<1>2. CASE ReceiveFreeze(o) \/ Lock(o) \/ Freeze(o) \/ ReceiveOrder(o)
  BY <1>2 DEF ReceiveFreeze, Lock, Freeze, ReceiveOrder
<1>3. CASE CreateNakedOrder(o)
  BY <1>3 DEF CreateNakedOrder
<1>4. CASE AddOrderProduct(o)
  <2>1. pc'[p] = pc[p] /\ UNCHANGED <<cart, sent, gone, struck, sms, taken, product, orders>>
    BY <1>4, AddOrderProductCases
  <2>2. RowsOf(p)' = RowsOf(p)
    <3>1. \A u : NewLine(o, NextItem(o), u).order = o
      BY DEF NewLine
    <3> QED
      BY <1>4, <3>1, AddOrderProductCases
  <2> QED
    BY <2>1, <2>2
<1>5. CASE Ask(o) \/ Confirm(o) \/ Answer(o)
  BY <1>5 DEF Ask, Confirm, Answer
<1>6. CASE DeleteLines(o) \/ DeleteRow(o)
  BY <1>6 DEF DeleteLines, DeleteRow
<1>7. CASE SmsServe(o) \/ SmsDrops(o)
  BY <1>7 DEF SmsServe, SmsDrops
<1> QED
  BY <1>1, <1>2, <1>3, <1>4, <1>5, <1>6, <1>7 DEF StreamStep, Handle

\* A step of a stream that leaves its lines and its client's order alone.
LEMMA SameLinesStep ==
  ASSUME NEW o \in OrderUuids, UNCHANGED <<cart, product, orderProducts>>
  PROVE  /\ Whole(o)' <=> Whole(o)
         /\ \A n : LinesUpTo(o, n)' <=> LinesUpTo(o, n)
         /\ RowsOf(o)' = RowsOf(o) /\ cart'[o] = cart[o]
  BY DEF Whole, LinesUpTo, Present, RowsOf

LEMMA DeleteRowEnds ==
  ASSUME NEW o \in OrderUuids, DeleteRow(o)
  PROVE  pc' = [pc EXCEPT ![o] = "failed"]
  BY DEF DeleteRow, Finish, GoTo

\* A stream's own step leaves it where its variables say it is.
LEMMA OwnStep ==
  ASSUME IInv, NEW o \in OrderUuids, StreamStep(o)
  PROVE  Stream(o)'
<1>t. TypeOK /\ Stream(o)
  BY DEF IInv, Streams
<1> USE <1>t DEF TypeOK, TablesTypeOK, Stream, StepMatchesOrder, StepMatchesSms, Ordered,
                 GoTo, Finish, Undo, Strike, clientVars, smsVars, tableVars
<1>1. CASE ClientOpens(o)
  BY <1>1, SameLinesStep DEF ClientOpens
<1>2. CASE ClientLeaves(o)
  BY <1>2, SameLinesStep DEF ClientLeaves, Ended
<1>3. ASSUME NEW c \in Carts, ClientSends(o, c) PROVE Stream(o)'
  <2>1. \/ pc[o] \notin Ordered \cup Ended /\ sms[o] \notin {"asked", "accepted"}
        \/ pc[o] = "dead"
    BY <1>3 DEF ClientSends, Ended, Steps, Locked
  <2>2. RowsOf(o)' = RowsOf(o)
    BY <1>3 DEF ClientSends, RowsOf
  <2> QED
    BY <1>3, <2>1, <2>2 DEF ClientSends, Ended
<1>4. CASE ReceiveFreeze(o) \/ Lock(o)
  BY <1>4, SameLinesStep DEF ReceiveFreeze, Lock
<1>5. CASE Freeze(o) \/ ReceiveOrder(o)
  BY <1>5, SameLinesStep DEF Freeze, ReceiveOrder
<1>6. CASE CreateNakedOrder(o)
  <2>1. cart[o] \in Seq(Item) /\ RowsOf(o) = {}
    BY <1>6, TccAssumption DEF CreateNakedOrder
  <2>2. /\ UNCHANGED <<clientVars, smsVars, product, orderProducts>>
        /\ pc[o] = "creating" /\ sms[o] \in {"none", "frozen"} /\ RowsOf(o)' = {}
    BY <1>6, <2>1 DEF CreateNakedOrder, RowsOf
  <2>3. CASE Finish(o, "failed") /\ UNCHANGED <<orders, struck>>
    BY <2>2, <2>3
  <2>5. CASE Finish(o, "failed") /\ ((gone[o] /\ UNCHANGED struck) \/ Strike(o, "ackLost"))
    <3>1. gone'[o] \/ struck'[o] # {}
      BY <2>2, <2>5
    <3>2. pc'[o] = "failed"
      BY <2>5
    <3> QED
      BY <2>2, <3>1, <3>2
  <2>4. CASE /\ orders' = [orders EXCEPT ![o] = FlatCost]
             /\ GoTo(o, NextLoop(o, 0)) /\ UNCHANGED struck
    <3>1. orders'[o] # NoRow
      BY <2>4, TablesAssumption, TccAssumption
    <3>2. LinesUpTo(o, 0)'
      BY <2>1, <2>2, NoLines, SameLinesStep
    <3>3. CASE Len(cart[o]) = 0
      <4>1. Whole(o)'
        BY <2>1, <2>2, <3>3, NoLines, AllLinesAreWhole, SameLinesStep
      <4> QED
        BY <2>2, <2>4, <3>1, <3>3, <4>1 DEF NextLoop
    <3>4. CASE Len(cart[o]) # 0
      <4>1. 0 \in 0 .. Len(cart[o]) - 1
        BY <2>1, <3>4
      <4> QED
        BY <2>2, <2>4, <3>1, <3>2, <3>4, <4>1 DEF NextLoop
    <3> QED
      BY <3>3, <3>4
  <2> QED
    BY <1>6, <2>3, <2>4, <2>5 DEF CreateNakedOrder
<1>7. CASE AddOrderProduct(o)
  <2>1. PICK n \in 0 .. Len(cart[o]) - 1 : LinesUpTo(o, n)
    BY <1>7, AddOrderProductCases
  <2>2. cart[o] \in Seq(Item) /\ Cardinality(Present(o)) = n
    BY <2>1, TccAssumption DEF LinesUpTo
  <2>3. /\ pc[o] = "adding" /\ sms[o] \in {"none", "frozen"} /\ orders[o] # NoRow
        /\ UNCHANGED <<cart, sent, gone, struck, sms, taken, product, orders>>
    BY <1>7, AddOrderProductCases
  <2>4. CASE Undo(o)
    BY <2>3, <2>4
  <2>5. ASSUME NEW u \in Addable(NextItem(o).code, Present(o)),
               orderProducts' = orderProducts \cup {NewLine(o, NextItem(o), u)},
               GoTo(o, NextLoop(o, n + 1))
        PROVE  Stream(o)'
    <3>n. n \in Nat
      BY <2>2
    <3>1. LinesUpTo(o, n + 1)'
      BY <2>1, <2>3, <2>5, <3>n, OneLineMore
    <3>2. CASE n + 1 = Len(cart[o])
      <4>1. Whole(o)'
        <5>1. DOMAIN cart'[o] = 1 .. n + 1 /\ Len(cart'[o]) = n + 1
          BY <2>2, <2>3, <3>2
        <5> QED
          BY <3>1, <5>1 DEF LinesUpTo, Whole
      <4> QED
        BY <2>3, <2>5, <3>2, <4>1 DEF NextLoop
    <3>3. CASE n + 1 # Len(cart[o])
      <4>1. n + 1 \in 0 .. Len(cart'[o]) - 1
        BY <2>2, <2>3, <3>3
      <4> QED
        BY <2>3, <2>5, <3>1, <3>3, <4>1 DEF NextLoop
    <3> QED
      BY <3>2, <3>3
  <2> QED
    BY <1>7, <2>2, <2>4, <2>5, AddOrderProductCases
<1>8. CASE Ask(o) \/ Answer(o)
  BY <1>8, SameLinesStep DEF Ask, Answer
<1>9. CASE Confirm(o)
  BY <1>9, SameLinesStep DEF Confirm
<1>10. CASE DeleteLines(o)
  <2>1. CASE ~ gone[o] /\ orderProducts' = orderProducts \ RowsOf(o) /\ GoTo(o, "deletingOrder")
    <3>1. RowsOf(o)' = {}
      BY <2>1 DEF RowsOf
    <3> QED
      BY <1>10, <2>1, <3>1 DEF DeleteLines
  <2>2. CASE /\ Finish(o, "failed") /\ UNCHANGED orderProducts
             /\ (gone[o] /\ UNCHANGED struck) \/ Strike(o, "statement")
    BY <1>10, <2>2, SameLinesStep DEF DeleteLines
  <2>3. CASE ~ gone[o] /\ Strike(o, "ackLost") /\ Finish(o, "failed")
    <3>1. /\ pc[o] = "deletingLines" /\ pc'[o] = "failed"
          /\ struck'[o] = struck[o] \cup {"ackLost"}
          /\ UNCHANGED <<sent, gone, sms, taken>>
      BY <1>10, <2>3 DEF DeleteLines
    <3> QED
      BY <2>3, <3>1
  <2> QED
    BY <1>10, <2>1, <2>2, <2>3 DEF DeleteLines
<1>11. CASE DeleteRow(o)
  <2>1. /\ pc[o] = "deletingOrder" /\ UNCHANGED <<cart, product, orderProducts>>
        /\ UNCHANGED <<sent, gone, sms, taken>>
    BY <1>11 DEF DeleteRow
  <2>2. pc'[o] = "failed"
    <3>1. pc' = [pc EXCEPT ![o] = "failed"]
      BY <1>11, DeleteRowEnds
    <3> QED
      BY <3>1
  <2>3. CASE ~ gone[o] /\ orders' = [orders EXCEPT ![o] = NoRow] /\ UNCHANGED struck
    BY <2>1, <2>2, <2>3, SameLinesStep
  <2>4. CASE gone[o] /\ UNCHANGED <<orders, struck>>
    BY <2>1, <2>2, <2>4, SameLinesStep
  <2>5. CASE Strike(o, "statement") /\ UNCHANGED orders
    <3>1. struck'[o] = struck[o] \cup {"statement"}
      BY <2>5
    <3> QED
      BY <2>1, <2>2, <2>5, <3>1, SameLinesStep
  <2> QED
    BY <1>11, <2>3, <2>4, <2>5 DEF DeleteRow
<1>12. CASE SmsServe(o)
  BY <1>12, SameLinesStep DEF SmsServe
<1>13. CASE SmsDrops(o)
  BY <1>13, SameLinesStep DEF SmsDrops
<1> QED
  BY <1>1, <1>2, <1>3, <1>4, <1>5, <1>6, <1>7, <1>8, <1>9, <1>10, <1>11, <1>12, <1>13
  DEF StreamStep, Handle

\* A product with a line cannot be deleted, and a row with a key is not made again.
LEMMA CatalogueKeepsLines ==
  ASSUME TypeOK, NEW p \in OrderUuids, ChangeCatalogue
  PROVE  Untouched(p)
<1>1. UNCHANGED <<pc, cart, sent, gone, struck, sms, taken, orders, orderProducts>>
  BY DEF ChangeCatalogue, CreateProduct, DeleteProduct, clientVars, smsVars
<1>2. ASSUME NEW l \in RowsOf(p), product[l.product] # NoRow
      PROVE  product'[l.product] = product[l.product]
  <2>1. l \in orderProducts /\ l.product \in DOMAIN product
    BY DEF RowsOf, TypeOK, TablesTypeOK, OrderProduct
  <2> QED
    BY <1>2, <2>1 DEF ChangeCatalogue, CreateProduct, DeleteProduct
<1> QED
  BY <1>1, <1>2 DEF Untouched, SameLines, RowsOf

\* Every step keeps every stream where its variables say it is.
LEMMA StreamsStep ==
  IInv /\ ([Next]_vars \/ CutOff) => \A p \in OrderUuids : Stream(p)'
<1> SUFFICES ASSUME IInv, [Next]_vars \/ CutOff, NEW p \in OrderUuids PROVE Stream(p)'
  OBVIOUS
<1>t. TypeOK /\ Stream(p)
  BY DEF IInv, Streams
<1>1. CASE UNCHANGED vars
  <2>1. Untouched(p)
    BY <1>1 DEF vars, Untouched, SameLines, RowsOf
  <2> QED
    BY <1>t, <2>1, StreamFrame
<1>2. ASSUME NEW o \in OrderUuids, StreamStep(o) PROVE Stream(p)'
  <2>1. CASE p = o
    BY <1>2, <2>1, OwnStep
  <2>2. CASE p # o
    BY <1>t, <1>2, <2>2, OthersUntouched, StreamFrame
  <2> QED
    BY <2>1, <2>2
<1>3. CASE CutOff
  <2>1. UNCHANGED <<cart, sent, gone, struck, sms, taken, product, orders, orderProducts>>
    BY <1>3 DEF CutOff, clientVars, smsVars, tableVars
  <2>2. pc'[p] = pc[p] \/ pc'[p] = "dead"
    BY <1>3 DEF CutOff
  <2>3. CASE pc'[p] = pc[p]
    <3>1. Untouched(p)
      BY <2>1, <2>3 DEF Untouched, SameLines, RowsOf
    <3> QED
      BY <1>t, <3>1, StreamFrame
  <2>4. CASE pc'[p] = "dead"
    <3>1. /\ Whole(p)' <=> Whole(p)
          /\ RowsOf(p)' = RowsOf(p)
      BY <2>1, SameLinesStep
    <3> QED
      BY <1>t, <2>1, <2>4, <3>1 DEF Stream, StepMatchesOrder, StepMatchesSms, Ordered
  <2> QED
    BY <2>2, <2>3, <2>4
<1>4. CASE ChangeCatalogue
  BY <1>t, <1>4, CatalogueKeepsLines, StreamFrame
<1> QED
  BY <1>1, <1>2, <1>3, <1>4 DEF Next, StreamStep, Crash

LEMMA IInvStep == IInv /\ ([Next]_vars \/ CutOff) => IInv'
<1>1. IInv /\ ([Next]_vars \/ CutOff) => Streams'
  BY HolderStep, StreamsStep DEF Streams
<1> QED
  BY <1>1, TypeStep DEF IInv

LEMMA Invariance == Safety => []IInv
<1>1. Init => IInv
  BY InitIInv
<1>2. IInv /\ [Next]_vars => IInv'
  BY IInvStep
<1> QED
  BY <1>1, <1>2, PTL DEF Safety

-----------------------------------------------------------------------------
(* Theorems *)

\* The variables keep their types, whatever clients, SMS, the catalogue and faults
\* do (TccOrder as a whole).
THEOREM TypesHold == Safety => []TypeOK
  BY Invariance, PTL DEF IInv

\* Every stream stays where its step says: the mutex with its holder, the order
\* and its lines in the tables as far as the handler has come, and SMS's ledger
\* as SMS has answered (TCCCreateOrder and its deferred deletion).
THEOREM StreamsHold == Safety => []Streams
  BY Invariance, PTL DEF IInv

\* A handler that returns nil leaves the whole order with its goods written off
\* (TCCCreateOrder), although an error of its last Send is dropped.
THEOREM AnsweredAreSettled == Safety => []AnsweredIsSettled
<1>1. IInv => AnsweredIsSettled
  BY DEF IInv, Streams, Stream, StepMatchesOrder, StepMatchesSms, AnsweredIsSettled, Settled
<1> QED
  BY <1>1, Invariance, PTL

\* Goods that SMS wrote off have their order, through cancellations, crashes and
\* failed statements (the deferred deletion runs under the stream's context).
THEOREM TakenGoodsAccounted == Safety => []TakenGoodsHaveOrder
<1>1. IInv => TakenGoodsHaveOrder
  BY DEF IInv, Streams, Stream, StepMatchesSms, TakenGoodsHaveOrder, Settled
<1> QED
  BY <1>1, Invariance, PTL

\* A stream that is not inside has its whole order, or none at all.
LEMMA OutsideIsFinished ==
  ASSUME IInv, NEW o \in OrderUuids, pc[o] \in Steps \ Locked,
         ~ gone[o], pc[o] # "dead", struck[o] = {}
  PROVE  Settled(o) \/ Absent(o)
<1>1. Stream(o)
  BY DEF IInv, Streams
<1>2. CASE pc[o] = "done"
  BY <1>1, <1>2 DEF Stream, StepMatchesOrder, StepMatchesSms, Settled
<1>3. CASE pc[o] # "done"
  BY <1>1, <1>3 DEF Stream, StepMatchesOrder, StepMatchesSms, Absent, Steps, Ended
<1> QED
  BY <1>2, <1>3

\* Only the holder of createOrderMu has a partial order, however many streams
\* queue for it and however the others ended.
THEOREM OnlyHolderIsUnfinished == Safety => []OnlyHolderUnfinished
<1>1. IInv => OnlyHolderUnfinished
  <2> SUFFICES ASSUME IInv, NEW o \in OrderUuids \ {holder},
                      ~ gone[o], pc[o] # "dead", struck[o] = {}
               PROVE  Settled(o) \/ Absent(o)
    BY DEF OnlyHolderUnfinished
  <2>1. pc[o] \in Steps \ Locked
    BY DEF IInv, Streams, HolderInside, TypeOK
  <2> QED
    BY <2>1, OutsideIsFinished
<1> QED
  BY <1>1, Invariance, PTL

-----------------------------------------------------------------------------
(* The protocol implements its promise *)

\* What the refinement mapping says of one stream.
GoodsOf(o) == IF taken[o] = 0 THEN "shelf" ELSE "out"

OutcomeOf(o) ==
  CASE pc[o] \in {"answering", "done"} -> "placed"
    [] pc[o] \in {"deletingLines", "deletingOrder", "failed"} -> "refused"
    [] OTHER -> "open"

Misled(o) == gone[o] \/ "transport" \in struck[o]

\* Stream o's part of what the promise sees does not change.
Unseen(o) ==
  GoodsOf(o)' = GoodsOf(o) /\ OutcomeOf(o)' = OutcomeOf(o) /\ (Misled(o)' <=> Misled(o))

\* What one step may do to a stream's goods and outcome, and what it may not undo.
PromiseStep(o) ==
  /\ Misled(o) => Misled(o)'
  /\ \/ GoodsOf(o)' = GoodsOf(o) /\ OutcomeOf(o)' = OutcomeOf(o)
     \/ /\ OutcomeOf(o) = "open" \/ Misled(o)'
        /\ OutcomeOf(o)' = OutcomeOf(o)
        /\ GoodsOf(o) = "shelf" /\ GoodsOf(o)' = "out"
     \/ /\ OutcomeOf(o) = "open" /\ GoodsOf(o)' = GoodsOf(o)
        /\ \/ GoodsOf(o) = "out" /\ OutcomeOf(o)' = "placed"
           \/ (GoodsOf(o) # "out" \/ Misled(o)') /\ OutcomeOf(o)' = "refused"

\* Such a step of one stream is a step of the promise.
LEMMA PromiseOneStep ==
  ASSUME NEW o \in OrderUuids, PromiseStep(o), \A p \in OrderUuids \ {o} : Unseen(p)
  PROVE  [Promise!Next]_(Promise!vars)
<1> DEFINE goods == [p \in OrderUuids |-> IF taken[p] = 0 THEN "shelf" ELSE "out"]
           outcome == [p \in OrderUuids |->
             CASE pc[p] \in {"answering", "done"} -> "placed"
               [] pc[p] \in {"deletingLines", "deletingOrder", "failed"} -> "refused"
               [] OTHER -> "open"]
           misled == {p \in OrderUuids : gone[p] \/ "transport" \in struck[p]}
<1>1. /\ goods = [p \in OrderUuids |-> GoodsOf(p)]
      /\ outcome = [p \in OrderUuids |-> OutcomeOf(p)]
      /\ misled = {p \in OrderUuids : Misled(p)}
  BY DEF GoodsOf, OutcomeOf, Misled
<1>2. /\ goods' = [p \in OrderUuids |-> GoodsOf(p)']
      /\ outcome' = [p \in OrderUuids |-> OutcomeOf(p)']
      /\ misled' = {p \in OrderUuids : Misled(p)'}
  BY DEF GoodsOf, OutcomeOf, Misled
<1> HIDE DEF goods, outcome, misled
<1>3. goods' = [goods EXCEPT ![o] = GoodsOf(o)'] /\ goods[o] = GoodsOf(o)
  BY <1>1, <1>2 DEF Unseen
<1>4. outcome' = [outcome EXCEPT ![o] = OutcomeOf(o)'] /\ outcome[o] = OutcomeOf(o)
  BY <1>1, <1>2 DEF Unseen
<1>5. misled' = IF Misled(o)' THEN misled \cup {o} ELSE misled
  BY <1>1, <1>2 DEF Unseen, PromiseStep
<1>6. Misled(o)' <=> o \in misled'
  BY <1>2
<1>7. /\ GoodsOf(o)' = GoodsOf(o) => goods' = goods
      /\ OutcomeOf(o)' = OutcomeOf(o) => outcome' = outcome
  BY <1>1, <1>2 DEF Unseen
<1>8. \/ goods' = goods /\ outcome' = outcome /\ misled' = misled
      \/ Promise!Take(o) \/ Promise!Place(o) \/ Promise!Refuse(o) \/ Promise!Mislead(o)
  BY <1>3, <1>4, <1>5, <1>6, <1>7
  DEF PromiseStep, Promise!Misleads, Promise!Take, Promise!Place,
      Promise!Refuse, Promise!Mislead, goods, outcome, misled
<1> QED
  BY <1>8 DEF Promise!Next, Promise!vars, goods, outcome, misled

\* The promise sees of a stream only its own variables.
LEMMA UntouchedIsUnseen ==
  ASSUME NEW p \in OrderUuids, Untouched(p)
  PROVE  Unseen(p)
  BY DEF Untouched, Unseen, GoodsOf, OutcomeOf, Misled

\* A stream's own step is one of the promise, also when SMS answers late.
LEMMA StreamKeepsPromise ==
  ASSUME IInv, IInv', NEW o \in OrderUuids, StreamStep(o)
  PROVE  PromiseStep(o)
<1>t. TypeOK /\ TypeOK' /\ StepMatchesSms(o) /\ StepMatchesSms(o)'
  BY DEF IInv, Streams, Stream
<1> USE <1>t DEF TypeOK, StepMatchesSms, GoTo, Finish, Undo, Strike, clientVars, smsVars,
                 PromiseStep, GoodsOf, OutcomeOf, Misled
<1>1. CASE ClientOpens(o) \/ ClientLeaves(o) \/ \E c \in Carts : ClientSends(o, c)
  BY <1>1 DEF ClientOpens, ClientLeaves, ClientSends
<1>2. CASE ReceiveFreeze(o) \/ Lock(o) \/ Freeze(o) \/ ReceiveOrder(o)
  BY <1>2 DEF ReceiveFreeze, Lock, Freeze, ReceiveOrder
<1>3. CASE CreateNakedOrder(o)
  BY <1>3 DEF CreateNakedOrder, NextLoop
<1>4. CASE AddOrderProduct(o)
  BY <1>4, AddOrderProductCases DEF NextLoop
<1>5. CASE Ask(o)
  BY <1>5 DEF Ask
<1>6. CASE Confirm(o)
  BY <1>6 DEF Confirm
<1>7. CASE Answer(o)
  BY <1>7 DEF Answer
<1>8. CASE DeleteLines(o) \/ DeleteRow(o)
  BY <1>8 DEF DeleteLines, DeleteRow
<1>9. CASE SmsServe(o) \/ SmsDrops(o)
  BY <1>9 DEF SmsServe, SmsDrops
<1> QED
  BY <1>1, <1>2, <1>3, <1>4, <1>5, <1>6, <1>7, <1>8, <1>9 DEF StreamStep, Handle

\* TCCCreateOrder does to goods and orders what OrderPromise promises, whoever
\* leaves and whatever statement or reply fails, as long as the process lives: a
\* crash forgets what the handler had decided.
THEOREM TccKeepsPromise ==
  ASSUME "crash" \notin Faults
  PROVE  Safety => PromiseSafe
<1>1. Init => Promise!Init
  BY DEF Init, Promise!Init
<1>2. IInv /\ IInv' /\ [Next]_vars => [Promise!Next]_(Promise!vars)
  <2> SUFFICES ASSUME IInv, IInv', [Next]_vars PROVE [Promise!Next]_(Promise!vars)
    OBVIOUS
  <2>1. ASSUME \A p \in OrderUuids : Untouched(p) PROVE [Promise!Next]_(Promise!vars)
    BY <2>1 DEF Untouched, Promise!vars
  <2>2. CASE UNCHANGED vars
    BY <2>2 DEF vars, Promise!vars
  <2>3. ASSUME NEW o \in OrderUuids, StreamStep(o) PROVE [Promise!Next]_(Promise!vars)
    <3>1. \A p \in OrderUuids \ {o} : Unseen(p)
      BY <2>3, OthersUntouched, UntouchedIsUnseen DEF IInv
    <3> QED
      BY <2>3, <3>1, StreamKeepsPromise, PromiseOneStep
  <2>4. CASE ChangeCatalogue
    BY <2>1, <2>4, CatalogueKeepsLines DEF IInv
  <2> QED
    BY <2>2, <2>3, <2>4 DEF Next, StreamStep, Crash
<1> QED
  BY <1>1, <1>2, Invariance, PTL DEF Safety, PromiseSafe, Promise!Safety
=============================================================================
