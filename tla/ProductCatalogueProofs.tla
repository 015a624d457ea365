------------------------ MODULE ProductCatalogueProofs ------------------------
(***************************************************************************)
(* What the product server guarantees for any number of calls, products    *)
(* and orders, any page sizes and any set of fault kinds.                  *)
(***************************************************************************)
EXTENDS ProductCatalogue, FunctionTheorems, FiniteSetTheorems, SequenceTheorems, TLAPS

\* What is known of a call that was made: it is one, and what it deletes has been
\* made or is no primary key.
CallKnown(r) ==
  pc[r] # "idle" =>
    call[r] \in Calls /\ (call[r].operation = "Delete" => call[r].id \in Codes \cup made)

RowsNamed == \A u \in ProductUuids : name[u] = NoRow <=> u \notin Standing

\* The inductive invariant behind all but PagesComplete.
CatalogueInv ==
  /\ TypeOK /\ RowsNamed /\ Standing \subseteq made /\ IsFiniteSet(made)
  /\ \A r \in Requests : CallKnown(r)
  /\ LinesKeepProduct /\ DeletedForGood /\ OnlyNamedVanish

LEMMA InitCatalogueInv == Init => CatalogueInv
<1> SUFFICES ASSUME Init PROVE CatalogueInv
  OBVIOUS
<1>1. TypeOK
  BY CatalogueAssumption DEF Init, TypeOK, TablesTypeOK, Standing
<1>2. Locked = {} /\ Referenced = {}
  BY DEF Init, Locked, Referenced
<1> QED
  BY <1>1, <1>2
  DEF Init, CatalogueInv, RowsNamed, CallKnown, LinesKeepProduct, DeletedForGood, OnlyNamedVanish

-----------------------------------------------------------------------------
(* The calls *)

\* What a call of each operation carries.
LEMMA CallShape ==
  ASSUME NEW c \in Calls
  PROVE  /\ c.operation = "Create" =>
              /\ c.code \in Codes /\ c.cost \in Prices /\ c.name \in Names /\ c.valid \in BOOLEAN
         /\ c.operation = "Delete" => c.id \in Ids /\ c = [operation |-> "Delete", id |-> c.id]
         /\ c.operation = "List" => c.limit \in Limits
  BY DEF Calls

-----------------------------------------------------------------------------
(* Pages *)

\* The orders in which ListProducts may go through the table.
Sorted(s) ==
  LET n == Cardinality(Standing) IN
    /\ s \in [1 .. n -> Standing] /\ IsInjective(s)
    /\ \A i, j \in 1 .. n : i < j => name[s[i]] <= name[s[j]]

\* What a page is: the rows behind the offset, as far as the limit or the table go.
LEMMA PageIs ==
  ASSUME IsFiniteSet(Standing), NEW limit \in Nat \ {0}, NEW offset \in Nat,
         NEW page \in Page(limit, offset)
  PROVE  \E s : /\ Sorted(s) /\ page \in Seq(Standing)
                /\ Len(page) = IF offset + limit <= Cardinality(Standing) THEN limit
                               ELSE IF offset <= Cardinality(Standing)
                                 THEN Cardinality(Standing) - offset ELSE 0
                /\ \A i \in 1 .. Len(page) : page[i] = s[offset + i]
<1> DEFINE n == Cardinality(Standing)
           last == Min({offset + limit, n})
<1>1. n \in Nat
  BY FS_CardinalityType
<1>2. PICK s : Sorted(s) /\ page = SubSeq(s, offset + 1, last)
  BY DEF Page, Sorted
<1>3. last = IF offset + limit <= n THEN offset + limit ELSE n
  <2> HIDE DEF n
  <2>1. PICK m \in {offset + limit, n} : \A y \in {offset + limit, n} : m <= y
    BY <1>1
  <2>2. last \in {offset + limit, n} /\ \A y \in {offset + limit, n} : last <= y
    BY <2>1 DEF Min
  <2> QED
    BY <1>1, <2>2
<1>4. s \in Seq(Standing) /\ Len(s) = n /\ DOMAIN s = 1 .. n
  BY <1>1, <1>2 DEF Sorted
<1> HIDE DEF n, last
<1>5. page \in Seq(Standing) /\ Len(page) = IF offset + 1 <= last THEN last - offset ELSE 0
  BY <1>1, <1>2, <1>3, <1>4
<1>6. \A i \in 1 .. Len(page) : page[i] = s[offset + i]
  BY <1>1, <1>2, <1>3, <1>4, <1>5
<1>7. Len(page) = IF offset + limit <= n THEN limit ELSE IF offset <= n THEN n - offset ELSE 0
  BY <1>1, <1>3, <1>5
<1> QED
  BY <1>2, <1>5, <1>6, <1>7 DEF n

-----------------------------------------------------------------------------
(* Types *)

\* Every step keeps the types.
LEMMA TypeStep == CatalogueInv /\ [Next]_vars => TypeOK'
<1> SUFFICES ASSUME CatalogueInv, [Next]_vars PROVE TypeOK'
  OBVIOUS
<1>i. TypeOK /\ Standing \subseteq made /\ IsFiniteSet(Standing) /\ \A r \in Requests : CallKnown(r)
  BY FS_Subset DEF CatalogueInv
<1> USE <1>i DEF TypeOK, TablesTypeOK, Answer, Applied, history, tableVars
<1>1. CASE UNCHANGED vars
  BY <1>1 DEF vars
<1>2. ASSUME NEW r \in Requests, NEW c \in Calls, Receive(r, c) PROVE TypeOK'
  <2>1. {u \in Standing : OwnName(u)} \in SUBSET made
    OBVIOUS
  <2> QED
    BY <1>2, <2>1 DEF Receive
<1>3. ASSUME NEW r \in Requests, Create(r) PROVE TypeOK'
  <2>1. pc' \in [Requests -> {"idle", "called", "done", "failed", "dead"}]
    BY <1>3 DEF Create
  <2>2. CASE UNCHANGED <<name, made, steady, grown, tableVars>>
    BY <1>3, <2>1, <2>2 DEF Create
  <2>3. ASSUME NEW u \in ProductUuids \ made, CreateProduct(u, call[r].code, call[r].cost),
               name' = [name EXCEPT ![u] = call[r].name], made' = made \cup {u},
               steady' = [q \in Requests |-> {v \in steady[q] : name[v] # call[r].name}],
               grown' = [q \in Requests |-> grown[q] \/ Listing(q)]
        PROVE  TypeOK'
    <3>1. call[r].code \in Codes /\ call[r].cost \in Prices /\ call[r].name \in Names
      BY <1>3, CallShape DEF Create, Serves, CallKnown
    <3>2. product' \in [ProductUuids -> ProductRow \cup {NoRow}]
      <4>1. [code |-> call[r].code, cost |-> call[r].cost] \in ProductRow
        BY <3>1 DEF ProductRow
      <4> QED
        BY <2>3, <4>1 DEF CreateProduct
    <3>3. name' \in [ProductUuids -> Names \cup {NoRow}]
      BY <2>3, <3>1
    <3>4. steady' \in [Requests -> SUBSET made'] /\ made' \subseteq ProductUuids
      BY <2>3
    <3>5. grown' \in [Requests -> BOOLEAN]
      BY <2>3 DEF Listing
    <3> QED
      BY <1>3, <2>1, <2>3, <3>2, <3>3, <3>4, <3>5 DEF Create, CreateProduct
  <2> QED
    BY <1>3, <2>2, <2>3 DEF Create
<1>4. ASSUME NEW r \in Requests, Get(r) \/ Update(r) \/ Fail(r) PROVE TypeOK'
  BY <1>4 DEF Get, Update, Fail
<1>5. ASSUME NEW r \in Requests, List(r) PROVE TypeOK'
  <2>1. call[r].limit \in Nat \ {0} /\ pages[r] \in Seq(ProductUuids) /\ Len(pages[r]) \in Nat
    BY <1>5, CallShape, CatalogueAssumption DEF List, Serves, CallKnown
  <2>2. PICK page \in Page(call[r].limit, Len(pages[r])) :
          /\ pages' = [pages EXCEPT ![r] = @ \o page]
          /\ Answer(r, IF Len(page) < call[r].limit THEN "done" ELSE "called")
    BY <1>5 DEF List
  <2>3. page \in Seq(ProductUuids)
    <3>1. page \in Seq(Standing)
      BY <2>1, PageIs
    <3> QED
      BY <3>1 DEF Standing
  <2>4. pages' \in [Requests -> Seq(ProductUuids)]
    BY <2>1, <2>2, <2>3
  <2> QED
    BY <1>5, <2>2, <2>4 DEF List
<1>6. ASSUME NEW r \in Requests, Delete(r) PROVE TypeOK'
  <2>1. pc' \in [Requests -> {"idle", "called", "done", "failed", "dead"}]
    BY <1>6 DEF Delete
  <2>2. CASE UNCHANGED <<name, steady, shrunk, tableVars>>
    BY <1>6, <2>1, <2>2 DEF Delete
  <2>3. ASSUME NEW u \in Standing, DeleteProduct(u, Locked), Vanish(u) PROVE TypeOK'
    <3>1. product' \in [ProductUuids -> ProductRow \cup {NoRow}]
      BY <2>3 DEF DeleteProduct
    <3>2. /\ name' \in [ProductUuids -> Names \cup {NoRow}]
          /\ steady' \in [Requests -> SUBSET made] /\ shrunk' \in [Requests -> BOOLEAN]
      BY <2>3 DEF Vanish, Listing
    <3> QED
      BY <1>6, <2>1, <2>3, <3>1, <3>2 DEF Delete, DeleteProduct
  <2> QED
    BY <1>6, <2>2, <2>3 DEF Delete
<1>7. ASSUME NEW o \in OrderUuids, InsertLine(o) \/ RollBack(o) \/ DeleteLines(o) PROVE TypeOK'
  <2>1. orderProducts' \subseteq OrderProduct /\ UNCHANGED <<name, pc, call, pages, history, product, orders>>
    BY <1>7 DEF InsertLine, RollBack, DeleteLines
  <2>2. CASE InsertLine(o)
    <3>1. PICK u \in ProductUuids : open' = [open EXCEPT ![o] = open[o] \cup {u}]
      BY <2>2 DEF InsertLine, Standing
    <3> QED
      BY <2>1, <3>1
  <2>3. CASE RollBack(o) \/ DeleteLines(o)
    <3>1. open' = open \/ open' = [open EXCEPT ![o] = {}]
      BY <2>3 DEF RollBack, DeleteLines
    <3> QED
      BY <2>1, <3>1
  <2> QED
    BY <1>7, <2>2, <2>3
<1>8. ASSUME NEW o \in OrderUuids, CommitOrder(o) PROVE TypeOK'
  <2>1. PICK cost \in Prices :
          /\ orders' = [orders EXCEPT ![o] = cost]
          /\ orderProducts' = orderProducts \cup
               {[order |-> o, product |-> u, price |-> cost, amount |-> 1] : u \in open[o]}
    BY <1>8 DEF CommitOrder
  <2>2. \A u \in open[o] :
          [order |-> o, product |-> u, price |-> cost, amount |-> 1] \in OrderProduct
    BY DEF OrderProduct
  <2>3. orderProducts' \subseteq OrderProduct
    BY <2>1, <2>2
  <2>4. orders' \in [OrderUuids -> Int \cup {NoRow}]
    BY <2>1, TablesAssumption
  <2> QED
    BY <1>8, <2>3, <2>4 DEF CommitOrder
<1>9. CASE Crash
  BY <1>9 DEF Crash
<1> QED
  BY <1>1, <1>2, <1>3, <1>4, <1>5, <1>6, <1>7, <1>8, <1>9 DEF Next

-----------------------------------------------------------------------------
(* What a step does to the table, to the lines and to the calls *)

Creates(u) ==
  /\ u \in ProductUuids \ made /\ made' = made \cup {u}
  /\ \E c \in ProductRow : product' = [product EXCEPT ![u] = c]
  /\ \E x \in Names : name' = [name EXCEPT ![u] = x]
  /\ UNCHANGED <<open, orderProducts>>

Deletes(u) ==
  /\ u \in Standing \ (Locked \cup Referenced) /\ UNCHANGED made
  /\ product' = [product EXCEPT ![u] = NoRow] /\ name' = [name EXCEPT ![u] = NoRow]
  /\ UNCHANGED <<open, orderProducts>>
  /\ \E r \in Requests : Delete(r) /\ call[r].id = u /\ Applied(r)

TableStays == UNCHANGED <<product, name, made>>

LEMMA TableMoves ==
  CatalogueInv /\ [Next]_vars =>
    \/ TableStays /\ Locked' \cup Referenced' \subseteq Locked \cup Referenced \cup Standing
    \/ \E u \in ProductUuids : Creates(u) \/ Deletes(u)
<1> SUFFICES ASSUME CatalogueInv, [Next]_vars
             PROVE  \/ /\ TableStays
                       /\ Locked' \cup Referenced' \subseteq Locked \cup Referenced \cup Standing
                    \/ \E u \in ProductUuids : Creates(u) \/ Deletes(u)
  OBVIOUS
<1>i. TypeOK /\ LinesKeepProduct /\ \A r \in Requests : CallKnown(r)
  BY DEF CatalogueInv
<1> USE DEF TableStays
<1>1. UNCHANGED <<open, orderProducts>> => UNCHANGED <<Locked, Referenced>>
  BY DEF Locked, Referenced
<1>2. CASE UNCHANGED vars
  BY <1>1, <1>2 DEF vars
<1>3. ASSUME NEW r \in Requests,
             (\E c \in Calls : Receive(r, c)) \/ Get(r) \/ List(r) \/ Update(r) \/ Fail(r)
      PROVE  TableStays /\ UNCHANGED <<open, orderProducts>>
  BY <1>3 DEF Receive, Get, List, Update, Fail, history, tableVars
<1>4. ASSUME NEW r \in Requests, Create(r)
      PROVE  \/ TableStays /\ UNCHANGED <<open, orderProducts>>
             \/ \E u \in ProductUuids : Creates(u)
  <2>1. CASE ~ call[r].valid
    BY <1>4, <2>1 DEF Create, tableVars
  <2>2. CASE call[r].valid
    <3>1. call[r].code \in Codes /\ call[r].cost \in Prices /\ call[r].name \in Names
      BY <1>i, <1>4, CallShape DEF Create, Serves, CallKnown
    <3>2. [code |-> call[r].code, cost |-> call[r].cost] \in ProductRow
      BY <3>1 DEF ProductRow
    <3> QED
      BY <1>4, <2>2, <3>1, <3>2 DEF Create, Creates, CreateProduct
  <2> QED
    BY <2>1, <2>2
<1>5. ASSUME NEW r \in Requests, Delete(r)
      PROVE  \/ TableStays /\ UNCHANGED <<open, orderProducts>>
             \/ \E u \in ProductUuids : Deletes(u)
  <2>1. CASE UNCHANGED <<name, steady, shrunk, tableVars>>
    BY <1>5, <2>1 DEF Delete, tableVars
  <2>2. CASE call[r].id \in Standing /\ DeleteProduct(call[r].id, Locked) /\ Vanish(call[r].id)
             /\ Applied(r)
    <3>1. call[r].id \notin Referenced
      BY <2>2 DEF DeleteProduct, Referenced
    <3> QED
      BY <1>5, <2>2, <3>1 DEF Delete, Deletes, DeleteProduct, Vanish, Standing
  <2> QED
    BY <1>5, <2>1, <2>2 DEF Delete
<1>6. ASSUME NEW o \in OrderUuids, InsertLine(o)
      PROVE  TableStays /\ Locked' \cup Referenced' \subseteq Locked \cup Referenced \cup Standing
  <2>1. Referenced' = Referenced /\ TableStays
    BY <1>6 DEF InsertLine, Referenced, history, tableVars
  <2>2. \A p \in OrderUuids : open'[p] \subseteq open[p] \cup Standing
    BY <1>i, <1>6 DEF InsertLine, TypeOK
  <2> QED
    BY <2>1, <2>2 DEF Locked
<1>7. ASSUME NEW o \in OrderUuids, CommitOrder(o)
      PROVE  TableStays /\ Locked' \cup Referenced' \subseteq Locked \cup Referenced \cup Standing
  <2>1. TableStays
    BY <1>7 DEF CommitOrder, history
  <2>2. \A p \in OrderUuids : open'[p] \subseteq open[p]
    BY <1>i, <1>7 DEF CommitOrder, TypeOK
  <2>3. PICK cost \in Prices : orderProducts' = orderProducts \cup
          {[order |-> o, product |-> u, price |-> cost, amount |-> 1] : u \in open[o]}
    BY <1>7 DEF CommitOrder
  <2>4. Referenced' \subseteq Referenced \cup Locked
    BY <2>3 DEF Referenced, Locked
  <2> QED
    BY <2>1, <2>2, <2>4 DEF Locked
<1>8. ASSUME NEW o \in OrderUuids, RollBack(o) \/ DeleteLines(o)
      PROVE  TableStays /\ Locked' \cup Referenced' \subseteq Locked \cup Referenced
  <2>1. \A p \in OrderUuids : open'[p] \subseteq open[p]
    BY <1>i, <1>8 DEF RollBack, DeleteLines, TypeOK
  <2>2. orderProducts' \subseteq orderProducts /\ TableStays
    BY <1>8 DEF RollBack, DeleteLines, history, tableVars
  <2> QED
    BY <2>1, <2>2 DEF Locked, Referenced
<1>9. CASE Crash
  <2>1. \A p \in OrderUuids : open'[p] = {}
    BY <1>9 DEF Crash
  <2> QED
    BY <1>9, <2>1 DEF Crash, Locked, Referenced, history, tableVars
<1> QED
  BY <1>1, <1>2, <1>3, <1>4, <1>5, <1>6, <1>7, <1>8, <1>9 DEF Next

\* A call is received once and answered once.
CallMoves(r) ==
  \/ pc'[r] = pc[r] /\ call'[r] = call[r]
  \/ /\ pc[r] = "idle" /\ pc'[r] = "called"
     /\ call'[r] \in Calls
     /\ call'[r].operation = "Delete" => call'[r].id \in Codes \cup made
  \/ /\ pc[r] = "called" /\ call'[r] = call[r] /\ pc'[r] \in {"done", "failed", "dead"}
     /\ pc'[r] = "done" /\ call[r].operation = "Delete" => Delete(r)

LEMMA CallsMove ==
  ASSUME CatalogueInv, [Next]_vars, NEW r \in Requests
  PROVE  CallMoves(r)
<1>i. TypeOK /\ CallKnown(r)
  BY DEF CatalogueInv
<1> USE DEF CallMoves
<1>1. CASE UNCHANGED <<pc, call>>
  BY <1>1
<1>2. ASSUME NEW q \in Requests, NEW c \in Calls, Receive(q, c) PROVE CallMoves(r)
  <2>1. c.operation = "Delete" => c.id \in Codes \cup made
    <3>1. ASSUME c.operation = "Delete" PROVE "id" \in DOMAIN c
      BY <3>1, CallShape
    <3> QED
      BY <1>2, <3>1 DEF Receive
  <2> QED
    BY <1>i, <1>2, <2>1 DEF Receive, TypeOK
<1>3. ASSUME NEW q \in Requests, Create(q) \/ Get(q) \/ Update(q) \/ Fail(q) PROVE CallMoves(r)
  BY <1>i, <1>3 DEF Create, Get, Update, Fail, Serves, Answer, Applied, TypeOK
<1>4. ASSUME NEW q \in Requests, List(q) PROVE CallMoves(r)
  BY <1>i, <1>4 DEF List, Serves, Answer, TypeOK
<1>5. ASSUME NEW q \in Requests, Delete(q) PROVE CallMoves(r)
  <2>1. /\ pc[q] = "called" /\ call' = call
        /\ pc' = [pc EXCEPT ![q] = "done"] \/ pc' = [pc EXCEPT ![q] = "failed"]
    BY <1>5 DEF Delete, Serves, Answer, Applied
  <2> QED
    BY <1>i, <1>5, <2>1 DEF TypeOK
<1>6. ASSUME NEW o \in OrderUuids, InsertLine(o) \/ CommitOrder(o) \/ RollBack(o) \/ DeleteLines(o)
      PROVE  UNCHANGED <<pc, call>>
  BY <1>6 DEF InsertLine, CommitOrder, RollBack, DeleteLines
<1>7. CASE Crash
  BY <1>7 DEF Crash
<1> QED
  BY <1>1, <1>2, <1>3, <1>4, <1>5, <1>6, <1>7 DEF Next, vars

-----------------------------------------------------------------------------
(* The invariant *)

LEMMA RowsStep ==
  CatalogueInv /\ [Next]_vars =>
    (RowsNamed /\ Standing \subseteq made /\ IsFiniteSet(made) /\ LinesKeepProduct)'
<1> SUFFICES ASSUME CatalogueInv, [Next]_vars
             PROVE  (RowsNamed /\ Standing \subseteq made /\ IsFiniteSet(made) /\ LinesKeepProduct)'
  OBVIOUS
<1>i. /\ TypeOK /\ RowsNamed /\ Standing \subseteq made /\ IsFiniteSet(made)
      /\ Locked \cup Referenced \subseteq Standing
  BY DEF CatalogueInv, LinesKeepProduct
<1>1. CASE TableStays /\ Locked' \cup Referenced' \subseteq Locked \cup Referenced \cup Standing
  BY <1>i, <1>1 DEF TableStays, RowsNamed, LinesKeepProduct, Standing
<1>2. ASSUME NEW u \in ProductUuids, Creates(u)
      PROVE  (RowsNamed /\ Standing \subseteq made /\ IsFiniteSet(made) /\ LinesKeepProduct)'
  <2>1. NoRow \notin ProductRow /\ NoRow \notin Names
    BY TablesAssumption, CatalogueAssumption DEF ProductRow
  <2>2. Standing' = Standing \cup {u} /\ UNCHANGED <<Locked, Referenced>>
    BY <1>i, <1>2, <2>1 DEF Creates, Standing, Locked, Referenced, TypeOK, TablesTypeOK
  <2>3. RowsNamed'
    BY <1>i, <1>2, <2>1, <2>2 DEF Creates, RowsNamed, TypeOK
  <2>4. IsFiniteSet(made')
    BY <1>i, <1>2, FS_AddElement DEF Creates
  <2> QED
    BY <1>i, <1>2, <2>2, <2>3, <2>4 DEF Creates, LinesKeepProduct
<1>3. ASSUME NEW u \in ProductUuids, Deletes(u)
      PROVE  (RowsNamed /\ Standing \subseteq made /\ IsFiniteSet(made) /\ LinesKeepProduct)'
  <2>1. Standing' = Standing \ {u} /\ UNCHANGED <<Locked, Referenced>>
    BY <1>i, <1>3 DEF Deletes, Standing, Locked, Referenced, TypeOK, TablesTypeOK
  <2>2. RowsNamed'
    BY <1>i, <1>3, <2>1 DEF Deletes, RowsNamed, TypeOK
  <2> QED
    BY <1>i, <1>3, <2>1, <2>2 DEF Deletes, LinesKeepProduct
<1> QED
  BY <1>1, <1>2, <1>3, TableMoves

LEMMA CallsStep ==
  CatalogueInv /\ [Next]_vars => \A r \in Requests : CallKnown(r)'
<1> SUFFICES ASSUME CatalogueInv, [Next]_vars, NEW r \in Requests PROVE CallKnown(r)'
  OBVIOUS
<1>1. CallKnown(r) /\ CallMoves(r)
  BY CallsMove DEF CatalogueInv
<1>2. made \subseteq made'
  BY TableMoves DEF TableStays, Creates, Deletes
<1> QED
  BY <1>1, <1>2 DEF CallKnown, CallMoves

LEMMA DeletedStep == CatalogueInv /\ [Next]_vars => DeletedForGood'
<1> SUFFICES ASSUME CatalogueInv, [Next]_vars, NEW r \in Requests,
                    pc'[r] = "done", call'[r].operation = "Delete"
             PROVE  call'[r].id \notin (Standing \cup Referenced \cup Locked)'
  BY DEF DeletedForGood
<1> DEFINE id == call[r].id
<1>i. /\ TypeOK /\ CallKnown(r) /\ CallMoves(r) /\ Locked \cup Referenced \subseteq Standing
      /\ Standing \subseteq made
  BY CallsMove DEF CatalogueInv, LinesKeepProduct
<1>1. call'[r] = call[r] /\ (pc[r] = "done" \/ (pc[r] = "called" /\ Delete(r)))
  BY <1>i DEF CallMoves
<1>2. CASE pc[r] = "done"
  <2>1. id \notin Standing \cup Referenced \cup Locked
    BY <1>1, <1>2 DEF CatalogueInv, DeletedForGood
  <2>2. \A u \in ProductUuids : Creates(u) => id # u
    BY <1>i, <1>1, <1>2, CatalogueAssumption DEF Creates, CallKnown
  <2>3. Standing' \subseteq Standing \/ \E u \in ProductUuids : Creates(u) /\ Standing' \subseteq Standing \cup {u}
    <3>1. CASE TableStays
      BY <3>1 DEF TableStays, Standing
    <3>2. ASSUME NEW u \in ProductUuids, Creates(u) PROVE Standing' \subseteq Standing \cup {u}
      BY <1>i, <3>2 DEF Creates, Standing, TypeOK, TablesTypeOK
    <3>3. ASSUME NEW u \in ProductUuids, Deletes(u) PROVE Standing' \subseteq Standing
      BY <1>i, <3>3 DEF Deletes, Standing, TypeOK, TablesTypeOK
    <3> QED
      BY <3>1, <3>2, <3>3, TableMoves
  <2>4. Locked' \cup Referenced' \subseteq Locked \cup Referenced \cup Standing
    BY TableMoves DEF Creates, Deletes, Locked, Referenced
  <2>5. id \notin Standing'
    BY <2>1, <2>2, <2>3
  <2>6. id \notin Locked' \cup Referenced'
    BY <2>1, <2>4
  <2> QED
    BY <1>1, <2>5, <2>6
<1>3. CASE pc[r] = "called" /\ Delete(r)
  <2>1. UNCHANGED <<Locked, Referenced>>
    BY <1>3 DEF Delete, DeleteProduct, Locked, Referenced, tableVars
  <2>2. CASE id \in Standing /\ DeleteProduct(id, Locked)
    <3>1. id \notin Standing' \cup Locked \cup Referenced
      BY <1>i, <2>2 DEF DeleteProduct, Standing, Referenced, TypeOK, TablesTypeOK
    <3> QED
      BY <1>1, <2>1, <3>1
  <2>3. CASE id \notin Standing /\ UNCHANGED tableVars
    BY <1>i, <1>1, <2>1, <2>3 DEF Standing, tableVars
  <2>4. ~ Answer(r, "failed")
    BY <1>i DEF Answer, TypeOK
  <2> QED
    BY <1>3, <2>2, <2>3, <2>4 DEF Delete
<1> QED
  BY <1>1, <1>2, <1>3

LEMMA VanishStep == CatalogueInv /\ [Next]_vars => OnlyNamedVanish'
<1> SUFFICES ASSUME CatalogueInv, [Next]_vars, NEW u \in made' \ Standing'
             PROVE  \E r \in Requests : /\ pc'[r] \in {"done", "failed"}
                                        /\ call'[r] = [operation |-> "Delete", id |-> u]
  BY DEF OnlyNamedVanish
<1>i. TypeOK /\ OnlyNamedVanish /\ (\A r \in Requests : CallKnown(r) /\ CallMoves(r))
  BY CallsMove DEF CatalogueInv
<1>1. CASE u \in made \ Standing
  BY <1>i, <1>1 DEF OnlyNamedVanish, CallMoves
<1>2. CASE u \notin made \ Standing
  <2>1. Deletes(u)
    <3>1. NoRow \notin ProductRow
      BY TablesAssumption DEF ProductRow
    <3>2. ~ TableStays
      BY <1>2 DEF TableStays, Standing
    <3>3. \A v \in ProductUuids : ~ Creates(v)
      BY <1>i, <1>2, <3>1 DEF Creates, Standing, TypeOK, TablesTypeOK
    <3>4. \A v \in ProductUuids : Deletes(v) => v = u
      BY <1>i, <1>2 DEF Deletes, Standing, TypeOK, TablesTypeOK
    <3> QED
      BY <3>2, <3>3, <3>4, TableMoves
  <2>2. PICK r \in Requests : Delete(r) /\ call[r].id = u /\ Applied(r)
    BY <2>1 DEF Deletes
  <2>3. call[r] = [operation |-> "Delete", id |-> u]
    BY <1>i, <2>2, CallShape DEF Delete, Serves, CallKnown
  <2>4. call' = call /\ pc'[r] \in {"done", "failed"}
    BY <1>i, <2>2 DEF Delete, Applied, Answer, TypeOK
  <2> QED
    BY <2>3, <2>4
<1> QED
  BY <1>1, <1>2

LEMMA CatalogueInvariance == Safety => []CatalogueInv
<1>1. Init => CatalogueInv
  BY InitCatalogueInv
<1>2. CatalogueInv /\ [Next]_vars => CatalogueInv'
  BY TypeStep, RowsStep, CallsStep, DeletedStep, VanishStep DEF CatalogueInv
<1> QED
  BY <1>1, <1>2, PTL DEF Safety

-----------------------------------------------------------------------------
(* Pages while the table changes *)

Below(u) == {v \in Standing : name[v] < name[u]}

\* Where a product with a name of its own stands, in whatever order rows of equal
\* name come.
Rank(u) == Cardinality(Below(u)) + 1

\* What is known of a listing that goes on: a row not seen yet is still ahead of the
\* offset, unless a deletion moved it up; a row seen is behind the offset, unless a
\* creation moved it down.
Listed(r) ==
  /\ shrunk[r] \/ \A u \in steady[r] : u \in Range(pages[r]) \/ Rank(u) > Len(pages[r])
  /\ grown[r] \/ \A i \in DOMAIN pages[r] : pages[r][i] \in steady[r] =>
       /\ Rank(pages[r][i]) <= Len(pages[r])
       /\ \A j \in DOMAIN pages[r] : pages[r][i] = pages[r][j] => i = j

\* PagesComplete, for one listing that has ended.
ListedAll(r) ==
  /\ shrunk[r] \/ steady[r] \subseteq Range(pages[r])
  /\ grown[r] \/ \A i, j \in DOMAIN pages[r] :
       pages[r][i] = pages[r][j] /\ pages[r][i] \in steady[r] => i = j

PagesKnown(r) ==
  /\ \A u \in steady[r] : u \in Standing /\ OwnName(u)
  /\ pc[r] = "idle" => pages[r] = <<>>
  /\ Listing(r) => Listed(r)
  /\ pc[r] = "done" /\ call[r].operation = "List" => ListedAll(r)

\* The inductive invariant behind PagesComplete.
PagesInv == CatalogueInv /\ \A r \in Requests : PagesKnown(r)

LEMMA NamesAreOrdered == CatalogueInv => \A u \in Standing : name[u] \in Int
  BY CatalogueAssumption, TablesAssumption DEF CatalogueInv, RowsNamed, TypeOK, Standing

LEMMA StandingIsFinite == CatalogueInv => IsFiniteSet(Standing)
  BY FS_Subset DEF CatalogueInv

LEMMA RankType ==
  ASSUME CatalogueInv, NEW u \in Standing
  PROVE  Rank(u) \in 1 .. Cardinality(Standing)
<1>1. Below(u) \subseteq Standing \ {u}
  BY NamesAreOrdered DEF Below
<1>2. IsFiniteSet(Standing \ {u}) /\ Cardinality(Standing \ {u}) = Cardinality(Standing) - 1
  BY StandingIsFinite, FS_RemoveElement
<1>3. Cardinality(Below(u)) \in Nat /\ Cardinality(Below(u)) <= Cardinality(Standing \ {u})
  BY <1>1, <1>2, FS_Subset, FS_CardinalityType
<1>4. Cardinality(Standing) \in Nat
  BY StandingIsFinite, FS_CardinalityType
<1> QED
  BY <1>2, <1>3, <1>4 DEF Rank

\* Every row has a place in the order.
LEMMA EveryRowIsSorted ==
  ASSUME CatalogueInv, NEW s, Sorted(s), NEW u \in Standing
  PROVE  \E k \in 1 .. Cardinality(Standing) : s[k] = u
<1> DEFINE n == Cardinality(Standing)
<1>1. IsFiniteSet(Standing) /\ n \in Nat
  BY StandingIsFinite, FS_CardinalityType
<1>2. IsFiniteSet(1 .. n) /\ Cardinality(1 .. n) = n
  BY <1>1, FS_Interval
<1>3. s \in Injection(1 .. n, Standing)
  BY DEF Sorted, Injection
<1>4. s \in Surjection(1 .. n, Standing)
  BY <1>1, <1>2, <1>3, FS_Injection
<1> QED
  BY <1>4 DEF Surjection

\* A row with a name of its own has the place that its rank says.
LEMMA PlaceIsRank ==
  ASSUME CatalogueInv, NEW s, Sorted(s),
         NEW k \in 1 .. Cardinality(Standing), OwnName(s[k])
  PROVE  Rank(s[k]) = k
<1> DEFINE n == Cardinality(Standing)
           before == [i \in 1 .. k - 1 |-> s[i]]
<1>1. n \in Nat /\ k \in 1 .. n
  BY StandingIsFinite, FS_CardinalityType
<1>2. /\ s \in [1 .. n -> Standing] /\ \A i, j \in 1 .. n : s[i] = s[j] => i = j
      /\ \A i, j \in 1 .. n : i < j => name[s[i]] <= name[s[j]]
  BY DEF Sorted, IsInjective
<1> HIDE DEF n
<1>3. \A i \in 1 .. n : i < k <=> name[s[i]] < name[s[k]]
  <2> SUFFICES ASSUME NEW i \in 1 .. n PROVE i < k <=> name[s[i]] < name[s[k]]
    OBVIOUS
  <2>1. name[s[i]] \in Int /\ name[s[k]] \in Int
    BY <1>1, <1>2, NamesAreOrdered
  <2>2. CASE i < k
    BY <1>1, <1>2, <2>1, <2>2 DEF OwnName
  <2>3. CASE i = k
    BY <1>1, <2>1, <2>3
  <2>4. CASE k < i
    BY <1>1, <1>2, <2>1, <2>4
  <2> QED
    BY <1>1, <2>2, <2>3, <2>4
<1>4. before \in Bijection(1 .. k - 1, Below(s[k]))
  <2>1. before \in [1 .. k - 1 -> Below(s[k])]
    BY <1>1, <1>2, <1>3 DEF Below
  <2>2. IsInjective(before)
    BY <1>1, <1>2 DEF IsInjective
  <2>3. \A v \in Below(s[k]) : \E i \in 1 .. k - 1 : before[i] = v
    <3> SUFFICES ASSUME NEW v \in Below(s[k]) PROVE \E i \in 1 .. k - 1 : before[i] = v
      OBVIOUS
    <3>1. PICK i \in 1 .. n : s[i] = v
      BY EveryRowIsSorted DEF Below, n
    <3>2. i \in 1 .. k - 1
      BY <1>1, <1>3, <3>1 DEF Below
    <3> QED
      BY <3>1, <3>2
  <2> QED
    BY <2>1, <2>2, <2>3 DEF Bijection, Injection, Surjection
<1>5. Cardinality(Below(s[k])) = k - 1
  BY <1>1, <1>4, FS_CountingElements, Fun_ExistsBij
<1> QED
  BY <1>1, <1>5 DEF Rank

\* A page brings on, in the order of their ranks, the rows behind the offset.
LEMMA PageAdds ==
  ASSUME PagesInv, NEW r \in Requests, Listing(r),
         NEW page \in Page(call[r].limit, Len(pages[r])), pages'[r] = pages[r] \o page
  PROVE  /\ shrunk[r] \/ \A u \in steady[r] :
                u \in Range(pages'[r]) \/ Rank(u) > Len(pages[r]) + call[r].limit
         /\ grown[r] \/ \A i \in DOMAIN pages'[r] : pages'[r][i] \in steady[r] =>
              /\ Rank(pages'[r][i]) <= Len(pages'[r])
              /\ \A j \in DOMAIN pages'[r] : pages'[r][i] = pages'[r][j] => i = j
         /\ Len(page) < call[r].limit => Len(pages[r]) + call[r].limit > Cardinality(Standing)
         /\ Len(page) >= call[r].limit => Len(pages'[r]) = Len(pages[r]) + call[r].limit
<1> DEFINE n == Cardinality(Standing)
           limit == call[r].limit
           old == pages[r]
           new == pages'[r]
<1>i. CatalogueInv /\ PagesKnown(r) /\ Listed(r) /\ IsFiniteSet(Standing)
  BY StandingIsFinite DEF PagesInv, PagesKnown
<1>1. limit \in Nat \ {0} /\ old \in Seq(ProductUuids) /\ n \in Nat
  BY <1>i, CallShape, CatalogueAssumption, FS_CardinalityType
  DEF CatalogueInv, CallKnown, Listing, TypeOK
<1>2. PICK s : /\ Sorted(s) /\ page \in Seq(Standing)
               /\ Len(page) = IF Len(old) + limit <= n THEN limit
                              ELSE IF Len(old) <= n THEN n - Len(old) ELSE 0
               /\ \A i \in 1 .. Len(page) : page[i] = s[Len(old) + i]
  <2>1. Len(old) \in Nat /\ page \in Page(limit, Len(old))
    BY <1>1
  <2> HIDE DEF limit, old, n
  <2>2. \E s : /\ Sorted(s) /\ page \in Seq(Standing)
               /\ Len(page) = IF Len(old) + limit <= Cardinality(Standing) THEN limit
                              ELSE IF Len(old) <= Cardinality(Standing)
                                THEN Cardinality(Standing) - Len(old) ELSE 0
               /\ \A i \in 1 .. Len(page) : page[i] = s[Len(old) + i]
    BY <1>i, <1>1, <2>1, PageIs
  <2> QED
    BY <2>2 DEF n
<1>3. \A u \in steady[r] : u \in Standing /\ OwnName(u)
  BY <1>i DEF PagesKnown
<1>4. \A u \in steady[r] : Rank(u) \in 1 .. n /\ s[Rank(u)] = u
  <2> SUFFICES ASSUME NEW u \in steady[r] PROVE Rank(u) \in 1 .. n /\ s[Rank(u)] = u
    OBVIOUS
  <2>1. PICK k \in 1 .. n : s[k] = u
    BY <1>i, <1>2, <1>3, EveryRowIsSorted
  <2>2. Rank(s[k]) = k
    BY <1>i, <1>2, <1>3, <2>1, PlaceIsRank
  <2> QED
    BY <2>1, <2>2
<1>5. \A k \in 1 .. n : s[k] \in steady[r] => Rank(s[k]) = k
  BY <1>i, <1>2, <1>3, PlaceIsRank
<1>l. /\ shrunk[r] \/ \A u \in steady[r] : u \in Range(old) \/ Rank(u) > Len(old)
      /\ grown[r] \/ \A i \in DOMAIN old : old[i] \in steady[r] =>
           /\ Rank(old[i]) <= Len(old)
           /\ \A j \in DOMAIN old : old[i] = old[j] => i = j
  BY <1>i DEF Listed
<1>n. new = old \o page
  OBVIOUS
<1> HIDE DEF n, limit, old, new
<1>6. /\ new = old \o page /\ Len(old) \in Nat /\ Len(page) \in Nat
      /\ Len(new) = Len(old) + Len(page)
      /\ DOMAIN new = 1 .. Len(new) /\ DOMAIN old = 1 .. Len(old)
      /\ \A i \in 1 .. Len(old) : new[i] = old[i]
      /\ \A i \in 1 .. Len(page) : new[Len(old) + i] = page[i]
  <2>1. page \in Seq(ProductUuids)
    BY <1>2 DEF Standing
  <2> QED
    BY <1>1, <1>n, <2>1
<1>7. \A i \in 1 .. Len(new) : i > Len(old) => i \in 1 .. n /\ new[i] = s[i]
  <2> SUFFICES ASSUME NEW i \in 1 .. Len(new), i > Len(old) PROVE i \in 1 .. n /\ new[i] = s[i]
    OBVIOUS
  <2>1. i - Len(old) \in 1 .. Len(page) /\ Len(old) + (i - Len(old)) = i
    BY <1>6
  <2> QED
    BY <1>1, <1>2, <1>6, <2>1
<1>8. ASSUME ~ shrunk[r], NEW u \in steady[r], Rank(u) <= Len(old) + limit
      PROVE  u \in Range(new)
  <2>1. CASE u \in Range(old)
    BY <1>6, <2>1 DEF Range
  <2>2. CASE Rank(u) > Len(old)
    <3>1. Rank(u) \in 1 .. Len(new)
      BY <1>1, <1>2, <1>4, <1>6, <1>8, <2>2
    <3>2. new[Rank(u)] = u
      BY <1>4, <1>7, <2>2, <3>1
    <3> QED
      BY <1>6, <3>1, <3>2 DEF Range
  <2> QED
    BY <1>l, <1>8, <2>1, <2>2
<1>9. ASSUME ~ grown[r], NEW i \in 1 .. Len(new), new[i] \in steady[r]
      PROVE  Rank(new[i]) <= Len(new) /\ (i > Len(old) <=> Rank(new[i]) > Len(old))
  <2>1. CASE i <= Len(old)
    <3>1. Rank(old[i]) <= Len(old)
      BY <1>l, <1>6, <1>9, <2>1
    <3> QED
      BY <1>4, <1>6, <1>9, <2>1, <3>1
  <2>2. CASE i > Len(old)
    BY <1>5, <1>6, <1>7, <1>9, <2>2
  <2> QED
    BY <1>6, <2>1, <2>2
<1>10. ASSUME ~ grown[r], NEW i \in 1 .. Len(new), NEW j \in 1 .. Len(new),
              new[i] \in steady[r], new[i] = new[j]
       PROVE  i = j
  <2>1. i > Len(old) <=> j > Len(old)
    BY <1>9, <1>10
  <2>2. CASE i <= Len(old)
    <3>1. i \in DOMAIN old /\ j \in DOMAIN old /\ new[i] = old[i] /\ new[j] = old[j]
      BY <1>6, <1>10, <2>1, <2>2
    <3> QED
      BY <1>l, <1>10, <3>1
  <2>3. CASE i > Len(old)
    BY <1>5, <1>7, <1>10, <2>1, <2>3
  <2> QED
    BY <1>6, <2>2, <2>3
<1>11. \A u \in steady[r] : Rank(u) <= Len(old) + limit \/ Rank(u) > Len(old) + limit
  BY <1>1, <1>4, <1>6
<1>12. /\ Len(page) < limit => Len(old) + limit > n
       /\ Len(page) >= limit => Len(new) = Len(old) + limit
  BY <1>1, <1>2, <1>6
<1>13. shrunk[r] \/ \A u \in steady[r] : u \in Range(new) \/ Rank(u) > Len(old) + limit
  BY <1>8, <1>11
<1>14. grown[r] \/ \A i \in DOMAIN new : new[i] \in steady[r] =>
         /\ Rank(new[i]) <= Len(new)
         /\ \A j \in DOMAIN new : new[i] = new[j] => i = j
  BY <1>6, <1>9, <1>10
<1> QED
  BY <1>12, <1>13, <1>14 DEF n, limit, old, new

\* Pages outlast a change of the table that moves, of the rows that count, none up
\* unless shrunk says so, and none down unless grown does.
LEMMA PagesOutlast ==
  ASSUME PagesInv, NEW r \in Requests, IsFiniteSet(Standing'),
         pages'[r] = pages[r],
         pc'[r] = "idle" => pc[r] = "idle",
         Listing(r)' => Listing(r),
         pc'[r] = "done" /\ call'[r].operation = "List" =>
           pc[r] = "done" /\ call[r].operation = "List",
         shrunk[r] => shrunk'[r], grown[r] => grown'[r],
         \A u \in steady'[r] : u \in steady[r] /\ u \in Standing' /\ OwnName(u)',
         Listing(r) /\ ~ shrunk'[r] => \A u \in steady'[r] : Below(u) \subseteq Below(u)',
         Listing(r) /\ ~ grown'[r] => \A u \in steady'[r] : Below(u)' \subseteq Below(u)
  PROVE  PagesKnown(r)'
<1>1. IsFiniteSet(Standing) /\ PagesKnown(r)
  BY StandingIsFinite DEF PagesInv
<1>2. \A u \in steady'[r] : IsFiniteSet(Below(u)) /\ IsFiniteSet(Below(u)')
  <2>1. \A u \in steady'[r] : Below(u) \in SUBSET Standing /\ Below(u)' \in SUBSET Standing'
    BY DEF Below
  <2> QED
    BY <1>1, <2>1, FS_Subset
<1>3. \A u \in steady'[r] : Rank(u) \in Nat /\ Rank(u)' \in Nat
  BY <1>2, FS_CardinalityType DEF Rank
<1>4. Listing(r) /\ ~ shrunk'[r] => \A u \in steady'[r] : Rank(u) <= Rank(u)'
  <2>1. \A u \in steady'[r] : Below(u) \subseteq Below(u)' => Cardinality(Below(u)) <= Cardinality(Below(u)')
    BY <1>2, FS_Subset
  <2>2. \A u \in steady'[r] : Cardinality(Below(u)) \in Nat /\ Cardinality(Below(u)') \in Nat
    BY <1>2, FS_CardinalityType
  <2> QED
    BY <2>1, <2>2 DEF Rank
<1>5. Listing(r) /\ ~ grown'[r] => \A u \in steady'[r] : Rank(u)' <= Rank(u)
  <2>1. \A u \in steady'[r] : Below(u)' \subseteq Below(u) => Cardinality(Below(u)') <= Cardinality(Below(u))
    BY <1>2, FS_Subset
  <2>2. \A u \in steady'[r] : Cardinality(Below(u)) \in Nat /\ Cardinality(Below(u)') \in Nat
    BY <1>2, FS_CardinalityType
  <2> QED
    BY <2>1, <2>2 DEF Rank
<1>6. Len(pages[r]) \in Nat
  BY DEF PagesInv, CatalogueInv, TypeOK
<1>7. Listing(r)' => Listed(r)'
  <2> SUFFICES ASSUME Listing(r)' PROVE Listed(r)'
    OBVIOUS
  <2>1. Listed(r)
    BY <1>1 DEF PagesKnown
  <2>2. shrunk'[r] \/ \A u \in steady'[r] : u \in Range(pages[r]) \/ Rank(u)' > Len(pages[r])
    BY <1>3, <1>4, <1>6, <2>1 DEF Listed
  <2>3. grown'[r] \/ \A i \in DOMAIN pages[r] : pages[r][i] \in steady'[r] =>
          /\ Rank(pages[r][i])' <= Len(pages[r])
          /\ \A j \in DOMAIN pages[r] : pages[r][i] = pages[r][j] => i = j
    BY <1>3, <1>5, <1>6, <2>1 DEF Listed
  <2> QED
    BY <2>2, <2>3 DEF Listed
<1>8. pc'[r] = "done" /\ call'[r].operation = "List" => ListedAll(r)'
  BY <1>1 DEF PagesKnown, ListedAll
<1> QED
  BY <1>1, <1>7, <1>8 DEF PagesKnown

LEMMA InitPagesInv == Init => PagesInv
  BY InitCatalogueInv DEF Init, PagesInv, PagesKnown, Listing

LEMMA ReceiveKeepsPages ==
  ASSUME PagesInv, NEW r \in Requests, NEW c \in Calls, Receive(r, c)
  PROVE  PagesKnown(r)'
<1>1. /\ pc'[r] = "called" /\ pages'[r] = <<>> /\ CatalogueInv
      /\ \A u \in steady'[r] : u \in Standing /\ OwnName(u)
  BY DEF Receive, PagesInv, PagesKnown, CatalogueInv, TypeOK
<1>2. UNCHANGED <<name, product>>
  BY DEF Receive, tableVars
<1>3. Standing' = Standing /\ \A u : OwnName(u)' = OwnName(u) /\ Rank(u)' = Rank(u)
  BY <1>2 DEF Standing, OwnName, Rank, Below
<1>4. \A u \in steady'[r] : Rank(u)' > 0
  BY <1>1, <1>3, RankType
<1> QED
  BY <1>1, <1>3, <1>4 DEF PagesKnown, Listed, Listing

LEMMA ListKeepsPages ==
  ASSUME PagesInv, NEW r \in Requests, List(r)
  PROVE  PagesKnown(r)'
<1>i. CatalogueInv /\ PagesKnown(r) /\ Listing(r) /\ TypeOK
  BY DEF PagesInv, List, Serves, Listing, CatalogueInv
<1>1. PICK page \in Page(call[r].limit, Len(pages[r])) :
        /\ pages' = [pages EXCEPT ![r] = @ \o page]
        /\ Answer(r, IF Len(page) < call[r].limit THEN "done" ELSE "called")
  BY DEF List
<1>2. pages'[r] = pages[r] \o page
  BY <1>1 DEF PagesInv, CatalogueInv, TypeOK
<1>3. /\ shrunk[r] \/ \A u \in steady[r] :
            u \in Range(pages'[r]) \/ Rank(u) > Len(pages[r]) + call[r].limit
      /\ grown[r] \/ \A i \in DOMAIN pages'[r] : pages'[r][i] \in steady[r] =>
           /\ Rank(pages'[r][i]) <= Len(pages'[r])
           /\ \A j \in DOMAIN pages'[r] : pages'[r][i] = pages'[r][j] => i = j
      /\ Len(page) < call[r].limit => Len(pages[r]) + call[r].limit > Cardinality(Standing)
      /\ Len(page) >= call[r].limit => Len(pages'[r]) = Len(pages[r]) + call[r].limit
  BY <1>i, <1>2, PageAdds
<1>4. /\ UNCHANGED <<name, product, call, steady, shrunk, grown>>
      /\ pc'[r] = IF Len(page) < call[r].limit THEN "done" ELSE "called"
  BY <1>i, <1>1 DEF List, history, tableVars, Answer, TypeOK
<1>5. Standing' = Standing /\ \A u : OwnName(u)' = OwnName(u) /\ Rank(u)' = Rank(u)
  BY <1>4 DEF Standing, OwnName, Rank, Below
<1>6. /\ call[r].limit \in Nat /\ Len(pages[r]) \in Nat /\ Cardinality(Standing) \in Nat
      /\ \A u \in steady[r] : Rank(u) \in 1 .. Cardinality(Standing)
  <2>1. call[r].limit \in Nat
    BY <1>i, CallShape, CatalogueAssumption DEF CatalogueInv, CallKnown, Listing
  <2>2. Len(pages[r]) \in Nat
    BY <1>i DEF TypeOK
  <2> QED
    BY <1>i, <2>1, <2>2, StandingIsFinite, FS_CardinalityType, RankType DEF PagesKnown
<1>7. CASE Len(page) < call[r].limit
  <2>1. shrunk[r] \/ steady[r] \subseteq Range(pages'[r])
    BY <1>3, <1>6, <1>7
  <2> QED
    BY <1>i, <1>3, <1>4, <1>5, <1>7, <2>1 DEF PagesKnown, ListedAll, Listing
<1>8. CASE ~ (Len(page) < call[r].limit)
  <2>1. Len(page) \in Nat
    BY <1>i, <1>6, PageIs, CallShape, CatalogueAssumption, StandingIsFinite
    DEF CatalogueInv, CallKnown, Listing
  <2>2. Len(pages'[r]) = Len(pages[r]) + call[r].limit
    BY <1>3, <1>6, <1>8, <2>1
  <2> QED
    BY <1>i, <1>3, <1>4, <1>5, <1>8, <2>2 DEF PagesKnown, Listed, Listing
<1> QED
  BY <1>7, <1>8

LEMMA CreateKeepsPages ==
  ASSUME PagesInv, CatalogueInv', NEW q \in Requests, Create(q), NEW r \in Requests
  PROVE  PagesKnown(r)'
<1>i. /\ CatalogueInv /\ PagesKnown(r) /\ TypeOK /\ RowsNamed /\ Standing \subseteq made
      /\ IsFiniteSet(Standing')
  BY FS_Subset DEF PagesInv, CatalogueInv
<1>1. /\ UNCHANGED <<pages, call, shrunk>>
      /\ pc'[r] = pc[r] \/ (r = q /\ pc'[r] \in {"done", "failed"})
      /\ call[q].operation = "Create"
  BY <1>i DEF Create, Applied, Answer, Serves, TypeOK
<1>2. CASE UNCHANGED <<name, made, steady, grown, tableVars>>
  <2>1. Standing' = Standing /\ \A u : OwnName(u)' = OwnName(u) /\ Below(u)' = Below(u)
    BY <1>2 DEF Standing, OwnName, Below, tableVars
  <2> QED
    BY <1>i, <1>1, <1>2, <2>1, PagesOutlast DEF PagesKnown, Listing
<1>3. ASSUME NEW u \in ProductUuids \ made, CreateProduct(u, call[q].code, call[q].cost),
             name' = [name EXCEPT ![u] = call[q].name],
             steady' = [p \in Requests |-> {v \in steady[p] : name[v] # call[q].name}],
             grown' = [p \in Requests |-> grown[p] \/ Listing(p)]
      PROVE  PagesKnown(r)'
  <2>1. /\ Standing' \subseteq Standing \cup {u} /\ Standing \subseteq Standing'
        /\ u \notin Standing
        /\ name'[u] = call[q].name /\ \A v \in Standing : name'[v] = name[v]
    BY <1>i, <1>3 DEF CreateProduct, Standing, TypeOK, TablesTypeOK
  <2>2. \A v \in steady'[r] :
          v \in steady[r] /\ v \in Standing /\ OwnName(v) /\ name[v] # call[q].name
    BY <1>i, <1>3 DEF PagesKnown
  <2>3. \A v \in steady'[r] : v \in Standing' /\ OwnName(v)'
    BY <2>1, <2>2 DEF OwnName
  <2>4. \A v \in steady'[r] : Below(v) \subseteq Below(v)'
    BY <2>1, <2>2 DEF Below
  <2>5. (grown[r] \/ Listing(r)) => grown'[r]
    BY <1>3
  <2>6. /\ pc'[r] = "idle" => pc[r] = "idle"
        /\ Listing(r)' => Listing(r)
        /\ pc'[r] = "done" /\ call'[r].operation = "List" =>
             pc[r] = "done" /\ call[r].operation = "List"
    BY <1>1 DEF Listing
  <2> QED
    BY <1>i, <1>1, <2>2, <2>3, <2>4, <2>5, <2>6, PagesOutlast
<1> QED
  BY <1>2, <1>3 DEF Create

LEMMA DeleteKeepsPages ==
  ASSUME PagesInv, CatalogueInv', NEW q \in Requests, Delete(q), NEW r \in Requests
  PROVE  PagesKnown(r)'
<1>i. /\ CatalogueInv /\ PagesKnown(r) /\ TypeOK /\ IsFiniteSet(Standing')
  BY FS_Subset DEF PagesInv, CatalogueInv
<1>1. /\ UNCHANGED <<pages, call, grown>>
      /\ pc'[r] = pc[r] \/ (r = q /\ pc'[r] \in {"done", "failed"})
      /\ call[q].operation = "Delete"
  BY <1>i DEF Delete, Applied, Answer, Serves, TypeOK
<1>2. CASE UNCHANGED <<name, steady, shrunk, tableVars>>
  <2>1. Standing' = Standing /\ \A u : OwnName(u)' = OwnName(u) /\ Below(u)' = Below(u)
    BY <1>2 DEF Standing, OwnName, Below, tableVars
  <2> QED
    BY <1>i, <1>1, <1>2, <2>1, PagesOutlast DEF PagesKnown, Listing
<1>3. ASSUME NEW u \in Standing, DeleteProduct(u, Locked), Vanish(u)
      PROVE  PagesKnown(r)'
  <2>1. Standing' = Standing \ {u} /\ \A v \in Standing' : name'[v] = name[v]
    BY <1>i, <1>3 DEF DeleteProduct, Vanish, Standing, TypeOK, TablesTypeOK
  <2>2. \A v \in steady'[r] : v \in steady[r] /\ v \in Standing' /\ OwnName(v)
    BY <1>i, <1>3, <2>1 DEF Vanish, PagesKnown
  <2>3. \A v \in steady'[r] : OwnName(v)'
    BY <2>1, <2>2 DEF OwnName
  <2>4. \A v \in steady'[r] : Below(v)' \subseteq Below(v)
    BY <2>1, <2>2 DEF Below
  <2>5. (shrunk[r] \/ Listing(r)) => shrunk'[r]
    BY <1>3 DEF Vanish
  <2>6. /\ pc'[r] = "idle" => pc[r] = "idle"
        /\ Listing(r)' => Listing(r)
        /\ pc'[r] = "done" /\ call'[r].operation = "List" =>
             pc[r] = "done" /\ call[r].operation = "List"
    BY <1>1 DEF Listing
  <2> QED
    BY <1>i, <1>1, <2>2, <2>3, <2>4, <2>5, <2>6, PagesOutlast
<1> QED
  BY <1>2, <1>3 DEF Delete

\* No other step touches the table, or the listing of a call that is not its own.
LEMMA OthersKeepPages ==
  ASSUME PagesInv, NEW r \in Requests, UNCHANGED <<name, product, made, shrunk, grown>>,
         steady'[r] = steady[r], pages'[r] = pages[r],
         pc'[r] = "idle" => pc[r] = "idle",
         Listing(r)' => Listing(r),
         pc'[r] = "done" /\ call'[r].operation = "List" =>
           pc[r] = "done" /\ call[r].operation = "List"
  PROVE  PagesKnown(r)'
<1>1. Standing' = Standing /\ \A u : OwnName(u)' = OwnName(u) /\ Below(u)' = Below(u)
  BY DEF Standing, OwnName, Below
<1> QED
  BY <1>1, PagesOutlast, StandingIsFinite DEF PagesInv, PagesKnown

LEMMA PagesStep == PagesInv /\ CatalogueInv' /\ [Next]_vars => PagesInv'
<1> SUFFICES ASSUME PagesInv, CatalogueInv', [Next]_vars, NEW r \in Requests
             PROVE  PagesKnown(r)'
  BY DEF PagesInv
<1>i. TypeOK /\ CatalogueInv
  BY DEF PagesInv, CatalogueInv
<1> USE <1>i DEF TypeOK, history, tableVars, Answer, Serves, Listing
<1>1. CASE UNCHANGED vars
  BY <1>1, OthersKeepPages DEF vars
<1>2. ASSUME NEW q \in Requests, NEW c \in Calls, Receive(q, c) PROVE PagesKnown(r)'
  <2>1. CASE q = r
    BY <1>2, <2>1, ReceiveKeepsPages
  <2>2. CASE q # r
    BY <1>2, <2>2, OthersKeepPages DEF Receive
  <2> QED
    BY <2>1, <2>2
<1>3. ASSUME NEW q \in Requests, List(q) PROVE PagesKnown(r)'
  <2>1. CASE q = r
    BY <1>3, <2>1, ListKeepsPages
  <2>2. CASE q # r
    BY <1>3, <2>2, OthersKeepPages DEF List
  <2> QED
    BY <2>1, <2>2
<1>4. ASSUME NEW q \in Requests, Create(q) PROVE PagesKnown(r)'
  BY <1>4, CreateKeepsPages
<1>5. ASSUME NEW q \in Requests, Delete(q) PROVE PagesKnown(r)'
  BY <1>5, DeleteKeepsPages
<1>6. ASSUME NEW q \in Requests, Get(q) \/ Update(q) \/ Fail(q) PROVE PagesKnown(r)'
  <2>1. /\ UNCHANGED <<name, product, made, shrunk, grown, steady, pages, call>>
        /\ pc'[r] = pc[r] \/ (pc'[r] = "failed")
           \/ (q = r /\ Get(q) /\ pc'[r] = "done")
    BY <1>6 DEF Get, Update, Fail
  <2> QED
    BY <2>1, OthersKeepPages DEF Get
<1>7. ASSUME NEW o \in OrderUuids, InsertLine(o) \/ CommitOrder(o) \/ RollBack(o) \/ DeleteLines(o)
      PROVE  PagesKnown(r)'
  <2>1. UNCHANGED <<name, product, pc, call, pages, history>>
    BY <1>7 DEF InsertLine, CommitOrder, RollBack, DeleteLines
  <2> QED
    BY <2>1, OthersKeepPages
<1>8. CASE Crash
  BY <1>8, OthersKeepPages DEF Crash
<1> QED
  BY <1>1, <1>2, <1>3, <1>4, <1>5, <1>6, <1>7, <1>8 DEF Next

LEMMA PagesInvariance == Safety => []PagesInv
<1>1. Init => PagesInv
  BY InitPagesInv
<1>2. PagesInv /\ CatalogueInv' /\ [Next]_vars => PagesInv'
  BY PagesStep
<1> QED
  BY <1>1, <1>2, CatalogueInvariance, PTL DEF Safety

-----------------------------------------------------------------------------
(* Theorems *)

\* The variables keep their types (the product server as a whole).
THEOREM TypesHold == Safety => []TypeOK
  BY CatalogueInvariance, PTL DEF CatalogueInv

\* No line, committed or not, is ever without its product: the foreign key and the
\* row locks stand against DeleteProduct.
THEOREM LinesHaveProducts == Safety => []LinesKeepProduct
  BY CatalogueInvariance, PTL DEF CatalogueInv

\* What DeleteProduct has answered is gone stays gone, keys being fresh.
THEOREM DeletionIsFinal == Safety => []DeletedForGood
  BY CatalogueInvariance, PTL DEF CatalogueInv

\* A row goes only by a DeleteProduct of its own key, never by its code.
THEOREM VanishedWereNamed == Safety => []OnlyNamedVanish
  BY CatalogueInvariance, PTL DEF CatalogueInv

\* A listing that pages through a table others change is complete and free of
\* duplicates, as far as ListProducts' LIMIT and OFFSET allow.
THEOREM ListingsAreComplete == Safety => []PagesComplete
<1>1. PagesInv => PagesComplete
  BY DEF PagesInv, PagesKnown, ListedAll, PagesComplete
<1> QED
  BY <1>1, PagesInvariance, PTL
==============================================================================
