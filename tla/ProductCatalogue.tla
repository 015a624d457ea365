-------------------------- MODULE ProductCatalogue --------------------------
(***************************************************************************)
(* The product server's Create, Get, List, Update and Delete: one          *)
(* autocommitted statement each.  A client lists page by page.  Orders     *)
(* come and go beside them, their lines uncommitted at first.              *)
(***************************************************************************)
EXTENDS OrderTables, Functions

CONSTANTS
  Names,      \* names of products, as the database sorts them
  Limits,     \* page sizes a client lists with
  MaxLines,   \* bound: lines of an order
  Requests,   \* the calls
  None,       \* no call yet
  Faults      \* the kinds of fault that can happen

FaultKinds == {"statement", "ackLost", "crash"}

\* A request names a product by a uuid; which column it is compared with is up to
\* the operation.
Ids == ProductUuids \cup Codes

\* "valid" says that code and cost convert.
Calls ==
  [operation : {"Create"}, code : Codes, cost : Prices, name : Names, valid : BOOLEAN]
    \cup [operation : {"Get", "Delete"}, id : Ids]
    \cup [operation : {"Update"}, id : Ids, code : Codes \cup {None}]
    \cup [operation : {"List"}, limit : Limits]

ASSUME CatalogueAssumption ==
  /\ Names \subseteq Int
  /\ Limits \subseteq Nat \ {0} /\ MaxLines \in Nat
  /\ ProductUuids \cap Codes = {}   \* uuid.New() gives no product's code
  /\ None \notin Calls /\ None \notin Codes
  /\ Faults \subseteq FaultKinds

VARIABLES
  name,      \* the name in each product's row
  open,      \* products that an order's uncommitted lines reference
  pc,        \* where each call is
  call,      \* what it asks
  pages,     \* List: the products received so far, page after page
  made,      \* history: primary keys ever inserted
  steady,    \* history: products that stood, with a name of their own, since the
             \*   first page was asked for
  grown,     \* history: a product was created since then
  shrunk     \* history: a product was deleted since then

history == <<made, steady, grown, shrunk>>
vars == <<name, open, pc, call, pages, made, steady, grown, shrunk,
          product, orders, orderProducts>>

TypeOK ==
  /\ TablesTypeOK
  /\ name \in [ProductUuids -> Names \cup {NoRow}]
  /\ open \in [OrderUuids -> SUBSET ProductUuids]
  /\ pc \in [Requests -> {"idle", "called", "done", "failed", "dead"}]
  /\ call \in [Requests -> Calls \cup {None}]
  /\ pages \in [Requests -> Seq(ProductUuids)]
  /\ made \subseteq ProductUuids
  /\ steady \in [Requests -> SUBSET made]
  /\ grown \in [Requests -> BOOLEAN] /\ shrunk \in [Requests -> BOOLEAN]

Standing == {u \in ProductUuids : product[u] # NoRow}

Init ==
  /\ product \in [ProductUuids -> ProductRow \cup {NoRow}]
  /\ name \in [ProductUuids -> Names \cup {NoRow}]
  /\ \A u \in ProductUuids : name[u] = NoRow <=> u \notin Standing
  /\ IsFiniteSet(Standing)
  /\ orders = [o \in OrderUuids |-> NoRow]
  /\ orderProducts = {}
  /\ open = [o \in OrderUuids |-> {}]
  /\ pc = [r \in Requests |-> "idle"]
  /\ call = [r \in Requests |-> None]
  /\ pages = [r \in Requests |-> <<>>]
  /\ made = Standing
  /\ steady = [r \in Requests |-> {}]
  /\ grown = [r \in Requests |-> FALSE] /\ shrunk = [r \in Requests |-> FALSE]

-----------------------------------------------------------------------------
(* The calls *)

OwnName(u) == \A v \in Standing \ {u} : name[v] # name[u]

\* Clients know codes, and the keys of rows that were made.
Receive(r, c) ==
  /\ pc[r] = "idle"
  /\ "id" \in DOMAIN c => c.id \in Codes \cup made
  /\ pc' = [pc EXCEPT ![r] = "called"]
  /\ call' = [call EXCEPT ![r] = c]
  /\ steady' = [steady EXCEPT ![r] =
                  IF c.operation = "List" THEN {u \in Standing : OwnName(u)} ELSE {}]
  /\ UNCHANGED <<name, open, pages, made, grown, shrunk, tableVars>>

Listing(r) == pc[r] = "called" /\ call[r].operation = "List"

Serves(r, operation) == pc[r] = "called" /\ call[r].operation = operation

Answer(r, end) == pc' = [pc EXCEPT ![r] = end]

\* The end of a call whose statement was applied: its acknowledgement may be lost.
Applied(r) ==
  \/ Answer(r, "done")
  \/ "ackLost" \in Faults /\ Answer(r, "failed")

\* CreateProduct, under a fresh primary key; product_code is not unique.
Create(r) ==
  /\ Serves(r, "Create")
  /\ LET c == call[r]
     IN \/ /\ c.valid
           /\ \E u \in ProductUuids \ made :
                /\ CreateProduct(u, c.code, c.cost)
                /\ name' = [name EXCEPT ![u] = c.name]
                /\ made' = made \cup {u}
           /\ steady' = [q \in Requests |-> {v \in steady[q] : name[v] # c.name}]
           /\ grown' = [q \in Requests |-> grown[q] \/ Listing(q)]
           /\ Applied(r)
        \/ /\ ~ c.valid /\ Answer(r, "failed")
           /\ UNCHANGED <<name, made, steady, grown, tableVars>>
  /\ UNCHANGED <<open, call, pages, shrunk>>

\* GetProduct compares the request's uuid with product_code; ErrNoRows otherwise.
Get(r) ==
  /\ Serves(r, "Get")
  /\ Answer(r, IF RowsWithCode(call[r].id) # {} THEN "done" ELSE "failed")
  /\ UNCHANGED <<name, open, call, pages, history, tableVars>>

\* Mutant of Page: no ORDER BY.
PageUnsorted(limit, offset) ==
  LET n == Cardinality(Standing)
      Sorted == {s \in [1 .. n -> Standing] : IsInjective(s)}
  IN {SubSeq(s, offset + 1, Min({offset + limit, n})) : s \in Sorted}

\* What ListProducts may return: rows of equal name come in any order.
Page(limit, offset) ==
  LET n == Cardinality(Standing)
      Sorted == {s \in [1 .. n -> Standing] :
                   /\ IsInjective(s)
                   /\ \A i, j \in 1 .. n : i < j => name[s[i]] <= name[s[j]]}
  IN {SubSeq(s, offset + 1, Min({offset + limit, n})) : s \in Sorted}

\* One page; the client goes on behind it until one is not full.
List(r) ==
  /\ Serves(r, "List")
  /\ \E page \in Page(call[r].limit, Len(pages[r])) :
       /\ pages' = [pages EXCEPT ![r] = @ \o page]
       /\ Answer(r, IF Len(page) < call[r].limit THEN "done" ELSE "called")
  /\ UNCHANGED <<name, open, call, history, tableVars>>

\* Mutant of Update: the columns of product take NULL.
UpdateNullable(r) ==
  /\ Serves(r, "Update")
  /\ LET u == call[r].id
     IN IF call[r].code = None /\ u \in Standing
          THEN /\ product' = [product EXCEPT ![u] = [code |-> None, cost |-> None]]
               /\ Answer(r, "done")
          ELSE Answer(r, "failed") /\ UNCHANGED product
  /\ UNCHANGED <<name, open, call, pages, history, orders, orderProducts>>

\* UpdateProduct never gets anything done.  A code that is given does not scan
\* from its pointer; without one the UPDATE finds no row, or sets a NOT NULL
\* column of the one it finds to NULL.
Update(r) ==
  /\ Serves(r, "Update")
  /\ Answer(r, "failed")
  /\ UNCHANGED <<name, open, call, pages, history, tableVars>>

\* What else a deletion changes.
Vanish(u) ==
  /\ name' = [name EXCEPT ![u] = NoRow]
  /\ steady' = [q \in Requests |-> steady[q] \ {u}]
  /\ shrunk' = [q \in Requests |-> shrunk[q] \/ Listing(q)]

Locked == UNION {open[o] : o \in OrderUuids}
Referenced == {l.product : l \in orderProducts}

\* Mutant of Delete: the id is compared with product_code, as in Get.
DeleteByCode(r) ==
  /\ Serves(r, "Delete")
  /\ \/ \E u \in RowsWithCode(call[r].id) :
          /\ DeleteProduct(u, Locked)
          /\ Vanish(u)
          /\ Applied(r)
     \/ /\ RowsWithCode(call[r].id) = {} /\ Answer(r, "done")
        /\ UNCHANGED <<name, steady, shrunk, tableVars>>
  /\ UNCHANGED <<open, call, pages, made, grown>>

\* Mutant of Delete: the error of Exec is dropped.
DeleteUnchecked(r) ==
  /\ Serves(r, "Delete")
  /\ LET u == call[r].id
     IN \/ /\ u \in Standing /\ DeleteProduct(u, Locked)
           /\ Vanish(u)
        \/ /\ u \notin Standing \/ u \in Referenced \ Locked
           /\ UNCHANGED <<name, steady, shrunk, tableVars>>
  /\ Answer(r, "done")
  /\ UNCHANGED <<open, call, pages, made, grown>>

\* Mutant of Delete: order_products does not reference product.
DeleteUnreferenced(r) ==
  /\ Serves(r, "Delete")
  /\ LET u == call[r].id
     IN IF u \in Standing
          THEN /\ product' = [product EXCEPT ![u] = NoRow]
               /\ Vanish(u)
               /\ Applied(r)
          ELSE Answer(r, "done") /\ UNCHANGED <<product, name, steady, shrunk>>
  /\ UNCHANGED <<open, call, pages, made, grown, orders, orderProducts>>

\* DeleteProduct goes by the primary key.  It waits for transactions that lock the
\* row; a committed line makes it fail; that there is no such row is no error.
Delete(r) ==
  /\ Serves(r, "Delete")
  /\ LET u == call[r].id
     IN \/ /\ u \in Standing /\ DeleteProduct(u, Locked)
           /\ Vanish(u)
           /\ Applied(r)
        \/ /\ \/ u \notin Standing /\ Answer(r, "done")
              \/ u \in Referenced \ Locked /\ Answer(r, "failed")
           /\ UNCHANGED <<name, steady, shrunk, tableVars>>
  /\ UNCHANGED <<open, call, pages, made, grown>>

\* The statement errs to no effect, a wait for a lock that is cancelled included.
Fail(r) ==
  /\ "statement" \in Faults
  /\ pc[r] = "called" /\ Answer(r, "failed")
  /\ UNCHANGED <<name, open, call, pages, history, tableVars>>

Crash ==
  /\ "crash" \in Faults
  /\ pc' = [r \in Requests |-> IF pc[r] = "called" THEN "dead" ELSE pc[r]]
  /\ open' = [o \in OrderUuids |-> {}]
  /\ UNCHANGED <<name, call, pages, history, tableVars>>

-----------------------------------------------------------------------------
(* The orders: OrderCreation's transactions and OrderAdmin's deletions *)

InsertLine(o) ==
  /\ orders[o] = NoRow /\ Cardinality(open[o]) < MaxLines
  /\ \E u \in Standing : open' = [open EXCEPT ![o] = @ \cup {u}]
  /\ UNCHANGED <<name, pc, call, pages, history, tableVars>>

CommitOrder(o) ==
  /\ open[o] # {}
  /\ \E cost \in Prices :
       /\ orders' = [orders EXCEPT ![o] = cost]
       /\ orderProducts' = orderProducts \cup
            {[order |-> o, product |-> u, price |-> cost, amount |-> 1] : u \in open[o]}
  /\ open' = [open EXCEPT ![o] = {}]
  /\ UNCHANGED <<name, pc, call, pages, history, product>>

RollBack(o) ==
  /\ open[o] # {}
  /\ open' = [open EXCEPT ![o] = {}]
  /\ UNCHANGED <<name, pc, call, pages, history, tableVars>>

DeleteLines(o) ==
  /\ RowsOf(o) # {}
  /\ orderProducts' = orderProducts \ RowsOf(o)
  /\ UNCHANGED <<name, open, pc, call, pages, history, product, orders>>

Next ==
  \/ \E r \in Requests :
       \/ \E c \in Calls : Receive(r, c)
       \/ Create(r) \/ Get(r) \/ List(r) \/ Update(r) \/ Delete(r) \/ Fail(r)
  \/ \E o \in OrderUuids : InsertLine(o) \/ CommitOrder(o) \/ RollBack(o) \/ DeleteLines(o)
  \/ Crash

Safety == Init /\ [][Next]_vars

-----------------------------------------------------------------------------
(* Properties *)

\* A line keeps its product, also while it is uncommitted: a deletion that races
\* with the placing of an order loses, or comes first.
LinesKeepProduct == Locked \cup Referenced \subseteq Standing

\* A product whose deletion was answered is gone for good, and no order, then or
\* later, has a line of it.
DeletedForGood ==
  \A r \in Requests :
    pc[r] = "done" /\ call[r].operation = "Delete"
      => call[r].id \notin Standing \cup Referenced \cup Locked

\* A product vanishes only by a deletion that names its primary key: none goes
\* because it shares its code with another, though codes are what Get goes by and
\* several products can share one.
OnlyNamedVanish ==
  \A u \in made \ Standing : \E r \in Requests :
    /\ pc[r] \in {"done", "failed"}
    /\ call[r] = [operation |-> "Delete", id |-> u]

\* LIMIT and OFFSET over a catalogue that others change meanwhile: a product that
\* stood all the time under a name of its own is on some page unless a deletion
\* moved it over a page's edge, and on no two unless a creation did.
PagesComplete ==
  \A r \in Requests :
    pc[r] = "done" /\ call[r].operation = "List"
      => /\ shrunk[r] \/ steady[r] \subseteq Range(pages[r])
         /\ grown[r] \/ \A i, j \in DOMAIN pages[r] :
              pages[r][i] = pages[r][j] /\ pages[r][i] \in steady[r] => i = j
=============================================================================
