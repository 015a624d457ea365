----------------------------- MODULE OrderTables -----------------------------
(***************************************************************************)
(* The three PostgreSQL tables of the order service with the constraints   *)
(* of the migration, and the SQL statements of package db that the order   *)
(* handlers run on them.  A statement is atomic (autocommit, or one        *)
(* statement of a READ COMMITTED transaction).                             *)
(***************************************************************************)
EXTENDS Integers, Sequences, FiniteSets, FiniteSetsExt

CONSTANTS
  ProductUuids,   \* primary keys a product row can have
  Codes,          \* product codes: what order requests name products by
  Prices,         \* customer costs, in the smallest currency unit
  OrderUuids,     \* primary keys of orders; uuid.New() never repeats one
  NoRow           \* the absent row

ASSUME TablesAssumption ==
  /\ Prices \subseteq Int
  /\ NoRow \notin Int
  /\ NoRow \notin [code : Codes, cost : Prices]

VARIABLES
  product,        \* product[u]: the row with primary key u, or NoRow
  orders,         \* orders[o]: order_cost of the committed order o, or NoRow
  orderProducts   \* the committed rows of order_products

tableVars == <<product, orders, orderProducts>>

ProductRow == [code : Codes, cost : Prices]

OrderProduct == [order : OrderUuids, product : ProductUuids,
                 price : Prices, amount : Int]

TablesTypeOK ==
  /\ product \in [ProductUuids -> ProductRow \cup {NoRow}]
  /\ orders \in [OrderUuids -> Int \cup {NoRow}]
  /\ orderProducts \subseteq OrderProduct

-----------------------------------------------------------------------------
\* Rows GetProduct can return.  product_code carries no unique constraint, so
\* LIMIT 1 without an ORDER BY may pick any of them.
RowsWithCode(c) ==
  {u \in ProductUuids : product[u] # NoRow /\ product[u].code = c}

\* Products that AddProductToOrder can add for code c to an order that already
\* has the products "present"; at most one.  The statement finds the product by
\* a scalar subquery: no row gives NULL (NOT NULL violation), two rows are a
\* cardinality error, and a product already in the order violates the primary
\* key (product_uuid, order_uuid).
Addable(c, present) ==
  {u \in ProductUuids : RowsWithCode(c) = {u}} \ present

RowsOf(o) == {l \in orderProducts : l.order = o}

CreateProduct(u, c, cost) ==
  /\ product[u] = NoRow
  /\ product' = [product EXCEPT ![u] = [code |-> c, cost |-> cost]]
  /\ UNCHANGED <<orders, orderProducts>>

\* The foreign key of order_products refuses to orphan a line; "locked" are the
\* products that uncommitted lines reference, whose rows are share-locked.
DeleteProduct(u, locked) ==
  /\ product[u] # NoRow
  /\ u \notin locked
  /\ \A l \in orderProducts : l.product # u
  /\ product' = [product EXCEPT ![u] = NoRow]
  /\ UNCHANGED <<orders, orderProducts>>
=============================================================================
