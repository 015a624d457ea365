--------------------------- MODULE MCOrderCreation ---------------------------
(***************************************************************************)
(* Bounds for OrderCreation: two product rows, two codes, two prices, one  *)
(* of them 0, int32 amounts from -2 to 1, and carts that reach every       *)
(* branch of the handlers.                                                 *)
(***************************************************************************)
EXTENDS OrderCreation, TLC

CONSTANTS u1, u2, c1, c2, o1, o2

MCPrices == {0, 1}

Of(c, n) == [code |-> c, amount |-> n]

\* An empty cart and one of two different products.
FewCarts == {<<>>, <<Of(c1, 1), Of(c2, 1)>>}

\* Also: the same product twice, an amount that becomes 1 as an int32 (and is
\* placed if its product is free), and a total that does not convert.
\* (CostLimit is 9: 9 is beyond Numeric, no total of another cart is.)
MCCarts ==
  FewCarts \cup {<<Of(c1, 1), Of(c1, 1)>>, <<Of(c1, 1), Of(c2, 5)>>, <<Of(c2, 9)>>}

\* One cart of two products drifts when only the second has a price.
MCDrifting == {<<<<Of(c1, 1), Of(c2, 1)>>,
                 <<[code |-> c1, price |-> 0, amount |-> 1],
                   [code |-> c2, price |-> 1, amount |-> 1]>>>>}

MCSymmetry == Permutations(ProductUuids)
==============================================================================
