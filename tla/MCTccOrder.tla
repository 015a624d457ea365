------------------------------ MODULE MCTccOrder ------------------------------
(***************************************************************************)
(* Bounds for TccOrder: two product rows, two codes, one price, and carts  *)
(* that are empty, of one or two products, or of the same product twice.   *)
(***************************************************************************)
EXTENDS TccOrder, TLC

CONSTANTS u1, u2, c1, c2, o1, o2, o3

MCPrices == {FlatCost}

Of(c, n) == [code |-> c, amount |-> n]

MCCarts == {<<>>, <<Of(c1, 1)>>, <<Of(c1, 1), Of(c2, 2)>>, <<Of(c1, 1), Of(c1, 1)>>}

\* For three streams: the empty cart and one of two products.
FewCarts == {<<>>, <<Of(c1, 1), Of(c2, 2)>>}

MCSymmetry == Permutations(ProductUuids) \cup Permutations(OrderUuids)
===============================================================================
