----------------------------- MODULE MCOrderAdmin -----------------------------
(***************************************************************************)
(* Bounds for OrderAdmin: two product rows of one code and price, and      *)
(* interchangeable requests.                                               *)
(***************************************************************************)
EXTENDS OrderAdmin, TLC

CONSTANTS u1, u2, c1, o1, o2, r1, r2, r3

MCPrices == {1}

MCSymmetry ==
  Permutations(Requests) \cup Permutations(ProductUuids) \cup Permutations(OrderUuids)
===============================================================================
