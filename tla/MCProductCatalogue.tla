------------------------- MODULE MCProductCatalogue -------------------------
(***************************************************************************)
(* Bounds for ProductCatalogue: three product rows of two codes, two names *)
(* and one price, and pages of one or two rows.                            *)
(***************************************************************************)
EXTENDS ProductCatalogue, TLC

CONSTANTS u1, u2, u3, c1, c2, o1, r1, r2

MCPrices == {1}

MCSymmetry ==
  Permutations(Requests) \cup Permutations(ProductUuids) \cup Permutations(Codes)
=============================================================================
