-------------------------- MODULE MCServerLifecycle --------------------------
(***************************************************************************)
(* Bounds for ServerLifecycle: one product, and carts that are empty, of   *)
(* one line, or that fail at their second line.                            *)
(***************************************************************************)
EXTENDS ServerLifecycle

CONSTANTS u1, c1, o1, o2

MCPrices == {FlatCost}

Of(n) == [code |-> c1, amount |-> n]

MCCarts == {<<>>, <<Of(1)>>, <<Of(1), Of(2)>>}
==============================================================================
