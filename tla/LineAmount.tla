----------------------------- MODULE LineAmount -----------------------------
(***************************************************************************)
(* The amount of a product in an order: any int in a request over REST, an *)
(* int32 in a row of order_products and in a gRPC message.                 *)
(***************************************************************************)
EXTENDS Integers

CONSTANT MaxAmount  \* the greatest int32, 2^31 - 1 in the code

ASSUME AmountAssumption == MaxAmount \in Nat

\* Go's conversion int32(n) keeps the low bits: an amount that does not fit
\* becomes another one, of any sign, and nobody is told.
Int32(n) == ((n + MaxAmount + 1) % (2 * (MaxAmount + 1))) - (MaxAmount + 1)

Fits(n) == Int32(n) = n
=============================================================================
