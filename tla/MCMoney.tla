------------------------------- MODULE MCMoney -------------------------------
(***************************************************************************)
(* Bounds for Money: floats of 13 bits, whose sums of three lines are      *)
(* exact to half a cent up to the largest total, as those of 53 bits are   *)
(* up to a million; prices from one cent on, most of them no such float,   *)
(* one of 0 and one below; an amount below 0, with which 3 times 0.10 less *)
(* 0.30 is no exact 0; and one, 7, that becomes -1 as an integer of three  *)
(* bits.                                                                   *)
(***************************************************************************)
EXTENDS Money

MCCosts == {-49, 0, 1, 2, 10, 19, 30, 49, 60, 99, 115}

MCAmounts == {-1, 0, 1, 3, 7}
==============================================================================
