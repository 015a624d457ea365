-------------------------------- MODULE Money --------------------------------
(***************************************************************************)
(* The arithmetic of an order's total.  validateOrderProducts sums price   *)
(* times amount in float64; the sum is written to the DECIMAL(10,2) column *)
(* order_cost; CreateWithProducts sums the lines again, with the amounts   *)
(* that it stores, reads order_cost back and compares the two floats for   *)
(* equality.                                                               *)
(*                                                                         *)
(* A float is an integer, counting units of 2^-Scale, that has at most     *)
(* Precision significant bits; a DECIMAL(10,2) is a number of cents.       *)
(***************************************************************************)
EXTENDS Integers, Sequences, LineAmount

CONSTANTS
  Precision,   \* significant bits of a float: 53 in the code
  Scale,       \* Precision bits at the least price need so fine a unit
  CostLimit,   \* a sum that high prints with an exponent: a million in the code
  Costs,       \* customer_cost of products, in cents; nothing asks it to be positive
  Amounts,     \* amounts asked for; nothing asks them to be positive or to fit
  MaxLines,    \* bound: lines of an order
  Nothing      \* no order_cost yet

ASSUME MoneyAssumption ==
  /\ Precision \in Nat \ {0} /\ Scale \in Nat /\ CostLimit \in Nat
  /\ 50 * 2^Precision <= 2^Scale
  /\ 700 * CostLimit <= 2^Precision   \* floats below the limit tell cents apart
  /\ Costs \subseteq Int
  /\ Amounts \subseteq -(2^Precision) .. 2^Precision   \* float64(amount) is exact
  /\ MaxAmount < 2^Precision
  /\ MaxLines \in Nat
  /\ Nothing \notin Int

VARIABLES
  step,        \* which part of the code runs
  lines,       \* the lines so far: cost and amount
  totalCost,   \* validateOrderProducts' sum, a float
  orderCost,   \* the column order_cost, in cents
  checked,     \* how many lines CreateWithProducts has summed
  total        \* its sum, a float

vars == <<step, lines, totalCost, orderCost, checked, total>>

Line == [cost : Costs, amount : Amounts]

TypeOK ==
  /\ step \in {"validating", "converting", "inserting",
             "accepted", "refused", "failed"}
  /\ lines \in Seq(Line) /\ Len(lines) <= MaxLines
  /\ totalCost \in Int /\ total \in Int
  /\ orderCost \in Int \cup {Nothing}
  /\ orderCost = Nothing <=> step \in {"validating", "converting", "failed"}
  /\ checked \in 0 .. Len(lines)

Init ==
  /\ step = "validating"
  /\ lines = <<>>
  /\ totalCost = 0
  /\ orderCost = Nothing
  /\ checked = 0 /\ total = 0

-----------------------------------------------------------------------------
(* float64 *)

\* num / den units, not negative, rounded to the nearest float, the even one of two.
RoundNat(num, den) ==
  LET shift == CHOOSE s \in 0 .. Scale + num \div (den * 2^Scale) :
                 /\ num \div (den * 2^s) < 2^Precision
                 /\ s > 0 => num \div (den * 2^(s - 1)) >= 2^Precision
      ulp == den * 2^shift
      q == num \div ulp
      rest == num % ulp
      up == 2 * rest > ulp \/ (2 * rest = ulp /\ q % 2 = 1)
  IN (IF up THEN q + 1 ELSE q) * 2^shift

Round(num, den) == IF num < 0 THEN -RoundNat(-num, den) ELSE RoundNat(num, den)

\* NumericToFloat64: the float nearest to so many cents.
NumericToFloat64(cents) == Round(cents * 2^Scale, 100)

\* resPrice * float64(amount), and one more summand.
Times(x, amount) == Round(x * amount, 1)
Plus(x, y) == Round(x + y, 1)

\* Mutant of Float64ToNumeric: the column cuts digits off.
Truncated(x) == {(x * 100) \div 2^Scale}

\* Mutant of Float64ToNumeric: the scanned Numeric is dropped, which leaves NULL.
Unscanned(x) == {Nothing}

\* Float64ToNumericWithPrecision prints the shortest decimal that reads as x and
\* the column rounds that decimal to cents: as it would round x, unless the decimal
\* half-way between two cents reads as x, which may then go to either.
Float64ToNumeric(x) ==
  LET cents == (x * 100) \div 2^Scale
      rest == (x * 100) % 2^Scale
      halfWay == Round((2 * cents + 1) * 2^Scale, 200)
  IN {c \in {cents, cents + 1} : x = halfWay \/ (c = cents <=> 2 * rest < 2^Scale)}

\* FormatFloat(x, 'g', -1, 64) prints an exponent from a million on and below a
\* ten-thousandth, except for 0; no Numeric scans one.
HasExponent(x) ==
  LET magnitude == IF x < 0 THEN -x ELSE x
  IN \/ magnitude >= CostLimit * 2^Scale
     \/ x # 0 /\ magnitude <= 2^Scale \div 10000

-----------------------------------------------------------------------------

\* One iteration of validateOrderProducts.
ValidateItem ==
  /\ step = "validating" /\ Len(lines) < MaxLines
  /\ \E line \in Line :
       /\ lines' = Append(lines, line)
       /\ totalCost' = Plus(totalCost, Times(NumericToFloat64(line.cost), line.amount))
  /\ UNCHANGED <<step, orderCost, checked, total>>

FinishValidation ==
  /\ step = "validating" /\ lines # <<>>
  /\ step' = "converting"
  /\ UNCHANGED <<lines, totalCost, orderCost, checked, total>>

\* CreateOrder inserts the order with its cost, unless that does not convert.
Convert ==
  /\ step = "converting"
  /\ IF HasExponent(totalCost)
       THEN step' = "failed" /\ UNCHANGED orderCost
       ELSE step' = "inserting" /\ orderCost' \in Float64ToNumeric(totalCost)
  /\ UNCHANGED <<lines, totalCost, checked, total>>

\* Mutant of SumLine: the amount is forgotten.
SumPrice(line) == Plus(total, NumericToFloat64(line.cost))

\* The amount is the one of the row, an int32.
SumLine(line) == Plus(total, Times(NumericToFloat64(line.cost), Int32(line.amount)))

\* One iteration of the loop of CreateWithProducts.
InsertLine ==
  /\ step = "inserting" /\ checked < Len(lines)
  /\ total' = SumLine(lines[checked + 1])
  /\ checked' = checked + 1
  /\ UNCHANGED <<step, lines, totalCost, orderCost>>

\* ErrInvalidOrderTotal
CheckTotal ==
  /\ step = "inserting" /\ checked = Len(lines)
  /\ step' = IF NumericToFloat64(orderCost) = total THEN "accepted" ELSE "refused"
  /\ UNCHANGED <<lines, totalCost, orderCost, checked, total>>

Next == ValidateItem \/ FinishValidation \/ Convert \/ InsertLine \/ CheckTotal

Spec == Init /\ [][Next]_vars

-----------------------------------------------------------------------------
(* Properties *)

\* What the lines cost, in cents, for the amounts that the customer asked for.
Due ==
  LET due[i \in 0 .. Len(lines)] ==
        IF i = 0 THEN 0 ELSE due[i - 1] + lines[i].cost * lines[i].amount
  IN due[Len(lines)]

\* order_cost is what the lines cost to the cent: rounding to cents undoes what
\* the sums in float64 have lost, also where the check will refuse the order.
\* Sums that could have lost half a cent do not convert, as long as Amounts are not
\* so large that lines of both signs cancel sums far above CostLimit.
OrderCostIsDue == orderCost # Nothing => orderCost = Due

AmountsFit == \A i \in 1 .. Len(lines) : Fits(lines[i].amount)

\* The check refuses an order only if validateOrderProducts' sum is not the float
\* nearest to what the lines cost, OrderCreation's set Drifting, or if a line stores
\* another amount than the one asked for.
RefusedOnlyByDrift ==
  step = "refused" => totalCost # NumericToFloat64(Due) \/ ~ AmountsFit

\* The comment over the check says that it compares the order's sum with that of
\* its products: an order whose cost is the sum of its lines would pass.
MatchingTotalIsAccepted == step = "refused" /\ AmountsFit => orderCost # Due
=============================================================================
