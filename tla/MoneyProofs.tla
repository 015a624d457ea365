----------------------------- MODULE MoneyProofs -----------------------------
(***************************************************************************)
(* How exact the sums of an order are, for floats of any precision that    *)
(* tells cents apart below the limit, and for any prices and any amounts   *)
(* that such a float holds.                                                *)
(***************************************************************************)
EXTENDS Money, FunctionTheorems, FiniteSetTheorems, WellFoundedInduction, TLAPS

-----------------------------------------------------------------------------
(* Natural numbers and powers of two *)

LEMMA Least ==
  ASSUME NEW Bad \in SUBSET Nat, Bad # {}
  PROVE  \E n \in Bad : \A m \in Bad : n <= m
<1>1. PICK k \in Bad : TRUE
  OBVIOUS
<1> DEFINE S == 0 .. k
           Segments == {T \in SUBSET S : \E m \in Bad : m <= k /\ T = 0 .. m}
<1>2. IsFiniteSet(S)
  BY <1>1, FS_Interval
<1>3. IsWellFoundedOn(StrictSubsetOrdering(S), FiniteSubsetsOf(S)) /\ Segments \subseteq FiniteSubsetsOf(S)
  BY <1>2, FS_StrictSubsetOrderingWellFounded, FS_Subset DEF FiniteSubsetsOf
<1>4. Segments # {}
  <2>1. S \in Segments
    BY <1>1
  <2> QED
    BY <2>1
<1>5. PICK X \in Segments : \A Y \in Segments : ~ (<<Y, X>> \in StrictSubsetOrdering(S))
  BY <1>3, <1>4, WFMin
<1>6. PICK n \in Bad : n <= k /\ X = 0 .. n
  BY <1>5
<1>7. ASSUME NEW m \in Bad, m < n PROVE FALSE
  <2>1. 0 .. m \in Segments /\ 0 .. m \subseteq X /\ n \in X /\ n \notin 0 .. m
    BY <1>1, <1>6, <1>7
  <2>2. <<0 .. m, X>> \in StrictSubsetOrdering(S)
    BY <2>1 DEF StrictSubsetOrdering
  <2> QED
    BY <1>5, <2>1, <2>2
<1> QED
  BY <1>6, <1>7

\* The sets of n + 1 numbers are those of n, without the new one and with it.
LEMMA TwoToThe ==
  ASSUME NEW n \in Nat
  PROVE  2^n \in Nat \ {0} /\ 2^(n + 1) = 2 * 2^n
<1> DEFINE A == SUBSET (1 .. n)
           B == {T \cup {n + 1} : T \in A}
           f == [T \in A |-> T \cup {n + 1}]
<1>1. IsFiniteSet(1 .. n) /\ Cardinality(1 .. n) = n /\ IsFiniteSet(1 .. n + 1)
      /\ Cardinality(1 .. n + 1) = n + 1
  BY FS_Interval
<1>2. IsFiniteSet(A) /\ Cardinality(A) = 2^n /\ Cardinality(SUBSET (1 .. n + 1)) = 2^(n + 1)
  BY <1>1, FS_SUBSET
<1>3. 2^n \in Nat \ {0}
  <2>1. A # {}
    OBVIOUS
  <2> QED
    BY <1>2, <2>1, FS_CardinalityType, FS_EmptySet
<1>a. \A T \in A : n + 1 \notin T
  OBVIOUS
<1>4. f \in Bijection(A, B)
  <2>1. \A T, U \in A : f[T] = f[U] => T = U
    <3> SUFFICES ASSUME NEW T \in A, NEW U \in A, T \cup {n + 1} = U \cup {n + 1} PROVE T = U
      BY Zenon
    <3>1. n + 1 \notin T /\ n + 1 \notin U
      OBVIOUS
    <3>2. \A e : e \in T \cup {n + 1} <=> e \in U \cup {n + 1}
      OBVIOUS
    <3>3. \A e : e \in T <=> e \in U
      BY <3>1, <3>2, Zenon
    <3> QED
      BY <3>3
  <2>2. f \in [A -> B]
    BY Zenon
  <2>3. \A U \in B : \E T \in A : f[T] = U
    BY Zenon
  <2> HIDE DEF f, B, A
  <2>4. DOMAIN f = A
    BY <2>2
  <2> QED
    BY <2>1, <2>2, <2>3, <2>4 DEF Bijection, Injection, Surjection, IsInjective
<1>5. IsFiniteSet(B) /\ Cardinality(B) = 2^n
  <2>1. ExistsBijection(A, B)
    BY <1>4, Fun_ExistsBij
  <2> HIDE DEF A, B
  <2> QED
    BY <1>2, <2>1, FS_Bijection
<1>6. A \cup B = SUBSET (1 .. n + 1)
  <2>1. ASSUME NEW T \in SUBSET (1 .. n + 1), n + 1 \in T PROVE T \in B
    <3>1. T \ {n + 1} \in A /\ T = (T \ {n + 1}) \cup {n + 1}
      BY <2>1
    <3> HIDE DEF A
    <3> QED
      BY <3>1
  <2>2. ASSUME NEW T \in SUBSET (1 .. n + 1), n + 1 \notin T PROVE T \in A
    BY <2>2
  <2>3. A \subseteq SUBSET (1 .. n + 1)
    OBVIOUS
  <2>4. ASSUME NEW T \in A PROVE T \cup {n + 1} \in SUBSET (1 .. n + 1)
    OBVIOUS
  <2> HIDE DEF A
  <2>5. B \subseteq SUBSET (1 .. n + 1)
    BY <2>4, Zenon
  <2> QED
    BY <2>1, <2>2, <2>3, <2>5
<1>7. A \cap B = {}
  <2> HIDE DEF A
  <2> QED
    BY <1>a, Zenon
<1> DEFINE p == 2^n
           q == 2^(n + 1)
<1>8. Cardinality(A \cup B) = p + p
  <2>1. p \in Nat /\ Cardinality(A) = p /\ Cardinality(B) = p
    BY <1>2, <1>3, <1>5
  <2> HIDE DEF A, B, p
  <2>2. Cardinality(A \cup B) = Cardinality(A) + Cardinality(B) - Cardinality(A \cap B)
    BY <1>2, <1>5, FS_Union
  <2> QED
    BY <1>7, <2>1, <2>2, FS_EmptySet
<1>9. q = Cardinality(A \cup B) /\ p \in Nat \ {0}
  BY <1>2, <1>3, <1>6
<1> HIDE DEF A, B, p, q
<1>10. q = 2 * p
  BY <1>8, <1>9
<1> QED
  BY <1>9, <1>10 DEF p, q

LEMMA PowerExceeds ==
  ASSUME NEW m \in Nat, NEW k \in Nat
  PROVE  2^m * (k + 1) <= 2^(m + k)
<1> DEFINE Bad == {i \in Nat : ~ (2^m * (i + 1) <= 2^(m + i))}
<1> SUFFICES ASSUME Bad # {} PROVE FALSE
  OBVIOUS
<1>1. PICK i \in Bad : \A j \in Bad : i <= j
  BY Least
<1>2. 2^m \in Nat \ {0}
  BY TwoToThe
<1>3. CASE i = 0
  <2>1. 2^m * 1 = 2^(m + 0)
    BY <1>2
  <2> QED
    BY <1>1, <1>3, <2>1
<1>4. CASE i > 0
  <2> DEFINE a == 2^m
             b == 2^(m + (i - 1))
             c == 2^(m + i)
  <2>1. i - 1 \in Nat /\ i - 1 \notin Bad
    BY <1>1, <1>4
  <2>2. a \in Nat \ {0} /\ b \in Nat \ {0} /\ c = 2 * b
    <3>1. m + i = (m + (i - 1)) + 1 /\ m + (i - 1) \in Nat
      BY <1>1, <1>4
    <3> QED
      BY <1>2, <3>1, TwoToThe
  <2>3. a * i <= b
    BY <2>1, <2>2
  <2>4. ~ (a * (i + 1) <= c)
    BY <1>1
  <2>5. i \in Nat
    BY <1>1
  <2> HIDE DEF a, b, c
  <2> QED
    BY <1>4, <2>2, <2>3, <2>4, <2>5
<1> QED
  BY <1>1, <1>3, <1>4

-----------------------------------------------------------------------------
(* Rounding *)

LEMMA Powers ==
  /\ 2^Precision \in Nat /\ 2^Precision >= 2
  /\ 2^Scale \in Nat /\ 50 * 2^Precision <= 2^Scale
<1>1. Precision - 1 \in Nat /\ Precision = (Precision - 1) + 1 /\ Scale \in Nat
  BY MoneyAssumption
<1>2. 2^(Precision - 1) \in Nat \ {0} /\ 2^Precision = 2 * 2^(Precision - 1)
  BY <1>1, TwoToThe
<1>3. 2^Scale \in Nat
  BY <1>1, TwoToThe
<1> DEFINE h == 2^(Precision - 1)
           p == 2^Precision
<1>4. h \in Nat \ {0} /\ p = 2 * h
  BY <1>2
<1> HIDE DEF h, p
<1>5. p \in Nat /\ p >= 2
  BY <1>4
<1> QED
  BY <1>3, <1>5, MoneyAssumption DEF p

\* The unit of the last place: a power of two, and no more than Precision bits fit
\* above it.
LEMMA ShiftIs ==
  ASSUME NEW num \in Nat, NEW den \in Nat \ {0}
  PROVE  \E s \in 0 .. Scale + num \div (den * 2^Scale) :
           /\ num \div (den * 2^s) < 2^Precision
           /\ s > 0 => num \div (den * 2^(s - 1)) >= 2^Precision
<1> DEFINE Few == {s \in Nat : num \div (den * 2^s) < 2^Precision}
           k == num \div (den * 2^Scale)
<1>1. Scale \in Nat /\ 2^Scale \in Nat \ {0} /\ 2^Precision \in Nat \ {0}
  BY MoneyAssumption, Powers, TwoToThe
<1>2. k \in Nat /\ num < den * 2^Scale * (k + 1)
  <2> DEFINE a == 2^Scale
             u == den * a
  <2>1. a \in Nat \ {0}
    BY <1>1
  <2>2. u \in Nat \ {0}
    <3> HIDE DEF a
    <3> QED
      BY <2>1
  <2>3. k = num \div u
    OBVIOUS
  <2>4. num = u * (num \div u) + (num % u) /\ num % u < u /\ num \div u \in Nat
    <3> HIDE DEF u
    <3> QED
      BY <2>2
  <2>5. k \in Nat /\ num < u * (k + 1)
    <3> HIDE DEF u, k
    <3> QED
      BY <2>2, <2>3, <2>4
  <2> QED
    BY <2>5
<1>3. Scale + k \in Few
  <2> DEFINE a == 2^Scale
             b == 2^(Scale + k)
             p == 2^Precision
  <2>1. a \in Nat \ {0} /\ b \in Nat \ {0} /\ p \in Nat \ {0} /\ Scale + k \in Nat /\ a * (k + 1) <= b
    <3> HIDE DEF k
    <3>1. k \in Nat /\ Scale + k \in Nat
      BY <1>1, <1>2
    <3>2. 2^Scale * (k + 1) <= 2^(Scale + k)
      BY <1>1, <3>1, PowerExceeds
    <3> QED
      BY <1>1, <3>1, <3>2, TwoToThe
  <2>2. num < den * a * (k + 1)
    BY <1>2
  <2>3. num \div (den * b) < p
    <3> HIDE DEF a, b, p, k
    <3>1. den * b \in Nat \ {0} /\ den * a * (k + 1) <= den * b
      BY <1>2, <2>1
    <3>2. num < den * b
      BY <1>2, <2>1, <2>2, <3>1
    <3>3. num \div (den * b) = 0
      <4> DEFINE u == den * b
      <4>1. u \in Nat \ {0} /\ num < u
        BY <3>1, <3>2
      <4> HIDE DEF u
      <4>2. num \div u = 0
        BY <4>1
      <4> QED
        BY <4>2 DEF u
    <3> QED
      BY <2>1, <3>3
  <2> QED
    BY <2>1, <2>3
<1>4. PICK s \in Few : \A t \in Few : s <= t
  BY <1>3, Least
<1>5. s \in 0 .. Scale + k
  BY <1>1, <1>2, <1>3, <1>4
<1>6. s > 0 => num \div (den * 2^(s - 1)) >= 2^Precision
  <2> SUFFICES ASSUME s > 0 PROVE num \div (den * 2^(s - 1)) >= 2^Precision
    OBVIOUS
  <2> DEFINE h == 2^(s - 1)
             p == 2^Precision
  <2>1. s - 1 \in Nat /\ s - 1 \notin Few
    BY <1>4
  <2>2. h \in Nat \ {0} /\ p \in Nat /\ ~ (num \div (den * h) < p)
    BY <1>1, <2>1, TwoToThe
  <2>3. num \div (den * h) >= p
    <3> DEFINE u == den * h
    <3>1. u \in Nat \ {0} /\ ~ (num \div u < p)
      <4> HIDE DEF h, p
      <4> QED
        BY <2>2
    <3> HIDE DEF u, h, p
    <3>2. num \div u >= p
      BY <2>2, <3>1
    <3> QED
      BY <3>2 DEF u
  <2> QED
    BY <2>3
<1> QED
  BY <1>4, <1>5, <1>6

\* Rounding errs by half a unit of the last place w at most, and w is 1 or small
\* beside the number.
LEMMA RoundNatNear ==
  ASSUME NEW num \in Nat, NEW den \in Nat \ {0}
  PROVE  /\ RoundNat(num, den) \in Nat
         /\ \E w \in Nat \ {0} :
              /\ -(den * w) <= 2 * (RoundNat(num, den) * den - num)
              /\ 2 * (RoundNat(num, den) * den - num) <= den * w
              /\ w = 1 \/ den * w * 2^Precision <= 2 * num
<1> DEFINE shift == CHOOSE s \in 0 .. Scale + num \div (den * 2^Scale) :
                      /\ num \div (den * 2^s) < 2^Precision
                      /\ s > 0 => num \div (den * 2^(s - 1)) >= 2^Precision
           w == 2^shift
           ulp == den * w
           q == num \div ulp
           rest == num % ulp
           up == 2 * rest > ulp \/ (2 * rest = ulp /\ q % 2 = 1)
           v == RoundNat(num, den)
           p == 2^Precision
<1>1. /\ shift \in 0 .. Scale + num \div (den * 2^Scale)
      /\ shift > 0 => num \div (den * 2^(shift - 1)) >= 2^Precision
  BY ShiftIs
<1>2. v = (IF up THEN q + 1 ELSE q) * w
  BY DEF RoundNat
<1>3. shift \in Nat
  <2> HIDE DEF shift
  <2> QED
    BY <1>1
<1>4. w \in Nat \ {0} /\ p \in Nat
  <2> HIDE DEF shift
  <2> QED
    BY <1>3, TwoToThe, Powers
<1>5. w = 1 \/ den * w * p <= 2 * num
  <2> HIDE DEF shift
  <2>1. CASE shift = 0
    <3>1. 2^0 = 1
      OBVIOUS
    <3> QED
      BY <2>1, <3>1
  <2>2. CASE shift > 0
    <3> DEFINE h == 2^(shift - 1)
               u == den * h
    <3>1. shift - 1 \in Nat /\ shift = (shift - 1) + 1
      BY <1>3, <2>2
    <3>2. h \in Nat \ {0} /\ w = 2 * h
      BY <3>1, TwoToThe
    <3>3. num \div u >= p
      BY <1>1, <2>2
    <3>4. u \in Nat \ {0}
      <4> HIDE DEF h
      <4> QED
        BY <3>2
    <3>5. u * p <= num
      <4> HIDE DEF u, p
      <4>1. num \div u \in Nat /\ u * (num \div u) <= num
        BY <3>4
      <4>2. u * p <= u * (num \div u)
        BY <1>4, <3>3, <3>4, <4>1
      <4> QED
        BY <1>4, <3>4, <4>1, <4>2
    <3> HIDE DEF h, w, p
    <3>6. den * w * p = 2 * (u * p)
      BY <1>4, <3>2, <3>4
    <3>7. u * p \in Nat
      BY <1>4, <3>4
    <3> HIDE DEF u
    <3> QED
      BY <3>5, <3>6, <3>7
  <2> QED
    BY <1>3, <2>1, <2>2
<1> HIDE DEF shift, w, p, v
<1>6. ulp \in Nat \ {0}
  BY <1>4
<1>7. q \in Nat /\ rest \in Nat /\ rest < ulp /\ num = ulp * q + rest
  <2> HIDE DEF ulp
  <2> QED
    BY <1>6
<1>8. CASE up
  <2> HIDE DEF q, rest
  <2>1. v = (q + 1) * w /\ 2 * rest >= ulp
    <3> HIDE DEF ulp
    <3>1. 2 * rest >= ulp
      BY <1>6, <1>7, <1>8
    <3> QED
      BY <1>2, <1>8, <3>1
  <2>2. v \in Nat /\ v * den = ulp * q + ulp
    BY <1>4, <1>7, <2>1
  <2>3. ulp * q \in Nat
    BY <1>6, <1>7
  <2>4. v * den - num = ulp - rest
    <3> HIDE DEF ulp
    <3> QED
      BY <1>6, <1>7, <2>2, <2>3
  <2>5. -ulp <= 2 * (v * den - num) /\ 2 * (v * den - num) <= ulp
    <3> HIDE DEF ulp
    <3> QED
      BY <1>6, <1>7, <2>1, <2>4
  <2> QED
    BY <1>4, <1>5, <2>2, <2>5 DEF v, p
<1>9. CASE ~ up
  <2> HIDE DEF q, rest
  <2>1. v = q * w /\ 2 * rest <= ulp
    <3> HIDE DEF ulp
    <3>1. 2 * rest <= ulp
      BY <1>6, <1>7, <1>9
    <3> QED
      BY <1>2, <1>9, <3>1
  <2>2. v \in Nat /\ v * den = ulp * q
    BY <1>4, <1>7, <2>1
  <2>3. ulp * q \in Nat
    BY <1>6, <1>7
  <2>4. v * den - num = -rest
    <3> HIDE DEF ulp
    <3> QED
      BY <1>6, <1>7, <2>2, <2>3
  <2>5. -ulp <= 2 * (v * den - num) /\ 2 * (v * den - num) <= ulp
    <3> HIDE DEF ulp
    <3> QED
      BY <1>6, <1>7, <2>1, <2>4
  <2> QED
    BY <1>4, <1>5, <2>2, <2>5 DEF v, p
<1> QED
  BY <1>8, <1>9

Mag(x) == IF x < 0 THEN -x ELSE x

LEMMA MagType == \A x \in Int : Mag(x) \in Nat /\ x <= Mag(x) /\ -x <= Mag(x)
  BY DEF Mag

\* The error relative to the number: a sum or a product of floats loses a part in
\* 2^Precision, and integers that are small enough nothing.
LEMMA RoundNear ==
  ASSUME NEW num \in Int
  PROVE  /\ Round(num, 1) \in Int
         /\ Mag(Round(num, 1) - num) * 2^Precision <= Mag(num)
<1> DEFINE p == 2^Precision
<1>1. ASSUME NEW n \in Nat
      PROVE  RoundNat(n, 1) \in Nat /\ Mag(RoundNat(n, 1) - n) * p <= n
  <2> DEFINE v == RoundNat(n, 1)
  <2> DEFINE den == 1
  <2>d. den \in Nat \ {0} /\ den = 1
    OBVIOUS
  <2>a. v = RoundNat(n, den)
    OBVIOUS
  <2> HIDE DEF v, den
  <2>b. PICK w \in Nat \ {0} : /\ -(den * w) <= 2 * (RoundNat(n, den) * den - n)
                               /\ 2 * (RoundNat(n, den) * den - n) <= den * w
                               /\ w = 1 \/ den * w * p <= 2 * n
    BY <2>d, RoundNatNear
  <2>c. RoundNat(n, den) \in Nat
    BY <2>d, RoundNatNear
  <2>e. p \in Nat
    BY Powers
  <2> HIDE DEF p
  <2>1. v \in Nat /\ p \in Nat
    BY <2>a, <2>c, <2>e
  <2>2. -w <= 2 * (v - n) /\ 2 * (v - n) <= w /\ (w = 1 \/ w * p <= 2 * n)
    BY <2>1, <2>a, <2>b, <2>d
  <2>3. 2 * Mag(v - n) <= w
    BY <2>1, <2>2 DEF Mag
  <2>4. CASE w = 1
    <3>1. Mag(v - n) = 0
      BY <2>1, <2>3, <2>4 DEF Mag
    <3> QED
      BY <2>1, <3>1 DEF v
  <2>5. CASE w * p <= 2 * n
    <3> DEFINE e == Mag(v - n)
    <3>1. e \in Nat /\ 2 * e <= w
      BY <2>1, <2>3, MagType
    <3> HIDE DEF e
    <3>2. (2 * e) * p <= w * p
      BY <2>1, <3>1
    <3>3. e * p \in Nat /\ w * p \in Nat /\ (2 * e) * p = 2 * (e * p)
      BY <2>1, <3>1
    <3>4. e * p <= n
      BY <2>5, <3>2, <3>3
    <3> QED
      BY <2>1, <3>4 DEF e, v
  <2> QED
    BY <2>1, <2>2, <2>4, <2>5
<1>2. CASE num >= 0
  BY <1>1, <1>2 DEF Round, Mag
<1>3. CASE num < 0
  <2> DEFINE v == RoundNat(-num, 1)
  <2>1. -num \in Nat /\ v \in Nat /\ Mag(v - (-num)) * p <= -num
    BY <1>1, <1>3
  <2>2. Round(num, 1) = -v
    BY <1>3 DEF Round
  <2> HIDE DEF v, p
  <2>3. Mag(-v - num) = Mag(v - (-num)) /\ Mag(num) = -num
    BY <1>3, <2>1 DEF Mag
  <2> QED
    BY <2>1, <2>2, <2>3 DEF p
<1> QED
  BY <1>2, <1>3

\* A float read from cents is as near.
LEMMA CentsNear ==
  ASSUME NEW cents \in Int
  PROVE  /\ NumericToFloat64(cents) \in Int
         /\ Mag(100 * NumericToFloat64(cents) - cents * 2^Scale) * 2^Precision <= Mag(cents) * 2^Scale
<1> DEFINE p == 2^Precision
           u == 2^Scale
<1>p. p \in Nat /\ p >= 2 /\ u \in Nat /\ 50 * p <= u
  BY Powers
<1>1. ASSUME NEW c \in Nat
      PROVE  /\ RoundNat(c * u, 100) \in Nat
             /\ Mag(100 * RoundNat(c * u, 100) - c * u) * p <= c * u
  <2> DEFINE n == c * u
             v == RoundNat(n, 100)
  <2>1. n \in Nat
    <3> HIDE DEF u
    <3> QED
      BY <1>p
  <2> HIDE DEF n
  <2>2. v \in Nat
    BY <2>1, RoundNatNear
  <2> DEFINE den == 100
  <2>d. den \in Nat \ {0} /\ den = 100
    OBVIOUS
  <2>a. v = RoundNat(n, den)
    OBVIOUS
  <2> HIDE DEF v, den, p, u
  <2>b. PICK w \in Nat \ {0} : /\ -(den * w) <= 2 * (RoundNat(n, den) * den - n)
                               /\ 2 * (RoundNat(n, den) * den - n) <= den * w
                               /\ w = 1 \/ den * w * 2^Precision <= 2 * n
    BY <2>1, <2>d, RoundNatNear, ZenonT(60)
  <2>3. /\ -(100 * w) <= 2 * (v * 100 - n)
        /\ 2 * (v * 100 - n) <= 100 * w
        /\ w = 1 \/ 100 * (w * p) <= 2 * n
    <3>1. /\ -(100 * w) <= 2 * (v * 100 - n)
          /\ 2 * (v * 100 - n) <= 100 * w
          /\ w = 1 \/ 100 * w * p <= 2 * n
      BY <2>a, <2>b, <2>d, Zenon DEF p
    <3>2. 100 * w * p = 100 * (w * p)
      BY <1>p
    <3> QED
      BY <3>1, <3>2
  <2> DEFINE e == Mag(100 * v - n)
  <2>4. e \in Nat /\ e <= 50 * w
    BY <2>1, <2>2, <2>3 DEF Mag
  <2>5. CASE w = 1
    <3>1. CASE c = 0
      <4>1. n = 0
        BY <1>p, <3>1 DEF n
      <4>2. e = 0
        BY <2>2, <2>4, <2>5, <4>1 DEF Mag
      <4> QED
        BY <1>p, <2>1, <2>2, <4>1, <4>2 DEF v, n
    <3>2. CASE c > 0
      <4> HIDE DEF e
      <4>1. u <= n
        BY <1>p, <3>2 DEF n
      <4>2. e * p <= 50 * p
        BY <1>p, <2>4, <2>5
      <4>3. e * p \in Nat
        BY <1>p, <2>4
      <4>4. e * p <= n
        BY <1>p, <2>1, <4>1, <4>2, <4>3
      <4> QED
        BY <2>2, <4>4 DEF e, v, n
    <3> QED
      BY <3>1, <3>2
  <2>6. CASE 100 * (w * p) <= 2 * n
    <3> HIDE DEF e
    <3>1. e * p <= (50 * w) * p /\ (50 * w) * p = 50 * (w * p) /\ e * p \in Nat /\ w * p \in Nat
      BY <1>p, <2>4
    <3>2. e * p <= n
      BY <2>1, <2>6, <3>1
    <3> QED
      BY <2>2, <3>2 DEF e, v, n
  <2> QED
    BY <2>3, <2>5, <2>6
<1> DEFINE n == cents * u
<1>2. CASE cents >= 0
  <2>1. n \in Nat /\ Round(n, 100) = RoundNat(n, 100)
    <3>1. n \in Nat
      <4> HIDE DEF u
      <4> QED
        BY <1>p, <1>2
    <3> HIDE DEF n
    <3> QED
      BY <3>1 DEF Round
  <2> QED
    BY <1>1, <1>2, <2>1 DEF NumericToFloat64, Mag
<1>3. CASE cents < 0
  <2> DEFINE v == RoundNat(-n, 100)
  <2>1. n \in Int /\ n < 0 /\ -n = (-cents) * u /\ -cents \in Nat
    <3> HIDE DEF u
    <3> QED
      BY <1>p, <1>3
  <2>2. Round(n, 100) = -v
    <3> HIDE DEF n
    <3> QED
      BY <2>1 DEF Round
  <2>3. v \in Nat /\ Mag(100 * v - (-n)) * p <= -n
    BY <1>1, <2>1
  <2>4. Mag(cents) * u = -n
    BY <1>3, <2>1 DEF Mag
  <2> HIDE DEF n, v
  <2>5. Mag(100 * (-v) - n) = Mag(100 * v - (-n))
    BY <2>1, <2>3 DEF Mag
  <2>6. NumericToFloat64(cents) = -v
    BY <2>2 DEF NumericToFloat64, n
  <2>7. -v \in Int
    BY <2>3
  <2> HIDE DEF p, u
  <2>8. Mag(100 * (-v) - n) * p <= Mag(cents) * u
    BY <2>3, <2>4, <2>5
  <2> QED
    BY <2>6, <2>7, <2>8 DEF n, p, u
<1> QED
  BY <1>2, <1>3

\* A decimal half-way between two cents, read as a float.
LEMMA HalfWayNear ==
  ASSUME NEW k \in Int, k # 0
  PROVE  /\ Round(k * 2^Scale, 200) \in Int
         /\ Mag(200 * Round(k * 2^Scale, 200) - k * 2^Scale) * 2^Precision <= 2 * (Mag(k) * 2^Scale)
<1> DEFINE p == 2^Precision
           u == 2^Scale
<1>p. p \in Nat /\ p >= 2 /\ u \in Nat /\ 50 * p <= u
  BY Powers
<1>1. ASSUME NEW c \in Nat \ {0}
      PROVE  /\ RoundNat(c * u, 200) \in Nat
             /\ Mag(200 * RoundNat(c * u, 200) - c * u) * p <= 2 * (c * u)
  <2> DEFINE n == c * u
             v == RoundNat(n, 200)
  <2>1. n \in Nat /\ u <= n
    <3> HIDE DEF u
    <3> QED
      BY <1>p
  <2> HIDE DEF n
  <2> DEFINE den == 200
  <2>d. den \in Nat \ {0} /\ den = 200
    OBVIOUS
  <2>a. v = RoundNat(n, den)
    OBVIOUS
  <2> HIDE DEF v, den, p, u
  <2>2. v \in Nat
    BY <2>1, <2>a, <2>d, RoundNatNear
  <2>b. PICK w \in Nat \ {0} : /\ -(den * w) <= 2 * (RoundNat(n, den) * den - n)
                               /\ 2 * (RoundNat(n, den) * den - n) <= den * w
                               /\ w = 1 \/ den * w * 2^Precision <= 2 * n
    BY <2>1, <2>d, RoundNatNear, ZenonT(60)
  <2>3. /\ -(200 * w) <= 2 * (v * 200 - n)
        /\ 2 * (v * 200 - n) <= 200 * w
        /\ w = 1 \/ 200 * (w * p) <= 2 * n
    <3>1. /\ -(200 * w) <= 2 * (v * 200 - n)
          /\ 2 * (v * 200 - n) <= 200 * w
          /\ w = 1 \/ 200 * w * p <= 2 * n
      BY <2>a, <2>b, <2>d, Zenon DEF p
    <3>2. 200 * w * p = 200 * (w * p)
      BY <1>p
    <3> QED
      BY <3>1, <3>2
  <2> DEFINE e == Mag(200 * v - n)
  <2>4. e \in Nat /\ e <= 100 * w
    BY <2>1, <2>2, <2>3 DEF Mag
  <2> HIDE DEF e
  <2>5. e * p <= (100 * w) * p /\ (100 * w) * p = 100 * (w * p) /\ e * p \in Nat /\ w * p \in Nat
    BY <1>p, <2>4
  <2>6. CASE w = 1
    <3>1. w * p = p
      BY <1>p, <2>6
    <3>2. e * p <= 2 * n
      BY <1>p, <2>1, <2>5, <3>1
    <3> QED
      BY <2>2, <3>2 DEF e, v, n
  <2>7. CASE 200 * (w * p) <= 2 * n
    <3>1. e * p <= 2 * n
      BY <2>1, <2>5, <2>7
    <3> QED
      BY <2>2, <3>1 DEF e, v, n
  <2> QED
    BY <2>3, <2>6, <2>7
<1> DEFINE n == k * u
<1>2. CASE k > 0
  <2>1. n \in Nat /\ Round(n, 200) = RoundNat(n, 200)
    <3>1. n \in Nat
      <4> HIDE DEF u
      <4> QED
        BY <1>p, <1>2
    <3> HIDE DEF n
    <3> QED
      BY <3>1 DEF Round
  <2> QED
    BY <1>1, <1>2, <2>1 DEF Mag
<1>3. CASE k < 0
  <2> DEFINE v == RoundNat(-n, 200)
  <2>1. n \in Int /\ n <= 0 /\ -n = (-k) * u /\ -k \in Nat \ {0}
    <3> HIDE DEF u
    <3> QED
      BY <1>p, <1>3
  <2>2. n < 0
    <3> HIDE DEF u
    <3>1. (-k) * u > 0
      BY <1>p, <2>1
    <3> HIDE DEF n
    <3> QED
      BY <2>1, <3>1
  <2>3. Round(n, 200) = -v
    <3> HIDE DEF n
    <3> QED
      BY <2>1, <2>2 DEF Round
  <2>4. v \in Nat /\ Mag(200 * v - (-n)) * p <= 2 * (-n)
    BY <1>1, <2>1
  <2>5. Mag(k) * u = -n
    BY <1>3, <2>1 DEF Mag
  <2> HIDE DEF n, v
  <2>6. Mag(200 * (-v) - n) = Mag(200 * v - (-n))
    BY <2>1, <2>4 DEF Mag
  <2>7. -v \in Int
    BY <2>4
  <2> HIDE DEF p, u
  <2>8. Mag(200 * (-v) - n) * p <= 2 * (Mag(k) * u)
    BY <2>4, <2>5, <2>6
  <2> QED
    BY <2>3, <2>7, <2>8 DEF n, p, u
<1> QED
  BY <1>2, <1>3

\* What is so near to a number of cents does not read as half a cent more or less.
LEMMA NoHalfWay ==
  ASSUME NEW x \in Int, NEW c \in Int, NEW k \in {2 * c - 1, 2 * c + 1},
         2 * (Mag(100 * x - c * 2^Scale) * 2^Precision) + (4 * Mag(c) + 2) * 2^Scale
           < 2^Precision * 2^Scale
  PROVE  x # Round(k * 2^Scale, 200)
<1> DEFINE p == 2^Precision
           u == 2^Scale
           a == Mag(c)
           e == Mag(100 * x - c * u)
           v == Round(k * u, 200)
           o == Mag(200 * v - k * u)
           b == Mag(k)
<1>1. p \in Nat /\ u \in Nat /\ 2 * (e * p) + (4 * a + 2) * u < p * u
  BY Powers
<1>2. k \in Int /\ k # 0 /\ (k = 2 * c - 1 \/ k = 2 * c + 1)
  OBVIOUS
<1>3. v \in Int /\ o * p <= 2 * (b * u)
  BY <1>2, HalfWayNear
<1> SUFFICES ASSUME x = v PROVE FALSE
  OBVIOUS
<1> HIDE DEF p, u, v
<1>4. a \in Nat /\ b \in Nat /\ b <= 2 * a + 1
  BY <1>2 DEF Mag
<1>5. o \in Nat /\ e \in Nat /\ u <= o + 2 * e
  <2> DEFINE y == c * u
             z == k * u
  <2>1. y \in Int
    BY <1>1
  <2>2. z \in Int /\ (z = 2 * y - u \/ z = 2 * y + u)
    <3>1. CASE k = 2 * c - 1
      <4>1. (2 * c - 1) * u = 2 * (c * u) - u
        BY <1>1
      <4> QED
        BY <1>1, <2>1, <3>1, <4>1
    <3>2. CASE k = 2 * c + 1
      <4>1. (2 * c + 1) * u = 2 * (c * u) + u
        BY <1>1
      <4> QED
        BY <1>1, <2>1, <3>2, <4>1
    <3> QED
      BY <1>2, <3>1, <3>2
  <2> HIDE DEF y, z
  <2>3. Mag(200 * v - z) \in Nat /\ Mag(100 * x - y) \in Nat
    BY <1>3, <2>1, <2>2, MagType
  <2>4. u <= Mag(200 * v - z) + 2 * Mag(100 * x - y)
    BY <1>1, <1>3, <2>1, <2>2 DEF Mag
  <2> QED
    BY <2>3, <2>4 DEF y, z
<1> HIDE DEF a, b, e, o
<1>6. u * p <= (o + 2 * e) * p
  BY <1>1, <1>5
<1>7. (o + 2 * e) * p = o * p + 2 * (e * p) /\ u * p = p * u
  BY <1>1, <1>5
<1>8. 2 * (b * u) <= (4 * a + 2) * u
  <2>1. (2 * b) * u <= (4 * a + 2) * u /\ (2 * b) * u = 2 * (b * u)
    BY <1>1, <1>4
  <2> QED
    BY <2>1
<1>9. /\ o * p \in Int /\ e * p \in Int /\ u * p \in Int /\ b * u \in Int
      /\ (4 * a + 2) * u \in Int
  BY <1>1, <1>4, <1>5
<1> QED
  BY <1>1, <1>3, <1>6, <1>7, <1>8, <1>9

\* What is that near to a number of cents is written as that number.
LEMMA Nearest ==
  ASSUME NEW x \in Int, NEW c \in Int,
         2 * (Mag(100 * x - c * 2^Scale) * 2^Precision) + (4 * Mag(c) + 2) * 2^Scale
           < 2^Precision * 2^Scale
  PROVE  Float64ToNumeric(x) = {c}
<1> DEFINE u == 2^Scale
           p == 2^Precision
           y == x * 100
           d == y - c * u
           cents == y \div u
           rest == y % u
           half == Round((2 * cents + 1) * u, 200)
<1>1. u \in Nat \ {0} /\ p \in Nat /\ y \in Int /\ d \in Int /\ y = c * u + d
  <2>1. u \in Nat \ {0} /\ p \in Nat
    BY MoneyAssumption, TwoToThe, Powers
  <2> HIDE DEF u, p
  <2> QED
    BY <2>1
<1>2. 2 * d < u /\ -u < 2 * d
  <2> DEFINE e == Mag(d)
             a == Mag(c)
  <2>1. d = 100 * x - c * u
    <3> HIDE DEF u
    <3> QED
      BY <1>1
  <2>2. e \in Nat /\ a \in Nat /\ d <= e /\ -d <= e
    <3> HIDE DEF d
    <3> QED
      BY <1>1, MagType
  <2>3. 2 * (e * p) + (4 * a + 2) * u < p * u
    <3> HIDE DEF d
    <3> QED
      BY <2>1
  <2> HIDE DEF u, d, p, e, a
  <2>4. 2 * e < u
    <3> SUFFICES ASSUME u <= 2 * e PROVE FALSE
      BY <1>1, <2>2
    <3>1. u * p <= (2 * e) * p /\ (2 * e) * p = 2 * (e * p) /\ u * p = p * u
      BY <1>1, <2>2
    <3>2. (4 * a + 2) * u \in Nat /\ e * p \in Int /\ p * u \in Int
      BY <1>1, <2>2
    <3> QED
      BY <2>3, <3>1, <3>2
  <2> QED
    BY <1>1, <2>2, <2>4
<1>3. Float64ToNumeric(x) = {m \in {cents, cents + 1} : x = half \/ (m = cents <=> 2 * rest < u)}
  BY DEF Float64ToNumeric
<1>a. x # Round((2 * c - 1) * u, 200) /\ x # Round((2 * c + 1) * u, 200)
  <2>1. 2 * c - 1 \in {2 * c - 1, 2 * c + 1} /\ 2 * c + 1 \in {2 * c - 1, 2 * c + 1}
    OBVIOUS
  <2>2. \A k \in {2 * c - 1, 2 * c + 1} : x # Round(k * u, 200)
    BY NoHalfWay, ZenonT(60)
  <2> HIDE DEF u
  <2> QED
    BY <2>1, <2>2, Zenon
<1> HIDE DEF u, y, d
<1>4. CASE d >= 0
  <2>1. cents = c /\ rest = d
    BY <1>1, <1>2, <1>4
  <2> HIDE DEF cents, rest
  <2>2. x # half
    BY <1>a, <2>1
  <2> HIDE DEF half
  <2> QED
    BY <1>1, <1>2, <1>3, <1>4, <2>1, <2>2
<1>5. CASE d < 0
  <2>1. y = (c - 1) * u + (u + d) /\ u + d \in Nat /\ u + d < u
    BY <1>1, <1>2, <1>5
  <2>2. cents = c - 1 /\ rest = u + d
    <3> DEFINE below == c - 1
               up == u + d
    <3>1. below \in Int /\ y = below * u + up /\ up \in Nat /\ up < u
      BY <2>1
    <3> HIDE DEF below, up
    <3>2. cents = below /\ rest = up
      BY <1>1, <3>1
    <3> QED
      BY <3>2 DEF below, up
  <2> HIDE DEF cents, rest
  <2>3. x # half
    <3>1. 2 * cents + 1 = 2 * c - 1
      BY <2>2
    <3> QED
      BY <1>a, <3>1
  <2> HIDE DEF half
  <2> QED
    BY <1>1, <1>2, <1>3, <1>5, <2>2, <2>3
<1> QED
  BY <1>1, <1>4, <1>5

\* A number of cents whose float does not print with an exponent is read back from
\* that float.
LEMMA CentsSurvive ==
  ASSUME NEW c \in Int, ~ HasExponent(NumericToFloat64(c))
  PROVE  Float64ToNumeric(NumericToFloat64(c)) = {c}
<1> DEFINE p == 2^Precision
           u == 2^Scale
           x == NumericToFloat64(c)
           a == Mag(c)
           b == Mag(x)
           e == Mag(100 * x - c * u)
           L == CostLimit
<1>1. p \in Nat /\ p >= 2 /\ u \in Nat /\ 50 * p <= u /\ L \in Nat /\ 700 * L <= p
  BY Powers, MoneyAssumption
<1>2. x \in Int /\ e * p <= a * u
  BY CentsNear
<1>3. b < L * u
  <2>1. ~ (b >= L * u)
    BY DEF HasExponent, Mag
  <2>2. b \in Int /\ L * u \in Int
    <3> HIDE DEF x, u, L
    <3> QED
      BY <1>1, <1>2 DEF Mag
  <2> HIDE DEF b, u, L
  <2> QED
    BY <2>1, <2>2
<1> HIDE DEF p, u, x, L
<1>4. a \in Nat /\ b \in Nat /\ e \in Nat /\ a * u <= 100 * b + e
  <2>1. a * u = Mag(c * u)
    <3>1. CASE c >= 0
      <4>1. c * u >= 0
        BY <1>1, <3>1
      <4> QED
        BY <1>1, <3>1, <4>1 DEF Mag
    <3>2. CASE c < 0
      <4>1. c * u <= 0 /\ (-c) * u = -(c * u)
        BY <1>1, <3>2
      <4> QED
        BY <1>1, <3>2, <4>1 DEF Mag
    <3> QED
      BY <3>1, <3>2
  <2> DEFINE y == c * u
  <2>2. y \in Int
    BY <1>1
  <2> HIDE DEF y
  <2>3. Mag(y) <= 100 * Mag(x) + Mag(100 * x - y)
    BY <1>2, <2>2 DEF Mag
  <2>4. a \in Nat /\ b \in Nat /\ Mag(100 * x - y) \in Nat
    BY <1>2, <2>2 DEF Mag
  <2> QED
    BY <2>1, <2>3, <2>4 DEF y
<1> HIDE DEF a, b, e
<1>5. 6 * a + 2 < p
  <2> SUFFICES ASSUME p <= 6 * a + 2 PROVE FALSE
    BY <1>1, <1>4
  <2>1. u > 0 /\ L >= 1 /\ p >= 700
    <3>1. u > 0
      BY <1>1
    <3>2. L >= 1
      <4>1. L * u > 0
        BY <1>1, <1>3, <1>4
      <4> QED
        BY <1>1, <4>1
    <3> QED
      BY <1>1, <3>1, <3>2
  <2>2. a * (p - 1) <= 100 * L * p
    <3>1. (a * u) * p <= (100 * b + e) * p
      BY <1>1, <1>4
    <3>2. (100 * b + e) * p = 100 * (b * p) + e * p
      BY <1>1, <1>4
    <3>3. b * p <= (L * u) * p
      BY <1>1, <1>3, <1>4
    <3>4. (a * u) * p - a * u <= 100 * ((L * u) * p)
      <4>1. (a * u) * p \in Int /\ a * u \in Int /\ e * p \in Int /\ b * p \in Int /\ (L * u) * p \in Int
        BY <1>1, <1>4
      <4> QED
        BY <1>2, <3>1, <3>2, <3>3, <4>1
    <3>5. (a * (p - 1)) * u <= (100 * L * p) * u
      BY <1>1, <1>4, <3>4
    <3> DEFINE l == a * (p - 1)
               r == 100 * L * p
    <3>6. l \in Int /\ r \in Int
      BY <1>1, <1>4
    <3> HIDE DEF l, r
    <3>7. l * u <= r * u => l <= r
      BY <1>1, <2>1, <3>6
    <3> QED
      BY <3>5, <3>7 DEF l, r
  <2>3. 7 * (a * (p - 1)) <= p * p
    <3>1. (700 * L) * p <= p * p
      BY <1>1
    <3>2. 7 * (100 * L * p) = (700 * L) * p
      BY <1>1
    <3>3. a * (p - 1) \in Int /\ 100 * L * p \in Int
      BY <1>1, <1>4
    <3> QED
      BY <1>1, <2>2, <3>1, <3>2, <3>3
  <2>4. (p - 2) * (p - 1) <= 6 * (a * (p - 1))
    <3>1. p - 1 \in Nat /\ p - 2 \in Nat /\ p - 2 <= 6 * a
      BY <1>1, <1>4, <2>1
    <3> DEFINE k == p - 1
               l == p - 2
    <3>2. k \in Nat /\ l \in Nat /\ l <= 6 * a
      BY <3>1
    <3> HIDE DEF k, l
    <3>3. l * k <= (6 * a) * k /\ (6 * a) * k = 6 * (a * k)
      BY <1>4, <3>2
    <3> QED
      BY <3>3 DEF k, l
  <2>5. (p - 2) * (p - 1) = p * p - 3 * p + 2 /\ p * p \in Int
    BY <1>1
  <2>6. a * (p - 1) \in Int
    BY <1>1, <1>4
  <2>7. 700 * p <= p * p
    BY <1>1, <2>1
  <2> QED
    BY <1>1, <2>1, <2>3, <2>4, <2>5, <2>6, <2>7
<1>6. 2 * (e * p) + (4 * a + 2) * u < p * u
  <2>1. 2 * (a * u) + (4 * a + 2) * u = (6 * a + 2) * u
    BY <1>1, <1>4
  <2>2. (6 * a + 2) * u < p * u
    <3> DEFINE k == 6 * a + 2
    <3>1. k \in Nat /\ k < p /\ u > 0
      BY <1>1, <1>4, <1>5
    <3> HIDE DEF k
    <3>2. k * u < p * u
      BY <1>1, <3>1
    <3> QED
      BY <3>2 DEF k
  <2>3. /\ e * p \in Int /\ a * u \in Int /\ (4 * a + 2) * u \in Int /\ (6 * a + 2) * u \in Int
        /\ p * u \in Int
    BY <1>1, <1>4
  <2> QED
    BY <1>2, <2>1, <2>2, <2>3
<1> QED
  BY <1>2, <1>6, Nearest DEF e, u, x, a, p

\* One more line: the sum of floats keeps within a part of the sum of magnitudes
\* that grows by two in 2^Precision with each line.
LEMMA LineAdds ==
  ASSUME NEW p \in Nat, p >= 2, NEW u \in Nat,
         NEW x \in Int, NEW amount \in Int, NEW c \in Int, NEW t \in Int,
         NEW f \in Int, NEW next \in Int, NEW g \in Int, NEW m \in Nat,
         NEW E \in Nat, 3 <= E, E <= p,
         Mag(100 * x - c * u) * p <= Mag(c) * u,
         Mag(t - x * amount) * p <= Mag(x * amount),
         Mag(next - (f + t)) * p <= Mag(f + t),
         Mag(100 * f - g * u) * p <= E * (m * u),
         Mag(g) <= m
  PROVE  /\ Mag(g + c * amount) <= m + Mag(c) * Mag(amount)
         /\ Mag(100 * next - (g + c * amount) * u) * p <= (E + 2) * ((m + Mag(c) * Mag(amount)) * u)
<1> DEFINE A == Mag(amount)
           C == Mag(c)
           U == C * A * u
           M == m * u
           d == c * amount
           e1 == Mag(100 * (x * amount) - d * u)
           e2 == Mag(t - x * amount)
           e3 == Mag(100 * t - d * u)
           e4 == Mag(100 * f - g * u)
           e5 == Mag(100 * (f + t) - (g + d) * u)
           e6 == Mag(next - (f + t))
           e7 == Mag(100 * next - (g + d) * u)
<1>a. A \in Nat /\ C \in Nat /\ d \in Int /\ U \in Nat /\ M \in Nat /\ Mag(d) = C * A
  <2>1. A \in Nat /\ C \in Nat /\ d \in Int
    BY DEF Mag
  <2>2. Mag(d) = C * A
    <3>1. CASE amount >= 0 /\ c >= 0
      <4>1. d >= 0
        BY <3>1
      <4> QED
        BY <3>1, <4>1 DEF Mag
    <3>2. CASE amount < 0 /\ c >= 0
      <4>1. d <= 0 /\ -d = c * (-amount)
        BY <3>2
      <4> QED
        BY <3>2, <4>1 DEF Mag
    <3>3. CASE amount >= 0 /\ c < 0
      <4>1. d <= 0 /\ -d = (-c) * amount
        BY <3>3
      <4> QED
        BY <3>3, <4>1 DEF Mag
    <3>4. CASE amount < 0 /\ c < 0
      <4>1. d >= 0 /\ d = (-c) * (-amount)
        BY <3>4
      <4> QED
        BY <3>4, <4>1 DEF Mag
    <3> QED
      BY <3>1, <3>2, <3>3, <3>4
  <2> HIDE DEF A, C, d
  <2>3. U \in Nat /\ M \in Nat
    BY <2>1
  <2> QED
    BY <2>1, <2>2, <2>3
<1>b. /\ e1 \in Nat /\ e2 \in Nat /\ e3 \in Nat /\ e4 \in Nat /\ e5 \in Nat /\ e6 \in Nat /\ e7 \in Nat
  <2>1. x * amount \in Int /\ d * u \in Int /\ g * u \in Int /\ (g + d) * u \in Int
    BY <1>a
  <2> HIDE DEF d
  <2> QED
    BY <1>a, <2>1, MagType
<1>1. e1 * p <= U
  <2> DEFINE y == 100 * x - c * u
  <2>1. y \in Int /\ 100 * (x * amount) - d * u = y * amount
    OBVIOUS
  <2>2. e1 = Mag(y) * A
    <3> HIDE DEF y, d
    <3>1. CASE amount >= 0 /\ y >= 0
      BY <2>1, <3>1 DEF Mag
    <3>2. CASE amount >= 0 /\ y < 0
      BY <2>1, <3>2 DEF Mag
    <3>3. CASE amount < 0 /\ y >= 0
      BY <2>1, <3>3 DEF Mag
    <3>4. CASE amount < 0 /\ y < 0
      BY <2>1, <3>4 DEF Mag
    <3> QED
      BY <2>1, <3>1, <3>2, <3>3, <3>4
  <2> DEFINE z == Mag(y)
  <2>3. z \in Nat /\ z * p <= C * u
    BY <2>1, MagType
  <2> HIDE DEF e1, A, C, y, z
  <2>4. (z * p) * A <= (C * u) * A
    BY <1>a, <2>3
  <2> QED
    BY <1>a, <2>2, <2>3, <2>4 DEF z
<1>2. 100 * Mag(x * amount) <= 2 * U
  <2>1. e1 <= U
    <3> HIDE DEF e1, U
    <3>1. e1 <= e1 * p
      BY <1>b
    <3>2. e1 * p \in Int
      BY <1>b
    <3> QED
      BY <1>a, <1>b, <1>1, <3>1, <3>2
  <2>2. Mag(d * u) = U
    <3> HIDE DEF d, A, C
    <3>1. CASE d >= 0
      <4>1. d * u >= 0
        BY <1>a, <3>1
      <4> QED
        BY <1>a, <3>1, <4>1 DEF Mag
    <3>2. CASE d < 0
      <4>1. d * u <= 0 /\ -(d * u) = (-d) * u
        BY <1>a, <3>2
      <4> QED
        BY <1>a, <3>2, <4>1 DEF Mag
    <3> QED
      BY <1>a, <3>1, <3>2
  <2> DEFINE y == x * amount
             z == d * u
  <2>3. y \in Int /\ z \in Int
    BY <1>a
  <2>4. Mag(100 * y - z) <= U /\ Mag(z) = U
    BY <2>1, <2>2
  <2> HIDE DEF y, z, U
  <2>5. 100 * Mag(y) <= 2 * U
    BY <1>a, <2>3, <2>4 DEF Mag
  <2> QED
    BY <2>5 DEF y
<1>3. e3 * p <= 3 * U
  <2>1. e3 <= 100 * e2 + e1
    <3> DEFINE y == x * amount
               z == d * u
    <3>1. y \in Int /\ z \in Int
      BY <1>a
    <3> HIDE DEF y, z
    <3>2. Mag(100 * t - z) <= 100 * Mag(t - y) + Mag(100 * y - z)
      BY <3>1 DEF Mag
    <3> QED
      BY <3>2 DEF y, z
  <2>2. 100 * (e2 * p) <= 2 * U
    <3> DEFINE y == Mag(x * amount)
    <3>1. y \in Nat /\ e2 * p <= y /\ 100 * y <= 2 * U
      BY <1>2, MagType
    <3> HIDE DEF y, e2, U
    <3>2. e2 * p \in Int
      BY <1>b
    <3> QED
      BY <1>a, <3>1, <3>2
  <2> HIDE DEF e1, e2, e3, U
  <2>3. e3 * p <= (100 * e2 + e1) * p
    BY <1>b, <2>1
  <2>4. (100 * e2 + e1) * p = 100 * (e2 * p) + e1 * p
    BY <1>b
  <2>5. e3 * p \in Int /\ e2 * p \in Int /\ e1 * p \in Int
    BY <1>b
  <2> QED
    BY <1>a, <1>1, <2>2, <2>3, <2>4, <2>5
<1>4. e5 * p <= E * (M + U)
  <2>1. e5 <= e4 + e3
    <3> DEFINE y == g * u
               z == d * u
    <3>1. y \in Int /\ z \in Int /\ (g + d) * u = y + z
      BY <1>a
    <3> HIDE DEF y, z, d
    <3>2. Mag(100 * (f + t) - (y + z)) <= Mag(100 * f - y) + Mag(100 * t - z)
      BY <3>1 DEF Mag
    <3> QED
      BY <3>1, <3>2 DEF y, z
  <2>2. e4 * p <= E * M
    OBVIOUS
  <2> HIDE DEF e3, e4, e5, M, U
  <2>3. e5 * p <= (e4 + e3) * p
    BY <1>b, <2>1
  <2>4. (e4 + e3) * p = e4 * p + e3 * p /\ E * (M + U) = E * M + E * U
    BY <1>a, <1>b
  <2>5. 3 * U <= E * U
    BY <1>a
  <2>6. e5 * p \in Int /\ e4 * p \in Int /\ e3 * p \in Int /\ E * M \in Int /\ E * U \in Int
    BY <1>a, <1>b
  <2> QED
    BY <1>a, <1>3, <2>2, <2>3, <2>4, <2>5, <2>6
<1>5. e5 <= M + U
  <2> HIDE DEF e5, M, U
  <2> DEFINE N == M + U
  <2>1. N \in Nat /\ e5 * p <= E * N
    BY <1>a, <1>4
  <2> HIDE DEF N
  <2>2. E * N <= p * N
    BY <2>1
  <2>3. e5 * p <= p * N
    <3>1. e5 * p \in Int /\ E * N \in Int /\ p * N \in Int
      BY <1>b, <2>1
    <3> QED
      BY <2>1, <2>2, <3>1
  <2>4. e5 <= N
    BY <1>b, <2>1, <2>3
  <2> QED
    BY <2>4 DEF N
<1>6. Mag(g + d) <= m + C * A
  <2> DEFINE k == C * A
  <2>1. k \in Nat /\ Mag(d) = k
    BY <1>a
  <2> HIDE DEF d, k
  <2>2. Mag(g + d) <= m + k
    BY <1>a, <2>1 DEF Mag
  <2> QED
    BY <2>2 DEF k
<1>7. 100 * Mag(f + t) <= 2 * (M + U)
  <2>1. Mag((g + d) * u) <= M + U
    <3> DEFINE y == g + d
               k == m + C * A
    <3>1. y \in Int /\ Mag(y) <= k /\ k \in Nat /\ M + U = k * u
      BY <1>a, <1>6
    <3> HIDE DEF y, k
    <3>2. Mag(y * u) <= k * u
      <4>1. CASE y >= 0
        <5>1. y * u >= 0 /\ y * u <= k * u
          BY <3>1, <4>1 DEF Mag
        <5> QED
          BY <5>1, <3>1 DEF Mag
      <4>2. CASE y < 0
        <5>1. -y \in Nat /\ -y <= k
          BY <3>1, <4>2 DEF Mag
        <5>2. (-y) * u >= 0 /\ (-y) * u <= k * u /\ (-y) * u = -(y * u)
          BY <3>1, <5>1
        <5>3. y * u \in Int
          BY <3>1
        <5> QED
          BY <5>2, <5>3 DEF Mag
      <4> QED
        BY <3>1, <4>1, <4>2
    <3> QED
      BY <3>1, <3>2 DEF y
  <2> DEFINE z == (g + d) * u
             N == M + U
  <2>2. z \in Int /\ N \in Nat
    BY <1>a
  <2>3. Mag(z) <= N /\ Mag(100 * (f + t) - z) <= N
    BY <1>5, <2>1
  <2> HIDE DEF z, N
  <2>4. 100 * Mag(f + t) <= 2 * N
    BY <2>2, <2>3 DEF Mag
  <2> QED
    BY <2>4 DEF N
<1>8. e7 * p <= (E + 2) * (M + U)
  <2>1. e7 <= 100 * e6 + e5
    <3> DEFINE z == (g + d) * u
               y == f + t
    <3>1. z \in Int /\ y \in Int
      BY <1>a
    <3> HIDE DEF z, y
    <3>2. Mag(100 * next - z) <= 100 * Mag(next - y) + Mag(100 * y - z)
      BY <3>1 DEF Mag
    <3> QED
      BY <3>2 DEF z, y
  <2> DEFINE s == Mag(f + t)
             N == M + U
  <2>2. s \in Nat /\ e6 * p <= s /\ 100 * s <= 2 * N /\ N \in Nat /\ e5 * p <= E * N
    BY <1>a, <1>4, <1>7, MagType
  <2> HIDE DEF e5, e6, e7, s, N
  <2>3. e7 * p <= (100 * e6 + e5) * p
    BY <1>b, <2>1
  <2>4. (100 * e6 + e5) * p = 100 * (e6 * p) + e5 * p /\ (E + 2) * N = E * N + 2 * N
    BY <1>b, <2>2
  <2>5. e7 * p \in Int /\ e6 * p \in Int /\ e5 * p \in Int /\ E * N \in Int
    BY <1>b, <2>2
  <2>6. e7 * p <= (E + 2) * N
    BY <2>2, <2>3, <2>4, <2>5
  <2> QED
    BY <2>6 DEF N
<1>9. M + U = (m + C * A) * u
  <2> HIDE DEF A, C
  <2> QED
    BY <1>a
<1> QED
  BY <1>6, <1>8, <1>9

-----------------------------------------------------------------------------
(* The sums behind the state *)

FloatOf(l) == Times(NumericToFloat64(l.cost), l.amount)

\* Partial sums of the lines: what validateOrderProducts had after each line, what
\* was due, and the magnitudes of the summands, in cents.
FloatSums(f, ls) ==
  /\ f \in [0 .. Len(ls) -> Int] /\ f[0] = 0
  /\ \A i \in 1 .. Len(ls) : f[i] = Plus(f[i - 1], FloatOf(ls[i]))

DueSums(g, ls) ==
  g = [i \in 0 .. Len(ls) |-> IF i = 0 THEN 0 ELSE g[i - 1] + ls[i].cost * ls[i].amount]

MagnitudeSums(m, ls) ==
  m = [i \in 0 .. Len(ls) |-> IF i = 0 THEN 0 ELSE m[i - 1] + Mag(ls[i].cost) * Mag(ls[i].amount)]

SumsExist(ls) ==
  /\ \E g \in [0 .. Len(ls) -> Int] : DueSums(g, ls)
  /\ \E m \in [0 .. Len(ls) -> Nat] : MagnitudeSums(m, ls)

\* What the lines amount to in cents when none is deducted.
Magnitude == (CHOOSE m : MagnitudeSums(m, lines))[Len(lines)]

\* So few and so small lines that no sum in float64 loses half a cent: with 53 bits,
\* a thousand lines of twenty thousand million in all, or a million of twenty million.
FineSums == 2 * (2 * Len(lines) + 5) * (Magnitude + 1) <= 2^Precision

\* Both loops are on the same sums, as long as the rows keep the amounts asked for.
BothSums(f) ==
  /\ FloatSums(f, lines) /\ totalCost = f[Len(lines)]
  /\ AmountsFit => total = f[checked]

\* The inductive invariant.  Its sums are the history of the state: they spare an
\* induction over the lines.
MoneyInv ==
  /\ TypeOK
  /\ \E f : BothSums(f)
  /\ SumsExist(lines)
  /\ step \in {"validating", "converting", "failed"} => checked = 0
  /\ orderCost # Nothing => ~ HasExponent(totalCost) /\ orderCost \in Float64ToNumeric(totalCost)
  /\ step = "refused" => checked = Len(lines) /\ NumericToFloat64(orderCost) # total

LEMMA LineType == \A l \in Line : l.cost \in Int /\ l.amount \in Int
<1>1. Costs \subseteq Int /\ Amounts \subseteq -(2^Precision) .. 2^Precision
  BY MoneyAssumption, Zenon
<1>2. Amounts \subseteq Int
  BY <1>1, Powers
<1> QED
  BY <1>1, <1>2 DEF Line

LEMMA FloatTypes ==
  /\ \A l \in Line : FloatOf(l) \in Int
  /\ \A x, y \in Int : Plus(x, y) \in Int
<1>1. \A x, y \in Int : Plus(x, y) \in Int
  BY RoundNear DEF Plus
<1>2. ASSUME NEW l \in Line PROVE FloatOf(l) \in Int
  <2>1. l.cost \in Int /\ l.amount \in Int
    BY <1>2, LineType
  <2>2. NumericToFloat64(l.cost) \in Int
    BY <2>1, CentsNear
  <2> DEFINE x == NumericToFloat64(l.cost)
  <2> HIDE DEF x
  <2>3. x * l.amount \in Int
    BY <2>1, <2>2 DEF x
  <2> QED
    BY <2>3, RoundNear DEF FloatOf, Times, x
<1> QED
  BY <1>1, <1>2

LEMMA NumericType == \A x \in Int : Float64ToNumeric(x) \subseteq Int
<1> SUFFICES ASSUME NEW x \in Int PROVE Float64ToNumeric(x) \subseteq Int
  OBVIOUS
<1> DEFINE u == 2^Scale
<1>1. u \in Nat \ {0}
  BY MoneyAssumption, TwoToThe
<1>2. (x * 100) \div u \in Int
  <2> HIDE DEF u
  <2> QED
    BY <1>1
<1> QED
  BY <1>2 DEF Float64ToNumeric

LEMMA Int32Type == \A n \in Int : Int32(n) \in Int
<1> SUFFICES ASSUME NEW n \in Int PROVE Int32(n) \in Int
  OBVIOUS
<1>1. MaxAmount \in Nat
  BY AmountAssumption
<1> DEFINE k == 2 * (MaxAmount + 1)
<1>2. k \in Nat \ {0}
  BY <1>1
<1> HIDE DEF k
<1>3. (n + MaxAmount + 1) % k \in Int
  BY <1>1, <1>2
<1> QED
  BY <1>1, <1>3 DEF Int32, k

\* One more line extends the sums.
LEMMA SumsExtend ==
  ASSUME MoneyInv, step = "validating", NEW l \in Line, lines' = Append(lines, l),
         totalCost' = Plus(totalCost, FloatOf(l)), UNCHANGED <<checked, total>>
  PROVE  (\E f : BothSums(f)') /\ SumsExist(lines')
<1> DEFINE n == Len(lines)
<1>1. /\ n \in Nat /\ Len(lines') = n + 1 /\ lines'[n + 1] = l /\ checked = 0
      /\ \A i \in 1 .. n : lines'[i] = lines[i]
      /\ l.cost \in Int /\ l.amount \in Int
  BY LineType DEF MoneyInv, TypeOK
<1> HIDE DEF n
<1>2. \E f : BothSums(f)'
  <2>1. PICK f : FloatSums(f, lines) /\ totalCost = f[n] /\ (AmountsFit => total = f[0])
    BY <1>1 DEF MoneyInv, BothSums, n
  <2>a. AmountsFit' => AmountsFit
    BY <1>1 DEF AmountsFit, n
  <2> DEFINE h == [i \in 0 .. n + 1 |-> IF i = n + 1 THEN totalCost' ELSE f[i]]
  <2>2. totalCost' \in Int
    BY <1>1, <2>1, FloatTypes DEF FloatSums, n
  <2>3. h \in [0 .. n + 1 -> Int] /\ h[0] = f[0] /\ h[n + 1] = totalCost'
        /\ \A i \in 0 .. n : h[i] = f[i]
    BY <1>1, <2>1, <2>2 DEF FloatSums, n
  <2>4. \A i \in 1 .. n + 1 : h[i] = Plus(h[i - 1], FloatOf(lines'[i]))
    <3> SUFFICES ASSUME NEW i \in 1 .. n + 1
                 PROVE  h[i] = Plus(h[i - 1], FloatOf(lines'[i]))
      OBVIOUS
    <3> HIDE DEF h
    <3>1. CASE i = n + 1
      BY <1>1, <2>1, <2>3, <3>1
    <3>2. CASE i \in 1 .. n
      BY <1>1, <2>1, <2>3, <3>2 DEF FloatSums, n
    <3> QED
      BY <1>1, <3>1, <3>2
  <2> HIDE DEF h
  <2>5. FloatSums(h, lines')
    BY <1>1, <2>1, <2>3, <2>4 DEF FloatSums
  <2>6. AmountsFit' => total' = h[checked']
    BY <1>1, <2>1, <2>3, <2>a
  <2>7. totalCost' = h[Len(lines')]
    BY <1>1, <2>3
  <2>8. PICK f1 : f1 = h
    OBVIOUS
  <2>9. BothSums(f1)'
    BY <2>5, <2>6, <2>7, <2>8 DEF BothSums
  <2> QED
    BY <2>9
<1>3. \E g \in [0 .. Len(lines') -> Int] : DueSums(g, lines')
  <2>1. PICK g \in [0 .. n -> Int] : DueSums(g, lines)
    BY DEF MoneyInv, SumsExist, n
  <2> DEFINE h == [i \in 0 .. n + 1 |-> IF i = n + 1 THEN g[n] + l.cost * l.amount ELSE g[i]]
  <2>2. h \in [0 .. n + 1 -> Int] /\ h[n + 1] = g[n] + l.cost * l.amount
        /\ \A i \in 0 .. n : h[i] = g[i]
    BY <1>1, <2>1
  <2>3. \A i \in 0 .. n + 1 : h[i] = IF i = 0 THEN 0 ELSE h[i - 1] + lines'[i].cost * lines'[i].amount
    <3> SUFFICES ASSUME NEW i \in 0 .. n + 1
                 PROVE  h[i] = IF i = 0 THEN 0 ELSE h[i - 1] + lines'[i].cost * lines'[i].amount
      OBVIOUS
    <3> HIDE DEF h
    <3>1. CASE i = n + 1
      BY <1>1, <2>2, <3>1
    <3>2. CASE i \in 0 .. n
      <4>1. g[i] = IF i = 0 THEN 0 ELSE g[i - 1] + lines[i].cost * lines[i].amount
        BY <2>1, <3>2 DEF DueSums, n
      <4> QED
        BY <1>1, <2>2, <3>2, <4>1
    <3> QED
      BY <1>1, <3>1, <3>2
  <2> HIDE DEF h
  <2>4. DueSums(h, lines')
    BY <1>1, <2>2, <2>3 DEF DueSums
  <2> QED
    BY <1>1, <2>2, <2>4
<1>4. \E m \in [0 .. Len(lines') -> Nat] : MagnitudeSums(m, lines')
  <2>1. PICK m \in [0 .. n -> Nat] : MagnitudeSums(m, lines)
    BY DEF MoneyInv, SumsExist, n
  <2> DEFINE d == Mag(l.cost) * Mag(l.amount)
             h == [i \in 0 .. n + 1 |-> IF i = n + 1 THEN m[n] + d ELSE m[i]]
  <2>a. d \in Nat
    <3>1. Mag(l.amount) \in Nat /\ Mag(l.cost) \in Nat
      BY <1>1, MagType
    <3> QED
      BY <3>1
  <2>2. h \in [0 .. n + 1 -> Nat] /\ h[n + 1] = m[n] + d /\ \A i \in 0 .. n : h[i] = m[i]
    <3> HIDE DEF d
    <3> QED
      BY <1>1, <2>1, <2>a
  <2>3. \A i \in 0 .. n + 1 : h[i] = IF i = 0 THEN 0 ELSE h[i - 1] + Mag(lines'[i].cost) * Mag(lines'[i].amount)
    <3> SUFFICES ASSUME NEW i \in 0 .. n + 1
                 PROVE  h[i] = IF i = 0 THEN 0 ELSE h[i - 1] + Mag(lines'[i].cost) * Mag(lines'[i].amount)
      OBVIOUS
    <3> HIDE DEF h
    <3>1. CASE i = n + 1
      BY <1>1, <2>2, <3>1
    <3>2. CASE i \in 0 .. n
      <4>1. m[i] = IF i = 0 THEN 0 ELSE m[i - 1] + Mag(lines[i].cost) * Mag(lines[i].amount)
        BY <2>1, <3>2 DEF MagnitudeSums, n
      <4> QED
        BY <1>1, <2>2, <3>2, <4>1
    <3> QED
      BY <1>1, <3>1, <3>2
  <2> HIDE DEF h
  <2>4. MagnitudeSums(h, lines')
    BY <1>1, <2>2, <2>3 DEF MagnitudeSums
  <2> QED
    BY <1>1, <2>2, <2>4
<1> QED
  BY <1>2, <1>3, <1>4 DEF SumsExist

LEMMA InitMoneyInv == Init => MoneyInv
<1> SUFFICES ASSUME Init PROVE MoneyInv
  OBVIOUS
<1> DEFINE z == [i \in 0 .. 0 |-> 0]
<1>1. TypeOK /\ Len(lines) = 0
  BY MoneyAssumption DEF Init, TypeOK
<1>2. z \in [0 .. Len(lines) -> Nat] /\ z[0] = 0
  BY <1>1
<1>3. FloatSums(z, lines) /\ DueSums(z, lines) /\ MagnitudeSums(z, lines)
  BY <1>1 DEF FloatSums, DueSums, MagnitudeSums
<1> QED
  BY <1>1, <1>2, <1>3 DEF Init, MoneyInv, SumsExist, BothSums

LEMMA MoneyStep == MoneyInv /\ [Next]_vars => MoneyInv'
<1> SUFFICES ASSUME MoneyInv, [Next]_vars PROVE MoneyInv'
  OBVIOUS
<1>i. TypeOK
  BY DEF MoneyInv
<1>1. CASE UNCHANGED vars
  BY <1>1 DEF vars, MoneyInv, TypeOK, BothSums, AmountsFit
<1>2. CASE ValidateItem
  <2>1. PICK l \in Line :
          /\ lines' = Append(lines, l)
          /\ totalCost' = Plus(totalCost, FloatOf(l))
    BY <1>2 DEF ValidateItem, FloatOf
  <2>2. totalCost' \in Int
    BY <1>i, <2>1, FloatTypes DEF TypeOK
  <2>3. TypeOK'
    BY <1>i, <1>2, <2>1, <2>2, MoneyAssumption DEF TypeOK, ValidateItem
  <2>4. (\E f : BothSums(f)') /\ SumsExist(lines')
    BY <1>2, <2>1, SumsExtend DEF ValidateItem
  <2>5. orderCost' = Nothing /\ checked' = 0 /\ step' = "validating"
    BY <1>i, <1>2 DEF ValidateItem, TypeOK, MoneyInv
  <2> QED
    BY <2>3, <2>4, <2>5 DEF MoneyInv
<1>3. ASSUME UNCHANGED <<lines, totalCost, total, checked>>
      PROVE  (\E f : BothSums(f)') /\ SumsExist(lines')
  BY <1>3 DEF MoneyInv, BothSums, AmountsFit
<1>4. CASE FinishValidation
  BY <1>i, <1>3, <1>4 DEF FinishValidation, MoneyInv, TypeOK
<1>5. CASE Convert
  <2>1. orderCost' \in Float64ToNumeric(totalCost) => orderCost' \in Int
    BY <1>i, NumericType DEF TypeOK
  <2> QED
    BY <1>i, <1>3, <1>5, <2>1, MoneyAssumption DEF Convert, MoneyInv, TypeOK
<1>6. CASE InsertLine
  <2>1. PICK f : BothSums(f)
    BY DEF MoneyInv
  <2> DEFINE l == lines[checked + 1]
  <2>2. checked + 1 \in 1 .. Len(lines) /\ checked' = checked + 1 /\ l \in Line
    BY <1>i, <1>6 DEF InsertLine, TypeOK
  <2>3. total' = Plus(total, Times(NumericToFloat64(l.cost), Int32(l.amount)))
    BY <1>6 DEF InsertLine, SumLine
  <2>4. total' \in Int
    <3>1. NumericToFloat64(l.cost) \in Int /\ Int32(l.amount) \in Int
      <4> HIDE DEF l
      <4> QED
        BY <2>2, LineType, CentsNear, Int32Type
    <3> DEFINE x == NumericToFloat64(l.cost)
               amount == Int32(l.amount)
    <3> HIDE DEF x, amount
    <3>2. x * amount \in Int
      BY <3>1 DEF x, amount
    <3>3. Times(x, amount) \in Int
      BY <3>2, RoundNear DEF Times
    <3> QED
      BY <1>i, <2>3, <3>3, FloatTypes DEF TypeOK, x, amount
  <2>5. UNCHANGED <<lines, totalCost, orderCost, step>> /\ step = "inserting"
    BY <1>6 DEF InsertLine
  <2>6. ASSUME AmountsFit PROVE total' = f[checked']
    <3>1. f[checked + 1] = Plus(f[checked], FloatOf(l))
      BY <1>i, <2>1, <2>2 DEF FloatSums, BothSums, TypeOK
    <3>2. Int32(l.amount) = l.amount
      BY <2>2, <2>6 DEF AmountsFit, Fits
    <3> QED
      BY <2>1, <2>2, <2>3, <2>6, <3>1, <3>2 DEF BothSums, FloatOf
  <2>7. AmountsFit' = AmountsFit
    BY <2>5 DEF AmountsFit
  <2>8. BothSums(f)' /\ SumsExist(lines')
    BY <2>1, <2>5, <2>6, <2>7 DEF MoneyInv, BothSums
  <2>9. TypeOK'
    BY <1>i, <2>2, <2>4, <2>5 DEF TypeOK
  <2> QED
    BY <2>5, <2>8, <2>9 DEF MoneyInv
<1>7. CASE CheckTotal
  BY <1>i, <1>3, <1>7 DEF CheckTotal, MoneyInv, TypeOK
<1> QED
  BY <1>1, <1>2, <1>4, <1>5, <1>6, <1>7 DEF Next

LEMMA MoneyInvariance == Spec => []MoneyInv
<1>1. Init => MoneyInv
  BY InitMoneyInv
<1>2. MoneyInv /\ [Next]_vars => MoneyInv'
  BY MoneyStep
<1> QED
  BY <1>1, <1>2, PTL DEF Spec

\* The recursion of Due has one solution.
LEMMA DueIs ==
  ASSUME MoneyInv, NEW g \in [0 .. Len(lines) -> Int], DueSums(g, lines)
  PROVE  Due = g[Len(lines)]
<1> DEFINE n == Len(lines)
           h == CHOOSE x : DueSums(x, lines)
<1>1. Due = h[n]
  BY DEF Due, DueSums
<1>2. DueSums(h, lines)
  OBVIOUS
<1>3. n \in Nat
  BY DEF MoneyInv, TypeOK
<1> HIDE DEF h
<1>4. \A i \in 0 .. n : h[i] = g[i]
  <2> DEFINE Bad == {i \in 0 .. n : h[i] # g[i]}
  <2> SUFFICES ASSUME Bad # {} PROVE FALSE
    OBVIOUS
  <2>1. PICK i \in Bad : \A j \in Bad : i <= j
    <3>1. Bad \subseteq Nat
      BY <1>3
    <3> HIDE DEF Bad
    <3> QED
      BY <3>1, Least
  <2>2. i \in 0 .. n /\ h[i] # g[i]
    BY <2>1
  <2>3. i # 0
    BY <1>2, <1>3, <2>2 DEF DueSums
  <2>4. h[i - 1] = g[i - 1]
    BY <1>3, <2>1, <2>2, <2>3
  <2> QED
    BY <1>2, <1>3, <2>2, <2>3, <2>4 DEF DueSums
<1> QED
  BY <1>1, <1>3, <1>4

LEMMA MagnitudeIs ==
  ASSUME MoneyInv, NEW m \in [0 .. Len(lines) -> Nat], MagnitudeSums(m, lines)
  PROVE  Magnitude = m[Len(lines)]
<1> DEFINE n == Len(lines)
           h == CHOOSE x : MagnitudeSums(x, lines)
<1>1. Magnitude = h[n]
  BY DEF Magnitude
<1>2. MagnitudeSums(h, lines)
  OBVIOUS
<1>3. n \in Nat
  BY DEF MoneyInv, TypeOK
<1> HIDE DEF h
<1>4. \A i \in 0 .. n : h[i] = m[i]
  <2> DEFINE Bad == {i \in 0 .. n : h[i] # m[i]}
  <2> SUFFICES ASSUME Bad # {} PROVE FALSE
    OBVIOUS
  <2>1. PICK i \in Bad : \A j \in Bad : i <= j
    <3>1. Bad \subseteq Nat
      BY <1>3
    <3> HIDE DEF Bad
    <3> QED
      BY <3>1, Least
  <2>2. i \in 0 .. n /\ h[i] # m[i]
    BY <2>1
  <2>3. i # 0
    BY <1>2, <1>3, <2>2 DEF MagnitudeSums
  <2>4. h[i - 1] = m[i - 1]
    BY <1>3, <2>1, <2>2, <2>3
  <2> QED
    BY <1>2, <1>3, <2>2, <2>3, <2>4 DEF MagnitudeSums
<1> QED
  BY <1>1, <1>3, <1>4

\* How far a sum of floats is from what is due, after each line.
LEMMA SumsNear ==
  ASSUME MoneyInv, NEW f, FloatSums(f, lines),
         NEW g \in [0 .. Len(lines) -> Int], DueSums(g, lines),
         NEW m \in [0 .. Len(lines) -> Nat], MagnitudeSums(m, lines),
         NEW i \in 0 .. Len(lines), 2 * i + 3 <= 2^Precision
  PROVE  /\ Mag(100 * f[i] - g[i] * 2^Scale) * 2^Precision <= (2 * i + 3) * (m[i] * 2^Scale)
         /\ Mag(g[i]) <= m[i]
<1> DEFINE n == Len(lines)
           p == 2^Precision
           u == 2^Scale
           Near(j) == /\ Mag(100 * f[j] - g[j] * u) * p <= (2 * j + 3) * (m[j] * u)
                      /\ Mag(g[j]) <= m[j]
           Bad == {j \in 0 .. n : 2 * j + 3 <= p /\ ~ Near(j)}
<1> SUFFICES ASSUME Bad # {} PROVE FALSE
  OBVIOUS
<1>n. n \in Nat
  BY DEF MoneyInv, TypeOK
<1>1. PICK j \in Bad : \A k \in Bad : j <= k
  <2>1. Bad \subseteq Nat
    BY <1>n
  <2> HIDE DEF Bad
  <2> QED
    BY <2>1, Least
<1>2. n \in Nat /\ p \in Nat /\ p >= 2 /\ u \in Nat /\ j \in 0 .. n /\ 2 * j + 3 <= p
  BY <1>1, Powers DEF MoneyInv, TypeOK
<1> HIDE DEF p, u
<1>3. j # 0
  <2> SUFFICES ASSUME j = 0 PROVE FALSE
    OBVIOUS
  <2>1. f[0] = 0 /\ g[0] = 0 /\ m[0] = 0
    BY <1>2 DEF FloatSums, DueSums, MagnitudeSums
  <2>2. Mag(100 * 0 - 0 * u) = 0 /\ Mag(0) = 0
    BY <1>2 DEF Mag
  <2>3. Near(0)
    BY <1>2, <2>1, <2>2
  <2> QED
    BY <1>1, <2>3
<1> DEFINE k == j - 1
           l == lines[j]
           x == NumericToFloat64(l.cost)
           t == FloatOf(l)
<1>4. k \in 0 .. n /\ j = k + 1 /\ k \notin Bad
  <2>1. k \in 0 .. n /\ j = k + 1 /\ ~ (j <= k)
    BY <1>2, <1>3
  <2> HIDE DEF Bad, k
  <2> QED
    BY <1>1, <2>1
<1>a. k \in Nat /\ ~ (2 * k + 3 <= p /\ ~ Near(k))
  <2>1. k \in Nat
    BY <1>2, <1>4
  <2> HIDE DEF Near, k
  <2> QED
    BY <1>4, <2>1
<1>b. ~ Near(j)
  <2> HIDE DEF Near
  <2> QED
    BY <1>1
<1> HIDE DEF Bad, Near
<1>5. /\ f[j] = Plus(f[k], t)
      /\ g[j] = g[k] + l.cost * l.amount
      /\ m[j] = m[k] + Mag(l.cost) * Mag(l.amount)
  <2>1. j \in 1 .. Len(lines) /\ j \in 0 .. Len(lines) /\ n = Len(lines)
    BY <1>2, <1>3
  <2> HIDE DEF n
  <2>2. f[j] = Plus(f[k], t)
    <3> HIDE DEF l
    <3>1. f[j] = Plus(f[j - 1], FloatOf(lines[j]))
      BY <2>1 DEF FloatSums
    <3> QED
      BY <3>1 DEF l
  <2>3. g[j] = g[k] + l.cost * l.amount
    BY <1>3, <2>1 DEF DueSums
  <2>4. m[j] = m[k] + Mag(l.cost) * Mag(l.amount)
    BY <1>3, <2>1 DEF MagnitudeSums
  <2> QED
    BY <2>2, <2>3, <2>4
<1>6. l \in Line /\ l.cost \in Int /\ l.amount \in Int
  BY <1>2, <1>3, LineType DEF MoneyInv, TypeOK
<1>7. x \in Int /\ Mag(100 * x - l.cost * u) * p <= Mag(l.cost) * u
  <2> DEFINE c == l.cost
  <2>1. c \in Int /\ x = NumericToFloat64(c)
    BY <1>6
  <2> HIDE DEF c, x
  <2>2. x \in Int /\ Mag(100 * x - c * u) * p <= Mag(c) * u
    BY <2>1, CentsNear DEF p, u
  <2> QED
    BY <2>2 DEF c
<1>8. t \in Int /\ Mag(t - x * l.amount) * p <= Mag(x * l.amount)
  <2> DEFINE y == x * l.amount
  <2>1. y \in Int
    <3> HIDE DEF x, l
    <3> QED
      BY <1>6, <1>7
  <2>2. t = Round(y, 1)
    BY DEF FloatOf, Times
  <2> HIDE DEF y, t
  <2> QED
    BY <2>1, <2>2, RoundNear DEF p, y
<1>9. f[k] \in Int /\ g[k] \in Int /\ m[k] \in Nat
  BY <1>4 DEF FloatSums
<1>10. f[j] \in Int /\ Mag(f[j] - (f[k] + t)) * p <= Mag(f[k] + t)
  <2> DEFINE y == f[k] + t
  <2>1. y \in Int /\ f[j] = Round(y, 1)
    BY <1>5, <1>8, <1>9 DEF Plus
  <2> HIDE DEF y
  <2>2. Round(y, 1) \in Int /\ Mag(Round(y, 1) - y) * p <= Mag(y)
    BY <2>1, RoundNear DEF p
  <2> QED
    BY <2>1, <2>2 DEF y
<1>11. 2 * k + 3 \in Nat /\ 3 <= 2 * k + 3 /\ 2 * k + 3 <= p /\ (2 * k + 3) + 2 = 2 * j + 3
  BY <1>2, <1>4
<1>12. Near(k)
  BY <1>a, <1>11, Zenon
<1> HIDE DEF t, x, k, l
<1>c. /\ Mag(100 * f[k] - g[k] * u) * p <= (2 * k + 3) * (m[k] * u)
      /\ Mag(g[k]) <= m[k]
  BY <1>12 DEF Near
<1>13. /\ Mag(g[k] + l.cost * l.amount) <= m[k] + Mag(l.cost) * Mag(l.amount)
       /\ Mag(100 * f[j] - (g[k] + l.cost * l.amount) * u) * p
            <= ((2 * k + 3) + 2) * ((m[k] + Mag(l.cost) * Mag(l.amount)) * u)
  <2> DEFINE c == l.cost
             amount == l.amount
             E == 2 * k + 3
             next == f[j]
             sum == f[k]
             due == g[k]
             size == m[k]
  <2>1. /\ p \in Nat /\ p >= 2 /\ u \in Nat /\ x \in Int /\ amount \in Int /\ c \in Int /\ t \in Int
        /\ sum \in Int /\ next \in Int /\ due \in Int /\ size \in Nat
        /\ E \in Nat /\ 3 <= E /\ E <= p
    BY <1>2, <1>6, <1>7, <1>8, <1>9, <1>10, <1>11
  <2>2. /\ Mag(100 * x - c * u) * p <= Mag(c) * u
        /\ Mag(t - x * amount) * p <= Mag(x * amount)
        /\ Mag(next - (sum + t)) * p <= Mag(sum + t)
        /\ Mag(100 * sum - due * u) * p <= E * (size * u)
        /\ Mag(due) <= size
    BY <1>7, <1>8, <1>10, <1>c
  <2> SUFFICES /\ Mag(due + c * amount) <= size + Mag(c) * Mag(amount)
               /\ Mag(100 * next - (due + c * amount) * u) * p
                    <= (E + 2) * ((size + Mag(c) * Mag(amount)) * u)
    OBVIOUS
  <2> HIDE DEF c, amount, E, next, sum, due, size, p, u
  <2> QED
    BY <2>1, <2>2, LineAdds, ZenonT(60)
<1>14. Near(j)
  BY <1>5, <1>11, <1>13 DEF Near
<1> QED
  BY <1>b, <1>14

-----------------------------------------------------------------------------
(* Theorems *)

\* The variables keep their types: rounding yields a float whatever it is given, and
\* order_cost is a number of cents once the order is inserted.
THEOREM TypesHold == Spec => []TypeOK
  BY MoneyInvariance, PTL DEF MoneyInv

\* ErrInvalidOrderTotal has two causes: the sum that both loops agree on is not the
\* float nearest to what the lines cost, or an amount did not survive its conversion.
THEOREM OnlyDriftIsRefused == Spec => []RefusedOnlyByDrift
<1>1. MoneyInv => RefusedOnlyByDrift
  <2> SUFFICES ASSUME MoneyInv, step = "refused", totalCost = NumericToFloat64(Due), AmountsFit
               PROVE  FALSE
    BY DEF RefusedOnlyByDrift
  <2>1. total = totalCost /\ NumericToFloat64(orderCost) # total
    BY DEF MoneyInv, BothSums
  <2>2. PICK g \in [0 .. Len(lines) -> Int] : DueSums(g, lines)
    BY DEF MoneyInv, SumsExist
  <2>3. Due \in Int
    <3>1. Len(lines) \in 0 .. Len(lines)
      BY DEF MoneyInv, TypeOK
    <3> QED
      BY <2>2, <3>1, DueIs
  <2>4. ~ HasExponent(totalCost) /\ orderCost \in Float64ToNumeric(totalCost)
    BY DEF MoneyInv, TypeOK
  <2>5. orderCost = Due
    BY <2>3, <2>4, CentsSurvive
  <2> QED
    BY <2>1, <2>5
<1> QED
  BY <1>1, MoneyInvariance, PTL

\* order_cost is what the lines cost to the cent, for orders of so many bits and for
\* prices and amounts of any sign: the errors of three roundings per line do not add
\* up to what would make another cent of the sum.
THEOREM CostIsDue == Spec => [](FineSums => OrderCostIsDue)
<1>1. MoneyInv => (FineSums => OrderCostIsDue)
  <2> SUFFICES ASSUME MoneyInv, FineSums, orderCost # Nothing PROVE orderCost = Due
    BY DEF OrderCostIsDue
  <2> DEFINE n == Len(lines)
             p == 2^Precision
             u == 2^Scale
  <2>1. PICK f : FloatSums(f, lines) /\ totalCost = f[n]
    BY DEF MoneyInv, BothSums
  <2>2. PICK g \in [0 .. n -> Int] : DueSums(g, lines)
    BY DEF MoneyInv, SumsExist
  <2>3. PICK m \in [0 .. n -> Nat] : MagnitudeSums(m, lines)
    BY DEF MoneyInv, SumsExist
  <2>4. /\ n \in Nat /\ n \in 0 .. n /\ p \in Nat /\ p >= 2 /\ u \in Nat /\ 50 * p <= u
        /\ totalCost \in Int
    BY Powers DEF MoneyInv, TypeOK
  <2>5. Due = g[n] /\ Magnitude = m[n] /\ g[n] \in Int /\ m[n] \in Nat
    BY <2>2, <2>3, <2>4, DueIs, MagnitudeIs
  <2> DEFINE d == g[n]
             a == m[n]
             b == 2 * n + 3
             e == Mag(100 * totalCost - d * u)
  <2>6. 2 * (b + 2) * (a + 1) <= p
    BY <2>4, <2>5 DEF FineSums
  <2>7. b <= p /\ b \in Nat /\ b >= 3 /\ 2 * (b * a) + 4 * a + 2 < p
    <3>1. b \in Nat /\ b >= 3
      BY <2>4
    <3>2. a \in Nat
      BY <2>5
    <3> HIDE DEF a, b, p
    <3>3. 2 * (b + 2) * (a + 1) = 2 * (b * a) + 2 * b + 4 * a + 4
      BY <3>1, <3>2
    <3>4. 2 * (b * a) + 2 * b + 4 * a + 4 <= p
      BY <2>6, <3>3, Zenon
    <3> DEFINE y == b * a
    <3>5. y \in Nat /\ 2 * y + 2 * b + 4 * a + 4 <= p
      BY <3>1, <3>2, <3>4
    <3> HIDE DEF y
    <3>6. b <= p /\ 2 * y + 4 * a + 2 < p
      BY <2>4, <3>1, <3>2, <3>5
    <3> QED
      BY <3>1, <3>6 DEF y
  <2>8. e * p <= b * (a * u)
    BY <2>1, <2>2, <2>3, <2>4, <2>7, SumsNear
  <2>9. e \in Nat /\ a \in Nat /\ d \in Int
    <3>1. 100 * totalCost - d * u \in Int
      <4> HIDE DEF u
      <4> QED
        BY <2>4, <2>5
    <3> QED
      BY <2>5, <3>1, MagType
  <2>10. 2 * (e * p) + (4 * Mag(d) + 2) * u < p * u
    <3>1. Mag(d) <= a /\ Mag(d) \in Nat
      <4>1. Mag(d) \in Nat
        BY <2>9, MagType
      <4>2. Mag(d) <= a
        BY <2>1, <2>2, <2>3, <2>4, <2>7, SumsNear
      <4> QED
        BY <4>1, <4>2
    <3> DEFINE c == Mag(d)
               k == 2 * (b * a) + 4 * a + 2
    <3> HIDE DEF e, a, b, p, u, c, d
    <3>b. c \in Nat /\ c <= a
      BY <3>1 DEF c
    <3>2. (4 * c + 2) * u <= (4 * a + 2) * u
      BY <2>4, <2>9, <3>b
    <3>3. 2 * (b * (a * u)) + (4 * a + 2) * u = k * u
      BY <2>4, <2>7, <2>9
    <3>a. k \in Nat
      <4>1. b * a \in Nat
        BY <2>7, <2>9
      <4> QED
        BY <2>9, <4>1
    <3>4. k * u < p * u
      <4>1. k \in Nat /\ k < p /\ u > 0
        BY <2>4, <2>7, <3>a
      <4> HIDE DEF k
      <4> QED
        BY <2>4, <4>1
    <3>5. /\ e * p \in Int /\ b * (a * u) \in Int /\ (4 * c + 2) * u \in Int /\ (4 * a + 2) * u \in Int
          /\ p * u \in Int
      BY <2>4, <2>7, <2>9, <3>b
    <3> HIDE DEF k
    <3>6. k * u \in Int
      BY <2>4, <3>a
    <3> DEFINE error == e * p
               bound == b * (a * u)
               half == (4 * c + 2) * u
               most == (4 * a + 2) * u
               all == p * u
    <3>7. /\ error <= bound /\ half <= most /\ 2 * bound + most < all
          /\ error \in Int /\ bound \in Int /\ half \in Int /\ most \in Int /\ all \in Int
      BY <2>8, <3>2, <3>3, <3>4, <3>5, Zenon
    <3> HIDE DEF error, bound, half, most, all
    <3>8. 2 * error + half < all
      BY <3>7
    <3> QED
      BY <3>8 DEF error, half, all, c
  <2>11. Float64ToNumeric(totalCost) = {d}
    BY <2>4, <2>9, <2>10, Nearest
  <2> QED
    BY <2>5, <2>11 DEF MoneyInv
<1> QED
  BY <1>1, MoneyInvariance, PTL
=============================================================================
