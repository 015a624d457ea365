--------------------------- MODULE OrderCostProofs ---------------------------
(***************************************************************************)
(* What CostOf sums: the fold it is made of picks the lines of a finite    *)
(* set in an order of its own, and the sum does not depend on it.          *)
(* Induction is by a minimal counterexample among the subsets.             *)
(***************************************************************************)
EXTENDS OrderCreation, FiniteSetTheorems, WellFoundedInduction, TLAPS

LineCost(l) == l.price * l.amount

Pick(S) == CHOOSE l \in S : TRUE

\* g is the recursive function of the fold on the subsets of S.
Sums(S, g) ==
  g = [s \in SUBSET S |-> IF s = {} THEN 0 ELSE LineCost(Pick(s)) + g[s \ {Pick(s)}]]

SumsOf(S) == CHOOSE g : Sums(S, g)

LEMMA CostUnfolds == \A S : CostOf(S) = SumsOf(S)[S]
  BY DEF CostOf, MapThenSumSet, MapThenFoldSet, SumsOf, Sums, Pick, LineCost

\* Sets of subsets of a finite set have minimal elements.
LEMMA MinimalSubset ==
  ASSUME NEW S, IsFiniteSet(S), NEW Bad \in SUBSET (SUBSET S), Bad # {}
  PROVE  \E X \in Bad : \A Y \in SUBSET X : Y # X => Y \notin Bad
<1>1. Bad \subseteq FiniteSubsetsOf(S)
  BY FS_Subset DEF FiniteSubsetsOf
<1>2. IsWellFoundedOn(StrictSubsetOrdering(S), FiniteSubsetsOf(S))
  BY FS_StrictSubsetOrderingWellFounded
<1>3. PICK X \in Bad : \A Y \in Bad : ~ (<<Y, X>> \in StrictSubsetOrdering(S))
  BY <1>1, <1>2, WFMin
<1>4. ASSUME NEW Y \in SUBSET X, Y # X, Y \in Bad PROVE FALSE
  <2>1. <<Y, X>> \in StrictSubsetOrdering(S)
    BY <1>4 DEF StrictSubsetOrdering
  <2> QED
    BY <1>3, <1>4, <2>1
<1> QED
  BY <1>4

LEMMA PickIsIn == \A s : s # {} => Pick(s) \in s
  BY DEF Pick

\* The recursion determines its function.
LEMMA SumsAgree ==
  ASSUME NEW S, NEW T, IsFiniteSet(S), NEW g, NEW h, Sums(S, g), Sums(T, h),
         NEW U \in SUBSET S, U \in SUBSET T
  PROVE  g[U] = h[U]
<1> DEFINE Bad == {s \in SUBSET S : s \in SUBSET T /\ g[s] # h[s]}
<1> SUFFICES ASSUME Bad # {} PROVE FALSE
  OBVIOUS
<1>1. PICK X \in Bad : \A Y \in SUBSET X : Y # X => Y \notin Bad
  <2>1. Bad \in SUBSET (SUBSET S)
    OBVIOUS
  <2> HIDE DEF Bad
  <2> QED
    BY <2>1, MinimalSubset
<1>2. CASE X = {}
  BY <1>2 DEF Sums
<1>3. CASE X # {}
  <2> DEFINE R == X \ {Pick(X)}
  <2>1. R \in SUBSET X /\ R # X
    BY <1>3, PickIsIn
  <2>2. g[R] = h[R]
    BY <1>1, <2>1
  <2>3. g[X] = LineCost(Pick(X)) + g[R] /\ h[X] = LineCost(Pick(X)) + h[R]
    BY <1>3 DEF Sums
  <2> QED
    BY <2>2, <2>3
<1> QED
  BY <1>2, <1>3

\* And there is one.
LEMMA SumsExist ==
  ASSUME NEW S, IsFiniteSet(S)
  PROVE  Sums(S, SumsOf(S))
<1> DEFINE Bad == {s \in SUBSET S : ~ Sums(s, SumsOf(s))}
<1> SUFFICES ASSUME Bad # {} PROVE FALSE
  OBVIOUS
<1>b. Bad \in SUBSET (SUBSET S) /\ Bad # {}
  OBVIOUS
<1>1. PICK X \in Bad : \A Y \in SUBSET X : Y # X => Y \notin Bad
  <2> HIDE DEF Bad
  <2> QED
    BY <1>b, MinimalSubset
<1>2. \A Y \in SUBSET X : Y # X => Sums(Y, SumsOf(Y))
  BY <1>1
<1>3. IsFiniteSet(X)
  BY FS_Subset
<1> DEFINE g == [s \in SUBSET X |->
                   IF s = {} THEN 0
                   ELSE LineCost(Pick(s)) + SumsOf(s \ {Pick(s)})[s \ {Pick(s)}]]
<1>4. ASSUME NEW t \in SUBSET X, t # X PROVE g[t] = SumsOf(t)[t]
  <2>1. Sums(t, SumsOf(t))
    BY <1>2, <1>4
  <2>2. CASE t = {}
    BY <2>1, <2>2 DEF Sums
  <2>3. CASE t # {}
    <3> DEFINE r == t \ {Pick(t)}
    <3>1. r \in SUBSET t /\ r \in SUBSET X /\ r # X /\ r \in SUBSET r
      BY <2>3, PickIsIn
    <3>2. Sums(r, SumsOf(r)) /\ IsFiniteSet(t)
      BY <1>2, <1>3, <3>1, FS_Subset
    <3>3. SumsOf(t)[r] = SumsOf(r)[r]
      BY <2>1, <3>1, <3>2, SumsAgree
    <3>4. SumsOf(t)[t] = LineCost(Pick(t)) + SumsOf(t)[r]
      BY <2>1, <2>3 DEF Sums
    <3>5. g[t] = LineCost(Pick(t)) + SumsOf(r)[r]
      BY <2>3
    <3> QED
      BY <3>3, <3>4, <3>5
  <2> QED
    BY <2>2, <2>3
<1>5. ASSUME NEW s \in SUBSET X, s # {}
      PROVE  g[s] = LineCost(Pick(s)) + g[s \ {Pick(s)}]
  <2> DEFINE r == s \ {Pick(s)}
  <2>1. r \in SUBSET X /\ r # X
    BY <1>5, PickIsIn
  <2>2. g[r] = SumsOf(r)[r]
    BY <1>4, <2>1
  <2>3. g[s] = LineCost(Pick(s)) + SumsOf(r)[r]
    BY <1>5
  <2> QED
    BY <2>2, <2>3
<1>6. g[{}] = 0
  OBVIOUS
<1>7. Sums(X, g)
  <2> DEFINE G == [s \in SUBSET X |-> IF s = {} THEN 0 ELSE LineCost(Pick(s)) + g[s \ {Pick(s)}]]
  <2>1. \A s \in SUBSET X : G[s] = g[s]
    BY <1>5, <1>6
  <2> HIDE DEF G
  <2>2. g = G
    BY <2>1 DEF G
  <2> QED
    BY <2>2 DEF Sums, G
<1>8. Sums(X, SumsOf(X))
  BY <1>7 DEF SumsOf
<1> QED
  BY <1>8

-----------------------------------------------------------------------------
(* What the rest of the project may use of CostOf *)

LEMMA CostOfNone == CostOf({}) = 0
<1>1. Sums({}, SumsOf({}))
  BY FS_EmptySet, SumsExist
<1> QED
  BY <1>1, CostUnfolds DEF Sums

\* One step of the fold.
LEMMA CostOfPick ==
  ASSUME NEW S, IsFiniteSet(S), S # {}
  PROVE  CostOf(S) = LineCost(Pick(S)) + CostOf(S \ {Pick(S)})
<1> DEFINE R == S \ {Pick(S)}
<1>1. Sums(S, SumsOf(S))
  BY SumsExist
<1>2. IsFiniteSet(R) /\ R \in SUBSET S
  BY FS_Subset
<1>3. Sums(R, SumsOf(R))
  BY <1>2, SumsExist
<1>4. SumsOf(S)[R] = SumsOf(R)[R]
  <2> HIDE DEF R
  <2>1. R \in SUBSET R
    OBVIOUS
  <2> QED
    BY <1>1, <1>2, <1>3, <2>1, SumsAgree
<1>5. SumsOf(S)[S] = LineCost(Pick(S)) + SumsOf(S)[R]
  BY <1>1 DEF Sums
<1> QED
  BY <1>4, <1>5, CostUnfolds

\* The cost of finitely many lines of integer price and amount is an integer.
LEMMA CostOfType ==
  ASSUME NEW S, IsFiniteSet(S), \A l \in S : l.price \in Int /\ l.amount \in Int
  PROVE  CostOf(S) \in Int
<1> DEFINE Bad == {s \in SUBSET S : CostOf(s) \notin Int}
<1> SUFFICES ASSUME Bad # {} PROVE FALSE
  OBVIOUS
<1>b. Bad \in SUBSET (SUBSET S) /\ Bad # {}
  OBVIOUS
<1>1. PICK X \in Bad : \A Y \in SUBSET X : Y # X => Y \notin Bad
  <2> HIDE DEF Bad
  <2> QED
    BY <1>b, MinimalSubset
<1>2. CASE X = {}
  BY <1>2, CostOfNone
<1>3. CASE X # {}
  <2> DEFINE R == X \ {Pick(X)}
  <2>1. R \in SUBSET X /\ R # X /\ Pick(X) \in S
    BY <1>3, PickIsIn
  <2>2. CostOf(R) \in Int
    BY <1>1, <2>1
  <2>3. LineCost(Pick(X)) \in Int
    <3>1. Pick(X).price \in Int /\ Pick(X).amount \in Int
      BY <2>1
    <3> QED
      BY <3>1 DEF LineCost
  <2>4. CostOf(X) = LineCost(Pick(X)) + CostOf(R)
    BY <1>3, CostOfPick, FS_Subset
  <2> QED
    BY <2>2, <2>3, <2>4
<1> QED
  BY <1>2, <1>3

\* Any line can be taken out first: the order of the fold does not matter.
LEMMA CostOfRemove ==
  ASSUME NEW S, IsFiniteSet(S), \A l \in S : l.price \in Int /\ l.amount \in Int
  PROVE  \A l \in S : CostOf(S) = LineCost(l) + CostOf(S \ {l})
<1> DEFINE Bad == {s \in SUBSET S : \E l \in s : CostOf(s) # LineCost(l) + CostOf(s \ {l})}
<1> SUFFICES ASSUME Bad # {} PROVE FALSE
  OBVIOUS
<1>b. Bad \in SUBSET (SUBSET S) /\ Bad # {}
  OBVIOUS
<1>1. PICK X \in Bad : \A Y \in SUBSET X : Y # X => Y \notin Bad
  <2> HIDE DEF Bad
  <2> QED
    BY <1>b, MinimalSubset
<1>2. PICK l \in X : CostOf(X) # LineCost(l) + CostOf(X \ {l})
  OBVIOUS
<1>s. \A Y \in SUBSET X : Y # X => \A m \in Y : CostOf(Y) = LineCost(m) + CostOf(Y \ {m})
  BY <1>1
<1> DEFINE k == Pick(X)
           R == X \ {k, l}
<1>3. k \in X /\ IsFiniteSet(X)
  BY PickIsIn, FS_Subset
<1>4. CostOf(X) = LineCost(k) + CostOf(X \ {k})
  BY <1>3, CostOfPick
<1>5. k # l
  BY <1>2, <1>4
<1>6. CostOf(X \ {k}) = LineCost(l) + CostOf(R)
  <2>1. X \ {k} \in SUBSET X /\ X \ {k} # X /\ l \in X \ {k} /\ (X \ {k}) \ {l} = R
    BY <1>3, <1>5
  <2>2. \A m \in X \ {k} : CostOf(X \ {k}) = LineCost(m) + CostOf((X \ {k}) \ {m})
    BY <1>s, <2>1
  <2> QED
    BY <2>1, <2>2
<1>7. CostOf(X \ {l}) = LineCost(k) + CostOf(R)
  <2>1. X \ {l} \in SUBSET X /\ X \ {l} # X /\ k \in X \ {l} /\ (X \ {l}) \ {k} = R
    BY <1>3, <1>5
  <2>2. \A m \in X \ {l} : CostOf(X \ {l}) = LineCost(m) + CostOf((X \ {l}) \ {m})
    BY <1>s, <2>1
  <2> QED
    BY <2>1, <2>2
<1>8. LineCost(k) \in Int /\ LineCost(l) \in Int
  <2>1. k.price \in Int /\ k.amount \in Int /\ l.price \in Int /\ l.amount \in Int
    BY <1>3
  <2> QED
    BY <2>1 DEF LineCost
<1>9. CostOf(R) \in Int
  <2>1. IsFiniteSet(R) /\ R \in SUBSET S
    BY <1>3, FS_Subset
  <2> QED
    BY <2>1, CostOfType
<1> HIDE DEF k, R
<1> QED
  BY <1>2, <1>4, <1>6, <1>7, <1>8, <1>9

\* One line more costs its price times its amount more.
LEMMA CostOfAdd ==
  ASSUME NEW S, IsFiniteSet(S), NEW l, l \notin S,
         \A k \in S \cup {l} : k.price \in Int /\ k.amount \in Int
  PROVE  CostOf(S \cup {l}) = CostOf(S) + l.price * l.amount
<1>1. IsFiniteSet(S \cup {l}) /\ (S \cup {l}) \ {l} = S
  BY FS_AddElement
<1>2. CostOf(S \cup {l}) = LineCost(l) + CostOf(S)
  BY <1>1, CostOfRemove
<1>3. LineCost(l) \in Int /\ CostOf(S) \in Int
  <2>1. l.price \in Int /\ l.amount \in Int
    OBVIOUS
  <2> QED
    BY <2>1, CostOfType DEF LineCost
<1> QED
  BY <1>2, <1>3 DEF LineCost
==============================================================================
