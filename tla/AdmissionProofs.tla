--------------------------- MODULE AdmissionProofs ---------------------------
EXTENDS Admission, FiniteSetTheorems, TLAPS

USE ConstantsAssumption

-----------------------------------------------------------------------------
(* Sums over finite sets.  A sum of naturals is the number of its units,   *)
(* so what is to be known of sums follows from what is known of            *)
(* cardinalities.                                                          *)

Units(f, S) == {p \in S \X Nat : p[2] \in 1 .. f[p[1]]}
Sum(f, S) == Cardinality(Units(f, S))

\* Induction over the subsets of a finite set, in the form in which it can be cited.
LEMMA SubsetInduction ==
    ASSUME NEW S, IsFiniteSet(S), NEW Good,
           \A T \in SUBSET S : (\A x \in T : T \ {x} \in Good) => T \in Good
    PROVE  S \in Good
<1> SUFFICES ASSUME S \notin Good
             PROVE  FALSE
  OBVIOUS
<1> DEFINE Bad == (SUBSET S) \ Good
           R == StrictSubsetOrdering(S)
<1>1. IsWellFoundedOn(R, SUBSET S)
  <2>1. FiniteSubsetsOf(S) = SUBSET S
    BY FS_FiniteSubsetsOfFinite
  <2>2. IsWellFoundedOn(StrictSubsetOrdering(S), FiniteSubsetsOf(S))
    BY FS_StrictSubsetOrderingWellFounded
  <2> QED
    BY <2>1, <2>2
<1>2. Bad \subseteq SUBSET S /\ Bad # {}
  OBVIOUS
<1>3. \A T \in SUBSET S : \A x \in T : <<T \ {x}, T>> \in R
  BY DEF StrictSubsetOrdering
<1> HIDE DEF Bad, R
<1>4. PICK T \in Bad : \A U \in Bad : ~(<<U, T>> \in R)
  BY <1>1, <1>2, WFMin, Zenon
<1>5. T \in SUBSET S /\ T \notin Good
  BY <1>4 DEF Bad
<1>6. \A x \in T : T \ {x} \in Good
  <2> TAKE x \in T
  <2>1. T \ {x} \notin Bad
    BY <1>3, <1>4, <1>5
  <2> QED
    BY <1>5, <2>1 DEF Bad
<1> QED
  BY <1>5, <1>6

LEMMA UnitsOfRest ==
    ASSUME NEW S, NEW f \in [S -> Nat], NEW T \in SUBSET S, NEW x \in T
    PROVE  /\ Units(f, T) = Units(f, T \ {x}) \cup ({x} \X (1 .. f[x]))
           /\ Units(f, T \ {x}) \cap ({x} \X (1 .. f[x])) = {}
BY DEF Units

\* The units of one summand.
LEMMA Column ==
    ASSUME NEW x, NEW n \in Nat
    PROVE  IsFiniteSet({x} \X (1 .. n)) /\ Cardinality({x} \X (1 .. n)) = n
<1> DEFINE A == {x}
           B == 1 .. n
<1>1. IsFiniteSet(A) /\ Cardinality(A) = 1
  BY FS_Singleton
<1>2. IsFiniteSet(B) /\ Cardinality(B) = n
  <2>1. 1 \in Int /\ n \in Int
    OBVIOUS
  <2>2. IsFiniteSet(1 .. n) /\ Cardinality(1 .. n) = IF 1 > n THEN 0 ELSE n - 1 + 1
    BY <2>1, FS_Interval
  <2> QED
    BY <2>2
<1> HIDE DEF A, B
<1>3. IsFiniteSet(A \X B) /\ Cardinality(A \X B) = Cardinality(A) * Cardinality(B)
  BY <1>1, <1>2, FS_Product
<1>4. IsFiniteSet(A \X B) /\ Cardinality(A \X B) = n
  BY <1>1, <1>2, <1>3
<1> QED
  BY <1>4 DEF A, B

LEMMA UnitsFinite ==
    ASSUME NEW S, IsFiniteSet(S), NEW f \in [S -> Nat]
    PROVE  /\ IsFiniteSet(Units(f, S))
           /\ Sum(f, S) \in Nat
<1> DEFINE Good == {T \in SUBSET S : IsFiniteSet(Units(f, T))}
<1>1. ASSUME NEW T \in SUBSET S, \A x \in T : T \ {x} \in Good
      PROVE  T \in Good
  <2>1. CASE T = {}
    <3>1. Units(f, T) = {}
      BY <2>1 DEF Units
    <3> QED
      BY <3>1, FS_EmptySet
  <2>2. CASE T # {}
    <3>1. PICK x \in T : TRUE
      BY <2>2
    <3> DEFINE A == Units(f, T \ {x})
               B == {x} \X (1 .. f[x])
    <3>2. f[x] \in Nat
      OBVIOUS
    <3>3. IsFiniteSet(B)
      BY <3>2, Column
    <3>4. IsFiniteSet(A)
      BY <1>1
    <3>5. Units(f, T) = A \cup B
      BY UnitsOfRest
    <3> HIDE DEF A, B
    <3>6. IsFiniteSet(A \cup B)
      BY <3>3, <3>4, FS_Union
    <3> QED
      BY <3>5, <3>6
  <2> QED
    BY <2>1, <2>2
<1> HIDE DEF Good
<1>2. S \in Good
  BY <1>1, SubsetInduction
<1>3. IsFiniteSet(Units(f, S))
  BY <1>2 DEF Good
<1> QED
  BY <1>3, FS_CardinalityType DEF Sum

LEMMA SumOfRest ==
    ASSUME NEW S, IsFiniteSet(S), NEW f \in [S -> Nat], NEW T \in SUBSET S, NEW x \in T
    PROVE  /\ Sum(f, T) \in Nat
           /\ Sum(f, T \ {x}) \in Nat
           /\ Sum(f, T) = f[x] + Sum(f, T \ {x})
<1> DEFINE A == Units(f, T \ {x})
           B == {x} \X (1 .. f[x])
<1>1. IsFiniteSet(T \ {x})
  BY FS_Subset
<1>2. IsFiniteSet(A) /\ Cardinality(A) \in Nat
  <2>1. Units(f, T \ {x}) \subseteq Units(f, S)
    BY DEF Units
  <2> QED
    BY <2>1, UnitsFinite, FS_Subset, FS_CardinalityType
<1>3. IsFiniteSet(B) /\ Cardinality(B) = f[x]
  <2>1. f[x] \in Nat
    OBVIOUS
  <2> QED
    BY <2>1, Column
<1>4. Units(f, T) = A \cup B /\ A \cap B = {}
  BY UnitsOfRest
<1> HIDE DEF A, B
<1>5. Cardinality(A \cup B) = Cardinality(A) + Cardinality(B) - Cardinality(A \cap B)
  BY <1>2, <1>3, FS_Union
<1>6. Cardinality(A \cap B) = 0
  BY <1>4, FS_EmptySet
<1>7. Cardinality(Units(f, T)) = f[x] + Cardinality(A)
  BY <1>2, <1>3, <1>4, <1>5, <1>6
<1> QED
  BY <1>2, <1>7 DEF Sum, A

LEMMA SumOfNothing == \A f : Sum(f, {}) = 0
<1> SUFFICES ASSUME NEW f
             PROVE  Sum(f, {}) = 0
  OBVIOUS
<1>1. Units(f, {}) = {}
  BY DEF Units
<1> QED
  BY <1>1, FS_EmptySet DEF Sum

\* A sum is bounded by another one that has all its summands that are not 0, or larger
\* ones in their place.
LEMMA SumMonotone ==
    ASSUME NEW A, NEW B, NEW f \in [A -> Nat], NEW g \in [B -> Nat],
           NEW S \in SUBSET A, NEW T \in SUBSET B, IsFiniteSet(A), IsFiniteSet(B),
           \A x \in S : f[x] = 0 \/ (x \in T /\ f[x] <= g[x])
    PROVE  /\ Sum(f, S) \in Nat
           /\ Sum(g, T) \in Nat
           /\ Sum(f, S) <= Sum(g, T)
<1>1. Units(f, S) \subseteq Units(g, T)
  <2> SUFFICES ASSUME NEW p \in Units(f, S)
               PROVE  p \in Units(g, T)
    OBVIOUS
  <2>1. p \in S \X Nat /\ p[2] \in 1 .. f[p[1]]
    BY DEF Units
  <2>2. p[1] \in S /\ f[p[1]] \in Nat /\ p[2] \in Nat
    BY <2>1
  <2>3. f[p[1]] # 0
    BY <2>1, <2>2
  <2>4. p[1] \in T /\ f[p[1]] <= g[p[1]]
    BY <2>2, <2>3
  <2>5. g[p[1]] \in Nat
    BY <2>4
  <2>6. p \in T \X Nat
    BY <2>1, <2>4
  <2>7. p[2] \in 1 .. g[p[1]]
    BY <2>1, <2>2, <2>4, <2>5
  <2> QED
    BY <2>6, <2>7 DEF Units
<1>2. IsFiniteSet(Units(g, T))
  <2>1. Units(g, T) \subseteq Units(g, B)
    BY DEF Units
  <2> QED
    BY <2>1, UnitsFinite, FS_Subset
<1>3. IsFiniteSet(Units(f, S))
  BY <1>1, <1>2, FS_Subset
<1> QED
  BY <1>1, <1>2, <1>3, FS_Subset, FS_CardinalityType DEF Sum

LEMMA SumAdds ==
    ASSUME NEW S, IsFiniteSet(S), NEW f \in [S -> Nat], NEW g \in [S -> Nat]
    PROVE  Sum([x \in S |-> f[x] + g[x]], S) = Sum(f, S) + Sum(g, S)
<1> DEFINE h == [x \in S |-> f[x] + g[x]]
           Good == {T \in SUBSET S : Sum(h, T) = Sum(f, T) + Sum(g, T)}
<1>0. h \in [S -> Nat] /\ \A x \in S : h[x] = f[x] + g[x]
  OBVIOUS
<1> HIDE DEF h
<1>1. ASSUME NEW T \in SUBSET S, \A x \in T : T \ {x} \in Good
      PROVE  T \in Good
  <2>1. CASE T = {}
    BY <2>1, SumOfNothing
  <2>2. CASE T # {}
    <3>1. PICK x \in T : TRUE
      BY <2>2
    <3>2. Sum(h, T \ {x}) = Sum(f, T \ {x}) + Sum(g, T \ {x})
      BY <1>1
    <3>3. h[x] = f[x] + g[x] /\ f[x] \in Nat /\ g[x] \in Nat
      BY <1>0
    <3>4. Sum(f, T) = f[x] + Sum(f, T \ {x}) /\ Sum(f, T \ {x}) \in Nat
      BY SumOfRest
    <3>5. Sum(g, T) = g[x] + Sum(g, T \ {x}) /\ Sum(g, T \ {x}) \in Nat
      BY SumOfRest
    <3>6. Sum(h, T) = h[x] + Sum(h, T \ {x})
      BY <1>0, SumOfRest
    <3> QED
      BY <3>2, <3>3, <3>4, <3>5, <3>6
  <2> QED
    BY <2>1, <2>2
<1> HIDE DEF Good
<1>2. S \in Good
  BY <1>1, SubsetInduction
<1> QED
  BY <1>2 DEF Good, h

-----------------------------------------------------------------------------
(* The sums of the model are the sums above.                               *)

\* MapThenFoldSet folds with a function that solves this equation.
Solves(it, f, S) ==
    it = [s \in SUBSET S |->
             IF s = {} THEN 0
                       ELSE f[CHOOSE x \in s : TRUE] + it[s \ {CHOOSE x \in s : TRUE}]]

LEMMA Solved ==
    ASSUME NEW S, IsFiniteSet(S), NEW f \in [S -> Nat], NEW it, Solves(it, f, S)
    PROVE  it[S] = Sum(f, S)
<1> DEFINE Good == {T \in SUBSET S : it[T] = Sum(f, T)}
<1>1. ASSUME NEW T \in SUBSET S, \A x \in T : T \ {x} \in Good
      PROVE  T \in Good
  <2>1. CASE T = {}
    BY <2>1, SumOfNothing DEF Solves
  <2>2. CASE T # {}
    <3> DEFINE x == CHOOSE x \in T : TRUE
    <3>1. x \in T
      BY <2>2
    <3>2. it[T] = f[x] + it[T \ {x}]
      BY <2>2 DEF Solves
    <3> HIDE DEF x
    <3>3. it[T \ {x}] = Sum(f, T \ {x})
      BY <1>1, <3>1
    <3>4. Sum(f, T) = f[x] + Sum(f, T \ {x})
      BY <3>1, SumOfRest
    <3> QED
      BY <3>2, <3>3, <3>4
  <2> QED
    BY <2>1, <2>2
<1> HIDE DEF Good
<1>2. S \in Good
  BY <1>1, SubsetInduction
<1> QED
  BY <1>2 DEF Good

LEMMA Solvable ==
    ASSUME NEW S, IsFiniteSet(S), NEW f \in [S -> Nat]
    PROVE  \E it : Solves(it, f, S)
<1> SUFFICES Solves([s \in SUBSET S |-> Sum(f, s)], f, S)
  OBVIOUS
<1>1. ASSUME NEW s \in SUBSET S
      PROVE  Sum(f, s) = IF s = {} THEN 0
                         ELSE f[CHOOSE x \in s : TRUE] + Sum(f, s \ {CHOOSE x \in s : TRUE})
  <2>1. CASE s = {}
    BY <2>1, SumOfNothing
  <2>2. CASE s # {}
    <3> DEFINE x == CHOOSE x \in s : TRUE
    <3>1. x \in s
      BY <2>2
    <3> HIDE DEF x
    <3>2. Sum(f, s) = f[x] + Sum(f, s \ {x})
      BY <3>1, SumOfRest
    <3> QED
      BY <2>2, <3>2 DEF x
  <2> QED
    BY <2>1, <2>2
<1>2. \A s \in SUBSET S : s \ {CHOOSE x \in s : TRUE} \in SUBSET S
  OBVIOUS
<1> QED
  BY <1>1, <1>2 DEF Solves

\* So whatever solution is chosen, it gives the sum.
LEMMA Chosen ==
    ASSUME NEW S, IsFiniteSet(S), NEW f \in [S -> Nat]
    PROVE  (CHOOSE it : Solves(it, f, S))[S] = Sum(f, S)
<1>1. \E it : Solves(it, f, S)
  BY Solvable
<1>2. Solves(CHOOSE it : Solves(it, f, S), f, S)
  BY <1>1
<1> QED
  BY <1>2, Solved

LEMMA TotalIsSum ==
    ASSUME NEW f \in [Services -> Nat]
    PROVE  Total(f) = Sum(f, Services)
<1>1. IsFiniteSet(Services)
  OBVIOUS
<1>2. Total(f) = (CHOOSE it : Solves(it, f, Services))[Services]
  BY DEF Total, MapThenSumSet, MapThenFoldSet, Solves
<1> QED
  BY <1>1, <1>2, Chosen

LEMMA ReservedIsSum ==
    ASSUME NEW T \in SUBSET Instances, \A j \in T : Reservation(j, Nothing) \in Nat
    PROVE  Reserved(T) = Sum([j \in T |-> Reservation(j, Nothing)], T)
<1>1. IsFiniteSet(T)
  BY FS_Subset
<1> DEFINE f == [j \in T |-> Reservation(j, Nothing)]
<1>2. f \in [T -> Nat]
  OBVIOUS
<1> DEFINE Sums(it) ==
              it = [s \in SUBSET T |->
                      IF s = {} THEN 0
                      ELSE Reservation(CHOOSE x \in s : TRUE, Nothing) + it[s \ {CHOOSE x \in s : TRUE}]]
           chosen == CHOOSE it : Sums(it)
<1>3. Reserved(T) = chosen[T]
  BY DEF Reserved, MapThenSumSet, MapThenFoldSet
<1>4. \A s \in SUBSET T : s # {} =>
         f[CHOOSE x \in s : TRUE] = Reservation(CHOOSE x \in s : TRUE, Nothing)
  OBVIOUS
<1> HIDE DEF f
<1>5. \A it : Solves(it, f, T) <=> Sums(it)
  <2> TAKE it
  <2> DEFINE F == [s \in SUBSET T |->
                     IF s = {} THEN 0
                     ELSE f[CHOOSE x \in s : TRUE] + it[s \ {CHOOSE x \in s : TRUE}]]
             G == [s \in SUBSET T |->
                     IF s = {} THEN 0
                     ELSE Reservation(CHOOSE x \in s : TRUE, Nothing) + it[s \ {CHOOSE x \in s : TRUE}]]
  <2>1. F = G
    BY <1>4
  <2>2. Solves(it, f, T) <=> it = F
    BY Zenon DEF Solves
  <2>3. Sums(it) <=> it = G
    BY Zenon
  <2> HIDE DEF Sums, F, G
  <2> QED
    BY <2>1, <2>2, <2>3
<1> HIDE DEF Sums
<1>6. \E it : Sums(it)
  <2>1. \E it : Solves(it, f, T)
    BY <1>1, <1>2, Solvable
  <2> QED
    BY <1>5, <2>1, Zenon
<1>7. Sums(chosen)
  BY <1>6
<1> HIDE DEF chosen
<1>8. Reserved(T) = Sum(f, T)
  BY <1>1, <1>2, <1>3, <1>5, <1>7, Solved
<1> QED
  BY <1>8 DEF f

LEMMA UsedByIsSum ==
    ASSUME NEW T \in SUBSET Instances, \A j \in T : Used(j) \in Nat
    PROVE  UsedBy(T) = Sum([j \in T |-> Used(j)], T)
<1>1. IsFiniteSet(T)
  BY FS_Subset
<1> DEFINE f == [j \in T |-> Used(j)]
<1>2. f \in [T -> Nat]
  OBVIOUS
<1> DEFINE Sums(it) ==
              it = [s \in SUBSET T |->
                      IF s = {} THEN 0
                      ELSE Used(CHOOSE x \in s : TRUE) + it[s \ {CHOOSE x \in s : TRUE}]]
           chosen == CHOOSE it : Sums(it)
<1>3. UsedBy(T) = chosen[T]
  BY DEF UsedBy, MapThenSumSet, MapThenFoldSet
<1>4. \A s \in SUBSET T : s # {} =>
         f[CHOOSE x \in s : TRUE] = Used(CHOOSE x \in s : TRUE)
  OBVIOUS
<1> HIDE DEF f
<1>5. \A it : Solves(it, f, T) <=> Sums(it)
  <2> TAKE it
  <2> DEFINE F == [s \in SUBSET T |->
                     IF s = {} THEN 0
                     ELSE f[CHOOSE x \in s : TRUE] + it[s \ {CHOOSE x \in s : TRUE}]]
             G == [s \in SUBSET T |->
                     IF s = {} THEN 0
                     ELSE Used(CHOOSE x \in s : TRUE) + it[s \ {CHOOSE x \in s : TRUE}]]
  <2>1. F = G
    BY <1>4
  <2>2. Solves(it, f, T) <=> it = F
    BY Zenon DEF Solves
  <2>3. Sums(it) <=> it = G
    BY Zenon
  <2> HIDE DEF Sums, F, G
  <2> QED
    BY <2>1, <2>2, <2>3
<1> HIDE DEF Sums
<1>6. \E it : Sums(it)
  <2>1. \E it : Solves(it, f, T)
    BY <1>1, <1>2, Solvable
  <2> QED
    BY <1>5, <2>1, Zenon
<1>7. Sums(chosen)
  BY <1>6
<1> HIDE DEF chosen
<1>8. UsedBy(T) = Sum(f, T)
  BY <1>1, <1>2, <1>3, <1>5, <1>7, Solved
<1> QED
  BY <1>8 DEF f

-----------------------------------------------------------------------------
(* What a reservation is, and what an instance runs.                       *)

Statuses == {"absent", "preparing", "ready", "failed", "deleting", "retiring", "retired"}
Amounts == [Services -> Nat]

LEMMA DeliveryFacts ==
    /\ Deliveries \subseteq Delivery
    /\ Nothing \in Delivery
    /\ \A d \in Delivery : d.limits \in Amounts /\ d.jobs \in SUBSET Services
<1>1. Sizes \cup {0} \subseteq Nat
  OBVIOUS
<1>2. [Services -> Sizes \cup {0}] \subseteq Amounts
  BY <1>1 DEF Amounts
<1> QED
  BY <1>2 DEF Deliveries, Delivery, Nothing, Zero

Larger(a, b) == IF a >= b THEN a ELSE b

LEMMA MaxIsLarger == \A a, b \in Int : Max({a, b}) = Larger(a, b)
BY DEF Max, Larger

\* What service s of instance i comes to run at most while d is applied.
Planned(i, d) ==
    [s \in Services |->
        Larger(limit[i][s], IF s \in Regular(d) THEN d.limits[s] ELSE 0)
        + (oneoffs[i][s] + IF s \in d.jobs THEN d.limits[s] ELSE 0)]

TypeOK ==
    /\ status \in [Instances -> Statuses]
    /\ budget \in [Instances -> Nat]
    /\ limit \in [Instances -> Amounts]
    /\ oneoffs \in [Instances -> Amounts]
    /\ op \in [kind: {"none", "apply", "verified", "remove"},
               instance: Instances \cup {NoInstance}, delivery: Delivery,
               pending: SUBSET Services, job: Services \cup {NoService}]
    /\ Free \/ op.instance \in Instances
    /\ Free => op.job = NoService

\* A reservation is the sum of what is planned, unless that of before is larger.
LEMMA ReservationIsLarger ==
    ASSUME TypeOK, NEW i \in Instances, NEW d \in Delivery
    PROVE  /\ Planned(i, d) \in Amounts
           /\ Sum(Planned(i, d), Services) \in Nat
           /\ Jobs(i, d) + Largest(i, d) = Sum(Planned(i, d), Services)
           /\ Reservation(i, d) \in Nat
           /\ Reservation(i, d) = Larger(Sum(Planned(i, d), Services), budget[i])
<1> DEFINE L == [s \in Services |->
                    Larger(limit[i][s], IF s \in Regular(d) THEN d.limits[s] ELSE 0)]
           O == oneoffs[i]
           J == [s \in Services |-> IF s \in d.jobs THEN d.limits[s] ELSE 0]
           OJ == [s \in Services |-> O[s] + J[s]]
<1>1. limit[i] \in Amounts /\ O \in Amounts /\ budget[i] \in Nat
  BY DEF TypeOK
<1>2. d.limits \in Amounts
  BY DeliveryFacts
<1>3. L \in Amounts /\ J \in Amounts /\ OJ \in Amounts
  BY <1>1, <1>2 DEF Amounts, Larger
<1>4. Planned(i, d) = [s \in Services |-> L[s] + OJ[s]]
  BY DEF Planned
<1>5. Jobs(i, d) = Total(O) + Total(J)
  BY DEF Jobs
<1>6. Largest(i, d) = Total(L)
  <2>1. \A s \in Services :
           Max({limit[i][s], IF s \in Regular(d) THEN d.limits[s] ELSE 0})
              = Larger(limit[i][s], IF s \in Regular(d) THEN d.limits[s] ELSE 0)
    BY <1>1, <1>2, MaxIsLarger DEF Amounts
  <2>2. [s \in Services |->
           Max({limit[i][s], IF s \in Regular(d) THEN d.limits[s] ELSE 0})] = L
    BY <2>1
  <2> QED
    BY <2>2 DEF Largest
<1> HIDE DEF L, O, J
<1>7. /\ Total(O) = Sum(O, Services)
      /\ Total(J) = Sum(J, Services)
      /\ Total(L) = Sum(L, Services)
  BY <1>1, <1>3, TotalIsSum DEF Amounts
<1>8. /\ Sum(O, Services) \in Nat
      /\ Sum(J, Services) \in Nat
      /\ Sum(L, Services) \in Nat
  BY <1>1, <1>3, UnitsFinite DEF Amounts
<1>9. Sum(OJ, Services) = Sum(O, Services) + Sum(J, Services)
  BY <1>1, <1>3, SumAdds DEF Amounts
<1> HIDE DEF OJ
<1>10. Sum(Planned(i, d), Services) = Sum(L, Services) + Sum(OJ, Services)
  BY <1>3, <1>4, SumAdds DEF Amounts
<1>11. Planned(i, d) \in Amounts
  BY <1>3, <1>4 DEF Amounts
<1>12. Jobs(i, d) + Largest(i, d) = Sum(Planned(i, d), Services)
  BY <1>5, <1>6, <1>7, <1>8, <1>9, <1>10
<1>13. Sum(Planned(i, d), Services) \in Nat
  BY <1>8, <1>9, <1>10
<1>14. Reservation(i, d) = Larger(Sum(Planned(i, d), Services), budget[i])
  BY <1>1, <1>12, <1>13, MaxIsLarger DEF Reservation
<1> QED
  BY <1>1, <1>11, <1>12, <1>13, <1>14 DEF Larger

\* What runs is the sum of what runs of each service.
LEMMA WeightIsSum ==
    ASSUME NEW l \in Amounts, NEW o \in Amounts
    PROVE  /\ [s \in Services |-> l[s] + o[s]] \in Amounts
           /\ Total(l) + Total(o) = Sum([s \in Services |-> l[s] + o[s]], Services)
           /\ Total(l) + Total(o) \in Nat
<1>1. Total(l) = Sum(l, Services) /\ Total(o) = Sum(o, Services)
  BY TotalIsSum DEF Amounts
<1>2. Sum(l, Services) \in Nat /\ Sum(o, Services) \in Nat
  BY UnitsFinite DEF Amounts
<1>3. Sum([s \in Services |-> l[s] + o[s]], Services)
         = Sum(l, Services) + Sum(o, Services)
  BY SumAdds DEF Amounts
<1>4. [s \in Services |-> l[s] + o[s]] \in Amounts
  BY DEF Amounts
<1> QED
  BY <1>1, <1>2, <1>3, <1>4

\* What runs is bounded by any sum that bounds it service by service.
LEMMA WeightBounded ==
    ASSUME NEW l \in Amounts, NEW o \in Amounts, NEW g \in Amounts,
           \A s \in Services : l[s] + o[s] <= g[s]
    PROVE  Total(l) + Total(o) <= Sum(g, Services)
<1> DEFINE f == [s \in Services |-> l[s] + o[s]]
<1>1. f \in Amounts /\ Total(l) + Total(o) = Sum(f, Services)
  BY WeightIsSum
<1>2. \A s \in Services : f[s] <= g[s]
  OBVIOUS
<1> HIDE DEF f
<1>3. Sum(f, Services) <= Sum(g, Services)
  BY <1>1, <1>2, SumMonotone DEF Amounts
<1> QED
  BY <1>1, <1>3

LEMMA WeightShrinks ==
    ASSUME NEW l \in Amounts, NEW o \in Amounts, NEW m \in Amounts, NEW p \in Amounts,
           \A s \in Services : l[s] <= m[s] /\ o[s] <= p[s]
    PROVE  Total(l) + Total(o) <= Total(m) + Total(p)
<1> DEFINE g == [s \in Services |-> m[s] + p[s]]
<1>1. g \in Amounts /\ Total(m) + Total(p) = Sum(g, Services)
  BY WeightIsSum
<1>2. \A s \in Services : l[s] + o[s] <= g[s]
  BY DEF Amounts
<1> HIDE DEF g
<1>3. Total(l) + Total(o) <= Sum(g, Services)
  BY <1>1, <1>2, WeightBounded
<1> QED
  BY <1>1, <1>3

LEMMA NothingWeighsNothing == Total(Zero) + Total(Zero) = 0
<1>1. Zero \in [Services -> Nat] /\ \A s \in Services : Zero[s] = 0
  BY DEF Zero
<1>2. Total(Zero) = Sum(Zero, Services)
  BY <1>1, TotalIsSum
<1>3. Units(Zero, Services) = {}
  BY <1>1 DEF Units
<1>4. Sum(Zero, Services) = 0
  BY <1>3, FS_EmptySet DEF Sum
<1> QED
  BY <1>2, <1>4

-----------------------------------------------------------------------------
(* The invariant.                                                          *)

\* What the instance of a delivery may still come to run, service by service: the
\* larger of its container and the one that is to replace it, and its one-offs with
\* those to come.
Ahead ==
    [s \in Services |->
        (IF s \in op.pending \ op.delivery.jobs THEN Larger(limit[op.instance][s], Wanted(s))
                                                ELSE limit[op.instance][s])
        + (oneoffs[op.instance][s]
           + IF s \in op.pending \cap op.delivery.jobs THEN Wanted(s) ELSE 0)]

\* The delivery in progress stays within what was reserved for it.
DeliveryInv ==
    /\ op.kind \in {"apply", "verified"} =>
          /\ status[op.instance] = "preparing"
          /\ Sum(op.delivery.limits, Services) <= budget[op.instance]
    /\ op.kind = "apply" => Sum(Ahead, Services) <= budget[op.instance]
    /\ op.kind = "verified" =>
          \A s \in Services : /\ limit[op.instance][s] <= Wanted(s)
                              /\ oneoffs[op.instance][s] = 0
    /\ op.job # NoService =>
          /\ op.kind = "apply"
          /\ Wanted(op.job) <= oneoffs[op.instance][op.job]

\* What rests, and what is being removed.
RestInv ==
    /\ op.kind = "remove" => /\ status[op.instance] \in {"deleting", "retiring"}
                             /\ Environment[op.instance] # "prod"
    /\ \A i \in Instances :
          /\ status[i] \in {"absent", "retired"} => Quiet(i)
          /\ status[i] = "retired" => Environment[i] # "preview"
          /\ status[i] = "ready" => oneoffs[i] = Zero

\* The reservations that count fit the envelopes.
Counted == {i \in Instances : status[i] \notin {"absent", "retired"}}
CountedIn(e) == {i \in Counted : Environment[i] = e}

BudgetsFit ==
    /\ \A e \in DOMAIN Envelope : Sum(budget, CountedIn(e)) <= Envelope[e]
    /\ Sum(budget, Counted) <= MaximumTotal

\* What a counted instance runs is within its reservation.
BudgetsBound == \A i \in Counted : Used(i) <= budget[i]

AdmissionInv == TypeOK /\ DeliveryInv /\ RestInv /\ BudgetsFit /\ BudgetsBound

-----------------------------------------------------------------------------
(* Each step keeps its parts.                                              *)

LEMMA TypeStep ==
    ASSUME TypeOK, DeliveryInv, [Next]_vars
    PROVE  TypeOK'
<1> USE DEF TypeOK, Amounts, Statuses
<1>0. Zero \in Amounts /\ \A d \in Delivery : d.limits \in Amounts
  BY DeliveryFacts DEF Zero
<1>1. \A s \in Services : Wanted(s) \in Nat
  BY <1>0 DEF Wanted
<1>2. CASE UNCHANGED vars
  BY <1>2 DEF vars, registryVars, dockerVars, Free
<1>3. ASSUME NEW i \in Instances, NEW d \in Deliveries, Admit(i, d)
      PROVE  TypeOK'
  <2>1. d \in Delivery
    BY DeliveryFacts
  <2>2. Reservation(i, d) \in Nat
    BY <2>1, ReservationIsLarger
  <2> QED
    BY <1>3, <2>1, <2>2 DEF Admit, dockerVars, Idle, Free
<1>4. ASSUME NEW i \in Instances, StartRemoval(i)
      PROVE  TypeOK'
  <2>1. Nothing \in Delivery
    BY DeliveryFacts
  <2> QED
    BY <1>4, <2>1 DEF StartRemoval, dockerVars, Idle, Free
<1>5. ASSUME NEW s \in Services, StartService(s)
      PROVE  TypeOK'
  BY <1>1, <1>5 DEF StartService, Applying, registryVars, Free
<1>6. ASSUME NEW s \in Services, StartJob(s)
      PROVE  TypeOK'
  <2>1. op.instance \in Instances
    BY <1>6 DEF StartJob, Applying, Free
  <2>2. oneoffs[op.instance][s] + Wanted(s) \in Nat
    BY <1>1, <2>1
  <2>3. oneoffs' = [oneoffs EXCEPT ![op.instance][s] = oneoffs[op.instance][s] + Wanted(s)]
    BY <1>6 DEF StartJob
  <2>4. oneoffs' \in [Instances -> [Services -> Nat]]
    BY <2>1, <2>2, <2>3
  <2> QED
    BY <1>6, <2>1, <2>4 DEF StartJob, Applying, registryVars, Free
<1>7. ASSUME NEW s \in Services, RemoveContainers(s)
      PROVE  TypeOK'
  BY <1>7 DEF RemoveContainers, registryVars, Free
<1>8. CASE JobEnds
  <2>1. op.job \in Services /\ op.instance \in Instances
    BY <1>8 DEF JobEnds, Free
  <2>2. oneoffs[op.instance][op.job] - Wanted(op.job) \in Nat
    BY <1>1, <1>8, <2>1 DEF JobEnds, DeliveryInv
  <2> QED
    BY <1>8, <2>1, <2>2 DEF JobEnds, registryVars, Free
<1>9. CASE VerifyDelivery
  <2>1. op.instance \in Instances
    BY <1>9 DEF VerifyDelivery, Applying, Free
  <2>2. limit' = [limit EXCEPT ![op.instance] =
                    [s \in Services |->
                       IF s \in Regular(op.delivery) THEN limit[op.instance][s] ELSE 0]]
    BY <1>9 DEF VerifyDelivery
  <2>3. limit' \in [Instances -> [Services -> Nat]]
    BY <2>1, <2>2
  <2>4. oneoffs' \in [Instances -> [Services -> Nat]]
    BY <1>0, <1>9, <2>1 DEF VerifyDelivery
  <2> QED
    BY <1>9, <2>1, <2>3, <2>4 DEF VerifyDelivery, Applying, registryVars, Free
<1>10. CASE CommitReady
  <2>1. Total(op.delivery.limits) \in Nat
    BY <1>0, TotalIsSum, UnitsFinite
  <2> QED
    BY <1>10, <2>1, DeliveryFacts DEF CommitReady, dockerVars, Idle, Free
<1>11. CASE DeliveryFails
  <2>1. op.instance \in Instances
    BY <1>11 DEF DeliveryFails, Free
  <2>2. limit' \in [Instances -> [Services -> Nat]] /\ oneoffs' = oneoffs
    <3>1. /\ oneoffs' = oneoffs
          /\ \/ limit' = limit
             \/ \E s \in Services : limit' = [limit EXCEPT ![op.instance][s] = 0]
      BY <1>11 DEF DeliveryFails, dockerVars
    <3>2. ASSUME NEW s \in Services, limit' = [limit EXCEPT ![op.instance][s] = 0]
          PROVE  limit' \in [Instances -> [Services -> Nat]]
      BY <2>1, <3>2
    <3> QED
      BY <3>1, <3>2
  <2>3. status' \in [Instances -> Statuses]
    BY <1>11, <2>1 DEF DeliveryFails
  <2> QED
    BY <1>11, <2>2, <2>3, DeliveryFacts DEF DeliveryFails, Idle, Free
<1>12. CASE RemovalVerified
  BY <1>12, DeliveryFacts DEF RemovalVerified, dockerVars, Idle, Free
<1>13. CASE Interrupted
  BY <1>13, DeliveryFacts DEF Interrupted, registryVars, dockerVars, Idle, Free
<1>14. ASSUME NEW i \in Instances, NEW s \in Services, OneOffEnds(i, s)
      PROVE  TypeOK'
  BY <1>14 DEF OneOffEnds, registryVars, Free
<1> QED
  BY <1>2, <1>3, <1>4, <1>5, <1>6, <1>7, <1>8, <1>9, <1>10, <1>11, <1>12, <1>13, <1>14
  DEF Next

LEMMA RestStep ==
    ASSUME TypeOK, TypeOK', DeliveryInv, RestInv, [Next]_vars
    PROVE  RestInv'
<1> USE DEF RestInv, Quiet
<1>1. CASE UNCHANGED vars
  BY <1>1 DEF vars, registryVars, dockerVars
<1>2. ASSUME NEW i \in Instances, NEW d \in Deliveries, Admit(i, d)
      PROVE  RestInv'
  BY <1>2 DEF Admit, dockerVars, Idle, TypeOK
<1>3. ASSUME NEW i \in Instances, StartRemoval(i)
      PROVE  RestInv'
  BY <1>3 DEF StartRemoval, Removable, dockerVars, Idle, TypeOK
<1>4. ASSUME NEW s \in Services, StartService(s) \/ StartJob(s)
      PROVE  RestInv'
  <2>1. status[op.instance] = "preparing" /\ op'.kind = "apply"
    BY <1>4 DEF StartService, StartJob, Applying, DeliveryInv, TypeOK
  <2> QED
    BY <1>4, <2>1 DEF StartService, StartJob, registryVars, TypeOK
<1>5. ASSUME NEW s \in Services, RemoveContainers(s)
      PROVE  RestInv'
  BY <1>5 DEF RemoveContainers, registryVars, TypeOK
<1>6. CASE JobEnds
  <2>1. status[op.instance] = "preparing" /\ op'.kind = "apply"
    BY <1>6 DEF JobEnds, DeliveryInv, TypeOK
  <2> QED
    BY <1>6, <2>1 DEF JobEnds, registryVars, TypeOK
<1>7. CASE VerifyDelivery
  <2>1. status[op.instance] = "preparing" /\ op'.kind = "verified"
    BY <1>7 DEF VerifyDelivery, Applying, DeliveryInv, TypeOK
  <2> QED
    BY <1>7, <2>1 DEF VerifyDelivery, registryVars, TypeOK
<1>8. CASE CommitReady
  <2>1. op.instance \in Instances
    BY <1>8 DEF CommitReady, TypeOK, Free
  <2>2. oneoffs[op.instance] = Zero
    BY <1>8, <2>1 DEF CommitReady, DeliveryInv, TypeOK, Amounts, Zero
  <2> QED
    BY <1>8, <2>1, <2>2 DEF CommitReady, dockerVars, Idle, TypeOK
<1>9. CASE DeliveryFails
  <2>1. op.instance \in Instances /\ op'.kind = "none"
    BY <1>9 DEF DeliveryFails, TypeOK, Free, Idle
  <2>2. status' = [status EXCEPT ![op.instance] = "failed"]
    BY <1>9 DEF DeliveryFails
  <2>3. /\ oneoffs' = oneoffs
        /\ \A i \in Instances : i # op.instance => limit'[i] = limit[i]
    BY <1>9, <2>1 DEF DeliveryFails, dockerVars, TypeOK
  <2> QED
    BY <2>1, <2>2, <2>3 DEF TypeOK
<1>10. CASE RemovalVerified
  BY <1>10 DEF RemovalVerified, dockerVars, Idle, TypeOK, Free
<1>11. CASE Interrupted
  BY <1>11 DEF Interrupted, registryVars, dockerVars, Idle
<1>12. ASSUME NEW i \in Instances, NEW s \in Services, OneOffEnds(i, s)
       PROVE  RestInv'
  <2>1. oneoffs[i] # Zero
    BY <1>12 DEF OneOffEnds, Zero
  <2>2. status[i] \notin {"absent", "retired", "ready"}
    BY <2>1
  <2>3. \A j \in Instances : j # i => oneoffs'[j] = oneoffs[j]
    BY <1>12 DEF OneOffEnds, TypeOK
  <2> QED
    BY <1>12, <2>2, <2>3 DEF OneOffEnds, registryVars
<1> QED
  BY <1>1, <1>2, <1>3, <1>4, <1>5, <1>6, <1>7, <1>8, <1>9, <1>10, <1>11, <1>12 DEF Next

\* The delivery asks for no more than what is planned.
LEMMA PlannedCovers ==
    ASSUME TypeOK, NEW i \in Instances, NEW d \in Deliveries
    PROVE  Sum(d.limits, Services) <= Sum(Planned(i, d), Services)
<1>1. d \in Delivery /\ d.limits \in Amounts
  BY DeliveryFacts
<1>2. Planned(i, d) \in Amounts
  BY <1>1, ReservationIsLarger
<1>3. ASSUME NEW s \in Services
      PROVE  d.limits[s] <= Planned(i, d)[s]
  <2>1. limit[i][s] \in Nat /\ oneoffs[i][s] \in Nat /\ d.limits[s] \in Nat
    BY <1>1 DEF TypeOK, Amounts
  <2>2. d.limits[s] = 0 \/ s \in Regular(d) \/ s \in d.jobs
    BY DEF Regular
  <2>3. Planned(i, d)[s] = Larger(limit[i][s], IF s \in Regular(d) THEN d.limits[s] ELSE 0)
                              + (oneoffs[i][s] + IF s \in d.jobs THEN d.limits[s] ELSE 0)
    BY DEF Planned
  <2> QED
    BY <2>1, <2>2, <2>3 DEF Larger
<1> QED
  BY <1>1, <1>2, <1>3, SumMonotone DEF Amounts

\* Service by service no more, so no more in all.
LEMMA SumShrinks ==
    ASSUME NEW f \in Amounts, NEW g \in Amounts, \A s \in Services : f[s] <= g[s]
    PROVE  Sum(f, Services) \in Nat /\ Sum(g, Services) \in Nat /\ Sum(f, Services) <= Sum(g, Services)
BY SumMonotone DEF Amounts

LEMMA AheadType ==
    ASSUME TypeOK, ~Free
    PROVE  Ahead \in Amounts
<1>1. op.instance \in Instances /\ op.delivery.limits \in Amounts
  BY DeliveryFacts DEF TypeOK
<1>2. /\ limit[op.instance] \in Amounts
      /\ oneoffs[op.instance] \in Amounts
  BY <1>1 DEF TypeOK
<1> QED
  BY <1>1, <1>2 DEF Ahead, Amounts, Wanted, Larger

\* A step during which the delivery goes on, and no service comes to more than before.
LEMMA AheadShrinks ==
    ASSUME TypeOK, TypeOK', ~Free, ~Free', \A s \in Services : Ahead'[s] <= Ahead[s]
    PROVE  /\ Sum(Ahead, Services) \in Nat
           /\ Sum(Ahead', Services) \in Nat
           /\ Sum(Ahead', Services) <= Sum(Ahead, Services)
<1>1. Ahead \in Amounts
  BY AheadType
<1>2. Ahead' \in Amounts
  <2>1. op'.instance \in Instances /\ op'.delivery.limits \in Amounts
    BY DeliveryFacts DEF TypeOK
  <2>2. limit'[op'.instance] \in Amounts /\ oneoffs'[op'.instance] \in Amounts
    BY <2>1 DEF TypeOK
  <2> QED
    BY <2>1, <2>2 DEF Ahead, Amounts, Wanted, Larger
<1> QED
  BY <1>1, <1>2, SumShrinks

LEMMA DeliveryStep ==
    ASSUME TypeOK, TypeOK', DeliveryInv, [Next]_vars
    PROVE  DeliveryInv'
<1>1. CASE UNCHANGED vars
  <2>1. Ahead' = Ahead
    BY <1>1 DEF vars, registryVars, dockerVars, Ahead, Wanted
  <2> QED
    BY <1>1, <2>1 DEF vars, registryVars, dockerVars, DeliveryInv, Wanted
<1>2. ASSUME NEW i \in Instances, NEW d \in Deliveries, Admit(i, d)
      PROVE  DeliveryInv'
  <2>1. d \in Delivery /\ d.limits \in Amounts
    BY DeliveryFacts
  <2>2. /\ op'.kind = "apply" /\ op'.instance = i /\ op'.delivery = d
        /\ op'.job = NoService /\ op'.pending = {s \in Services : d.limits[s] # 0}
        /\ status'[i] = "preparing"
        /\ budget'[i] = Reservation(i, d)
        /\ limit' = limit /\ oneoffs' = oneoffs
    BY <1>2 DEF Admit, Idle, dockerVars, TypeOK
  <2>3. /\ Planned(i, d) \in Amounts
        /\ Sum(Planned(i, d), Services) \in Nat
        /\ Reservation(i, d) = Larger(Sum(Planned(i, d), Services), budget[i])
    BY <2>1, ReservationIsLarger
  <2>4. Sum(Planned(i, d), Services) <= Reservation(i, d)
    BY <2>3 DEF Larger, TypeOK
  <2>5. Sum(d.limits, Services) <= Reservation(i, d)
    <3>1. Sum(d.limits, Services) \in Nat
      BY <2>1, SumShrinks DEF Amounts
    <3>2. Reservation(i, d) \in Nat
      BY <2>1, ReservationIsLarger
    <3>3. Sum(d.limits, Services) <= Sum(Planned(i, d), Services)
      BY PlannedCovers
    <3> QED
      BY <2>3, <2>4, <3>1, <3>2, <3>3
  <2>6. Ahead' = Planned(i, d)
    <3>1. ASSUME NEW s \in Services
          PROVE  Ahead'[s] = Planned(i, d)[s]
      <4>1. limit[i][s] \in Nat /\ oneoffs[i][s] \in Nat /\ d.limits[s] \in Nat
        BY <2>1 DEF TypeOK, Amounts
      <4>2. s \in op'.pending \ d.jobs <=> s \in Regular(d)
        BY <2>2 DEF Regular
      <4>3. s \in op'.pending \cap d.jobs <=> s \in d.jobs
        BY <2>2 DEF Deliveries
      <4> QED
        BY <2>2, <4>1, <4>2, <4>3 DEF Ahead, Planned, Wanted, Larger
    <3> QED
      BY <3>1 DEF Ahead, Planned
  <2> QED
    BY <2>2, <2>4, <2>5, <2>6 DEF DeliveryInv
<1>3. ASSUME NEW i \in Instances, StartRemoval(i)
      PROVE  DeliveryInv'
  BY <1>3 DEF StartRemoval, Idle, DeliveryInv
<1>4. ASSUME NEW s \in Services, StartService(s)
      PROVE  DeliveryInv'
  <2>1. /\ op.kind = "apply" /\ op.job = NoService /\ op.instance \in Instances
        /\ op' = [op EXCEPT !.pending = @ \ {s}]
        /\ s \in op.pending \ op.delivery.jobs
        /\ limit' = [limit EXCEPT ![op.instance][s] = Wanted(s)]
        /\ status' = status /\ budget' = budget /\ oneoffs' = oneoffs
    BY <1>4 DEF StartService, Applying, registryVars, TypeOK, Free
  <2>2. /\ op'.kind = "apply" /\ op'.job = NoService /\ op'.instance = op.instance
        /\ op'.delivery = op.delivery /\ op'.pending = op.pending \ {s}
    BY <2>1 DEF TypeOK
  <2>3. ASSUME NEW t \in Services
        PROVE  Ahead'[t] <= Ahead[t]
    <3>1. /\ limit[op.instance][t] \in Nat /\ oneoffs[op.instance][t] \in Nat
          /\ Wanted(t) \in Nat
      BY <2>1, DeliveryFacts DEF TypeOK, Amounts, Wanted
    <3>2. limit'[op.instance][t] = IF t = s THEN Wanted(t) ELSE limit[op.instance][t]
      BY <2>1 DEF TypeOK, Amounts
    <3>3. Wanted(t)' = Wanted(t)
      BY <2>2 DEF Wanted
    <3> QED
      BY <2>1, <2>2, <3>1, <3>2, <3>3 DEF Ahead, Larger
  <2>4. /\ Sum(Ahead, Services) \in Nat /\ Sum(Ahead', Services) \in Nat
        /\ Sum(Ahead', Services) <= Sum(Ahead, Services)
    BY <2>1, <2>2, <2>3, AheadShrinks DEF Free
  <2> QED
    BY <2>1, <2>2, <2>4 DEF DeliveryInv, TypeOK
<1>5. ASSUME NEW s \in Services, StartJob(s)
      PROVE  DeliveryInv'
  <2>1. /\ op.kind = "apply" /\ op.job = NoService /\ op.instance \in Instances
        /\ op' = [op EXCEPT !.pending = @ \ {s}, !.job = s]
        /\ s \in op.pending \cap op.delivery.jobs
        /\ oneoffs' = [oneoffs EXCEPT ![op.instance][s] = @ + Wanted(s)]
        /\ status' = status /\ budget' = budget /\ limit' = limit
    BY <1>5 DEF StartJob, Applying, registryVars, TypeOK, Free
  <2>2. /\ op'.kind = "apply" /\ op'.job = s /\ op'.instance = op.instance
        /\ op'.delivery = op.delivery /\ op'.pending = op.pending \ {s}
    BY <2>1 DEF TypeOK
  <2>3. \A t \in Services : /\ limit[op.instance][t] \in Nat
                            /\ oneoffs[op.instance][t] \in Nat
                            /\ Wanted(t) \in Nat
    BY <2>1, DeliveryFacts DEF TypeOK, Amounts, Wanted
  <2>4. \A t \in Services :
           oneoffs'[op.instance][t] =
              IF t = s THEN oneoffs[op.instance][t] + Wanted(t) ELSE oneoffs[op.instance][t]
    BY <2>1 DEF TypeOK, Amounts
  <2>5. \A t \in Services : Wanted(t)' = Wanted(t)
    BY <2>2 DEF Wanted
  <2>6. ASSUME NEW t \in Services
        PROVE  Ahead'[t] <= Ahead[t]
    BY <2>1, <2>2, <2>3, <2>4, <2>5 DEF Ahead, Larger
  <2>7. /\ Sum(Ahead, Services) \in Nat /\ Sum(Ahead', Services) \in Nat
        /\ Sum(Ahead', Services) <= Sum(Ahead, Services)
    BY <2>1, <2>2, <2>6, AheadShrinks DEF Free
  <2>8. Wanted(s)' <= oneoffs'[op'.instance][s]
    BY <2>2, <2>3, <2>4, <2>5
  <2> QED
    BY <2>1, <2>2, <2>7, <2>8 DEF DeliveryInv, TypeOK
<1>6. ASSUME NEW s \in Services, RemoveContainers(s)
      PROVE  DeliveryInv'
  BY <1>6 DEF RemoveContainers, DeliveryInv
<1>7. CASE JobEnds
  <2>1. /\ op.kind = "apply" /\ op.job \in Services /\ op.instance \in Instances
        /\ op' = [op EXCEPT !.job = NoService]
        /\ Wanted(op.job) <= oneoffs[op.instance][op.job]
        /\ oneoffs' = [oneoffs EXCEPT ![op.instance][op.job] = @ - Wanted(op.job)]
        /\ status' = status /\ budget' = budget /\ limit' = limit
    BY <1>7 DEF JobEnds, registryVars, TypeOK, Free, DeliveryInv
  <2>2. /\ op'.kind = "apply" /\ op'.job = NoService /\ op'.instance = op.instance
        /\ op'.delivery = op.delivery /\ op'.pending = op.pending
    BY <2>1 DEF TypeOK
  <2>3. \A t \in Services : /\ limit[op.instance][t] \in Nat
                            /\ oneoffs[op.instance][t] \in Nat
                            /\ Wanted(t) \in Nat
    BY <2>1, DeliveryFacts DEF TypeOK, Amounts, Wanted
  <2>4. \A t \in Services :
           oneoffs'[op.instance][t] =
              IF t = op.job THEN oneoffs[op.instance][t] - Wanted(t) ELSE oneoffs[op.instance][t]
    BY <2>1 DEF TypeOK, Amounts
  <2>5. \A t \in Services : Wanted(t)' = Wanted(t)
    BY <2>2 DEF Wanted
  <2>6. ASSUME NEW t \in Services
        PROVE  Ahead'[t] <= Ahead[t]
    BY <2>1, <2>2, <2>3, <2>4, <2>5 DEF Ahead, Larger
  <2>7. /\ Sum(Ahead, Services) \in Nat /\ Sum(Ahead', Services) \in Nat
        /\ Sum(Ahead', Services) <= Sum(Ahead, Services)
    BY <2>1, <2>2, <2>6, AheadShrinks DEF Free
  <2> QED
    BY <2>1, <2>2, <2>7 DEF DeliveryInv, TypeOK
<1>8. CASE VerifyDelivery
  <2>1. /\ op.kind = "apply" /\ op.job = NoService /\ op.instance \in Instances
        /\ \A s \in Regular(op.delivery) : limit[op.instance][s] = Wanted(s)
        /\ op' = [op EXCEPT !.kind = "verified"]
        /\ status' = status /\ budget' = budget
    BY <1>8 DEF VerifyDelivery, Applying, registryVars, TypeOK, Free
  <2>2. /\ op'.kind = "verified" /\ op'.job = NoService /\ op'.instance = op.instance
        /\ op'.delivery = op.delivery
    BY <2>1 DEF TypeOK
  <2>3. limit' = [limit EXCEPT ![op.instance] =
                    [s \in Services |->
                       IF s \in Regular(op.delivery) THEN limit[op.instance][s] ELSE 0]]
    BY <1>8 DEF VerifyDelivery
  <2>4. oneoffs'[op.instance] = Zero
    BY <1>8, <2>1 DEF VerifyDelivery, TypeOK
  <2>5. ASSUME NEW s \in Services
        PROVE  limit'[op.instance][s] <= Wanted(s) /\ oneoffs'[op.instance][s] = 0
    <3>1. Wanted(s) \in Nat
      BY DeliveryFacts DEF TypeOK, Amounts, Wanted
    <3>2. limit'[op.instance][s] = IF s \in Regular(op.delivery) THEN Wanted(s) ELSE 0
      BY <2>1, <2>3 DEF TypeOK
    <3> QED
      BY <2>4, <3>1, <3>2 DEF Zero
  <2> QED
    BY <2>1, <2>2, <2>5 DEF DeliveryInv, Wanted
<1>9. CASE CommitReady \/ DeliveryFails \/ RemovalVerified \/ Interrupted
  <2>1. op' = Idle
    BY <1>9 DEF CommitReady, DeliveryFails, RemovalVerified, Interrupted
  <2> QED
    BY <2>1 DEF Idle, DeliveryInv
<1>10. ASSUME NEW i \in Instances, NEW s \in Services, OneOffEnds(i, s)
       PROVE  DeliveryInv'
  <2>1. /\ ~(op.instance = i /\ op.job = s)
        /\ oneoffs[i][s] > 0
        /\ op' = op /\ status' = status /\ budget' = budget /\ limit' = limit
    BY <1>10 DEF OneOffEnds, registryVars
  <2>2. PICK rest \in 0 .. oneoffs[i][s] - 1 : oneoffs' = [oneoffs EXCEPT ![i][s] = rest]
    BY <1>10 DEF OneOffEnds
  <2>3. \A j \in Instances, t \in Services :
           /\ limit[j][t] \in Nat /\ oneoffs[j][t] \in Nat /\ oneoffs'[j][t] \in Nat
    BY DEF TypeOK, Amounts
  <2>4. \A j \in Instances, t \in Services :
           oneoffs'[j][t] = IF j = i /\ t = s THEN rest ELSE oneoffs[j][t]
    BY <2>2 DEF TypeOK, Amounts
  <2>5. \A j \in Instances, t \in Services : oneoffs'[j][t] <= oneoffs[j][t]
    BY <2>2, <2>3, <2>4
  <2>6. \A t : Wanted(t)' = Wanted(t)
    BY <2>1 DEF Wanted
  <2>7. ASSUME ~Free
        PROVE  /\ Sum(Ahead, Services) \in Nat /\ Sum(Ahead', Services) \in Nat
               /\ Sum(Ahead', Services) <= Sum(Ahead, Services)
    <3>1. op.instance \in Instances
      BY <2>7 DEF TypeOK
    <3>2. ASSUME NEW t \in Services
          PROVE  Ahead'[t] <= Ahead[t]
      <4>1. Wanted(t) \in Nat
        BY DeliveryFacts DEF TypeOK, Amounts, Wanted
      <4> QED
        BY <2>1, <2>3, <2>5, <2>6, <3>1, <4>1 DEF Ahead, Larger
    <3> QED
      BY <2>1, <2>7, <3>2, AheadShrinks DEF Free
  <2>8. CASE op.kind = "apply"
    <3>1. op.instance \in Instances
      BY <2>8 DEF TypeOK, Free
    <3>2. op.job # NoService => op.job \in Services
      BY DEF TypeOK
    <3>3. op.job # NoService =>
             oneoffs'[op.instance][op.job] = oneoffs[op.instance][op.job]
      BY <2>1, <2>4, <3>1, <3>2
    <3> QED
      BY <2>1, <2>6, <2>7, <2>8, <3>1, <3>3 DEF DeliveryInv, TypeOK, Free
  <2>9. CASE op.kind = "verified"
    <3>1. op.instance \in Instances
      BY <2>9 DEF TypeOK, Free
    <3>2. op.instance # i
      BY <2>1, <2>9 DEF DeliveryInv
    <3>3. \A t \in Services : oneoffs'[op.instance][t] = oneoffs[op.instance][t]
      BY <2>4, <3>1, <3>2
    <3> QED
      BY <2>1, <2>6, <2>9, <3>3 DEF DeliveryInv
  <2>10. CASE op.kind \in {"none", "remove"}
    BY <2>1, <2>10 DEF DeliveryInv
  <2> QED
    BY <2>8, <2>9, <2>10 DEF TypeOK
<1> QED
  BY <1>1, <1>2, <1>3, <1>4, <1>5, <1>6, <1>7, <1>8, <1>9, <1>10 DEF Next

\* Reservations that only shrink, of fewer records, still fit.
LEMMA FitShrinks ==
    ASSUME TypeOK, TypeOK', BudgetsFit, Counted' \subseteq Counted,
           \A i \in Counted' : budget'[i] <= budget[i]
    PROVE  BudgetsFit'
<1>1. budget \in [Instances -> Nat] /\ budget' \in [Instances -> Nat]
  BY DEF TypeOK
<1>2. Counted \subseteq Instances /\ Counted' \subseteq Instances
  BY DEF Counted
<1>3. \A e : /\ CountedIn(e) \subseteq Counted
             /\ CountedIn(e)' \subseteq Counted'
             /\ CountedIn(e)' \subseteq CountedIn(e)
  BY DEF CountedIn
<1> HIDE DEF Counted, CountedIn
<1>4. ASSUME NEW S, NEW T, S \subseteq Counted', S \subseteq T, T \subseteq Instances
      PROVE  /\ Sum(budget', S) \in Nat
             /\ Sum(budget, T) \in Nat
             /\ Sum(budget', S) <= Sum(budget, T)
  <2>1. \A i \in S : i \in T /\ budget'[i] <= budget[i]
    BY <1>4
  <2>2. S \in SUBSET Instances /\ T \in SUBSET Instances
    BY <1>2, <1>4
  <2> HIDE <1>4
  <2> QED
    BY <1>1, <2>1, <2>2, SumMonotone
<1>5. ASSUME NEW e \in DOMAIN Envelope
      PROVE  Sum(budget, CountedIn(e))' <= Envelope[e]
  <2>1. /\ Sum(budget', CountedIn(e)') \in Nat
        /\ Sum(budget, CountedIn(e)) \in Nat
        /\ Sum(budget', CountedIn(e)') <= Sum(budget, CountedIn(e))
    BY <1>2, <1>3, <1>4
  <2> QED
    BY <2>1 DEF BudgetsFit
<1>6. Sum(budget, Counted)' <= MaximumTotal
  <2>1. /\ Sum(budget', Counted') \in Nat
        /\ Sum(budget, Counted) \in Nat
        /\ Sum(budget', Counted') <= Sum(budget, Counted)
    BY <1>2, <1>4
  <2> QED
    BY <2>1 DEF BudgetsFit
<1> QED
  BY <1>5, <1>6 DEF BudgetsFit

\* What the others reserve, as _admit adds it up, bounds the sum of their budgets.
LEMMA ReservedCovers ==
    ASSUME TypeOK, NEW T \in SUBSET Instances
    PROVE  /\ Sum(budget, T) \in Nat
           /\ Reserved(T) \in Nat
           /\ Sum(budget, T) <= Reserved(T)
<1>1. \A j \in T : /\ Reservation(j, Nothing) \in Nat
                   /\ budget[j] <= Reservation(j, Nothing)
  <2> TAKE j \in T
  <2>1. /\ Reservation(j, Nothing) \in Nat
        /\ Sum(Planned(j, Nothing), Services) \in Nat
        /\ Reservation(j, Nothing) = Larger(Sum(Planned(j, Nothing), Services), budget[j])
    BY DeliveryFacts, ReservationIsLarger
  <2>2. budget[j] \in Nat
    BY DEF TypeOK
  <2> QED
    BY <2>1, <2>2 DEF Larger
<1> DEFINE g == [j \in T |-> Reservation(j, Nothing)]
<1>2. Reserved(T) = Sum(g, T)
  BY <1>1, ReservedIsSum
<1>3. g \in [T -> Nat] /\ \A j \in T : budget[j] <= g[j]
  BY <1>1
<1> HIDE DEF g
<1>4. IsFiniteSet(T) /\ budget \in [Instances -> Nat]
  BY FS_Subset DEF TypeOK
<1>5. /\ Sum(budget, T) \in Nat
      /\ Sum(g, T) \in Nat
      /\ Sum(budget, T) <= Sum(g, T)
  BY <1>3, <1>4, SumMonotone
<1> QED
  BY <1>2, <1>5

LEMMA FitStep ==
    ASSUME TypeOK, TypeOK', DeliveryInv, RestInv, BudgetsFit, [Next]_vars
    PROVE  BudgetsFit'
<1>1. ASSUME status' = status, budget' = budget
      PROVE  BudgetsFit'
  <2>1. Counted' \subseteq Counted
    BY <1>1 DEF Counted
  <2>2. \A i \in Counted' : budget'[i] <= budget[i]
    BY <1>1 DEF Counted, TypeOK
  <2> QED
    BY <2>1, <2>2, FitShrinks
<1>2. ASSUME NEW i \in Instances, NEW d \in Deliveries, Admit(i, d)
      PROVE  BudgetsFit'
  <2> DEFINE r == Reservation(i, d)
  <2>1. r \in Nat
    BY DeliveryFacts, ReservationIsLarger
  <2>2. /\ status' = [status EXCEPT ![i] = "preparing"]
        /\ budget' = [budget EXCEPT ![i] = r]
        /\ Fits(i, r)
    BY <1>2 DEF Admit
  <2> HIDE DEF r
  <2>3. Environment[i] \in DOMAIN Envelope
    OBVIOUS
  <2>4. /\ \A j \in Instances : j # i => budget'[j] = budget[j]
        /\ budget'[i] = r
        /\ budget \in [Instances -> Nat] /\ budget' \in [Instances -> Nat]
    BY <2>2 DEF TypeOK
  <2>5. Counted' = Others(i) \cup {i}
    BY <2>2 DEF Counted, Others, TypeOK
  <2>6. ASSUME NEW T \in SUBSET Instances, i \notin T
        PROVE  /\ Sum(budget', T \cup {i}) \in Nat
               /\ Sum(budget', T \cup {i}) <= Reserved(T) + r
    <3> DEFINE U == T \cup {i}
    <3>1. U \in SUBSET Instances /\ i \in U /\ U \ {i} = T
      BY <2>6
    <3> HIDE DEF U
    <3>2. /\ Sum(budget', U) \in Nat
          /\ Sum(budget', T) \in Nat
          /\ Sum(budget', U) = budget'[i] + Sum(budget', T)
      <4>1. IsFiniteSet(Instances)
        OBVIOUS
      <4>2. /\ Sum(budget', U) \in Nat
            /\ Sum(budget', U \ {i}) \in Nat
            /\ Sum(budget', U) = budget'[i] + Sum(budget', U \ {i})
        BY <2>4, <3>1, <4>1, SumOfRest
      <4> QED
        BY <3>1, <4>2
    <3>3. /\ Sum(budget, T) \in Nat
          /\ Sum(budget', T) <= Sum(budget, T)
      <4>1. \A j \in T : budget'[j] <= budget[j]
        BY <2>4, <2>6
      <4> QED
        BY <2>4, <4>1, SumMonotone
    <3>4. Reserved(T) \in Nat /\ Sum(budget, T) <= Reserved(T)
      BY ReservedCovers
    <3>5. Sum(budget', U) <= Reserved(T) + r
      BY <2>1, <2>4, <3>2, <3>3, <3>4
    <3> QED
      BY <3>2, <3>5 DEF U
  <2>7. ASSUME NEW e \in DOMAIN Envelope
        PROVE  Sum(budget', CountedIn(e)') <= Envelope[e]
    <3>1. CASE e = Environment[i]
      <4> DEFINE T == {j \in Others(i) : Environment[j] = Environment[i]}
      <4>1. CountedIn(e)' = T \cup {i}
        BY <2>5, <3>1 DEF CountedIn, Others
      <4>2. T \in SUBSET Instances /\ i \notin T
        BY DEF Others
      <4>3. Reserved(T) + r <= Envelope[e]
        BY <2>2, <3>1 DEF Fits
      <4>4. Envelope[e] \in Nat
        BY <2>7
      <4> HIDE DEF T
      <4>5. Reserved(T) \in Nat
        BY <4>2, ReservedCovers
      <4>6. Sum(budget', T \cup {i}) \in Nat /\ Sum(budget', T \cup {i}) <= Reserved(T) + r
        BY <2>6, <4>2
      <4> QED
        BY <2>1, <4>1, <4>3, <4>4, <4>5, <4>6
    <3>2. CASE e # Environment[i]
      <4>1. CountedIn(e)' \in SUBSET Instances /\ CountedIn(e) \in SUBSET Instances
        BY DEF CountedIn, Counted
      <4>2. \A j \in CountedIn(e)' : j # i /\ j \in CountedIn(e)
        BY <2>5, <3>2 DEF CountedIn, Counted, Others
      <4>3. \A j \in CountedIn(e)' : j \in CountedIn(e) /\ budget'[j] <= budget[j]
        BY <2>4, <4>1, <4>2
      <4>4. /\ Sum(budget', CountedIn(e)') \in Nat
            /\ Sum(budget, CountedIn(e)) \in Nat
            /\ Sum(budget', CountedIn(e)') <= Sum(budget, CountedIn(e))
        BY <2>4, <4>1, <4>3, SumMonotone
      <4>5. Envelope[e] \in Nat /\ Sum(budget, CountedIn(e)) <= Envelope[e]
        BY <2>7 DEF BudgetsFit
      <4> QED
        BY <4>4, <4>5
    <3> QED
      BY <3>1, <3>2
  <2>8. Sum(budget', Counted') <= MaximumTotal
    <3> DEFINE T == Others(i)
    <3>1. T \in SUBSET Instances /\ i \notin T
      BY DEF Others
    <3>2. Reserved(T) + r <= MaximumTotal
      BY <2>2 DEF Fits
    <3> HIDE DEF T
    <3>3. Reserved(T) \in Nat
      BY <3>1, ReservedCovers
    <3>4. Sum(budget', T \cup {i}) \in Nat /\ Sum(budget', T \cup {i}) <= Reserved(T) + r
      BY <2>6, <3>1
    <3>5. Sum(budget', T \cup {i}) <= MaximumTotal
      BY <2>1, <3>2, <3>3, <3>4
    <3> QED
      BY <2>5, <3>5 DEF T
  <2> QED
    BY <2>7, <2>8 DEF BudgetsFit
<1>3. ASSUME NEW i \in Instances, StartRemoval(i)
      PROVE  BudgetsFit'
  <2>1. status[i] \notin {"absent", "retired"} /\ budget' = budget
    BY <1>3 DEF StartRemoval, Removable, Registered, RestInv
  <2>2. Counted' \subseteq Counted
    BY <1>3, <2>1 DEF StartRemoval, Counted, TypeOK
  <2>3. \A j \in Counted' : budget'[j] <= budget[j]
    BY <2>1 DEF Counted, TypeOK
  <2> QED
    BY <2>2, <2>3, FitShrinks
<1>4. ASSUME NEW s \in Services, StartService(s) \/ StartJob(s) \/ RemoveContainers(s)
      PROVE  BudgetsFit'
  BY <1>1, <1>4 DEF StartService, StartJob, RemoveContainers, registryVars
<1>5. CASE JobEnds \/ VerifyDelivery \/ Interrupted \/ UNCHANGED vars
  BY <1>1, <1>5 DEF JobEnds, VerifyDelivery, Interrupted, vars, registryVars
<1>6. CASE CommitReady
  <2>1. /\ op.instance \in Instances
        /\ status[op.instance] = "preparing"
        /\ Sum(op.delivery.limits, Services) <= budget[op.instance]
    BY <1>6 DEF CommitReady, DeliveryInv, TypeOK, Free
  <2>2. Total(op.delivery.limits) = Sum(op.delivery.limits, Services)
    BY DeliveryFacts, TotalIsSum DEF TypeOK, Amounts
  <2>3. Counted' \subseteq Counted
    BY <1>6, <2>1 DEF CommitReady, Counted, TypeOK
  <2>4. \A j \in Counted' : budget'[j] <= budget[j]
    BY <1>6, <2>1, <2>2 DEF CommitReady, Counted, TypeOK
  <2> QED
    BY <2>3, <2>4, FitShrinks
<1>7. CASE DeliveryFails
  <2>1. status[op.instance] = "preparing" /\ budget' = budget
    BY <1>7 DEF DeliveryFails, DeliveryInv
  <2>2. status' = [status EXCEPT ![op.instance] = "failed"]
    BY <1>7 DEF DeliveryFails
  <2>3. Counted' \subseteq Counted
    BY <2>1, <2>2 DEF Counted, TypeOK
  <2>4. \A j \in Counted' : budget'[j] <= budget[j]
    BY <2>1 DEF Counted, TypeOK
  <2> QED
    BY <2>3, <2>4, FitShrinks
<1>8. CASE RemovalVerified
  <2>1. op.instance \in Instances
    BY <1>8 DEF RemovalVerified, TypeOK, Free
  <2>2. status'[op.instance] \in {"absent", "retired"}
    BY <1>8, <2>1 DEF RemovalVerified, TypeOK
  <2>3. \A j \in Instances : j # op.instance => status'[j] = status[j] /\ budget'[j] = budget[j]
    BY <1>8, <2>1 DEF RemovalVerified, TypeOK
  <2>4. Counted' \subseteq Counted
    BY <2>2, <2>3 DEF Counted
  <2>5. \A j \in Counted' : budget'[j] <= budget[j]
    BY <2>2, <2>3 DEF Counted, TypeOK
  <2> QED
    BY <2>4, <2>5, FitShrinks
<1>9. ASSUME NEW i \in Instances, NEW s \in Services, OneOffEnds(i, s)
      PROVE  BudgetsFit'
  BY <1>1, <1>9 DEF OneOffEnds, registryVars
<1> QED
  BY <1>2, <1>3, <1>4, <1>5, <1>6, <1>7, <1>8, <1>9 DEF Next

\* Containers that only shrink, of an instance that counted before as well.
LEMMA BoundKept ==
    ASSUME TypeOK, TypeOK', BudgetsBound, NEW i \in Instances,
           i \in Counted, budget[i] <= budget'[i],
           \A s \in Services : limit'[i][s] <= limit[i][s] /\ oneoffs'[i][s] <= oneoffs[i][s]
    PROVE  Used(i)' <= budget'[i]
<1>1. /\ limit[i] \in Amounts /\ oneoffs[i] \in Amounts
      /\ limit'[i] \in Amounts /\ oneoffs'[i] \in Amounts
      /\ budget[i] \in Nat /\ budget'[i] \in Nat
  BY DEF TypeOK
<1>2. Total(limit'[i]) + Total(oneoffs'[i]) <= Total(limit[i]) + Total(oneoffs[i])
  BY <1>1, WeightShrinks
<1>3. /\ Total(limit'[i]) + Total(oneoffs'[i]) \in Nat
      /\ Total(limit[i]) + Total(oneoffs[i]) \in Nat
  BY <1>1, WeightIsSum
<1>4. Total(limit[i]) + Total(oneoffs[i]) <= budget[i]
  BY DEF BudgetsBound, Used
<1>5. Used(i)' = Total(limit'[i]) + Total(oneoffs'[i])
  BY DEF Used
<1> QED
  BY <1>1, <1>2, <1>3, <1>4, <1>5

LEMMA BoundStep ==
    ASSUME TypeOK, TypeOK', DeliveryInv, DeliveryInv', RestInv, BudgetsBound, [Next]_vars
    PROVE  BudgetsBound'
<1>0. \A j \in Instances, s \in Services :
         /\ limit[j][s] \in Nat /\ oneoffs[j][s] \in Nat
         /\ limit'[j][s] \in Nat /\ oneoffs'[j][s] \in Nat
  BY DEF TypeOK, Amounts
<1>1. ASSUME \A i \in Counted' :
                /\ i \in Counted /\ budget[i] <= budget'[i]
                /\ \A s \in Services : /\ limit'[i][s] <= limit[i][s]
                                       /\ oneoffs'[i][s] <= oneoffs[i][s]
      PROVE  BudgetsBound'
  <2>1. ASSUME NEW i \in Counted'
        PROVE  Used(i)' <= budget'[i]
    <3>1. i \in Instances
      BY DEF Counted
    <3> QED
      BY <1>1, <3>1, BoundKept
  <2> QED
    BY <2>1 DEF BudgetsBound
<1>2. ASSUME NEW i \in Instances, op'.kind = "apply", op'.instance = i,
             \A j \in Counted' : j # i =>
                /\ j \in Counted /\ budget[j] <= budget'[j]
                /\ limit'[j] = limit[j] /\ oneoffs'[j] = oneoffs[j]
      PROVE  BudgetsBound'
  <2>1. ASSUME NEW j \in Counted', j # i
        PROVE  Used(j)' <= budget'[j]
    <3>1. j \in Instances
      BY DEF Counted
    <3>2. \A s \in Services : limit'[j][s] <= limit[j][s] /\ oneoffs'[j][s] <= oneoffs[j][s]
      BY <1>0, <1>2, <2>1, <3>1
    <3> QED
      BY <1>2, <2>1, <3>1, <3>2, BoundKept
  <2>2. Used(i)' <= budget'[i]
    <3>1. /\ limit'[i] \in Amounts /\ oneoffs'[i] \in Amounts /\ budget'[i] \in Nat
          /\ op'.delivery.limits \in Amounts
      BY <1>2, DeliveryFacts DEF TypeOK
    <3>2. Ahead' \in Amounts
      BY <1>2, <3>1 DEF Ahead, Amounts, Wanted, Larger
    <3>3. \A s \in Services : limit'[i][s] + oneoffs'[i][s] <= Ahead'[s]
      <4> TAKE s \in Services
      <4>1. /\ limit'[i][s] \in Nat /\ oneoffs'[i][s] \in Nat /\ Wanted(s)' \in Nat
        BY <1>0, <3>1 DEF Amounts, Wanted
      <4> QED
        BY <1>2, <4>1 DEF Ahead, Larger
    <3>4. Sum(Ahead', Services) <= budget'[i]
      BY <1>2 DEF DeliveryInv
    <3>5. Used(i)' = Total(limit'[i]) + Total(oneoffs'[i])
      BY DEF Used
    <3>6. Total(limit'[i]) + Total(oneoffs'[i]) <= Sum(Ahead', Services)
      BY <3>1, <3>2, <3>3, WeightBounded
    <3>7. Total(limit'[i]) + Total(oneoffs'[i]) \in Nat
      BY <3>1, WeightIsSum
    <3>8. Sum(Ahead', Services) \in Nat
      BY <3>2, SumShrinks DEF Amounts
    <3> QED
      BY <3>1, <3>4, <3>5, <3>6, <3>7, <3>8
  <2> QED
    BY <2>1, <2>2 DEF BudgetsBound
<1>3. CASE UNCHANGED vars \/ Interrupted
  BY <1>0, <1>1, <1>3 DEF vars, registryVars, dockerVars, Interrupted, Counted, TypeOK
<1>4. ASSUME NEW i \in Instances, NEW d \in Deliveries, Admit(i, d)
      PROVE  BudgetsBound'
  <2>1. op'.kind = "apply" /\ op'.instance = i
    BY <1>4 DEF Admit, Idle
  <2>2. \A j \in Counted' : j # i => /\ j \in Counted /\ budget'[j] = budget[j]
                                     /\ limit'[j] = limit[j] /\ oneoffs'[j] = oneoffs[j]
    BY <1>4 DEF Admit, Counted, dockerVars, TypeOK
  <2>3. \A j \in Counted' : j # i => budget[j] <= budget'[j]
    BY <2>2 DEF Counted, TypeOK
  <2> QED
    BY <1>2, <2>1, <2>2, <2>3
<1>5. ASSUME NEW i \in Instances, StartRemoval(i)
      PROVE  BudgetsBound'
  <2>1. status[i] \notin {"absent", "retired"}
    BY <1>5 DEF StartRemoval, Removable, Registered, RestInv
  <2>2. Counted' \subseteq Counted
    BY <1>5, <2>1 DEF StartRemoval, Counted, TypeOK
  <2>3. budget' = budget /\ limit' = limit /\ oneoffs' = oneoffs
    BY <1>5 DEF StartRemoval, dockerVars
  <2> QED
    BY <1>0, <1>1, <2>2, <2>3 DEF Counted, TypeOK
<1>6. ASSUME NEW s \in Services, StartService(s) \/ StartJob(s)
      PROVE  BudgetsBound'
  <2>1. /\ op.instance \in Instances
        /\ op'.kind = "apply" /\ op'.instance = op.instance
        /\ status' = status /\ budget' = budget
    BY <1>6 DEF StartService, StartJob, Applying, registryVars, TypeOK, Free
  <2>2. \A j \in Instances : j # op.instance => limit'[j] = limit[j] /\ oneoffs'[j] = oneoffs[j]
    BY <1>6, <2>1 DEF StartService, StartJob, TypeOK
  <2> QED
    BY <1>2, <2>1, <2>2 DEF Counted, TypeOK
<1>7. ASSUME NEW s \in Services, RemoveContainers(s)
      PROVE  BudgetsBound'
  <2>1. /\ op.instance \in Instances
        /\ status' = status /\ budget' = budget
        /\ limit' = [limit EXCEPT ![op.instance][s] = 0]
        /\ oneoffs' = [oneoffs EXCEPT ![op.instance][s] = 0]
    BY <1>7 DEF RemoveContainers, registryVars, TypeOK, Free
  <2>2. \A j \in Instances, t \in Services :
           limit'[j][t] <= limit[j][t] /\ oneoffs'[j][t] <= oneoffs[j][t]
    BY <1>0, <2>1 DEF TypeOK, Amounts
  <2> QED
    BY <1>1, <2>1, <2>2 DEF Counted, TypeOK
<1>8. CASE JobEnds
  <2>1. /\ op.instance \in Instances /\ op.job \in Services
        /\ status' = status /\ budget' = budget /\ limit' = limit
        /\ oneoffs' = [oneoffs EXCEPT ![op.instance][op.job] = @ - Wanted(op.job)]
    BY <1>8 DEF JobEnds, DeliveryInv, registryVars, TypeOK, Free
  <2>2. Wanted(op.job) \in Nat
    BY <2>1, DeliveryFacts DEF TypeOK, Amounts, Wanted
  <2>3. \A j \in Instances, t \in Services : oneoffs'[j][t] <= oneoffs[j][t]
    BY <1>0, <2>1, <2>2 DEF TypeOK, Amounts
  <2> QED
    BY <1>0, <1>1, <2>1, <2>3 DEF Counted, TypeOK
<1>9. CASE VerifyDelivery
  <2>1. /\ op.instance \in Instances /\ status' = status /\ budget' = budget
        /\ limit' = [limit EXCEPT ![op.instance] =
                        [s \in Services |->
                           IF s \in Regular(op.delivery) THEN limit[op.instance][s] ELSE 0]]
        /\ oneoffs' = [oneoffs EXCEPT ![op.instance] = Zero]
    BY <1>9 DEF VerifyDelivery, Applying, registryVars, TypeOK, Free
  <2>2. \A j \in Instances, t \in Services : limit'[j][t] <= limit[j][t]
    BY <1>0, <2>1 DEF TypeOK, Amounts
  <2>3. \A j \in Instances, t \in Services : oneoffs'[j][t] <= oneoffs[j][t]
    BY <1>0, <2>1 DEF TypeOK, Amounts, Zero
  <2> QED
    BY <1>1, <2>1, <2>2, <2>3 DEF Counted, TypeOK
<1>10. CASE CommitReady
  <2>0. op.instance \in Instances /\ op.delivery \in Delivery
    BY <1>10 DEF CommitReady, TypeOK, Free
  <2> PICK i \in Instances, d \in Delivery : i = op.instance /\ d = op.delivery
    BY <2>0
  <2>1. /\ status[i] = "preparing"
        /\ \A s \in Services : limit[i][s] <= d.limits[s] /\ oneoffs[i][s] = 0
        /\ status' = [status EXCEPT ![i] = "ready"]
        /\ budget' = [budget EXCEPT ![i] = Total(d.limits)]
        /\ limit' = limit /\ oneoffs' = oneoffs
    BY <1>10 DEF CommitReady, DeliveryInv, Wanted, dockerVars, TypeOK, Free
  <2>2. d.limits \in Amounts
    BY DeliveryFacts
  <2>3. Used(i)' <= budget'[i]
    <3>1. limit[i] \in Amounts /\ oneoffs[i] \in Amounts
      BY <2>1 DEF TypeOK
    <3>2. \A s \in Services : limit[i][s] + oneoffs[i][s] <= d.limits[s]
      BY <2>1, <2>2, <3>1 DEF Amounts
    <3>3. Total(limit[i]) + Total(oneoffs[i]) <= Sum(d.limits, Services)
      BY <2>2, <3>1, <3>2, WeightBounded
    <3>4. budget'[i] = Sum(d.limits, Services)
      BY <2>1, <2>2, TotalIsSum DEF TypeOK, Amounts
    <3>5. Used(i)' = Total(limit[i]) + Total(oneoffs[i])
      BY <2>1 DEF Used
    <3> QED
      BY <3>3, <3>4, <3>5
  <2>4. ASSUME NEW j \in Counted', j # i
        PROVE  Used(j)' <= budget'[j]
    <3>1. j \in Instances /\ j \in Counted
      BY <2>1, <2>4 DEF Counted, TypeOK
    <3>2. budget[j] <= budget'[j]
      BY <2>1, <2>4, <3>1 DEF TypeOK
    <3>3. \A s \in Services : limit'[j][s] <= limit[j][s] /\ oneoffs'[j][s] <= oneoffs[j][s]
      BY <1>0, <2>1, <3>1
    <3> QED
      BY <3>1, <3>2, <3>3, BoundKept
  <2> QED
    BY <2>3, <2>4 DEF BudgetsBound
<1>11. CASE DeliveryFails
  <2>1. /\ op.instance \in Instances /\ status[op.instance] = "preparing"
        /\ status' = [status EXCEPT ![op.instance] = "failed"]
        /\ budget' = budget /\ oneoffs' = oneoffs
    BY <1>11 DEF DeliveryFails, DeliveryInv, dockerVars, TypeOK, Free
  <2>2. \A j \in Instances, t \in Services : limit'[j][t] <= limit[j][t]
    <3>1. CASE limit' = limit
      BY <1>0, <3>1
    <3>2. ASSUME NEW s \in Services, limit' = [limit EXCEPT ![op.instance][s] = 0]
          PROVE  \A j \in Instances, t \in Services : limit'[j][t] <= limit[j][t]
      BY <1>0, <2>1, <3>2 DEF TypeOK, Amounts
    <3>3. \/ limit' = limit
          \/ \E s \in Services : limit' = [limit EXCEPT ![op.instance][s] = 0]
      BY <1>11 DEF DeliveryFails, dockerVars, TypeOK
    <3> QED
      BY <3>1, <3>2, <3>3
  <2>3. Counted' \subseteq Counted
    BY <2>1 DEF Counted, TypeOK
  <2> QED
    BY <1>0, <1>1, <2>1, <2>2, <2>3 DEF Counted, TypeOK
<1>12. CASE RemovalVerified
  <2>1. op.instance \in Instances
    BY <1>12 DEF RemovalVerified, TypeOK, Free
  <2>2. status'[op.instance] \in {"absent", "retired"}
    BY <1>12, <2>1 DEF RemovalVerified, TypeOK
  <2>3. \A j \in Instances : j # op.instance => status'[j] = status[j] /\ budget'[j] = budget[j]
    BY <1>12, <2>1 DEF RemovalVerified, TypeOK
  <2>4. limit' = limit /\ oneoffs' = oneoffs
    BY <1>12 DEF RemovalVerified, dockerVars
  <2>5. \A j \in Counted' : j \in Counted /\ budget[j] <= budget'[j]
    BY <2>2, <2>3 DEF Counted, TypeOK
  <2> QED
    BY <1>0, <1>1, <2>4, <2>5 DEF Counted
<1>13. ASSUME NEW i \in Instances, NEW s \in Services, OneOffEnds(i, s)
       PROVE  BudgetsBound'
  <2>1. PICK rest \in 0 .. oneoffs[i][s] - 1 : oneoffs' = [oneoffs EXCEPT ![i][s] = rest]
    BY <1>13 DEF OneOffEnds
  <2>2. status' = status /\ budget' = budget /\ limit' = limit
    BY <1>13 DEF OneOffEnds, registryVars
  <2>3. \A j \in Instances, t \in Services : oneoffs'[j][t] <= oneoffs[j][t]
    BY <1>0, <2>1 DEF TypeOK, Amounts
  <2> QED
    BY <1>0, <1>1, <2>2, <2>3 DEF Counted, TypeOK
<1> QED
  BY <1>3, <1>4, <1>5, <1>6, <1>7, <1>8, <1>9, <1>10, <1>11, <1>12, <1>13 DEF Next

-----------------------------------------------------------------------------
(* The theorems.                                                           *)

LEMMA AdmissionInit == Init => AdmissionInv
<1> SUFFICES ASSUME Init
             PROVE  AdmissionInv
  OBVIOUS
<1>1. TypeOK
  BY DeliveryFacts DEF Init, TypeOK, Amounts, Statuses, Zero, Idle, Free
<1>2. DeliveryInv /\ RestInv
  BY DEF Init, DeliveryInv, RestInv, Quiet, Idle
<1>3. Counted = {} /\ \A e : CountedIn(e) = {}
  BY DEF Init, Counted, CountedIn
<1>4. BudgetsFit
  <2>1. MaximumTotal \in Nat /\ \A e \in DOMAIN Envelope : Envelope[e] \in Nat
    OBVIOUS
  <2> QED
    BY <1>3, <2>1, SumOfNothing DEF BudgetsFit
<1>5. BudgetsBound
  BY <1>3 DEF BudgetsBound
<1> QED
  BY <1>1, <1>2, <1>4, <1>5 DEF AdmissionInv

LEMMA AdmissionStep == AdmissionInv /\ [Next]_vars => AdmissionInv'
<1> SUFFICES ASSUME AdmissionInv, [Next]_vars
             PROVE  AdmissionInv'
  OBVIOUS
<1>1. TypeOK'
  BY TypeStep DEF AdmissionInv
<1>2. DeliveryInv'
  BY <1>1, DeliveryStep DEF AdmissionInv
<1>3. RestInv'
  BY <1>1, RestStep DEF AdmissionInv
<1>4. BudgetsFit'
  BY <1>1, FitStep DEF AdmissionInv
<1>5. BudgetsBound'
  BY <1>1, <1>2, BoundStep DEF AdmissionInv
<1> QED
  BY <1>1, <1>2, <1>3, <1>4, <1>5 DEF AdmissionInv

\* The records, the containers and the delivery in progress fit together in every state:
\* what each of them may still come to run is reserved, and what is reserved fits.
THEOREM AdmissionInvariance == Spec => []AdmissionInv
<1>1. Init => AdmissionInv
  BY AdmissionInit
<1>2. AdmissionInv /\ [Next]_vars => AdmissionInv'
  BY AdmissionStep
<1> QED
  BY <1>1, <1>2, PTL DEF Spec

\* However many updates failed half-way and were retried, no instance runs more than
\* its record reserves, and none without a reservation runs anything.
THEOREM Bounded == Spec => []ReservationBounds
<1>1. AdmissionInv => ReservationBounds
  <2> SUFFICES ASSUME AdmissionInv, NEW i \in Instances
               PROVE  Used(i) <= IF status[i] \in {"absent", "retired"} THEN 0 ELSE budget[i]
    BY DEF ReservationBounds
  <2>1. CASE status[i] \in {"absent", "retired"}
    <3>1. limit[i] = Zero /\ oneoffs[i] = Zero
      BY <2>1 DEF AdmissionInv, RestInv, Quiet
    <3>2. Used(i) = 0
      BY <3>1, NothingWeighsNothing DEF Used
    <3> QED
      BY <2>1, <3>2
  <2>2. CASE status[i] \notin {"absent", "retired"}
    BY <2>2 DEF AdmissionInv, BudgetsBound, Counted
  <2> QED
    BY <2>1, <2>2
<1> QED
  BY <1>1, AdmissionInvariance, PTL

\* The containers of each environment and of the host fit their envelopes in every
\* state, although each delivery was admitted against the records of the others only.
THEOREM HostFits == Spec => []WithinEnvelopes
<1>1. AdmissionInv => WithinEnvelopes
  <2> SUFFICES ASSUME AdmissionInv
               PROVE  WithinEnvelopes
    OBVIOUS
  <2>1. TypeOK /\ RestInv /\ BudgetsFit /\ BudgetsBound
    BY DEF AdmissionInv
  <2>2. \A i \in Instances : Used(i) \in Nat
    BY <2>1, WeightIsSum DEF Used, TypeOK
  <2>3. \A i \in Instances : \/ i \in Counted /\ Used(i) <= budget[i]
                             \/ i \notin Counted /\ Used(i) = 0
    <3> TAKE i \in Instances
    <3>1. CASE i \in Counted
      BY <2>1, <3>1 DEF BudgetsBound
    <3>2. CASE i \notin Counted
      <4>1. limit[i] = Zero /\ oneoffs[i] = Zero
        BY <2>1, <3>2 DEF Counted, RestInv, Quiet
      <4> QED
        BY <3>2, <4>1, NothingWeighsNothing DEF Used
    <3> QED
      BY <3>1, <3>2
  <2>4. ASSUME NEW S \in SUBSET Instances, NEW T \in SUBSET Instances, S \cap Counted \subseteq T
        PROVE  UsedBy(S) \in Nat /\ Sum(budget, T) \in Nat /\ UsedBy(S) <= Sum(budget, T)
    <3> DEFINE f == [j \in S |-> Used(j)]
    <3>1. UsedBy(S) = Sum(f, S)
      BY <2>2, UsedByIsSum
    <3>2. f \in [S -> Nat] /\ \A j \in S : f[j] = 0 \/ (j \in T /\ f[j] <= budget[j])
      BY <2>2, <2>3, <2>4
    <3> HIDE DEF f
    <3>3. IsFiniteSet(S) /\ budget \in [Instances -> Nat]
      BY <2>1, FS_Subset DEF TypeOK
    <3>4. /\ Sum(f, S) \in Nat
          /\ Sum(budget, T) \in Nat
          /\ Sum(f, S) <= Sum(budget, T)
      BY <3>2, <3>3, SumMonotone
    <3> QED
      BY <3>1, <3>4
  <2>5. ASSUME NEW e \in DOMAIN Envelope
        PROVE  UsedBy({i \in Instances : Environment[i] = e}) <= Envelope[e]
    <3> DEFINE S == {i \in Instances : Environment[i] = e}
    <3>1. S \in SUBSET Instances /\ CountedIn(e) \in SUBSET Instances
      BY DEF CountedIn, Counted
    <3>2. S \cap Counted \subseteq CountedIn(e)
      BY DEF CountedIn
    <3>3. Envelope[e] \in Nat /\ Sum(budget, CountedIn(e)) <= Envelope[e]
      BY <2>1, <2>5 DEF BudgetsFit
    <3> HIDE DEF S
    <3>4. UsedBy(S) <= Envelope[e]
      BY <2>4, <3>1, <3>2, <3>3
    <3> QED
      BY <3>4 DEF S
  <2>6. UsedBy(Instances) <= MaximumTotal
    <3>1. Instances \in SUBSET Instances /\ Counted \in SUBSET Instances
      BY DEF Counted
    <3>2. Instances \cap Counted \subseteq Counted
      OBVIOUS
    <3>3. UsedBy(Instances) \in Nat /\ Sum(budget, Counted) \in Nat
          /\ UsedBy(Instances) <= Sum(budget, Counted)
      BY <2>4, <3>1, <3>2
    <3> QED
      BY <2>1, <3>3 DEF BudgetsFit
  <2> QED
    BY <2>5, <2>6 DEF WithinEnvelopes
<1> QED
  BY <1>1, AdmissionInvariance, PTL

\* A ready delivery asks for no more than it has already when it is delivered again at
\* its own size: its jobs have ended, and a replaced container counts once.
THEOREM SameSize == Spec => []SameShapeFits
<1>1. AdmissionInv => SameShapeFits
  <2> SUFFICES ASSUME AdmissionInv, NEW i \in Instances, NEW d \in Deliveries,
                      status[i] = "ready", IsShape(i, d)
               PROVE  Reservation(i, d) = budget[i]
    BY DEF SameShapeFits
  <2>1. TypeOK /\ oneoffs[i] = Zero
    BY DEF AdmissionInv, RestInv
  <2>2. d \in Delivery /\ d.limits \in Amounts
    BY DeliveryFacts
  <2>3. limit[i] = [s \in Services |-> IF s \in Regular(d) THEN d.limits[s] ELSE 0]
    BY DEF IsShape
  <2>4. budget[i] = Sum(d.limits, Services) /\ budget[i] \in Nat
    BY <2>1, <2>2, TotalIsSum DEF IsShape, Amounts, TypeOK
  <2>5. ASSUME NEW s \in Services
        PROVE  Planned(i, d)[s] = d.limits[s]
    <3>1. d.limits[s] \in Nat
      BY <2>2 DEF Amounts
    <3>2. d.limits[s] = 0 \/ s \in Regular(d) \/ s \in d.jobs
      BY DEF Regular
    <3>3. ~(s \in Regular(d) /\ s \in d.jobs)
      BY DEF Regular
    <3>4. limit[i][s] = IF s \in Regular(d) THEN d.limits[s] ELSE 0
      BY <2>3
    <3>5. oneoffs[i][s] = 0
      BY <2>1 DEF Zero
    <3> QED
      BY <3>1, <3>2, <3>3, <3>4, <3>5 DEF Planned, Larger
  <2>6. Planned(i, d) = d.limits
    BY <2>2, <2>5 DEF Planned, Amounts
  <2>7. Reservation(i, d) = Larger(Sum(Planned(i, d), Services), budget[i])
    BY <2>1, <2>2, ReservationIsLarger
  <2> QED
    BY <2>4, <2>6, <2>7 DEF Larger
<1> QED
  BY <1>1, AdmissionInvariance, PTL

\* No step makes a reservation smaller but the commit of a verified delivery and the
\* end of an instance of which nothing is left.
THEOREM Held == Spec => ReservationsHeld
<1>1. AdmissionInv /\ [Next]_vars =>
         [\A i \in Instances : budget'[i] < budget[i] => status'[i] = "ready" \/ Quiet(i)]_vars
  <2> SUFFICES ASSUME AdmissionInv, [Next]_vars, NEW i \in Instances, budget'[i] < budget[i]
               PROVE  status'[i] = "ready" \/ Quiet(i)
    OBVIOUS
  <2>1. TypeOK
    BY DEF AdmissionInv
  <2>2. budget[i] \in Nat
    BY <2>1 DEF TypeOK
  <2>3. budget' # budget
    BY <2>2
  <2>4. ASSUME NEW j \in Instances, NEW d \in Deliveries, Admit(j, d)
        PROVE  FALSE
    <3>1. /\ Sum(Planned(i, d), Services) \in Nat
          /\ Reservation(i, d) = Larger(Sum(Planned(i, d), Services), budget[i])
      BY <2>1, DeliveryFacts, ReservationIsLarger
    <3>2. budget'[i] = budget[i] \/ budget'[i] = Reservation(i, d)
      BY <2>1, <2>4 DEF Admit, TypeOK
    <3> QED
      BY <2>2, <3>1, <3>2 DEF Larger
  <2>5. CASE CommitReady
    BY <2>1, <2>2, <2>5 DEF CommitReady, TypeOK, Free
  <2>6. CASE RemovalVerified
    BY <2>1, <2>2, <2>6 DEF RemovalVerified, TypeOK, Free
  <2>7. CommitReady \/ RemovalVerified \/ \E j \in Instances : \E d \in Deliveries : Admit(j, d)
    BY <2>3 DEF Next, vars, registryVars, dockerVars, StartRemoval, StartService, StartJob,
       RemoveContainers, JobEnds, VerifyDelivery, DeliveryFails, Interrupted, OneOffEnds
  <2> QED
    BY <2>4, <2>5, <2>6, <2>7
<1> QED
  BY <1>1, AdmissionInvariance, PTL DEF Spec, ReservationsHeld
=============================================================================
