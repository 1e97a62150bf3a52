----------------------------- MODULE Totals_proofs -----------------------------
(***************************************************************************)
(* Lemmas about numbers that several proofs need: what a change of one     *)
(* value does to a total, and that finite sets have a least and a best     *)
(* member.  The strict subsets of a finite set are well-founded, and a     *)
(* minimal counterexample takes the place of an induction.                 *)
(***************************************************************************)
EXTENDS Totals, FiniteSetTheorems, WellFoundedInduction, TLAPS

\* The units of one account are as many as its value.
LEMMA OwnUnits ==
  ASSUME NEW x, NEW v \in Nat
  PROVE  IsFiniteSet({x} \X (1 .. v)) /\ Cardinality({x} \X (1 .. v)) = v
<1>1. IsFiniteSet({x}) /\ Cardinality({x}) = 1
  BY FS_Singleton
<1>2. 1 \in Int /\ v \in Int
  OBVIOUS
<1>3. IsFiniteSet(1 .. v) /\ Cardinality(1 .. v) = IF 1 > v THEN 0 ELSE v - 1 + 1
  BY <1>2, FS_Interval
<1>4. Cardinality(1 .. v) = v
  BY <1>3
<1>5. /\ IsFiniteSet({x} \X (1 .. v))
      /\ Cardinality({x} \X (1 .. v)) = Cardinality({x}) * Cardinality(1 .. v)
  BY <1>1, <1>3, FS_Product
<1>6. 1 * v = v
  OBVIOUS
<1>7. QED
  BY <1>1, <1>4, <1>5, <1>6

LEMMA UnitsFinite ==
  ASSUME NEW S, IsFiniteSet(S), NEW f \in [S -> Nat]
  PROVE  IsFiniteSet(Units(f, S))
<1> DEFINE own == [x \in S |-> {x} \X (1 .. f[x])]
           Own == {own[x] : x \in S}
<1>1. own \in Surjection(S, Own)
  BY DEF Surjection
<1>2. IsFiniteSet(Own)
  BY <1>1, FS_Surjection
<1>3. ASSUME NEW T \in Own PROVE IsFiniteSet(T)
  <2>1. PICK x \in S : T = {x} \X (1 .. f[x])
    OBVIOUS
  <2>2. f[x] \in Nat
    OBVIOUS
  <2>3. IsFiniteSet({x} \X (1 .. f[x]))
    BY <2>2, OwnUnits
  <2>4. QED
    BY <2>1, <2>3
<1>4. Units(f, S) = UNION Own
  BY DEF Units
<1>5. IsFiniteSet(UNION Own)
  <2> HIDE DEF Own
  <2> QED
    BY <1>2, <1>3, FS_UNION
<1>6. QED
  BY <1>4, <1>5

\* A total over finitely many accounts is a natural number.
LEMMA TotalNat ==
  ASSUME NEW S, IsFiniteSet(S), NEW f \in [S -> Nat]
  PROVE  Total(f, S) \in Nat
BY UnitsFinite, FS_CardinalityType DEF Total

\* The total of values that are all zero is zero.
LEMMA TotalZero ==
  ASSUME NEW S
  PROVE  Total([x \in S |-> 0], S) = 0
<1>1. Units([x \in S |-> 0], S) = {}
  BY DEF Units
<1>2. QED
  BY <1>1, FS_EmptySet DEF Total

\* Taking one account out takes its value out of the total.
LEMMA TotalSplit ==
  ASSUME NEW S, IsFiniteSet(S), NEW f \in [S -> Nat], NEW x \in S
  PROVE  /\ Total(f, S) = Total(f, S \ {x}) + f[x]
         /\ Total(f, S \ {x}) \in Nat
<1> DEFINE A == Units(f, S \ {x})
           B == {x} \X (1 .. f[x])
<1>1. Units(f, S) = A \cup B
  BY DEF Units
<1>2. A \cap B = {}
  BY DEF Units
<1>3. IsFiniteSet(Units(f, S))
  BY UnitsFinite
<1>4. IsFiniteSet(A)
  BY <1>1, <1>3, FS_Subset
<1>5. IsFiniteSet(B) /\ Cardinality(B) = f[x]
  BY OwnUnits
<1>6. Cardinality(A) \in Nat /\ Cardinality(A \cap B) = 0
  BY <1>2, <1>4, FS_CardinalityType, FS_EmptySet
<1>7. Cardinality(A \cup B) = Cardinality(A) + Cardinality(B) - Cardinality(A \cap B)
  BY <1>4, <1>5, FS_Union
<1>8. QED
  BY <1>1, <1>5, <1>6, <1>7 DEF Total

\* Changing one value changes the total by the difference.
THEOREM TotalUpdate ==
  ASSUME NEW S, IsFiniteSet(S), NEW f \in [S -> Nat], NEW g \in [S -> Nat], NEW x \in S,
         \A y \in S \ {x} : g[y] = f[y]
  PROVE  Total(g, S) = Total(f, S) - f[x] + g[x]
<1>1. Units(g, S \ {x}) = Units(f, S \ {x})
  BY DEF Units
<1>2. Total(g, S \ {x}) = Total(f, S \ {x})
  BY <1>1 DEF Total
<1>3. Total(g, S) = Total(g, S \ {x}) + g[x]
  BY TotalSplit
<1>4. Total(f, S) = Total(f, S \ {x}) + f[x] /\ Total(f, S \ {x}) \in Nat
  BY TotalSplit
<1>5. QED
  BY <1>2, <1>3, <1>4

-----------------------------------------------------------------------------
(* Totals over a part of a function's domain, such as the ticks of a day.  *)

\* A part that f is the same on as g has the same total for both.
LEMMA PartSame ==
  ASSUME NEW S, NEW f, NEW g, \A x \in S : f[x] = g[x]
  PROVE  Total(f, S) = Total(g, S)
<1>1. Units(f, S) = Units(g, S)
  BY DEF Units
<1>2. QED
  BY <1>1 DEF Total

LEMMA PartFinite ==
  ASSUME NEW D, NEW f \in [D -> Nat], NEW S \in SUBSET D, IsFiniteSet(S)
  PROVE  IsFiniteSet(Units(f, S)) /\ Total(f, S) \in Nat
<1> DEFINE g == [x \in S |-> f[x]]
<1>1. g \in [S -> Nat]
  OBVIOUS
<1>2. Units(f, S) = Units(g, S)
  BY DEF Units
<1>3. IsFiniteSet(Units(g, S))
  BY <1>1, UnitsFinite
<1>4. QED
  BY <1>2, <1>3, FS_CardinalityType DEF Total

\* A part has no more than the whole.
LEMMA PartMonotone ==
  ASSUME NEW D, NEW f \in [D -> Nat], NEW T \in SUBSET D, IsFiniteSet(T), NEW S \in SUBSET T
  PROVE  Total(f, S) <= Total(f, T) /\ Total(f, S) \in Nat /\ Total(f, T) \in Nat
<1>1. IsFiniteSet(Units(f, T)) /\ Total(f, T) \in Nat
  BY PartFinite
<1>2. Units(f, S) \subseteq Units(f, T)
  BY DEF Units
<1>3. IsFiniteSet(Units(f, S)) /\ Cardinality(Units(f, S)) <= Cardinality(Units(f, T))
  BY <1>1, <1>2, FS_Subset
<1>4. QED
  BY <1>1, <1>3, FS_CardinalityType DEF Total

\* Two parts together have no more than the first and the second.
LEMMA PartsTogether ==
  ASSUME NEW D, NEW f \in [D -> Nat], NEW S \in SUBSET D, IsFiniteSet(S),
         NEW T \in SUBSET D, IsFiniteSet(T)
  PROVE  Total(f, S \cup T) <= Total(f, S) + Total(f, T)
<1> DEFINE A == Units(f, S)
           B == Units(f, T)
<1>1. IsFiniteSet(A) /\ IsFiniteSet(B)
  BY PartFinite
<1>2. Units(f, S \cup T) = A \cup B
  BY DEF Units
<1>3. IsFiniteSet(A \cap B)
  BY <1>1, FS_Subset, A \cap B \in SUBSET A
<1> HIDE DEF A, B
<1>4. Cardinality(A \cup B) = Cardinality(A) + Cardinality(B) - Cardinality(A \cap B)
  BY <1>1, FS_Union
<1>5. Cardinality(A) \in Nat /\ Cardinality(B) \in Nat /\ Cardinality(A \cap B) \in Nat
  BY <1>1, <1>3, FS_CardinalityType
<1>6. Cardinality(A \cup B) <= Cardinality(A) + Cardinality(B)
  BY <1>4, <1>5
<1>7. QED
  BY <1>2, <1>6 DEF Total, A, B

\* One more place adds its value.
LEMMA PartAdd ==
  ASSUME NEW D, NEW f \in [D -> Nat], NEW S \in SUBSET D, IsFiniteSet(S),
         NEW x \in D, x \notin S
  PROVE  Total(f, S \cup {x}) = Total(f, S) + f[x] /\ Total(f, S) \in Nat
<1> DEFINE T == S \cup {x}
           g == [y \in T |-> f[y]]
<1>1. IsFiniteSet(T)
  BY FS_AddElement
<1>2. g \in [T -> Nat] /\ x \in T /\ g[x] = f[x] /\ T \ {x} = S
  OBVIOUS
<1>3. Total(f, T) = Total(g, T) /\ Total(f, S) = Total(g, S)
  <2>1. (\A y \in T : f[y] = g[y]) /\ (\A y \in S : f[y] = g[y])
    OBVIOUS
  <2>2. QED
    BY <2>1, PartSame
<1>4. Total(g, T) = Total(g, S) + g[x] /\ Total(g, S) \in Nat
  <2> HIDE DEF g, T
  <2>1. QED
    BY <1>1, <1>2, TotalSplit
<1>5. QED
  BY <1>2, <1>3, <1>4

\* The total of one place is its value.
LEMMA PartOne ==
  ASSUME NEW f, NEW x, f[x] \in Nat
  PROVE  Total(f, {x}) = f[x]
<1>1. Units(f, {x}) = {x} \X (1 .. f[x])
  BY DEF Units
<1>2. QED
  BY <1>1, OwnUnits DEF Total

\* Values at most k times those of f have a total at most k times that of f: a
\* smallest set on which it were otherwise would lose a member.
LEMMA TotalScaled ==
  ASSUME NEW S, IsFiniteSet(S), NEW f \in [S -> Nat], NEW g \in [S -> Nat], NEW k \in Nat,
         \A x \in S : g[x] <= k * f[x]
  PROVE  Total(g, S) <= k * Total(f, S)
<1> DEFINE Good(T) == Total(g, T) <= k * Total(f, T)
           bad == {T \in FiniteSubsetsOf(S) : ~Good(T)}
           R == StrictSubsetOrdering(S)
           Fin == FiniteSubsetsOf(S)
<1>1. IsWellFoundedOn(R, Fin)
  BY FS_StrictSubsetOrderingWellFounded
<1>2. ASSUME bad # {} PROVE FALSE
  <2>1. PICK T \in bad : \A U \in bad : <<U, T>> \notin R
    <3>1. bad \subseteq Fin
      OBVIOUS
    <3> HIDE DEF bad, R, Fin
    <3>2. QED
      BY <1>1, <1>2, <3>1, WFMin
  <2>2. T \subseteq S /\ IsFiniteSet(T) /\ ~Good(T)
    BY DEF FiniteSubsetsOf
  <2>3. CASE T = {}
    <3>1. Units(f, {}) = {} /\ Units(g, {}) = {}
      BY DEF Units
    <3>2. Total(f, {}) = 0 /\ Total(g, {}) = 0
      BY <3>1, FS_EmptySet DEF Total
    <3>3. QED
      BY <2>2, <2>3, <3>2
  <2>4. CASE T # {}
    <3>1. PICK x \in T : TRUE
      BY <2>4
    <3> DEFINE U == T \ {x}
    <3>2. U \in Fin /\ U \subseteq T /\ U # T
      BY <2>2, <3>1, FS_RemoveElement DEF FiniteSubsetsOf
    <3>3. <<U, T>> \in R
      BY <2>2, <3>2 DEF StrictSubsetOrdering, FiniteSubsetsOf
    <3>4. Good(U)
      BY <2>1, <3>2, <3>3
    <3>5. IsFiniteSet(U) /\ U \in SUBSET S /\ x \in S /\ x \notin U /\ U \cup {x} = T
      BY <2>2, <3>1, <3>2 DEF FiniteSubsetsOf
    <3> HIDE DEF U
    <3>6. Total(f, T) = Total(f, U) + f[x] /\ Total(f, U) \in Nat
      BY <3>5, PartAdd
    <3>7. Total(g, T) = Total(g, U) + g[x] /\ Total(g, U) \in Nat
      BY <3>5, PartAdd
    <3>8. f[x] \in Nat /\ g[x] \in Nat /\ g[x] <= k * f[x]
      BY <3>5
    <3>9. k * (Total(f, U) + f[x]) = k * Total(f, U) + k * f[x]
      BY <3>6, <3>8
    <3>10. k * Total(f, U) \in Nat /\ k * f[x] \in Nat
      BY <3>6, <3>8
    <3>11. Total(g, T) <= k * Total(f, U) + k * f[x]
      BY <3>4, <3>7, <3>8, <3>10
    <3>12. QED
      BY <2>2, <3>6, <3>9, <3>11
  <2>5. QED
    BY <2>3, <2>4
<1>3. S \in FiniteSubsetsOf(S)
  BY DEF FiniteSubsetsOf
<1>4. QED
  BY <1>2, <1>3

\* h carries each value of f over S to a place of its own in T, where g has it; g has no
\* others.
Carries(h, f, S, g, T) ==
  /\ f \in [S -> Nat] /\ g \in [T -> Nat] /\ h \in [S -> T]
  /\ \A x, y \in S : h[x] = h[y] => x = y
  /\ \A x \in S : g[h[x]] = f[x]
  /\ \A y \in T : (\E x \in S : y = h[x]) \/ g[y] = 0

\* The same values at other places have the same total.
LEMMA TotalElsewhere ==
  ASSUME NEW S, IsFiniteSet(S), NEW T, NEW f, NEW g, NEW h, Carries(h, f, S, g, T)
  PROVE  Total(f, S) = Total(g, T)
<1> USE DEF Carries
<1> DEFINE A == Units(f, S)
           B == Units(g, T)
           m == [z \in A |-> <<h[z[1]], z[2]>>]
<1>1. \A z \in A : z = <<z[1], z[2]>> /\ z[1] \in S /\ z[2] \in 1 .. f[z[1]]
  BY DEF Units
<1>2. \A z \in B : z = <<z[1], z[2]>> /\ z[1] \in T /\ z[2] \in 1 .. g[z[1]]
  BY DEF Units
<1>3. \A x \in S : \A k \in 1 .. f[x] : <<x, k>> \in A
  BY DEF Units
<1>4. \A y \in T : \A k \in 1 .. g[y] : <<y, k>> \in B
  BY DEF Units
<1>5. IsFiniteSet(A)
  BY UnitsFinite
<1> HIDE DEF A, B
<1>6. m \in [A -> B]
  BY <1>1, <1>4
<1>7. ASSUME NEW a \in A, NEW b \in A, m[a] = m[b] PROVE a = b
  <2>1. h[a[1]] = h[b[1]] /\ a[2] = b[2]
    BY <1>7
  <2>2. a[1] = b[1]
    BY <1>1, <2>1
  <2>3. QED
    BY <1>1, <2>1, <2>2
<1>8. ASSUME NEW b \in B PROVE \E a \in A : m[a] = b
  <2>1. b = <<b[1], b[2]>> /\ b[1] \in T /\ b[2] \in 1 .. g[b[1]]
    BY <1>2
  <2>2. g[b[1]] # 0
    BY <2>1
  <2>3. PICK x \in S : b[1] = h[x]
    BY <2>1, <2>2
  <2>4. b[2] \in 1 .. f[x]
    BY <2>1, <2>3
  <2>5. <<x, b[2]>> \in A
    BY <1>3, <2>4
  <2>6. m[<<x, b[2]>>] = <<h[x], b[2]>>
    BY <2>5
  <2>7. QED
    BY <2>1, <2>3, <2>5, <2>6
<1> HIDE DEF m
<1>9. m \in Bijection(A, B)
  BY <1>6, <1>7, <1>8 DEF Bijection, Injection, Surjection, IsInjective
<1>10. Cardinality(A) = Cardinality(B)
  BY <1>5, <1>9, FS_Bijection DEF ExistsBijection
<1>11. QED
  BY <1>10 DEF Total, A, B

-----------------------------------------------------------------------------
\* A nonempty set of naturals has a least member: 0 .. k is well-founded in k.
LEMMA LeastExists ==
  ASSUME NEW T \in SUBSET Nat, T # {}
  PROVE  \E x \in T : \A y \in T : x <= y
<1> DEFINE upTo == {0 .. k : k \in T}
           R == StrictSubsetOrdering(Nat)
           Fin == FiniteSubsetsOf(Nat)
<1>1. IsWellFoundedOn(R, Fin)
  BY FS_StrictSubsetOrderingWellFounded
<1>2. ASSUME NEW k \in T PROVE 0 .. k \in Fin
  <2>1. IsFiniteSet(0 .. k)
    BY FS_Interval
  <2>2. QED
    BY <2>1 DEF FiniteSubsetsOf
<1>3. upTo \subseteq Fin /\ upTo # {}
  BY <1>2
<1>4. PICK s \in upTo : \A t \in upTo : <<t, s>> \notin R
  <2> HIDE DEF upTo, R, Fin
  <2> QED
    BY <1>1, <1>3, WFMin
<1>5. PICK k \in T : s = 0 .. k
  OBVIOUS
<1>6. ASSUME NEW y \in T, y < k PROVE FALSE
  <2>1. 0 .. y \in upTo /\ 0 .. y \subseteq 0 .. k /\ k \notin 0 .. y /\ k \in 0 .. k
    BY <1>6
  <2>2. <<0 .. y, 0 .. k>> \in R
    BY <2>1 DEF StrictSubsetOrdering
  <2>3. QED
    BY <1>4, <1>5, <2>1, <2>2
<1>7. QED
  BY <1>6

\* A nonempty finite set has a member with the greatest value.
LEMMA BestExists ==
  ASSUME NEW S, IsFiniteSet(S), S # {}, NEW f \in [S -> Int]
  PROVE  \E x \in S : \A y \in S : f[y] <= f[x]
<1> DEFINE Best(T, x) == x \in T /\ \A y \in T : f[y] <= f[x]
           bad == {T \in FiniteSubsetsOf(S) : T # {} /\ \A x \in T : ~Best(T, x)}
           R == StrictSubsetOrdering(S)
           Fin == FiniteSubsetsOf(S)
<1>1. IsWellFoundedOn(R, Fin)
  BY FS_StrictSubsetOrderingWellFounded
<1>2. ASSUME bad # {} PROVE FALSE
  <2>1. PICK T \in bad : \A U \in bad : <<U, T>> \notin R
    <3>1. bad \subseteq Fin
      OBVIOUS
    <3> HIDE DEF bad, R, Fin
    <3>2. QED
      BY <1>1, <1>2, <3>1, WFMin
  <2>2. T \subseteq S /\ IsFiniteSet(T) /\ T # {} /\ \A x \in T : ~Best(T, x)
    BY DEF FiniteSubsetsOf
  <2>3. PICK x \in T : TRUE
    BY <2>2
  <2>4. T \ {x} \in Fin /\ T \ {x} \subseteq T /\ T \ {x} # T
    BY <2>2, <2>3, FS_RemoveElement DEF FiniteSubsetsOf
  <2>5. <<T \ {x}, T>> \in R
    BY <2>2, <2>4 DEF StrictSubsetOrdering
  <2>6. T \ {x} \notin bad
    BY <2>1, <2>5
  <2>7. CASE T \ {x} = {}
    <3>1. T = {x} /\ f[x] \in Int
      BY <2>2, <2>3, <2>7
    <3>2. Best(T, x)
      BY <3>1
    <3>3. QED
      BY <2>2, <2>3, <3>2
  <2>8. CASE \E z \in T \ {x} : Best(T \ {x}, z)
    <3>1. PICK z \in T \ {x} : Best(T \ {x}, z)
      BY <2>8
    <3>2. f[x] \in Int /\ f[z] \in Int /\ \A y \in T : f[y] \in Int
      BY <2>2, <2>3
    <3>3. Best(T, z) \/ Best(T, x)
      BY <2>3, <3>1, <3>2
    <3>4. QED
      BY <2>2, <2>3, <3>1, <3>3
  <2>9. QED
    BY <2>4, <2>6, <2>7, <2>8
<1>3. S \in FiniteSubsetsOf(S)
  BY DEF FiniteSubsetsOf
<1>4. QED
  BY <1>2, <1>3
=============================================================================
