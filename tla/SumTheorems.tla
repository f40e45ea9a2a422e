----------------------------- MODULE SumTheorems -----------------------------
(***************************************************************************)
(* Lemmas about least and greatest numbers and about MapThenSumSet, which  *)
(* the counts and costs of the models are written with: a sum is defined,  *)
(* does not depend on the order in which elements are taken, splits over   *)
(* disjoint sets, and adds up over the rows of each key.  They are proved  *)
(* without an induction theorem, by taking a least counterexample.         *)
(***************************************************************************)
EXTENDS Naturals, FiniteSets, FiniteSetsExt, FiniteSetTheorems, WellFoundedInduction, TLAPS

\* Sets of naturals have a least element.
LEMMA LeastNatural ==
  ASSUME NEW T, T \subseteq Nat, T # {}
  PROVE  \E n \in T : \A m \in T : n <= m
<1>1. IsWellFoundedOn(OpToRel(<, Nat), Nat)
  BY NatLessThanWellFounded
<1>2. PICK n \in T : \A m \in T : <<m, n>> \notin OpToRel(<, Nat)
  BY <1>1, WFMin
<1>3. \A m \in T : ~(m < n)
  BY <1>2 DEF OpToRel
<1> QED
  BY <1>3

LEMMA MinOf ==
  ASSUME NEW T, T \subseteq Nat, T # {}
  PROVE  Min(T) \in T /\ \A m \in T : Min(T) <= m
BY LeastNatural DEF Min

LEMMA MaxOf ==
  ASSUME NEW T, NEW b \in Nat, T \subseteq 0..b, T # {}
  PROVE  Max(T) \in T /\ \A m \in T : m <= Max(T)
<1> DEFINE U == {n \in Nat : b - n \in T}
<1>1. U # {}
  <2>1. PICK t \in T : TRUE
    OBVIOUS
  <2>2. b - t \in Nat /\ b - (b - t) = t
    BY <2>1
  <2> QED
    BY <2>1, <2>2
<1>2. PICK u \in U : \A v \in U : u <= v
  BY <1>1, LeastNatural
<1>3. b - u \in T /\ \A m \in T : m <= b - u
  <2>1. ASSUME NEW m \in T PROVE m <= b - u
    <3>0. m \in 0..b /\ b - m \in Nat /\ b - (b - m) = m
      BY <2>1
    <3>1. b - m \in U
      BY <3>0
    <3> QED
      BY <1>2, <3>0, <3>1
  <2> QED
    BY <1>2, <2>1
<1>4. \E x \in T : \A y \in T : x >= y
  BY <1>3
<1>5. Max(T) \in T /\ \A y \in T : Max(T) >= y
  BY <1>4 DEF Max
<1> QED
  BY <1>5

\* A function that adds up c over subsets the way MapThenSumSet does.
Adds(g, c, D) ==
  g = [s \in SUBSET D |-> IF s = {} THEN 0 ELSE c[CHOOSE x \in s : TRUE] + g[s \ {CHOOSE x \in s : TRUE}]]

SumOf(c, D) == MapThenSumSet(LAMBDA p : c[p], D)

LEMMA SumIsAdds ==
  ASSUME NEW c, NEW D
  PROVE  SumOf(c, D) = (CHOOSE g : Adds(g, c, D))[D]
BY DEF SumOf, MapThenSumSet, MapThenFoldSet, Adds

Some(s) == CHOOSE x \in s : TRUE

LEMMA SomeIn == ASSUME NEW s, s # {} PROVE Some(s) \in s
BY DEF Some

LEMMA AddsEmpty ==
  ASSUME NEW c, NEW D, NEW g, Adds(g, c, D)
  PROVE  g[{}] = 0
BY DEF Adds

LEMMA AddsStep ==
  ASSUME NEW c, NEW D, NEW g, Adds(g, c, D), NEW s, s \subseteq D
  PROVE  /\ s = {} => g[s] = 0
         /\ s # {} => g[s] = c[Some(s)] + g[s \ {Some(s)}]
BY DEF Adds, Some

\* One element less.
LEMMA OneLess ==
  ASSUME NEW s, IsFiniteSet(s), NEW x \in s
  PROVE  /\ IsFiniteSet(s \ {x}) /\ Cardinality(s) \in Nat /\ Cardinality(s \ {x}) \in Nat
         /\ Cardinality(s) = Cardinality(s \ {x}) + 1
<1>1. Cardinality(s) \in Nat /\ IsFiniteSet(s \ {x})
  BY FS_CardinalityType, FS_Subset
<1>2. Cardinality(s \ {x}) \in Nat
  BY <1>1, FS_CardinalityType
<1>3. Cardinality(s \ {x}) = Cardinality(s) - 1
  BY FS_RemoveElement
<1> QED
  BY <1>1, <1>2, <1>3

\* Two such functions agree where both are defined: take a smallest subset on
\* which they do not.
LEMMA AddsUnique ==
  ASSUME NEW c, NEW D, NEW E, NEW g, NEW h, Adds(g, c, D), Adds(h, c, E),
         NEW s, IsFiniteSet(s), s \subseteq D, s \subseteq E
  PROVE  g[s] = h[s]
<1> DEFINE B == {n \in Nat : \E t \in SUBSET s : Cardinality(t) = n /\ g[t] # h[t]}
<1> SUFFICES ASSUME g[s] # h[s] PROVE FALSE
  OBVIOUS
<1>1. Cardinality(s) \in B
  BY FS_CardinalityType
<1>2. PICK n \in B : \A m \in B : n <= m
  BY <1>1, LeastNatural
<1>3. PICK t \in SUBSET s : Cardinality(t) = n /\ g[t] # h[t]
  BY <1>2
<1>4. IsFiniteSet(t)
  BY <1>3, FS_Subset
<1>5. t # {}
  <2> SUFFICES ASSUME t = {} PROVE FALSE
    OBVIOUS
  <2>1. g[{}] = 0
    BY AddsEmpty
  <2>2. h[{}] = 0
    BY AddsEmpty
  <2> QED
    BY <1>3, <2>1, <2>2
<1>6. /\ g[t] = c[Some(t)] + g[t \ {Some(t)}]
      /\ h[t] = c[Some(t)] + h[t \ {Some(t)}]
  BY <1>3, <1>5, AddsStep
<1>7. /\ Cardinality(t \ {Some(t)}) \in Nat /\ Cardinality(t) \in Nat
      /\ Cardinality(t) = Cardinality(t \ {Some(t)}) + 1
  BY <1>4, <1>5, SomeIn, OneLess
<1>8. Cardinality(t \ {Some(t)}) \notin B
  <2> HIDE DEF B
  <2>1. Cardinality(t) = n
    BY <1>3
  <2> QED
    BY <1>2, <1>7, <2>1
<1>9. g[t \ {Some(t)}] = h[t \ {Some(t)}]
  BY <1>3, <1>7, <1>8
<1> QED
  BY <1>3, <1>6, <1>9

TheSum(c, t) == (CHOOSE g : Adds(g, c, t))[t]

\* Every finite set has one: take a smallest set that has none.
LEMMA AddsExists ==
  ASSUME NEW c, NEW D, IsFiniteSet(D)
  PROVE  \E g : Adds(g, c, D)
<1> DEFINE B == {n \in Nat : \E E : IsFiniteSet(E) /\ Cardinality(E) = n /\ ~ \E g : Adds(g, c, E)}
<1> SUFFICES ASSUME ~ \E g : Adds(g, c, D) PROVE FALSE
  OBVIOUS
<1>1. Cardinality(D) \in B
  BY FS_CardinalityType
<1>2. PICK n \in B : \A m \in B : n <= m
  BY <1>1, LeastNatural
<1>3. PICK E : IsFiniteSet(E) /\ Cardinality(E) = n /\ ~ \E g : Adds(g, c, E)
  BY <1>2
<1>4. ASSUME NEW t, t \subseteq E, t # E
      PROVE  IsFiniteSet(t) /\ Adds(CHOOSE g : Adds(g, c, t), c, t)
  <2>1. IsFiniteSet(t) /\ Cardinality(t) \in Nat /\ Cardinality(E) \in Nat /\ Cardinality(t) < Cardinality(E)
    <3>1. IsFiniteSet(t) /\ Cardinality(t) <= Cardinality(E) /\ Cardinality(t) # Cardinality(E)
      BY <1>3, <1>4, FS_Subset
    <3>2. Cardinality(t) \in Nat /\ Cardinality(E) \in Nat
      BY <1>3, <3>1, FS_CardinalityType
    <3> QED
      BY <3>1, <3>2
  <2>2. Cardinality(t) \notin B
    BY <1>2, <1>3, <2>1
  <2>3. \E g : Adds(g, c, t)
    BY <2>1, <2>2
  <2> QED
    BY <2>1, <2>3
<1> DEFINE G == [s \in SUBSET E |-> IF s = {} THEN 0 ELSE c[Some(s)] + TheSum(c, s \ {Some(s)})]
<1>5. ASSUME NEW u, u \subseteq E, u # E PROVE G[u] = TheSum(c, u)
  <2>1. IsFiniteSet(u) /\ Adds(CHOOSE g : Adds(g, c, u), c, u)
    BY <1>4, <1>5
  <2>2. CASE u = {}
    BY <2>1, <2>2, AddsStep DEF TheSum
  <2>3. CASE u # {}
    <3> DEFINE v == u \ {Some(u)}
    <3>1. Some(u) \in u /\ v \subseteq E /\ v # E /\ v \subseteq u
      BY <1>5, <2>3, SomeIn
    <3>2. IsFiniteSet(v) /\ Adds(CHOOSE g : Adds(g, c, v), c, v)
      BY <1>4, <3>1
    <3>3. (CHOOSE g : Adds(g, c, u))[v] = (CHOOSE g : Adds(g, c, v))[v]
      BY <2>1, <3>1, <3>2, AddsUnique
    <3>4. (CHOOSE g : Adds(g, c, u))[u] = c[Some(u)] + (CHOOSE g : Adds(g, c, u))[v]
      BY <2>1, <2>3, AddsStep
    <3>5. G[u] = c[Some(u)] + TheSum(c, v)
      BY <1>5, <2>3
    <3> QED
      BY <3>3, <3>4, <3>5 DEF TheSum
  <2> QED
    BY <2>2, <2>3
<1>6. ASSUME NEW s \in SUBSET E PROVE G[s] = IF s = {} THEN 0 ELSE c[Some(s)] + G[s \ {Some(s)}]
  <2>1. CASE s = {}
    BY <2>1
  <2>2. CASE s # {}
    <3>1. s \ {Some(s)} \subseteq E /\ s \ {Some(s)} # E
      BY <2>2, SomeIn
    <3>2. G[s \ {Some(s)}] = TheSum(c, s \ {Some(s)})
      BY <1>5, <3>1
    <3>3. G[s] = c[Some(s)] + TheSum(c, s \ {Some(s)})
      BY <2>2
    <3> QED
      BY <2>2, <3>2, <3>3
  <2> QED
    BY <2>1, <2>2
<1>7. G = [s \in SUBSET E |-> G[s]]
  OBVIOUS
<1> HIDE DEF G
<1>8. G = [s \in SUBSET E |-> IF s = {} THEN 0 ELSE c[Some(s)] + G[s \ {Some(s)}]]
  BY <1>6, <1>7
<1>9. Adds(G, c, E)
  BY <1>8 DEF Adds, Some
<1> QED
  BY <1>3, <1>9

LEMMA SumStep ==
  ASSUME NEW c, NEW D, IsFiniteSet(D)
  PROVE  /\ D = {} => SumOf(c, D) = 0
         /\ D # {} => SumOf(c, D) = c[Some(D)] + SumOf(c, D \ {Some(D)})
<1> DEFINE E == D \ {Some(D)}
           gD == CHOOSE g : Adds(g, c, D)
           gE == CHOOSE g : Adds(g, c, E)
<1>1. IsFiniteSet(E)
  BY FS_Subset
<1>2. Adds(gD, c, D) /\ Adds(gE, c, E)
  BY <1>1, AddsExists
<1>3. SumOf(c, D) = gD[D] /\ SumOf(c, E) = gE[E]
  BY SumIsAdds
<1> HIDE DEF gD, gE
<1>4. gD[E] = gE[E]
  BY <1>1, <1>2, AddsUnique
<1>5. D = {} => gD[D] = 0
  BY <1>2, AddsStep
<1>6. D # {} => gD[D] = c[Some(D)] + gD[E]
  BY <1>2, AddsStep
<1> QED
  BY <1>3, <1>4, <1>5, <1>6

LEMMA SumNat ==
  ASSUME NEW c, NEW D, IsFiniteSet(D), \A d \in D : c[d] \in Nat
  PROVE  SumOf(c, D) \in Nat
<1> DEFINE B == {n \in Nat : \E E \in SUBSET D : Cardinality(E) = n /\ SumOf(c, E) \notin Nat}
<1> SUFFICES ASSUME SumOf(c, D) \notin Nat PROVE FALSE
  OBVIOUS
<1>1. Cardinality(D) \in B
  BY FS_CardinalityType
<1>2. PICK n \in B : \A m \in B : n <= m
  BY <1>1, LeastNatural
<1>3. PICK E \in SUBSET D : Cardinality(E) = n /\ SumOf(c, E) \notin Nat
  BY <1>2
<1>4. IsFiniteSet(E)
  BY <1>3, FS_Subset
<1>5. E # {}
  <2>1. E = {} => SumOf(c, E) = 0
    BY <1>4, SumStep
  <2> QED
    BY <1>3, <2>1
<1>6. Some(E) \in E /\ SumOf(c, E) = c[Some(E)] + SumOf(c, E \ {Some(E)})
  BY <1>4, <1>5, SomeIn, SumStep
<1>7. /\ Cardinality(E \ {Some(E)}) \in Nat /\ Cardinality(E) \in Nat
      /\ Cardinality(E) = Cardinality(E \ {Some(E)}) + 1
  BY <1>4, <1>6, OneLess
<1>8. Cardinality(E \ {Some(E)}) \notin B
  <2> HIDE DEF B
  <2> QED
    BY <1>2, <1>3, <1>7
<1>9. SumOf(c, E \ {Some(E)}) \in Nat
  BY <1>3, <1>7, <1>8
<1> QED
  BY <1>3, <1>6, <1>9

\* The sum does not depend on the element that is taken first.
LEMMA SumRemove ==
  ASSUME NEW c, NEW D, IsFiniteSet(D), \A d \in D : c[d] \in Nat, NEW x \in D
  PROVE  SumOf(c, D) = c[x] + SumOf(c, D \ {x})
<1> DEFINE Wrong(E) == \E y \in E : SumOf(c, E) # c[y] + SumOf(c, E \ {y})
           B == {n \in Nat : \E E \in SUBSET D : Cardinality(E) = n /\ Wrong(E)}
<1> SUFFICES ASSUME Wrong(D) PROVE FALSE
  OBVIOUS
<1>1. Cardinality(D) \in B
  BY FS_CardinalityType
<1>2. PICK n \in B : \A m \in B : n <= m
  BY <1>1, LeastNatural
<1>3. PICK E \in SUBSET D : Cardinality(E) = n /\ Wrong(E)
  BY <1>2
<1>4. PICK y \in E : SumOf(c, E) # c[y] + SumOf(c, E \ {y})
  BY <1>3
<1> DEFINE z == Some(E)
<1>5. IsFiniteSet(E) /\ z \in E /\ SumOf(c, E) = c[z] + SumOf(c, E \ {z})
  BY <1>3, <1>4, FS_Subset, SomeIn, SumStep
<1> HIDE DEF z
<1>6. y # z
  BY <1>4, <1>5
<1>7. ASSUME NEW e \in E PROVE ~Wrong(E \ {e}) /\ IsFiniteSet(E \ {e})
  <2>1. /\ IsFiniteSet(E \ {e}) /\ Cardinality(E \ {e}) \in Nat /\ Cardinality(E) \in Nat
        /\ Cardinality(E) = Cardinality(E \ {e}) + 1
    BY <1>5, OneLess
  <2>2. Cardinality(E \ {e}) \notin B
    <3> HIDE DEF B
    <3> QED
      BY <1>2, <1>3, <2>1
  <2> QED
    BY <1>3, <2>1, <2>2
<1>8. SumOf(c, E \ {z}) = c[y] + SumOf(c, (E \ {z}) \ {y})
  BY <1>4, <1>5, <1>6, <1>7
<1>9. SumOf(c, E \ {y}) = c[z] + SumOf(c, (E \ {y}) \ {z})
  BY <1>4, <1>5, <1>6, <1>7
<1>10. (E \ {z}) \ {y} = (E \ {y}) \ {z}
  OBVIOUS
<1>11. SumOf(c, (E \ {y}) \ {z}) \in Nat /\ c[y] \in Nat /\ c[z] \in Nat
  <2>1. IsFiniteSet((E \ {y}) \ {z})
    BY <1>5, FS_Subset
  <2> QED
    BY <1>3, <1>4, <1>5, <2>1, SumNat
<1>12. SumOf(c, E) = c[y] + SumOf(c, E \ {y})
  <2>1. SumOf(c, (E \ {z}) \ {y}) = SumOf(c, (E \ {y}) \ {z})
    BY <1>10, Zenon
  <2> QED
    BY <1>5, <1>8, <1>9, <1>11, <2>1
<1> QED
  BY <1>4, <1>12

\* The rows of M whose key is in D, and counts of them per key.
Keyed(M, key, D) == {i \in M : key[i] \in D}
CountsRows(c, M, key, D) == \A d \in D : c[d] = Cardinality({i \in M : key[i] = d})

\* Rows counted per key add up to the rows.
LEMMA SumOfCounts ==
  ASSUME NEW D, IsFiniteSet(D), NEW M, IsFiniteSet(M), NEW key, NEW c, CountsRows(c, M, key, D)
  PROVE  SumOf(c, D) = Cardinality(Keyed(M, key, D))
<1> USE DEF CountsRows, Keyed
<1> DEFINE Rows(E) == {i \in M : key[i] \in E}
           B == {n \in Nat : \E E \in SUBSET D : Cardinality(E) = n /\ SumOf(c, E) # Cardinality(Rows(E))}
<1> SUFFICES ASSUME SumOf(c, D) # Cardinality(Rows(D)) PROVE FALSE
  OBVIOUS
<1>1. Cardinality(D) \in B
  BY FS_CardinalityType
<1>2. PICK n \in B : \A m \in B : n <= m
  BY <1>1, LeastNatural
<1>3. PICK E \in SUBSET D : Cardinality(E) = n /\ SumOf(c, E) # Cardinality(Rows(E))
  BY <1>2
<1>4. IsFiniteSet(E)
  BY <1>3, FS_Subset
<1>5. E # {}
  <2>1. E = {} => Rows(E) = {}
    OBVIOUS
  <2> QED
    BY <1>3, <1>4, <2>1, SumStep, FS_EmptySet
<1> DEFINE z == Some(E)
           F == E \ {z}
           one == {i \in M : key[i] = z}
<1>6. z \in E /\ SumOf(c, E) = c[z] + SumOf(c, F)
  BY <1>4, <1>5, SomeIn, SumStep
<1> HIDE DEF z
<1>7. Cardinality(F) \in Nat /\ Cardinality(E) \in Nat /\ Cardinality(E) = Cardinality(F) + 1
  BY <1>4, <1>6, OneLess
<1>8. Cardinality(F) \notin B
  <2> HIDE DEF B
  <2> QED
    BY <1>2, <1>3, <1>7
<1>9. SumOf(c, F) = Cardinality(Rows(F))
  BY <1>3, <1>7, <1>8
<1>10. c[z] = Cardinality(one)
  BY <1>3, <1>6
<1>11. Rows(E) = one \union Rows(F) /\ one \intersect Rows(F) = {}
  BY <1>6
<1>12. IsFiniteSet(one) /\ IsFiniteSet(Rows(F))
  BY FS_Subset
<1> HIDE DEF one, Rows
<1>13. Cardinality(one) \in Nat /\ Cardinality(Rows(F)) \in Nat /\ Cardinality({}) = 0
  BY <1>12, FS_CardinalityType, FS_EmptySet
<1>14. Cardinality(one \union Rows(F)) = Cardinality(one) + Cardinality(Rows(F)) - Cardinality(one \intersect Rows(F))
  BY <1>12, FS_Union
<1>15. Cardinality(one \intersect Rows(F)) = 0
  BY <1>11, <1>13, Zenon
<1>16. Cardinality(Rows(E)) = Cardinality(one) + Cardinality(Rows(F))
  BY <1>11, <1>13, <1>14, <1>15
<1> QED
  BY <1>3, <1>6, <1>9, <1>10, <1>16

\* The sum over two sets that share nothing.
LEMMA SumUnion ==
  ASSUME NEW c, NEW S, IsFiniteSet(S), NEW T, IsFiniteSet(T), S \intersect T = {},
         \A d \in S \union T : c[d] \in Nat
  PROVE  SumOf(c, S \union T) = SumOf(c, S) + SumOf(c, T)
<1> DEFINE Wrong(E) == SumOf(c, E \union T) # SumOf(c, E) + SumOf(c, T)
           B == {n \in Nat : \E E \in SUBSET S : Cardinality(E) = n /\ Wrong(E)}
<1> SUFFICES ASSUME Wrong(S) PROVE FALSE
  OBVIOUS
<1>1. Cardinality(S) \in B
  BY FS_CardinalityType
<1>2. PICK n \in B : \A m \in B : n <= m
  BY <1>1, LeastNatural
<1>3. PICK E \in SUBSET S : Cardinality(E) = n /\ Wrong(E)
  BY <1>2
<1>4. IsFiniteSet(E) /\ IsFiniteSet(E \union T) /\ SumOf(c, T) \in Nat
  <2>1. IsFiniteSet(E)
    BY <1>3, FS_Subset
  <2> QED
    BY <2>1, FS_Union, SumNat
<1>5. E # {}
  <2> SUFFICES ASSUME E = {} PROVE FALSE
    OBVIOUS
  <2>1. E \union T = T
    OBVIOUS
  <2>2. SumOf(c, E \union T) = SumOf(c, T)
    BY <2>1, Zenon
  <2>3. SumOf(c, E) = 0
    BY <1>4, SumStep
  <2> QED
    BY <1>3, <1>4, <2>2, <2>3
<1>6. PICK x \in E : TRUE
  BY <1>5
<1> DEFINE F == E \ {x}
<1>7. SumOf(c, E) = c[x] + SumOf(c, F)
  BY <1>3, <1>4, SumRemove
<1>8. SumOf(c, E \union T) = c[x] + SumOf(c, (E \union T) \ {x})
  BY <1>3, <1>4, SumRemove
<1>9. (E \union T) \ {x} = F \union T
  BY <1>3
<1>10. /\ IsFiniteSet(F) /\ Cardinality(F) \in Nat /\ Cardinality(E) \in Nat
       /\ Cardinality(E) = Cardinality(F) + 1
  BY <1>4, OneLess
<1>11. Cardinality(F) \notin B
  <2> HIDE DEF B
  <2> QED
    BY <1>2, <1>3, <1>10, SMTT(30)
<1>12. ~Wrong(F)
  BY <1>3, <1>10, <1>11
<1>13. SumOf(c, F) \in Nat /\ c[x] \in Nat
  BY <1>3, <1>10, SumNat
<1>14. SumOf(c, E \union T) = c[x] + SumOf(c, F \union T)
  <2>1. SumOf(c, (E \union T) \ {x}) = SumOf(c, F \union T)
    BY <1>9, Zenon
  <2> QED
    BY <1>8, <2>1
<1> QED
  BY <1>3, <1>4, <1>7, <1>12, <1>13, <1>14

\* s adds up c over the rows of each key.
PartSums(s, c, M, key, D) == \A d \in D : s[d] = SumOf(c, {i \in M : key[i] = d})

\* The sums of the parts add up to the sum.
LEMMA SumOfParts ==
  ASSUME NEW D, IsFiniteSet(D), NEW M, IsFiniteSet(M), NEW key, NEW c, \A i \in M : c[i] \in Nat,
         NEW s, PartSums(s, c, M, key, D)
  PROVE  SumOf(s, D) = SumOf(c, Keyed(M, key, D))
<1> USE DEF PartSums, Keyed
<1> DEFINE Rows(E) == {i \in M : key[i] \in E}
           B == {n \in Nat : \E E \in SUBSET D : Cardinality(E) = n /\ SumOf(s, E) # SumOf(c, Rows(E))}
<1> SUFFICES ASSUME SumOf(s, D) # SumOf(c, Rows(D)) PROVE FALSE
  OBVIOUS
<1>1. Cardinality(D) \in B
  BY FS_CardinalityType
<1>2. PICK n \in B : \A m \in B : n <= m
  BY <1>1, LeastNatural
<1>3. PICK E \in SUBSET D : Cardinality(E) = n /\ SumOf(s, E) # SumOf(c, Rows(E))
  BY <1>2
<1>4. IsFiniteSet(E)
  BY <1>3, FS_Subset
<1>5. E # {}
  <2> SUFFICES ASSUME E = {} PROVE FALSE
    OBVIOUS
  <2>1. Rows(E) = {}
    OBVIOUS
  <2>2. SumOf(c, Rows(E)) = SumOf(c, {})
    BY <2>1, Zenon
  <2>3. SumOf(c, {}) = 0 /\ SumOf(s, E) = 0
    BY <1>4, FS_EmptySet, SumStep
  <2> QED
    BY <1>3, <2>2, <2>3
<1> DEFINE z == Some(E)
           F == E \ {z}
           one == {i \in M : key[i] = z}
<1>6. z \in E /\ SumOf(s, E) = s[z] + SumOf(s, F)
  BY <1>4, <1>5, SomeIn, SumStep
<1> HIDE DEF z
<1>7. Cardinality(F) \in Nat /\ Cardinality(E) \in Nat /\ Cardinality(E) = Cardinality(F) + 1
  BY <1>4, <1>6, OneLess
<1>8. Cardinality(F) \notin B
  <2>1. Cardinality(E) = n
    BY <1>3
  <2> HIDE DEF B
  <2> QED
    BY <1>2, <1>7, <2>1
<1>9. SumOf(s, F) = SumOf(c, Rows(F))
  BY <1>3, <1>7, <1>8
<1>10. s[z] = SumOf(c, one)
  BY <1>3, <1>6
<1>11. Rows(E) = one \union Rows(F) /\ one \intersect Rows(F) = {} /\ one \union Rows(F) \subseteq M
  BY <1>6
<1>12. IsFiniteSet(one) /\ IsFiniteSet(Rows(F))
  BY FS_Subset
<1> HIDE DEF one, Rows
<1>13. SumOf(c, one \union Rows(F)) = SumOf(c, one) + SumOf(c, Rows(F))
  BY <1>11, <1>12, SumUnion, ZenonT(40)
<1>14. SumOf(c, Rows(E)) = SumOf(c, one \union Rows(F))
  BY <1>11, Zenon
<1> QED
  BY <1>3, <1>6, <1>9, <1>10, <1>13, <1>14
=============================================================================
