--------------------------- MODULE TotalsTheorems ---------------------------
(***************************************************************************)
(* Facts about sums, for every finite domain.  A sum is a cardinality, so  *)
(* they follow from facts about finite sets.                               *)
(***************************************************************************)
EXTENDS Totals, FiniteSetTheorems, TLAPS

(* The units that f has outside x. *)
Rest(f, x) == UNION { {y} \X (1 .. f[y]) : y \in (DOMAIN f) \ {x} }

(* One argument of value n contributes n units.  (No code: a lemma about   *)
(* the sums that session and balance totals are written with.)             *)
LEMMA ColumnSize ==
    ASSUME NEW x, NEW n \in Nat
    PROVE  /\ IsFiniteSet({x} \X (1 .. n))
           /\ Cardinality({x} \X (1 .. n)) = n
<1>1. IsFiniteSet({x}) /\ Cardinality({x}) = 1
  BY FS_Singleton
<1>2. IsFiniteSet(1 .. n) /\ Cardinality(1 .. n) = n
  BY FS_Interval
<1>3. /\ IsFiniteSet({x} \X (1 .. n))
      /\ Cardinality({x} \X (1 .. n)) = Cardinality({x}) * Cardinality(1 .. n)
  BY <1>1, <1>2, FS_Product
<1>4. QED
  BY <1>1, <1>2, <1>3

(* A function on a finite domain has finitely many units, in or outside x. *)
LEMMA UnitsFinite ==
    ASSUME NEW S, IsFiniteSet(S), NEW f \in [S -> Nat], NEW x
    PROVE  IsFiniteSet(Units(f)) /\ IsFiniteSet(Rest(f, x))
<1> DEFINE Column(y) == {y} \X (1 .. f[y])
<1>1. \A y \in S : IsFiniteSet(Column(y))
  BY ColumnSize
<1>2. IsFiniteSet({Column(y) : y \in S})
  <2> DEFINE column == [y \in S |-> Column(y)]
             columns == {Column(y) : y \in S}
  <2> HIDE DEF Column
  <2>1. column \in Surjection(S, columns)
    BY DEF Surjection
  <2> HIDE DEF column, columns
  <2>2. IsFiniteSet(columns)
    BY <2>1, FS_Surjection
  <2>3. QED
    BY <2>2 DEF columns
<1>3. IsFiniteSet(Units(f))
  <2>1. \A T \in {Column(y) : y \in S} : IsFiniteSet(T)
    BY <1>1
  <2>2. IsFiniteSet(UNION {Column(y) : y \in S})
    BY <1>2, <2>1, FS_UNION
  <2>3. QED
    BY <2>2 DEF Units
<1>4. Rest(f, x) \subseteq Units(f)
  BY DEF Rest, Units
<1>5. QED
  BY <1>3, <1>4, FS_Subset

(* The units of f are those of x and those of the rest, without overlap.   *)
LEMMA TotalSplit ==
    ASSUME NEW S, IsFiniteSet(S), NEW f \in [S -> Nat], NEW x \in S
    PROVE  /\ Total(f) = Cardinality(Rest(f, x)) + f[x]
           /\ Cardinality(Rest(f, x)) \in Nat
<1> DEFINE Column == {x} \X (1 .. f[x])
<1>1. Units(f) = Rest(f, x) \cup Column
  BY DEF Units, Rest
<1>2. Rest(f, x) \cap Column = {}
  BY DEF Rest
<1>3. IsFiniteSet(Rest(f, x)) /\ Cardinality(Rest(f, x)) \in Nat
  BY UnitsFinite, FS_CardinalityType
<1>4. IsFiniteSet(Column) /\ Cardinality(Column) = f[x]
  BY ColumnSize
<1>5. Cardinality(Units(f)) = Cardinality(Rest(f, x)) + Cardinality(Column)
                              - Cardinality(Rest(f, x) \cap Column)
  <2> HIDE DEF Column
  <2>1. QED
    BY <1>1, <1>3, <1>4, FS_Union
<1>6. Cardinality(Rest(f, x) \cap Column) = 0
  BY <1>2, FS_EmptySet
<1>7. QED
  BY <1>3, <1>4, <1>5, <1>6 DEF Total

(* A sum of naturals is a natural. *)
LEMMA TotalType ==
    ASSUME NEW S, IsFiniteSet(S), NEW f \in [S -> Nat]
    PROVE  Total(f) \in Nat
BY UnitsFinite, FS_CardinalityType DEF Total

(* Changing one argument changes the sum by the difference. *)
LEMMA TotalUpdate ==
    ASSUME NEW S, IsFiniteSet(S), NEW f \in [S -> Nat], NEW x \in S, NEW n \in Nat
    PROVE  Total([f EXCEPT ![x] = n]) = Total(f) - f[x] + n
<1> DEFINE g == [f EXCEPT ![x] = n]
<1>1. g \in [S -> Nat] /\ g[x] = n
  OBVIOUS
<1>2. Rest(g, x) = Rest(f, x)
  BY DEF Rest
<1>3. Total(f) = Cardinality(Rest(f, x)) + f[x] /\ Cardinality(Rest(f, x)) \in Nat
  BY TotalSplit
<1>4. Total(g) = Cardinality(Rest(g, x)) + g[x]
  <2> HIDE DEF g
  <2>1. QED
    BY <1>1, TotalSplit
<1>5. QED
  BY <1>1, <1>2, <1>3, <1>4

(* No argument exceeds the sum. *)
LEMMA TotalBounds ==
    ASSUME NEW S, IsFiniteSet(S), NEW f \in [S -> Nat], NEW x \in S
    PROVE  f[x] <= Total(f)
BY TotalSplit

(* A function that is nowhere greater has no greater sum. *)
LEMMA TotalMonotone ==
    ASSUME NEW S, IsFiniteSet(S), NEW f \in [S -> Nat], NEW g \in [S -> Nat],
           \A x \in S : f[x] <= g[x]
    PROVE  Total(f) <= Total(g)
<1>1. Units(f) \subseteq Units(g)
  BY DEF Units
<1>2. IsFiniteSet(Units(g))
  BY UnitsFinite
<1>3. QED
  BY <1>1, <1>2, FS_Subset DEF Total

(* The sum of zeros is zero, and only that sum is. *)
LEMMA TotalZero ==
    ASSUME NEW S, IsFiniteSet(S), NEW f \in [S -> Nat], \A x \in S : f[x] = 0
    PROVE  Total(f) = 0
<1>1. Units(f) = {}
  BY DEF Units
<1>2. QED
  BY <1>1, FS_EmptySet DEF Total

(* If no argument exceeds m, the sum is at most m for each argument, and   *)
(* what lies outside x at most m for each of the others.                   *)
LEMMA TotalAtMost ==
    ASSUME NEW S, IsFiniteSet(S), NEW f \in [S -> Nat], NEW m \in Nat,
           \A x \in S : f[x] <= m, NEW x \in S
    PROVE  /\ Cardinality(S) \in Nat \ {0}
           /\ Total(f) <= Cardinality(S) * m
           /\ Cardinality(Rest(f, x)) <= (Cardinality(S) - 1) * m
<1>1. IsFiniteSet(1 .. m) /\ Cardinality(1 .. m) = m
  BY FS_Interval
<1>2. Cardinality(S) \in Nat \ {0}
  BY FS_CardinalityType, FS_EmptySet
<1>3. IsFiniteSet(S \ {x}) /\ Cardinality(S \ {x}) = Cardinality(S) - 1
  BY FS_RemoveElement
<1>4. Total(f) <= Cardinality(S) * m
  <2>1. IsFiniteSet(S \X (1 .. m)) /\ Cardinality(S \X (1 .. m)) = Cardinality(S) * m
    BY <1>1, FS_Product
  <2>2. Units(f) \subseteq S \X (1 .. m)
    BY DEF Units
  <2>3. QED
    BY <2>1, <2>2, FS_Subset DEF Total
<1>5. Cardinality(Rest(f, x)) <= (Cardinality(S) - 1) * m
  <2>1. /\ IsFiniteSet((S \ {x}) \X (1 .. m))
        /\ Cardinality((S \ {x}) \X (1 .. m)) = Cardinality(S \ {x}) * m
    BY <1>1, <1>3, FS_Product
  <2>2. Rest(f, x) \subseteq (S \ {x}) \X (1 .. m)
    BY DEF Rest
  <2>3. QED
    BY <1>3, <2>1, <2>2, FS_Subset
<1>6. QED
  BY <1>2, <1>4, <1>5

(* Moving n from one argument to another leaves the sum as it is.          *)
LEMMA TotalMove ==
    ASSUME NEW S, IsFiniteSet(S), NEW f \in [S -> Nat], NEW a \in S, NEW b \in S, a # b,
           NEW n \in Nat, n <= f[a],
           NEW g \in [S -> Nat], g[a] = f[a] - n, g[b] = f[b] + n,
           \A x \in S : x # a /\ x # b => g[x] = f[x]
    PROVE  Total(g) = Total(f)
<1> DEFINE p == f[a] - n
           q == f[b] + n
           h == [f EXCEPT ![a] = p]
           e == [h EXCEPT ![b] = q]
<1>1. p \in Nat /\ q \in Nat /\ p = f[a] - n /\ q = f[b] + n
  OBVIOUS
<1>2. g = e
  OBVIOUS
<1> HIDE DEF p, q
<1>3. h \in [S -> Nat] /\ h[b] = f[b]
  BY <1>1
<1>4. Total(h) = Total(f) - f[a] + p
  BY <1>1, TotalUpdate
<1>5. Total(e) = Total(h) - h[b] + q
  <2> HIDE DEF h
  <2>1. QED
    BY <1>1, <1>3, TotalUpdate
<1>6. Total(f) \in Nat
  BY TotalType
<1>7. Total(e) = Total(f)
  <2> HIDE DEF h, e
  <2>1. QED
    BY <1>1, <1>3, <1>4, <1>5, <1>6
<1>8. QED
  BY <1>2, <1>7

(* A sum does not depend on what its arguments are called, nor on others   *)
(* that are zero.                                                          *)
LEMMA TotalRename ==
    ASSUME NEW S, IsFiniteSet(S), NEW f \in [S -> Nat], NEW T, NEW g \in [T -> Nat],
           NEW h \in Injection(S, T),
           \A x \in S : g[h[x]] = f[x],
           \A y \in T : (\A x \in S : y # h[x]) => g[y] = 0
    PROVE  Total(g) = Total(f)
<1> DEFINE e == [z \in Units(f) |-> <<h[z[1]], z[2]>>]
<1>1. /\ h \in [S -> T]
      /\ \A x, y \in S : h[x] = h[y] => x = y
  BY DEF Injection, IsInjective
<1>2. ASSUME NEW z
      PROVE  z \in Units(f) <=> \E x \in S : \E i \in 1 .. f[x] : z = <<x, i>>
  BY DEF Units
<1>3. ASSUME NEW z
      PROVE  z \in Units(g) <=> \E y \in T : \E i \in 1 .. g[y] : z = <<y, i>>
  BY DEF Units
<1>4. ASSUME NEW z \in Units(f)
      PROVE  e[z] \in Units(g)
  <2>1. PICK x \in S : \E i \in 1 .. f[x] : z = <<x, i>>
    BY <1>2
  <2>2. PICK i \in 1 .. f[x] : z = <<x, i>>
    BY <2>1
  <2>3. e[z] = <<h[x], i>> /\ h[x] \in T /\ i \in 1 .. g[h[x]]
    BY <1>1, <2>2
  <2>4. QED
    BY <1>3, <2>3
<1>5. ASSUME NEW y \in Units(f), NEW z \in Units(f), e[y] = e[z]
      PROVE  y = z
  <2>1. PICK v \in S : \E i \in 1 .. f[v] : y = <<v, i>>
    BY <1>2
  <2>2. PICK w \in S : \E i \in 1 .. f[w] : z = <<w, i>>
    BY <1>2
  <2>3. y = <<v, y[2]>> /\ z = <<w, z[2]>> /\ h[v] = h[w] /\ y[2] = z[2]
    BY <1>5, <2>1, <2>2
  <2>4. QED
    BY <1>1, <2>3
<1>6. ASSUME NEW z \in Units(g)
      PROVE  \E y \in Units(f) : e[y] = z
  <2>1. PICK y \in T : \E i \in 1 .. g[y] : z = <<y, i>>
    BY <1>3
  <2>2. PICK i \in 1 .. g[y] : z = <<y, i>>
    BY <2>1
  <2>3. PICK x \in S : y = h[x]
    BY <2>2
  <2>4. <<x, i>> \in Units(f) /\ e[<<x, i>>] = z
    BY <1>2, <2>2, <2>3
  <2>5. QED
    BY <2>4
<1>7. e \in Bijection(Units(f), Units(g))
  <2>1. e \in [Units(f) -> Units(g)]
    BY <1>4
  <2> HIDE DEF e
  <2>2. QED
    BY <1>5, <1>6, <2>1 DEF Bijection, Injection, IsInjective, Surjection
<1>8. IsFiniteSet(Units(f))
  BY UnitsFinite
<1>9. QED
  BY <1>7, <1>8, FS_Bijection DEF ExistsBijection, Total
=============================================================================
