---------------------------- MODULE TotalsProofs ----------------------------
(***************************************************************************)
(* Facts about the sums of Totals, for every finite domain.                *)
(***************************************************************************)
EXTENDS Totals, Integers, FiniteSetTheorems, WellFoundedInduction, TLAPS

\* The bytes counted are finitely many: a charge summed over the versions or
\* the entries of a cell (liveCharge, ownerTotal) is a natural number.
THEOREM TotalNat ==
  ASSUME NEW D, IsFiniteSet(D), NEW f \in [D -> Nat]
  PROVE  IsFiniteSet(Units(f)) /\ Total(f) \in Nat
<1> DEFINE part == [x \in D |-> {x} \X (1..f[x])]
           Parts == {{x} \X (1..f[x]) : x \in D}
<1>1. part \in Surjection(D, Parts)
  BY DEF Surjection
<1>2. IsFiniteSet(Parts)
  BY <1>1, FS_Surjection
<1>3. ASSUME NEW T \in Parts
      PROVE  IsFiniteSet(T)
  <2>1. PICK x \in D : T = {x} \X (1..f[x])
    OBVIOUS
  <2>2. f[x] \in Int
    OBVIOUS
  <2>3. IsFiniteSet(1..f[x])
    BY <2>2, FS_Interval
  <2>4. IsFiniteSet({x})
    BY FS_Singleton
  <2>5. QED
    BY <2>1, <2>3, <2>4, FS_Product
<1>4. IsFiniteSet(UNION Parts)
  BY <1>2, <1>3, FS_UNION
<1>5. Units(f) = UNION Parts
  BY DEF Units
<1>6. QED
  BY <1>4, <1>5, FS_CardinalityType DEF Total

\* Changing one of finitely many bytes' counts changes the sum by as much (a
\* reservation or a decision changes an owner's total by one entry).
THEOREM TotalMoves ==
  ASSUME NEW D, NEW f \in [D -> Nat], IsFiniteSet(Units(f)), NEW x \in D, NEW v \in Nat
  PROVE  /\ IsFiniteSet(Units([f EXCEPT ![x] = v])) /\ Total(f) \in Nat
         /\ Total([f EXCEPT ![x] = v]) = Total(f) - f[x] + v
         /\ f[x] <= Total(f)
<1> DEFINE g == [f EXCEPT ![x] = v]
           rest == UNION {{y} \X (1..f[y]) : y \in D \ {x}}
           ofx(n) == {x} \X (1..n)
<1>1. g \in [D -> Nat] /\ g[x] = v /\ \A y \in D \ {x} : g[y] = f[y]
  OBVIOUS
<1>2. /\ Units(f) = rest \union ofx(f[x])
      /\ Units(g) = rest \union ofx(v)
  BY <1>1 DEF Units
<1>3. Total(f) \in Nat
  BY FS_CardinalityType DEF Total
<1>4. IsFiniteSet(rest) /\ Cardinality(rest) \in Nat
  BY <1>2, <1>3, FS_Subset, FS_CardinalityType
<1>5. ASSUME NEW n \in Nat
      PROVE  /\ IsFiniteSet(ofx(n)) /\ Cardinality(ofx(n)) = n
             /\ rest \cap ofx(n) = {}
  <2>1. IsFiniteSet(1..n) /\ Cardinality(1..n) = n
    BY FS_Interval
  <2>2. IsFiniteSet({x}) /\ Cardinality({x}) = 1
    BY FS_Singleton
  <2>3. IsFiniteSet(ofx(n)) /\ Cardinality(ofx(n)) = Cardinality({x}) * Cardinality(1..n)
    BY <2>1, <2>2, FS_Product
  <2>4. rest \cap ofx(n) = {}
    OBVIOUS
  <2>5. QED
    BY <2>1, <2>2, <2>3, <2>4
<1>6. ASSUME NEW n \in Nat
      PROVE  Cardinality(rest \union ofx(n)) = Cardinality(rest) + n
  <2>1. Cardinality(rest \union ofx(n))
          = Cardinality(rest) + Cardinality(ofx(n)) - Cardinality(rest \cap ofx(n))
    BY <1>4, <1>5, FS_Union
  <2>2. Cardinality(rest \cap ofx(n)) = 0
    BY <1>5, FS_EmptySet
  <2>3. Cardinality(ofx(n)) = n
    BY <1>5
  <2> HIDE DEF ofx, rest
  <2>4. QED
    BY <1>4, <2>1, <2>2, <2>3
<1>7. f[x] \in Nat
  OBVIOUS
<1>8. Total(f) = Cardinality(rest) + f[x] /\ Total(g) = Cardinality(rest) + v
  BY <1>2, <1>6, <1>7 DEF Total
<1>9. IsFiniteSet(Units(g))
  <2>1. IsFiniteSet(ofx(v))
    BY <1>5
  <2> HIDE DEF ofx, rest, g
  <2>2. QED
    BY <1>2, <1>4, <2>1, FS_Union
<1>10. QED
  BY <1>3, <1>4, <1>7, <1>8, <1>9

\* Changing one count changes the sum by as much (a put changes a room's bytes
\* by one value, a decision an app's total by one room).
THEOREM TotalUpdate ==
  ASSUME NEW D, IsFiniteSet(D), NEW f \in [D -> Nat], NEW x \in D, NEW v \in Nat
  PROVE  /\ Total([f EXCEPT ![x] = v]) = Total(f) - f[x] + v
         /\ f[x] <= Total(f)
BY TotalNat, TotalMoves

\* Nothing counted sums to nothing.
THEOREM TotalZero ==
  ASSUME NEW D
  PROVE  Total([x \in D |-> 0]) = 0
<1>1. Units([x \in D |-> 0]) = {}
  BY DEF Units
<1>2. QED
  BY <1>1, FS_EmptySet DEF Total

\* The sum over two sets that share nothing is the sum of their sums (the
\* objects two versions hold, the charges of the versions kept).
THEOREM TotalUnion ==
  ASSUME NEW A, NEW B, IsFiniteSet(A), IsFiniteSet(B), A \cap B = {}, NEW C, C = A \union B,
         NEW f \in [C -> Nat], NEW g \in [A -> Nat], NEW h \in [B -> Nat],
         \A x \in A : f[x] = g[x], \A x \in B : f[x] = h[x]
  PROVE  Total(f) = Total(g) + Total(h)
<1>2. Units(f) = Units(g) \union Units(h) /\ Units(g) \cap Units(h) = {}
  BY DEF Units
<1>3. /\ IsFiniteSet(Units(g)) /\ Cardinality(Units(g)) \in Nat
      /\ IsFiniteSet(Units(h)) /\ Cardinality(Units(h)) \in Nat
  BY TotalNat DEF Total
<1>4. Cardinality(Units(f)) = Cardinality(Units(g)) + Cardinality(Units(h)) - Cardinality(Units(g) \cap Units(h))
  BY <1>2, <1>3, FS_Union
<1>5. Cardinality(Units(g) \cap Units(h)) = 0
  BY <1>2, FS_EmptySet
<1>6. QED
  BY <1>3, <1>4, <1>5 DEF Total

\* The sum over one item is its count.
THEOREM TotalOne ==
  ASSUME NEW x, NEW f \in [{x} -> Nat]
  PROVE  Total(f) = f[x]
<1> DEFINE zero == [y \in {x} |-> 0]
<1>1. zero \in [{x} -> Nat] /\ x \in {x} /\ IsFiniteSet({x})
  BY FS_Singleton
<1>2. Total(zero) = 0
  BY TotalZero
<1> DEFINE n == f[x]
<1>3. f = [zero EXCEPT ![x] = n] /\ zero[x] = 0
  OBVIOUS
<1>n. n \in Nat
  OBVIOUS
<1> HIDE DEF zero, n
<1>4. Total([zero EXCEPT ![x] = n]) = Total(zero) - zero[x] + n
  BY <1>1, <1>n, TotalUpdate
<1>5. Total(f) = n
  BY <1>2, <1>3, <1>4
<1>6. QED
  BY <1>5 DEF n

\* A set of numbers that is not empty has a lowest one (the next key of an
\* image, the next entry of a scan, the next instant of an alarm).
THEOREM LowestExists ==
  ASSUME NEW S \in SUBSET Nat, S # {}
  PROVE  \E i \in S : \A j \in S : i <= j
<1>1. PICK R : IsWellFoundedOn(R, Nat) /\ \A y, z \in Nat : y < z => <<y, z>> \in R
  <2>1. \A y, z \in Nat : y < z => <<y, z>> \in OpToRel(<, Nat)
    BY Zenon DEF OpToRel
  <2>2. QED
    BY <2>1, NatLessThanWellFounded, Zenon
<1>2. PICK x \in S : \A y \in S : ~(<<y, x>> \in R)
  <2>1. IsWellFoundedOn(R, Nat)
    BY <1>1
  <2>2. ASSUME NEW U, U \subseteq Nat, U # {}
        PROVE  \E z \in U : \A y \in U : ~(<<y, z>> \in R)
    BY <2>1, <2>2, WFMin, Zenon
  <2>3. QED
    BY <2>2, Zenon
<1>3. \A y \in S : ~(y < x)
  BY <1>1, <1>2, Zenon
<1>4. QED
  BY <1>2, <1>3

\* A set of version numbers has a newest one, so what servedOf picks exists.
THEOREM NewestExists ==
  ASSUME NEW n \in Nat, NEW S \in SUBSET (1..n), S # {}
  PROVE  \E i \in S : \A j \in S : j <= i
<1> DEFINE T == {n - i : i \in S}
<1>1. T \in SUBSET Nat /\ T # {}
  <2>1. \A i \in S : n - i \in Nat
    OBVIOUS
  <2>2. \E i \in S : n - i \in T
    BY Zenon
  <2>3. QED
    BY <2>1, <2>2, Zenon
<1>2. PICK x \in T : \A y \in T : x <= y
  BY <1>1, LowestExists
<1>3. PICK i \in S : x = n - i
  OBVIOUS
<1>4. ASSUME NEW j \in S
      PROVE  j <= i
  <2>1. n - j \in T
    OBVIOUS
  <2>2. x <= n - j
    BY <1>2, <2>1
  <2>3. QED
    BY <1>3, <2>2
<1>5. QED
  BY <1>4
=============================================================================
