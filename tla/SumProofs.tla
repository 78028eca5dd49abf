------------------------------- MODULE SumProofs -------------------------------
(***************************************************************************)
(* Facts about finite sums, for any finite set and any natural summands.   *)
(* MapThenSumSet adds the elements in the order CHOOSE takes them, by a    *)
(* function that is defined by recursion over the subsets: it is shown to  *)
(* exist, and the order not to matter.  Induction is stated over a set of  *)
(* numbers, or of sets, in place of a predicate.                           *)
(***************************************************************************)
EXTENDS Sums, FiniteSetTheorems, TLAPS

--------------------------------------------------------------------------------
(* Induction                                                                *)

\* A set of naturals that is not empty has a least element.
LEMMA LeastExists ==
  ASSUME NEW S \in SUBSET Nat, S # {}
  PROVE  \E n \in S : \A k \in S : n <= k
<1>1. PICK n \in S : \A k \in S : ~ (<<k, n>> \in OpToRel(<, Nat))
  BY NatLessThanWellFounded, WFMin, Zenon
<1>2. \A k \in S : ~ (k < n)
  BY <1>1 DEF OpToRel
<1> QED
  BY <1>2

\* Mathematical induction.
LEMMA Induction ==
  ASSUME NEW P, 0 \in P, \A n \in Nat : n \in P => n + 1 \in P
  PROVE  Nat \subseteq P
<1> SUFFICES ASSUME Nat \ P # {} PROVE FALSE
  OBVIOUS
<1>1. PICK n \in Nat \ P : \A k \in Nat \ P : n <= k
  BY LeastExists
<1>2. n # 0 /\ n - 1 \in Nat
  BY <1>1
<1>3. n - 1 \in P
  BY <1>1, <1>2
<1> QED
  BY <1>1, <1>2, <1>3

\* The subsets of a finite set, and what is left of one without an element.
LEMMA Smaller ==
  ASSUME NEW S, IsFiniteSet(S), NEW T \in SUBSET S
  PROVE  /\ IsFiniteSet(T) /\ Cardinality(T) \in Nat
         /\ \A x \in T : T \ {x} \in SUBSET S /\ Cardinality(T) = Cardinality(T \ {x}) + 1
                         /\ Cardinality(T \ {x}) \in Nat
<1>1. IsFiniteSet(T)
  BY FS_Subset
<1>2. ASSUME NEW x \in T
      PROVE  /\ T \ {x} \in SUBSET S /\ Cardinality(T) = Cardinality(T \ {x}) + 1
             /\ Cardinality(T \ {x}) \in Nat
  <2>1. IsFiniteSet(T \ {x}) /\ Cardinality(T \ {x}) = Cardinality(T) - 1
    BY <1>1, <1>2, FS_RemoveElement
  <2> QED
    BY <1>1, <2>1, FS_CardinalityType
<1> QED
  BY <1>1, <1>2, FS_CardinalityType

\* Induction over a finite set, an element at a time.
LEMMA FiniteInduction ==
  ASSUME NEW S, IsFiniteSet(S), NEW P, {} \in P,
         \A T \in SUBSET S : \A x \in S \ T : T \in P => T \cup {x} \in P
  PROVE  S \in P
<1> DEFINE N == {n \in Nat : \A T \in SUBSET S : Cardinality(T) = n => T \in P}
<1>1. 0 \in N
  BY Smaller, FS_EmptySet
<1>2. ASSUME NEW n \in Nat, n \in N PROVE n + 1 \in N
  <2>1. ASSUME NEW T \in SUBSET S, Cardinality(T) = n + 1 PROVE T \in P
    <3>1. T # {}
      BY <2>1, Smaller, FS_EmptySet
    <3>2. PICK x : x \in T
      BY <3>1
    <3> DEFINE U == T \ {x}
    <3>3. U \in SUBSET S /\ Cardinality(U) = n
      BY <2>1, <3>2, Smaller
    <3>4. x \in S \ U /\ U \cup {x} = T
      BY <3>2
    <3>5. U \in P
      BY <1>2, <3>3
    <3> HIDE DEF U
    <3>6. U \cup {x} \in P
      BY <3>3, <3>4, <3>5
    <3> QED
      BY <3>4, <3>6
  <2> QED
    BY <2>1
<1>3. Nat \subseteq N
  <2> HIDE DEF N
  <2> QED
    BY <1>1, <1>2, Induction
<1> QED
  BY <1>3, FS_CardinalityType

--------------------------------------------------------------------------------
(* Sums                                                                     *)

\* The elements are added in the order CHOOSE takes them.
Pick(T) == CHOOSE x \in T : TRUE
Summed(f, g, T) == IF T = {} THEN 0 ELSE f[Pick(T)] + g[T \ {Pick(T)}]
Summing(f, S, g) == g = [T \in SUBSET S |-> Summed(f, g, T)]
Table(f, S) == CHOOSE g : Summing(f, S, g)

\* MapThenSumSet, without its helpers.
LEMMA SumIsTable ==
  ASSUME NEW f, NEW S
  PROVE  SumOver(f, S) = Table(f, S)[S]
BY DEF SumOver, MapThenSumSet, MapThenFoldSet, Table, Summing, Summed, Pick

LEMMA Picked ==
  ASSUME NEW T, T # {}
  PROVE  Pick(T) \in T
BY DEF Pick

\* There is such a function: it is built up by the size of the subsets.
LEMMA TableExists ==
  ASSUME NEW S, IsFiniteSet(S), NEW f
  PROVE  \A T \in SUBSET S : Table(f, S)[T] = Summed(f, Table(f, S), T)
<1> DEFINE Upto(n, g) ==
             \A T \in SUBSET S : Cardinality(T) <= n => g[T] = Summed(f, g, T)
           P == {n \in Nat : \E g : g = [T \in SUBSET S |-> g[T]] /\ Upto(n, g)}
<1>1. 0 \in P
  <2> DEFINE g == [T \in SUBSET S |-> 0]
  <2>1. ASSUME NEW T \in SUBSET S, Cardinality(T) <= 0 PROVE T = {}
    <3>1. IsFiniteSet(T) /\ Cardinality(T) \in Nat
      BY Smaller
    <3> QED
      BY <2>1, <3>1, FS_EmptySet
  <2>2. Upto(0, g)
    BY <2>1 DEF Summed
  <2>3. g = [T \in SUBSET S |-> g[T]]
    OBVIOUS
  <2> HIDE DEF g
  <2> QED
    BY <2>2, <2>3
<1>2. ASSUME NEW n \in Nat, n \in P PROVE n + 1 \in P
  <2>1. PICK g : g = [T \in SUBSET S |-> g[T]] /\ Upto(n, g)
    BY <1>2
  <2>2. Upto(n, g)
    BY <2>1
  <2> DEFINE h == [T \in SUBSET S |-> IF Cardinality(T) = n + 1 THEN Summed(f, g, T) ELSE g[T]]
  <2>3. ASSUME NEW T \in SUBSET S, Cardinality(T) <= n + 1 PROVE h[T] = Summed(f, h, T)
    <3>1. CASE T = {}
      <4>1. Cardinality(T) = 0
        BY <3>1, FS_EmptySet
      <4>2. h[T] = g[T]
        BY <4>1
      <4>3. g[T] = Summed(f, g, T)
        BY <2>2, <4>1
      <4> QED
        BY <3>1, <4>2, <4>3 DEF Summed
    <3>2. CASE T # {}
      <4> DEFINE U == T \ {Pick(T)}
      <4>1. U \in SUBSET S /\ Cardinality(T) = Cardinality(U) + 1 /\ Cardinality(U) \in Nat
        BY <3>2, Picked, Smaller
      <4>2. h[U] = g[U]
        BY <2>3, <4>1
      <4>3. Summed(f, h, T) = Summed(f, g, T)
        BY <3>2, <4>2 DEF Summed
      <4>4. CASE Cardinality(T) = n + 1
        <5>1. h[T] = Summed(f, g, T)
          BY <4>4
        <5> QED
          BY <4>3, <5>1
      <4>5. CASE Cardinality(T) # n + 1
        <5>1. Cardinality(T) <= n
          BY <2>3, <4>1, <4>5
        <5>2. h[T] = g[T] /\ g[T] = Summed(f, g, T)
          BY <2>2, <4>5, <5>1
        <5> QED
          BY <4>3, <5>2
      <4> QED
        BY <4>4, <4>5
    <3> QED
      BY <3>1, <3>2
  <2> HIDE DEF h
  <2>4. h = [T \in SUBSET S |-> h[T]]
    BY DEF h
  <2>5. Upto(n + 1, h)
    BY <2>3
  <2>6. n + 1 \in Nat
    OBVIOUS
  <2> HIDE DEF Upto
  <2> QED
    BY <2>4, <2>5, <2>6, Zenon
<1>3. Nat \subseteq P
  <2> HIDE DEF P
  <2> QED
    BY <1>1, <1>2, Induction
<1>4. PICK g : g = [T \in SUBSET S |-> g[T]] /\ Upto(Cardinality(S), g)
  BY <1>3, FS_CardinalityType
<1>5. \A T \in SUBSET S : g[T] = Summed(f, g, T)
  BY <1>4, FS_Subset
<1>6. Summing(f, S, g)
  BY <1>4, <1>5 DEF Summing
<1>7. Summing(f, S, Table(f, S))
  BY <1>6 DEF Table
<1>8. ASSUME NEW h, Summing(f, S, h) PROVE \A T \in SUBSET S : h[T] = Summed(f, h, T)
  BY <1>8, Zenon DEF Summing
<1> QED
  BY <1>7, <1>8


\* A sum over a part can be read off the table of the whole.
LEMMA SumInTable ==
  ASSUME NEW S, IsFiniteSet(S), NEW f, \A x \in S : f[x] \in Nat, NEW U \in SUBSET S
  PROVE  Table(f, S)[U] = SumOver(f, U) /\ SumOver(f, U) \in Nat
<1> DEFINE Agree(T) == Table(f, S)[T] \in Nat /\ (T \subseteq U => Table(f, S)[T] = Table(f, U)[T])
           P == {n \in Nat : \A T \in SUBSET S : Cardinality(T) = n => Agree(T)}
<1>1. \A T \in SUBSET S : Table(f, S)[T] = Summed(f, Table(f, S), T)
  BY TableExists
<1>2. \A T \in SUBSET U : Table(f, U)[T] = Summed(f, Table(f, U), T)
  BY TableExists, FS_Subset
<1>3. ASSUME NEW T \in SUBSET S, T = {} PROVE Agree(T)
  <2>1. Table(f, S)[T] = 0
    BY <1>1, <1>3 DEF Summed
  <2>2. Table(f, U)[T] = 0
    BY <1>2, <1>3 DEF Summed
  <2> QED
    BY <2>1, <2>2
<1>4. ASSUME NEW T \in SUBSET S, T # {}, Agree(T \ {Pick(T)}) PROVE Agree(T)
  <2>1. Pick(T) \in T /\ f[Pick(T)] \in Nat
    BY <1>4, Picked
  <2>2. Table(f, S)[T] = f[Pick(T)] + Table(f, S)[T \ {Pick(T)}]
    BY <1>1, <1>4 DEF Summed
  <2>3. T \subseteq U => Table(f, U)[T] = f[Pick(T)] + Table(f, U)[T \ {Pick(T)}]
    BY <1>2, <1>4 DEF Summed
  <2> QED
    BY <1>4, <2>1, <2>2, <2>3
<1> HIDE DEF Agree
<1>5. 0 \in P
  BY <1>3, Smaller, FS_EmptySet
<1>6. ASSUME NEW n \in Nat, n \in P PROVE n + 1 \in P
  <2>1. ASSUME NEW T \in SUBSET S, Cardinality(T) = n + 1 PROVE Agree(T)
    <3>1. T # {}
      BY <2>1, FS_EmptySet
    <3>2. T \ {Pick(T)} \in SUBSET S /\ Cardinality(T \ {Pick(T)}) = n
      BY <2>1, <3>1, Picked, Smaller
    <3> QED
      BY <1>4, <1>6, <3>1, <3>2
  <2> QED
    BY <2>1
<1>7. Nat \subseteq P
  <2> HIDE DEF P
  <2> QED
    BY <1>5, <1>6, Induction
<1>8. \A T \in SUBSET S : Agree(T)
  BY <1>7, Smaller
<1> QED
  BY <1>8, SumIsTable DEF Agree

\* Nothing adds up to 0.
LEMMA SumOfNone ==
  ASSUME NEW f
  PROVE  SumOver(f, {}) = 0
<1>1. Table(f, {})[{}] = Summed(f, Table(f, {}), {})
  BY TableExists, FS_EmptySet
<1> QED
  BY <1>1, SumIsTable DEF Summed

\* The order in which CHOOSE takes the elements does not matter.
LEMMA SumWithout ==
  ASSUME NEW S, IsFiniteSet(S), NEW f, \A x \in S : f[x] \in Nat, NEW x \in S
  PROVE  SumOver(f, S) = f[x] + SumOver(f, S \ {x})
<1> DEFINE Splits(T) == \A y \in T : SumOver(f, T) = f[y] + SumOver(f, T \ {y})
           P == {n \in Nat : \A T \in SUBSET S : Cardinality(T) = n => Splits(T)}
<1>1. \A T \in SUBSET S : SumOver(f, T) \in Nat
  BY SumInTable
<1>2. ASSUME NEW T \in SUBSET S, T # {}
      PROVE  Pick(T) \in T /\ SumOver(f, T) = f[Pick(T)] + SumOver(f, T \ {Pick(T)})
  <2>1. IsFiniteSet(T) /\ \A y \in T : f[y] \in Nat
    BY FS_Subset
  <2>2. SumOver(f, T) = Summed(f, Table(f, T), T)
    BY <2>1, TableExists, SumIsTable
  <2>3. Table(f, T)[T \ {Pick(T)}] = SumOver(f, T \ {Pick(T)})
    BY <2>1, SumInTable
  <2> QED
    BY <1>2, <2>2, <2>3, Picked DEF Summed
<1>3. ASSUME NEW T \in SUBSET S, \A y \in T : Splits(T \ {y}) PROVE Splits(T)
  <2> SUFFICES ASSUME NEW y \in T PROVE SumOver(f, T) = f[y] + SumOver(f, T \ {y})
    OBVIOUS
  <2> DEFINE c == Pick(T)
  <2>1. c \in T /\ SumOver(f, T) = f[c] + SumOver(f, T \ {c})
    BY <1>2
  <2>2. CASE y = c
    BY <2>1, <2>2
  <2>3. CASE y # c
    <3>1. SumOver(f, T \ {c}) = f[y] + SumOver(f, (T \ {c}) \ {y})
      BY <1>3, <2>1, <2>3
    <3>2. SumOver(f, T \ {y}) = f[c] + SumOver(f, (T \ {y}) \ {c})
      BY <1>3, <2>1, <2>3
    <3>3. (T \ {c}) \ {y} = (T \ {y}) \ {c}
      OBVIOUS
    <3>4. f[c] \in Nat /\ f[y] \in Nat /\ SumOver(f, (T \ {c}) \ {y}) \in Nat
      BY <1>1, <2>1
    <3> HIDE DEF c
    <3> QED
      BY <2>1, <3>1, <3>2, <3>3, <3>4
  <2> QED
    BY <2>2, <2>3
<1> HIDE DEF Splits
<1>4. 0 \in P
  BY Smaller, FS_EmptySet DEF Splits
<1>5. ASSUME NEW n \in Nat, n \in P PROVE n + 1 \in P
  <2>1. ASSUME NEW T \in SUBSET S, Cardinality(T) = n + 1, NEW y \in T PROVE Splits(T \ {y})
    <3>1. /\ T \ {y} \in SUBSET S /\ Cardinality(T) = Cardinality(T \ {y}) + 1
          /\ Cardinality(T \ {y}) \in Nat
      BY Smaller
    <3>2. Cardinality(T \ {y}) = n
      BY <2>1, <3>1
    <3> QED
      BY <1>5, <3>1, <3>2
  <2> QED
    BY <1>3, <2>1
<1>6. Nat \subseteq P
  <2> HIDE DEF P
  <2> QED
    BY <1>4, <1>5, Induction
<1>7. Splits(S)
  BY <1>6, FS_CardinalityType
<1> QED
  BY <1>7 DEF Splits

\* A sum of naturals is a natural.
LEMMA SumIsNat ==
  ASSUME NEW S, IsFiniteSet(S), NEW f, \A x \in S : f[x] \in Nat
  PROVE  SumOver(f, S) \in Nat
BY SumInTable

\* A further summand.
LEMMA SumAdded ==
  ASSUME NEW S, IsFiniteSet(S), NEW f, \A y \in S : f[y] \in Nat,
         NEW x, x \notin S, f[x] \in Nat
  PROVE  SumOver(f, S \cup {x}) = f[x] + SumOver(f, S)
<1>1. IsFiniteSet(S \cup {x})
  BY FS_AddElement
<1>2. (S \cup {x}) \ {x} = S
  OBVIOUS
<1> QED
  BY <1>1, <1>2, SumWithout

\* Sums compare as their summands do.
LEMMA SumMonotone ==
  ASSUME NEW S, IsFiniteSet(S), NEW f, NEW g,
         \A x \in S : f[x] \in Nat /\ g[x] \in Nat /\ f[x] <= g[x]
  PROVE  SumOver(f, S) <= SumOver(g, S)
<1> DEFINE P == {T \in SUBSET S : SumOver(f, T) <= SumOver(g, T)}
<1>1. {} \in P
  BY SumOfNone
<1>2. ASSUME NEW T \in SUBSET S, NEW x \in S \ T, T \in P PROVE T \cup {x} \in P
  <2>1. IsFiniteSet(T)
    BY FS_Subset
  <2>2. /\ SumOver(f, T \cup {x}) = f[x] + SumOver(f, T)
        /\ SumOver(g, T \cup {x}) = g[x] + SumOver(g, T)
    BY <2>1, SumAdded
  <2>3. SumOver(f, T) \in Nat /\ SumOver(g, T) \in Nat
    BY <2>1, SumIsNat
  <2> QED
    BY <1>2, <2>2, <2>3
<1> HIDE DEF P
<1>3. S \in P
  BY <1>1, <1>2, FiniteInduction
<1> QED
  BY <1>3 DEF P

\* Only the summands matter.
LEMMA SumSame ==
  ASSUME NEW S, IsFiniteSet(S), NEW f, NEW g,
         \A x \in S : f[x] \in Nat /\ f[x] = g[x]
  PROVE  SumOver(f, S) = SumOver(g, S)
<1>1. SumOver(f, S) <= SumOver(g, S) /\ SumOver(g, S) <= SumOver(f, S)
  BY SumMonotone
<1> QED
  BY <1>1, SumIsNat

\* A sum over two parts.
LEMMA SumOfParts ==
  ASSUME NEW S, IsFiniteSet(S), NEW T, IsFiniteSet(T), S \cap T = {},
         NEW f, \A x \in S \cup T : f[x] \in Nat
  PROVE  SumOver(f, S \cup T) = SumOver(f, S) + SumOver(f, T)
<1> DEFINE P == {U \in SUBSET T : SumOver(f, S \cup U) = SumOver(f, S) + SumOver(f, U)}
<1>1. {} \in P
  <2>1. S \cup {} = S
    OBVIOUS
  <2> QED
    BY <2>1, SumOfNone, SumIsNat
<1>2. ASSUME NEW U \in SUBSET T, NEW x \in T \ U, U \in P PROVE U \cup {x} \in P
  <2> DEFINE V == U \cup {x}
             W == S \cup U
  <2>1. IsFiniteSet(U) /\ IsFiniteSet(W)
    BY FS_Subset, FS_Union
  <2>2. x \notin W /\ S \cup V = W \cup {x} /\ V \in SUBSET T
    BY <1>2
  <2>3. SumOver(f, V) = f[x] + SumOver(f, U)
    BY <2>1, SumAdded
  <2>4. SumOver(f, W) \in Nat /\ SumOver(f, S) \in Nat /\ SumOver(f, U) \in Nat
    BY <2>1, SumIsNat
  <2>5. SumOver(f, W) = SumOver(f, S) + SumOver(f, U)
    BY <1>2
  <2>6. \A y \in W : f[y] \in Nat
    OBVIOUS
  <2> HIDE DEF V, W
  <2>7. SumOver(f, W \cup {x}) = f[x] + SumOver(f, W)
    BY <2>1, <2>2, <2>6, SumAdded
  <2>8. SumOver(f, S \cup V) = SumOver(f, S) + SumOver(f, V)
    BY <2>2, <2>3, <2>4, <2>5, <2>7
  <2>9. V \in P
    BY <2>2, <2>8
  <2> QED
    BY <2>9 DEF V
<1> HIDE DEF P
<1>3. T \in P
  BY <1>1, <1>2, FiniteInduction
<1> QED
  BY <1>3 DEF P

\* A part adds up to no more than the whole.
LEMMA SumOfPart ==
  ASSUME NEW S, IsFiniteSet(S), NEW f, \A x \in S : f[x] \in Nat, NEW T \in SUBSET S
  PROVE  SumOver(f, T) <= SumOver(f, S)
<1>1. IsFiniteSet(T) /\ IsFiniteSet(S \ T) /\ T \cup (S \ T) = S
  BY FS_Subset
<1>2. SumOver(f, S) = SumOver(f, T) + SumOver(f, S \ T)
  BY <1>1, SumOfParts
<1>3. SumOver(f, T) \in Nat /\ SumOver(f, S \ T) \in Nat
  BY <1>1, SumIsNat
<1> QED
  BY <1>2, <1>3

\* Summands of 0 do not count.
LEMMA SumOfZeros ==
  ASSUME NEW S, IsFiniteSet(S), NEW f, \A x \in S : f[x] = 0
  PROVE  SumOver(f, S) = 0
<1> DEFINE P == {T \in SUBSET S : SumOver(f, T) = 0}
<1>1. {} \in P
  BY SumOfNone
<1>2. ASSUME NEW T \in SUBSET S, NEW x \in S \ T, T \in P PROVE T \cup {x} \in P
  <2>1. IsFiniteSet(T)
    BY FS_Subset
  <2>2. SumOver(f, T \cup {x}) = f[x] + SumOver(f, T)
    BY <2>1, SumAdded
  <2> QED
    BY <1>2, <2>2
<1> HIDE DEF P
<1>3. S \in P
  BY <1>1, <1>2, FiniteInduction
<1> QED
  BY <1>3 DEF P

\* A single summand.
LEMMA SumOfOne ==
  ASSUME NEW f, NEW x, f[x] \in Nat
  PROVE  SumOver(f, {x}) = f[x]
<1>1. SumOver(f, {} \cup {x}) = f[x] + SumOver(f, {})
  BY SumAdded, FS_EmptySet
<1>2. {} \cup {x} = {x}
  OBVIOUS
<1> QED
  BY <1>1, <1>2, SumOfNone

\* D falls into groups: k[i] is the number of the group of i, B[p] is group p.
Grouped(D, P, k, B) ==
  /\ \A i \in D : k[i] \in P /\ i \in B[k[i]]
  /\ \A p \in P : B[p] \subseteq D /\ IsFiniteSet(B[p]) /\ \A i \in B[p] : k[i] = p

\* A sum by groups: g[p] is the sum of group p.
LEMMA SumOfGroups ==
  ASSUME NEW P, IsFiniteSet(P), NEW D, NEW k, NEW B, Grouped(D, P, k, B),
         NEW f, \A i \in D : f[i] \in Nat,
         NEW g, \A p \in P : g[p] = SumOver(f, B[p])
  PROVE  IsFiniteSet(D) /\ SumOver(f, D) = SumOver(g, P)
<1> USE DEF Grouped
<1> DEFINE In(Q) == {i \in D : k[i] \in Q}
           A == {Q \in SUBSET P : IsFiniteSet(In(Q)) /\ SumOver(f, In(Q)) = SumOver(g, Q)}
<1>1. {} \in A
  <2>1. In({}) = {}
    OBVIOUS
  <2> QED
    BY <2>1, SumOfNone, FS_EmptySet
<1>2. \A p \in P : g[p] \in Nat
  <2> SUFFICES ASSUME NEW p \in P PROVE g[p] \in Nat
    OBVIOUS
  <2> DEFINE G == B[p]
  <2>1. IsFiniteSet(G) /\ g[p] = SumOver(f, G) /\ \A i \in G : f[i] \in Nat
    OBVIOUS
  <2> HIDE DEF G
  <2> QED
    BY <2>1, SumIsNat
<1>3. ASSUME NEW Q \in SUBSET P, NEW p \in P \ Q, Q \in A PROVE Q \cup {p} \in A
  <2>1. PICK G : G = B[p]
    OBVIOUS
  <2>2. PICK H : H = In(Q)
    OBVIOUS
  <2>3. IsFiniteSet(G) /\ g[p] = SumOver(f, G)
    BY <2>1
  <2>4. IsFiniteSet(H) /\ SumOver(f, H) = SumOver(g, Q)
    BY <2>2, <1>3
  <2>5. PICK I : I = H \cup G
    OBVIOUS
  <2>6. I = In(Q \cup {p})
    BY <2>1, <2>2, <2>5
  <2>7. G \cap H = {} /\ (\A i \in H \cup G : f[i] \in Nat)
    BY <2>1, <2>2
  <2> HIDE DEF In, A
  <2>8. IsFiniteSet(I)
    BY <2>3, <2>4, <2>5, FS_Union
  <2>9. SumOver(f, H \cup G) = SumOver(f, H) + SumOver(f, G)
    BY ONLY <2>3, <2>4, <2>7, SumOfParts
  <2>10. IsFiniteSet(Q)
    BY FS_Subset
  <2>11. SumOver(g, Q \cup {p}) = g[p] + SumOver(g, Q)
    BY <2>10, <1>2, SumAdded
  <2>12. SumOver(g, Q) \in Nat /\ g[p] \in Nat
    BY <2>10, <1>2, SumIsNat
  <2>13. SumOver(f, I) = SumOver(g, Q \cup {p})
    BY <2>3, <2>4, <2>5, <2>9, <2>11, <2>12
  <2>14. Q \cup {p} \in SUBSET P
    OBVIOUS
  <2> QED
    BY <2>6, <2>8, <2>13, <2>14 DEF A
<1> HIDE DEF A
<1>4. P \in A
  BY <1>1, <1>3, FiniteInduction
<1>5. In(P) = D
  OBVIOUS
<1> QED
  BY <1>4, <1>5 DEF A

\* b renames T to D, and k goes back.
Renamed(D, T, k, b) ==
  /\ \A i \in D : k[i] \in T /\ b[k[i]] = i
  /\ \A t \in T : b[t] \in D /\ k[b[t]] = t

\* A sum with its summands renamed.
LEMMA SumRenamed ==
  ASSUME NEW T, IsFiniteSet(T), NEW D, NEW k, NEW b, Renamed(D, T, k, b),
         NEW f, NEW h, \A t \in T : h[t] \in Nat /\ f[b[t]] = h[t]
  PROVE  IsFiniteSet(D) /\ SumOver(f, D) = SumOver(h, T)
<1> USE DEF Renamed
<1>1. PICK B : B = [t \in T |-> {b[t]}]
  OBVIOUS
<1>2. \A t \in T : IsFiniteSet({b[t]}) /\ SumOver(f, {b[t]}) = h[t]
  <2> SUFFICES ASSUME NEW t \in T PROVE IsFiniteSet({b[t]}) /\ SumOver(f, {b[t]}) = h[t]
    OBVIOUS
  <2>1. PICK i : i = b[t]
    OBVIOUS
  <2>2. f[i] \in Nat /\ f[i] = h[t]
    BY <2>1
  <2>3. SumOver(f, {i}) = f[i]
    BY <2>2, SumOfOne
  <2>4. IsFiniteSet({i})
    BY FS_Singleton
  <2> QED
    BY <2>1, <2>2, <2>3, <2>4
<1>3. \A i \in D : f[i] \in Nat
  OBVIOUS
<1>4. \A i \in D : k[i] \in T /\ i \in B[k[i]]
  BY <1>1
<1>5. \A t \in T : B[t] \subseteq D /\ IsFiniteSet(B[t]) /\ \A i \in B[t] : k[i] = t
  BY <1>1, <1>2
<1>6. \A t \in T : h[t] = SumOver(f, B[t])
  BY <1>1, <1>2
<1>7. Grouped(D, T, k, B)
  BY <1>4, <1>5 DEF Grouped
<1> QED
  BY <1>3, <1>6, <1>7, SumOfGroups

--------------------------------------------------------------------------------
(* Maxima and minima                                                        *)

\* A finite set of integers that is not empty has a greatest element.
LEMMA GreatestExists ==
  ASSUME NEW S \in SUBSET Int, IsFiniteSet(S), S # {}
  PROVE  \E n \in S : \A k \in S : n >= k
<1> DEFINE P == {T \in SUBSET S : T # {} => \E n \in T : \A k \in T : n >= k}
<1>1. {} \in P
  OBVIOUS
<1>2. ASSUME NEW T \in SUBSET S, NEW x \in S \ T, T \in P PROVE T \cup {x} \in P
  <2>1. CASE T = {}
    BY <2>1
  <2>2. CASE T # {}
    <3>1. PICK n \in T : \A k \in T : n >= k
      BY <1>2, <2>2
    <3>2. CASE n >= x
      BY <3>1, <3>2
    <3>3. CASE ~ (n >= x)
      <4>1. \A k \in T : x >= k
        BY <3>1, <3>3
      <4> QED
        BY <4>1
    <3> QED
      BY <3>2, <3>3
  <2> QED
    BY <2>1, <2>2
<1> HIDE DEF P
<1>3. S \in P
  BY <1>1, <1>2, FiniteInduction
<1> QED
  BY <1>3 DEF P

LEMMA MaxIsGreatest ==
  ASSUME NEW S \in SUBSET Int, IsFiniteSet(S), S # {}
  PROVE  Max(S) \in S /\ \A k \in S : Max(S) >= k
BY GreatestExists DEF Max

LEMMA MinIsLeast ==
  ASSUME NEW S \in SUBSET Nat, S # {}
  PROVE  Min(S) \in S /\ \A k \in S : Min(S) <= k
BY LeastExists DEF Min
================================================================================
