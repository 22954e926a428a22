----------------------------- MODULE ArrayProofs -----------------------------
(***************************************************************************)
(* The invariant of lists and of the arrays below them, and that lists     *)
(* implement Lists: first what functions of avm_array.cpp do to an array   *)
(* that holds a sequence, then each method, then sorting.                  *)
(***************************************************************************)
EXTENDS ArraysInv, SeqProofs, FiniteSetTheorems

-----------------------------------------------------------------------------
(***************************************************************************)
(* Finite sets and sums.                                                   *)
(***************************************************************************)
Some(s) == CHOOSE x \in s : TRUE
LEMMA SomeIn == ASSUME NEW s, s # {} PROVE Some(s) \in s
BY DEF Some

LEMMA SmallerSet ==
  ASSUME NEW S, IsFiniteSet(S), NEW s \in SUBSET S
  PROVE  /\ Cardinality(s) \in Nat
         /\ \A x \in s : /\ s \ {x} \in SUBSET S /\ Cardinality(s) # 0
                         /\ Cardinality(s \ {x}) = Cardinality(s) - 1
<1>1. IsFiniteSet(s)
  BY FS_Subset
<1>2. Cardinality(s) \in Nat
  BY <1>1, FS_CardinalityType
<1>3. Cardinality(s) = 0 <=> s = {}
  BY <1>1, FS_EmptySet
<1>4. \A x \in s : Cardinality(s \ {x}) = Cardinality(s) - 1
  BY <1>1, FS_RemoveElement
<1> QED
  BY <1>1, <1>2, <1>3, <1>4

\* Induction over the subsets of a finite set.
LEMMA InductSets ==
  ASSUME NEW S, IsFiniteSet(S), NEW D, \A s \in SUBSET S : (\A x \in s : s \ {x} \in D) => s \in D
  PROVE  SUBSET S \subseteq D
<1> DEFINE T == {n \in Nat : \A s \in SUBSET S : Cardinality(s) < n => s \in D}
<1>1. \A s \in SUBSET S : Cardinality(s) \in Nat
  BY SmallerSet
<1>2. 0 \in T
  BY <1>1
<1>3. ASSUME NEW n \in Nat, n \in T PROVE n + 1 \in T
  <2>1. ASSUME NEW s \in SUBSET S, Cardinality(s) < n + 1 PROVE s \in D
    <3>1. \A x \in s : s \ {x} \in SUBSET S /\ Cardinality(s \ {x}) = Cardinality(s) - 1
      BY SmallerSet
    <3>2. \A x \in s : Cardinality(s \ {x}) < n
      BY <3>1, <2>1, <1>1
    <3> QED
      BY <3>1, <3>2, <1>3
  <2> QED
    BY <2>1
<1>4. Nat \subseteq T
  <2> HIDE DEF T
  <2> QED
    BY <1>2, <1>3, Induct
<1>5. ASSUME NEW s \in SUBSET S PROVE s \in D
  <2>1. Cardinality(s) \in Nat
    BY <1>1
  <2>2. Cardinality(s) + 1 \in Nat /\ Cardinality(s) < Cardinality(s) + 1
    BY <2>1
  <2> QED
    BY <2>2, <1>4
<1> QED
  BY <1>5

\* h sums up f over the sets that U holds.
Sums(f, U, h) == h = [s \in U |-> IF s = {} THEN 0 ELSE f[Some(s)] + h[s \ {Some(s)}]]
SumFrom(f, S) == CHOOSE h : Sums(f, SUBSET S, h)
Summing(S, f, g) == IsFiniteSet(S) /\ f \in [S -> Nat] /\ g = SumFrom(f, S)

LEMMA SumExists ==
  ASSUME NEW S, IsFiniteSet(S), NEW f \in [S -> Nat]
  PROVE  Sums(f, SUBSET S, SumFrom(f, S))
<1> DEFINE U(n) == {s \in SUBSET S : Cardinality(s) < n}
           T == {n \in Nat : \E h : Sums(f, U(n), h)}
<1>1. \A s \in SUBSET S : Cardinality(s) \in Nat
  BY SmallerSet
<1>2. 0 \in T
  <2>1. Sums(f, U(0), [s \in U(0) |-> IF s = {} THEN 0 ELSE 0])
    BY <1>1 DEF Sums
  <2> QED
    BY <2>1
<1>3. ASSUME NEW n \in Nat, n \in T PROVE n + 1 \in T
  <2>1. PICK h : Sums(f, U(n), h)
    BY <1>3
  <2> PICK g : g = [s \in U(n + 1) |-> IF s = {} THEN 0 ELSE f[Some(s)] + h[s \ {Some(s)}]]
    OBVIOUS
  <2>2. ASSUME NEW s \in U(n + 1), s # {} PROVE s \ {Some(s)} \in U(n)
    <3>1. Some(s) \in s
      BY <2>2, SomeIn
    <3>2. s \ {Some(s)} \in SUBSET S /\ Cardinality(s \ {Some(s)}) = Cardinality(s) - 1
      BY <3>1, SmallerSet
    <3> QED
      BY <3>2, <1>1
  <2>3. ASSUME NEW s \in U(n) PROVE s \in U(n + 1) /\ g[s] = h[s]
    <3>1. s \in U(n + 1)
      BY <1>1
    <3>2. h[s] = IF s = {} THEN 0 ELSE f[Some(s)] + h[s \ {Some(s)}]
      BY <2>1 DEF Sums
    <3> QED
      BY <3>1, <3>2
  <2>4. ASSUME NEW s \in U(n + 1)
        PROVE  g[s] = IF s = {} THEN 0 ELSE f[Some(s)] + g[s \ {Some(s)}]
    <3>1. s # {} => g[s \ {Some(s)}] = h[s \ {Some(s)}]
      BY <2>2, <2>3
    <3> QED
      BY <3>1
  <2>5. Sums(f, U(n + 1), g)
    <3> HIDE DEF U
    <3> QED
      BY <2>4 DEF Sums
  <2>6. n + 1 \in Nat
    OBVIOUS
  <2> QED
    BY ONLY <2>5, <2>6
<1>4. Nat \subseteq T
  <2> HIDE DEF T
  <2> QED
    BY <1>2, <1>3, Induct
<1>5. Cardinality(S) \in Nat /\ \A s \in SUBSET S : Cardinality(s) <= Cardinality(S)
  BY FS_Subset, FS_CardinalityType
<1>6. Cardinality(S) + 1 \in Nat
  BY <1>5
<1>7. PICK h : Sums(f, U(Cardinality(S) + 1), h)
  BY <1>4, <1>6
<1>8. U(Cardinality(S) + 1) = SUBSET S
  BY <1>1, <1>5
<1>9. Sums(f, SUBSET S, h)
  BY <1>7, <1>8
<1> QED
  BY <1>9 DEF SumFrom

Summed(S, f, g) ==
  /\ f \in [S -> Nat] /\ g[{}] = 0
  /\ \A s \in SUBSET S : g[s] \in Nat /\ (s # {} => Some(s) \in s /\ g[s] = f[Some(s)] + g[s \ {Some(s)}])
LEMMA SumRule ==
  ASSUME NEW S, NEW f, NEW g, Summing(S, f, g)
  PROVE  Summed(S, f, g)
<1> USE DEF Summing
<1>1. Sums(f, SUBSET S, g)
  BY SumExists
<1>2. \A s \in SUBSET S : g[s] = IF s = {} THEN 0 ELSE f[Some(s)] + g[s \ {Some(s)}]
  BY <1>1 DEF Sums
<1>3. \A s \in SUBSET S : s # {} => Some(s) \in s /\ s \ {Some(s)} \in SUBSET S
  BY SomeIn
<1>6. g[{}] = 0 /\ \A s \in SUBSET S : s # {} => g[s] = f[Some(s)] + g[s \ {Some(s)}]
  BY <1>2
<1> DEFINE D == {s \in SUBSET S : g[s] \in Nat}
<1>4. ASSUME NEW s \in SUBSET S, \A x \in s : s \ {x} \in D PROVE s \in D
  <2>1. CASE s = {}
    BY <1>6, <2>1
  <2>2. CASE s # {}
    <3>1. g[s \ {Some(s)}] \in Nat /\ f[Some(s)] \in Nat
      BY <1>3, <1>4, <2>2
    <3>2. g[s] = f[Some(s)] + g[s \ {Some(s)}]
      BY <1>6, <2>2
    <3> QED
      BY <3>1, <3>2
  <2> QED
    BY <2>1, <2>2
<1>5. SUBSET S \subseteq D
  <2> HIDE DEF D
  <2> QED
    BY <1>4, InductSets
<1> QED
  BY <1>3, <1>5, <1>6 DEF Summed

\* A sum may be taken apart at any place.
Splits(S, f, g) == \A s \in SUBSET S : \A x \in s : g[s] = f[x] + g[s \ {x}]
LEMMA SumApart ==
  ASSUME NEW S, NEW f, NEW g, Summing(S, f, g)
  PROVE  Splits(S, f, g)
<1>1. /\ g[{}] = 0
      /\ \A s \in SUBSET S : g[s] \in Nat /\ (s # {} => Some(s) \in s /\ g[s] = f[Some(s)] + g[s \ {Some(s)}])
  <2>1. Summed(S, f, g)
    BY SumRule
  <2> QED
    BY <2>1 DEF Summed
<1> USE DEF Summing
<1> DEFINE D == {s \in SUBSET S : \A x \in s : g[s] = f[x] + g[s \ {x}]}
<1>2. ASSUME NEW s \in SUBSET S, \A x \in s : s \ {x} \in D PROVE s \in D
  <2>1. ASSUME NEW x \in s PROVE g[s] = f[x] + g[s \ {x}]
    <3> PICK y : y = Some(s)
      OBVIOUS
    <3>1. y \in s /\ g[s] = f[y] + g[s \ {y}]
      <4>1. s # {}
        OBVIOUS
      <4> QED
        BY <4>1, <1>1
    <3>2. CASE x = y
      BY <3>1, <3>2
    <3>3. CASE x # y
      <4>1. s \ {y} \in D /\ x \in s \ {y}
        BY <3>1, <3>3, <1>2
      <4>2. s \ {x} \in D /\ y \in s \ {x}
        BY <3>1, <3>3, <1>2
      <4>3. g[s \ {y}] = f[x] + g[(s \ {y}) \ {x}]
        BY <4>1
      <4>4. g[s \ {x}] = f[y] + g[(s \ {x}) \ {y}]
        BY <4>2
      <4>5. (s \ {x}) \ {y} = (s \ {y}) \ {x}
        OBVIOUS
      <4>6. (s \ {x}) \ {y} \in SUBSET S
        BY ONLY s \in SUBSET S
      <4>7. g[(s \ {x}) \ {y}] \in Nat
        BY <1>1, <4>6
      <4>8. f[x] \in Nat /\ f[y] \in Nat
        BY <3>1 DEF Summing
      <4> PICK u, v, w : u = f[x] /\ v = f[y] /\ w = g[(s \ {x}) \ {y}]
        OBVIOUS
      <4>9. g[s] = v + (u + w) /\ g[s \ {x}] = v + w
        BY ONLY <4>3, <4>4, <4>5, <3>1, u = f[x] /\ v = f[y] /\ w = g[(s \ {x}) \ {y}]
      <4>10. u \in Nat /\ v \in Nat /\ w \in Nat
        BY <4>7, <4>8
      <4> QED
        BY ONLY <4>9, <4>10, u = f[x]
    <3> QED
      BY <3>2, <3>3
  <2> QED
    BY <2>1
<1>3. SUBSET S \subseteq D
  <2> HIDE DEF D
  <2> QED
    BY <1>2, InductSets
<1> QED
  BY <1>3 DEF Splits

\* What f is elsewhere does not matter.
LEMMA SumSame ==
  ASSUME NEW S, NEW f, NEW g, NEW e, NEW h, Summing(S, f, g), Summing(S, e, h), NEW R \in SUBSET S,
         \A y \in R : f[y] = e[y]
  PROVE  g[R] = h[R]
<1>1. /\ g[{}] = 0
      /\ \A s \in SUBSET S : g[s] \in Nat /\ (s # {} => Some(s) \in s /\ g[s] = f[Some(s)] + g[s \ {Some(s)}])
  <2>1. Summed(S, f, g)
    BY SumRule
  <2> QED
    BY <2>1 DEF Summed
<1>2. /\ h[{}] = 0
      /\ \A s \in SUBSET S : s # {} => h[s] = e[Some(s)] + h[s \ {Some(s)}]
  <2>1. Summed(S, e, h)
    BY SumRule
  <2> QED
    BY <2>1 DEF Summed
<1> USE DEF Summing
<1> DEFINE D == {s \in SUBSET S : s \subseteq R => g[s] = h[s]}
<1>3. ASSUME NEW s \in SUBSET S, \A x \in s : s \ {x} \in D PROVE s \in D
  <2>1. CASE s = {}
    BY <2>1, <1>1, <1>2
  <2>2. CASE s # {}
    <3>1. Some(s) \in s
      BY <1>1, <2>2
    <3>2. s \ {Some(s)} \in D
      BY <3>1, <1>3
    <3>3. g[s] = f[Some(s)] + g[s \ {Some(s)}] /\ h[s] = e[Some(s)] + h[s \ {Some(s)}]
      BY <1>1, <1>2, <2>2
    <3> QED
      BY <3>1, <3>2, <3>3
  <2> QED
    BY <2>1, <2>2
<1>4. SUBSET S \subseteq D
  <2> HIDE DEF D
  <2> QED
    BY <1>3, InductSets
<1> QED
  BY <1>4

LEMMA SumIs ==
  ASSUME NEW S, NEW f \in [S -> Nat]
  PROVE  SumFunction(f) = SumFrom(f, S)[S]
<1>1. DOMAIN f = S
  OBVIOUS
<1> QED
  BY <1>1 DEF SumFunction, SumFunctionOnSet, FoldFunctionOnSet, MapThenFoldSet, Sums, SumFrom, Some

\* Changing one value changes the sum by as much.
LEMMA SumChanged ==
  ASSUME NEW S, IsFiniteSet(S), NEW f \in [S -> Nat], NEW e \in [S -> Nat], NEW x \in S,
         \A y \in S \ {x} : f[y] = e[y]
  PROVE  /\ SumFunction(e) = SumFunction(f) - f[x] + e[x]
         /\ SumFunction(f) \in Nat /\ f[x] <= SumFunction(f)
<1> PICK g : g = SumFrom(f, S)
  OBVIOUS
<1> PICK h : h = SumFrom(e, S)
  OBVIOUS
<1>5. Summing(S, f, g) /\ Summing(S, e, h)
  BY DEF Summing
<1>6. S \in SUBSET S /\ S \ {x} \in SUBSET S
  OBVIOUS
<1>7. SumFunction(f) = g[S] /\ SumFunction(e) = h[S]
  BY SumIs
<1>8. Splits(S, f, g) /\ Splits(S, e, h)
  BY <1>5, SumApart
<1>1. SumFunction(f) = f[x] + g[S \ {x}]
  BY <1>6, <1>7, <1>8 DEF Splits
<1>2. SumFunction(e) = e[x] + h[S \ {x}]
  BY <1>6, <1>7, <1>8 DEF Splits
<1>3. g[S \ {x}] = h[S \ {x}]
  BY <1>5, <1>6, SumSame
<1>4. g[S \ {x}] \in Nat /\ f[x] \in Nat /\ e[x] \in Nat
  <2>1. Summed(S, f, g)
    BY <1>5, SumRule
  <2> QED
    BY <2>1, <1>6 DEF Summed
<1> QED
  BY <1>1, <1>2, <1>3, <1>4

LEMMA SumNone ==
  ASSUME NEW S, IsFiniteSet(S), NEW f \in [S -> Nat], \A x \in S : f[x] = 0
  PROVE  SumFunction(f) = 0
<1> PICK g : g = SumFrom(f, S)
  OBVIOUS
<1>0. Summing(S, f, g)
  BY DEF Summing
<1>1. /\ g[{}] = 0
      /\ \A s \in SUBSET S : g[s] \in Nat /\ (s # {} => Some(s) \in s /\ g[s] = f[Some(s)] + g[s \ {Some(s)}])
  <2>1. Summed(S, f, g)
    BY <1>0, SumRule
  <2> QED
    BY <2>1 DEF Summed
<1> DEFINE D == {s \in SUBSET S : g[s] = 0}
<1>3. ASSUME NEW s \in SUBSET S, \A x \in s : s \ {x} \in D PROVE s \in D
  <2>1. CASE s = {}
    BY <2>1, <1>1
  <2>2. CASE s # {}
    <3>1. Some(s) \in s /\ g[s] = f[Some(s)] + g[s \ {Some(s)}]
      BY <1>1, <2>2
    <3>2. s \ {Some(s)} \in D
      BY <3>1, <1>3
    <3> QED
      BY <3>1, <3>2
  <2> QED
    BY <2>1, <2>2
<1>4. SUBSET S \subseteq D
  <2> HIDE DEF D
  <2> QED
    BY <1>3, InductSets
<1> QED
  <2>1. g[S] = 0
    BY <1>4
  <2> QED
    BY <2>1, SumIs
(***************************************************************************)
(* Loops.                                                                  *)
(***************************************************************************)
Loops(n, P, a, G) == n \in Nat /\ a \in P[0] /\ \A k \in 1 .. n : \A b \in P[k - 1] : G[<<k, b>>] \in P[k]
Looping(n, a, G, f) == f = [k \in 0 .. n |-> IF k = 0 THEN a ELSE G[<<k, f[k - 1]>>]]
LEMMA Looped ==
  ASSUME NEW n, NEW P, NEW a, NEW G, Loops(n, P, a, G)
  PROVE  \E f : Looping(n, a, G, f) /\ \A k \in 0 .. n : f[k] \in P[k]
<1> USE DEF Loops
<1> DEFINE S == UNION {P[k] : k \in 0 .. n}
           N(x) == IF x[1] \in 1 .. n /\ x[2] \in P[x[1] - 1] THEN G[x] ELSE a
           H == [x \in Nat \X S |-> N(x)]
<1>1. a \in S
  OBVIOUS
<1>2. H \in [Nat \X S -> S]
  <2>1. ASSUME NEW x \in Nat \X S PROVE N(x) \in S
    <3>1. CASE x[1] \in 1 .. n /\ x[2] \in P[x[1] - 1]
      <4>1. x = <<x[1], x[2]>>
        OBVIOUS
      <4>2. G[x] \in P[x[1]] /\ x[1] \in 0 .. n
        BY <3>1, <4>1
      <4> QED
        BY <3>1, <4>2
    <3>2. CASE ~(x[1] \in 1 .. n /\ x[2] \in P[x[1] - 1])
      BY <1>1, <3>2
    <3> QED
      BY <3>1, <3>2
  <2> QED
    BY <2>1
<1>3. PICK f : Iteration(f, S, a, H, n)
  <2>1. Iterates(S, a, H, n)
    BY <1>1, <1>2 DEF Iterates
  <2> QED
    BY <2>1, Iterated
<1>4. f \in [0 .. n -> S] /\ f[0] = a /\ \A k \in 1 .. n : f[k] = H[<<k, f[k - 1]>>]
  BY <1>3 DEF Iteration
<1> DEFINE T == {k \in Nat : k <= n => f[k] \in P[k]}
<1>5. 0 \in T
  BY <1>4
<1>6. \A k \in 1 .. n : f[k - 1] \in P[k - 1] => f[k] = G[<<k, f[k - 1]>>]
  <2>1. ASSUME NEW k \in 1 .. n, f[k - 1] \in P[k - 1] PROVE f[k] = G[<<k, f[k - 1]>>]
    <3>0. k - 1 \in 0 .. n /\ k \in Nat
      OBVIOUS
    <3>1. f[k - 1] \in S /\ k \in Nat
      <4> HIDE DEF S
      <4> QED
        BY ONLY <1>4, <3>0
    <3>2. f[k] = N(<<k, f[k - 1]>>)
      BY <1>4, <3>1
    <3> QED
      BY <3>2, <2>1
  <2> QED
    BY <2>1
<1>7. ASSUME NEW k \in Nat, k \in T PROVE k + 1 \in T
  <2>1. CASE k + 1 <= n
    <3>1. f[k] \in P[k] /\ k + 1 \in 1 .. n /\ (k + 1) - 1 = k
      BY <1>7, <2>1
    <3>2. f[k + 1] = G[<<k + 1, f[k]>>] /\ G[<<k + 1, f[k]>>] \in P[k + 1]
      BY <3>1, <1>6
    <3> QED
      BY <3>2
  <2>2. CASE ~(k + 1 <= n)
    BY <2>2
  <2> QED
    BY <2>1, <2>2
<1>8. Nat \subseteq T
  <2> HIDE DEF T
  <2> QED
    BY <1>5, <1>7, Induct
<1>9. \A k \in 0 .. n : f[k] \in P[k]
  BY <1>8
<1>10. \A k \in 0 .. n : f[k] = IF k = 0 THEN a ELSE G[<<k, f[k - 1]>>]
  <2>1. ASSUME NEW k \in 0 .. n, k # 0 PROVE f[k] = G[<<k, f[k - 1]>>]
    <3>1. k \in 1 .. n /\ k - 1 \in 0 .. n
      BY <2>1
    <3> QED
      BY <3>1, <1>6, <1>9
  <2> QED
    BY <2>1, <1>4
<1>11. Looping(n, a, G, f)
  <2> HIDE DEF S, H
  <2> QED
    BY <1>4, <1>10 DEF Looping
<1> QED
  BY <1>9, <1>11

\* What every round keeps holds all along.
Keeping(n, P, f) == n \in Nat /\ f[0] \in P[0] /\ \A k \in 1 .. n : f[k - 1] \in P[k - 1] => f[k] \in P[k]
LEMMA Kept ==
  ASSUME NEW n, NEW P, NEW f, Keeping(n, P, f)
  PROVE  \A k \in 0 .. n : f[k] \in P[k]
<1> USE DEF Keeping
<1> DEFINE T == {k \in Nat : k <= n => f[k] \in P[k]}
<1>1. 0 \in T
  OBVIOUS
<1>2. ASSUME NEW k \in Nat, k \in T PROVE k + 1 \in T
  <2>1. CASE k + 1 <= n
    <3>1. f[k] \in P[k] /\ k + 1 \in 1 .. n /\ (k + 1) - 1 = k
      BY <1>2, <2>1
    <3>2. f[k + 1] \in P[k + 1]
      BY <3>1
    <3> QED
      BY <3>2
  <2>2. CASE ~(k + 1 <= n)
    BY <2>2
  <2> QED
    BY <2>1, <2>2
<1>3. Nat \subseteq T
  <2> HIDE DEF T
  <2> QED
    BY <1>1, <1>2, Induct
<1> QED
  BY <1>3

(***************************************************************************)
(* Blocks.                                                                 *)
(***************************************************************************)
Cell == Values \cup {Null}
Slot == Values \cup {Null, Junk}
LEMMA CellsAreSlots == Cell \subseteq Slot /\ Null \in Cell /\ Junk \in Slot /\ Junk \notin Cell
BY ConstantTypes DEF Cell, Slot

IsArr(a) == a \in [block : Seq(Slot), size : Nat, wild : BOOLEAN]
LEMMA ArrIs ==
  ASSUME NEW a, IsArr(a)
  PROVE  /\ a.block \in Seq(Slot) /\ Avail(a) = Len(a.block) /\ Avail(a) \in Nat /\ DOMAIN a.block = 1 .. Avail(a)
         /\ a.size \in Nat /\ a.wild \in BOOLEAN
         /\ \A k \in 1 .. Avail(a) : a.block[k] \in Slot
BY DEF IsArr, Avail

\* A function over the first numbers is a sequence.
LEMMA FunSeq ==
  ASSUME NEW S, NEW n \in Nat, NEW f \in [1 .. n -> S]
  PROVE  f \in Seq(S) /\ Len(f) = n
OBVIOUS

LEMMA CopiesIs ==
  ASSUME NEW S, NEW v \in S, NEW n \in Int
  PROVE  /\ Copies(v, n) \in Seq(S) /\ Len(Copies(v, n)) = IF n > 0 THEN n ELSE 0
         /\ \A k \in 1 .. n : Copies(v, n)[k] = v
<1>1. CASE n >= 0
  BY <1>1 DEF Copies
<1>2. CASE n < 0
  <2>1. Copies(v, n) = <<>>
    BY <1>2 DEF Copies
  <2> QED
    BY <2>1, <1>2
<1> QED
  BY <1>1, <1>2

\* b is a with a block of len slots, of which those of a are the first.
Roomed(a, len, b) ==
  /\ IsArr(b) /\ Avail(b) = (IF len > Avail(a) THEN len ELSE Avail(a)) /\ b.size = a.size /\ b.wild = a.wild
  /\ \A k \in 1 .. Avail(a) : b.block[k] = a.block[k]
LEMMA MakeRoomIs ==
  ASSUME NEW a, IsArr(a), NEW len \in Int
  PROVE  Roomed(a, len, arrMakeRoom(a, len))
<1> PICK e : e = a.block
  OBVIOUS
<1> PICK m : m = len - Len(e)
  OBVIOUS
<1> PICK c : c = Copies(Junk, m)
  OBVIOUS
<1>1. e \in Seq(Slot) /\ m \in Int /\ Junk \in Slot /\ Len(e) \in Nat /\ Avail(a) = Len(e)
  BY ArrIs, CellsAreSlots
<1>2. c \in Seq(Slot) /\ Len(c) = IF m > 0 THEN m ELSE 0
  BY <1>1, CopiesIs
<1>3. Len(c) \in Nat
  BY <1>2
<1>4. /\ e \o c \in Seq(Slot) /\ Len(e \o c) = Len(e) + Len(c)
      /\ \A k \in 1 .. Len(e) + Len(c) : (e \o c)[k] = IF k <= Len(e) THEN e[k] ELSE c[k - Len(e)]
  BY ONLY <1>1, <1>2, ConcatProperties
<1> PICK d : d = e \o c
  OBVIOUS
<1>5. \A k \in 1 .. Len(e) : d[k] = e[k]
  BY ONLY <1>1, <1>3, <1>4, d = e \o c
<1> PICK b : b = arrMakeRoom(a, len)
  OBVIOUS
<1>6. b = [a EXCEPT !.block = d]
  BY DEF arrMakeRoom
<1>7. b.block = d /\ b.size = a.size /\ b.wild = a.wild /\ IsArr(b)
  BY <1>4, <1>6 DEF IsArr
<1>8. Len(d) = IF len > Len(e) THEN len ELSE Len(e)
  BY ONLY <1>1, <1>2, <1>4, d = e \o c, m = len - Len(e), len \in Int
<1>9. Avail(b) = Len(d)
  BY <1>7 DEF Avail
<1>10. Roomed(a, len, b)
  BY ONLY <1>1, <1>5, <1>7, <1>8, <1>9, e = a.block DEF Roomed
<1> QED
  BY <1>10

\* b is a with vs from slot pos on.
Putted(a, pos, vs, b) ==
  /\ IsArr(b) /\ Avail(b) = Avail(a) /\ b.size = a.size
  /\ a.wild = FALSE /\ pos + Len(vs) <= Avail(a) => b.wild = FALSE
  /\ \A k \in 1 .. Avail(a) : b.block[k] = IF k > pos /\ k <= pos + Len(vs) THEN vs[k - pos] ELSE a.block[k]
LEMMA PutsIs ==
  ASSUME NEW a, IsArr(a), NEW pos \in Nat, NEW vs \in Seq(Slot)
  PROVE  Putted(a, pos, vs, Put(a, pos, vs))
<1> PICK e : e = a.block
  OBVIOUS
<1> PICK n : n = Len(vs)
  OBVIOUS
<1> PICK L : L = Len(e)
  OBVIOUS
<1>1. e \in Seq(Slot) /\ DOMAIN e = 1 .. L /\ Avail(a) = L /\ L \in Nat /\ n \in Nat /\ DOMAIN vs = 1 .. n
  BY ArrIs
<1> PICK d : d = [k \in 1 .. L |-> IF k > pos /\ k <= pos + n THEN vs[k - pos] ELSE e[k]]
  OBVIOUS
<1>2. d \in [1 .. L -> Slot]
  <2>1. ASSUME NEW k \in 1 .. L PROVE (IF k > pos /\ k <= pos + n THEN vs[k - pos] ELSE e[k]) \in Slot
    <3>1. k > pos /\ k <= pos + n => k - pos \in 1 .. n
      BY <1>1
    <3>2. \A i \in 1 .. n : vs[i] \in Slot
      BY <1>1
    <3> QED
      BY <1>1, <3>1, <3>2
  <2> QED
    BY <2>1
<1>3. d \in Seq(Slot) /\ Len(d) = L
  BY <1>1, <1>2, FunSeq
<1>4. [k \in DOMAIN e |-> IF k - pos \in DOMAIN vs THEN vs[k - pos] ELSE e[k]] = d
  <2>1. \A k \in 1 .. L : k - pos \in 1 .. n <=> k > pos /\ k <= pos + n
    BY ONLY <1>1, pos \in Nat
  <2> QED
    BY <1>1, <2>1
<1>5. (vs # <<>> /\ pos + Len(vs) > Avail(a)) = (n > 0 /\ pos + n > L)
  <2>1. vs # <<>> <=> n > 0
    BY <1>1
  <2> QED
    BY <2>1, <1>1
<1> PICK b : b = Put(a, pos, vs)
  OBVIOUS
<1>6. b = [a EXCEPT !.block = d, !.wild = a.wild \/ (n > 0 /\ pos + n > L)]
  BY <1>4, <1>5 DEF Put
<1>7. b.block = d /\ b.size = a.size /\ (a.wild = FALSE /\ pos + n <= L => b.wild = FALSE) /\ IsArr(b)
  <2>1. (a.wild \/ (n > 0 /\ pos + n > L)) \in BOOLEAN
    OBVIOUS
  <2> PICK w : w = (a.wild \/ (n > 0 /\ pos + n > L))
    OBVIOUS
  <2>2. b = [a EXCEPT !.block = d, !.wild = w] /\ w \in BOOLEAN
    BY <1>6, <2>1
  <2>3. b.block = d /\ b.size = a.size /\ b.wild = w /\ IsArr(b)
    BY <2>2, <1>3 DEF IsArr
  <2>4. pos + n <= L => ~(n > 0 /\ pos + n > L)
    BY <1>1
  <2>5. a.wild = FALSE /\ pos + n <= L => w = FALSE
    BY <2>4
  <2> QED
    BY <2>3, <2>5
<1>8. Avail(b) = L
  BY <1>3, <1>7 DEF Avail
<1>9. \A k \in 1 .. L : d[k] = IF k > pos /\ k <= pos + n THEN vs[k - pos] ELSE e[k]
  OBVIOUS
<1>10. Putted(a, pos, vs, b)
  BY ONLY <1>1, <1>7, <1>8, <1>9, n = Len(vs), e = a.block DEF Putted
<1> QED
  BY <1>10

\* b is a with n slots in use.
Using(a, n, b) ==
  /\ IsArr(b) /\ Avail(b) = Avail(a) /\ b.size = n /\ b.wild = a.wild
  /\ \A k \in 1 .. Avail(a) : k <= n => b.block[k] = a.block[k]
LEMMA InUseIs ==
  ASSUME NEW a, IsArr(a), NEW n \in Nat
  PROVE  Using(a, n, InUse(a, n))
<1> PICK e : e = a.block
  OBVIOUS
<1> PICK L : L = Len(e)
  OBVIOUS
<1>1. e \in Seq(Slot) /\ DOMAIN e = 1 .. L /\ Avail(a) = L /\ L \in Nat /\ Junk \in Slot
  BY ArrIs, CellsAreSlots
<1> PICK d : d = [k \in 1 .. L |-> IF k <= n THEN e[k] ELSE Junk]
  OBVIOUS
<1>2. d \in [1 .. L -> Slot]
  BY <1>1
<1>3. d \in Seq(Slot) /\ Len(d) = L
  BY <1>1, <1>2, FunSeq
<1> PICK b : b = InUse(a, n)
  OBVIOUS
<1>4. b = [a EXCEPT !.size = n, !.block = d]
  BY <1>1 DEF InUse
<1>5. b.block = d /\ b.size = n /\ b.wild = a.wild /\ IsArr(b)
  BY <1>3, <1>4 DEF IsArr
<1>6. Avail(b) = L
  BY <1>3, <1>5 DEF Avail
<1>7. Using(a, n, b)
  BY <1>1, <1>5, <1>6 DEF Using
<1> QED
  BY <1>7

LEMMA SlotsAre ==
  ASSUME NEW a, IsArr(a), NEW pos \in Nat, NEW n \in Nat
  PROVE  /\ Slots(a, pos, n) \in Seq(Slot) /\ Len(Slots(a, pos, n)) = n
         /\ \A k \in 1 .. n : pos + k <= Avail(a) => Slots(a, pos, n)[k] = a.block[pos + k]
<1> PICK f : f = Slots(a, pos, n)
  OBVIOUS
<1>1. f = [k \in 1 .. n |-> IF pos + k <= Avail(a) THEN a.block[pos + k] ELSE Junk]
  BY DEF Slots
<1>2. ASSUME NEW k \in 1 .. n PROVE (IF pos + k <= Avail(a) THEN a.block[pos + k] ELSE Junk) \in Slot
  <2>1. Avail(a) \in Nat /\ \A i \in 1 .. Avail(a) : a.block[i] \in Slot
    BY ArrIs
  <2>2. pos + k <= Avail(a) => pos + k \in 1 .. Avail(a)
    BY <2>1
  <2> QED
    BY <2>1, <2>2, CellsAreSlots
<1>3. f \in [1 .. n -> Slot]
  BY <1>1, <1>2
<1>4. f \in Seq(Slot) /\ Len(f) = n
  BY <1>3, FunSeq
<1> QED
  BY <1>1, <1>4

\* b is a with nulls from its end to slot pos.
Nulled(a, pos, b) ==
  /\ IsArr(b) /\ Avail(b) = Avail(a) /\ b.size = a.size
  /\ a.wild = FALSE /\ a.size <= Avail(a) /\ pos <= Avail(a) => b.wild = FALSE
  /\ \A k \in 1 .. Avail(a) : b.block[k] = IF k > a.size /\ k <= pos THEN Null ELSE a.block[k]
LEMMA NullsAre ==
  ASSUME NEW a, IsArr(a), NEW pos \in Nat
  PROVE  Nulled(a, pos, NullsTo(a, pos))
<1> PICK n : n = pos - a.size
  OBVIOUS
<1> PICK c : c = Copies(Null, n)
  OBVIOUS
<1>1. a.size \in Nat /\ n \in Int /\ Null \in Slot /\ Avail(a) \in Nat
  BY ArrIs, CellsAreSlots
<1>2. c \in Seq(Slot) /\ Len(c) = (IF n > 0 THEN n ELSE 0) /\ \A k \in 1 .. n : c[k] = Null
  BY <1>1, CopiesIs
<1> PICK b : b = NullsTo(a, pos)
  OBVIOUS
<1>3. Putted(a, a.size, c, b)
  BY <1>1, <1>2, PutsIs DEF NullsTo
<1>4. IsArr(b) /\ Avail(b) = Avail(a) /\ b.size = a.size /\ (a.wild = FALSE /\ a.size + Len(c) <= Avail(a) => b.wild = FALSE)
  BY <1>3 DEF Putted
<1>5. \A k \in 1 .. Avail(a) : b.block[k] = IF k > a.size /\ k <= a.size + Len(c) THEN c[k - a.size] ELSE a.block[k]
  BY <1>3 DEF Putted
<1>6. a.size <= Avail(a) /\ pos <= Avail(a) => a.size + Len(c) <= Avail(a)
  BY <1>1, <1>2
<1>7. ASSUME NEW k \in 1 .. Avail(a) PROVE b.block[k] = IF k > a.size /\ k <= pos THEN Null ELSE a.block[k]
  <2>1. (k > a.size /\ k <= a.size + Len(c)) = (k > a.size /\ k <= pos)
    BY <1>1, <1>2
  <2>2. k > a.size /\ k <= pos => k - a.size \in 1 .. n
    BY <1>1
  <2> QED
    BY <1>2, <1>5, <2>1, <2>2
<1>8. Nulled(a, pos, b)
  BY <1>4, <1>6, <1>7 DEF Nulled
<1> QED
  BY <1>8

\* b is a after a memmove of n slots.
Shifted(a, to, from, n, b) ==
  /\ IsArr(b) /\ Avail(b) = Avail(a) /\ b.size = a.size
  /\ a.wild = FALSE /\ to + n <= Avail(a) => b.wild = FALSE
  /\ \A k \in 1 .. Avail(a) : k <= to \/ k > to + n => b.block[k] = a.block[k]
  /\ \A k \in 1 .. Avail(a) :
       k > to /\ k <= to + n /\ from + (k - to) <= Avail(a) => b.block[k] = a.block[from + (k - to)]
LEMMA MovedIs ==
  ASSUME NEW a, IsArr(a), NEW to \in Nat, NEW from \in Nat, NEW n \in Nat
  PROVE  Shifted(a, to, from, n, Moved(a, to, from, n))
<1> PICK vs : vs = Slots(a, from, n)
  OBVIOUS
<1>1. vs \in Seq(Slot) /\ Len(vs) = n /\ \A k \in 1 .. n : from + k <= Avail(a) => vs[k] = a.block[from + k]
  BY SlotsAre
<1> PICK b : b = Moved(a, to, from, n)
  OBVIOUS
<1>2. b = Put(a, to, vs)
  BY DEF Moved
<1>3. Putted(a, to, vs, b)
  BY <1>1, <1>2, PutsIs
<1>4. Avail(a) \in Nat
  BY ArrIs
<1>5. IsArr(b) /\ Avail(b) = Avail(a) /\ b.size = a.size /\ (a.wild = FALSE /\ to + n <= Avail(a) => b.wild = FALSE)
  BY <1>1, <1>3 DEF Putted
<1>6. \A k \in 1 .. Avail(a) : b.block[k] = IF k > to /\ k <= to + n THEN vs[k - to] ELSE a.block[k]
  BY <1>1, <1>3 DEF Putted
<1>7. ASSUME NEW k \in 1 .. Avail(a), k > to, k <= to + n, from + (k - to) <= Avail(a)
      PROVE  b.block[k] = a.block[from + (k - to)]
  <2>1. k - to \in 1 .. n
    BY <1>4, <1>7
  <2> QED
    BY <1>1, <1>6, <1>7, <2>1
<1>8. ASSUME NEW k \in 1 .. Avail(a), k <= to \/ k > to + n PROVE b.block[k] = a.block[k]
  BY <1>4, <1>6, <1>8
<1>9. Shifted(a, to, from, n, b)
  BY <1>5, <1>7, <1>8 DEF Shifted
<1> QED
  BY <1>9

(***************************************************************************)
(* Arrays that hold lists, and what the operations make of them.           *)
(***************************************************************************)
Holds(a, s) ==
  /\ IsArr(a) /\ a.wild = FALSE /\ s \in Seq(Cell) /\ Len(s) = a.size /\ a.size <= Avail(a)
  /\ \A k \in 1 .. a.size : a.block[k] = s[k]
Greater(m, n) == IF m > n THEN m ELSE n

LEMMA WordIs == ASSUME NEW n \in Nat, n < Width PROVE Word(n) = n
BY ConstantTypes DEF Word

LEMMA HoldsIs ==
  ASSUME NEW a, NEW s, Holds(a, s)
  PROVE  /\ IsArr(a) /\ a.wild = FALSE /\ Avail(a) \in Nat /\ a.size \in Nat /\ a.size <= Avail(a)
         /\ s \in Seq(Cell) /\ Len(s) = a.size /\ Len(s) \in Nat
         /\ \A k \in 1 .. Len(s) : a.block[k] = s[k] /\ s[k] \in Cell
BY ArrIs DEF Holds

LEMMA RoomHolds ==
  ASSUME NEW a, NEW s, Holds(a, s), NEW len \in Int
  PROVE  Holds(arrMakeRoom(a, len), s) /\ Avail(arrMakeRoom(a, len)) = Greater(Avail(a), len)
<1> PICK b : b = arrMakeRoom(a, len)
  OBVIOUS
<1>1. Roomed(a, len, b)
  BY HoldsIs, MakeRoomIs
<1>2. /\ Avail(a) \in Nat /\ a.size \in Nat /\ a.size <= Avail(a) /\ a.wild = FALSE /\ s \in Seq(Cell) /\ Len(s) = a.size
      /\ \A k \in 1 .. a.size : a.block[k] = s[k]
  BY ArrIs DEF Holds
<1>3. IsArr(b) /\ b.size = a.size /\ b.wild = FALSE
  BY <1>1, <1>2 DEF Roomed
<1>4. Avail(b) = Greater(Avail(a), len)
  BY <1>1, <1>2 DEF Roomed, Greater
<1>5. \A k \in 1 .. Avail(a) : b.block[k] = a.block[k]
  BY <1>1 DEF Roomed
<1>6. \A k \in 1 .. b.size : b.block[k] = s[k]
  BY ONLY <1>2, <1>3, <1>5
<1>7. b.size <= Avail(b)
  BY ONLY <1>2, <1>3, <1>4, len \in Int DEF Greater
<1> QED
  BY <1>2, <1>3, <1>4, <1>6, <1>7 DEF Holds

LEMMA GetIs ==
  ASSUME NEW a, NEW s, Holds(a, s), NEW pos \in Nat
  PROVE  arrGet(a, pos) = (IF pos < Len(s) THEN s[pos + 1] ELSE Null) /\ arrGet(a, pos) \in Cell
<1>1. /\ IsArr(a) /\ Avail(a) \in Nat /\ a.size \in Nat /\ a.size <= Avail(a) /\ Len(s) = a.size
      /\ \A k \in 1 .. Len(s) : a.block[k] = s[k] /\ s[k] \in Cell
  BY HoldsIs
<1>2. CASE pos < Len(s)
  <2>1. Slots(a, pos, 1)[1] = a.block[pos + 1]
    <3>1. pos + 1 <= Avail(a)
      BY <1>1, <1>2
    <3> QED
      BY <3>1, <1>1, SlotsAre
  <2>2. pos + 1 \in 1 .. Len(s)
    BY <1>1, <1>2
  <2>3. arrGet(a, pos) = s[pos + 1] /\ s[pos + 1] \in Cell
    BY <1>1, <1>2, <2>1, <2>2 DEF arrGet
  <2> QED
    BY <1>2, <2>3
<1>3. CASE ~(pos < Len(s))
  BY <1>1, <1>3, CellsAreSlots DEF arrGet
<1> QED
  BY <1>2, <1>3

\* The first n values.
LEMMA FirstHold ==
  ASSUME NEW a, NEW s, Holds(a, s), NEW n \in 0 .. Len(s), NEW t \in Seq(Cell), Len(t) = n,
         \A k \in 1 .. n : t[k] = s[k]
  PROVE  /\ Holds(arrSetSize(a, n), t) /\ Avail(arrSetSize(a, n)) = Avail(a)
         /\ Holds(InUse(a, n), t) /\ Avail(InUse(a, n)) = Avail(a)
<1>1. /\ IsArr(a) /\ a.wild = FALSE /\ Avail(a) \in Nat /\ a.size \in Nat /\ a.size <= Avail(a) /\ Len(s) = a.size
      /\ \A k \in 1 .. Len(s) : a.block[k] = s[k] /\ s[k] \in Cell
  BY HoldsIs
<1> PICK b : b = InUse(a, n)
  OBVIOUS
<1>2. n \in Nat /\ n <= a.size
  BY <1>1
<1>3. Using(a, n, b)
  BY <1>1, <1>2, InUseIs
<1>4. /\ IsArr(b) /\ Avail(b) = Avail(a) /\ b.size = n /\ b.wild = FALSE
      /\ \A k \in 1 .. Avail(a) : k <= n => b.block[k] = a.block[k]
  BY <1>1, <1>3 DEF Using
<1>5. \A k \in 1 .. n : b.block[k] = t[k]
  BY ONLY <1>1, <1>2, <1>4, \A k \in 1 .. n : t[k] = s[k]
<1>6. Holds(b, t)
  BY <1>1, <1>2, <1>4, <1>5 DEF Holds
<1>7. arrSetSize(a, n) = b
  BY <1>1, <1>2 DEF arrSetSize
<1> QED
  BY <1>4, <1>6, <1>7

\* arrSet.
SetList(s, pos, v, t) ==
  /\ t \in Seq(Cell) /\ Len(t) = Greater(Len(s), pos + 1)
  /\ \A k \in 1 .. Len(t) : t[k] = IF k = pos + 1 THEN v ELSE IF k <= Len(s) THEN s[k] ELSE Null
LEMMA SetHolds ==
  ASSUME NEW a, NEW s, Holds(a, s), NEW pos \in Nat, pos + 1 < Width, NEW v \in Cell, NEW t, SetList(s, pos, v, t)
  PROVE  Holds(arrSet(a, pos, v), t) /\ Avail(arrSet(a, pos, v)) = Greater(Avail(a), pos + 1)
<1>1. /\ IsArr(a) /\ a.wild = FALSE /\ Avail(a) \in Nat /\ a.size \in Nat /\ a.size <= Avail(a) /\ Len(s) = a.size
      /\ \A k \in 1 .. Len(s) : a.block[k] = s[k] /\ s[k] \in Cell
  BY HoldsIs
<1>2. Word(pos + 1) = pos + 1
  BY WordIs
<1> PICK b : b = IF pos >= Avail(a) THEN arrMakeRoom(a, Word(pos + 1)) ELSE a
  OBVIOUS
<1>3. /\ IsArr(b) /\ b.wild = FALSE /\ b.size = a.size /\ Avail(b) = Greater(Avail(a), pos + 1)
      /\ \A k \in 1 .. Len(s) : b.block[k] = s[k]
  <2>1. CASE pos >= Avail(a)
    <3>1. b = arrMakeRoom(a, pos + 1) /\ pos + 1 \in Int
      BY <1>2, <2>1
    <3>2. Holds(b, s) /\ Avail(b) = Greater(Avail(a), pos + 1)
      BY <3>1, RoomHolds
    <3> QED
      BY <3>2, <1>1 DEF Holds
  <2>2. CASE ~(pos >= Avail(a))
    BY <2>2, <1>1 DEF Greater
  <2> QED
    BY <2>1, <2>2
<1>4. Avail(b) \in Nat /\ pos + 1 <= Avail(b) /\ a.size <= Avail(b)
  BY <1>1, <1>3 DEF Greater
<1> PICK m : m = NullsTo(b, pos)
  OBVIOUS
<1>5. Nulled(b, pos, m)
  BY <1>3, NullsAre
<1>6. /\ IsArr(m) /\ Avail(m) = Avail(b) /\ m.size = a.size /\ m.wild = FALSE
      /\ \A k \in 1 .. Avail(b) : m.block[k] = IF k > a.size /\ k <= pos THEN Null ELSE b.block[k]
  <2>1. pos <= Avail(b)
    BY <1>4
  <2> QED
    BY <1>3, <1>4, <1>5, <2>1 DEF Nulled
<1> PICK c : c = Put(m, pos, <<v>>)
  OBVIOUS
<1>7. <<v>> \in Seq(Slot) /\ Len(<<v>>) = 1 /\ <<v>>[1] = v
  BY CellsAreSlots
<1>8. Putted(m, pos, <<v>>, c)
  BY <1>6, <1>7, PutsIs
<1>9. /\ IsArr(c) /\ Avail(c) = Avail(b) /\ c.size = a.size /\ c.wild = FALSE
      /\ \A k \in 1 .. Avail(b) : c.block[k] = IF k > pos /\ k <= pos + 1 THEN <<v>>[k - pos] ELSE m.block[k]
  <2>1. pos + Len(<<v>>) <= Avail(m)
    BY <1>4, <1>6, <1>7
  <2>2. IsArr(c) /\ Avail(c) = Avail(b) /\ c.size = a.size /\ c.wild = FALSE
    BY <1>6, <1>8, <2>1 DEF Putted
  <2>3. \A k \in 1 .. Avail(b) : c.block[k] = IF k > pos /\ k <= pos + Len(<<v>>) THEN <<v>>[k - pos] ELSE m.block[k]
    BY <1>6, <1>8 DEF Putted
  <2> QED
    BY <2>2, <2>3, <1>7
<1>10. \A k \in 1 .. Avail(b) : c.block[k] = IF k = pos + 1 THEN v ELSE m.block[k]
  <2>1. \A k \in Nat : (k > pos /\ k <= pos + 1) <=> k = pos + 1
    OBVIOUS
  <2>2. (pos + 1) - pos = 1
    OBVIOUS
  <2> QED
    BY <1>4, <1>9, <1>7, <2>1, <2>2
<1>11. /\ t \in Seq(Cell) /\ Len(t) = Greater(Len(s), pos + 1) /\ Len(t) \in Nat
       /\ \A k \in 1 .. Len(t) : t[k] = IF k = pos + 1 THEN v ELSE IF k <= Len(s) THEN s[k] ELSE Null
  BY DEF SetList
<1>12. Len(t) <= Avail(b) /\ \A k \in 1 .. Len(t) : c.block[k] = t[k]
  <2>1. Len(t) <= Avail(b)
    BY <1>1, <1>4, <1>11 DEF Greater
  <2>2. ASSUME NEW k \in 1 .. Len(t) PROVE c.block[k] = t[k]
    <3>1. k \in 1 .. Avail(b) /\ k <= Greater(Len(s), pos + 1)
      BY <1>4, <1>11, <2>1
    <3>2. CASE k = pos + 1
      BY <3>1, <3>2, <1>10, <1>11
    <3>3. CASE k # pos + 1 /\ k <= Len(s)
      BY <3>1, <3>3, <1>1, <1>3, <1>6, <1>10, <1>11
    <3>4. CASE k # pos + 1 /\ ~(k <= Len(s))
      <4>1. k <= pos /\ k > a.size
        BY <3>1, <3>4, <1>1 DEF Greater
      <4> QED
        BY <3>1, <3>4, <4>1, <1>1, <1>6, <1>10, <1>11
    <3> QED
      BY <3>2, <3>3, <3>4
  <2> QED
    BY <2>1, <2>2
<1> PICK d : d = arrSet(a, pos, v)
  OBVIOUS
<1>13. d = IF pos + 1 > a.size THEN InUse(c, pos + 1) ELSE c
  BY <1>2 DEF arrSet
<1>14. CASE pos + 1 > a.size
  <2>1. Using(c, pos + 1, d)
    BY <1>9, <1>13, <1>14, InUseIs
  <2>2. Len(t) = pos + 1
    BY <1>1, <1>11, <1>14 DEF Greater
  <2>4. /\ IsArr(d) /\ Avail(d) = Avail(b) /\ d.size = Len(t) /\ d.wild = FALSE
        /\ \A k \in 1 .. Avail(b) : k <= Len(t) => d.block[k] = c.block[k]
    BY <2>1, <2>2, <1>9 DEF Using
  <2>5. \A k \in 1 .. Len(t) : d.block[k] = t[k]
    BY ONLY <2>4, <1>4, <1>11, <1>12
  <2>3. Holds(d, t) /\ Avail(d) = Avail(b)
    BY <2>4, <2>5, <1>11, <1>12 DEF Holds
  <2> QED
    BY <2>3, <1>3
<1>15. CASE ~(pos + 1 > a.size)
  <2>1. Len(t) = a.size
    BY <1>1, <1>11, <1>15 DEF Greater
  <2>2. Holds(d, t) /\ Avail(d) = Avail(b)
    BY <2>1, <1>13, <1>15, <1>4, <1>9, <1>11, <1>12 DEF Holds
  <2> QED
    BY <2>2, <1>3
<1> QED
  BY <1>14, <1>15

\* A fresh block holds nothing.
LEMMA NewHolds ==
  ASSUME NEW n \in Nat
  PROVE  Holds(newArr(n), <<>>) /\ Avail(newArr(n)) = n
<1>1. Copies(Junk, n) \in Seq(Slot) /\ Len(Copies(Junk, n)) = n
  BY CopiesIs, CellsAreSlots
<1> PICK b : b = newArr(n)
  OBVIOUS
<1>2. b.block = Copies(Junk, n) /\ b.size = 0 /\ b.wild = FALSE /\ IsArr(b)
  BY <1>1 DEF newArr, IsArr
<1>3. Avail(b) = n
  BY <1>1, <1>2 DEF Avail
<1>4. <<>> \in Seq(Cell) /\ Len(<<>>) = 0
  OBVIOUS
<1>5. Holds(b, <<>>)
  BY <1>2, <1>3, <1>4 DEF Holds
<1> QED
  BY <1>3, <1>5

\* c has the values of t, and n slots get in use.
LEMMA UsedHolds ==
  ASSUME NEW c, IsArr(c), c.wild = FALSE, NEW t \in Seq(Cell), Len(t) <= Avail(c),
         \A k \in 1 .. Len(t) : c.block[k] = t[k]
  PROVE  Holds(InUse(c, Len(t)), t) /\ Avail(InUse(c, Len(t))) = Avail(c)
<1> PICK d : d = InUse(c, Len(t))
  OBVIOUS
<1>1. Len(t) \in Nat /\ Avail(c) \in Nat
  BY ArrIs
<1>2. Using(c, Len(t), d)
  BY <1>1, InUseIs
<1>3. /\ IsArr(d) /\ Avail(d) = Avail(c) /\ d.size = Len(t) /\ d.wild = FALSE
      /\ \A k \in 1 .. Avail(c) : k <= Len(t) => d.block[k] = c.block[k]
  BY <1>2 DEF Using
<1>4. \A k \in 1 .. Len(t) : d.block[k] = t[k]
  BY ONLY <1>1, <1>3, \A k \in 1 .. Len(t) : c.block[k] = t[k], Len(t) <= Avail(c)
<1>5. Holds(d, t)
  BY <1>3, <1>4 DEF Holds
<1> QED
  BY <1>3, <1>5

AddList(s, v, t) == t \in Seq(Cell) /\ Len(t) = Len(s) + 1 /\ \A k \in 1 .. Len(t) : t[k] = IF k <= Len(s) THEN s[k] ELSE v
LEMMA AddHolds ==
  ASSUME NEW a, NEW s, Holds(a, s), NEW v \in Cell, NEW t, AddList(s, v, t)
  PROVE  Holds(arrAdd(a, v), t) /\ Avail(arrAdd(a, v)) \in Nat /\ Avail(a) <= Avail(arrAdd(a, v))
<1>1. /\ IsArr(a) /\ a.wild = FALSE /\ Avail(a) \in Nat /\ a.size \in Nat /\ a.size <= Avail(a) /\ Len(s) = a.size
      /\ \A k \in 1 .. Len(s) : a.block[k] = s[k] /\ s[k] \in Cell
  BY HoldsIs
<1> PICK sz : sz = a.size
  OBVIOUS
<1> PICK b : b = IF sz + 1 > Avail(a) THEN arrMakeRoom(a, sz + (IF sz > 0 THEN sz ELSE 1)) ELSE a
  OBVIOUS
<1>2. Holds(b, s) /\ Avail(b) \in Nat /\ Avail(a) <= Avail(b) /\ sz + 1 <= Avail(b)
  <2>1. CASE sz + 1 > Avail(a)
    <3> PICK r : r = sz + (IF sz > 0 THEN sz ELSE 1)
      OBVIOUS
    <3>1. r \in Nat /\ r >= sz + 1
      BY <1>1
    <3>2. b = arrMakeRoom(a, r)
      BY <2>1
    <3>3. Holds(b, s) /\ Avail(b) = Greater(Avail(a), r)
      BY <3>1, <3>2, RoomHolds
    <3>4. Avail(b) \in Nat /\ Avail(a) <= Avail(b) /\ sz + 1 <= Avail(b)
      BY ONLY <3>1, <3>3, <1>1, sz = a.size DEF Greater
    <3> QED
      BY <3>3, <3>4
  <2>2. CASE ~(sz + 1 > Avail(a))
    BY <1>1, <2>2
  <2> QED
    BY <2>1, <2>2
<1>3. /\ IsArr(b) /\ b.wild = FALSE /\ b.size = sz /\ \A k \in 1 .. Len(s) : b.block[k] = s[k]
  BY <1>1, <1>2 DEF Holds
<1> PICK c : c = Put(b, sz, <<v>>)
  OBVIOUS
<1>4. <<v>> \in Seq(Slot) /\ Len(<<v>>) = 1 /\ <<v>>[1] = v
  BY CellsAreSlots
<1>5. Putted(b, sz, <<v>>, c)
  BY <1>1, <1>3, <1>4, PutsIs
<1>6. IsArr(c) /\ Avail(c) = Avail(b) /\ c.wild = FALSE
  BY <1>2, <1>3, <1>4, <1>5 DEF Putted
<1>7. \A k \in 1 .. Avail(b) : c.block[k] = IF k > sz /\ k <= sz + 1 THEN <<v>>[k - sz] ELSE b.block[k]
  BY <1>4, <1>5 DEF Putted
<1>8. /\ t \in Seq(Cell) /\ Len(t) = sz + 1 /\ \A k \in 1 .. Len(t) : t[k] = IF k <= sz THEN s[k] ELSE v
  BY <1>1 DEF AddList
<1>9. ASSUME NEW k \in 1 .. Len(t) PROVE c.block[k] = t[k]
  <2>1. k \in 1 .. Avail(b) /\ k <= sz + 1 /\ sz \in Nat
    BY <1>1, <1>2, <1>8
  <2>2. CASE k <= sz
    <3>1. k \in 1 .. Len(s) /\ ~(k > sz)
      BY <1>1, <2>1, <2>2
    <3>2. c.block[k] = b.block[k] /\ b.block[k] = s[k] /\ t[k] = s[k]
      BY <3>1, <2>1, <2>2, <1>3, <1>7, <1>8
    <3> QED
      BY <3>2
  <2>3. CASE ~(k <= sz)
    <3>1. k = sz + 1 /\ k > sz /\ k - sz = 1
      BY <2>1, <2>3
    <3>2. c.block[k] = v
      BY <3>1, <2>1, <1>4, <1>7
    <3> QED
      BY <3>2, <2>3, <1>8
  <2> QED
    BY <2>2, <2>3
<1>10. arrAdd(a, v) = InUse(c, Len(t))
  BY <1>8 DEF arrAdd
<1>11. Len(t) <= Avail(c)
  BY <1>2, <1>6, <1>8
<1>12. Holds(InUse(c, Len(t)), t) /\ Avail(InUse(c, Len(t))) = Avail(c)
  BY <1>6, <1>8, <1>9, <1>11, UsedHolds
<1> QED
  BY <1>2, <1>6, <1>10, <1>12

\* arrForceSize.
ForceList(s, n, t) == t \in Seq(Cell) /\ Len(t) = n /\ \A k \in 1 .. n : t[k] = IF k <= Len(s) THEN s[k] ELSE Null
\* A block of exactly n slots, of which the first are those of e.
LEMMA BlockOf ==
  ASSUME NEW e \in Seq(Slot), NEW n \in Nat, NEW y, y = SubSeq(e \o Copies(Junk, n - Len(e)), 1, n)
  PROVE  y \in Seq(Slot) /\ Len(y) = n /\ \A k \in 1 .. n : k <= Len(e) => y[k] = e[k]
<1> PICK c : c = Copies(Junk, n - Len(e))
  OBVIOUS
<1>1. c \in Seq(Slot) /\ Len(c) = (IF n > Len(e) THEN n - Len(e) ELSE 0) /\ Len(e) \in Nat
  <2>1. Len(e) \in Nat
    OBVIOUS
  <2>2. PICK d : d = n - Len(e)
    OBVIOUS
  <2>3. d \in Int /\ Junk \in Slot
    BY <2>1, <2>2, CellsAreSlots
  <2>4. c = Copies(Junk, d)
    BY <2>2
  <2>5. Copies(Junk, d) \in Seq(Slot) /\ Len(Copies(Junk, d)) = IF d > 0 THEN d ELSE 0
    BY <2>3, CopiesIs
  <2>6. Len(c) = IF n > Len(e) THEN n - Len(e) ELSE 0
    BY ONLY <2>1, <2>2, <2>4, <2>5, n \in Nat
  <2> QED
    BY ONLY <2>1, <2>4, <2>5, <2>6
<1> PICK x : x = e \o c
  OBVIOUS
<1>2. /\ x \in Seq(Slot) /\ Len(x) = Len(e) + Len(c)
      /\ \A k \in 1 .. Len(e) + Len(c) : x[k] = IF k <= Len(e) THEN e[k] ELSE c[k - Len(e)]
  BY ONLY <1>1, e \in Seq(Slot), ConcatProperties, x = e \o c
<1>3. n <= Len(x)
  BY ONLY <1>1, <1>2, n \in Nat
<1>4. y = SubSeq(x, 1, n)
  OBVIOUS
<1>5. y \in Seq(Slot) /\ Len(y) = n /\ \A k \in 1 .. n : y[k] = x[k]
  BY ONLY <1>2, <1>3, <1>4, n \in Nat
<1>6. ASSUME NEW k \in 1 .. n, k <= Len(e) PROVE y[k] = e[k]
  <2>1. k \in 1 .. Len(e) + Len(c)
    BY ONLY <1>1, <1>6, k \in 1 .. n, n \in Nat
  <2> QED
    BY <1>2, <1>5, <1>6, <2>1
<1> QED
  BY <1>5, <1>6

\* b is a, whose block has n slots now; nulls are put where a was shorter than that.
LEMMA NullsFit ==
  ASSUME NEW b, IsArr(b), b.wild = FALSE, NEW n \in Nat, Avail(b) = n, NEW m, m = NullsTo(b, n)
  PROVE  /\ IsArr(m) /\ Avail(m) = n /\ m.wild = FALSE
         /\ \A k \in 1 .. n : m.block[k] = IF k > b.size THEN Null ELSE b.block[k]
<1>1. b.size \in Nat
  BY ArrIs
<1>2. CASE b.size <= n
  <2>1. Nulled(b, n, m)
    BY NullsAre
  <2> QED
    BY <1>1, <1>2, <2>1 DEF Nulled
<1>3. CASE ~(b.size <= n)
  <2>1. Copies(Null, n - b.size) = <<>>
    BY <1>1, <1>3 DEF Copies
  <2>2. m = Put(b, b.size, <<>>)
    BY <2>1 DEF NullsTo
  <2> PICK vs : vs = <<>>
    OBVIOUS
  <2>0. vs \in Seq(Slot)
    OBVIOUS
  <2>3. Putted(b, b.size, <<>>, m)
    BY <1>1, <2>0, <2>2, PutsIs
  <2>4. m.wild = FALSE
    BY <2>2 DEF Put, IsArr
  <2>5. \A k \in 1 .. n : ~(k > b.size)
    BY <1>1, <1>3
  <2>6. IsArr(m) /\ Avail(m) = n /\ \A k \in 1 .. n : m.block[k] = b.block[k]
    <3>1. Len(<<>>) = 0
      OBVIOUS
    <3> QED
      BY <2>3, <2>5, <3>1 DEF Putted
  <2> QED
    BY <2>4, <2>5, <2>6
<1> QED
  BY <1>2, <1>3

LEMMA ForceHolds ==
  ASSUME NEW a, NEW s, Holds(a, s), NEW n \in Nat, NEW t, ForceList(s, n, t)
  PROVE  Holds(arrForceSize(a, n), t) /\ Avail(arrForceSize(a, n)) = n
<1>1. /\ IsArr(a) /\ a.wild = FALSE /\ Avail(a) \in Nat /\ a.size \in Nat /\ a.size <= Avail(a) /\ Len(s) = a.size
      /\ \A k \in 1 .. Len(s) : a.block[k] = s[k] /\ s[k] \in Cell
  BY HoldsIs
<1> PICK e : e = a.block
  OBVIOUS
<1>2. e \in Seq(Slot) /\ Len(e) = Avail(a)
  BY <1>1, ArrIs
<1> PICK y : y = SubSeq(e \o Copies(Junk, n - Len(e)), 1, n)
  OBVIOUS
<1>3. y \in Seq(Slot) /\ Len(y) = n /\ \A k \in 1 .. n : k <= Len(e) => y[k] = e[k]
  BY <1>2, BlockOf
<1> PICK b : b = [a EXCEPT !.block = y]
  OBVIOUS
<1>4. IsArr(b) /\ Avail(b) = n /\ b.size = a.size /\ b.wild = FALSE /\ b.block = y
  BY <1>1, <1>3 DEF IsArr, Avail
<1> PICK m : m = NullsTo(b, n)
  OBVIOUS
<1>5. /\ IsArr(m) /\ Avail(m) = n /\ m.wild = FALSE
      /\ \A k \in 1 .. n : m.block[k] = IF k > a.size THEN Null ELSE y[k]
  <2>1. /\ IsArr(m) /\ Avail(m) = n /\ m.wild = FALSE
        /\ \A k \in 1 .. n : m.block[k] = IF k > b.size THEN Null ELSE b.block[k]
    BY ONLY <1>4, n \in Nat, m = NullsTo(b, n), NullsFit
  <2> QED
    BY ONLY <1>4, <2>1
<1>6. t \in Seq(Cell) /\ Len(t) = n /\ \A k \in 1 .. n : t[k] = IF k <= Len(s) THEN s[k] ELSE Null
  BY DEF ForceList
<1>7. ASSUME NEW k \in 1 .. Len(t) PROVE m.block[k] = t[k]
  <2>1. k \in 1 .. n
    BY <1>6
  <2>2. CASE k <= Len(s)
    <3>1. k \in 1 .. Len(s) /\ ~(k > a.size) /\ k <= Len(e)
      BY <1>1, <1>2, <2>1, <2>2
    <3>2. y[k] = e[k] /\ e[k] = s[k]
      BY <1>1, <1>3, <2>1, <3>1
    <3> QED
      BY <1>5, <1>6, <2>1, <2>2, <3>1, <3>2
  <2>3. CASE ~(k <= Len(s))
    <3>1. k > a.size
      BY <1>1, <2>1, <2>3
    <3> QED
      BY <1>5, <1>6, <2>1, <2>3, <3>1
  <2> QED
    BY <2>2, <2>3
<1>8. arrForceSize(a, n) = InUse(m, Len(t))
  BY <1>6 DEF arrForceSize
<1>9. Len(t) <= Avail(m)
  BY <1>5, <1>6
<1>10. Holds(InUse(m, Len(t)), t) /\ Avail(InUse(m, Len(t))) = Avail(m)
  BY ONLY <1>5, <1>6, <1>7, <1>9, UsedHolds
<1> QED
  BY ONLY <1>5, <1>8, <1>10

\* arrRpt.
RptList(s, pos, n, v, t) ==
  /\ t \in Seq(Cell) /\ Len(t) = Greater(Len(s), pos + n)
  /\ \A k \in 1 .. Len(t) : t[k] = IF k > pos /\ k <= pos + n THEN v ELSE IF k <= Len(s) THEN s[k] ELSE Null
LEMMA RptHolds ==
  ASSUME NEW a, NEW s, Holds(a, s), NEW pos \in Nat, NEW n \in Nat, pos + n < Width, NEW v \in Cell,
         NEW t, RptList(s, pos, n, v, t)
  PROVE  Holds(arrRpt(a, pos, n, v), t) /\ Avail(arrRpt(a, pos, n, v)) = Greater(Avail(a), pos + n)
<1>1. /\ IsArr(a) /\ a.wild = FALSE /\ Avail(a) \in Nat /\ a.size \in Nat /\ a.size <= Avail(a) /\ Len(s) = a.size
      /\ \A k \in 1 .. Len(s) : a.block[k] = s[k] /\ s[k] \in Cell
  BY HoldsIs
<1>2. Word(pos + n) = pos + n /\ ~(Word(pos + n) < n)
  BY WordIs
<1> PICK b : b = IF pos + n > Avail(a) THEN arrMakeRoom(a, pos + n) ELSE a
  OBVIOUS
<1>3. Holds(b, s) /\ Avail(b) = Greater(Avail(a), pos + n)
  <2>1. CASE pos + n > Avail(a)
    <3>1. b = arrMakeRoom(a, pos + n) /\ pos + n \in Int
      BY <2>1
    <3> QED
      BY <3>1, RoomHolds
  <2>2. CASE ~(pos + n > Avail(a))
    BY <2>2, <1>1 DEF Greater
  <2> QED
    BY <2>1, <2>2
<1>4. Avail(b) \in Nat /\ pos + n <= Avail(b) /\ a.size <= Avail(b) /\ pos <= Avail(b)
  BY ONLY <1>1, <1>3, pos \in Nat, n \in Nat DEF Greater
<1>5. IsArr(b) /\ b.wild = FALSE /\ b.size = a.size /\ \A k \in 1 .. Len(s) : b.block[k] = s[k]
  BY <1>1, <1>3 DEF Holds
<1> PICK m : m = NullsTo(b, pos)
  OBVIOUS
<1>6. Nulled(b, pos, m)
  BY <1>5, NullsAre
<1>7. IsArr(m) /\ Avail(m) = Avail(b) /\ m.size = a.size /\ m.wild = FALSE
  BY <1>4, <1>5, <1>6 DEF Nulled
<1>8. \A k \in 1 .. Avail(b) : m.block[k] = IF k > a.size /\ k <= pos THEN Null ELSE b.block[k]
  BY <1>5, <1>6 DEF Nulled
<1> PICK vs : vs = Copies(v, n)
  OBVIOUS
<1>9. vs \in Seq(Slot) /\ Len(vs) = n /\ \A k \in 1 .. n : vs[k] = v
  <2>1. v \in Slot /\ n \in Int
    BY CellsAreSlots
  <2>2. Len(vs) = (IF n > 0 THEN n ELSE 0) /\ vs \in Seq(Slot) /\ \A k \in 1 .. n : vs[k] = v
    BY <2>1, CopiesIs
  <2> QED
    BY <2>2
<1> PICK c : c = Put(m, pos, vs)
  OBVIOUS
<1>10. Putted(m, pos, vs, c)
  BY <1>7, <1>9, PutsIs
<1>11. IsArr(c) /\ Avail(c) = Avail(b) /\ c.size = a.size /\ c.wild = FALSE
  BY <1>4, <1>7, <1>9, <1>10 DEF Putted
<1>12. \A k \in 1 .. Avail(b) : c.block[k] = IF k > pos /\ k <= pos + n THEN vs[k - pos] ELSE m.block[k]
  BY <1>7, <1>9, <1>10 DEF Putted
<1>13. t \in Seq(Cell) /\ Len(t) = Greater(a.size, pos + n) /\ Len(t) \in Nat
  BY <1>1 DEF RptList
<1>14. \A k \in 1 .. Len(t) : t[k] = IF k > pos /\ k <= pos + n THEN v ELSE IF k <= Len(s) THEN s[k] ELSE Null
  BY DEF RptList
<1>15. Len(t) <= Avail(c)
  BY ONLY <1>1, <1>4, <1>11, <1>13, pos \in Nat, n \in Nat DEF Greater
<1>16. ASSUME NEW k \in 1 .. Len(t) PROVE c.block[k] = t[k]
  <2>1. k \in 1 .. Avail(b) /\ k \in Nat
    BY <1>4, <1>11, <1>13, <1>15
  <2>2. CASE k > pos /\ k <= pos + n
    <3>1. k - pos \in 1 .. n
      BY <2>1, <2>2
    <3> QED
      BY <3>1, <2>1, <2>2, <1>9, <1>12, <1>14
  <2>3. CASE ~(k > pos /\ k <= pos + n) /\ k <= Len(s)
    <3>1. c.block[k] = m.block[k] /\ t[k] = s[k]
      BY <2>1, <2>3, <1>12, <1>14
    <3>2. ~(k > a.size) /\ k \in 1 .. Len(s)
      BY <2>1, <2>3, <1>1
    <3> QED
      BY <3>1, <3>2, <2>1, <1>5, <1>8
  <2>4. CASE ~(k > pos /\ k <= pos + n) /\ ~(k <= Len(s))
    <3>1. c.block[k] = m.block[k] /\ t[k] = Null
      BY <2>1, <2>4, <1>12, <1>14
    <3>2. k > a.size
      BY <2>1, <2>4, <1>1
    <3>3. k <= a.size \/ k <= pos + n
      BY ONLY <2>1, <1>1, <1>13, k \in 1 .. Len(t), pos \in Nat, n \in Nat DEF Greater
    <3>4. k <= pos
      BY <3>2, <3>3, <2>1, <2>4, <1>1
    <3> QED
      BY <3>1, <3>2, <3>4, <2>1, <1>8
  <2> QED
    BY <2>2, <2>3, <2>4
<1> PICK d : d = arrRpt(a, pos, n, v)
  OBVIOUS
<1>17. d = IF pos + n > a.size THEN InUse(c, pos + n) ELSE c
  BY <1>2 DEF arrRpt
<1>18. CASE pos + n > a.size
  <2>1. Len(t) = pos + n
    BY <1>1, <1>13, <1>18 DEF Greater
  <2>2. d = InUse(c, Len(t))
    BY <2>1, <1>17, <1>18
  <2>3. Holds(d, t) /\ Avail(d) = Avail(c)
    BY <2>2, <1>11, <1>13, <1>15, <1>16, UsedHolds
  <2> QED
    BY <2>3, <1>3, <1>11
<1>19. CASE ~(pos + n > a.size)
  <2>1. Len(t) = a.size
    BY <1>1, <1>13, <1>19 DEF Greater
  <2>2. d = c
    BY <1>17, <1>19
  <2>3. Holds(d, t) /\ Avail(d) = Avail(c)
    BY <2>1, <2>2, <1>11, <1>13, <1>15, <1>16 DEF Holds
  <2> QED
    BY <2>3, <1>3, <1>11
<1> QED
  BY <1>18, <1>19

\* arrDel.
DelList(s, pos, n, t) ==
  /\ t \in Seq(Cell) /\ Len(t) = IF pos >= Len(s) THEN Len(s) ELSE IF pos + n < Len(s) THEN Len(s) - n ELSE pos
  /\ \A k \in 1 .. Len(t) : t[k] = IF pos >= Len(s) \/ k <= pos THEN s[k] ELSE s[k + n]
LEMMA DelHolds ==
  ASSUME NEW a, NEW s, Holds(a, s), NEW pos \in Nat, NEW n \in Nat, pos < Len(s) => pos + n < Width,
         NEW t, DelList(s, pos, n, t)
  PROVE  Holds(arrDel(a, pos, n), t) /\ Avail(arrDel(a, pos, n)) = Avail(a)
<1>1. /\ IsArr(a) /\ a.wild = FALSE /\ Avail(a) \in Nat /\ a.size \in Nat /\ a.size <= Avail(a) /\ Len(s) = a.size
      /\ s \in Seq(Cell) /\ \A k \in 1 .. Len(s) : a.block[k] = s[k] /\ s[k] \in Cell
  BY HoldsIs
<1>2. /\ t \in Seq(Cell) /\ Len(t) \in Nat
      /\ Len(t) = IF pos >= Len(s) THEN Len(s) ELSE IF pos + n < Len(s) THEN Len(s) - n ELSE pos
      /\ \A k \in 1 .. Len(t) : t[k] = IF pos >= Len(s) \/ k <= pos THEN s[k] ELSE s[k + n]
  BY DEF DelList
<1> PICK d : d = arrDel(a, pos, n)
  OBVIOUS
<1>3. CASE pos >= Len(s)
  <2>1. t = s
    BY <1>1, <1>2, <1>3
  <2>2. d = a
    BY <1>1, <1>3 DEF arrDel
  <2> QED
    BY <2>1, <2>2
<1>4. CASE pos < Len(s) /\ pos + n < Len(s)
  <2> PICK m : m = a.size - pos - n
    OBVIOUS
  <2>1. m \in Nat /\ Word(pos + n) = pos + n /\ ~(Word(pos + n) < n)
    BY <1>1, <1>4, WordIs
  <2> PICK c : c = Moved(a, pos, pos + n, m)
    OBVIOUS
  <2>2. Shifted(a, pos, pos + n, m, c)
    BY <1>1, <2>1, MovedIs
  <2>3. pos + m <= Avail(a)
    BY ONLY <1>1, <1>4, m = a.size - pos - n, pos \in Nat, n \in Nat
  <2>4. IsArr(c) /\ Avail(c) = Avail(a) /\ c.wild = FALSE
    BY <1>1, <2>2, <2>3 DEF Shifted
  <2>5. /\ \A k \in 1 .. Avail(a) : k <= pos \/ k > pos + m => c.block[k] = a.block[k]
        /\ \A k \in 1 .. Avail(a) :
             k > pos /\ k <= pos + m /\ (pos + n) + (k - pos) <= Avail(a) => c.block[k] = a.block[(pos + n) + (k - pos)]
    BY <2>2 DEF Shifted
  <2>6. Len(t) = a.size - n /\ Len(t) <= Avail(c)
    BY ONLY <1>1, <1>2, <1>4, <2>4, pos \in Nat, n \in Nat
  <2>7. ASSUME NEW k \in 1 .. Len(t) PROVE c.block[k] = t[k]
    <3>1. CASE k <= pos
      <4>1. k \in 1 .. Avail(a) /\ ~(k > pos) /\ k \in 1 .. Len(s)
        BY ONLY <1>1, <2>6, <3>1, k \in 1 .. Len(t), n \in Nat
      <4>2. c.block[k] = a.block[k]
        BY <4>1, <2>5, <3>1
      <4>3. t[k] = s[k]
        BY <1>2, <3>1
      <4> QED
        BY <4>1, <4>2, <4>3, <1>1
    <3>2. CASE ~(k <= pos)
      <4>1. k \in 1 .. Avail(a) /\ k > pos /\ k <= pos + m /\ (pos + n) + (k - pos) = k + n /\ k + n \in 1 .. Len(s) /\ k + n <= Avail(a)
        <5>1. k \in Nat /\ k > pos /\ k <= a.size - n
          BY ONLY <1>2, <2>6, <3>2, k \in 1 .. Len(t), pos \in Nat
        <5>2. k <= pos + m /\ (pos + n) + (k - pos) = k + n /\ k + n \in 1 .. Len(s) /\ k + n <= Avail(a)
          BY ONLY <5>1, <1>1, n \in Nat, pos \in Nat, m = a.size - pos - n
        <5> QED
          BY ONLY <5>1, <5>2, <1>1, n \in Nat, pos \in Nat
      <4>2. c.block[k] = a.block[k + n]
        BY <4>1, <2>5
      <4>3. t[k] = s[k + n]
        BY <1>1, <1>2, <1>4, <3>2
      <4> QED
        BY <4>1, <4>2, <4>3, <1>1
    <3> QED
      BY <3>1, <3>2
  <2>8. d = InUse(c, Len(t))
    BY <1>1, <1>4, <2>1, <2>6 DEF arrDel
  <2> QED
    BY <1>2, <2>4, <2>6, <2>7, <2>8, UsedHolds
<1>5. CASE pos < Len(s) /\ ~(pos + n < Len(s))
  <2>1. Word(pos + n) = pos + n /\ ~(Word(pos + n) < n)
    BY <1>1, <1>5, WordIs
  <2>2. Len(t) = pos /\ pos \in 0 .. Len(s) /\ \A k \in 1 .. pos : t[k] = s[k]
    <3>1. Len(t) = pos
      BY <1>1, <1>2, <1>5
    <3>2. pos \in 0 .. Len(s)
      BY <1>1, <1>5
    <3>3. \A k \in 1 .. pos : t[k] = s[k]
      BY <1>1, <1>2, <1>5, <3>1
    <3> QED
      BY <3>1, <3>2, <3>3
  <2>3. d = InUse(a, pos)
    BY <1>1, <1>5, <2>1 DEF arrDel
  <2> QED
    BY <1>2, <2>2, <2>3, FirstHold
<1> QED
  BY <1>1, <1>3, <1>4, <1>5

\* arrIns.
InsList(s, pos, n, v, t) ==
  /\ t \in Seq(Cell) /\ Len(t) = Len(s) + n
  /\ \A k \in 1 .. Len(t) : t[k] = IF k <= pos THEN s[k] ELSE IF k <= pos + n THEN v ELSE s[k - n]
LEMMA InsHolds ==
  ASSUME NEW a, NEW s, Holds(a, s), NEW n \in Nat, NEW pos \in 0 .. Len(s), Len(s) + n < Width, NEW v \in Cell,
         NEW t, InsList(s, pos, n, v, t)
  PROVE  Holds(arrIns(a, pos, n, v), t) /\ Avail(arrIns(a, pos, n, v)) = Greater(Avail(a), Len(s) + n)
<1>1. /\ IsArr(a) /\ a.wild = FALSE /\ Avail(a) \in Nat /\ a.size \in Nat /\ a.size <= Avail(a) /\ Len(s) = a.size
      /\ s \in Seq(Cell) /\ \A k \in 1 .. Len(s) : a.block[k] = s[k] /\ s[k] \in Cell
  BY HoldsIs
<1>2. pos \in Nat /\ pos <= a.size
  BY <1>1
<1>3. /\ t \in Seq(Cell) /\ Len(t) \in Nat /\ Len(t) = a.size + n
      /\ \A k \in 1 .. Len(t) : t[k] = IF k <= pos THEN s[k] ELSE IF k <= pos + n THEN v ELSE s[k - n]
  BY <1>1 DEF InsList
<1>4. /\ Word(a.size + n) = a.size + n /\ ~(Word(a.size + n) < n)
      /\ Word(pos + n) = pos + n /\ ~(Word(pos + n) < n)
  <2>1. a.size + n \in Nat /\ pos + n \in Nat /\ a.size + n < Width /\ pos + n < Width
    BY <1>1, <1>2, ConstantTypes
  <2>2. Word(a.size + n) = a.size + n /\ Word(pos + n) = pos + n
    BY <2>1, WordIs
  <2> QED
    BY <2>2, <1>1, <1>2
<1> PICK b : b = arrMakeRoom(a, n + a.size)
  OBVIOUS
<1>5. Holds(b, s) /\ Avail(b) = Greater(Avail(a), n + a.size)
  BY <1>1, RoomHolds
<1>6. IsArr(b) /\ b.wild = FALSE /\ b.size = a.size /\ \A k \in 1 .. Len(s) : b.block[k] = s[k]
  BY <1>1, <1>5 DEF Holds
<1>7. Avail(b) \in Nat /\ a.size + n <= Avail(b)
  BY ONLY <1>1, <1>5, n \in Nat DEF Greater
<1> PICK m : m = a.size - pos
  OBVIOUS
<1> PICK c : c = IF pos < a.size THEN Moved(b, pos + n, pos, m) ELSE b
  OBVIOUS
<1>8. m \in Nat
  BY <1>1, <1>2
<1>9. /\ IsArr(c) /\ Avail(c) = Avail(b) /\ c.wild = FALSE
      /\ \A k \in 1 .. Avail(b) : k <= pos => c.block[k] = b.block[k]
      /\ \A k \in 1 .. Avail(b) : k > pos + n /\ k <= a.size + n => c.block[k] = b.block[k - n]
  <2>1. CASE pos < a.size
    <3>1. Shifted(b, pos + n, pos, m, c)
      BY <1>2, <1>6, <1>8, <2>1, MovedIs
    <3>2. (pos + n) + m <= Avail(b)
      BY ONLY <1>1, <1>2, <1>7, m = a.size - pos, n \in Nat
    <3>3. IsArr(c) /\ Avail(c) = Avail(b) /\ c.wild = FALSE
      BY <3>1, <3>2, <1>6 DEF Shifted
    <3>4. /\ \A k \in 1 .. Avail(b) : k <= pos + n \/ k > (pos + n) + m => c.block[k] = b.block[k]
          /\ \A k \in 1 .. Avail(b) : k > pos + n /\ k <= (pos + n) + m /\ pos + (k - (pos + n)) <= Avail(b)
               => c.block[k] = b.block[pos + (k - (pos + n))]
      BY <3>1 DEF Shifted
    <3>5. ASSUME NEW k \in 1 .. Avail(b), k <= pos PROVE c.block[k] = b.block[k]
      <4>1. k <= pos + n
        BY <1>2, <1>7, <3>5
      <4> QED
        BY <4>1, <3>4
    <3>6. ASSUME NEW k \in 1 .. Avail(b), k > pos + n, k <= a.size + n PROVE c.block[k] = b.block[k - n]
      <4>1. k <= (pos + n) + m /\ pos + (k - (pos + n)) = k - n /\ k - n <= Avail(b)
        BY ONLY <1>1, <1>2, <1>7, <3>6, m = a.size - pos, n \in Nat
      <4> QED
        BY <4>1, <3>4, <3>6
    <3> QED
      BY <3>3, <3>5, <3>6
  <2>2. CASE ~(pos < a.size)
    <3>1. c = b /\ pos = a.size
      BY <1>1, <1>2, <2>2
    <3>2. \A k \in 1 .. Avail(b) : ~(k > pos + n /\ k <= a.size + n)
      BY <3>1, <1>1, <1>7
    <3> QED
      BY <3>1, <3>2, <1>6
  <2> QED
    BY <2>1, <2>2
<1> PICK e : e = [c EXCEPT !.size = a.size + n]
  OBVIOUS
<1>10. IsArr(e) /\ e.block = c.block /\ Avail(e) = Avail(b) /\ e.size = a.size + n /\ e.wild = FALSE
  BY <1>1, <1>9 DEF IsArr, Avail
<1> PICK f : f = NullsTo(e, pos)
  OBVIOUS
<1>11. Nulled(e, pos, f)
  BY <1>2, <1>10, NullsAre
<1>12. /\ IsArr(f) /\ Avail(f) = Avail(b) /\ f.size = a.size + n /\ f.wild = FALSE
  <2>1. e.size <= Avail(e) /\ pos <= Avail(e)
    BY <1>1, <1>2, <1>7, <1>10
  <2> QED
    BY <1>10, <1>11, <2>1 DEF Nulled
<1>13. \A k \in 1 .. Avail(b) : f.block[k] = c.block[k]
  <2>1. \A k \in 1 .. Avail(b) : f.block[k] = IF k > e.size /\ k <= pos THEN Null ELSE e.block[k]
    BY <1>10, <1>11 DEF Nulled
  <2>2. \A k \in 1 .. Avail(b) : ~(k > e.size /\ k <= pos)
    BY <1>1, <1>2, <1>7, <1>10
  <2> QED
    BY <2>1, <2>2, <1>10
<1> PICK vs : vs = Copies(v, n)
  OBVIOUS
<1>14. vs \in Seq(Slot) /\ Len(vs) = n /\ \A k \in 1 .. n : vs[k] = v
  <2>1. v \in Slot /\ n \in Int
    BY CellsAreSlots
  <2>2. Len(vs) = (IF n > 0 THEN n ELSE 0) /\ vs \in Seq(Slot) /\ \A k \in 1 .. n : vs[k] = v
    BY <2>1, CopiesIs
  <2> QED
    BY <2>2
<1> PICK g : g = Put(f, pos, vs)
  OBVIOUS
<1>15. Putted(f, pos, vs, g)
  BY <1>2, <1>12, <1>14, PutsIs
<1>16. IsArr(g) /\ Avail(g) = Avail(b) /\ g.size = a.size + n /\ g.wild = FALSE
  <2>1. pos + Len(vs) <= Avail(f)
    BY <1>1, <1>2, <1>7, <1>12, <1>14
  <2> QED
    BY <1>12, <1>15, <2>1 DEF Putted
<1>17. \A k \in 1 .. Avail(b) : g.block[k] = IF k > pos /\ k <= pos + n THEN vs[k - pos] ELSE c.block[k]
  <2>1. \A k \in 1 .. Avail(f) : g.block[k] = IF k > pos /\ k <= pos + Len(vs) THEN vs[k - pos] ELSE f.block[k]
    BY <1>15 DEF Putted
  <2> QED
    BY <2>1, <1>12, <1>13, <1>14
<1>18. ASSUME NEW k \in 1 .. Len(t) PROVE g.block[k] = t[k]
  <2>1. k \in 1 .. Avail(b) /\ k <= a.size + n
    BY <1>1, <1>3, <1>7
  <2>2. CASE k <= pos
    <3>1. k \in 1 .. Len(s) /\ ~(k > pos)
      BY <1>1, <1>2, <2>1, <2>2
    <3>2. g.block[k] = c.block[k] /\ c.block[k] = b.block[k] /\ b.block[k] = s[k] /\ t[k] = s[k]
      BY <3>1, <2>1, <2>2, <1>3, <1>6, <1>9, <1>17
    <3> QED
      BY <3>2
  <2>3. CASE k > pos /\ k <= pos + n
    <3>1. k - pos \in 1 .. n /\ ~(k <= pos)
      BY <1>2, <2>1, <2>3
    <3>2. g.block[k] = vs[k - pos] /\ t[k] = v
      BY <3>1, <2>1, <2>3, <1>3, <1>17
    <3> QED
      BY <3>1, <3>2, <1>14
  <2>4. CASE k > pos + n
    <3>1. k - n \in 1 .. Len(s) /\ ~(k <= pos) /\ ~(k <= pos + n)
      BY <1>1, <1>2, <2>1, <2>4
    <3>2. g.block[k] = c.block[k] /\ c.block[k] = b.block[k - n] /\ b.block[k - n] = s[k - n] /\ t[k] = s[k - n]
      BY <3>1, <2>1, <2>4, <1>3, <1>6, <1>9, <1>17
    <3> QED
      BY <3>2
  <2> QED
    BY <2>1, <2>2, <2>3, <2>4, <1>2
<1>19. arrIns(a, pos, n, v) = arrRpt(e, pos, n, v)
  BY <1>4 DEF arrIns
<1>20. arrRpt(e, pos, n, v) = g
  <2>1. ~(pos + n > Avail(e)) /\ ~(pos + n > e.size)
    BY <1>1, <1>2, <1>7, <1>10
  <2> QED
    BY <2>1, <1>4 DEF arrRpt
<1>21. Holds(g, t)
  <2>1. g.size = Len(t) /\ g.size <= Avail(g)
    BY <1>3, <1>7, <1>16
  <2> QED
    BY <2>1, <1>3, <1>16, <1>18 DEF Holds
<1>22. Avail(g) = Greater(Avail(a), Len(s) + n)
  <2>1. n + a.size = Len(s) + n
    BY <1>1
  <2> QED
    BY <2>1, <1>5, <1>16
<1> QED
  BY <1>19, <1>20, <1>21, <1>22

\* arrSub.
SubList(s, pos, n, u, pos2, n2, t) ==
  /\ t \in Seq(Cell) /\ Len(t) = Len(s) - n + n2
  /\ \A k \in 1 .. Len(t) : t[k] = IF k <= pos THEN s[k] ELSE IF k <= pos + n2 THEN u[pos2 + (k - pos)] ELSE s[k - n2 + n]
\* What may be asked of it.
SubAsked(a, s, pos, n, x, u, same, pos2, n2) ==
  /\ Holds(a, s) /\ pos \in 0 .. Len(s) /\ n \in 0 .. Len(s) - pos
  /\ Holds(x, u) /\ pos2 \in Nat /\ n2 \in Nat /\ (n2 > 0 => pos2 + n2 <= Len(u))
  /\ same \in BOOLEAN /\ (same => u = s /\ Apart(a, pos, n, pos2, n2))
  /\ Len(s) + n2 < Width
LEMMA SubHolds ==
  ASSUME NEW a, NEW s, NEW pos, NEW n, NEW x, NEW u, NEW same, NEW pos2, NEW n2, NEW t,
         SubAsked(a, s, pos, n, x, u, same, pos2, n2), SubList(s, pos, n, u, pos2, n2, t)
  PROVE  /\ Holds(arrSub(a, pos, n, x, same, pos2, n2), t)
         /\ Avail(arrSub(a, pos, n, x, same, pos2, n2)) = Greater(Avail(a), Len(s) - n + n2)
<1>1. /\ IsArr(a) /\ a.wild = FALSE /\ Avail(a) \in Nat /\ a.size \in Nat /\ a.size <= Avail(a) /\ Len(s) = a.size
      /\ s \in Seq(Cell) /\ \A k \in 1 .. Len(s) : a.block[k] = s[k] /\ s[k] \in Cell
  BY HoldsIs DEF SubAsked
<1>2. pos \in Nat /\ pos <= a.size /\ n \in Nat /\ pos + n <= a.size /\ pos2 \in Nat /\ n2 \in Nat /\ a.size + n2 < Width
  BY <1>1 DEF SubAsked
<1> PICK left : left = a.size - n + n2
  OBVIOUS
<1>3. left \in Nat /\ left >= n2 /\ left < Width /\ Width \in Nat
  <2>1. PICK sz : sz = a.size
    OBVIOUS
  <2>2. sz \in Nat /\ n \in Nat /\ n2 \in Nat /\ pos \in Nat /\ pos + n <= sz /\ sz + n2 < Width /\ left = sz - n + n2
    BY <1>1, <1>2, <2>1
  <2>3. Width \in Nat
    BY ConstantTypes
  <2> QED
    BY ONLY <2>2, <2>3
<1>4. /\ t \in Seq(Cell) /\ Len(t) = left
      /\ \A k \in 1 .. left : t[k] = IF k <= pos THEN s[k] ELSE IF k <= pos + n2 THEN u[pos2 + (k - pos)] ELSE s[k - n2 + n]
  BY <1>1 DEF SubList
<1>5. Word(a.size - n + n2) = left /\ ~(left < n2)
  <2>1. Word(left) = left
    BY <1>3, WordIs
  <2>2. ~(left < n2)
    BY <1>2, <1>3
  <2> QED
    BY <2>1, <2>2
<1>6. Word(pos + n2) = pos + n2 /\ Word(pos + n) = pos + n
  <2>1. pos + n2 \in Nat /\ pos + n \in Nat /\ pos + n2 < Width /\ pos + n < Width
    BY <1>1, <1>2, ConstantTypes
  <2> QED
    BY <2>1, WordIs
<1> PICK b : b = arrMakeRoom(a, left)
  OBVIOUS
<1>7. Holds(b, s) /\ Avail(b) = Greater(Avail(a), left)
  <2>1. Holds(a, s) /\ left \in Int
    BY <1>3 DEF SubAsked
  <2> QED
    BY <2>1, RoomHolds
<1>8. IsArr(b) /\ b.wild = FALSE /\ b.size = a.size /\ \A k \in 1 .. Len(s) : b.block[k] = s[k]
  BY <1>1, <1>7 DEF Holds
<1>9. Avail(b) \in Nat /\ left <= Avail(b) /\ a.size <= Avail(b)
  BY ONLY <1>1, <1>3, <1>7 DEF Greater
<1> PICK m : m = a.size - pos - n
  OBVIOUS
<1>10. m \in Nat /\ (pos + n2) + m = left
  BY ONLY <1>1, <1>2, m = a.size - pos - n, left = a.size - n + n2
<1> PICK c : c = IF n # n2 /\ pos < a.size THEN Moved(b, pos + n2, pos + n, m) ELSE b
  OBVIOUS
<1>11. /\ IsArr(c) /\ Avail(c) = Avail(b) /\ c.size = a.size /\ c.wild = FALSE
       /\ \A k \in 1 .. Avail(b) : k <= pos + n2 \/ k > left \/ n = n2 => c.block[k] = b.block[k]
       /\ \A k \in 1 .. Avail(b) : k > pos + n2 /\ k <= left => c.block[k] = b.block[k - n2 + n]
  <2>1. CASE n # n2 /\ pos < a.size
    <3>1. Shifted(b, pos + n2, pos + n, m, c)
      BY <1>2, <1>8, <1>10, <2>1, MovedIs
    <3>2. IsArr(c) /\ Avail(c) = Avail(b) /\ c.size = a.size /\ c.wild = FALSE
      BY <3>1, <1>8, <1>9, <1>10 DEF Shifted
    <3>3. \A k \in 1 .. Avail(b) : k <= pos + n2 \/ k > left => c.block[k] = b.block[k]
      BY <3>1, <1>10 DEF Shifted
    <3>4. \A k \in 1 .. Avail(b) : k > pos + n2 /\ k <= left /\ (pos + n) + (k - (pos + n2)) <= Avail(b)
             => c.block[k] = b.block[(pos + n) + (k - (pos + n2))]
      BY <3>1, <1>10 DEF Shifted
    <3>5. ASSUME NEW k \in 1 .. Avail(b), k > pos + n2, k <= left PROVE c.block[k] = b.block[k - n2 + n]
      <4>1. (pos + n) + (k - (pos + n2)) = k - n2 + n
        BY ONLY <1>2, <1>9, k \in 1 .. Avail(b)
      <4>2. (pos + n) + (k - (pos + n2)) <= Avail(b)
        BY ONLY <1>1, <1>2, <1>9, <3>5, left = a.size - n + n2
      <4>3. c.block[k] = b.block[(pos + n) + (k - (pos + n2))]
        BY <3>4, <3>5, <4>2
      <4> QED
        BY <4>1, <4>3
    <3> QED
      BY <2>1, <3>2, <3>3, <3>5
  <2>2. CASE n = n2
    <3>1. c = b
      BY <2>2
    <3>2. \A k \in 1 .. Avail(b) : k - n2 + n = k
      BY <1>2, <1>9, <2>2
    <3> QED
      BY <3>1, <3>2, <1>8
  <2>3. CASE ~(pos < a.size)
    <3>1. c = b
      BY <2>3
    <3>2. \A k \in 1 .. Avail(b) : ~(k > pos + n2 /\ k <= left)
      BY ONLY <1>1, <1>2, <1>9, <2>3, left = a.size - n + n2
    <3> QED
      BY <3>1, <3>2, <1>8
  <2> QED
    BY <2>1, <2>2, <2>3
<1> PICK d : d = NullsTo(c, pos)
  OBVIOUS
<1>12. Nulled(c, pos, d)
  BY <1>2, <1>11, NullsAre
<1>13. IsArr(d) /\ Avail(d) = Avail(b) /\ d.size = a.size /\ d.wild = FALSE
  <2>1. c.size <= Avail(c) /\ pos <= Avail(c)
    BY <1>1, <1>2, <1>9, <1>11
  <2> QED
    BY <1>11, <1>12, <2>1 DEF Nulled
<1>14. \A k \in 1 .. Avail(b) : d.block[k] = c.block[k]
  <2>1. \A k \in 1 .. Avail(b) : d.block[k] = IF k > a.size /\ k <= pos THEN Null ELSE c.block[k]
    BY <1>11, <1>12 DEF Nulled
  <2>2. \A k \in 1 .. Avail(b) : ~(k > a.size /\ k <= pos)
    BY <1>1, <1>2, <1>9
  <2> QED
    BY <2>1, <2>2
<1> PICK y : y = IF same THEN d ELSE x
  OBVIOUS
<1>15. IsArr(y) /\ \A k \in 1 .. n2 : pos2 + k <= Avail(y) /\ y.block[pos2 + k] = u[pos2 + k]
  <2>1. CASE same
    <3>1. u = s /\ Apart(a, pos, n, pos2, n2) /\ (n2 > 0 => pos2 + n2 <= Len(s))
      BY <2>1 DEF SubAsked
    <3>2. ASSUME NEW k \in 1 .. n2 PROVE pos2 + k <= Avail(d) /\ d.block[pos2 + k] = u[pos2 + k]
      <4>1. n2 > 0 /\ k <= n2 /\ k \in Nat
        BY <1>2
      <4>2. pos2 + k \in 1 .. Len(s) /\ pos2 + k \in 1 .. Avail(b)
        <5>1. pos2 + n2 <= Len(s) /\ Len(s) \in Nat /\ pos2 \in Nat /\ n2 \in Nat /\ Len(s) <= Avail(b)
          BY <3>1, <4>1, <1>1, <1>2, <1>9
        <5>2. pos2 + k \in Nat /\ pos2 + k >= 1 /\ pos2 + k <= Len(s)
          BY ONLY <5>1, <4>1, k \in 1 .. n2
        <5> QED
          BY ONLY <5>1, <5>2, <1>9
      <4>3. n = n2 \/ pos2 + k <= pos + n2 \/ pos2 + k > left
        <5>1. SUFFICES ASSUME n # n2, pos2 + k > pos + n2, pos2 + k <= left PROVE FALSE
          BY <1>2, <1>3, <4>1
        <5>2. (pos + n2 .. a.size - n + n2 - 1) \cap (pos2 .. pos2 + n2 - 1) = {}
          BY <3>1, <5>1 DEF Apart
        <5>3. pos2 + k - 1 \in pos2 .. pos2 + n2 - 1
          BY <4>1, <1>2
        <5>4. pos2 + k - 1 \in pos + n2 .. a.size - n + n2 - 1
          <6>1. pos2 + k - 1 \in Int /\ pos + n2 \in Int /\ a.size - n + n2 - 1 \in Int
            BY ONLY <4>1, <1>1, <1>2
          <6>2. pos + n2 <= pos2 + k - 1 /\ pos2 + k - 1 <= a.size - n + n2 - 1
            BY ONLY <4>1, <1>1, <1>2, <5>1, left = a.size - n + n2
          <6> QED
            BY ONLY <6>1, <6>2
        <5> QED
          BY <5>2, <5>3, <5>4
      <4>4. c.block[pos2 + k] = b.block[pos2 + k]
        BY <4>2, <4>3, <1>11
      <4> QED
        BY <4>2, <4>4, <3>1, <1>8, <1>13, <1>14
    <3> QED
      BY <2>1, <3>2, <1>13
  <2>2. CASE ~same
    <3>1. y = x /\ Holds(x, u) /\ (n2 > 0 => pos2 + n2 <= Len(u))
      BY <2>2 DEF SubAsked
    <3>2. IsArr(x) /\ Avail(x) \in Nat /\ Len(u) \in Nat /\ Len(u) <= Avail(x) /\ \A k \in 1 .. Len(u) : x.block[k] = u[k]
      BY <3>1, HoldsIs
    <3>3. ASSUME NEW k \in 1 .. n2 PROVE pos2 + k \in 1 .. Len(u) /\ pos2 + k <= Avail(x)
      BY <3>1, <3>2, <1>2
    <3> QED
      BY <3>1, <3>2, <3>3
  <2> QED
    BY <2>1, <2>2 DEF SubAsked
<1> PICK vs : vs = Slots(y, pos2, n2)
  OBVIOUS
<1>16. vs \in Seq(Slot) /\ Len(vs) = n2 /\ \A k \in 1 .. n2 : vs[k] = u[pos2 + k]
  <2>1. /\ vs \in Seq(Slot) /\ Len(vs) = n2
        /\ \A k \in 1 .. n2 : pos2 + k <= Avail(y) => vs[k] = y.block[pos2 + k]
    BY <1>2, <1>15, SlotsAre
  <2> QED
    BY <2>1, <1>15
<1> PICK g : g = Put(d, pos, vs)
  OBVIOUS
<1>17. Putted(d, pos, vs, g)
  BY <1>2, <1>13, <1>16, PutsIs
<1>18. IsArr(g) /\ Avail(g) = Avail(b) /\ g.wild = FALSE
  <2>1. pos + Len(vs) <= Avail(d)
    BY ONLY <1>1, <1>2, <1>9, <1>13, <1>16, left = a.size - n + n2
  <2> QED
    BY <1>13, <1>17, <2>1 DEF Putted
<1>19. \A k \in 1 .. Avail(b) : g.block[k] = IF k > pos /\ k <= pos + n2 THEN vs[k - pos] ELSE c.block[k]
  <2>1. \A k \in 1 .. Avail(b) : g.block[k] = IF k > pos /\ k <= pos + n2 THEN vs[k - pos] ELSE d.block[k]
    BY <1>13, <1>16, <1>17 DEF Putted
  <2> QED
    BY <2>1, <1>14
<1>20. ASSUME NEW k \in 1 .. Len(t) PROVE g.block[k] = t[k]
  <2>1. k \in 1 .. Avail(b) /\ k <= left /\ k \in 1 .. left
    BY <1>3, <1>4, <1>9
  <2>2. CASE k <= pos
    <3>1. k \in 1 .. Len(s) /\ ~(k > pos) /\ k <= pos + n2
      BY <1>1, <1>2, <2>1, <2>2
    <3>2. g.block[k] = c.block[k] /\ c.block[k] = b.block[k] /\ b.block[k] = s[k] /\ t[k] = s[k]
      BY <3>1, <2>1, <2>2, <1>4, <1>8, <1>11, <1>19
    <3> QED
      BY <3>2
  <2>3. CASE k > pos /\ k <= pos + n2
    <3>1. k - pos \in 1 .. n2 /\ ~(k <= pos)
      BY <1>2, <2>1, <2>3
    <3>2. g.block[k] = vs[k - pos] /\ t[k] = u[pos2 + (k - pos)]
      BY <3>1, <2>1, <2>3, <1>4, <1>19
    <3> QED
      BY <3>1, <3>2, <1>16
  <2>4. CASE k > pos + n2
    <3>1. k - n2 + n \in 1 .. Len(s) /\ ~(k <= pos) /\ ~(k <= pos + n2)
      BY ONLY <1>1, <1>2, <2>1, <2>4, left = a.size - n + n2
    <3>2. g.block[k] = c.block[k] /\ c.block[k] = b.block[k - n2 + n] /\ b.block[k - n2 + n] = s[k - n2 + n] /\ t[k] = s[k - n2 + n]
      BY <3>1, <2>1, <2>4, <1>4, <1>8, <1>11, <1>19
    <3> QED
      BY <3>2
  <2> QED
    BY <2>1, <2>2, <2>3, <2>4, <1>2
<1>21. arrSub(a, pos, n, x, same, pos2, n2) = InUse(g, Len(t))
  BY <1>4, <1>5, <1>6 DEF arrSub
<1>22. Len(t) <= Avail(g)
  BY <1>4, <1>9, <1>18
<1>23. Holds(InUse(g, Len(t)), t) /\ Avail(InUse(g, Len(t))) = Avail(g)
  BY <1>4, <1>18, <1>20, <1>22, UsedHolds
<1> QED
  BY <1>1, <1>7, <1>18, <1>21, <1>23

(***************************************************************************)
(* Operations that are repeated.                                           *)
(***************************************************************************)
ArrSet == [block : Seq(Slot), size : Nat, wild : BOOLEAN]
Held(b, s, A) == b \in ArrSet /\ Holds(b, s) /\ A <= Avail(b)
LEMMA HeldIs == ASSUME NEW b, NEW s, Holds(b, s), NEW A, A <= Avail(b) PROVE Held(b, s, A)
BY DEF Held, Holds, IsArr, ArrSet

\* Rounds G of a loop take an array that holds S[0] to one that holds S[n].
Passing(n, S, A, a, G) ==
  /\ n \in Nat /\ Held(a, S[0], A)
  /\ \A k \in 1 .. n : \A b \in ArrSet : Held(b, S[k - 1], A) => Held(G[<<k, b>>], S[k], A)
LEMMA LoopPasses ==
  ASSUME NEW n, NEW S, NEW A, NEW a, NEW G, Passing(n, S, A, a, G)
  PROVE  \E f : Looping(n, a, G, f) /\ \A k \in 0 .. n : Held(f[k], S[k], A)
<1> PICK P : P = [k \in 0 .. n |-> {b \in ArrSet : Held(b, S[k], A)}]
  OBVIOUS
<1>1. n \in Nat /\ a \in P[0]
  BY DEF Passing, Held
<1>2. ASSUME NEW k \in 1 .. n, NEW b \in P[k - 1] PROVE G[<<k, b>>] \in P[k]
  <2>1. k - 1 \in 0 .. n /\ k \in 0 .. n
    BY <1>1
  <2>2. b \in ArrSet /\ Held(b, S[k - 1], A)
    BY <2>1, <1>2
  <2>3. Held(G[<<k, b>>], S[k], A)
    BY <2>2 DEF Passing
  <2>4. G[<<k, b>>] \in ArrSet
    BY <2>3 DEF Held
  <2> QED
    BY <2>1, <2>3, <2>4
<1>3. Loops(n, P, a, G)
  BY <1>1, <1>2 DEF Loops
<1>4. PICK f : Looping(n, a, G, f) /\ \A k \in 0 .. n : f[k] \in P[k]
  BY <1>3, Looped
<1>5. \A k \in 0 .. n : Held(f[k], S[k], A)
  BY <1>4
<1> QED
  BY <1>4, <1>5

Staying(n, S, A, f) == n \in Nat /\ Held(f[0], S[0], A) /\ \A k \in 1 .. n : Held(f[k - 1], S[k - 1], A) => Held(f[k], S[k], A)
LEMMA LoopStays ==
  ASSUME NEW n, NEW S, NEW A, NEW f, Staying(n, S, A, f)
  PROVE  \A k \in 0 .. n : Held(f[k], S[k], A)
<1> PICK P : P = [k \in 0 .. n |-> {b \in ArrSet : Held(b, S[k], A)}]
  OBVIOUS
<1>1. n \in Nat /\ f[0] \in P[0]
  BY DEF Staying, Held
<1>2. ASSUME NEW k \in 1 .. n, f[k - 1] \in P[k - 1] PROVE f[k] \in P[k]
  <2>1. k - 1 \in 0 .. n /\ k \in 0 .. n
    BY <1>1
  <2>2. Held(f[k - 1], S[k - 1], A)
    BY <2>1, <1>2
  <2>3. Held(f[k], S[k], A)
    BY <2>2 DEF Staying
  <2>4. f[k] \in ArrSet
    BY <2>3 DEF Held
  <2> QED
    BY <2>1, <2>3, <2>4
<1>3. Keeping(n, P, f)
  BY <1>1, <1>2 DEF Keeping
<1>4. \A k \in 0 .. n : f[k] \in P[k]
  BY <1>3, Kept
<1> QED
  BY <1>4

Same(s, t) == s \in Seq(Cell) /\ t \in Seq(Cell) /\ Len(s) = Len(t) /\ \A i \in 1 .. Len(t) : s[i] = t[i]
LEMMA SameSeq == ASSUME NEW s, NEW t, Same(s, t) PROVE s = t
BY DEF Same

\* list_append.
AppendList(s, vs, t) ==
  t \in Seq(Cell) /\ Len(t) = Len(s) + Len(vs) /\ \A i \in 1 .. Len(t) : t[i] = IF i <= Len(s) THEN s[i] ELSE vs[i - Len(s)]
LEMMA AppendHolds ==
  ASSUME NEW a, NEW s, Holds(a, s), NEW vs \in Seq(Cell), NEW t, AppendList(s, vs, t)
  PROVE  Held(Loop(a, Len(vs), LAMBDA b, k : arrAdd(b, vs[k])), t, Avail(a))
<1> PICK n : n = Len(vs)
  OBVIOUS
<1> PICK A : A = Avail(a)
  OBVIOUS
<1>1. /\ n \in Nat /\ A \in Nat /\ Len(s) \in Nat /\ \A i \in 1 .. n : vs[i] \in Cell
      /\ \A i \in 1 .. Len(s) : s[i] \in Cell
  <2>1. Len(s) \in Nat /\ A \in Nat /\ \A i \in 1 .. Len(s) : s[i] \in Cell
    BY HoldsIs
  <2> QED
    BY <2>1
<1> DEFINE N(k) == [i \in 1 .. Len(s) + k |-> IF i <= Len(s) THEN s[i] ELSE vs[i - Len(s)]]
<1> PICK S : S = [k \in 0 .. n |-> N(k)]
  OBVIOUS
<1>2. ASSUME NEW k \in 0 .. n
      PROVE  /\ S[k] \in Seq(Cell) /\ Len(S[k]) = Len(s) + k
             /\ \A i \in 1 .. Len(s) + k : S[k][i] = IF i <= Len(s) THEN s[i] ELSE vs[i - Len(s)]
  <2>1. ASSUME NEW i \in 1 .. Len(s) + k PROVE (IF i <= Len(s) THEN s[i] ELSE vs[i - Len(s)]) \in Cell
    <3>1. ~(i <= Len(s)) => i - Len(s) \in 1 .. n
      BY <1>1
    <3> QED
      BY <1>1, <3>1
  <2>2. N(k) \in [1 .. Len(s) + k -> Cell] /\ Len(s) + k \in Nat
    BY <2>1, <1>1
  <2> QED
    BY <2>2, FunSeq
<1> HIDE DEF N
<1>3. Held(a, S[0], A)
  <2>1. S[0] = s
    <3>1. s \in Seq(Cell)
      BY HoldsIs
    <3>2. 0 \in 0 .. n /\ Len(s) + 0 = Len(s)
      BY <1>1
    <3> QED
      BY <3>1, <3>2, <1>1, <1>2
  <2> QED
    BY <2>1, <1>1, HeldIs
<1>4. ASSUME NEW k \in 1 .. n, NEW b \in ArrSet, Held(b, S[k - 1], A) PROVE Held(arrAdd(b, vs[k]), S[k], A)
  <2>1. k - 1 \in 0 .. n /\ k \in 0 .. n /\ vs[k] \in Cell
    BY <1>1
  <2>2. /\ Len(S[k]) = Len(S[k - 1]) + 1 /\ S[k] \in Seq(Cell) /\ Len(S[k - 1]) = Len(s) + k - 1
        /\ \A i \in 1 .. Len(S[k]) : S[k][i] = IF i <= Len(S[k - 1]) THEN S[k - 1][i] ELSE vs[k]
    <3>1. Len(S[k]) = Len(s) + k /\ Len(S[k - 1]) = Len(s) + k - 1
      BY <1>1, <1>2, <2>1
    <3>2. \A i \in 1 .. Len(s) + k : S[k][i] = IF i <= Len(s) THEN s[i] ELSE vs[i - Len(s)]
      BY <1>2, <2>1
    <3>3. \A i \in 1 .. Len(s) + (k - 1) : S[k - 1][i] = IF i <= Len(s) THEN s[i] ELSE vs[i - Len(s)]
      BY <1>2, <2>1
    <3>4. ASSUME NEW i \in 1 .. Len(S[k]) PROVE S[k][i] = IF i <= Len(S[k - 1]) THEN S[k - 1][i] ELSE vs[k]
      <4>1. CASE i <= Len(S[k - 1])
        <5>1. i \in 1 .. Len(s) + (k - 1) /\ i \in 1 .. Len(s) + k
          BY <1>1, <3>1, <4>1
        <5> QED
          BY <5>1, <4>1, <3>2, <3>3
      <4>2. CASE ~(i <= Len(S[k - 1]))
        <5>1. i = Len(s) + k /\ i \in 1 .. Len(s) + k /\ ~(i <= Len(s)) /\ i - Len(s) = k
          BY <1>1, <3>1, <4>2
        <5> QED
          BY <5>1, <4>2, <3>2
      <4> QED
        BY <4>1, <4>2
    <3>5. Len(s) + k = (Len(s) + k - 1) + 1
      BY <1>1
    <3> QED
      BY <3>1, <3>4, <3>5, <1>2, <2>1
  <2>3. Holds(b, S[k - 1]) /\ A <= Avail(b) /\ Avail(b) \in Nat
    BY <1>4, HoldsIs DEF Held
  <2>4. AddList(S[k - 1], vs[k], S[k])
    BY <2>2 DEF AddList
  <2>5. Holds(arrAdd(b, vs[k]), S[k]) /\ Avail(arrAdd(b, vs[k])) \in Nat /\ Avail(b) <= Avail(arrAdd(b, vs[k]))
    BY <2>1, <2>3, <2>4, AddHolds
  <2>6. A <= Avail(arrAdd(b, vs[k]))
    BY <1>1, <2>3, <2>5
  <2> QED
    BY <2>5, <2>6, HeldIs
<1> PICK G : G = [x \in (1 .. n) \X ArrSet |-> arrAdd(x[2], vs[x[1]])]
  OBVIOUS
<1>5. \A k \in 1 .. n : \A b \in ArrSet : G[<<k, b>>] = arrAdd(b, vs[k])
  OBVIOUS
<1>6. Passing(n, S, A, a, G)
  BY <1>1, <1>3, <1>4, <1>5 DEF Passing
<1> DEFINE Is(f) == f = [k \in 0 .. n |-> IF k = 0 THEN a ELSE arrAdd(f[k - 1], vs[k])]
<1>7. \E f : Is(f)
  <2>1. PICK f : Looping(n, a, G, f) /\ \A k \in 0 .. n : Held(f[k], S[k], A)
    BY ONLY <1>6, LoopPasses
  <2>2. ASSUME NEW k \in 0 .. n, k # 0 PROVE G[<<k, f[k - 1]>>] = arrAdd(f[k - 1], vs[k])
    <3>1. k \in 1 .. n /\ k - 1 \in 0 .. n
      BY <1>1, <2>2
    <3>2. f[k - 1] \in ArrSet
      BY <3>1, <2>1 DEF Held
    <3> QED
      BY <3>1, <3>2, <1>5
  <2>3. [k \in 0 .. n |-> IF k = 0 THEN a ELSE G[<<k, f[k - 1]>>]] = [k \in 0 .. n |-> IF k = 0 THEN a ELSE arrAdd(f[k - 1], vs[k])]
    BY <2>2
  <2> QED
    BY <2>1, <2>3 DEF Looping
<1> PICK f : f = CHOOSE g : Is(g)
  OBVIOUS
<1>8. Is(f)
  BY <1>7
<1>9. Staying(n, S, A, f)
  <2>0. \A k \in 0 .. n : f[k] = IF k = 0 THEN a ELSE arrAdd(f[k - 1], vs[k])
    BY <1>8
  <2>1. f[0] = a /\ \A k \in 1 .. n : f[k] = arrAdd(f[k - 1], vs[k])
    <3> HIDE DEF Is
    <3> QED
      BY <1>1, <2>0
  <2>2. ASSUME NEW k \in 1 .. n, Held(f[k - 1], S[k - 1], A) PROVE Held(f[k], S[k], A)
    <3>1. f[k - 1] \in ArrSet
      BY <2>2 DEF Held
    <3> QED
      BY <3>1, <2>1, <2>2, <1>4
  <2> QED
    BY <2>1, <2>2, <1>1, <1>3 DEF Staying
<1>10. Held(f[n], S[n], A)
  BY <1>1, <1>9, LoopStays
<1>11. Loop(a, Len(vs), LAMBDA b, k : arrAdd(b, vs[k])) = IF n < 1 THEN a ELSE f[n]
  BY DEF Loop
<1>12. S[n] = t
  <2>1. n \in 0 .. n /\ t \in Seq(Cell) /\ Len(t) = Len(s) + n /\ \A i \in 1 .. Len(t) : t[i] = IF i <= Len(s) THEN s[i] ELSE vs[i - Len(s)]
    BY <1>1 DEF AppendList
  <2>2. /\ S[n] \in Seq(Cell) /\ Len(S[n]) = Len(s) + n
        /\ \A i \in 1 .. Len(s) + n : S[n][i] = IF i <= Len(s) THEN s[i] ELSE vs[i - Len(s)]
    BY <2>1, <1>2
  <2>3. Same(S[n], t)
    BY ONLY <2>1, <2>2 DEF Same
  <2> QED
    BY <2>3, SameSeq
<1>13. n < 1 => n = 0
  BY <1>1
<1> QED
  BY <1>3, <1>10, <1>11, <1>12, <1>13

\* list_new.
FilledList(vs, t) ==
  t = vs
LEMMA FilledHolds ==
  ASSUME NEW m \in Nat, NEW vs \in Seq(Cell), Len(vs) < Width, NEW t, FilledList(vs, t)
  PROVE  Held(Loop(newArr(m), Len(vs), LAMBDA b, k : arrSet(b, k - 1, vs[k])), t, Avail(newArr(m)))
<1> PICK a0 : a0 = newArr(m)
  OBVIOUS
<1> PICK n : n = Len(vs)
  OBVIOUS
<1> PICK A : A = Avail(a0)
  OBVIOUS
<1>1. n \in Nat /\ A \in Nat /\ n < Width /\ \A i \in 1 .. n : vs[i] \in Cell
  <2>1. A = m
    BY NewHolds
  <2> QED
    BY <2>1
<1> DEFINE N(k) == [i \in 1 .. k |-> vs[i]]
<1> PICK S : S = [k \in 0 .. n |-> N(k)]
  OBVIOUS
<1>2. ASSUME NEW k \in 0 .. n
      PROVE  /\ S[k] \in Seq(Cell) /\ Len(S[k]) = k
             /\ \A i \in 1 .. k : S[k][i] = vs[i]
  <2>1. ASSUME NEW i \in 1 .. k PROVE (vs[i]) \in Cell
    BY <1>1
  <2>2. N(k) \in [1 .. k -> Cell] /\ k \in Nat
    BY <2>1, <1>1
  <2> QED
    BY <2>2, FunSeq
<1> HIDE DEF N
<1>3. Held(a0, S[0], A)
  <2>0. <<>> \in Seq(Cell) /\ Holds(a0, <<>>)
    BY NewHolds
  <2>1. 0 \in 0 .. n /\ <<>> \in Seq(Cell) /\ Holds(a0, <<>>)
    BY <1>1, <2>0
  <2>2. /\ S[0] \in Seq(Cell) /\ Len(S[0]) = 0
        /\ \A i \in 1 .. 0 : S[0][i] = vs[i]
    BY <2>1, <1>2
  <2>3. Same(S[0], <<>>)
    BY <2>1, <2>2 DEF Same
  <2>4. S[0] = <<>>
    BY <2>3, SameSeq
  <2> QED
    BY <2>1, <2>4, <1>1, HeldIs
<1>4. ASSUME NEW k \in 1 .. n, NEW b \in ArrSet, Held(b, S[k - 1], A) PROVE Held(arrSet(b, k - 1, vs[k]), S[k], A)
  <2> PICK u : u = S[k - 1]
    OBVIOUS
  <2> PICK w : w = S[k]
    OBVIOUS
  <2>1. k - 1 \in 0 .. n /\ k \in 0 .. n /\ k \in Nat
    BY <1>1
  <2>2. u \in Seq(Cell) /\ Len(u) = (k - 1) /\ \A i \in 1 .. (k - 1) : u[i] = vs[i]
    BY <1>2, <2>1
  <2>3. w \in Seq(Cell) /\ Len(w) = k /\ \A i \in 1 .. k : w[i] = vs[i]
    BY <1>2, <2>1
  <2>4. Holds(b, u) /\ A <= Avail(b) /\ Avail(b) \in Nat
    BY <1>4, HoldsIs DEF Held
  <2> PICK c : c = arrSet(b, k - 1, vs[k])
    OBVIOUS
  <2>5. SetList(u, k - 1, vs[k], w)
    <3>1. Greater(Len(u), (k - 1) + 1) = k /\ Len(u) = k - 1
      BY <2>1, <2>2 DEF Greater
    <3>2. ASSUME NEW i \in 1 .. k PROVE w[i] = IF i = (k - 1) + 1 THEN vs[k] ELSE IF i <= Len(u) THEN u[i] ELSE Null
      <4>1. CASE i = k
        BY <4>1, <2>1, <2>3
      <4>2. CASE i # k
        <5>1. i \in 1 .. k - 1 /\ i <= Len(u) /\ ~(i = (k - 1) + 1)
          BY <4>2, <2>1, <3>1
        <5> QED
          BY <5>1, <2>2, <2>3
      <4> QED
        BY <4>1, <4>2
    <3> QED
      BY <3>1, <3>2, <2>3 DEF SetList
  <2>6. k - 1 \in Nat /\ (k - 1) + 1 < Width /\ vs[k] \in Cell
    BY <1>1, <2>1, ConstantTypes
  <2>7. Holds(c, w) /\ Avail(c) = Greater(Avail(b), (k - 1) + 1)
    BY <2>4, <2>5, <2>6, SetHolds
  <2>8. A <= Avail(c)
    BY <1>1, <2>1, <2>4, <2>7 DEF Greater
  <2>9. Holds(c, w) /\ A <= Avail(c) /\ w = S[k]
    BY <2>7, <2>8
  <2> QED
    BY <2>9, HeldIs
<1> PICK G : G = [x \in (1 .. n) \X ArrSet |-> arrSet(x[2], x[1] - 1, vs[x[1]])]
  OBVIOUS
<1>5. \A k \in 1 .. n : \A b \in ArrSet : G[<<k, b>>] = arrSet(b, k - 1, vs[k])
  OBVIOUS
<1>6. Passing(n, S, A, a0, G)
  BY <1>1, <1>3, <1>4, <1>5 DEF Passing
<1> DEFINE Is(f) == f = [k \in 0 .. n |-> IF k = 0 THEN a0 ELSE arrSet(f[k - 1], k - 1, vs[k])]
<1>7. \E f : Is(f)
  <2>1. PICK f : Looping(n, a0, G, f) /\ \A k \in 0 .. n : Held(f[k], S[k], A)
    BY ONLY <1>6, LoopPasses
  <2>2. ASSUME NEW k \in 0 .. n, k # 0 PROVE G[<<k, f[k - 1]>>] = arrSet(f[k - 1], k - 1, vs[k])
    <3>1. k \in 1 .. n /\ k - 1 \in 0 .. n
      BY <1>1, <2>2
    <3>2. f[k - 1] \in ArrSet
      BY <3>1, <2>1 DEF Held
    <3> QED
      BY <3>1, <3>2, <1>5
  <2>3. [k \in 0 .. n |-> IF k = 0 THEN a0 ELSE G[<<k, f[k - 1]>>]] = [k \in 0 .. n |-> IF k = 0 THEN a0 ELSE arrSet(f[k - 1], k - 1, vs[k])]
    BY <2>2
  <2> QED
    BY <2>1, <2>3 DEF Looping
<1> PICK f : f = CHOOSE g : Is(g)
  OBVIOUS
<1>8. Is(f)
  BY <1>7
<1>9. Staying(n, S, A, f)
  <2>0. \A k \in 0 .. n : f[k] = IF k = 0 THEN a0 ELSE arrSet(f[k - 1], k - 1, vs[k])
    BY <1>8
  <2>1. f[0] = a0 /\ \A k \in 1 .. n : f[k] = arrSet(f[k - 1], k - 1, vs[k])
    <3> HIDE DEF Is
    <3> QED
      BY <1>1, <2>0
  <2>2. ASSUME NEW k \in 1 .. n, Held(f[k - 1], S[k - 1], A) PROVE Held(f[k], S[k], A)
    <3>1. f[k - 1] \in ArrSet
      BY <2>2 DEF Held
    <3> QED
      BY <3>1, <2>1, <2>2, <1>4
  <2> QED
    BY <2>1, <2>2, <1>1, <1>3 DEF Staying
<1>10. Held(f[n], S[n], A)
  BY <1>1, <1>9, LoopStays
<1>11. Loop(newArr(m), Len(vs), LAMBDA b, k : arrSet(b, k - 1, vs[k])) = IF n < 1 THEN a0 ELSE f[n]
  BY DEF Loop
<1>12. S[n] = t
  <2>1. n \in 0 .. n /\ t = vs
    BY <1>1 DEF FilledList
  <2>2. /\ S[n] \in Seq(Cell) /\ Len(S[n]) = n
        /\ \A i \in 1 .. n : S[n][i] = vs[i]
    BY <2>1, <1>2
  <2>3. Same(S[n], t)
    BY <2>1, <2>2 DEF Same
  <2> QED
    BY <2>3, SameSeq
<1>13. n < 1 => n = 0
  BY <1>1
<1> QED
  BY <1>3, <1>10, <1>11, <1>12, <1>13

\* list_prepend.
PrependList(s, vs, t) ==
  t \in Seq(Cell) /\ Len(t) = Len(s) + Len(vs) /\ \A i \in 1 .. Len(t) : t[i] = IF i <= Len(vs) THEN vs[Len(vs) + 1 - i] ELSE s[i - Len(vs)]
LEMMA PrependHolds ==
  ASSUME NEW a, NEW s, Holds(a, s), NEW vs \in Seq(Cell), Len(s) + Len(vs) < Width, NEW t, PrependList(s, vs, t)
  PROVE  Held(Loop(a, Len(vs), LAMBDA b, k : arrIns(b, 0, 1, vs[k])), t, Avail(a))
<1> PICK a0 : a0 = a
  OBVIOUS
<1> PICK n : n = Len(vs)
  OBVIOUS
<1> PICK A : A = Avail(a0)
  OBVIOUS
<1>1. /\ n \in Nat /\ A \in Nat /\ Len(s) \in Nat /\ Len(s) + n < Width /\ \A i \in 1 .. n : vs[i] \in Cell
      /\ \A i \in 1 .. Len(s) : s[i] \in Cell
  <2>1. Len(s) \in Nat /\ A \in Nat /\ \A i \in 1 .. Len(s) : s[i] \in Cell
    BY HoldsIs
  <2> QED
    BY <2>1
<1> DEFINE N(k) == [i \in 1 .. Len(s) + k |-> IF i <= k THEN vs[k + 1 - i] ELSE s[i - k]]
<1> PICK S : S = [k \in 0 .. n |-> N(k)]
  OBVIOUS
<1>2. ASSUME NEW k \in 0 .. n
      PROVE  /\ S[k] \in Seq(Cell) /\ Len(S[k]) = Len(s) + k
             /\ \A i \in 1 .. Len(s) + k : S[k][i] = IF i <= k THEN vs[k + 1 - i] ELSE s[i - k]
  <2>1. ASSUME NEW i \in 1 .. Len(s) + k PROVE (IF i <= k THEN vs[k + 1 - i] ELSE s[i - k]) \in Cell
    <3>1. (i <= k => k + 1 - i \in 1 .. n) /\ (~(i <= k) => i - k \in 1 .. Len(s))
      BY <1>1
    <3> QED
      BY <3>1, <1>1
  <2>2. N(k) \in [1 .. Len(s) + k -> Cell] /\ Len(s) + k \in Nat
    BY <2>1, <1>1
  <2> QED
    BY <2>2, FunSeq
<1> HIDE DEF N
<1>3. Held(a0, S[0], A)
  <2>0. s \in Seq(Cell) /\ Holds(a0, s)
    BY HoldsIs
  <2>1. 0 \in 0 .. n /\ s \in Seq(Cell) /\ Holds(a0, s)
    BY <1>1, <2>0
  <2>2. /\ S[0] \in Seq(Cell) /\ Len(S[0]) = Len(s) + 0
        /\ \A i \in 1 .. Len(s) + 0 : S[0][i] = IF i <= 0 THEN vs[0 + 1 - i] ELSE s[i - 0]
    BY <2>1, <1>2
  <2>3. Same(S[0], s)
    <3>1. \A i \in 1 .. Len(s) : i \in 1 .. Len(s) + 0 /\ ~(i <= 0) /\ i - 0 = i
      BY <1>1
    <3>2. \A i \in 1 .. Len(s) : S[0][i] = s[i]
      BY <2>2, <3>1
    <3> QED
      BY <2>1, <2>2, <3>2, <1>1 DEF Same
  <2>4. S[0] = s
    BY <2>3, SameSeq
  <2> QED
    BY <2>1, <2>4, <1>1, HeldIs
<1>4. ASSUME NEW k \in 1 .. n, NEW b \in ArrSet, Held(b, S[k - 1], A) PROVE Held(arrIns(b, 0, 1, vs[k]), S[k], A)
  <2> PICK u : u = S[k - 1]
    OBVIOUS
  <2> PICK w : w = S[k]
    OBVIOUS
  <2>1. k - 1 \in 0 .. n /\ k \in 0 .. n /\ k \in Nat
    BY <1>1
  <2>2. u \in Seq(Cell) /\ Len(u) = Len(s) + (k - 1) /\ \A i \in 1 .. Len(s) + (k - 1) : u[i] = IF i <= (k - 1) THEN vs[(k - 1) + 1 - i] ELSE s[i - (k - 1)]
    BY <1>2, <2>1
  <2>3. w \in Seq(Cell) /\ Len(w) = Len(s) + k /\ \A i \in 1 .. Len(s) + k : w[i] = IF i <= k THEN vs[k + 1 - i] ELSE s[i - k]
    BY <1>2, <2>1
  <2>4. Holds(b, u) /\ A <= Avail(b) /\ Avail(b) \in Nat
    BY <1>4, HoldsIs DEF Held
  <2> PICK c : c = arrIns(b, 0, 1, vs[k])
    OBVIOUS
  <2>5. InsList(u, 0, 1, vs[k], w)
    <3>1. Len(w) = Len(u) + 1 /\ Len(u) \in Nat
      BY <1>1, <2>1, <2>2, <2>3
    <3>2. ASSUME NEW i \in 1 .. Len(w) PROVE w[i] = IF i <= 0 THEN u[i] ELSE IF i <= 0 + 1 THEN vs[k] ELSE u[i - 1]
      <4>1. i \in 1 .. Len(s) + k /\ i \in Nat
        BY <1>1, <2>1, <2>3
      <4>2. CASE i = 1
        <5>1. i <= k /\ k + 1 - i = k /\ ~(i <= 0) /\ i <= 0 + 1
          BY <4>2, <2>1
        <5> QED
          BY <5>1, <4>1, <2>3
      <4>3. CASE i # 1
        <5>1. i - 1 \in 1 .. Len(s) + (k - 1) /\ (k - 1) + 1 - (i - 1) = k + 1 - i /\ (i - 1) - (k - 1) = i - k
              /\ (i <= k <=> i - 1 <= k - 1) /\ ~(i <= 0) /\ ~(i <= 0 + 1)
          BY <4>1, <4>3, <1>1, <2>1
        <5>2. u[i - 1] = IF i <= k THEN vs[k + 1 - i] ELSE s[i - k]
          BY ONLY <5>1, <2>2
        <5> QED
          BY <5>1, <5>2, <4>1, <2>3
      <4> QED
        BY <4>2, <4>3
    <3> QED
      BY <3>1, <3>2, <2>3 DEF InsList
  <2>6. 1 \in Nat /\ 0 \in 0 .. Len(u) /\ Len(u) + 1 < Width /\ vs[k] \in Cell
    BY <1>1, <2>1, <2>2, ConstantTypes
  <2>10. Holds(arrIns(b, 0, 1, vs[k]), w) /\ Avail(arrIns(b, 0, 1, vs[k])) = Greater(Avail(b), Len(u) + 1)
    <3> PICK p : p = 0
      OBVIOUS
    <3>1. p \in 0 .. Len(u) /\ InsList(u, p, 1, vs[k], w)
      BY <2>5, <2>6
    <3>2. 1 \in Nat /\ Holds(b, u) /\ Len(u) + 1 < Width /\ vs[k] \in Cell
      BY <2>4, <2>6
    <3>3. Holds(arrIns(b, p, 1, vs[k]), w) /\ Avail(arrIns(b, p, 1, vs[k])) = Greater(Avail(b), Len(u) + 1)
      BY ONLY <3>1, <3>2, InsHolds, ConstantTypes
    <3> QED
      BY <3>3
  <2>7. Holds(c, w) /\ Avail(c) = Greater(Avail(b), Len(u) + 1)
    BY <2>10
  <2>8. A <= Avail(c)
    BY <1>1, <2>1, <2>2, <2>4, <2>7 DEF Greater
  <2>9. Holds(c, w) /\ A <= Avail(c) /\ w = S[k]
    BY <2>7, <2>8
  <2> QED
    BY <2>9, HeldIs
<1> PICK G : G = [x \in (1 .. n) \X ArrSet |-> arrIns(x[2], 0, 1, vs[x[1]])]
  OBVIOUS
<1>5. \A k \in 1 .. n : \A b \in ArrSet : G[<<k, b>>] = arrIns(b, 0, 1, vs[k])
  OBVIOUS
<1>6. Passing(n, S, A, a0, G)
  BY <1>1, <1>3, <1>4, <1>5 DEF Passing
<1> DEFINE Is(f) == f = [k \in 0 .. n |-> IF k = 0 THEN a0 ELSE arrIns(f[k - 1], 0, 1, vs[k])]
<1>7. \E f : Is(f)
  <2>1. PICK f : Looping(n, a0, G, f) /\ \A k \in 0 .. n : Held(f[k], S[k], A)
    BY ONLY <1>6, LoopPasses
  <2>2. ASSUME NEW k \in 0 .. n, k # 0 PROVE G[<<k, f[k - 1]>>] = arrIns(f[k - 1], 0, 1, vs[k])
    <3>1. k \in 1 .. n /\ k - 1 \in 0 .. n
      BY <1>1, <2>2
    <3>2. f[k - 1] \in ArrSet
      BY <3>1, <2>1 DEF Held
    <3> QED
      BY <3>1, <3>2, <1>5
  <2>3. [k \in 0 .. n |-> IF k = 0 THEN a0 ELSE G[<<k, f[k - 1]>>]] = [k \in 0 .. n |-> IF k = 0 THEN a0 ELSE arrIns(f[k - 1], 0, 1, vs[k])]
    BY <2>2
  <2> QED
    BY <2>1, <2>3 DEF Looping
<1> PICK f : f = CHOOSE g : Is(g)
  OBVIOUS
<1>8. Is(f)
  BY <1>7
<1>9. Staying(n, S, A, f)
  <2>0. \A k \in 0 .. n : f[k] = IF k = 0 THEN a0 ELSE arrIns(f[k - 1], 0, 1, vs[k])
    BY <1>8
  <2>1. f[0] = a0 /\ \A k \in 1 .. n : f[k] = arrIns(f[k - 1], 0, 1, vs[k])
    <3> HIDE DEF Is
    <3> QED
      BY <1>1, <2>0
  <2>2. ASSUME NEW k \in 1 .. n, Held(f[k - 1], S[k - 1], A) PROVE Held(f[k], S[k], A)
    <3>1. f[k - 1] \in ArrSet
      BY <2>2 DEF Held
    <3> QED
      BY <3>1, <2>1, <2>2, <1>4
  <2> QED
    BY <2>1, <2>2, <1>1, <1>3 DEF Staying
<1>10. Held(f[n], S[n], A)
  BY <1>1, <1>9, LoopStays
<1>11. Loop(a, Len(vs), LAMBDA b, k : arrIns(b, 0, 1, vs[k])) = IF n < 1 THEN a0 ELSE f[n]
  BY DEF Loop
<1>12. S[n] = t
  <2>1. n \in 0 .. n /\ t \in Seq(Cell) /\ Len(t) = Len(s) + Len(vs) /\ \A i \in 1 .. Len(t) : t[i] = IF i <= Len(vs) THEN vs[Len(vs) + 1 - i] ELSE s[i - Len(vs)]
    BY <1>1 DEF PrependList
  <2>2. /\ S[n] \in Seq(Cell) /\ Len(S[n]) = Len(s) + n
        /\ \A i \in 1 .. Len(s) + n : S[n][i] = IF i <= n THEN vs[n + 1 - i] ELSE s[i - n]
    BY <2>1, <1>2
  <2>3. Same(S[n], t)
    BY <2>1, <2>2 DEF Same
  <2> QED
    BY <2>3, SameSeq
<1>13. n < 1 => n = 0
  BY <1>1
<1> QED
  BY <1>3, <1>10, <1>11, <1>12, <1>13

\* list_insert.
InsertList(s, pos, vs, t) ==
  t \in Seq(Cell) /\ Len(t) = Len(s) + Len(vs) /\ \A i \in 1 .. Len(t) : t[i] = IF i <= pos THEN s[i] ELSE IF i <= pos + Len(vs) THEN vs[i - pos] ELSE s[i - Len(vs)]
InsertLoop(a, pos, vs) == Loop(a, Len(vs), LAMBDA b, k : arrIns(b, Word(pos + k - 1), 1, vs[k]))
LEMMA InsertHolds ==
  ASSUME NEW a, NEW s, Holds(a, s), NEW pos \in 0 .. Len(s), NEW vs \in Seq(Cell), Len(s) + Len(vs) < Width, NEW t, InsertList(s, pos, vs, t)
  PROVE  Held(InsertLoop(a, pos, vs), t, Avail(a))
<1> PICK a0 : a0 = a
  OBVIOUS
<1> PICK n : n = Len(vs)
  OBVIOUS
<1> PICK A : A = Avail(a0)
  OBVIOUS
<1>1. /\ n \in Nat /\ A \in Nat /\ Len(s) \in Nat /\ Len(s) + n < Width /\ \A i \in 1 .. n : vs[i] \in Cell
      /\ pos \in Nat /\ pos <= Len(s) /\ \A i \in 1 .. Len(s) : s[i] \in Cell
  <2>1. Len(s) \in Nat /\ A \in Nat /\ \A i \in 1 .. Len(s) : s[i] \in Cell
    BY HoldsIs
  <2> QED
    BY <2>1
<1> DEFINE N(k) == [i \in 1 .. Len(s) + k |-> IF i <= pos THEN s[i] ELSE IF i <= pos + k THEN vs[i - pos] ELSE s[i - k]]
<1> PICK S : S = [k \in 0 .. n |-> N(k)]
  OBVIOUS
<1>2. ASSUME NEW k \in 0 .. n
      PROVE  /\ S[k] \in Seq(Cell) /\ Len(S[k]) = Len(s) + k
             /\ \A i \in 1 .. Len(s) + k : S[k][i] = IF i <= pos THEN s[i] ELSE IF i <= pos + k THEN vs[i - pos] ELSE s[i - k]
  <2>1. ASSUME NEW i \in 1 .. Len(s) + k PROVE (IF i <= pos THEN s[i] ELSE IF i <= pos + k THEN vs[i - pos] ELSE s[i - k]) \in Cell
    <3>1. (i <= pos => i \in 1 .. Len(s)) /\ (~(i <= pos) /\ i <= pos + k => i - pos \in 1 .. n) /\ (~(i <= pos + k) => i - k \in 1 .. Len(s))
      BY <1>1
    <3> QED
      BY <3>1, <1>1
  <2>2. N(k) \in [1 .. Len(s) + k -> Cell] /\ Len(s) + k \in Nat
    BY <2>1, <1>1
  <2> QED
    BY <2>2, FunSeq
<1> HIDE DEF N
<1>3. Held(a0, S[0], A)
  <2>0. s \in Seq(Cell) /\ Holds(a0, s)
    BY HoldsIs
  <2>1. 0 \in 0 .. n /\ s \in Seq(Cell) /\ Holds(a0, s)
    BY <1>1, <2>0
  <2>2. /\ S[0] \in Seq(Cell) /\ Len(S[0]) = Len(s) + 0
        /\ \A i \in 1 .. Len(s) + 0 : S[0][i] = IF i <= pos THEN s[i] ELSE IF i <= pos + 0 THEN vs[i - pos] ELSE s[i - 0]
    BY <2>1, <1>2
  <2>3. Same(S[0], s)
    <3>1. \A i \in 1 .. Len(s) : i \in 1 .. Len(s) + 0 /\ (i <= pos + 0 <=> i <= pos) /\ i - 0 = i
      BY <1>1
    <3>2. \A i \in 1 .. Len(s) : S[0][i] = s[i]
      BY <2>2, <3>1
    <3> QED
      BY <2>1, <2>2, <3>2, <1>1 DEF Same
  <2>4. S[0] = s
    BY <2>3, SameSeq
  <2> QED
    BY <2>1, <2>4, <1>1, HeldIs
<1>4. ASSUME NEW k \in 1 .. n, NEW b \in ArrSet, Held(b, S[k - 1], A) PROVE Held(arrIns(b, Word(pos + k - 1), 1, vs[k]), S[k], A)
  <2> PICK u : u = S[k - 1]
    OBVIOUS
  <2> PICK w : w = S[k]
    OBVIOUS
  <2>1. k - 1 \in 0 .. n /\ k \in 0 .. n /\ k \in Nat
    BY <1>1
  <2>2. u \in Seq(Cell) /\ Len(u) = Len(s) + (k - 1) /\ \A i \in 1 .. Len(s) + (k - 1) : u[i] = IF i <= pos THEN s[i] ELSE IF i <= pos + (k - 1) THEN vs[i - pos] ELSE s[i - (k - 1)]
    BY <1>2, <2>1
  <2>3. w \in Seq(Cell) /\ Len(w) = Len(s) + k /\ \A i \in 1 .. Len(s) + k : w[i] = IF i <= pos THEN s[i] ELSE IF i <= pos + k THEN vs[i - pos] ELSE s[i - k]
    BY <1>2, <2>1
  <2>4. Holds(b, u) /\ A <= Avail(b) /\ Avail(b) \in Nat
    BY <1>4, HoldsIs DEF Held
  <2> PICK c : c = arrIns(b, Word(pos + k - 1), 1, vs[k])
    OBVIOUS
  <2>5. InsList(u, (pos + k - 1), 1, vs[k], w)
    <3>1. Len(w) = Len(u) + 1 /\ Len(u) \in Nat
      BY <1>1, <2>1, <2>2, <2>3
    <3>2. ASSUME NEW i \in 1 .. Len(w) PROVE w[i] = IF i <= (pos + k - 1) THEN u[i] ELSE IF i <= (pos + k - 1) + 1 THEN vs[k] ELSE u[i - 1]
      <4>1. i \in 1 .. Len(s) + k /\ i \in Nat
        BY <1>1, <2>1, <2>3
      <4>2. CASE i <= pos + k - 1
        <5>1. i \in 1 .. Len(s) + (k - 1) /\ (i <= pos + (k - 1)) /\ i <= pos + k
          BY <4>1, <4>2, <1>1, <2>1
        <5>2. u[i] = IF i <= pos THEN s[i] ELSE vs[i - pos]
          BY <5>1, <2>2
        <5>3. w[i] = IF i <= pos THEN s[i] ELSE vs[i - pos]
          BY <5>1, <4>1, <2>3
        <5> QED
          BY <4>2, <5>2, <5>3
      <4>3. CASE i = pos + k
        <5>1. ~(i <= pos) /\ i <= pos + k /\ i - pos = k /\ ~(i <= (pos + k - 1)) /\ i <= (pos + k - 1) + 1
          BY <4>1, <4>3, <1>1, <2>1
        <5> QED
          BY <5>1, <4>1, <2>3
      <4>4. CASE i > pos + k
        <5>1. /\ i - 1 \in 1 .. Len(s) + (k - 1) /\ ~(i - 1 <= pos) /\ ~(i - 1 <= pos + (k - 1)) /\ (i - 1) - (k - 1) = i - k
              /\ ~(i <= pos) /\ ~(i <= pos + k) /\ ~(i <= (pos + k - 1)) /\ ~(i <= (pos + k - 1) + 1)
          BY <4>1, <4>4, <1>1, <2>1
        <5>2. u[i - 1] = s[i - k]
          BY <5>1, <2>2
        <5>3. w[i] = s[i - k]
          BY <5>1, <4>1, <2>3
        <5> QED
          BY <5>1, <5>2, <5>3
      <4> QED
        BY <4>1, <4>2, <4>3, <4>4, <1>1, <2>1
    <3> QED
      BY <3>1, <3>2, <2>3 DEF InsList
  <2>6. 1 \in Nat /\ (pos + k - 1) \in 0 .. Len(u) /\ Len(u) + 1 < Width /\ vs[k] \in Cell
    BY <1>1, <2>1, <2>2, ConstantTypes
  <2>10. Holds(arrIns(b, (pos + k - 1), 1, vs[k]), w) /\ Avail(arrIns(b, (pos + k - 1), 1, vs[k])) = Greater(Avail(b), Len(u) + 1)
    <3> PICK p : p = (pos + k - 1)
      OBVIOUS
    <3>1. p \in 0 .. Len(u) /\ InsList(u, p, 1, vs[k], w)
      BY <2>5, <2>6
    <3>2. 1 \in Nat /\ Holds(b, u) /\ Len(u) + 1 < Width /\ vs[k] \in Cell
      BY <2>4, <2>6
    <3>3. Holds(arrIns(b, p, 1, vs[k]), w) /\ Avail(arrIns(b, p, 1, vs[k])) = Greater(Avail(b), Len(u) + 1)
      BY ONLY <3>1, <3>2, InsHolds, ConstantTypes
    <3> QED
      BY <3>3
  <2>11. Word(pos + k - 1) = pos + k - 1
    <3>1. pos + k - 1 \in Nat /\ pos + k - 1 < Width
      BY <1>1, <2>1, ConstantTypes
    <3> QED
      BY <3>1, WordIs
  <2>7. Holds(c, w) /\ Avail(c) = Greater(Avail(b), Len(u) + 1)
    BY <2>10, <2>11
  <2>8. A <= Avail(c)
    BY <1>1, <2>1, <2>2, <2>4, <2>7 DEF Greater
  <2>9. Holds(c, w) /\ A <= Avail(c) /\ w = S[k]
    BY <2>7, <2>8
  <2> QED
    BY <2>9, HeldIs
<1> PICK G : G = [x \in (1 .. n) \X ArrSet |-> arrIns(x[2], Word(pos + x[1] - 1), 1, vs[x[1]])]
  OBVIOUS
<1>5. \A k \in 1 .. n : \A b \in ArrSet : G[<<k, b>>] = arrIns(b, Word(pos + k - 1), 1, vs[k])
  OBVIOUS
<1>6. Passing(n, S, A, a0, G)
  BY <1>1, <1>3, <1>4, <1>5 DEF Passing
<1> DEFINE Is(f) == f = [k \in 0 .. n |-> IF k = 0 THEN a0 ELSE arrIns(f[k - 1], Word(pos + k - 1), 1, vs[k])]
<1>7. \E f : Is(f)
  <2>1. PICK f : Looping(n, a0, G, f) /\ \A k \in 0 .. n : Held(f[k], S[k], A)
    BY ONLY <1>6, LoopPasses
  <2>2. ASSUME NEW k \in 0 .. n, k # 0 PROVE G[<<k, f[k - 1]>>] = arrIns(f[k - 1], Word(pos + k - 1), 1, vs[k])
    <3>1. k \in 1 .. n /\ k - 1 \in 0 .. n
      BY <1>1, <2>2
    <3>2. f[k - 1] \in ArrSet
      BY <3>1, <2>1 DEF Held
    <3> QED
      BY <3>1, <3>2, <1>5
  <2>3. [k \in 0 .. n |-> IF k = 0 THEN a0 ELSE G[<<k, f[k - 1]>>]] = [k \in 0 .. n |-> IF k = 0 THEN a0 ELSE arrIns(f[k - 1], Word(pos + k - 1), 1, vs[k])]
    BY <2>2
  <2> QED
    BY <2>1, <2>3 DEF Looping
<1> PICK f : f = CHOOSE g : Is(g)
  OBVIOUS
<1>8. Is(f)
  BY <1>7
<1>9. Staying(n, S, A, f)
  <2>0. \A k \in 0 .. n : f[k] = IF k = 0 THEN a0 ELSE arrIns(f[k - 1], Word(pos + k - 1), 1, vs[k])
    BY <1>8
  <2>1. f[0] = a0 /\ \A k \in 1 .. n : f[k] = arrIns(f[k - 1], Word(pos + k - 1), 1, vs[k])
    <3> HIDE DEF Is
    <3> QED
      BY <1>1, <2>0
  <2>2. ASSUME NEW k \in 1 .. n, Held(f[k - 1], S[k - 1], A) PROVE Held(f[k], S[k], A)
    <3>1. f[k - 1] \in ArrSet
      BY <2>2 DEF Held
    <3> QED
      BY <3>1, <2>1, <2>2, <1>4
  <2> QED
    BY <2>1, <2>2, <1>1, <1>3 DEF Staying
<1>10. Held(f[n], S[n], A)
  BY <1>1, <1>9, LoopStays
<1>11. InsertLoop(a, pos, vs) = IF n < 1 THEN a0 ELSE f[n]
  BY DEF Loop, InsertLoop
<1>12. S[n] = t
  <2>1. n \in 0 .. n /\ t \in Seq(Cell) /\ Len(t) = Len(s) + Len(vs) /\ \A i \in 1 .. Len(t) : t[i] = IF i <= pos THEN s[i] ELSE IF i <= pos + Len(vs) THEN vs[i - pos] ELSE s[i - Len(vs)]
    BY <1>1 DEF InsertList
  <2>2. /\ S[n] \in Seq(Cell) /\ Len(S[n]) = Len(s) + n
        /\ \A i \in 1 .. Len(s) + n : S[n][i] = IF i <= pos THEN s[i] ELSE IF i <= pos + n THEN vs[i - pos] ELSE s[i - n]
    BY <2>1, <1>2
  <2>3. Same(S[n], t)
    BY <2>1, <2>2 DEF Same
  <2> QED
    BY <2>3, SameSeq
<1>13. n < 1 => n = 0
  BY <1>1
<1> QED
  BY <1>3, <1>10, <1>11, <1>12, <1>13

\* Two values of a list change places.
SwapList(s, i, j, t) ==
  /\ t \in Seq(Cell) /\ Len(t) = Len(s)
  /\ \A k \in 1 .. Len(s) : t[k] = IF k = j + 1 THEN s[i + 1] ELSE IF k = i + 1 THEN s[j + 1] ELSE s[k]
LEMMA SwapHolds ==
  ASSUME NEW a, NEW s, Holds(a, s), NEW i \in 0 .. Len(s) - 1, NEW j \in 0 .. Len(s) - 1, Len(s) < Width,
         NEW t, SwapList(s, i, j, t)
  PROVE  Holds(Swapped(a, i, j), t) /\ Avail(Swapped(a, i, j)) = Avail(a)
<1>1. /\ Len(s) \in Nat /\ Len(s) <= Avail(a) /\ Avail(a) \in Nat /\ s \in Seq(Cell)
      /\ \A k \in 1 .. Len(s) : s[k] \in Cell
  BY HoldsIs
<1>2. i \in Nat /\ j \in Nat /\ i + 1 \in 1 .. Len(s) /\ j + 1 \in 1 .. Len(s) /\ i + 1 < Width /\ j + 1 < Width
      /\ i < Len(s) /\ j < Len(s)
  BY <1>1, ConstantTypes
<1> PICK v : v = s[j + 1]
  OBVIOUS
<1> PICK w : w = s[i + 1]
  OBVIOUS
<1>3. arrGet(a, j) = v /\ arrGet(a, i) = w /\ v \in Cell /\ w \in Cell
  <2>1. arrGet(a, j) = s[j + 1] /\ arrGet(a, i) = s[i + 1]
    BY <1>2, GetIs
  <2> QED
    BY <2>1, <1>1, <1>2
<1> DEFINE N == [k \in 1 .. Len(s) |-> IF k = i + 1 THEN v ELSE s[k]]
<1>4. PICK u \in Seq(Cell) : Len(u) = Len(s) /\ \A k \in 1 .. Len(s) : u[k] = IF k = i + 1 THEN v ELSE s[k]
  <2>1. N \in [1 .. Len(s) -> Cell]
    BY <1>1, <1>3
  <2>2. Len(s) \in Nat
    BY <1>1
  <2>3. N \in Seq(Cell) /\ Len(N) = Len(s)
    BY ONLY <2>1, <2>2, FunSeq
  <2>4. \A k \in 1 .. Len(s) : N[k] = IF k = i + 1 THEN v ELSE s[k]
    OBVIOUS
  <2> HIDE DEF N
  <2> QED
    BY <2>3, <2>4
<1>5. SetList(s, i, v, u)
  <2>1. Greater(Len(s), i + 1) = Len(s) /\ \A k \in 1 .. Len(u) : k <= Len(s)
    BY <1>1, <1>2, <1>4 DEF Greater
  <2> QED
    BY <2>1, <1>4 DEF SetList
<1> PICK b : b = arrSet(a, i, v)
  OBVIOUS
<1>6. Holds(b, u) /\ Avail(b) = Avail(a)
  <2>1. Holds(b, u) /\ Avail(b) = Greater(Avail(a), i + 1)
    BY <1>2, <1>3, <1>5, SetHolds
  <2> QED
    BY <2>1, <1>1, <1>2 DEF Greater
<1>7. SetList(u, j, w, t)
  <2>1. Greater(Len(u), j + 1) = Len(u) /\ \A k \in 1 .. Len(t) : k <= Len(u)
    BY <1>1, <1>2, <1>4 DEF Greater, SwapList
  <2>2. t \in Seq(Cell) /\ Len(t) = Len(u) /\ \A k \in 1 .. Len(t) : t[k] = IF k = j + 1 THEN w ELSE u[k]
    BY <1>4 DEF SwapList
  <2> QED
    BY <2>1, <2>2 DEF SetList
<1>8. Holds(arrSet(b, j, w), t) /\ Avail(arrSet(b, j, w)) = Greater(Avail(b), j + 1)
  BY <1>2, <1>3, <1>6, <1>7, SetHolds
<1>9. Greater(Avail(b), j + 1) = Avail(a)
  BY <1>1, <1>2, <1>6 DEF Greater
<1> QED
  BY <1>3, <1>8, <1>9 DEF Swapped

\* list_reverse.
ReverseList(s, t) ==
  t \in Seq(Cell) /\ Len(t) = Len(s) /\ \A i \in 1 .. Len(s) : t[i] = s[Len(s) + 1 - i]
ReverseLoop(a) == Loop(a, a.size \div 2, LAMBDA b, k : Swapped(b, a.size - k, k - 1))
LEMMA ReverseHolds ==
  ASSUME NEW a, NEW s, Holds(a, s), Len(s) < Width, NEW t, ReverseList(s, t)
  PROVE  Held(ReverseLoop(a), t, Avail(a))
<1> PICK a0 : a0 = a
  OBVIOUS
<1> PICK n : n = a.size \div 2
  OBVIOUS
<1> PICK A : A = Avail(a0)
  OBVIOUS
<1>1. /\ n \in Nat /\ A \in Nat /\ Len(s) \in Nat /\ Len(s) < Width /\ 2 * n <= Len(s) /\ Len(s) <= 2 * n + 1
      /\ Len(s) = a.size /\ \A i \in 1 .. Len(s) : s[i] \in Cell
  <2>1. Len(s) \in Nat /\ A \in Nat /\ Len(s) = a.size /\ \A i \in 1 .. Len(s) : s[i] \in Cell
    BY HoldsIs
  <2>2. n \in Nat /\ 2 * n <= Len(s) /\ Len(s) <= 2 * n + 1
    BY <2>1
  <2> QED
    BY <2>1, <2>2
<1> DEFINE N(k) == [i \in 1 .. Len(s) |-> IF i <= k \/ i > Len(s) - k THEN s[Len(s) + 1 - i] ELSE s[i]]
<1> PICK S : S = [k \in 0 .. n |-> N(k)]
  OBVIOUS
<1>2. ASSUME NEW k \in 0 .. n
      PROVE  /\ S[k] \in Seq(Cell) /\ Len(S[k]) = Len(s)
             /\ \A i \in 1 .. Len(s) : S[k][i] = IF i <= k \/ i > Len(s) - k THEN s[Len(s) + 1 - i] ELSE s[i]
  <2>1. ASSUME NEW i \in 1 .. Len(s) PROVE (IF i <= k \/ i > Len(s) - k THEN s[Len(s) + 1 - i] ELSE s[i]) \in Cell
    <3>1. Len(s) + 1 - i \in 1 .. Len(s)
      BY <1>1
    <3> QED
      BY <3>1, <1>1
  <2>2. N(k) \in [1 .. Len(s) -> Cell] /\ Len(s) \in Nat
    BY <2>1, <1>1
  <2> QED
    BY <2>2, FunSeq
<1> HIDE DEF N
<1>3. Held(a0, S[0], A)
  <2>0. s \in Seq(Cell) /\ Holds(a0, s)
    BY HoldsIs
  <2>1. 0 \in 0 .. n /\ s \in Seq(Cell) /\ Holds(a0, s)
    BY <1>1, <2>0
  <2>2. /\ S[0] \in Seq(Cell) /\ Len(S[0]) = Len(s)
        /\ \A i \in 1 .. Len(s) : S[0][i] = IF i <= 0 \/ i > Len(s) - 0 THEN s[Len(s) + 1 - i] ELSE s[i]
    BY <2>1, <1>2
  <2>3. Same(S[0], s)
    <3>1. \A i \in 1 .. Len(s) : ~(i <= 0) /\ ~(i > Len(s) - 0)
      BY <1>1
    <3>2. \A i \in 1 .. Len(s) : S[0][i] = s[i]
      BY <2>2, <3>1
    <3> QED
      BY <2>1, <2>2, <3>2, <1>1 DEF Same
  <2>4. S[0] = s
    BY <2>3, SameSeq
  <2> QED
    BY <2>1, <2>4, <1>1, HeldIs
<1>4. ASSUME NEW k \in 1 .. n, NEW b \in ArrSet, Held(b, S[k - 1], A) PROVE Held(Swapped(b, a.size - k, k - 1), S[k], A)
  <2> PICK u : u = S[k - 1]
    OBVIOUS
  <2> PICK w : w = S[k]
    OBVIOUS
  <2>1. k - 1 \in 0 .. n /\ k \in 0 .. n /\ k \in Nat
    BY <1>1
  <2>2. u \in Seq(Cell) /\ Len(u) = Len(s) /\ \A i \in 1 .. Len(s) : u[i] = IF i <= (k - 1) \/ i > Len(s) - (k - 1) THEN s[Len(s) + 1 - i] ELSE s[i]
    BY <1>2, <2>1
  <2>3. w \in Seq(Cell) /\ Len(w) = Len(s) /\ \A i \in 1 .. Len(s) : w[i] = IF i <= k \/ i > Len(s) - k THEN s[Len(s) + 1 - i] ELSE s[i]
    BY <1>2, <2>1
  <2>4. Holds(b, u) /\ A <= Avail(b) /\ Avail(b) \in Nat
    BY <1>4, HoldsIs DEF Held
  <2> PICK c : c = Swapped(b, a.size - k, k - 1)
    OBVIOUS
  <2>5. SwapList(u, Len(s) - k, k - 1, w)
    <3>1. ASSUME NEW i \in 1 .. Len(s)
          PROVE  w[i] = IF i = (k - 1) + 1 THEN u[(Len(s) - k) + 1] ELSE IF i = (Len(s) - k) + 1 THEN u[(k - 1) + 1] ELSE u[i]
      <4>1. k \in Nat /\ i \in Nat /\ 2 * k <= Len(s) /\ k >= 1 /\ Len(s) \in Nat /\ i >= 1 /\ i <= Len(s)
        BY <1>1
      <4>2. CASE i = k
        <5>0. PICK m : m = (Len(s) - k) + 1
          OBVIOUS
        <5>1. i <= k /\ m \in 1 .. Len(s) /\ ~(m <= k - 1) /\ ~(m > Len(s) - (k - 1)) /\ m = Len(s) + 1 - i /\ i = (k - 1) + 1
          BY ONLY <4>1, <4>2, <5>0
        <5>2. u[m] = s[m]
          BY ONLY <5>1, <2>2
        <5>3. w[i] = s[m]
          BY ONLY <5>1, <2>3
        <5> QED
          BY <5>1, <5>2, <5>3
      <4>3. CASE i = (Len(s) - k) + 1
        <5>0. PICK m : m = (k - 1) + 1
          OBVIOUS
        <5>1. i > Len(s) - k /\ m \in 1 .. Len(s) /\ ~(m <= k - 1) /\ ~(m > Len(s) - (k - 1)) /\ m = Len(s) + 1 - i /\ ~(i = m)
          BY ONLY <4>1, <4>3, <5>0
        <5>2. u[m] = s[m]
          BY ONLY <5>1, <2>2
        <5>3. w[i] = s[m]
          BY ONLY <5>1, <2>3
        <5> QED
          BY <5>1, <5>2, <5>3, <4>3
      <4>4. CASE i # k /\ i # (Len(s) - k) + 1
        <5>1. (i <= k <=> i <= k - 1) /\ (i > Len(s) - k <=> i > Len(s) - (k - 1)) /\ i # (k - 1) + 1
          BY ONLY <4>1, <4>4
        <5>2. u[i] = IF i <= k - 1 \/ i > Len(s) - (k - 1) THEN s[Len(s) + 1 - i] ELSE s[i]
          BY <2>2
        <5>3. w[i] = IF i <= k \/ i > Len(s) - k THEN s[Len(s) + 1 - i] ELSE s[i]
          BY <2>3
        <5>4. w[i] = u[i]
          BY <5>1, <5>2, <5>3
        <5> QED
          BY <5>1, <5>4, <4>4
      <4> QED
        BY <4>2, <4>3, <4>4
    <3> QED
      BY <3>1, <2>2, <2>3 DEF SwapList
  <2>6. Len(s) - k \in 0 .. Len(u) - 1 /\ k - 1 \in 0 .. Len(u) - 1 /\ Len(u) < Width
    BY <1>1, <2>1, <2>2
  <2>7. Holds(c, w) /\ Avail(c) = Avail(b)
    <3> PICK p : p = Len(s) - k
      OBVIOUS
    <3> PICK q : q = k - 1
      OBVIOUS
    <3>1. p \in 0 .. Len(u) - 1 /\ q \in 0 .. Len(u) - 1 /\ Len(u) < Width /\ SwapList(u, p, q, w) /\ Holds(b, u)
      BY <2>4, <2>5, <2>6
    <3>2. Holds(Swapped(b, p, q), w) /\ Avail(Swapped(b, p, q)) = Avail(b)
      BY ONLY <3>1, SwapHolds, ConstantTypes
    <3>3. c = Swapped(b, p, q)
      BY <1>1
    <3> QED
      BY <3>2, <3>3
  <2>9. Holds(c, w) /\ A <= Avail(c) /\ w = S[k]
    BY <2>4, <2>7
  <2> QED
    BY <2>9, HeldIs
<1> PICK G : G = [x \in (1 .. n) \X ArrSet |-> Swapped(x[2], a.size - x[1], x[1] - 1)]
  OBVIOUS
<1>5. \A k \in 1 .. n : \A b \in ArrSet : G[<<k, b>>] = Swapped(b, a.size - k, k - 1)
  OBVIOUS
<1>6. Passing(n, S, A, a0, G)
  BY <1>1, <1>3, <1>4, <1>5 DEF Passing
<1> DEFINE Is(f) == f = [k \in 0 .. n |-> IF k = 0 THEN a0 ELSE Swapped(f[k - 1], a.size - k, k - 1)]
<1>7. \E f : Is(f)
  <2>1. PICK f : Looping(n, a0, G, f) /\ \A k \in 0 .. n : Held(f[k], S[k], A)
    BY ONLY <1>6, LoopPasses
  <2>2. ASSUME NEW k \in 0 .. n, k # 0 PROVE G[<<k, f[k - 1]>>] = Swapped(f[k - 1], a.size - k, k - 1)
    <3>1. k \in 1 .. n /\ k - 1 \in 0 .. n
      BY <1>1, <2>2
    <3>2. f[k - 1] \in ArrSet
      BY <3>1, <2>1 DEF Held
    <3> QED
      BY <3>1, <3>2, <1>5
  <2>3. [k \in 0 .. n |-> IF k = 0 THEN a0 ELSE G[<<k, f[k - 1]>>]] = [k \in 0 .. n |-> IF k = 0 THEN a0 ELSE Swapped(f[k - 1], a.size - k, k - 1)]
    BY <2>2
  <2> QED
    BY <2>1, <2>3 DEF Looping
<1> PICK f : f = CHOOSE g : Is(g)
  OBVIOUS
<1>8. Is(f)
  BY <1>7
<1>9. Staying(n, S, A, f)
  <2>0. \A k \in 0 .. n : f[k] = IF k = 0 THEN a0 ELSE Swapped(f[k - 1], a.size - k, k - 1)
    BY <1>8
  <2>1. f[0] = a0 /\ \A k \in 1 .. n : f[k] = Swapped(f[k - 1], a.size - k, k - 1)
    <3>1. n \in Nat
      BY <1>1
    <3> HIDE DEF Is
    <3> QED
      BY <3>1, <2>0
  <2>2. ASSUME NEW k \in 1 .. n, Held(f[k - 1], S[k - 1], A) PROVE Held(f[k], S[k], A)
    <3>1. f[k - 1] \in ArrSet
      BY <2>2 DEF Held
    <3> QED
      BY <3>1, <2>1, <2>2, <1>4
  <2> QED
    BY <2>1, <2>2, <1>1, <1>3 DEF Staying
<1>10. Held(f[n], S[n], A)
  BY <1>1, <1>9, LoopStays
<1>11. ReverseLoop(a) = IF n < 1 THEN a0 ELSE f[n]
  BY DEF Loop, ReverseLoop
<1>12. S[n] = t
  <2>1. n \in 0 .. n /\ t \in Seq(Cell) /\ Len(t) = Len(s) /\ \A i \in 1 .. Len(s) : t[i] = s[Len(s) + 1 - i]
    BY <1>1 DEF ReverseList
  <2>2. /\ S[n] \in Seq(Cell) /\ Len(S[n]) = Len(s)
        /\ \A i \in 1 .. Len(s) : S[n][i] = IF i <= n \/ i > Len(s) - n THEN s[Len(s) + 1 - i] ELSE s[i]
    BY <2>1, <1>2
  <2>3. Same(S[n], t)
    <3>1. ASSUME NEW i \in 1 .. Len(s) PROVE S[n][i] = t[i]
      <4>1. i \in Nat /\ (~(i <= n \/ i > Len(s) - n) => Len(s) + 1 - i = i)
        BY <1>1
      <4> QED
        BY <4>1, <2>1, <2>2
    <3> QED
      BY <3>1, <2>1, <2>2 DEF Same
  <2> QED
    BY <2>3, SameSeq
<1>13. n < 1 => n = 0
  BY <1>1
<1> QED
  BY <1>3, <1>10, <1>11, <1>12, <1>13

\* The values of s but v, from the end on: sel[k] has what is left of the last k.
Selected(s, v, sel) ==
  /\ sel \in [0 .. Len(s) -> Seq(Cell)] /\ sel[0] = <<>>
  /\ \A k \in 1 .. Len(s) : sel[k] = IF s[Len(s) - k + 1] = v THEN sel[k - 1] ELSE <<s[Len(s) - k + 1]>> \o sel[k - 1]
LEMMA SelectedIs ==
  ASSUME NEW s \in Seq(Cell), NEW v
  PROVE  \E sel : Selected(s, v, sel)
<1> DEFINE N(x) == IF x[1] \in 1 .. Len(s) /\ s[Len(s) - x[1] + 1] # v THEN <<s[Len(s) - x[1] + 1]>> \o x[2] ELSE x[2]
<1>1. Len(s) \in Nat /\ \A i \in 1 .. Len(s) : s[i] \in Cell
  OBVIOUS
<1>2. ASSUME NEW x \in Nat \X Seq(Cell) PROVE N(x) \in Seq(Cell)
  <2>1. x[2] \in Seq(Cell) /\ x[1] \in Nat
    OBVIOUS
  <2>2. CASE x[1] \in 1 .. Len(s) /\ s[Len(s) - x[1] + 1] # v
    <3> PICK m : m = Len(s) - x[1] + 1
      OBVIOUS
    <3>1. m \in 1 .. Len(s)
      BY <1>1, <2>1, <2>2
    <3>2. s[m] \in Cell
      BY <1>1, <3>1
    <3>3. <<s[m]>> \o x[2] \in Seq(Cell)
      BY ONLY <2>1, <3>2
    <3> QED
      BY <2>2, <3>3
  <2>3. CASE ~(x[1] \in 1 .. Len(s) /\ s[Len(s) - x[1] + 1] # v)
    BY <2>1, <2>3
  <2> QED
    BY <2>2, <2>3
<1> PICK G : G = [x \in Nat \X Seq(Cell) |-> N(x)]
  OBVIOUS
<1>3. G \in [Nat \X Seq(Cell) -> Seq(Cell)]
  BY <1>2
<1>4. \A k \in 1 .. Len(s) : \A q \in Seq(Cell) :
         G[<<k, q>>] = IF s[Len(s) - k + 1] = v THEN q ELSE <<s[Len(s) - k + 1]>> \o q
  <2> TAKE k \in 1 .. Len(s)
  <2> TAKE q \in Seq(Cell)
  <2> PICK x : x = <<k, q>>
    OBVIOUS
  <2>1. k \in Nat /\ x \in Nat \X Seq(Cell) /\ x[1] = k /\ x[2] = q
    BY <1>1
  <2>2. G[x] = N(x)
    BY <2>1
  <2>3. N(x) = IF k \in 1 .. Len(s) /\ s[Len(s) - k + 1] # v THEN <<s[Len(s) - k + 1]>> \o q ELSE q
    BY <2>1
  <2> HIDE DEF N
  <2> QED
    BY <2>2, <2>3
<1>5. <<>> \in Seq(Cell)
  OBVIOUS
<1>6. PICK f : Iteration(f, Seq(Cell), <<>>, G, Len(s))
  BY <1>1, <1>3, <1>5, Iterated DEF Iterates
<1>7. f \in [0 .. Len(s) -> Seq(Cell)] /\ f[0] = <<>> /\ \A k \in 1 .. Len(s) : f[k] = G[<<k, f[k - 1]>>]
  BY <1>6 DEF Iteration
<1>8. ASSUME NEW k \in 1 .. Len(s)
      PROVE  f[k] = IF s[Len(s) - k + 1] = v THEN f[k - 1] ELSE <<s[Len(s) - k + 1]>> \o f[k - 1]
  <2>1. k - 1 \in 0 .. Len(s)
    BY <1>1
  <2> PICK q : q = f[k - 1]
    OBVIOUS
  <2>2. q \in Seq(Cell)
    BY <1>7, <2>1
  <2>3. f[k] = G[<<k, q>>]
    BY <1>7
  <2>4. G[<<k, q>>] = IF s[Len(s) - k + 1] = v THEN q ELSE <<s[Len(s) - k + 1]>> \o q
    BY ONLY <1>4, <2>2
  <2> QED
    BY <2>3, <2>4
<1> QED
  BY <1>7, <1>8 DEF Selected

\* list_removeValue.
DropList(s, v, sel, t) ==
  t = sel[Len(s)]
DropLoop(a, v) == Loop(a, a.size - 1, LAMBDA b, k : IF arrGet(b, a.size - k) = v THEN arrDel(b, a.size - k, 1) ELSE b)
LEMMA DropHolds ==
  ASSUME NEW a, NEW s, Holds(a, s), NEW v, NEW sel, Selected(s, v, sel), Len(s) > 0, s[1] # v, Len(s) < Width, NEW t, DropList(s, v, sel, t)
  PROVE  Held(DropLoop(a, v), t, Avail(a))
<1> PICK a0 : a0 = a
  OBVIOUS
<1> PICK n : n = a.size - 1
  OBVIOUS
<1> PICK A : A = Avail(a0)
  OBVIOUS
<1>1. /\ n \in Nat /\ A \in Nat /\ Len(s) \in Nat /\ Len(s) < Width /\ n = Len(s) - 1 /\ Len(s) = a.size
      /\ \A i \in 1 .. Len(s) : s[i] \in Cell
  <2>1. Len(s) \in Nat /\ A \in Nat /\ Len(s) = a.size /\ \A i \in 1 .. Len(s) : s[i] \in Cell
    BY HoldsIs
  <2>2. n \in Nat /\ n = Len(s) - 1
    BY <2>1
  <2> QED
    BY <2>1, <2>2
<1>0. ASSUME NEW k \in 0 .. Len(s)
      PROVE  sel[k] \in Seq(Cell) /\ Len(sel[k]) \in Nat /\ \A i \in 1 .. Len(sel[k]) : sel[k][i] \in Cell
  <2> PICK q : q = sel[k]
    OBVIOUS
  <2>1. q \in Seq(Cell)
    BY DEF Selected
  <2>2. Len(q) \in Nat /\ \A i \in 1 .. Len(q) : q[i] \in Cell
    BY ONLY <2>1
  <2> QED
    BY <2>1, <2>2
<1>14. ASSUME NEW k \in 1 .. Len(s)
       PROVE  /\ s[Len(s) - k + 1] = v => sel[k] = sel[k - 1]
              /\ s[Len(s) - k + 1] # v => /\ Len(sel[k]) = 1 + Len(sel[k - 1]) /\ sel[k][1] = s[Len(s) - k + 1]
                                         /\ \A i \in 1 .. Len(sel[k - 1]) : sel[k][i + 1] = sel[k - 1][i]
  <2> PICK q : q = sel[k - 1]
    OBVIOUS
  <2> PICK x : x = s[Len(s) - k + 1]
    OBVIOUS
  <2>1. k - 1 \in 0 .. Len(s) /\ Len(s) - k + 1 \in 1 .. Len(s)
    BY <1>1
  <2>2. q \in Seq(Cell) /\ x \in Cell
    BY <1>0, <1>1, <2>1
  <2>3. sel[k] = IF x = v THEN q ELSE <<x>> \o q
    BY DEF Selected
  <2>4. Len(<<x>> \o q) = 1 + Len(q) /\ (<<x>> \o q)[1] = x /\ \A i \in 1 .. Len(q) : (<<x>> \o q)[i + 1] = q[i]
    BY ONLY <2>2
  <2> QED
    BY <2>3, <2>4
<1> DEFINE N(k) == [i \in 1 .. (Len(s) - k + Len(sel[k])) |-> IF i <= Len(s) - k THEN s[i] ELSE sel[k][i - (Len(s) - k)]]
<1> PICK S : S = [k \in 0 .. n |-> N(k)]
  OBVIOUS
<1>2. ASSUME NEW k \in 0 .. n
      PROVE  /\ S[k] \in Seq(Cell) /\ Len(S[k]) = (Len(s) - k + Len(sel[k]))
             /\ \A i \in 1 .. (Len(s) - k + Len(sel[k])) : S[k][i] = IF i <= Len(s) - k THEN s[i] ELSE sel[k][i - (Len(s) - k)]
  <2>1. ASSUME NEW i \in 1 .. (Len(s) - k + Len(sel[k])) PROVE (IF i <= Len(s) - k THEN s[i] ELSE sel[k][i - (Len(s) - k)]) \in Cell
    <3>1. k \in 0 .. Len(s) /\ (i <= Len(s) - k => i \in 1 .. Len(s))
      BY <1>1
    <3>2. Len(sel[k]) \in Nat /\ \A j \in 1 .. Len(sel[k]) : sel[k][j] \in Cell
      BY <1>0, <3>1
    <3>3. ~(i <= Len(s) - k) => i - (Len(s) - k) \in 1 .. Len(sel[k])
      BY <1>1, <3>1, <3>2
    <3> QED
      BY <3>1, <3>2, <3>3, <1>1
  <2>2. N(k) \in [1 .. (Len(s) - k + Len(sel[k])) -> Cell] /\ (Len(s) - k + Len(sel[k])) \in Nat
    BY <2>1, <1>1
  <2>3. S[k] = N(k)
    OBVIOUS
  <2>4. S[k] \in Seq(Cell) /\ Len(S[k]) = (Len(s) - k + Len(sel[k]))
    <3>0. PICK m : m = (Len(s) - k + Len(sel[k]))
      OBVIOUS
    <3>0a. PICK w : w = S[k]
      OBVIOUS
    <3>1. w \in [1 .. m -> Cell] /\ m \in Nat
      BY <2>2, <2>3, <3>0, <3>0a
    <3>2. w \in Seq(Cell) /\ Len(w) = m
      BY ONLY <3>1, FunSeq
    <3> QED
      BY <3>2, <3>0, <3>0a
  <2>5. \A i \in 1 .. (Len(s) - k + Len(sel[k])) : S[k][i] = IF i <= Len(s) - k THEN s[i] ELSE sel[k][i - (Len(s) - k)]
    BY ONLY <2>3
  <2> QED
    BY <2>4, <2>5
<1> HIDE DEF N
<1>3. Held(a0, S[0], A)
  <2>0. s \in Seq(Cell) /\ Holds(a0, s)
    BY HoldsIs
  <2>1. 0 \in 0 .. n /\ s \in Seq(Cell) /\ Holds(a0, s)
    BY <1>1, <2>0
  <2>2. /\ S[0] \in Seq(Cell) /\ Len(S[0]) = (Len(s) - 0 + Len(sel[0]))
        /\ \A i \in 1 .. (Len(s) - 0 + Len(sel[0])) : S[0][i] = IF i <= Len(s) - 0 THEN s[i] ELSE sel[0][i - (Len(s) - 0)]
    BY <2>1, <1>2
  <2>3. Same(S[0], s)
    <3>1. sel[0] = <<>> /\ Len(sel[0]) = 0
      BY DEF Selected
    <3>2. \A i \in 1 .. Len(s) : i <= Len(s) - 0 /\ i \in 1 .. (Len(s) - 0 + Len(sel[0]))
      BY <1>1, <3>1
    <3>3. \A i \in 1 .. Len(s) : S[0][i] = s[i]
      BY <2>2, <3>2
    <3> QED
      BY <2>1, <2>2, <3>1, <3>3, <1>1 DEF Same
  <2>4. S[0] = s
    BY <2>3, SameSeq
  <2> QED
    BY <2>1, <2>4, <1>1, HeldIs
<1>4. ASSUME NEW k \in 1 .. n, NEW b \in ArrSet, Held(b, S[k - 1], A) PROVE Held((IF arrGet(b, a.size - k) = v THEN arrDel(b, a.size - k, 1) ELSE b), S[k], A)
  <2> PICK u : u = S[k - 1]
    OBVIOUS
  <2> PICK w : w = S[k]
    OBVIOUS
  <2>1. k - 1 \in 0 .. n /\ k \in 0 .. n /\ k \in Nat
    BY <1>1
  <2>2. u \in Seq(Cell) /\ Len(u) = (Len(s) - (k - 1) + Len(sel[(k - 1)])) /\ \A i \in 1 .. (Len(s) - (k - 1) + Len(sel[(k - 1)])) : u[i] = IF i <= Len(s) - (k - 1) THEN s[i] ELSE sel[(k - 1)][i - (Len(s) - (k - 1))]
    BY <1>2, <2>1
  <2>3. w \in Seq(Cell) /\ Len(w) = (Len(s) - k + Len(sel[k])) /\ \A i \in 1 .. (Len(s) - k + Len(sel[k])) : w[i] = IF i <= Len(s) - k THEN s[i] ELSE sel[k][i - (Len(s) - k)]
    BY <1>2, <2>1
  <2>4. Holds(b, u) /\ A <= Avail(b) /\ Avail(b) \in Nat
    BY <1>4, HoldsIs DEF Held
  <2> PICK c : c = (IF arrGet(b, a.size - k) = v THEN arrDel(b, a.size - k, 1) ELSE b)
    OBVIOUS
  <2>p. PICK p : p = Len(s) - k
    OBVIOUS
  <2>e. PICK e : e = Len(sel[k - 1])
    OBVIOUS
  <2>m. PICK m : m = Len(s)
    OBVIOUS
  <2>5. p \in Nat /\ p = a.size - k /\ p + 1 <= m /\ e \in Nat /\ Len(u) = p + 1 + e /\ p < Len(u) /\ k \in 1 .. Len(s) /\ Len(u) \in Nat
        /\ p = m - k /\ p + 1 = m - (k - 1) /\ m \in Nat /\ p = Len(s) - k /\ m < Width
    <3>1. m \in Nat /\ a.size = m /\ k \in Nat /\ 1 <= k /\ k <= m - 1 /\ m < Width
      <4>1. m \in Nat /\ a.size = m /\ m < Width /\ n = m - 1
        BY <1>1, <2>m
      <4>2. k \in 1 .. n
        OBVIOUS
      <4> QED
        BY ONLY <4>1, <4>2
    <3>2. k - 1 \in 0 .. Len(s)
      BY ONLY <3>1, <2>m
    <3>3. e \in Nat
      BY <1>0, <3>2, <2>e
    <3>4. Len(u) = m - (k - 1) + e
      BY <2>2, <2>e, <2>m
    <3> QED
      BY ONLY <3>1, <3>3, <3>4, <2>p, <2>m
  <2>6. \A i \in 1 .. Len(u) : u[i] = IF i <= p + 1 THEN s[i] ELSE sel[k - 1][i - (p + 1)]
    <3>1. Len(s) - (k - 1) = p + 1 /\ Len(s) - (k - 1) + Len(sel[k - 1]) = Len(u)
      BY ONLY <2>5, <2>m, <2>e
    <3>2. \A i \in 1 .. Len(s) - (k - 1) + Len(sel[k - 1]) : u[i] = IF i <= Len(s) - (k - 1) THEN s[i] ELSE sel[k - 1][i - (Len(s) - (k - 1))]
      BY ONLY <2>2
    <3> QED
      BY ONLY <3>1, <3>2
  <2>7. arrGet(b, p) = s[p + 1]
    <3>1. arrGet(b, p) = u[p + 1]
      BY <2>4, <2>5, GetIs
    <3>2. p + 1 \in 1 .. Len(u) /\ p + 1 <= p + 1
      BY ONLY <2>5
    <3>3. u[p + 1] = s[p + 1]
      BY ONLY <2>6, <3>2
    <3> QED
      BY ONLY <3>1, <3>3
  <2>8. Holds(c, w) /\ Avail(c) = Avail(b)
    <3>1. CASE s[p + 1] = v
      <4>1. c = arrDel(b, p, 1)
        BY <2>5, <2>7, <3>1
      <4>2. sel[k] = sel[k - 1] /\ Len(w) = p + e
        <5>1. Len(s) - k + 1 = p + 1 /\ Len(s) - k = p /\ k \in 1 .. Len(s)
          BY ONLY <2>5
        <5>2. sel[k] = sel[k - 1]
          BY <1>14, <5>1, <3>1
        <5>3. Len(w) = Len(s) - k + Len(sel[k])
          BY <2>3
        <5> QED
          BY ONLY <5>1, <5>2, <5>3, <2>e
      <4>3. \A i \in 1 .. Len(w) : w[i] = IF i <= p THEN s[i] ELSE sel[k - 1][i - p]
        BY ONLY <2>3, <4>2, <2>5
      <4>4. DelList(u, p, 1, w)
        <5>1. Len(w) = IF p >= Len(u) THEN Len(u) ELSE IF p + 1 < Len(u) THEN Len(u) - 1 ELSE p
          BY ONLY <4>2, <2>5
        <5>2. ASSUME NEW i \in 1 .. Len(w) PROVE w[i] = IF p >= Len(u) \/ i <= p THEN u[i] ELSE u[i + 1]
          <6>1. CASE i <= p
            <7>1. i \in 1 .. Len(u) /\ i <= p + 1
              BY ONLY <6>1, <2>5
            <7> QED
              BY <6>1, <7>1, <2>6, <4>3
          <6>2. CASE ~(i <= p)
            <7>0. i \in 1 .. p + e
              BY <4>2
            <7>a. p \in Nat /\ e \in Nat /\ Len(u) = p + 1 + e
              BY <2>5
            <7>1. i + 1 \in 1 .. Len(u) /\ ~(i + 1 <= p + 1) /\ (i + 1) - (p + 1) = i - p /\ ~(p >= Len(u))
              BY ONLY <6>2, <7>0, <7>a
            <7>2. u[i + 1] = sel[k - 1][i - p]
              BY ONLY <7>1, <2>6
            <7> QED
              BY <6>2, <7>1, <7>2, <4>3
          <6> QED
            BY <6>1, <6>2
        <5> QED
          BY <5>1, <5>2, <2>3 DEF DelList
      <4>5. p < Len(u) => p + 1 < Width
        BY <2>5, ConstantTypes
      <4> QED
        BY <4>1, <4>4, <4>5, <2>4, <2>5, DelHolds
    <3>2. CASE s[p + 1] # v
      <4>1. c = b
        BY <2>5, <2>7, <3>2
      <4>2. /\ Len(sel[k]) = 1 + e /\ sel[k][1] = s[p + 1]
            /\ \A i \in 1 .. e : sel[k][i + 1] = sel[k - 1][i]
        <5>1. Len(s) - k + 1 = p + 1 /\ k \in 1 .. Len(s)
          BY ONLY <2>5
        <5>2. s[Len(s) - k + 1] = s[p + 1]
          BY <5>1
        <5> QED
          BY <1>14, <5>1, <5>2, <3>2, <2>e
      <4>3. Len(w) = Len(u)
        <5>1. Len(w) = Len(s) - k + Len(sel[k]) /\ Len(sel[k]) = 1 + e /\ Len(s) - k = p
          BY <2>3, <4>2, <2>5
        <5> QED
          BY ONLY <5>1, <2>5
      <4>4. \A i \in 1 .. Len(w) : w[i] = IF i <= p THEN s[i] ELSE sel[k][i - p]
        BY ONLY <2>3, <2>5
      <4>5. ASSUME NEW i \in 1 .. Len(w) PROVE u[i] = w[i]
        <5>1. CASE i <= p
          <6>1. i <= p + 1
            BY <5>1, <2>5
          <6> QED
            BY <5>1, <6>1, <2>6, <4>3, <4>4
        <5>2. CASE i = p + 1
          <6>0. p \in Nat
            BY <2>5
          <6>1. i <= p + 1 /\ ~(i <= p) /\ i - p = 1
            BY ONLY <5>2, <6>0
          <6> QED
            BY <6>1, <5>2, <2>6, <4>2, <4>3, <4>4
        <5>3. CASE i > p + 1
          <6>0. PICK j : j = i - (p + 1)
            OBVIOUS
          <6>0a. i \in 1 .. p + 1 + e
            BY <2>5, <4>3
          <6>1. ~(i <= p + 1) /\ ~(i <= p) /\ j \in 1 .. e /\ i - p = j + 1 /\ j = i - (p + 1)
            <7>1. i \in Nat /\ p \in Nat /\ e \in Nat /\ i > p + 1 /\ i <= p + 1 + e /\ j = i - (p + 1)
              <8>1. p \in Nat /\ e \in Nat
                BY ONLY <2>5
              <8>2. i \in Nat /\ i <= p + 1 + e
                BY ONLY <8>1, <6>0a
              <8> QED
                BY ONLY <8>1, <8>2, <5>3, <6>0
            <7> QED
              BY ONLY <7>1
          <6>2. u[i] = sel[k - 1][j]
            BY <6>1, <2>6, <4>3
          <6>3. w[i] = sel[k][j + 1]
            BY <6>1, <4>4
          <6> QED
            BY <6>1, <6>2, <6>3, <4>2
        <5>4. i \in 1 .. p + 1 + e
          BY <2>5, <4>3
        <5>5. i <= p \/ i = p + 1 \/ i > p + 1
          BY ONLY <5>4, <2>5
        <5> QED
          BY ONLY <5>1, <5>2, <5>3, <5>5
      <4>6. Same(u, w)
        BY <2>2, <2>3, <4>3, <4>5 DEF Same
      <4>7. u = w
        BY <4>6, SameSeq
      <4> QED
        BY <4>1, <4>7, <2>4
    <3> QED
      BY <3>1, <3>2
  <2>9. Holds(c, w) /\ A <= Avail(c) /\ w = S[k]
    BY <2>4, <2>8
  <2> QED
    BY <2>9, HeldIs
<1> PICK G : G = [x \in (1 .. n) \X ArrSet |-> (IF arrGet(x[2], a.size - x[1]) = v THEN arrDel(x[2], a.size - x[1], 1) ELSE x[2])]
  OBVIOUS
<1>5. \A k \in 1 .. n : \A b \in ArrSet : G[<<k, b>>] = (IF arrGet(b, a.size - k) = v THEN arrDel(b, a.size - k, 1) ELSE b)
  OBVIOUS
<1>6. Passing(n, S, A, a0, G)
  BY <1>1, <1>3, <1>4, <1>5 DEF Passing
<1> DEFINE Is(f) == f = [k \in 0 .. n |-> IF k = 0 THEN a0 ELSE (IF arrGet(f[k - 1], a.size - k) = v THEN arrDel(f[k - 1], a.size - k, 1) ELSE f[k - 1])]
<1>7. \E f : Is(f)
  <2>1. PICK f : Looping(n, a0, G, f) /\ \A k \in 0 .. n : Held(f[k], S[k], A)
    BY ONLY <1>6, LoopPasses
  <2>2. ASSUME NEW k \in 0 .. n, k # 0 PROVE G[<<k, f[k - 1]>>] = (IF arrGet(f[k - 1], a.size - k) = v THEN arrDel(f[k - 1], a.size - k, 1) ELSE f[k - 1])
    <3>1. k \in 1 .. n /\ k - 1 \in 0 .. n
      BY <1>1, <2>2
    <3>2. f[k - 1] \in ArrSet
      BY <3>1, <2>1 DEF Held
    <3> QED
      BY <3>1, <3>2, <1>5
  <2>3. [k \in 0 .. n |-> IF k = 0 THEN a0 ELSE G[<<k, f[k - 1]>>]] = [k \in 0 .. n |-> IF k = 0 THEN a0 ELSE (IF arrGet(f[k - 1], a.size - k) = v THEN arrDel(f[k - 1], a.size - k, 1) ELSE f[k - 1])]
    BY <2>2
  <2>4. f = [k \in 0 .. n |-> IF k = 0 THEN a0 ELSE G[<<k, f[k - 1]>>]]
    BY ONLY <2>1 DEF Looping
  <2>5. f = [k \in 0 .. n |-> IF k = 0 THEN a0 ELSE (IF arrGet(f[k - 1], a.size - k) = v THEN arrDel(f[k - 1], a.size - k, 1) ELSE f[k - 1])]
    BY ONLY <2>3, <2>4
  <2> QED
    BY <2>5
<1> PICK f : f = CHOOSE g : Is(g)
  OBVIOUS
<1>8. Is(f)
  BY <1>7
<1>9. Staying(n, S, A, f)
  <2>0. \A k \in 0 .. n : f[k] = IF k = 0 THEN a0 ELSE (IF arrGet(f[k - 1], a.size - k) = v THEN arrDel(f[k - 1], a.size - k, 1) ELSE f[k - 1])
    BY <1>8
  <2>1. f[0] = a0 /\ \A k \in 1 .. n : f[k] = (IF arrGet(f[k - 1], a.size - k) = v THEN arrDel(f[k - 1], a.size - k, 1) ELSE f[k - 1])
    <3>1. n \in Nat
      BY <1>1
    <3> HIDE DEF Is
    <3> QED
      BY <3>1, <2>0
  <2>2. ASSUME NEW k \in 1 .. n, Held(f[k - 1], S[k - 1], A) PROVE Held(f[k], S[k], A)
    <3>1. f[k - 1] \in ArrSet
      BY <2>2 DEF Held
    <3> QED
      BY <3>1, <2>1, <2>2, <1>4
  <2> QED
    BY <2>1, <2>2, <1>1, <1>3 DEF Staying
<1>10. Held(f[n], S[n], A)
  <2>1. n \in 0 .. n
    BY <1>1
  <2>2. \A k \in 0 .. n : Held(f[k], S[k], A)
    BY ONLY <1>9, LoopStays
  <2> QED
    BY <2>1, <2>2
<1>11. DropLoop(a, v) = IF n < 1 THEN a0 ELSE f[n]
  BY DEF Loop, DropLoop
<1>12. S[n] = t
  <2>1. n \in 0 .. n /\ t = sel[Len(s)]
    BY <1>1 DEF DropList
  <2>2. /\ S[n] \in Seq(Cell) /\ Len(S[n]) = (Len(s) - n + Len(sel[n]))
        /\ \A i \in 1 .. (Len(s) - n + Len(sel[n])) : S[n][i] = IF i <= Len(s) - n THEN s[i] ELSE sel[n][i - (Len(s) - n)]
    BY <2>1, <1>2
  <2>3. Same(S[n], t)
    <3>1. Len(s) \in 1 .. Len(s) /\ Len(s) - Len(s) + 1 = 1 /\ Len(s) - 1 = n
      BY <1>1
    <3>2. Len(sel[Len(s)]) = 1 + Len(sel[n]) /\ sel[Len(s)][1] = s[1] /\ \A i \in 1 .. Len(sel[n]) : sel[Len(s)][i + 1] = sel[n][i]
      BY <3>1, <1>14
    <3>3. t \in Seq(Cell) /\ Len(sel[n]) \in Nat
      BY <1>0, <1>1, <2>1
    <3>4. ASSUME NEW i \in 1 .. Len(t) PROVE S[n][i] = t[i]
      <4>1. Len(t) = 1 + Len(sel[n]) /\ Len(s) - n = 1
        BY <2>1, <3>2, <1>1
      <4>2. CASE i = 1
        BY <4>1, <4>2, <2>1, <2>2, <3>2, <3>3
      <4>3. CASE i # 1
        <5> PICK j : j = i - 1
          OBVIOUS
        <5>1. j \in 1 .. Len(sel[n]) /\ i = j + 1 /\ ~(i <= Len(s) - n) /\ i - (Len(s) - n) = j
              /\ i \in 1 .. (Len(s) - n + Len(sel[n]))
          BY <4>1, <4>3, <3>3
        <5>2. S[n][i] = sel[n][j]
          BY <5>1, <2>2
        <5> QED
          BY <5>1, <5>2, <3>2, <2>1
      <4> QED
        BY <4>2, <4>3
    <3>5. Len(S[n]) = Len(t)
      BY <2>1, <2>2, <3>2, <3>3, <1>1
    <3> QED
      BY <3>3, <3>4, <3>5, <2>2 DEF Same
  <2> QED
    BY <2>3, SameSeq
<1>13. n < 1 => n = 0
  BY <1>1
<1> QED
  BY <1>3, <1>10, <1>11, <1>12, <1>13

\* The values of s in some order.
Ordering(s, t, p) ==
  /\ p \in [1 .. Len(s) -> 1 .. Len(s)]
  /\ \A i, j \in 1 .. Len(s) : p[i] = p[j] => i = j
  /\ \A j \in 1 .. Len(s) : \E i \in 1 .. Len(s) : p[i] = j
  /\ \A i \in 1 .. Len(s) : t[i] = s[p[i]]
Shuffled(s, t) == s \in Seq(Cell) /\ t \in Seq(Cell) /\ Len(t) = Len(s) /\ \E p : Ordering(s, t, p)

LEMMA ShuffledSelf ==
  ASSUME NEW s \in Seq(Cell)
  PROVE  Shuffled(s, s)
<1>1. PICK p : p = [i \in 1 .. Len(s) |-> i]
  OBVIOUS
<1>2. Ordering(s, s, p)
  BY <1>1 DEF Ordering
<1> QED
  BY <1>2 DEF Shuffled

LEMMA ShuffledSwap ==
  ASSUME NEW s, NEW t, Shuffled(s, t), NEW i \in 0 .. Len(s) - 1, NEW j \in 0 .. Len(s) - 1,
         NEW w, SwapList(t, i, j, w)
  PROVE  Shuffled(s, w)
<1> PICK n : n = Len(s)
  OBVIOUS
<1> PICK x : x = i + 1
  OBVIOUS
<1> PICK y : y = j + 1
  OBVIOUS
<1>1. PICK p : Ordering(s, t, p)
  BY DEF Shuffled
<1>2. x \in 1 .. n /\ y \in 1 .. n
  <2>1. Len(s) \in Nat
    BY DEF Shuffled
  <2> QED
    BY <2>1
<1>3. /\ p \in [1 .. n -> 1 .. n]
      /\ \A k, m \in 1 .. n : p[k] = p[m] => k = m
      /\ \A m \in 1 .. n : \E k \in 1 .. n : p[k] = m
      /\ \A k \in 1 .. n : t[k] = s[p[k]]
  BY <1>1 DEF Ordering
<1>4. PICK q : q = [k \in 1 .. n |-> IF k = y THEN p[x] ELSE IF k = x THEN p[y] ELSE p[k]]
  OBVIOUS
<1>5. w \in Seq(Cell) /\ Len(w) = n /\ \A k \in 1 .. n : w[k] = IF k = y THEN t[x] ELSE IF k = x THEN t[y] ELSE t[k]
  BY DEF SwapList, Shuffled
<1>6. q \in [1 .. n -> 1 .. n]
  BY ONLY <1>2, <1>3, <1>4
<1>7. \A k, m \in 1 .. n : q[k] = q[m] => k = m
  BY ONLY <1>2, <1>3, <1>4
<1>8. ASSUME NEW m \in 1 .. n PROVE \E k \in 1 .. n : q[k] = m
  <2>1. PICK k \in 1 .. n : p[k] = m
    BY <1>3
  <2>2. q[y] = p[x] /\ (x # y => q[x] = p[y]) /\ (k # x /\ k # y => q[k] = p[k])
    BY ONLY <1>2, <1>4
  <2>3. CASE k = x
    BY <2>1, <2>2, <2>3, <1>2
  <2>4. CASE k = y
    BY <2>1, <2>2, <2>4, <1>2
  <2>5. CASE k # x /\ k # y
    BY <2>1, <2>2, <2>5
  <2> QED
    BY <2>3, <2>4, <2>5
<1>9. ASSUME NEW k \in 1 .. n PROVE w[k] = s[q[k]]
  BY <1>2, <1>3, <1>4, <1>5
<1>10. Ordering(s, w, q)
  BY <1>6, <1>7, <1>8, <1>9 DEF Ordering
<1> QED
  BY <1>5, <1>10 DEF Shuffled

\* list_randomize.
ShuffleLoop(a, js) == Loop(a, a.size - 1, LAMBDA b, k : Swapped(b, a.size - k, js[a.size - k]))
LEMMA RandomizeHolds ==
  ASSUME NEW a, NEW s, Holds(a, s), Len(s) < Width,
         NEW js \in [1 .. a.size - 1 -> 0 .. a.size - 1]
  PROVE  \E t : Shuffled(s, t) /\ Held(ShuffleLoop(a, js), t, Avail(a))
<1> PICK a0 : a0 = a
  OBVIOUS
<1> PICK n : n = a.size - 1
  OBVIOUS
<1> PICK A : A = Avail(a0)
  OBVIOUS
<1>1. Len(s) \in Nat /\ Len(s) = a.size /\ A \in Nat /\ s \in Seq(Cell) /\ Len(s) < Width /\ n = Len(s) - 1
  BY HoldsIs
<1> PICK D : D = {b \in ArrSet : \E t : Shuffled(s, t) /\ Held(b, t, A)}
  OBVIOUS
<1>2. \A b \in D : \E t : Shuffled(s, t) /\ Held(b, t, A)
  OBVIOUS
<1>3. a0 \in D
  <2>1. Shuffled(s, s) /\ Holds(a0, s) /\ A <= Avail(a0)
    BY <1>1, ShuffledSelf
  <2>2. Held(a0, s, A)
    BY <2>1, HeldIs
  <2> QED
    BY <2>1, <2>2 DEF Held
<1>4. ASSUME NEW k \in 1 .. n, NEW b \in D PROVE Swapped(b, a.size - k, js[a.size - k]) \in D
  <2>1. PICK t : Shuffled(s, t) /\ Held(b, t, A)
    OBVIOUS
  <2>p. PICK p : p = a.size - k
    OBVIOUS
  <2>q. PICK q : q = js[p]
    OBVIOUS
  <2>2. p \in 0 .. Len(s) - 1 /\ p \in 1 .. a.size - 1
    BY <1>1, <2>p
  <2>3. q \in 0 .. Len(s) - 1
    BY <1>1, <2>2, <2>q
  <2>4. Len(t) = Len(s) /\ t \in Seq(Cell) /\ \A i \in 1 .. Len(t) : t[i] \in Cell
    BY <2>1 DEF Shuffled
  <2>5. PICK w : w = [i \in 1 .. Len(s) |-> IF i = q + 1 THEN t[p + 1] ELSE IF i = p + 1 THEN t[q + 1] ELSE t[i]]
    OBVIOUS
  <2>6. w \in Seq(Cell) /\ Len(w) = Len(s)
    <3>1. w \in [1 .. Len(s) -> Cell]
      BY <1>1, <2>2, <2>3, <2>4, <2>5
    <3> QED
      BY ONLY <3>1, <1>1, FunSeq
  <2>7. SwapList(t, p, q, w)
    BY <2>4, <2>5, <2>6 DEF SwapList
  <2>8. Shuffled(s, w)
    BY <2>1, <2>2, <2>3, <2>7, ShuffledSwap
  <2>9. Holds(Swapped(b, p, q), w) /\ Avail(Swapped(b, p, q)) = Avail(b)
    <3>1. Holds(b, t) /\ p \in 0 .. Len(t) - 1 /\ q \in 0 .. Len(t) - 1 /\ Len(t) < Width
      BY <1>1, <2>1, <2>2, <2>3, <2>4 DEF Held
    <3> QED
      BY ONLY <3>1, <2>7, SwapHolds, ConstantTypes
  <2>10. Held(Swapped(b, p, q), w, A)
    <3>1. A <= Avail(b)
      BY <2>1 DEF Held
    <3> QED
      BY <3>1, <2>9, HeldIs
  <2>11. Swapped(b, p, q) \in D
    BY <2>8, <2>10 DEF Held
  <2> QED
    BY <2>11, <2>p, <2>q
<1>5. CASE n < 1
  <2>1. ShuffleLoop(a, js) = a0
    BY <1>5 DEF Loop, ShuffleLoop
  <2> QED
    BY <2>1, <1>3
<1>6. CASE ~(n < 1)
  <2>1. n \in Nat
    BY <1>1, <1>6
  <2> PICK P : P = [k \in 0 .. n |-> D]
    OBVIOUS
  <2>2. \A k \in 0 .. n : P[k] = D
    OBVIOUS
  <2> PICK G : G = [x \in (1 .. n) \X ArrSet |-> Swapped(x[2], a.size - x[1], js[a.size - x[1]])]
    OBVIOUS
  <2>3. \A k \in 1 .. n : \A b \in ArrSet : G[<<k, b>>] = Swapped(b, a.size - k, js[a.size - k])
    OBVIOUS
  <2>4. 0 \in 0 .. n /\ n \in 0 .. n /\ \A k \in 1 .. n : k \in 0 .. n /\ k - 1 \in 0 .. n
    BY <2>1
  <2>5. Loops(n, P, a0, G)
    <3>1. \A b \in D : b \in ArrSet
      OBVIOUS
    <3> QED
      BY <3>1, <2>1, <2>2, <2>3, <2>4, <1>3, <1>4 DEF Loops
  <2> DEFINE Is(f) == f = [k \in 0 .. n |-> IF k = 0 THEN a0 ELSE Swapped(f[k - 1], a.size - k, js[a.size - k])]
  <2>6. \E f : Is(f)
    <3>1. PICK f : Looping(n, a0, G, f) /\ \A k \in 0 .. n : f[k] \in P[k]
      BY ONLY <2>5, Looped
    <3>2. ASSUME NEW k \in 0 .. n, k # 0 PROVE G[<<k, f[k - 1]>>] = Swapped(f[k - 1], a.size - k, js[a.size - k])
      <4>1. k \in 1 .. n /\ k - 1 \in 0 .. n
        BY <2>1, <3>2
      <4>2. f[k - 1] \in ArrSet
        BY <4>1, <3>1, <2>2
      <4> QED
        BY <4>1, <4>2, <2>3
    <3>4. f = [k \in 0 .. n |-> IF k = 0 THEN a0 ELSE G[<<k, f[k - 1]>>]]
      BY ONLY <3>1 DEF Looping
    <3>5. f = [k \in 0 .. n |-> IF k = 0 THEN a0 ELSE Swapped(f[k - 1], a.size - k, js[a.size - k])]
      BY ONLY <3>2, <3>4
    <3> QED
      BY <3>5
  <2> PICK f : f = CHOOSE g : Is(g)
    OBVIOUS
  <2>7. Is(f)
    BY <2>6
  <2>8. Keeping(n, P, f)
    <3>0. \A k \in 0 .. n : f[k] = IF k = 0 THEN a0 ELSE Swapped(f[k - 1], a.size - k, js[a.size - k])
      BY <2>7
    <3>1. f[0] = a0 /\ \A k \in 1 .. n : f[k] = Swapped(f[k - 1], a.size - k, js[a.size - k])
      <4> HIDE DEF Is
      <4> QED
        BY <2>1, <3>0
    <3>2. ASSUME NEW k \in 1 .. n, f[k - 1] \in P[k - 1] PROVE f[k] \in P[k]
      <4>1. f[k - 1] \in D
        BY <3>2, <2>2, <2>4
      <4>2. Swapped(f[k - 1], a.size - k, js[a.size - k]) \in D
        BY ONLY <1>4, <4>1
      <4>3. f[k] \in D
        BY ONLY <3>1, <4>2
      <4> QED
        BY <4>3, <2>2, <2>4
    <3> QED
      BY <3>1, <3>2, <2>1, <2>2, <2>4, <1>3 DEF Keeping
  <2>9. f[n] \in D
    BY <2>2, <2>4, <2>8, Kept
  <2>10. ShuffleLoop(a, js) = f[n]
    BY <1>6 DEF Loop, ShuffleLoop
  <2>11. \E t : Shuffled(s, t) /\ Held(f[n], t, A)
    <3>1. \A b \in D : \E t : Shuffled(s, t) /\ Held(b, t, A)
      BY ONLY <1>2
    <3> QED
      BY ONLY <3>1, <2>9
  <2> HIDE DEF Is
  <2> QED
    BY <2>10, <2>11
<1> QED
  BY <1>5, <1>6

(***************************************************************************)
(* What a call changes.                                                    *)
(***************************************************************************)
LEMMA ConIs ==
  ASSUME NEW a, NEW s, Holds(a, s)
  PROVE  Con(a) = s /\ Sound(a)
<1>1. /\ IsArr(a) /\ a.wild = FALSE /\ Avail(a) \in Nat /\ a.size \in Nat /\ a.size <= Avail(a)
      /\ s \in Seq(Cell) /\ Len(s) = a.size /\ \A k \in 1 .. Len(s) : a.block[k] = s[k]
  BY HoldsIs
<1>2. a.block \in Seq(Slot) /\ Len(a.block) = Avail(a)
  BY <1>1, ArrIs
<1> PICK x : x = a.block
  OBVIOUS
<1> PICK n : n = a.size
  OBVIOUS
<1>3. SubSeq(x, 1, n) \in Seq(Slot) /\ Len(SubSeq(x, 1, n)) = n /\ \A k \in 1 .. n : SubSeq(x, 1, n)[k] = x[k]
  <2>1. x \in Seq(Slot) /\ n \in Nat /\ n <= Len(x)
    BY <1>1, <1>2
  <2> QED
    BY ONLY <2>1
<1> PICK u : u = SubSeq(x, 1, n)
  OBVIOUS
<1>4. u \in Seq(Slot) /\ Len(u) = Len(s) /\ \A k \in 1 .. Len(s) : u[k] = s[k]
  BY <1>1, <1>3
<1>5. u = s
  BY ONLY <1>1, <1>4
<1>6. Con(a) = s
  BY <1>5 DEF Con
<1> QED
  BY <1>1, <1>6 DEF Sound, IsArr, Slot, Cell

LEMMA SoundHolds ==
  ASSUME NEW a, Sound(a)
  PROVE  Holds(a, Con(a))
<1>1. IsArr(a) /\ a.wild = FALSE /\ Con(a) \in Seq(Cell) /\ a.size <= Avail(a)
  BY DEF Sound, IsArr, Slot, Cell
<1>2. a.block \in Seq(Slot) /\ Len(a.block) = Avail(a) /\ a.size \in Nat
  BY <1>1, ArrIs
<1> PICK x : x = a.block
  OBVIOUS
<1> PICK n : n = a.size
  OBVIOUS
<1>3. Len(SubSeq(x, 1, n)) = n /\ \A k \in 1 .. n : SubSeq(x, 1, n)[k] = x[k]
  <2>1. x \in Seq(Slot) /\ n \in Nat /\ n <= Len(x)
    BY <1>1, <1>2
  <2> QED
    BY ONLY <2>1
<1>4. Len(Con(a)) = n /\ \A k \in 1 .. n : x[k] = Con(a)[k]
  BY <1>3 DEF Con
<1> QED
  BY <1>1, <1>4 DEF Holds

\* What the invariant says of a list.
LEMMA ListIs ==
  ASSUME ListsInv, NEW l \in Names
  PROVE  /\ Holds(arrays[l], Con(arrays[l])) /\ Con(arrays[l]) \in Seq(Cell)
         /\ Len(Con(arrays[l])) = arrays[l].size /\ Len(Con(arrays[l])) \in Nat
         /\ Avail(arrays[l]) \in Nat /\ Len(Con(arrays[l])) <= MaxRoom /\ 2 * (MaxRoom + MaxPos + 1) < Width
<1> PICK a : a = arrays[l]
  OBVIOUS
<1>1. Sound(a)
  BY DEF ListsInv
<1>2. Holds(a, Con(a))
  BY <1>1, SoundHolds
<1>3. /\ Avail(a) \in Nat /\ a.size \in Nat /\ a.size <= Avail(a) /\ Con(a) \in Seq(Cell) /\ Len(Con(a)) = a.size
  BY <1>2, HoldsIs
<1> PICK f : f = [m \in Names |-> Avail(arrays[m])]
  OBVIOUS
<1>4. f \in [Names -> Nat]
  <2>1. ASSUME NEW m \in Names PROVE Avail(arrays[m]) \in Nat
    <3>1. Sound(arrays[m])
      BY DEF ListsInv
    <3> QED
      BY <3>1, SoundHolds, HoldsIs
  <2> QED
    BY <2>1
<1>5. f[l] <= SumFunction(f) /\ SumFunction(f) \in Nat
  BY <1>4, SumChanged, ConstantTypes
<1>6. SumFunction(f) <= MaxRoom
  BY DEF ListsInv, Room
<1>7. f[l] = Avail(a)
  OBVIOUS
<1>8. MaxRoom \in Nat /\ 2 * (MaxRoom + MaxPos + 1) < Width /\ MaxPos \in Nat /\ Width \in Nat
  BY ConstantTypes
<1>9. a.size <= MaxRoom
  BY ONLY <1>3, <1>5, <1>6, <1>7, <1>8
<1> QED
  BY <1>2, <1>3, <1>8, <1>9

\* List l has array a now, and there is room for all blocks.
Given(l, a) == arrays' = [arrays EXCEPT ![l] = a] /\ Room(arrays') <= MaxRoom

LEMMA GivenKeeps ==
  ASSUME ListsInv, NEW l \in Names, NEW a, NEW t, Holds(a, t), Given(l, a)
  PROVE  /\ DOMAIN arrays' = Names /\ \A m \in Names : Sound(arrays'[m])
         /\ Room(arrays') <= MaxRoom
         /\ \A m \in Names : Con(arrays'[m]) = IF m = l THEN t ELSE Con(arrays[m])
<1>1. DOMAIN arrays = Names /\ \A m \in Names : Sound(arrays[m])
  BY DEF ListsInv
<1>2. DOMAIN arrays' = Names /\ arrays'[l] = a /\ \A m \in Names : m # l => arrays'[m] = arrays[m]
  BY <1>1 DEF Given
<1>3. Con(a) = t /\ Sound(a)
  BY ConIs
<1>4. \A m \in Names : Sound(arrays'[m])
  BY <1>1, <1>2, <1>3
<1>5. \A m \in Names : Con(arrays'[m]) = IF m = l THEN t ELSE Con(arrays[m])
  BY <1>2, <1>3
<1> QED
  BY <1>2, <1>4, <1>5 DEF Given

\* Call op of list l with args gives it the values t, and the answer ans; nothing else changes.
Acts(op, l, args, t, ans) ==
  /\ ListsInv' /\ called' = [op |-> op, list |-> l, args |-> args] /\ answer' = ans
  /\ \A m \in Names : Con(arrays'[m]) = IF m = l THEN t ELSE Con(arrays[m])
  /\ UNCHANGED sorting

LEMMA GivenActs ==
  ASSUME ListsInv, Regular, NEW l \in Names, NEW op, NEW args, NEW ans, NEW a, NEW t, Holds(a, t),
         Called(op, l, args, ans), Given(l, a), UNCHANGED sorting
  PROVE  Acts(op, l, args, t, ans)
<1>1. /\ DOMAIN arrays' = Names /\ \A m \in Names : Sound(arrays'[m])
      /\ Room(arrays') <= MaxRoom
      /\ \A m \in Names : Con(arrays'[m]) = IF m = l THEN t ELSE Con(arrays[m])
  BY GivenKeeps
<1>2. sorting.list # l /\ called' = [op |-> op, list |-> l, args |-> args] /\ answer' = ans
  BY DEF Called, Regular
<1>3. ASSUME sorting # Idle
      PROVE  /\ sorting \in [list : Names, i : Nat, low : Nat, high : Nat, newval : Values \cup {Null}, by : {"<=>"}]
             /\ Con(arrays'[sorting.list]) = Con(arrays[sorting.list])
             /\ SortingRight(Con(arrays[sorting.list]))
  <2>1. /\ sorting \in [list : Names, i : Nat, low : Nat, high : Nat, newval : Values \cup {Null}, by : {"<=>"}]
        /\ SortingRight(Con(arrays[sorting.list]))
    BY <1>3 DEF ListsInv
  <2>2. sorting.list \in Names
    BY <2>1
  <2> QED
    BY <1>1, <1>2, <2>1, <2>2
<1>4. ASSUME sorting' # Idle
      PROVE  /\ sorting' \in [list : Names, i : Nat, low : Nat, high : Nat, newval : Values \cup {Null}, by : {"<=>"}]
             /\ SortingRight(Con(arrays[sorting.list]))'
  <2>1. SortingRight(Con(arrays[sorting.list]))' = SortingRight(Con(arrays'[sorting.list]))
    BY DEF SortingRight
  <2> QED
    BY <1>3, <1>4, <2>1
<1>5. ListsInv'
  BY <1>1, <1>4 DEF ListsInv
<1> QED
  BY <1>1, <1>2, <1>5 DEF Acts

LEMMA DoneActs ==
  ASSUME ListsInv, Regular, NEW l \in Names, NEW op, NEW args, NEW ans, NEW a, NEW t, Holds(a, t),
         Done(op, l, args, a, ans)
  PROVE  Acts(op, l, args, t, ans)
BY GivenActs DEF Done, Given

(***************************************************************************)
(* What each method does.                                                  *)
(***************************************************************************)
LEMMA FewIs ==
  ASSUME NEW vs \in Few
  PROVE  vs \in Seq(Cell) /\ Len(vs) \in Nat /\ Len(vs) <= 2
<1>1. PICK m \in 0 .. 2 : vs \in [1 .. m -> Cell]
  BY DEF Few, SeqOf, Cell
<1>2. m \in Nat
  OBVIOUS
<1> QED
  BY <1>1, <1>2, FunSeq

\* Numbers are small compared with what a word holds.
LEMMA Bounds ==
  ASSUME ListsInv, NEW l \in Names
  PROVE  /\ Len(Con(arrays[l])) \in Nat /\ Len(Con(arrays[l])) = arrays[l].size /\ Len(Con(arrays[l])) < Width
         /\ Len(Con(arrays[l])) + 2 < Width
         /\ \A n \in 0 .. MaxPos : Len(Con(arrays[l])) + n + 1 < Width
         /\ \A m \in Names : Len(Con(arrays[l])) + Len(Con(arrays[m])) < Width
         /\ Width \in Nat /\ MaxPos \in Nat /\ MaxPos < Width
<1>1. \A m \in Names : Len(Con(arrays[m])) \in Nat /\ Len(Con(arrays[m])) <= MaxRoom /\ Len(Con(arrays[m])) = arrays[m].size
  BY ListIs
<1>2. MaxRoom \in Nat /\ MaxPos \in Nat /\ Width \in Nat /\ Width > 2 * (MaxRoom + MaxPos + 1)
  BY ConstantTypes
<1>3. ASSUME NEW m \in Names PROVE Len(Con(arrays[l])) + Len(Con(arrays[m])) < Width
  BY <1>1, <1>2
<1>4. ASSUME NEW n \in 0 .. MaxPos PROVE Len(Con(arrays[l])) + n + 1 < Width
  BY <1>1, <1>2
<1> QED
  BY <1>1, <1>2, <1>3, <1>4

\* Negative numbers come out as large ones.
LEMMA WordBelow ==
  ASSUME NEW n \in Int, n < 0, n + Width >= 0
  PROVE  Word(n) = n + Width
<1>1. Width \in Nat /\ Width > 0
  BY ConstantTypes
<1> QED
  BY <1>1 DEF Word

LEMMA NewDoes ==
  ASSUME ListsInv, Regular, NEW l \in Names, list_new(l)
  PROVE  \E vs \in Seq(Cell) : Acts("New", l, vs, vs, Null)
<1>1. PICK vs \in Few : Become("New", l, vs, Loop(newArr(IF vs = <<>> THEN 4 ELSE Len(vs)), Len(vs), LAMBDA a, k : arrSet(a, k - 1, vs[k])))
  BY DEF list_new
<1>2. vs \in Seq(Cell) /\ Len(vs) \in Nat /\ Len(vs) < Width
  <2>1. vs \in Seq(Cell) /\ Len(vs) \in Nat /\ Len(vs) <= 2 /\ 2 < Width /\ Width \in Nat
    BY FewIs, ConstantTypes
  <2> QED
    BY <2>1
<1>3. PICK m : m = IF vs = <<>> THEN 4 ELSE Len(vs)
  OBVIOUS
<1>4. m \in Nat
  BY <1>2, <1>3
<1>5. PICK c : c = Loop(newArr(m), Len(vs), LAMBDA a, k : arrSet(a, k - 1, vs[k]))
  OBVIOUS
<1>6. Holds(c, vs)
  <2>1. FilledList(vs, vs)
    BY DEF FilledList
  <2>2. Held(Loop(newArr(m), Len(vs), LAMBDA b, k : arrSet(b, k - 1, vs[k])), vs, Avail(newArr(m)))
    BY ONLY <1>2, <1>4, <2>1, FilledHolds, ConstantTypes
  <2> QED
    BY <2>2, <1>5 DEF Held
<1>7. Done("New", l, vs, c, Null)
  BY <1>1, <1>3, <1>5 DEF Become
<1> QED
  BY <1>2, <1>6, <1>7, DoneActs

LEMMA SizedDoes ==
  ASSUME ListsInv, Regular, NEW l \in Names, list_newSized(l)
  PROVE  \E n : Acts("Sized", l, <<n>>, <<>>, Null)
<1>1. PICK n \in 0 .. MaxPos : Done("Sized", l, <<n>>, newArr(n), Null)
  BY DEF list_newSized, Become
<1>2. n \in Nat
  BY ConstantTypes
<1>3. Holds(newArr(n), <<>>)
  BY <1>2, NewHolds
<1> QED
  BY <1>1, <1>3, DoneActs

LEMMA AppendDoes ==
  ASSUME ListsInv, Regular, NEW l \in Names, list_append(l)
  PROVE  \E vs \in Seq(Cell) : \E t : AppendList(Con(arrays[l]), vs, t) /\ Acts("<<", l, vs, t, Null)
<1>1. PICK vs \in Few : Become("<<", l, vs, Loop(arrays[l], Len(vs), LAMBDA a, k : arrAdd(a, vs[k])))
  BY DEF list_append
<1>2. vs \in Seq(Cell) /\ Len(vs) \in Nat
  BY FewIs
<1>3. PICK a : a = arrays[l]
  OBVIOUS
<1>4. PICK s : s = Con(a)
  OBVIOUS
<1>5. Holds(a, s) /\ s \in Seq(Cell) /\ Len(s) \in Nat
  BY <1>3, <1>4, ListIs
<1>6. PICK t : t = s \o vs
  OBVIOUS
<1>7. AppendList(s, vs, t)
  <2>1. t \in Seq(Cell) /\ Len(t) = Len(s) + Len(vs) /\ \A i \in 1 .. Len(t) : t[i] = IF i <= Len(s) THEN s[i] ELSE vs[i - Len(s)]
    BY ONLY <1>2, <1>5, <1>6
  <2> QED
    BY <2>1 DEF AppendList
<1>8. PICK c : c = Loop(a, Len(vs), LAMBDA b, k : arrAdd(b, vs[k]))
  OBVIOUS
<1>9. Holds(c, t)
  <2>1. Held(Loop(a, Len(vs), LAMBDA b, k : arrAdd(b, vs[k])), t, Avail(a))
    BY ONLY <1>2, <1>5, <1>7, AppendHolds, ConstantTypes
  <2> QED
    BY <2>1, <1>8 DEF Held
<1>10. Done("<<", l, vs, c, Null)
  BY <1>1, <1>3, <1>8 DEF Become
<1>11. Acts("<<", l, vs, t, Null)
  BY <1>9, <1>10, DoneActs
<1> QED
  BY <1>2, <1>3, <1>4, <1>7, <1>11

LEMMA PrependDoes ==
  ASSUME ListsInv, Regular, NEW l \in Names, list_prepend(l)
  PROVE  \E vs \in Seq(Cell) : \E t : PrependList(Con(arrays[l]), vs, t) /\ Acts(">>", l, vs, t, Null)
<1>1. PICK vs \in Few : Become(">>", l, vs, Loop(arrays[l], Len(vs), LAMBDA a, k : arrIns(a, 0, 1, vs[k])))
  BY DEF list_prepend
<1>3. PICK a : a = arrays[l]
  OBVIOUS
<1>4. PICK s : s = Con(a)
  OBVIOUS
<1>5. Holds(a, s) /\ s \in Seq(Cell) /\ Len(s) \in Nat /\ Len(s) + 2 < Width /\ Width \in Nat
  BY <1>3, <1>4, ListIs, Bounds
<1>2. vs \in Seq(Cell) /\ Len(vs) \in Nat /\ Len(s) + Len(vs) < Width
  <2>1. vs \in Seq(Cell) /\ Len(vs) \in Nat /\ Len(vs) <= 2
    BY FewIs
  <2> QED
    BY <1>5, <2>1
<1> DEFINE el(i) == IF i <= Len(vs) THEN vs[Len(vs) + 1 - i] ELSE s[i - Len(vs)]
<1>6. PICK t : t = [i \in 1 .. Len(s) + Len(vs) |-> el(i)]
  OBVIOUS
<1>7. PrependList(s, vs, t)
  <2>1. ASSUME NEW i \in 1 .. Len(s) + Len(vs) PROVE el(i) \in Cell
    <3>1. (i <= Len(vs) => Len(vs) + 1 - i \in 1 .. Len(vs)) /\ (~(i <= Len(vs)) => i - Len(vs) \in 1 .. Len(s))
      BY ONLY <1>2, <1>5
    <3>2. (\A k \in 1 .. Len(s) : s[k] \in Cell) /\ \A k \in 1 .. Len(vs) : vs[k] \in Cell
      BY ONLY <1>2, <1>5
    <3> QED
      BY <3>1, <3>2
  <2>2. t \in [1 .. Len(s) + Len(vs) -> Cell] /\ Len(s) + Len(vs) \in Nat
    BY <2>1, <1>2, <1>5, <1>6
  <2>3. t \in Seq(Cell) /\ Len(t) = Len(s) + Len(vs)
    BY ONLY <2>2, FunSeq
  <2> QED
    BY <2>3, <1>6 DEF PrependList
<1>8. PICK c : c = Loop(a, Len(vs), LAMBDA b, k : arrIns(b, 0, 1, vs[k]))
  OBVIOUS
<1>9. Holds(c, t)
  <2>1. Held(Loop(a, Len(vs), LAMBDA b, k : arrIns(b, 0, 1, vs[k])), t, Avail(a))
    BY ONLY <1>2, <1>5, <1>7, PrependHolds, ConstantTypes
  <2> QED
    BY <2>1, <1>8 DEF Held
<1>10. Done(">>", l, vs, c, Null)
  BY <1>1, <1>3, <1>8 DEF Become
<1>11. Acts(">>", l, vs, t, Null)
  BY <1>9, <1>10, DoneActs
<1> QED
  BY <1>2, <1>3, <1>4, <1>7, <1>11

\* The position that a caller means.
At(s, p) == IF p < 0 THEN p + Len(s) ELSE p
LEMMA FromIs ==
  ASSUME ListsInv, NEW l \in Names, NEW p \in Positions
  PROVE  /\ From(arrays[l], p) = At(Con(arrays[l]), p) /\ At(Con(arrays[l]), p) \in Int
         /\ At(Con(arrays[l]), p) + Width > Len(Con(arrays[l])) + MaxPos + 1 /\ At(Con(arrays[l]), p) + MaxPos + 1 < Width
         /\ At(Con(arrays[l]), p) >= 0 => Word(At(Con(arrays[l]), p)) = At(Con(arrays[l]), p)
         /\ At(Con(arrays[l]), p) < 0 => /\ Word(At(Con(arrays[l]), p)) \in Nat
                                         /\ Word(At(Con(arrays[l]), p)) >= Len(Con(arrays[l]))
<1> PICK s : s = Con(arrays[l])
  OBVIOUS
<1> PICK x : x = At(s, p)
  OBVIOUS
<1>1. /\ Len(s) \in Nat /\ Len(s) <= MaxRoom /\ Len(s) = arrays[l].size /\ MaxRoom \in Nat /\ MaxPos \in Nat /\ Width \in Nat
      /\ 2 * (MaxRoom + MaxPos + 1) < Width
  BY ListIs, ConstantTypes
<1>2. p \in Int /\ p <= MaxPos /\ 0 - MaxPos <= p
  BY <1>1 DEF Positions
<1>3. x \in Int /\ x + Width > Len(s) + MaxPos + 1 /\ x + MaxPos + 1 < Width /\ x < Width /\ x + Width >= 0
  <2>1. x = IF p < 0 THEN p + Len(s) ELSE p
    BY DEF At
  <2>2. CASE p < 0
    <3>1. x = p + Len(s)
      BY <2>1, <2>2
    <3>2. x \in Int /\ x < Len(s) /\ Len(s) - MaxPos <= x
      BY ONLY <1>1, <1>2, <2>2, <3>1
    <3>3. x + Width > Len(s) + MaxPos + 1
      BY ONLY <1>1, <3>2
    <3>4. x + MaxPos + 1 < Width
      BY ONLY <1>1, <3>2
    <3>5. x < Width /\ x + Width >= 0
      BY ONLY <1>1, <3>2
    <3> QED
      BY ONLY <3>2, <3>3, <3>4, <3>5
  <2>3. CASE ~(p < 0)
    <3>1. x = p
      BY <2>1, <2>3
    <3>2. x \in Nat /\ x <= MaxPos
      BY ONLY <1>1, <1>2, <2>3, <3>1
    <3>3. x + Width > Len(s) + MaxPos + 1
      BY ONLY <1>1, <3>2
    <3>4. x + MaxPos + 1 < Width
      BY ONLY <1>1, <3>2
    <3>5. x < Width /\ x + Width >= 0
      BY ONLY <1>1, <3>2
    <3> QED
      BY ONLY <3>2, <3>3, <3>4, <3>5
  <2> QED
    BY <2>2, <2>3
<1>4. x >= 0 => Word(x) = x
  BY <1>3, WordIs
<1>5. x < 0 => Word(x) = x + Width
  BY <1>3, WordBelow
<1>6. x < 0 => Word(x) \in Nat /\ Word(x) >= Len(s)
  BY ONLY <1>1, <1>3, <1>5
<1>7. From(arrays[l], p) = x
  BY <1>1 DEF From, At
<1> QED
  BY <1>3, <1>4, <1>6, <1>7

LEMMA InsertDoes ==
  ASSUME ListsInv, Regular, NEW l \in Names, list_insert(l)
  PROVE  \E vs \in Seq(Cell) : \E pos \in Nat : \E t :
           /\ vs # <<>> => pos <= Len(Con(arrays[l]))
           /\ InsertList(Con(arrays[l]), pos, vs, t) /\ Acts("Insert", l, <<pos>> \o vs, t, Null)
<1>1. PICK pos \in Positions, vs \in Few :
        /\ Unless("before", pos < 0) /\ Unless("gap", pos > arrays[l].size /\ vs # <<>>)
        /\ Become("Insert", l, <<pos>> \o vs, Loop(arrays[l], Len(vs), LAMBDA a, k : arrIns(a, Word(pos + k - 1), 1, vs[k])))
  BY DEF list_insert
<1>3. PICK a : a = arrays[l]
  OBVIOUS
<1>4. PICK s : s = Con(a)
  OBVIOUS
<1>5. Holds(a, s) /\ s \in Seq(Cell) /\ Len(s) \in Nat /\ Len(s) + 2 < Width /\ Width \in Nat /\ Len(s) = a.size
  BY <1>3, <1>4, ListIs, Bounds
<1>2. vs \in Seq(Cell) /\ Len(vs) \in Nat /\ Len(s) + Len(vs) < Width
  <2>1. vs \in Seq(Cell) /\ Len(vs) \in Nat /\ Len(vs) <= 2
    BY FewIs
  <2> QED
    BY <1>5, <2>1
<1>6. pos \in Nat /\ (vs # <<>> => pos <= Len(s))
  <2>1. pos \in Int /\ ~(pos < 0) /\ ~(pos > a.size /\ vs # <<>>)
    <3>1. ~(pos < 0) /\ ~(pos > a.size /\ vs # <<>>)
      BY <1>1, <1>3 DEF Unless, Regular
    <3>2. pos \in Int
      BY ConstantTypes DEF Positions
    <3> QED
      BY <3>1, <3>2
  <2> QED
    BY <1>5, <2>1
<1>7. PICK c : c = Loop(a, Len(vs), LAMBDA b, k : arrIns(b, Word(pos + k - 1), 1, vs[k]))
  OBVIOUS
<1>8. Done("Insert", l, <<pos>> \o vs, c, Null)
  BY <1>1, <1>3, <1>7 DEF Become
<1>9. \E t : InsertList(s, pos, vs, t) /\ Holds(c, t)
  <2>1. CASE vs = <<>>
    <3>1. InsertList(s, pos, vs, s)
      <4>1. Len(vs) = 0 /\ Len(s) = Len(s) + Len(vs) /\ \A i \in 1 .. Len(s) : (i <= pos + Len(vs) <=> i <= pos) /\ i - Len(vs) = i
        BY <1>5, <1>6, <2>1
      <4> QED
        BY <1>5, <4>1 DEF InsertList
    <3>2. c = a
      <4>1. Len(vs) < 1
        BY <2>1
      <4> QED
        BY <4>1, <1>7 DEF Loop
    <3> QED
      BY <1>5, <3>1, <3>2
  <2>2. CASE vs # <<>>
    <3> DEFINE el(i) == IF i <= pos THEN s[i] ELSE IF i <= pos + Len(vs) THEN vs[i - pos] ELSE s[i - Len(vs)]
    <3>1. PICK t : t = [i \in 1 .. Len(s) + Len(vs) |-> el(i)]
      OBVIOUS
    <3>0. pos \in Nat /\ pos <= Len(s)
      BY <1>6, <2>2
    <3>00. pos \in 0 .. Len(s)
      BY ONLY <1>5, <3>0
    <3>2. ASSUME NEW i \in 1 .. Len(s) + Len(vs) PROVE el(i) \in Cell
      <4>1. (i <= pos => i \in 1 .. Len(s)) /\ (~(i <= pos) /\ i <= pos + Len(vs) => i - pos \in 1 .. Len(vs))
            /\ (~(i <= pos + Len(vs)) => i - Len(vs) \in 1 .. Len(s))
        BY ONLY <1>2, <1>5, <3>0
      <4>2. (\A k \in 1 .. Len(s) : s[k] \in Cell) /\ \A k \in 1 .. Len(vs) : vs[k] \in Cell
        BY ONLY <1>2, <1>5
      <4> QED
        BY <4>1, <4>2
    <3>3. t \in [1 .. Len(s) + Len(vs) -> Cell] /\ Len(s) + Len(vs) \in Nat
      BY <3>1, <3>2, <1>2, <1>5
    <3>4. t \in Seq(Cell) /\ Len(t) = Len(s) + Len(vs)
      BY ONLY <3>3, FunSeq
    <3>5. InsertList(s, pos, vs, t)
      BY <3>1, <3>4 DEF InsertList
    <3>6. Held(InsertLoop(a, pos, vs), t, Avail(a))
      BY ONLY <1>2, <1>5, <3>00, <3>5, InsertHolds, ConstantTypes
    <3> QED
      BY <3>5, <3>6, <1>7 DEF Held, InsertLoop
  <2> QED
    BY <2>1, <2>2
<1>10. PICK t : InsertList(s, pos, vs, t) /\ Holds(c, t)
  BY <1>9
<1>11. Acts("Insert", l, <<pos>> \o vs, t, Null)
  BY <1>8, <1>10, DoneActs
<1> QED
  BY <1>2, <1>3, <1>4, <1>6, <1>10, <1>11

\* A part of a sequence, given by its values.
LEMMA PartIs ==
  ASSUME NEW s \in Seq(Cell), NEW d \in Nat, NEW n \in Nat, d + n <= Len(s)
  PROVE  \E t \in Seq(Cell) : Len(t) = n /\ \A k \in 1 .. n : t[k] = s[k + d]
<1>1. PICK t : t = [k \in 1 .. n |-> s[k + d]]
  OBVIOUS
<1>2. \A k \in 1 .. Len(s) : s[k] \in Cell
  OBVIOUS
<1>3. \A k \in 1 .. n : k + d \in 1 .. Len(s)
  OBVIOUS
<1>4. t \in [1 .. n -> Cell]
  BY ONLY <1>1, <1>2, <1>3
<1>5. t \in Seq(Cell) /\ Len(t) = n
  BY ONLY <1>4, FunSeq, n \in Nat
<1> QED
  BY ONLY <1>1, <1>5

LEMMA FirstIs ==
  ASSUME NEW s \in Seq(Cell), NEW n \in Nat, n <= Len(s)
  PROVE  \E t \in Seq(Cell) : Len(t) = n /\ \A k \in 1 .. n : t[k] = s[k]
<1>1. PICK t : t = [k \in 1 .. n |-> s[k]]
  OBVIOUS
<1>2. \A k \in 1 .. n : s[k] \in Cell
  OBVIOUS
<1>3. t \in [1 .. n -> Cell]
  BY ONLY <1>1, <1>2
<1>4. t \in Seq(Cell) /\ Len(t) = n
  BY ONLY <1>3, FunSeq, n \in Nat
<1> QED
  BY ONLY <1>1, <1>4

\* One value less: the last, or the first one.
Popped(s, t, ans) ==
  IF Len(s) = 0 THEN t = s /\ ans = Null
  ELSE t \in Seq(Cell) /\ Len(t) = Len(s) - 1 /\ (\A k \in 1 .. Len(t) : t[k] = s[k]) /\ ans = s[Len(s)]
ShiftedOut(s, t, ans) ==
  IF Len(s) = 0 THEN t = s /\ ans = Null
  ELSE t \in Seq(Cell) /\ Len(t) = Len(s) - 1 /\ (\A k \in 1 .. Len(t) : t[k] = s[k + 1]) /\ ans = s[1]

LEMMA PopDoes ==
  ASSUME ListsInv, Regular, NEW l \in Names, list_pop(l)
  PROVE  \E t, ans : Popped(Con(arrays[l]), t, ans) /\ Acts("Pop", l, <<>>, t, ans)
<1>3. PICK a : a = arrays[l]
  OBVIOUS
<1>4. PICK s : s = Con(a)
  OBVIOUS
<1>5. Holds(a, s) /\ s \in Seq(Cell) /\ Len(s) \in Nat /\ Len(s) = a.size
  BY <1>3, <1>4, ListIs
<1>1. Done("Pop", l, <<>>, IF a.size = 0 THEN a ELSE arrSetSize(a, a.size - 1), IF a.size = 0 THEN Null ELSE arrGet(a, a.size - 1))
  BY <1>3 DEF list_pop
<1>2. CASE Len(s) = 0
  <2>1. Done("Pop", l, <<>>, a, Null)
    BY <1>1, <1>2, <1>5
  <2>2. Acts("Pop", l, <<>>, s, Null)
    BY <1>5, <2>1, DoneActs
  <2>3. Popped(s, s, Null)
    BY <1>2 DEF Popped
  <2> QED
    BY <2>2, <2>3, <1>3, <1>4
<1>6. CASE Len(s) # 0
  <2> PICK n : n = Len(s) - 1
    OBVIOUS
  <2>0. n \in Nat /\ n < Len(s) /\ n + 1 = Len(s) /\ n \in 0 .. Len(s) /\ n + 0 <= Len(s) /\ n = a.size - 1
    BY <1>5, <1>6
  <2>1. PICK t \in Seq(Cell) : Len(t) = n /\ \A k \in 1 .. n : t[k] = s[k]
    BY <1>5, <2>0, FirstIs
  <2>2. Holds(arrSetSize(a, n), t)
    BY <1>5, <2>0, <2>1, FirstHold
  <2>3. arrGet(a, n) = s[Len(s)]
    <3>1. arrGet(a, n) = s[n + 1]
      BY <1>5, <2>0, GetIs
    <3> QED
      BY <3>1, <2>0
  <2>4. Done("Pop", l, <<>>, arrSetSize(a, n), s[Len(s)])
    BY <1>1, <1>5, <1>6, <2>0, <2>3
  <2>5. Acts("Pop", l, <<>>, t, s[Len(s)])
    BY <2>2, <2>4, DoneActs
  <2>6. Popped(s, t, s[Len(s)])
    BY <1>6, <2>0, <2>1 DEF Popped
  <2> QED
    BY <2>5, <2>6, <1>3, <1>4
<1> QED
  BY <1>2, <1>6

LEMMA ShiftDoes ==
  ASSUME ListsInv, Regular, NEW l \in Names, list_shift(l)
  PROVE  \E t, ans : ShiftedOut(Con(arrays[l]), t, ans) /\ Acts("Shift", l, <<>>, t, ans)
<1>3. PICK a : a = arrays[l]
  OBVIOUS
<1>4. PICK s : s = Con(a)
  OBVIOUS
<1>5. Holds(a, s) /\ s \in Seq(Cell) /\ Len(s) \in Nat /\ Len(s) = a.size /\ Len(s) + 2 < Width /\ Width \in Nat
  BY <1>3, <1>4, ListIs, Bounds
<1>1. Done("Shift", l, <<>>, IF a.size = 0 THEN a ELSE arrDel(a, 0, 1), IF a.size = 0 THEN Null ELSE arrGet(a, 0))
  BY <1>3 DEF list_shift
<1>2. CASE Len(s) = 0
  <2>1. Done("Shift", l, <<>>, a, Null)
    BY <1>1, <1>2, <1>5
  <2>2. Acts("Shift", l, <<>>, s, Null)
    BY <1>5, <2>1, DoneActs
  <2>3. ShiftedOut(s, s, Null)
    BY <1>2 DEF ShiftedOut
  <2> QED
    BY <2>2, <2>3, <1>3, <1>4
<1>6. CASE Len(s) # 0
  <2> PICK n : n = Len(s) - 1
    OBVIOUS
  <2>0. n \in Nat /\ n + 1 = Len(s) /\ 1 + n <= Len(s) /\ 0 < Len(s) /\ 0 \in Nat /\ 1 \in Nat /\ 0 + 1 < Width
    BY <1>5, <1>6
  <2>1. PICK t \in Seq(Cell) : Len(t) = n /\ \A k \in 1 .. n : t[k] = s[k + 1]
    BY <1>5, <2>0, PartIs
  <2>2. DelList(s, 0, 1, t)
    <3>1. /\ ~(0 >= Len(s)) /\ (0 + 1 < Len(s) => n = Len(s) - 1) /\ (~(0 + 1 < Len(s)) => n = 0)
          /\ \A k \in 1 .. n : ~(k <= 0)
      BY <2>0
    <3> QED
      BY <2>1, <3>1 DEF DelList
  <2>3. Holds(arrDel(a, 0, 1), t)
    BY <1>5, <2>0, <2>2, DelHolds
  <2>4. arrGet(a, 0) = s[1]
    BY <1>5, <2>0, GetIs
  <2>5. Done("Shift", l, <<>>, arrDel(a, 0, 1), s[1])
    BY <1>1, <1>5, <1>6, <2>4
  <2>6. Acts("Shift", l, <<>>, t, s[1])
    BY <2>3, <2>5, DoneActs
  <2>7. ShiftedOut(s, t, s[1])
    BY <1>6, <2>0, <2>1 DEF ShiftedOut
  <2> QED
    BY <2>6, <2>7, <1>3, <1>4
<1> QED
  BY <1>2, <1>6

\* A call that only looks.
LEMMA LookActs ==
  ASSUME ListsInv, Regular, NEW l \in Names, NEW op, NEW args, NEW ans, Look(op, l, args, ans)
  PROVE  Acts(op, l, args, Con(arrays[l]), ans)
<1>1. Done(op, l, args, arrays[l], ans)
  BY DEF Look
<1>2. Holds(arrays[l], Con(arrays[l]))
  BY ListIs
<1> QED
  BY <1>1, <1>2, DoneActs

\* The value at a position, or null.
ValueAt(s, x) == IF x \in 0 .. Len(s) - 1 THEN s[x + 1] ELSE Null

LEMMA GetDoes ==
  ASSUME ListsInv, Regular, NEW l \in Names, list_get(l)
  PROVE  \E p \in Int : Acts("[]", l, <<p>>, Con(arrays[l]), ValueAt(Con(arrays[l]), At(Con(arrays[l]), p)))
<1>1. PICK p \in Positions : Look("[]", l, <<p>>, arrGet(arrays[l], Word(From(arrays[l], p))))
  BY DEF list_get
<1>2. p \in Int
  BY ConstantTypes DEF Positions
<1>3. PICK s : s = Con(arrays[l])
  OBVIOUS
<1>4. PICK x : x = At(s, p)
  OBVIOUS
<1>5. /\ From(arrays[l], p) = x /\ x \in Int
      /\ x >= 0 => Word(x) = x
      /\ x < 0 => Word(x) \in Nat /\ Word(x) >= Len(s)
  BY <1>3, <1>4, FromIs
<1>6. Holds(arrays[l], s) /\ Len(s) \in Nat
  BY <1>3, ListIs
<1>7. arrGet(arrays[l], Word(x)) = ValueAt(s, x)
  <2>1. CASE x >= 0
    <3>1. Word(x) = x /\ x \in Nat
      BY <1>5, <2>1
    <3>2. arrGet(arrays[l], x) = IF x < Len(s) THEN s[x + 1] ELSE Null
      BY <1>6, <3>1, GetIs
    <3>3. x \in 0 .. Len(s) - 1 <=> x < Len(s)
      BY <1>6, <3>1
    <3> QED
      BY <3>1, <3>2, <3>3 DEF ValueAt
  <2>2. CASE x < 0
    <3>1. Word(x) \in Nat /\ ~(Word(x) < Len(s)) /\ ~(x \in 0 .. Len(s) - 1)
      BY <1>5, <1>6, <2>2
    <3>2. arrGet(arrays[l], Word(x)) = IF Word(x) < Len(s) THEN s[Word(x) + 1] ELSE Null
      BY <1>6, <3>1, GetIs
    <3> QED
      BY <3>1, <3>2 DEF ValueAt
  <2> QED
    BY <2>1, <2>2, <1>5
<1>8. Acts("[]", l, <<p>>, s, ValueAt(s, x))
  BY <1>1, <1>3, <1>5, <1>7, LookActs
<1> QED
  BY <1>2, <1>3, <1>4, <1>8

LEMMA SetDoes ==
  ASSUME ListsInv, Regular, NEW l \in Names, list_set(l)
  PROVE  \E p \in Int, v \in Cell : \E t :
           /\ At(Con(arrays[l]), p) \in Nat /\ SetList(Con(arrays[l]), At(Con(arrays[l]), p), v, t)
           /\ Acts("[]=", l, <<v, p>>, t, Null)
<1>1. PICK p \in Positions, v \in Values :
        /\ Unless("before", From(arrays[l], p) < 0)
        /\ Become("[]=", l, <<v, p>>, arrSet(arrays[l], Word(From(arrays[l], p)), v))
  BY DEF list_set
<1>2. p \in Int /\ v \in Cell
  BY ConstantTypes DEF Positions, Cell
<1>3. PICK s : s = Con(arrays[l])
  OBVIOUS
<1>4. PICK x : x = At(s, p)
  OBVIOUS
<1>5. /\ From(arrays[l], p) = x /\ x \in Int
      /\ x >= 0 => Word(x) = x
      /\ x + MaxPos + 1 < Width
  BY <1>3, <1>4, FromIs
<1>6. Holds(arrays[l], s) /\ Len(s) \in Nat /\ s \in Seq(Cell)
  BY <1>3, ListIs
<1>7. x \in Nat /\ Word(x) = x /\ x + 1 < Width
  <2>1. ~(x < 0)
    BY <1>1, <1>5 DEF Unless, Regular
  <2>2. MaxPos \in Nat /\ Width \in Nat
    BY ConstantTypes
  <2>3. x \in Nat
    BY ONLY <1>5, <2>1
  <2>4. x + 1 < Width
    BY ONLY <1>5, <2>2, <2>3
  <2> QED
    BY <1>5, <2>3, <2>4
<1>8. PICK n : n = Greater(Len(s), x + 1)
  OBVIOUS
<1>9. n \in Nat
  BY <1>6, <1>7, <1>8 DEF Greater
<1> DEFINE el(k) == IF k = x + 1 THEN v ELSE IF k <= Len(s) THEN s[k] ELSE Null
<1>10. PICK t : t = [k \in 1 .. n |-> el(k)]
  OBVIOUS
<1>11. ASSUME NEW k \in 1 .. n PROVE el(k) \in Cell
  <2>1. \A i \in 1 .. Len(s) : s[i] \in Cell
    BY <1>6
  <2>2. k <= Len(s) => k \in 1 .. Len(s)
    BY <1>6, <1>9
  <2> QED
    BY <2>1, <2>2, <1>2, CellsAreSlots
<1>12. t \in [1 .. n -> Cell]
  BY <1>10, <1>11
<1>13. t \in Seq(Cell) /\ Len(t) = n
  BY ONLY <1>9, <1>12, FunSeq
<1>14. SetList(s, x, v, t)
  BY <1>8, <1>10, <1>13 DEF SetList
<1>15. Holds(arrSet(arrays[l], x, v), t)
  BY <1>2, <1>6, <1>7, <1>14, SetHolds
<1>16. Done("[]=", l, <<v, p>>, arrSet(arrays[l], x, v), Null)
  BY <1>1, <1>5, <1>7 DEF Become
<1>17. Acts("[]=", l, <<v, p>>, t, Null)
  BY <1>15, <1>16, DoneActs
<1> QED
  BY <1>2, <1>3, <1>4, <1>7, <1>14, <1>17

\* What arrDel leaves exists.
LEMMA DelListIs ==
  ASSUME NEW s \in Seq(Cell), NEW pos \in Nat, NEW n \in Nat
  PROVE  \E t : DelList(s, pos, n, t)
<1>0. Len(s) \in Nat /\ \A k \in 1 .. Len(s) : s[k] \in Cell
  OBVIOUS
<1>1. PICK m : m = IF pos >= Len(s) THEN Len(s) ELSE IF pos + n < Len(s) THEN Len(s) - n ELSE pos
  OBVIOUS
<1>2. m \in Nat
  BY <1>0, <1>1
<1> DEFINE el(k) == IF pos >= Len(s) \/ k <= pos THEN s[k] ELSE s[k + n]
<1>3. PICK t : t = [k \in 1 .. m |-> el(k)]
  OBVIOUS
<1>4. ASSUME NEW k \in 1 .. m PROVE el(k) \in Cell
  <2>1. (pos >= Len(s) \/ k <= pos => k \in 1 .. Len(s)) /\ (~(pos >= Len(s) \/ k <= pos) => k + n \in 1 .. Len(s))
    BY ONLY <1>0, <1>1, <1>2, k \in 1 .. m, pos \in Nat, n \in Nat
  <2> QED
    BY <1>0, <2>1
<1>5. t \in [1 .. m -> Cell]
  BY <1>3, <1>4
<1>6. t \in Seq(Cell) /\ Len(t) = m
  BY ONLY <1>2, <1>5, FunSeq
<1>7. DelList(s, pos, n, t)
  BY <1>1, <1>3, <1>6 DEF DelList
<1> QED
  BY <1>7

\* n slots from pos on are those up to slot last.
UpTo(s, pos, n, last) == (pos .. pos + n - 1) \cap (0 .. Len(s) - 1) = (pos .. last) \cap (0 .. Len(s) - 1)

LEMMA RemoveDoes ==
  ASSUME ListsInv, Regular, NEW l \in Names, list_remove(l)
  PROVE  \E p \in Int, n \in Nat : \E len, t :
           /\ (len = <<>> /\ n = 1) \/ (len = <<n>> /\ UpTo(Con(arrays[l]), At(Con(arrays[l]), p), n, At(Con(arrays[l]), n)))
           /\ IF At(Con(arrays[l]), p) < 0 THEN t = Con(arrays[l]) ELSE DelList(Con(arrays[l]), At(Con(arrays[l]), p), n, t)
           /\ Acts("Remove", l, <<p>> \o len, t, Null)
<1>1. PICK p \in Positions, len \in {<<>>} \cup {<<m>> : m \in Lengths} :
        /\ Become("Remove", l, <<p>> \o len,
                  arrDel(arrays[l], Word(From(arrays[l], p)), Word(IF len = <<>> THEN 1 ELSE len[1])))
        /\ len # <<>> => (From(arrays[l], p) .. From(arrays[l], p) + len[1] - 1) \cap (0 .. arrays[l].size - 1)
                          = (From(arrays[l], p) .. From(arrays[l], len[1])) \cap (0 .. arrays[l].size - 1)
  BY DEF list_remove, Unless, Regular
<1>2. p \in Int
  BY ConstantTypes DEF Positions
<1>3. PICK s : s = Con(arrays[l])
  OBVIOUS
<1>4. PICK x : x = At(s, p)
  OBVIOUS
<1>5. /\ From(arrays[l], p) = x /\ x \in Int
      /\ x >= 0 => Word(x) = x
      /\ x < 0 => Word(x) \in Nat /\ Word(x) >= Len(s)
  BY <1>3, <1>4, FromIs
<1>6. Holds(arrays[l], s) /\ Len(s) \in Nat /\ s \in Seq(Cell) /\ \A m \in 0 .. MaxPos : Len(s) + m + 1 < Width
  BY <1>3, ListIs, Bounds
<1>7. PICK n : n = IF len = <<>> THEN 1 ELSE len[1]
  OBVIOUS
<1>8. ((len = <<>> /\ n = 1) \/ len = <<n>>) /\ n \in Nat /\ Word(n) = n /\ n < Width /\ Len(s) + n < Width
  <2>1. CASE len = <<>>
    <3>1. n = 1
      BY <1>7, <2>1
    <3>2. 0 \in 0 .. MaxPos /\ Width \in Nat /\ 1 < Width
      BY ConstantTypes
    <3>3. Len(s) + 0 + 1 < Width
      BY <1>6, <3>2
    <3>4. Word(1) = 1
      BY <3>2, WordIs
    <3>5. Len(s) + 1 < Width
      BY ONLY <3>2, <3>3, <1>6
    <3> QED
      BY <2>1, <3>1, <3>2, <3>4, <3>5
  <2>2. CASE len # <<>>
    <3>1. PICK m \in Lengths : len = <<m>>
      BY <2>2
    <3>2. n = m
      BY <1>7, <2>2, <3>1
    <3>3. Lengths = 0 .. MaxPos
      BY DEF Lengths, Regular
    <3>4. n \in Nat /\ n < Width /\ Len(s) + n + 1 < Width /\ Width \in Nat
      <4>1. MaxPos \in Nat /\ Width \in Nat /\ MaxPos < Width
        BY ConstantTypes
      <4>2. n \in 0 .. MaxPos
        BY <3>1, <3>2, <3>3
      <4> QED
        BY <4>1, <4>2, <1>6
    <3>5. Len(s) + n < Width
      BY ONLY <3>4, <1>6
    <3> QED
      BY <3>1, <3>2, <3>4, <3>5, WordIs
  <2> QED
    BY <2>1, <2>2
<1>9. PICK y : y = Word(x)
  OBVIOUS
<1>10. y \in Nat /\ (y < Len(s) => y + n < Width)
  <2>1. y \in Nat
    BY <1>5, <1>9
  <2>2. Width \in Nat
    BY ConstantTypes
  <2> QED
    BY ONLY <1>6, <1>8, <2>1, <2>2
<1>11. PICK t : DelList(s, y, n, t)
  BY <1>6, <1>8, <1>10, DelListIs
<1>12. Holds(arrDel(arrays[l], y, n), t)
  BY <1>6, <1>8, <1>10, <1>11, DelHolds
<1>13. Done("Remove", l, <<p>> \o len, arrDel(arrays[l], y, n), Null)
  BY <1>1, <1>5, <1>7, <1>8, <1>9 DEF Become
<1>14. Acts("Remove", l, <<p>> \o len, t, Null)
  BY <1>12, <1>13, DoneActs
<1>15. IF x < 0 THEN t = s ELSE DelList(s, x, n, t)
  <2>1. CASE x < 0
    <3>1. y >= Len(s)
      BY <1>5, <1>9, <2>1
    <3>2. t \in Seq(Cell) /\ Len(t) = Len(s) /\ \A k \in 1 .. Len(t) : t[k] = s[k]
      BY <1>11, <3>1 DEF DelList
    <3>3. Same(t, s)
      BY <1>6, <3>2 DEF Same
    <3> QED
      BY <2>1, <3>3, SameSeq
  <2>2. CASE ~(x < 0)
    BY <1>5, <1>9, <1>11, <2>2
  <2> QED
    BY <2>1, <2>2
<1>16. len = <<n>> => UpTo(s, x, n, At(s, n))
  <2> SUFFICES ASSUME len = <<n>> PROVE UpTo(s, x, n, At(s, n))
    OBVIOUS
  <2>1. len # <<>> /\ len[1] = n
    <3>1. <<n>> # <<>> /\ <<n>>[1] = n
      OBVIOUS
    <3> QED
      BY <3>1
  <2>2. n \in Nat /\ ~(n < 0) /\ From(arrays[l], n) = n /\ At(s, n) = n
    BY <1>8 DEF From, At
  <2>3. arrays[l].size = Len(s)
    BY <1>3, ListIs
  <2> QED
    BY <1>1, <1>5, <2>1, <2>2, <2>3 DEF UpTo
<1> QED
  BY <1>2, <1>3, <1>4, <1>8, <1>14, <1>15, <1>16

LEMMA SizeDoes ==
  ASSUME ListsInv, Regular, NEW l \in Names, list_getsize(l)
  PROVE  Acts("size", l, <<>>, Con(arrays[l]), Len(Con(arrays[l])))
<1>1. Look("size", l, <<>>, Len(Con(arrays[l])))
  BY ListIs DEF list_getsize
<1> QED
  BY <1>1, LookActs

\* The first n values, and nulls behind them.
LEMMA ForceListIs ==
  ASSUME NEW s \in Seq(Cell), NEW n \in Nat
  PROVE  \E t : ForceList(s, n, t)
<1>0. Len(s) \in Nat /\ \A k \in 1 .. Len(s) : s[k] \in Cell
  OBVIOUS
<1>1. PICK t : t = [k \in 1 .. n |-> IF k <= Len(s) THEN s[k] ELSE Null]
  OBVIOUS
<1>2. t \in [1 .. n -> Cell]
  BY <1>0, <1>1, CellsAreSlots
<1>3. t \in Seq(Cell) /\ Len(t) = n
  BY ONLY <1>2, FunSeq, n \in Nat
<1>4. ForceList(s, n, t)
  BY <1>1, <1>3 DEF ForceList
<1> QED
  BY <1>4

LEMMA SetSizeDoes ==
  ASSUME ListsInv, Regular, NEW l \in Names, list_setsize(l)
  PROVE  \E n \in Nat : \E t : ForceList(Con(arrays[l]), n, t) /\ Acts("size=", l, <<n>>, t, Null)
<1>1. PICK n \in 0 .. MaxPos : ~(n > arrays[l].size) /\ Done("size=", l, <<n>>, arrSetSize(arrays[l], n), Null)
  BY DEF list_setsize, Unless, Regular, Become
<1>2. PICK s : s = Con(arrays[l])
  OBVIOUS
<1>3. Holds(arrays[l], s) /\ Len(s) \in Nat /\ s \in Seq(Cell) /\ Len(s) = arrays[l].size
  BY <1>2, ListIs
<1>4. n \in Nat /\ n <= Len(s)
  BY <1>1, <1>3, ConstantTypes
<1>5. PICK t : ForceList(s, n, t)
  BY <1>3, <1>4, ForceListIs
<1>6. t \in Seq(Cell) /\ Len(t) = n /\ \A k \in 1 .. n : t[k] = s[k]
  <2>1. \A k \in 1 .. n : k <= Len(s)
    BY <1>3, <1>4
  <2> QED
    BY <1>5, <2>1 DEF ForceList
<1>7. Holds(arrSetSize(arrays[l], n), t)
  <2>1. n \in 0 .. Len(s)
    BY <1>3, <1>4
  <2> QED
    BY <1>3, <1>6, <2>1, FirstHold
<1>8. Acts("size=", l, <<n>>, t, Null)
  BY <1>1, <1>7, DoneActs
<1> QED
  BY <1>2, <1>4, <1>5, <1>8

LEMMA ForceSizeDoes ==
  ASSUME ListsInv, Regular, NEW l \in Names, list_forcesize(l)
  PROVE  \E n \in Nat : \E t : ForceList(Con(arrays[l]), n, t) /\ Acts("Resize", l, <<n>>, t, Null)
<1>1. PICK n \in 0 .. MaxPos : Done("Resize", l, <<n>>, arrForceSize(arrays[l], n), Null)
  BY DEF list_forcesize, Become
<1>2. PICK s : s = Con(arrays[l])
  OBVIOUS
<1>3. Holds(arrays[l], s) /\ Len(s) \in Nat /\ s \in Seq(Cell) /\ Avail(arrays[l]) \in Nat
  BY <1>2, ListIs
<1>4. n \in Nat
  BY ConstantTypes
<1>5. PICK t : ForceList(s, n, t)
  BY <1>3, <1>4, ForceListIs
<1>6. PICK c : c = arrForceSize(arrays[l], n)
  OBVIOUS
<1>7. Holds(c, t)
  BY <1>3, <1>4, <1>5, <1>6, ForceHolds
<1>8. Acts("Resize", l, <<n>>, t, Null)
  BY <1>1, <1>6, <1>7, DoneActs
<1> QED
  BY <1>2, <1>4, <1>5, <1>8

\* The positions of a value.
Places(s, v) == {k \in 0 .. Len(s) - 1 : s[k + 1] = v}
LEMMA FindDoes ==
  ASSUME ListsInv, Regular, NEW l \in Names, list_find(l)
  PROVE  \E v : Acts("Find", l, <<v>>, Con(arrays[l]),
                     IF Places(Con(arrays[l]), v) = {} THEN Null ELSE Min(Places(Con(arrays[l]), v)))
<1>1. PICK v \in Values :
        LET at == {k \in 0 .. arrays[l].size - 1 : arrGet(arrays[l], k) = v}
        IN Look("Find", l, <<v>>, IF at = {} THEN Null ELSE Min(at))
  BY DEF list_find
<1>2. PICK s : s = Con(arrays[l])
  OBVIOUS
<1>3. Holds(arrays[l], s) /\ Len(s) \in Nat /\ Len(s) = arrays[l].size
  BY <1>2, ListIs
<1>4. ASSUME NEW k \in 0 .. Len(s) - 1 PROVE arrGet(arrays[l], k) = s[k + 1]
  <2>1. k \in Nat /\ k < Len(s)
    BY <1>3
  <2> QED
    BY <1>3, <2>1, GetIs
<1>5. {k \in 0 .. arrays[l].size - 1 : arrGet(arrays[l], k) = v} = Places(s, v)
  BY <1>3, <1>4 DEF Places
<1>6. Look("Find", l, <<v>>, IF Places(s, v) = {} THEN Null ELSE Min(Places(s, v)))
  BY <1>1, <1>5
<1> QED
  BY <1>2, <1>6, LookActs

LEMMA EachDoes ==
  ASSUME ListsInv, Regular, NEW l \in Names, list_each_get(l)
  PROVE  \E n \in Nat : Acts("Each", l, <<n>>, Con(arrays[l]),
                             IF n < Len(Con(arrays[l])) THEN <<n, Con(arrays[l])[n + 1]>> ELSE Null)
<1>1. PICK n \in 0 .. MaxPos :
        Look("Each", l, <<n>>, IF n >= arrays[l].size THEN Null ELSE <<n, arrGet(arrays[l], n)>>)
  BY DEF list_each_get
<1>2. PICK s : s = Con(arrays[l])
  OBVIOUS
<1>3. Holds(arrays[l], s) /\ Len(s) \in Nat /\ Len(s) = arrays[l].size
  BY <1>2, ListIs
<1>4. n \in Nat
  BY ConstantTypes
<1>5. (n >= arrays[l].size <=> ~(n < Len(s))) /\ (n < Len(s) => arrGet(arrays[l], n) = s[n + 1])
  BY <1>3, <1>4, GetIs
<1>6. Look("Each", l, <<n>>, IF n < Len(s) THEN <<n, s[n + 1]>> ELSE Null)
  BY <1>1, <1>5
<1> QED
  BY <1>2, <1>4, <1>6, LookActs

LEMMA ReverseDoes ==
  ASSUME ListsInv, Regular, NEW l \in Names, list_reverse(l)
  PROVE  \E t : ReverseList(Con(arrays[l]), t) /\ Acts("Reverse", l, <<>>, t, Null)
<1>1. Done("Reverse", l, <<>>, ReverseLoop(arrays[l]), Null)
  BY DEF list_reverse, Become, ReverseLoop
<1>2. PICK s : s = Con(arrays[l])
  OBVIOUS
<1>3. Holds(arrays[l], s) /\ Len(s) \in Nat /\ s \in Seq(Cell) /\ Len(s) < Width
  BY <1>2, ListIs, Bounds
<1>4. PICK t : t = [i \in 1 .. Len(s) |-> s[Len(s) + 1 - i]]
  OBVIOUS
<1>5. t \in [1 .. Len(s) -> Cell]
  <2>1. \A i \in 1 .. Len(s) : Len(s) + 1 - i \in 1 .. Len(s)
    BY ONLY <1>3
  <2>2. \A i \in 1 .. Len(s) : s[i] \in Cell
    BY ONLY <1>3
  <2> QED
    BY ONLY <1>4, <2>1, <2>2
<1>6. t \in Seq(Cell) /\ Len(t) = Len(s)
  BY ONLY <1>3, <1>5, FunSeq
<1>7. ReverseList(s, t)
  BY <1>4, <1>6 DEF ReverseList
<1>8. Holds(ReverseLoop(arrays[l]), t)
  BY <1>3, <1>7, ReverseHolds DEF Held
<1> QED
  BY <1>1, <1>2, <1>7, <1>8, DoneActs

LEMMA RandomizeDoes ==
  ASSUME ListsInv, Regular, NEW l \in Names, list_randomize(l)
  PROVE  \E t : Shuffled(Con(arrays[l]), t) /\ Acts("Randomize", l, <<>>, t, Null)
<1>1. PICK js \in [1 .. arrays[l].size - 1 -> 0 .. arrays[l].size - 1] :
        Done("Randomize", l, <<>>, ShuffleLoop(arrays[l], js), Null)
  BY DEF list_randomize, Become, ShuffleLoop
<1>2. PICK s : s = Con(arrays[l])
  OBVIOUS
<1>3. Holds(arrays[l], s) /\ Len(s) < Width
  BY <1>2, ListIs, Bounds
<1>4. PICK t : Shuffled(s, t) /\ Held(ShuffleLoop(arrays[l], js), t, Avail(arrays[l]))
  BY <1>3, RandomizeHolds
<1>5. Holds(ShuffleLoop(arrays[l], js), t)
  BY <1>4 DEF Held
<1> QED
  BY <1>1, <1>2, <1>4, <1>5, DoneActs

LEMMA RemoveValueDoes ==
  ASSUME ListsInv, Regular, NEW l \in Names, list_removeValue(l)
  PROVE  \E v : \A sel : Selected(Con(arrays[l]), v, sel)
                           => Acts("RemoveValue", l, <<v>>, sel[Len(Con(arrays[l]))], Null)
<1>1. PICK v \in Values :
        /\ ~(arrays[l].size > 0 /\ arrGet(arrays[l], 0) = v)
        /\ Done("RemoveValue", l, <<v>>, DropLoop(arrays[l], v), Null)
  BY DEF list_removeValue, Become, DropLoop, Unless, Regular
<1>2. PICK s : s = Con(arrays[l])
  OBVIOUS
<1>3. Holds(arrays[l], s) /\ Len(s) \in Nat /\ s \in Seq(Cell) /\ Len(s) < Width /\ Len(s) = arrays[l].size
  BY <1>2, ListIs, Bounds
<1> SUFFICES ASSUME NEW sel, Selected(s, v, sel)
             PROVE  Acts("RemoveValue", l, <<v>>, sel[Len(s)], Null)
  BY <1>2
<1>4. Selected(s, v, sel)
  OBVIOUS
<1>5. Holds(DropLoop(arrays[l], v), sel[Len(s)])
  <2>1. CASE Len(s) = 0
    <3>1. DropLoop(arrays[l], v) = arrays[l]
      <4>1. arrays[l].size - 1 < 1
        BY <1>3, <2>1
      <4> QED
        BY <4>1 DEF DropLoop, Loop
    <3>2. sel[Len(s)] = <<>> /\ s = <<>>
      BY <1>3, <1>4, <2>1 DEF Selected
    <3> QED
      BY <1>3, <3>1, <3>2
  <2>2. CASE Len(s) # 0
    <3>1. Len(s) > 0 /\ arrGet(arrays[l], 0) = s[1]
      <4>1. 0 < Len(s) /\ 0 \in Nat /\ 0 + 1 = 1
        BY <1>3, <2>2
      <4>2. arrGet(arrays[l], 0) = s[0 + 1]
        BY <1>3, <4>1, GetIs
      <4> QED
        BY <4>1, <4>2
    <3>2. s[1] # v
      BY <1>1, <1>3, <3>1
    <3>3. DropList(s, v, sel, sel[Len(s)])
      BY DEF DropList
    <3> QED
      BY <1>3, <1>4, <3>1, <3>2, <3>3, DropHolds DEF Held
  <2> QED
    BY <2>1, <2>2
<1>6. Acts("RemoveValue", l, <<v>>, sel[Len(s)], Null)
  BY <1>1, <1>5, DoneActs
<1> QED
  BY <1>6

\* A position and a length, which may be left out.
Passed(given) == given \in {<<>>} \cup {<<p>> : p \in Positions} \cup (Positions \X Lengths)
PassedAt(s, given) == IF given = <<>> THEN 0 ELSE At(s, given[1])
LEMMA PassedIs ==
  ASSUME ListsInv, Regular, NEW l \in Names, NEW given, Passed(given), PassedAt(Con(arrays[l]), given) >= 0
  PROVE  /\ PassedAt(Con(arrays[l]), given) \in Nat /\ PassedAt(Con(arrays[l]), given) + MaxPos + 1 < Width
         /\ Word(PassedAt(Con(arrays[l]), given)) = PassedAt(Con(arrays[l]), given)
         /\ (IF given = <<>> THEN 0 ELSE From(arrays[l], given[1])) = PassedAt(Con(arrays[l]), given)
         /\ Len(given) = 2 => given[2] \in 0 .. MaxPos /\ given \in Positions \X Lengths
<1>1. PICK s : s = Con(arrays[l])
  OBVIOUS
<1>2. MaxPos \in Nat /\ Width \in Nat /\ MaxPos + 1 < Width /\ 0 < Width
  BY ConstantTypes
<1>3. CASE given = <<>>
  <2>1. PassedAt(s, given) = 0 /\ Word(0) = 0
    BY <1>2, <1>3, WordIs DEF PassedAt
  <2>2. Len(given) # 2
    BY <1>3
  <2> QED
    BY <1>1, <1>2, <1>3, <2>1, <2>2
<1>4. CASE given # <<>>
  <2>1. given[1] \in Positions
    BY <1>4 DEF Passed
  <2>2. /\ From(arrays[l], given[1]) = At(s, given[1]) /\ At(s, given[1]) \in Int
        /\ At(s, given[1]) + MaxPos + 1 < Width
        /\ At(s, given[1]) >= 0 => Word(At(s, given[1])) = At(s, given[1])
    BY <2>1, <1>1, FromIs
  <2>3. PassedAt(s, given) = At(s, given[1])
    BY <1>4 DEF PassedAt
  <2>4. At(s, given[1]) \in Nat
    BY <1>1, <2>2, <2>3
  <2>5. ASSUME Len(given) = 2 PROVE given[2] \in 0 .. MaxPos /\ given \in Positions \X Lengths
    <3>1. given \in Positions \X Lengths
      BY <1>4, <2>5 DEF Passed
    <3> QED
      BY <3>1 DEF Lengths, Regular
  <2> QED
    BY <1>1, <1>4, <2>2, <2>3, <2>4, <2>5
<1> QED
  BY <1>3, <1>4

LEMMA CloneDoes ==
  ASSUME ListsInv, Regular, NEW l \in Names, list_clone(l)
  PROVE  \E from \in Names : \E given :
           /\ Passed(given) /\ PassedAt(Con(arrays[from]), given) >= 0
           /\ (IF Len(given) = 2 THEN given[2] ELSE Len(Con(arrays[from])) - PassedAt(Con(arrays[from]), given) + 1) = 0
           /\ Acts("Clone", l, <<from>> \o given, <<>>, Null)
<1>1. PICK from \in Names : \E given \in {<<>>} \cup {<<p>> : p \in Positions} \cup (Positions \X Lengths) :
        LET a == arrays[from]
            pos == IF given = <<>> THEN 0 ELSE From(a, given[1])
            len == IF Len(given) = 2 THEN given[2] ELSE a.size - pos + 1
        IN /\ len = 0 /\ ~(pos < 0)
           /\ Become("Clone", l, <<from>> \o given,
                     arrSub(newArr(Word(len)), 0, Word(len), a, FALSE, Word(pos), Word(len)))
  BY DEF list_clone, Unless, Regular
<1>2. PICK a : a = arrays[from]
  OBVIOUS
<1>3. PICK given \in {<<>>} \cup {<<p>> : p \in Positions} \cup (Positions \X Lengths) :
        LET pos == IF given = <<>> THEN 0 ELSE From(a, given[1])
            len == IF Len(given) = 2 THEN given[2] ELSE a.size - pos + 1
        IN /\ len = 0 /\ ~(pos < 0)
           /\ Become("Clone", l, <<from>> \o given,
                     arrSub(newArr(Word(len)), 0, Word(len), a, FALSE, Word(pos), Word(len)))
  BY <1>1, <1>2
<1>4. Passed(given)
  BY <1>3 DEF Passed
<1>5. PICK s : s = Con(a)
  OBVIOUS
<1>6. Holds(a, s) /\ Len(s) \in Nat /\ Len(s) = a.size
  BY <1>2, <1>5, ListIs
<1>7. (IF given = <<>> THEN 0 ELSE From(a, given[1])) = PassedAt(s, given) /\ PassedAt(s, given) \in Int
  <2>1. CASE given = <<>>
    BY <2>1 DEF PassedAt
  <2>2. CASE given # <<>>
    <3>1. given[1] \in Positions
      BY <1>4, <2>2 DEF Passed
    <3>2. From(a, given[1]) = At(s, given[1]) /\ At(s, given[1]) \in Int
      BY <3>1, <1>2, <1>5, FromIs
    <3> QED
      BY <2>2, <3>2 DEF PassedAt
  <2> QED
    BY <2>1, <2>2
<1>8. PICK pos : pos = PassedAt(s, given)
  OBVIOUS
<1>9. PICK len : len = IF Len(given) = 2 THEN given[2] ELSE a.size - pos + 1
  OBVIOUS
<1>10. /\ len = 0 /\ ~(pos < 0)
       /\ Become("Clone", l, <<from>> \o given,
                 arrSub(newArr(Word(len)), 0, Word(len), a, FALSE, Word(pos), Word(len)))
  BY <1>3, <1>7, <1>8, <1>9
<1>11. pos >= 0 /\ pos \in Nat /\ Word(pos) = pos
  <2>1. pos >= 0
    BY <1>7, <1>8, <1>10
  <2> QED
    BY <2>1, <1>2, <1>4, <1>5, <1>8, PassedIs
<1>12. Word(0) = 0
  BY WordIs, ConstantTypes
<1>13. PICK c : c = arrSub(newArr(0), 0, 0, a, FALSE, pos, 0)
  OBVIOUS
<1>14. Holds(c, <<>>)
  <2>1. Holds(newArr(0), <<>>)
    BY NewHolds
  <2>2. Len(<<>>) = 0 /\ 0 < Width /\ <<>> \in Seq(Cell) /\ Width \in Nat
    BY ConstantTypes
  <2>3. SubList(<<>>, 0, 0, s, pos, 0, <<>>)
    BY <2>2 DEF SubList
  <2>4. SubAsked(newArr(0), <<>>, 0, 0, a, s, FALSE, pos, 0)
    BY <2>1, <2>2, <1>6, <1>11 DEF SubAsked
  <2> QED
    BY <2>3, <2>4, <1>13, SubHolds
<1>15. Done("Clone", l, <<from>> \o given, c, Null)
  BY <1>10, <1>11, <1>12, <1>13 DEF Become
<1>16. Acts("Clone", l, <<from>> \o given, <<>>, Null)
  BY <1>14, <1>15, DoneActs
<1>17. (IF Len(given) = 2 THEN given[2] ELSE Len(s) - pos + 1) = 0
  BY <1>6, <1>9, <1>10
<1> QED
  BY <1>2, <1>4, <1>5, <1>8, <1>11, <1>16, <1>17

\* What arrSub makes exists.
LEMMA SubListIs ==
  ASSUME NEW s \in Seq(Cell), NEW u \in Seq(Cell), NEW pos \in 0 .. Len(s), NEW n \in 0 .. Len(s) - pos,
         NEW pos2 \in Nat, NEW n2 \in Nat, n2 > 0 => pos2 + n2 <= Len(u)
  PROVE  \E t : SubList(s, pos, n, u, pos2, n2, t)
<1>0. /\ Len(s) \in Nat /\ \A k \in 1 .. Len(s) : s[k] \in Cell
      /\ Len(u) \in Nat /\ \A k \in 1 .. Len(u) : u[k] \in Cell
  OBVIOUS
<1>1. pos \in Nat /\ pos <= Len(s) /\ n \in Nat /\ pos + n <= Len(s)
  BY <1>0
<1>2. PICK m : m = Len(s) - n + n2
  OBVIOUS
<1>3. m \in Nat
  BY <1>0, <1>1, <1>2
<1> DEFINE el(k) == IF k <= pos THEN s[k] ELSE IF k <= pos + n2 THEN u[pos2 + (k - pos)] ELSE s[k - n2 + n]
<1>4. PICK t : t = [k \in 1 .. m |-> el(k)]
  OBVIOUS
<1>5. ASSUME NEW k \in 1 .. m PROVE el(k) \in Cell
  <2>1. /\ k <= pos => k \in 1 .. Len(s)
        /\ ~(k <= pos) /\ k <= pos + n2 => pos2 + (k - pos) \in 1 .. Len(u)
        /\ ~(k <= pos) /\ ~(k <= pos + n2) => k - n2 + n \in 1 .. Len(s)
    BY ONLY <1>0, <1>1, <1>2, <1>3, k \in 1 .. m, pos2 \in Nat, n2 \in Nat, n2 > 0 => pos2 + n2 <= Len(u)
  <2> QED
    BY <1>0, <2>1
<1>6. t \in [1 .. m -> Cell]
  BY <1>4, <1>5
<1>7. t \in Seq(Cell) /\ Len(t) = m
  BY ONLY <1>3, <1>6, FunSeq
<1>8. SubList(s, pos, n, u, pos2, n2, t)
  BY <1>2, <1>4, <1>7 DEF SubList
<1> QED
  BY <1>8

LEMMA MergeDoes ==
  ASSUME ListsInv, Regular, NEW l \in Names, list_merge(l)
  PROVE  \E m \in Names : \E t :
           AppendList(Con(arrays[l]), Con(arrays[m]), t) /\ Acts("Merge", l, <<m>>, t, Null)
<1>1. PICK m \in Names :
        Done("Merge", l, <<m>>, arrSub(arrays[l], arrays[l].size, 0, arrays[m], l = m, 0, arrays[m].size), Null)
  BY DEF list_merge, Become
<1>2. PICK a : a = arrays[l]
  OBVIOUS
<1>3. PICK b : b = arrays[m]
  OBVIOUS
<1>4. PICK s : s = Con(a)
  OBVIOUS
<1>5. PICK u : u = Con(b)
  OBVIOUS
<1>6. /\ Holds(a, s) /\ s \in Seq(Cell) /\ Len(s) \in Nat /\ Len(s) = a.size
      /\ Holds(b, u) /\ u \in Seq(Cell) /\ Len(u) \in Nat /\ Len(u) = b.size /\ Len(s) + Len(u) < Width
  BY <1>2, <1>3, <1>4, <1>5, ListIs, Bounds
<1>7. PICK t : SubList(s, Len(s), 0, u, 0, Len(u), t)
  <2>1. Len(s) \in 0 .. Len(s) /\ 0 \in 0 .. Len(s) - Len(s) /\ 0 \in Nat /\ 0 + Len(u) <= Len(u)
    BY <1>6
  <2> QED
    BY <1>6, <2>1, SubListIs
<1>8. AppendList(s, u, t)
  <2>1. /\ t \in Seq(Cell) /\ Len(t) = Len(s) - 0 + Len(u)
        /\ \A k \in 1 .. Len(t) : t[k] = IF k <= Len(s) THEN s[k] ELSE IF k <= Len(s) + Len(u) THEN u[0 + (k - Len(s))] ELSE s[k - Len(u) + 0]
    BY <1>7 DEF SubList
  <2>2. Len(t) = Len(s) + Len(u)
    BY <1>6, <2>1
  <2>3. ASSUME NEW k \in 1 .. Len(t) PROVE k <= Len(s) + Len(u) /\ 0 + (k - Len(s)) = k - Len(s)
    BY <1>6, <2>2
  <2>4. \A k \in 1 .. Len(t) : t[k] = IF k <= Len(s) THEN s[k] ELSE u[k - Len(s)]
    BY <2>1, <2>3
  <2> QED
    BY <2>1, <2>2, <2>4 DEF AppendList
<1>9. SubAsked(a, s, Len(s), 0, b, u, l = m, 0, Len(u))
  <2>1. Len(s) \in 0 .. Len(s) /\ 0 \in 0 .. Len(s) - Len(s) /\ 0 \in Nat /\ 0 + Len(u) <= Len(u) /\ (l = m) \in BOOLEAN
    BY <1>6
  <2>2. ASSUME l = m PROVE u = s /\ Apart(a, Len(s), 0, 0, Len(u))
    <3>1. u = s
      BY <2>2, <1>2, <1>3, <1>4, <1>5
    <3>2. (Len(s) + Len(u) .. a.size - 0 + Len(u) - 1) \cap (0 .. 0 + Len(u) - 1) = {}
      BY ONLY <1>6
    <3> QED
      BY <3>1, <3>2 DEF Apart
  <2> QED
    BY <1>6, <2>1, <2>2 DEF SubAsked
<1>10. PICK c : c = arrSub(a, Len(s), 0, b, l = m, 0, Len(u))
  OBVIOUS
<1>11. Holds(c, t)
  BY <1>7, <1>9, <1>10, SubHolds
<1>12. Done("Merge", l, <<m>>, c, Null)
  BY <1>1, <1>2, <1>3, <1>6, <1>10
<1>13. Acts("Merge", l, <<m>>, t, Null)
  BY <1>11, <1>12, DoneActs
<1> QED
  BY <1>2, <1>3, <1>4, <1>5, <1>8, <1>13

\* What a regular call of list_sub does.
SubCall(l, m, p, n, p2, n2) ==
  /\ From(arrays[l], p) \in 0 .. arrays[l].size /\ n <= arrays[l].size - From(arrays[l], p)
  /\ From(arrays[m], p2) \in 0 .. arrays[m].size /\ n2 <= arrays[m].size - From(arrays[m], p2)
  /\ ~(l = m /\ ~Apart(arrays[l], From(arrays[l], p), n, From(arrays[m], p2), n2))
  /\ Done("Sub", l, <<p, n, m, p2, n2>>,
          arrSub(arrays[l], Word(From(arrays[l], p)), Word(n), arrays[m], l = m,
                 Word(From(arrays[m], p2)), Word(n2)), Null)
LEMMA SubDoes ==
  ASSUME ListsInv, Regular, NEW l \in Names, list_sub(l)
  PROVE  \E m \in Names : \E p \in Int, n \in Nat : \E p2 \in Int, n2 \in Nat : \E t :
           /\ At(Con(arrays[l]), p) \in 0 .. Len(Con(arrays[l])) /\ n <= Len(Con(arrays[l])) - At(Con(arrays[l]), p)
           /\ At(Con(arrays[m]), p2) \in 0 .. Len(Con(arrays[m])) /\ n2 <= Len(Con(arrays[m])) - At(Con(arrays[m]), p2)
           /\ SubList(Con(arrays[l]), At(Con(arrays[l]), p), n, Con(arrays[m]), At(Con(arrays[m]), p2), n2, t)
           /\ Acts("Sub", l, <<p, n, m, p2, n2>>, t, Null)
<1>0. PICK m \in Names, p \in Positions, n \in Lengths, p2 \in Positions, n2 \in Lengths : SubCall(l, m, p, n, p2, n2)
  <2>1. PICK m \in Names, p \in Positions, n \in Lengths, p2 \in Positions, len2 \in Lengths, n2 \in Lengths :
          /\ Unless("sixth", n2 # len2)
          /\ Unless("beyond", ~(From(arrays[l], p) \in 0 .. arrays[l].size /\ n <= arrays[l].size - From(arrays[l], p)
                                /\ From(arrays[m], p2) \in 0 .. arrays[m].size
                                /\ n2 <= arrays[m].size - From(arrays[m], p2)))
          /\ Unless("alias", l = m /\ ~Apart(arrays[l], From(arrays[l], p), n, From(arrays[m], p2), n2))
          /\ Become("Sub", l, <<p, n, m, p2, len2>>,
                    arrSub(arrays[l], Word(From(arrays[l], p)), Word(n), arrays[m], l = m,
                           Word(From(arrays[m], p2)), Word(n2)))
    BY Zenon DEF list_sub
  <2>2. n2 = len2
    BY <2>1 DEF Unless, Regular
  <2>3. /\ From(arrays[l], p) \in 0 .. arrays[l].size /\ n <= arrays[l].size - From(arrays[l], p)
        /\ From(arrays[m], p2) \in 0 .. arrays[m].size /\ n2 <= arrays[m].size - From(arrays[m], p2)
    BY ONLY <2>1, Regular DEF Unless, Regular
  <2>4. ~(l = m /\ ~Apart(arrays[l], From(arrays[l], p), n, From(arrays[m], p2), n2))
    BY ONLY <2>1, Regular DEF Unless, Regular
  <2>5. Done("Sub", l, <<p, n, m, p2, n2>>,
             arrSub(arrays[l], Word(From(arrays[l], p)), Word(n), arrays[m], l = m,
                    Word(From(arrays[m], p2)), Word(n2)), Null)
    BY <2>1, <2>2 DEF Become
  <2>6. SubCall(l, m, p, n, p2, n2)
    BY ONLY <2>3, <2>4, <2>5 DEF SubCall
  <2> QED
    BY <2>6
<1>1. /\ From(arrays[l], p) \in 0 .. arrays[l].size /\ n <= arrays[l].size - From(arrays[l], p)
      /\ From(arrays[m], p2) \in 0 .. arrays[m].size /\ n2 <= arrays[m].size - From(arrays[m], p2)
      /\ ~(l = m /\ ~Apart(arrays[l], From(arrays[l], p), n, From(arrays[m], p2), n2))
      /\ Done("Sub", l, <<p, n, m, p2, n2>>,
              arrSub(arrays[l], Word(From(arrays[l], p)), Word(n), arrays[m], l = m,
                     Word(From(arrays[m], p2)), Word(n2)), Null)
  BY <1>0 DEF SubCall
<1>2. PICK a : a = arrays[l]
  OBVIOUS
<1>3. PICK b : b = arrays[m]
  OBVIOUS
<1>4. PICK s : s = Con(a)
  OBVIOUS
<1>5. PICK u : u = Con(b)
  OBVIOUS
<1>6. /\ Holds(a, s) /\ s \in Seq(Cell) /\ Len(s) \in Nat /\ Len(s) = a.size
      /\ Holds(b, u) /\ u \in Seq(Cell) /\ Len(u) \in Nat /\ Len(u) = b.size /\ Len(s) + Len(u) < Width
      /\ Width \in Nat /\ MaxPos \in Nat
  BY <1>2, <1>3, <1>4, <1>5, ListIs, Bounds
<1>7. PICK pos : pos = At(s, p)
  OBVIOUS
<1>8. PICK pos2 : pos2 = At(u, p2)
  OBVIOUS
<1>9. /\ From(arrays[l], p) = pos /\ (pos >= 0 => Word(pos) = pos)
      /\ From(arrays[m], p2) = pos2 /\ (pos2 >= 0 => Word(pos2) = pos2)
  BY <1>2, <1>3, <1>4, <1>5, <1>7, <1>8, FromIs
<1>10. p \in Int /\ p2 \in Int /\ n \in Nat /\ n2 \in Nat
  BY <1>6 DEF Positions, Lengths, Regular
<1>11. pos \in 0 .. Len(s) /\ n <= Len(s) - pos /\ pos2 \in 0 .. Len(u) /\ n2 <= Len(u) - pos2
  BY <1>1, <1>2, <1>3, <1>6, <1>9
<1>12. /\ pos \in Nat /\ pos2 \in Nat /\ n \in 0 .. Len(s) - pos /\ pos2 + n2 <= Len(u) /\ Len(s) + n2 < Width
       /\ n < Width /\ n2 < Width /\ pos >= 0 /\ pos2 >= 0
  BY ONLY <1>6, <1>10, <1>11
<1>13. Word(n) = n /\ Word(n2) = n2 /\ Word(pos) = pos /\ Word(pos2) = pos2
  BY <1>9, <1>10, <1>12, WordIs
<1>14. PICK t : SubList(s, pos, n, u, pos2, n2, t)
  BY <1>6, <1>10, <1>11, <1>12, SubListIs
<1>15. SubAsked(a, s, pos, n, b, u, l = m, pos2, n2)
  <2>1. ASSUME l = m PROVE u = s /\ Apart(a, pos, n, pos2, n2)
    BY <2>1, <1>1, <1>2, <1>3, <1>4, <1>5, <1>9
  <2>2. (l = m) \in BOOLEAN
    OBVIOUS
  <2> QED
    BY <1>6, <1>10, <1>11, <1>12, <2>1, <2>2 DEF SubAsked
<1>16. PICK c : c = arrSub(a, pos, n, b, l = m, pos2, n2)
  OBVIOUS
<1>17. Holds(c, t)
  BY <1>14, <1>15, <1>16, SubHolds
<1>18. Done("Sub", l, <<p, n, m, p2, n2>>, c, Null)
  BY <1>1, <1>2, <1>3, <1>9, <1>13, <1>16
<1>19. Acts("Sub", l, <<p, n, m, p2, n2>>, t, Null)
  BY <1>17, <1>18, DoneActs
<1> QED
  BY <1>2, <1>3, <1>4, <1>5, <1>7, <1>8, <1>10, <1>11, <1>14, <1>19

\* What arrRpt makes exists.
LEMMA RptListIs ==
  ASSUME NEW s \in Seq(Cell), NEW pos \in Nat, NEW n \in Nat, NEW v \in Cell
  PROVE  \E t : RptList(s, pos, n, v, t)
<1>0. Len(s) \in Nat /\ \A k \in 1 .. Len(s) : s[k] \in Cell
  OBVIOUS
<1>1. PICK m : m = Greater(Len(s), pos + n)
  OBVIOUS
<1>2. m \in Nat
  BY <1>0, <1>1 DEF Greater
<1> DEFINE el(k) == IF k > pos /\ k <= pos + n THEN v ELSE IF k <= Len(s) THEN s[k] ELSE Null
<1>3. PICK t : t = [k \in 1 .. m |-> el(k)]
  OBVIOUS
<1>4. ASSUME NEW k \in 1 .. m PROVE el(k) \in Cell
  BY <1>0, CellsAreSlots
<1>5. t \in [1 .. m -> Cell]
  BY <1>3, <1>4
<1>6. t \in Seq(Cell) /\ Len(t) = m
  BY ONLY <1>2, <1>5, FunSeq
<1>7. RptList(s, pos, n, v, t)
  BY <1>1, <1>3, <1>6 DEF RptList
<1> QED
  BY <1>7

LEMMA FillDoes ==
  ASSUME ListsInv, Regular, NEW l \in Names, list_fill(l)
  PROVE  \E v \in Cell : \E p \in Int, n \in Nat : \E t :
           /\ At(Con(arrays[l]), p) >= 0 /\ RptList(Con(arrays[l]), At(Con(arrays[l]), p), n, v, t)
           /\ Acts("Fill", l, <<v>> \o <<p, n>>, t, Null)
<1>1. PICK v \in Values \cup {Null}, given \in {<<>>} \cup {<<pos>> : pos \in Positions} \cup (Positions \X Lengths) :
        LET a == arrays[l]
            pos == IF given = <<>> THEN 0 ELSE From(a, given[1])
            len == IF Len(given) = 2 THEN given[2] ELSE a.size - pos + 1
        IN /\ ~(Len(given) < 2) /\ ~(pos < 0)
           /\ Become("Fill", l, <<v>> \o given, arrRpt(a, Word(pos), Word(len), v))
  BY DEF list_fill, Unless, Regular
<1>2. given \in Positions \X Lengths
  <2>1. Len(<<>>) < 2 /\ \A pos : Len(<<pos>>) < 2
    OBVIOUS
  <2> QED
    BY <1>1, <2>1
<1>3. PICK p \in Positions, n \in Lengths : given = <<p, n>>
  BY <1>2
<1>4. given # <<>> /\ given[1] = p /\ Len(given) = 2 /\ given[2] = n
  BY <1>3
<1>5. ~(From(arrays[l], p) < 0) /\ Become("Fill", l, <<v>> \o <<p, n>>, arrRpt(arrays[l], Word(From(arrays[l], p)), Word(n), v))
  BY <1>1, <1>3, <1>4
<1>6. PICK s : s = Con(arrays[l])
  OBVIOUS
<1>7. PICK pos : pos = At(s, p)
  OBVIOUS
<1>8. From(arrays[l], p) = pos /\ pos \in Int /\ pos + MaxPos + 1 < Width /\ (pos >= 0 => Word(pos) = pos)
  BY <1>6, <1>7, FromIs
<1>9. Holds(arrays[l], s) /\ s \in Seq(Cell)
  BY <1>6, ListIs
<1>10. n \in 0 .. MaxPos /\ p \in Int /\ MaxPos \in Nat /\ Width \in Nat
  BY ConstantTypes DEF Lengths, Regular, Positions
<1>11. pos >= 0 /\ pos \in Nat /\ n \in Nat /\ n < Width /\ pos + n < Width
  BY <1>5, <1>8, <1>10
<1>12. Word(n) = n /\ Word(pos) = pos /\ v \in Cell
  BY <1>1, <1>8, <1>11, WordIs DEF Cell
<1>13. PICK t : RptList(s, pos, n, v, t)
  BY <1>9, <1>11, <1>12, RptListIs
<1>14. Holds(arrRpt(arrays[l], pos, n, v), t)
  BY <1>9, <1>11, <1>12, <1>13, RptHolds
<1>15. Done("Fill", l, <<v>> \o <<p, n>>, arrRpt(arrays[l], pos, n, v), Null)
  BY <1>5, <1>8, <1>12 DEF Become
<1>16. Acts("Fill", l, <<v>> \o <<p, n>>, t, Null)
  BY <1>14, <1>15, DoneActs
<1> QED
  BY <1>6, <1>7, <1>10, <1>11, <1>12, <1>13, <1>16

(***************************************************************************)
(* Sorting.                                                                *)
(***************************************************************************)
Ascending(s, n) == \A j, k \in 1 .. n : j < k => Rank[s[j]] <= Rank[s[k]]
\* SortingRight of q, and the part of the invariant about its type.
Right(q, s) ==
  /\ q.i \in 1 .. Len(s) - 1 /\ q.low \in 0 .. q.high /\ q.high < q.i /\ q.newval = s[q.i + 1]
  /\ Null \notin ToSet(s) =>
       /\ Ascending(s, q.i)
       /\ \A j \in 1 .. q.low : Rank[s[j]] <= Rank[q.newval]
       /\ \A j \in q.high + 2 .. q.i : Rank[q.newval] <= Rank[s[j]]
IsSort(q) == q \in [list : Names, i : Nat, low : Nat, high : Nat, newval : Values \cup {Null}, by : {"<=>"}]

LEMMA RightIs ==
  ASSUME TRUE
  PROVE  \A s : SortingRight(s) <=> Right(sorting, s)
BY DEF SortingRight, Right, Ascending

LEMMA SortingNext ==
  ASSUME sorting' # Idle => IsSort(sorting') /\ Right(sorting', Con(arrays'[sorting'.list])),
         DOMAIN arrays' = Names, \A m \in Names : Sound(arrays'[m]), Room(arrays') <= MaxRoom
  PROVE  ListsInv'
<1>1. SortingRight(Con(arrays[sorting.list]))' <=> Right(sorting', Con(arrays'[sorting'.list]))
  BY DEF SortingRight, Right, Ascending
<1>2. (\A l \in Names : Sound(arrays[l]))' <=> \A m \in Names : Sound(arrays'[m])
  OBVIOUS
<1> QED
  BY <1>1, <1>2 DEF ListsInv, IsSort

\* The ranks of values.
LEMMA RanksAre ==
  ASSUME NEW s \in Seq(Cell), Null \notin ToSet(s)
  PROVE  \A k \in 1 .. Len(s) : s[k] \in Values /\ Rank[s[k]] \in Int
<1> TAKE k \in 1 .. Len(s)
<1>1. s[k] \in ToSet(s) /\ s[k] \in Cell
  BY DEF ToSet
<1>2. s[k] \in Values
  BY <1>1 DEF Cell
<1> QED
  BY <1>2, ConstantTypes

LEMMA InsertingIs ==
  ASSUME NEW l \in Names, NEW a, NEW s, Holds(a, s), NEW i \in Nat, i >= 1,
         NEW q, q = Inserting(l, a, i, "<=>"), Null \notin ToSet(s) => Ascending(s, i) \/ i > Len(s)
  PROVE  \/ q = Idle /\ i >= Len(s)
         \/ q # Idle /\ i < Len(s) /\ IsSort(q) /\ Right(q, s) /\ q.list = l
<1>1. Len(s) = a.size /\ Len(s) \in Nat /\ s \in Seq(Cell)
  BY HoldsIs
<1>2. CASE ~(i < Len(s))
  BY <1>1, <1>2 DEF Inserting
<1>3. CASE i < Len(s)
  <2>1. arrGet(a, i) = s[i + 1] /\ s[i + 1] \in Cell
    BY <1>3, GetIs
  <2>2. q = [list |-> l, i |-> i, low |-> 0, high |-> i - 1, newval |-> s[i + 1], by |-> "<=>"]
    BY <1>1, <1>3, <2>1 DEF Inserting
  <2>3. q.list = l /\ q.i = i /\ q.low = 0 /\ q.high = i - 1 /\ q.newval = s[i + 1]
    BY <2>2
  <2>4. i - 1 \in Nat /\ i \in 1 .. Len(s) - 1 /\ 0 \in 0 .. i - 1 /\ i - 1 < i /\ ~(i > Len(s))
        /\ (1 .. 0) = {} /\ (i - 1) + 2 .. i = {}
    BY ONLY <1>1, <1>3, i \in Nat, i >= 1
  <2>5. IsSort(q)
    BY <2>1, <2>2, <2>4 DEF IsSort, Cell
  <2>6. Right(q, s)
    <3>1. q.i \in 1 .. Len(s) - 1 /\ q.low \in 0 .. q.high /\ q.high < q.i /\ q.newval = s[q.i + 1]
      BY <2>3, <2>4
    <3>2. ASSUME Null \notin ToSet(s)
          PROVE  /\ Ascending(s, q.i)
                 /\ \A j \in 1 .. q.low : Rank[s[j]] <= Rank[q.newval]
                 /\ \A j \in q.high + 2 .. q.i : Rank[q.newval] <= Rank[s[j]]
      BY <3>2, <2>3, <2>4
    <3> QED
      BY <3>1, <3>2 DEF Right
  <2>7. q # Idle
    <3>1. l # Null
      BY ConstantTypes
    <3> QED
      BY <2>3, <3>1 DEF Idle
  <2> QED
    BY <1>3, <2>3, <2>5, <2>6, <2>7
<1> QED
  BY <1>2, <1>3

\* A step of a sort of list l gives it the values t.
Sorts(l, t) ==
  /\ ListsInv' /\ answer' = Null
  /\ \A m \in Names : Con(arrays'[m]) = IF m = l THEN t ELSE Con(arrays[m])
  /\ IF sorting' = Idle THEN Null \notin ToSet(t) => Ascending(t, Len(t)) ELSE sorting'.list = l

LEMMA SortDoes ==
  ASSUME ListsInv, Regular, NEW l \in Names, list_sort(l)
  PROVE  /\ sorting = Idle /\ Sorts(l, Con(arrays[l]))
         /\ called' = [op |-> IF sorting' = Idle THEN "sorted" ELSE "Sort", list |-> l, args |-> <<>>]
<1>1. /\ sorting = Idle /\ sorting' = Inserting(l, arrays[l], 1, "<=>")
      /\ called' = [op |-> IF sorting' = Idle THEN "sorted" ELSE "Sort", list |-> l, args |-> <<>>]
      /\ answer' = Null /\ arrays' = arrays
  BY DEF list_sort, Regular, Called
<1>2. PICK s : s = Con(arrays[l])
  OBVIOUS
<1>3. Holds(arrays[l], s) /\ Len(s) \in Nat
  BY <1>2, ListIs
<1>4. Ascending(s, 1)
  BY DEF Ascending
<1>5. \/ sorting' = Idle /\ 1 >= Len(s)
      \/ sorting' # Idle /\ 1 < Len(s) /\ IsSort(sorting') /\ Right(sorting', s) /\ sorting'.list = l
  <2>1. PICK q : q = Inserting(l, arrays[l], 1, "<=>")
    OBVIOUS
  <2>3. \/ q = Idle /\ 1 >= Len(s)
        \/ q # Idle /\ 1 < Len(s) /\ IsSort(q) /\ Right(q, s) /\ q.list = l
    BY <1>3, <1>4, <2>1, InsertingIs
  <2> QED
    BY <1>1, <2>1, <2>3
<1>6. DOMAIN arrays' = Names /\ (\A m \in Names : Sound(arrays'[m])) /\ Room(arrays') <= MaxRoom
  BY <1>1 DEF ListsInv
<1>7. ListsInv'
  <2>1. sorting' # Idle => IsSort(sorting') /\ Right(sorting', Con(arrays'[sorting'.list]))
    BY <1>1, <1>2, <1>5
  <2> QED
    BY <1>6, <2>1, SortingNext
<1>8. sorting' = Idle => Ascending(s, Len(s))
  <2>1. ASSUME 1 >= Len(s), NEW j \in 1 .. Len(s), NEW k \in 1 .. Len(s) PROVE ~(j < k)
    BY <1>3, <2>1
  <2> QED
    BY <1>5, <2>1 DEF Ascending
<1>9. \A m \in Names : Con(arrays'[m]) = IF m = l THEN s ELSE Con(arrays[m])
  BY <1>1, <1>2
<1> QED
  BY <1>1, <1>2, <1>5, <1>7, <1>8, <1>9 DEF Sorts

\* Value i of s, counted from 0, is put at position to.
MoveList(s, i, to, t) ==
  /\ s \in Seq(Cell) /\ t \in Seq(Cell) /\ Len(t) = Len(s)
  /\ \A k \in 1 .. Len(s) : t[k] = IF k = to + 1 THEN s[i + 1] ELSE IF k <= to \/ k > i + 1 THEN s[k] ELSE s[k - 1]

LEMMA MoveShuffles ==
  ASSUME NEW s, NEW t, NEW i \in Nat, NEW to \in 0 .. i, i < Len(s), MoveList(s, i, to, t)
  PROVE  Shuffled(s, t)
<1>0. Len(s) \in Nat /\ to \in Nat /\ to <= i /\ i < Len(s)
  BY DEF MoveList
<1> PICK n : n = Len(s)
  OBVIOUS
<1>1. n \in Nat /\ to \in Nat /\ to <= i /\ i < n /\ i \in Nat
  BY <1>0
<1>2. PICK p : p = [k \in 1 .. n |-> IF k = to + 1 THEN i + 1 ELSE IF k <= to \/ k > i + 1 THEN k ELSE k - 1]
  OBVIOUS
<1>3. p \in [1 .. n -> 1 .. n]
  BY ONLY <1>1, <1>2
<1>4. \A k, m \in 1 .. n : p[k] = p[m] => k = m
  BY ONLY <1>1, <1>2
<1>5. ASSUME NEW m \in 1 .. n PROVE \E k \in 1 .. n : p[k] = m
  <2>1. CASE m = i + 1
    <3>1. to + 1 \in 1 .. n /\ p[to + 1] = m
      BY ONLY <1>1, <1>2, <2>1
    <3> QED
      BY <3>1
  <2>2. CASE m <= to \/ m > i + 1
    <3>1. p[m] = m
      BY ONLY <1>1, <1>2, <2>2, m \in 1 .. n
    <3> QED
      BY <3>1
  <2>3. CASE m # i + 1 /\ ~(m <= to \/ m > i + 1)
    <3>1. m + 1 \in 1 .. n /\ p[m + 1] = m
      BY ONLY <1>1, <1>2, <2>3, m \in 1 .. n
    <3> QED
      BY <3>1
  <2> QED
    BY <2>1, <2>2, <2>3
<1>6. ASSUME NEW k \in 1 .. n PROVE t[k] = s[p[k]]
  <2>1. t[k] = IF k = to + 1 THEN s[i + 1] ELSE IF k <= to \/ k > i + 1 THEN s[k] ELSE s[k - 1]
    BY DEF MoveList
  <2>2. p[k] = IF k = to + 1 THEN i + 1 ELSE IF k <= to \/ k > i + 1 THEN k ELSE k - 1
    BY <1>2
  <2> QED
    BY <2>1, <2>2
<1>7. Ordering(s, t, p)
  BY <1>3, <1>4, <1>5, <1>6 DEF Ordering
<1> QED
  BY <1>7 DEF Shuffled, MoveList

\* Where the value belongs.
Belongs(s, i, to) ==
  /\ \A j \in 1 .. to : Rank[s[j]] <= Rank[s[i + 1]]
  /\ \A j \in to + 1 .. i : Rank[s[i + 1]] <= Rank[s[j]]
LEMMA MoveAscends ==
  ASSUME NEW s, NEW t, NEW i \in Nat, NEW to \in 0 .. i, i < Len(s), MoveList(s, i, to, t),
         Null \notin ToSet(s), Ascending(s, i), Belongs(s, i, to)
  PROVE  Ascending(t, i + 1)
<1>0. Len(s) \in Nat /\ to \in Nat /\ to <= i /\ i < Len(s) /\ s \in Seq(Cell)
  BY DEF MoveList
<1> PICK r : r = [k \in 1 .. Len(s) |-> Rank[s[k]]]
  OBVIOUS
<1> PICK e : e = [k \in 1 .. Len(s) |-> Rank[t[k]]]
  OBVIOUS
<1> PICK n : n = Len(s)
  OBVIOUS
<1>1. n \in Nat /\ to \in Nat /\ to <= i /\ i < n /\ i \in Nat
  BY <1>0
<1>2. r \in [1 .. n -> Int]
  BY <1>0, RanksAre
<1>3. \A j, k \in 1 .. i : j < k => r[j] <= r[k]
  <2>1. \A j \in 1 .. i : r[j] = Rank[s[j]]
    BY <1>1
  <2> QED
    BY <2>1 DEF Ascending
<1>4. (\A j \in 1 .. to : r[j] <= r[i + 1]) /\ \A j \in to + 1 .. i : r[i + 1] <= r[j]
  <2>1. r[i + 1] = Rank[s[i + 1]] /\ \A j \in 1 .. i : r[j] = Rank[s[j]]
    BY <1>1
  <2>2. \A j \in 1 .. to : j \in 1 .. i
    BY <1>1
  <2>3. \A j \in to + 1 .. i : j \in 1 .. i
    BY <1>1
  <2> QED
    BY <2>1, <2>2, <2>3 DEF Belongs
<1>5. \A k \in 1 .. n : e[k] = IF k = to + 1 THEN r[i + 1] ELSE IF k <= to \/ k > i + 1 THEN r[k] ELSE r[k - 1]
  <2> TAKE k \in 1 .. n
  <2>1. t[k] = IF k = to + 1 THEN s[i + 1] ELSE IF k <= to \/ k > i + 1 THEN s[k] ELSE s[k - 1]
    BY DEF MoveList
  <2>2. i + 1 \in 1 .. n /\ (~(k <= to \/ k > i + 1) /\ k # to + 1 => k - 1 \in 1 .. n)
    BY ONLY <1>1, k \in 1 .. n
  <2>3. e[k] = Rank[t[k]] /\ r[k] = Rank[s[k]] /\ r[i + 1] = Rank[s[i + 1]]
    BY <2>2
  <2>4. k - 1 \in 1 .. n => r[k - 1] = Rank[s[k - 1]]
    OBVIOUS
  <2> QED
    BY ONLY <2>1, <2>2, <2>3, <2>4
<1>6. ASSUME NEW j \in 1 .. i + 1, NEW k \in 1 .. i + 1, j < k PROVE e[j] <= e[k]
  BY ONLY <1>1, <1>2, <1>3, <1>4, <1>5, <1>6
<1>7. ASSUME NEW j \in 1 .. i + 1 PROVE e[j] = Rank[t[j]]
  BY <1>1
<1> QED
  BY <1>6, <1>7 DEF Ascending
\* What comparing value v with w gives.
LEMMA CompareIs ==
  ASSUME NEW v, NEW w
  PROVE  /\ Compare(v, w) \in {"none", "less", "equal", "greater"}
         /\ Compare(v, w) = "none" => Null \in {v, w} \/ sorting.by = "list"
         /\ Compare(v, w) = "less" => Rank[v] < Rank[w]
         /\ Compare(v, w) = "equal" => Rank[v] = Rank[w]
         /\ Compare(v, w) = "greater" => ~(Rank[v] < Rank[w])
BY DEF Compare

LEMMA InsertionIs ==
  ASSUME NEW s, NEW j, NEW comp \in {"none", "less", "equal", "greater"}
  PROVE  /\ comp = "equal" => Insertion(s, j, comp) = j + 1
         /\ comp = "less" => Insertion(s, j, comp) = IF j = s.low THEN j ELSE -1
         /\ comp \in {"none", "greater"} => Insertion(s, j, comp) = IF j = s.high THEN j + 1 ELSE -1
BY DEF Insertion

\* A comparison narrows down where the value belongs, or finds it.
Looked(q, s, j, comp, to) ==
  /\ j \in Nat /\ q.low <= j /\ j <= q.high
  /\ comp \in {"none", "less", "equal", "greater"}
  /\ Null \notin ToSet(s) =>
       /\ comp # "none"
       /\ comp = "less" => Rank[q.newval] < Rank[s[j + 1]]
       /\ comp = "equal" => Rank[q.newval] = Rank[s[j + 1]]
       /\ comp = "greater" => ~(Rank[q.newval] < Rank[s[j + 1]])
  /\ comp = "equal" => to = j + 1
  /\ comp = "less" => to = IF j = q.low THEN j ELSE -1
  /\ comp \in {"none", "greater"} => to = IF j = q.high THEN j + 1 ELSE -1
Narrowed(q, j, comp) == IF comp = "less" THEN [q EXCEPT !.high = j - 1] ELSE [q EXCEPT !.low = j + 1]
LEMMA LookedIs ==
  ASSUME NEW q, IsSort(q), NEW s \in Seq(Cell), Right(q, s), NEW j, NEW comp, NEW to, Looked(q, s, j, comp, to)
  PROVE  /\ to \in -1 .. q.i
         /\ to # -1 => (Null \notin ToSet(s) => Ascending(s, q.i) /\ Belongs(s, q.i, to))
         /\ to = -1 => /\ IsSort(Narrowed(q, j, comp)) /\ Right(Narrowed(q, j, comp), s)
                       /\ Narrowed(q, j, comp).list = q.list
<1>1. /\ q.i \in Nat /\ q.low \in Nat /\ q.high \in Nat /\ q.low <= q.high /\ q.high < q.i /\ q.i < Len(s) /\ Len(s) \in Nat
      /\ q.newval = s[q.i + 1] /\ q.i >= 1
  <2>1. q.i \in Nat /\ q.low \in Nat /\ q.high \in Nat /\ Len(s) \in Nat
    BY DEF IsSort
  <2>2. q.i \in 1 .. Len(s) - 1 /\ q.low \in 0 .. q.high /\ q.high < q.i /\ q.newval = s[q.i + 1]
    BY DEF Right
  <2> QED
    BY <2>1, <2>2
<1>2. j \in Nat /\ q.low <= j /\ j <= q.high
  BY DEF Looked
<1> PICK i : i = q.i
  OBVIOUS
<1> PICK low : low = q.low
  OBVIOUS
<1> PICK high : high = q.high
  OBVIOUS
<1>3. /\ i \in Nat /\ low \in Nat /\ high \in Nat /\ j \in Nat /\ low <= j /\ j <= high /\ high < i /\ i < Len(s)
      /\ Len(s) \in Nat /\ i >= 1
  BY <1>1, <1>2
<1>4. /\ comp \in {"none", "less", "equal", "greater"}
      /\ comp = "equal" => to = j + 1
      /\ comp = "less" => to = IF j = low THEN j ELSE -1
      /\ comp \in {"none", "greater"} => to = IF j = high THEN j + 1 ELSE -1
  BY DEF Looked
<1>5. to \in -1 .. i
  BY ONLY <1>3, <1>4
<1>6. (to = -1 => (comp = "less" /\ low < j) \/ (comp \in {"none", "greater"} /\ j < high))
  BY ONLY <1>3, <1>4
<1> PICK r : r = [k \in 1 .. Len(s) |-> Rank[s[k]]]
  OBVIOUS
<1>7. ASSUME Null \notin ToSet(s)
      PROVE  /\ r \in [1 .. Len(s) -> Int] /\ \A x, y \in 1 .. i : x < y => r[x] <= r[y]
             /\ \A x \in 1 .. low : r[x] <= r[i + 1]
             /\ \A x \in high + 2 .. i : r[i + 1] <= r[x]
             /\ comp # "none"
             /\ comp = "less" => r[i + 1] < r[j + 1]
             /\ comp = "equal" => r[i + 1] = r[j + 1]
             /\ comp = "greater" => r[j + 1] <= r[i + 1]
  <2>1. r \in [1 .. Len(s) -> Int]
    BY <1>7, RanksAre
  <2>2. r[i + 1] = Rank[q.newval] /\ r[j + 1] = Rank[s[j + 1]] /\ r[i + 1] \in Int /\ r[j + 1] \in Int
    <3>1. i + 1 \in 1 .. Len(s) /\ j + 1 \in 1 .. Len(s)
      BY ONLY <1>3
    <3> QED
      BY <1>1, <2>1, <3>1
  <2>3. \A x \in 1 .. i : r[x] = Rank[s[x]]
    BY <1>3
  <2>4. (\A x \in 1 .. low : x \in 1 .. i) /\ \A x \in high + 2 .. i : x \in 1 .. i
    BY ONLY <1>3
  <2>5. /\ Ascending(s, i)
        /\ \A x \in 1 .. low : Rank[s[x]] <= Rank[q.newval]
        /\ \A x \in high + 2 .. i : Rank[q.newval] <= Rank[s[x]]
    BY <1>7 DEF Right
  <2>6. \A x, y \in 1 .. i : x < y => r[x] <= r[y]
    BY <2>3, <2>5 DEF Ascending
  <2>7. (\A x \in 1 .. low : r[x] <= r[i + 1]) /\ \A x \in high + 2 .. i : r[i + 1] <= r[x]
    BY <2>2, <2>3, <2>4, <2>5
  <2>8. /\ comp # "none"
        /\ comp = "less" => Rank[q.newval] < Rank[s[j + 1]]
        /\ comp = "equal" => Rank[q.newval] = Rank[s[j + 1]]
        /\ comp = "greater" => ~(Rank[q.newval] < Rank[s[j + 1]])
    BY <1>7 DEF Looked
  <2>9. ~(r[i + 1] < r[j + 1]) => r[j + 1] <= r[i + 1]
    BY ONLY <2>2
  <2> QED
    BY <2>1, <2>2, <2>6, <2>7, <2>8, <2>9
<1>8. ASSUME to # -1, Null \notin ToSet(s) PROVE Ascending(s, q.i) /\ Belongs(s, q.i, to)
  <2>1. Ascending(s, q.i)
    BY <1>8 DEF Right
  <2>2. ASSUME NEW x \in 1 .. to PROVE r[x] <= r[i + 1]
    <3>1. /\ r \in [1 .. Len(s) -> Int] /\ \A y, z \in 1 .. i : y < z => r[y] <= r[z]
          /\ \A y \in 1 .. low : r[y] <= r[i + 1]
          /\ \A y \in high + 2 .. i : r[i + 1] <= r[y]
          /\ comp # "none"
          /\ comp = "less" => r[i + 1] < r[j + 1]
          /\ comp = "equal" => r[i + 1] = r[j + 1]
          /\ comp = "greater" => r[j + 1] <= r[i + 1]
      BY <1>7, <1>8
    <3>2. x \in 1 .. i /\ to # -1 /\ j + 1 \in 1 .. i /\ i + 1 \in 1 .. Len(s)
      BY ONLY <1>3, <1>5, <1>8, <2>2
    <3>3. r[x] \in Int /\ r[j + 1] \in Int /\ r[i + 1] \in Int
      BY ONLY <3>1, <3>2, <1>3
    <3>4. x <= j + 1 => r[x] <= r[j + 1]
      <4>1. CASE x = j + 1
        BY <3>3, <4>1
      <4>2. CASE x < j + 1
        BY <3>1, <3>2, <4>2
      <4> QED
        BY ONLY <4>1, <4>2, <3>2, <1>3
    <3>5. CASE comp = "less"
      <4>1. x \in 1 .. low
        BY ONLY <1>3, <1>4, <1>8, <2>2, <3>5
      <4> QED
        BY <3>1, <4>1
    <3>6. CASE comp = "equal"
      <4>1. x <= j + 1
        BY ONLY <1>3, <1>4, <1>8, <2>2, <3>6
      <4> QED
        BY <3>1, <3>3, <3>4, <3>6, <4>1
    <3>7. CASE comp = "greater"
      <4>1. x <= j + 1
        BY ONLY <1>3, <1>4, <1>8, <2>2, <3>7
      <4> QED
        BY ONLY <3>1, <3>3, <3>4, <3>7, <4>1
    <3> QED
      BY <1>4, <3>1, <3>5, <3>6, <3>7
  <2>3. ASSUME NEW x \in to + 1 .. i PROVE r[i + 1] <= r[x]
    <3>1. /\ r \in [1 .. Len(s) -> Int] /\ \A y, z \in 1 .. i : y < z => r[y] <= r[z]
          /\ \A y \in 1 .. low : r[y] <= r[i + 1]
          /\ \A y \in high + 2 .. i : r[i + 1] <= r[y]
          /\ comp # "none"
          /\ comp = "less" => r[i + 1] < r[j + 1]
          /\ comp = "equal" => r[i + 1] = r[j + 1]
          /\ comp = "greater" => r[j + 1] <= r[i + 1]
      BY <1>7, <1>8
    <3>2. x \in 1 .. i /\ to # -1 /\ j + 1 \in 1 .. i /\ i + 1 \in 1 .. Len(s)
      BY ONLY <1>3, <1>5, <1>8, <2>3
    <3>3. r[x] \in Int /\ r[j + 1] \in Int /\ r[i + 1] \in Int
      BY ONLY <3>1, <3>2, <1>3
    <3>4. x >= j + 1 => r[j + 1] <= r[x]
      <4>1. CASE x = j + 1
        BY <3>3, <4>1
      <4>2. CASE j + 1 < x
        BY <3>1, <3>2, <4>2
      <4> QED
        BY ONLY <4>1, <4>2, <3>2, <1>3
    <3>5. CASE comp = "less"
      <4>1. x >= j + 1
        BY ONLY <1>3, <1>4, <1>8, <2>3, <3>5
      <4> QED
        BY ONLY <3>1, <3>3, <3>4, <3>5, <4>1
    <3>6. CASE comp = "equal"
      <4>1. x >= j + 1
        BY ONLY <1>3, <1>4, <1>8, <2>3, <3>6
      <4> QED
        BY ONLY <3>1, <3>3, <3>4, <3>6, <4>1
    <3>7. CASE comp = "greater"
      <4>1. x \in high + 2 .. i
        BY ONLY <1>3, <1>4, <1>8, <2>3, <3>7
      <4> QED
        BY <3>1, <4>1
    <3> QED
      BY <1>4, <3>1, <3>5, <3>6, <3>7
  <2>4. (\A x \in 1 .. to : x \in 1 .. Len(s)) /\ (\A x \in to + 1 .. i : x \in 1 .. Len(s)) /\ i + 1 \in 1 .. Len(s)
    BY ONLY <1>3, <1>5, <1>8
  <2>5. \A x \in 1 .. Len(s) : r[x] = Rank[s[x]]
    OBVIOUS
  <2>6. \A x \in 1 .. to : Rank[s[x]] <= Rank[s[i + 1]]
    BY <2>2, <2>4, <2>5
  <2>7. \A x \in to + 1 .. i : Rank[s[i + 1]] <= Rank[s[x]]
    BY <2>3, <2>4, <2>5
  <2> QED
    BY <2>1, <2>6, <2>7 DEF Belongs
<1>9. ASSUME to = -1
      PROVE  /\ IsSort(Narrowed(q, j, comp)) /\ Right(Narrowed(q, j, comp), s)
             /\ Narrowed(q, j, comp).list = q.list
  <2>1. PICK z : z = Narrowed(q, j, comp)
    OBVIOUS
  <2>2. CASE comp = "less"
    <3>1. low < j
      BY <1>6, <1>9, <2>2
    <3>2. j - 1 \in Nat /\ low \in 0 .. j - 1 /\ j - 1 < i
      BY ONLY <1>3, <3>1
    <3>3. IsSort(z) /\ z.list = q.list /\ z.i = i /\ z.low = low /\ z.high = j - 1 /\ z.newval = q.newval
      BY <2>1, <2>2, <3>2 DEF Narrowed, IsSort
    <3>4. ASSUME Null \notin ToSet(s), NEW x \in (j - 1) + 2 .. i PROVE Rank[q.newval] <= Rank[s[x]]
      <4>1. /\ r \in [1 .. Len(s) -> Int] /\ \A y, y2 \in 1 .. i : y < y2 => r[y] <= r[y2]
            /\ r[i + 1] < r[j + 1]
        BY <1>7, <3>4, <2>2
      <4>2. x \in 1 .. i /\ j + 1 \in 1 .. i /\ j + 1 <= x /\ i + 1 \in 1 .. Len(s) /\ x \in 1 .. Len(s)
        BY ONLY <1>3, <3>4
      <4>3. r[x] = Rank[s[x]] /\ r[i + 1] = Rank[q.newval]
        BY <1>1, <4>2
      <4>4. r[i + 1] <= r[x]
        BY ONLY <1>3, <4>1, <4>2
      <4> QED
        BY <4>3, <4>4
    <3>5. Right(z, s)
      <4>1. z.i \in 1 .. Len(s) - 1 /\ z.low \in 0 .. z.high /\ z.high < z.i /\ z.newval = s[z.i + 1]
        BY <1>1, <1>3, <3>2, <3>3
      <4>2. ASSUME Null \notin ToSet(s)
            PROVE  /\ Ascending(s, z.i)
                   /\ \A x \in 1 .. z.low : Rank[s[x]] <= Rank[z.newval]
                   /\ \A x \in z.high + 2 .. z.i : Rank[z.newval] <= Rank[s[x]]
        <5>1. Ascending(s, i) /\ \A x \in 1 .. low : Rank[s[x]] <= Rank[q.newval]
          BY <4>2 DEF Right
        <5> QED
          BY <3>3, <3>4, <4>2, <5>1
      <4> QED
        BY <4>1, <4>2 DEF Right
    <3> QED
      BY <2>1, <3>3, <3>5
  <2>3. CASE comp # "less"
    <3>1. j < high /\ comp \in {"none", "greater"}
      BY <1>6, <1>9, <2>3
    <3>2. j + 1 \in Nat /\ j + 1 \in 0 .. high
      BY ONLY <1>3, <3>1
    <3>3. IsSort(z) /\ z.list = q.list /\ z.i = i /\ z.low = j + 1 /\ z.high = high /\ z.newval = q.newval
      BY <2>1, <2>3, <3>2 DEF Narrowed, IsSort
    <3>4. ASSUME Null \notin ToSet(s), NEW x \in 1 .. j + 1 PROVE Rank[s[x]] <= Rank[q.newval]
      <4>1. /\ r \in [1 .. Len(s) -> Int] /\ \A y, y2 \in 1 .. i : y < y2 => r[y] <= r[y2]
            /\ r[j + 1] <= r[i + 1]
        BY <1>7, <3>1, <3>4
      <4>2. x \in 1 .. i /\ j + 1 \in 1 .. i /\ x <= j + 1 /\ i + 1 \in 1 .. Len(s) /\ x \in 1 .. Len(s)
        BY ONLY <1>3, <3>4
      <4>3. r[x] = Rank[s[x]] /\ r[i + 1] = Rank[q.newval]
        BY <1>1, <4>2
      <4>4. r[x] <= r[i + 1]
        BY ONLY <1>3, <4>1, <4>2
      <4> QED
        BY <4>3, <4>4
    <3>5. Right(z, s)
      <4>1. z.i \in 1 .. Len(s) - 1 /\ z.low \in 0 .. z.high /\ z.high < z.i /\ z.newval = s[z.i + 1]
        BY <1>1, <1>3, <3>2, <3>3
      <4>2. ASSUME Null \notin ToSet(s)
            PROVE  /\ Ascending(s, z.i)
                   /\ \A x \in 1 .. z.low : Rank[s[x]] <= Rank[z.newval]
                   /\ \A x \in z.high + 2 .. z.i : Rank[z.newval] <= Rank[s[x]]
        <5>1. Ascending(s, i) /\ \A x \in high + 2 .. i : Rank[q.newval] <= Rank[s[x]]
          BY <4>2 DEF Right
        <5> QED
          BY <3>3, <3>4, <4>2, <5>1
      <4> QED
        BY <4>1, <4>2 DEF Right
    <3> QED
      BY <2>1, <3>3, <3>5
  <2> QED
    BY <2>2, <2>3
<1> QED
  BY <1>5, <1>8, <1>9

LEMMA ShuffledSet ==
  ASSUME NEW s, NEW t, Shuffled(s, t)
  PROVE  Null \in ToSet(s) <=> Null \in ToSet(t)
<1>1. PICK p : Ordering(s, t, p)
  BY DEF Shuffled
<1>2. s \in Seq(Cell) /\ t \in Seq(Cell) /\ Len(t) = Len(s) /\ DOMAIN s = 1 .. Len(s) /\ DOMAIN t = 1 .. Len(s)
  BY DEF Shuffled
<1>3. ToSet(s) = {s[k] : k \in 1 .. Len(s)} /\ ToSet(t) = {t[k] : k \in 1 .. Len(s)}
  BY <1>2 DEF ToSet
<1>4. /\ \A k \in 1 .. Len(s) : p[k] \in 1 .. Len(s) /\ t[k] = s[p[k]]
      /\ \A k \in 1 .. Len(s) : \E m \in 1 .. Len(s) : p[m] = k
  BY <1>1 DEF Ordering
<1>5. ASSUME Null \in ToSet(s) PROVE Null \in ToSet(t)
  <2>1. PICK k \in 1 .. Len(s) : Null = s[k]
    BY <1>3, <1>5
  <2>2. PICK m \in 1 .. Len(s) : p[m] = k
    BY <1>4
  <2>3. t[m] = Null
    BY <1>4, <2>1, <2>2
  <2> QED
    BY <1>3, <2>3
<1>6. ASSUME Null \in ToSet(t) PROVE Null \in ToSet(s)
  <2>1. PICK k \in 1 .. Len(s) : Null = t[k]
    BY <1>3, <1>6
  <2>2. Null = s[p[k]] /\ p[k] \in 1 .. Len(s)
    BY <1>4, <2>1
  <2> QED
    BY <1>3, <2>2
<1> QED
  BY <1>5, <1>6

\* Putting value i where it belongs.
Settled(a, i, to, v) ==
  IF to \in 0 .. i - 1 THEN arrSet(arrSub(a, to + 1, i - to, a, TRUE, to, i - to), to, v) ELSE a
LEMMA SettledHolds ==
  ASSUME NEW a, NEW s, Holds(a, s), 2 * Len(s) < Width, NEW i \in Nat, i < Len(s), NEW to \in 0 .. i, NEW t,
         MoveList(s, i, to, t)
  PROVE  Holds(Settled(a, i, to, s[i + 1]), t)
<1>0. s \in Seq(Cell) /\ Len(s) \in Nat /\ to \in Nat /\ to <= i /\ i < Len(s) /\ Width \in Nat /\ i \in Nat
  <2>1. s \in Seq(Cell) /\ Len(s) \in Nat /\ Width \in Nat
    BY HoldsIs, ConstantTypes
  <2>2. to \in Nat /\ to <= i
    BY ONLY i \in Nat, to \in 0 .. i
  <2> QED
    BY <2>1, <2>2
<1>1. /\ t \in Seq(Cell) /\ Len(t) = Len(s)
      /\ \A k \in 1 .. Len(s) : t[k] = IF k = to + 1 THEN s[i + 1] ELSE IF k <= to \/ k > i + 1 THEN s[k] ELSE s[k - 1]
  BY DEF MoveList
<1>2. CASE to = i
  <2>1. Settled(a, i, to, s[i + 1]) = a
    <3>1. ~(to \in 0 .. i - 1)
      BY ONLY <1>0, <1>2
    <3> QED
      BY <3>1 DEF Settled
  <2>2. ASSUME NEW k \in 1 .. Len(s) PROVE t[k] = s[k]
    <3>1. k = to + 1 \/ k <= to \/ k > i + 1
      BY <1>0, <1>2
    <3> QED
      BY <1>1, <1>2, <3>1
  <2>3. Same(t, s)
    BY <1>0, <1>1, <2>2 DEF Same
  <2> QED
    BY <2>1, <2>3, SameSeq
<1>3. CASE to # i
  <2>1. PICK n : n = i - to
    OBVIOUS
  <2>2. PICK pos : pos = to + 1
    OBVIOUS
  <2>3. /\ n \in Nat /\ pos \in 0 .. Len(s) /\ n \in 0 .. Len(s) - pos /\ to + n <= Len(s) /\ Len(s) + n < Width
        /\ to \in 0 .. i - 1 /\ to + 1 < Width /\ Len(s) - n + n = Len(s)
    BY ONLY <1>0, <1>3, <2>1, <2>2, 2 * Len(s) < Width
  <2>4. PICK w : SubList(s, pos, n, s, to, n, w)
    BY <1>0, <2>3, SubListIs
  <2>5. /\ w \in Seq(Cell) /\ Len(w) = Len(s)
        /\ \A k \in 1 .. Len(s) : w[k] = IF k <= pos THEN s[k] ELSE IF k <= pos + n THEN s[to + (k - pos)] ELSE s[k - n + n]
    BY <2>3, <2>4 DEF SubList
  <2>6. Apart(a, pos, n, to, n)
    BY DEF Apart
  <2>7. SubAsked(a, s, pos, n, a, s, TRUE, to, n)
    BY <1>0, <2>3, <2>6 DEF SubAsked
  <2>8. PICK c : c = arrSub(a, pos, n, a, TRUE, to, n)
    OBVIOUS
  <2>9. Holds(c, w)
    BY <2>4, <2>7, <2>8, SubHolds
  <2>10. SetList(w, to, s[i + 1], t)
    <3>1. Greater(Len(w), to + 1) = Len(s)
      BY <1>0, <2>5 DEF Greater
    <3>2. ASSUME NEW k \in 1 .. Len(s) PROVE t[k] = IF k = to + 1 THEN s[i + 1] ELSE w[k]
      <4>1. CASE k <= pos
        <5>1. k = to + 1 \/ k <= to
          BY ONLY <1>0, <2>2, <4>1, k \in 1 .. Len(s)
        <5> QED
          BY <1>1, <2>5, <4>1, <5>1
      <4>2. CASE ~(k <= pos) /\ k <= pos + n
        <5>1. k # to + 1 /\ ~(k <= to \/ k > i + 1) /\ to + (k - pos) = k - 1
          BY ONLY <1>0, <2>1, <2>2, <4>2, k \in 1 .. Len(s)
        <5> QED
          BY <1>1, <2>5, <4>2, <5>1
      <4>3. CASE ~(k <= pos) /\ ~(k <= pos + n)
        <5>1. k # to + 1 /\ k > i + 1 /\ k - n + n = k
          BY ONLY <1>0, <2>1, <2>2, <4>3, k \in 1 .. Len(s)
        <5> QED
          BY <1>1, <2>5, <4>3, <5>1
      <4> QED
        BY <4>1, <4>2, <4>3
    <3> QED
      BY <1>1, <2>5, <3>1, <3>2 DEF SetList
  <2>11. s[i + 1] \in Cell
    BY <1>0
  <2>12. Holds(arrSet(c, to, s[i + 1]), t)
    BY <1>0, <2>3, <2>9, <2>10, <2>11, SetHolds
  <2>13. Settled(a, i, to, s[i + 1]) = arrSet(c, to, s[i + 1])
    BY <2>1, <2>2, <2>3, <2>8 DEF Settled
  <2> QED
    BY <2>12, <2>13
<1> QED
  BY <1>2, <1>3

LEMMA MoveListIs ==
  ASSUME NEW s \in Seq(Cell), NEW i \in Nat, i < Len(s), NEW to \in 0 .. i
  PROVE  \E t : MoveList(s, i, to, t)
<1>0. Len(s) \in Nat /\ \A k \in 1 .. Len(s) : s[k] \in Cell
  OBVIOUS
<1> DEFINE el(k) == IF k = to + 1 THEN s[i + 1] ELSE IF k <= to \/ k > i + 1 THEN s[k] ELSE s[k - 1]
<1>1. PICK t : t = [k \in 1 .. Len(s) |-> el(k)]
  OBVIOUS
<1>2. ASSUME NEW k \in 1 .. Len(s) PROVE el(k) \in Cell
  <2>1. i + 1 \in 1 .. Len(s) /\ (k # to + 1 /\ ~(k <= to \/ k > i + 1) => k - 1 \in 1 .. Len(s))
    BY ONLY <1>0, k \in 1 .. Len(s), i \in Nat, i < Len(s), to \in 0 .. i
  <2> QED
    BY <1>0, <2>1
<1>3. t \in [1 .. Len(s) -> Cell]
  BY <1>1, <1>2
<1>4. t \in Seq(Cell) /\ Len(t) = Len(s)
  BY ONLY <1>0, <1>3, FunSeq
<1>5. MoveList(s, i, to, t)
  BY <1>1, <1>4 DEF MoveList
<1> QED
  BY <1>5

LEMMA ComparedDoes ==
  ASSUME ListsInv, Regular, Compared
  PROVE  /\ sorting # Idle /\ sorting.list \in Names
         /\ \E t : Shuffled(Con(arrays[sorting.list]), t) /\ Sorts(sorting.list, t)
         /\ called' = [op |-> IF sorting' = Idle THEN "sorted" ELSE "compared", list |-> sorting.list, args |-> <<>>]
<1>1. PICK q : q = sorting
  OBVIOUS
<1>2. q.list # Null /\ q # Idle
  BY <1>1 DEF Compared, Idle
<1>3. IsSort(q) /\ Right(q, Con(arrays[q.list]))
  BY <1>1, <1>2, RightIs DEF ListsInv, IsSort
<1>4. q.list \in Names /\ q.i \in Nat /\ q.low \in Nat /\ q.high \in Nat /\ q.by = "<=>" /\ q.newval \in Cell
  BY <1>3 DEF IsSort, Cell
<1>5. PICK a : a = arrays[q.list]
  OBVIOUS
<1>6. PICK s : s = Con(a)
  OBVIOUS
<1>7. Holds(a, s) /\ s \in Seq(Cell) /\ Len(s) \in Nat /\ Len(s) <= MaxRoom /\ 2 * (MaxRoom + MaxPos + 1) < Width
      /\ MaxRoom \in Nat /\ MaxPos \in Nat /\ Width \in Nat
  BY <1>4, <1>5, <1>6, ListIs, ConstantTypes
<1>8. PICK j : j = q.low + (q.high - q.low) \div 2
  OBVIOUS
<1>9. PICK comp : comp = Compare(q.newval, arrGet(a, j))
  OBVIOUS
<1>10. PICK to : to = Insertion(q, j, comp)
  OBVIOUS
<1>11. PICK b : b = Settled(a, q.i, to, q.newval)
  OBVIOUS
<1>12. /\ arrays' = [arrays EXCEPT ![q.list] = b] /\ Room(arrays') <= MaxRoom
       /\ sorting' = IF to # -1 THEN Inserting(q.list, b, q.i + 1, q.by) ELSE Narrowed(q, j, comp)
       /\ called' = [op |-> IF sorting' = Idle THEN "sorted" ELSE "compared", list |-> q.list, args |-> <<>>]
       /\ answer' = Null
  BY <1>1, <1>5, <1>8, <1>9, <1>10, <1>11 DEF Compared, Settled, Narrowed
<1>13. /\ q.low <= q.high /\ q.high < q.i /\ q.i < Len(s) /\ q.newval = s[q.i + 1] /\ q.i >= 1
  <2>1. q.i \in 1 .. Len(s) - 1 /\ q.low \in 0 .. q.high /\ q.high < q.i /\ q.newval = s[q.i + 1]
    BY <1>3, <1>5, <1>6 DEF Right
  <2> QED
    BY <2>1, <1>4, <1>7
<1>14. j \in Nat /\ q.low <= j /\ j <= q.high /\ j < Len(s)
  <2>1. PICK x : x = q.low
    OBVIOUS
  <2>2. PICK y : y = q.high
    OBVIOUS
  <2>3. x \in Nat /\ y \in Nat /\ x <= y /\ j = x + (y - x) \div 2
    BY <1>4, <1>8, <1>13, <2>1, <2>2
  <2>4. j \in Nat /\ x <= j /\ j <= y
    BY ONLY <2>3
  <2>5. j < Len(s)
    BY <1>4, <1>7, <1>13, <2>2, <2>4
  <2> QED
    BY <2>1, <2>2, <2>4, <2>5
<1>15. arrGet(a, j) = s[j + 1]
  BY <1>7, <1>14, GetIs
<1>16. Looked(q, s, j, comp, to)
  <2>1. /\ comp \in {"none", "less", "equal", "greater"}
        /\ comp = "none" => Null \in {q.newval, s[j + 1]} \/ q.by = "list"
        /\ comp = "less" => Rank[q.newval] < Rank[s[j + 1]]
        /\ comp = "equal" => Rank[q.newval] = Rank[s[j + 1]]
        /\ comp = "greater" => ~(Rank[q.newval] < Rank[s[j + 1]])
    BY <1>1, <1>9, <1>15, CompareIs
  <2>2. Null \in {q.newval, s[j + 1]} => Null \in ToSet(s)
    <3>1. q.i + 1 \in DOMAIN s /\ j + 1 \in DOMAIN s
      BY <1>4, <1>7, <1>13, <1>14
    <3> QED
      BY <3>1, <1>13 DEF ToSet
  <2>3. comp = "none" => Null \in ToSet(s)
    BY <1>4, <2>1, <2>2
  <2>4. /\ comp = "equal" => to = j + 1
        /\ comp = "less" => to = IF j = q.low THEN j ELSE -1
        /\ comp \in {"none", "greater"} => to = IF j = q.high THEN j + 1 ELSE -1
    BY <1>10, <2>1, InsertionIs
  <2> QED
    BY <1>14, <2>1, <2>3, <2>4 DEF Looked
<1>17. /\ to \in -1 .. q.i
       /\ to # -1 => (Null \notin ToSet(s) => Ascending(s, q.i) /\ Belongs(s, q.i, to))
       /\ to = -1 => /\ IsSort(Narrowed(q, j, comp)) /\ Right(Narrowed(q, j, comp), s)
                     /\ Narrowed(q, j, comp).list = q.list
  BY <1>3, <1>5, <1>6, <1>7, <1>16, LookedIs
<1>18. CASE to = -1
  <2>1. b = a
    <3>1. ~(to \in 0 .. q.i - 1)
      BY <1>18
    <3> QED
      BY <1>11, <3>1 DEF Settled
  <2>2. Given(q.list, a)
    BY <1>5, <1>12, <2>1 DEF Given
  <2>3. /\ DOMAIN arrays' = Names /\ \A m \in Names : Sound(arrays'[m])
        /\ Room(arrays') <= MaxRoom
        /\ \A m \in Names : Con(arrays'[m]) = IF m = q.list THEN s ELSE Con(arrays[m])
    BY <1>4, <1>7, <2>2, GivenKeeps
  <2>4. sorting' = Narrowed(q, j, comp)
    BY <1>12, <1>18
  <2>5. sorting'.list = q.list /\ IsSort(sorting') /\ Right(sorting', s) /\ sorting' # Idle
    BY <1>17, <1>18, <1>2, <2>4 DEF Idle
  <2>6. ListsInv'
    <3>1. Con(arrays'[sorting'.list]) = s
      BY <1>4, <2>3, <2>5
    <3> QED
      BY <2>3, <2>5, <3>1, SortingNext
  <2>7. Sorts(q.list, s)
    BY <1>12, <2>3, <2>5, <2>6 DEF Sorts
  <2>8. Shuffled(s, s)
    BY <1>7, ShuffledSelf
  <2> QED
    BY <1>1, <1>2, <1>4, <1>5, <1>6, <1>12, <2>7, <2>8
<1>19. CASE to # -1
  <2>1. to \in 0 .. q.i
    BY <1>4, <1>17, <1>19
  <2>2. PICK t : MoveList(s, q.i, to, t)
    BY <1>4, <1>7, <1>13, <2>1, MoveListIs
  <2>3. Shuffled(s, t)
    BY <1>4, <1>13, <2>1, <2>2, MoveShuffles
  <2>4. Holds(b, t)
    <3>1. 2 * Len(s) < Width
      BY ONLY <1>7
    <3> QED
      BY <1>4, <1>7, <1>11, <1>13, <2>1, <2>2, <3>1, SettledHolds
  <2>5. Null \notin ToSet(t) => Ascending(t, q.i + 1)
    BY <1>4, <1>13, <1>17, <1>19, <2>1, <2>2, <2>3, ShuffledSet, MoveAscends
  <2>6. Given(q.list, b)
    BY <1>5, <1>12 DEF Given
  <2>7. /\ DOMAIN arrays' = Names /\ \A m \in Names : Sound(arrays'[m])
        /\ Room(arrays') <= MaxRoom
        /\ \A m \in Names : Con(arrays'[m]) = IF m = q.list THEN t ELSE Con(arrays[m])
    BY <1>4, <2>4, <2>6, GivenKeeps
  <2>8. PICK r : r = Inserting(q.list, b, q.i + 1, "<=>")
    OBVIOUS
  <2>9. sorting' = r
    BY <1>4, <1>12, <1>19, <2>8
  <2>10. \/ r = Idle /\ q.i + 1 >= Len(t)
         \/ r # Idle /\ q.i + 1 < Len(t) /\ IsSort(r) /\ Right(r, t) /\ r.list = q.list
    <3>1. q.i + 1 \in Nat /\ q.i + 1 >= 1
      BY <1>4
    <3> QED
      BY <1>4, <2>4, <2>5, <2>8, <3>1, InsertingIs
  <2>11. ListsInv'
    <3>1. ASSUME sorting' # Idle PROVE IsSort(sorting') /\ Right(sorting', Con(arrays'[sorting'.list]))
      BY <1>4, <2>7, <2>9, <2>10, <3>1
    <3> QED
      BY <2>7, <3>1, SortingNext
  <2>12. sorting' = Idle => (Null \notin ToSet(t) => Ascending(t, Len(t)))
    <3>1. ASSUME sorting' = Idle PROVE q.i + 1 = Len(t)
      <4>1. q.i + 1 >= Len(t)
        BY <2>9, <2>10, <3>1
      <4>2. Len(t) = Len(s)
        BY <2>2 DEF MoveList
      <4> QED
        BY <1>4, <1>7, <1>13, <4>1, <4>2
    <3> QED
      BY <2>5, <3>1
  <2>13. Sorts(q.list, t)
    BY <1>12, <2>7, <2>9, <2>10, <2>11, <2>12 DEF Sorts
  <2> QED
    BY <1>1, <1>2, <1>4, <1>5, <1>6, <1>12, <2>3, <2>13
<1> QED
  BY <1>18, <1>19

(***************************************************************************)
(* The invariant.                                                          *)
(***************************************************************************)
LEMMA StartsRight ==
  ASSUME Init
  PROVE  ListsInv
<1>1. arrays = [l \in Names |-> newArr(0)] /\ sorting = Idle
  BY DEF Init
<1>2. ASSUME NEW l \in Names PROVE arrays[l] = newArr(0) /\ Sound(arrays[l]) /\ Avail(arrays[l]) = 0
  <2>1. Holds(newArr(0), <<>>) /\ Avail(newArr(0)) = 0
    BY NewHolds
  <2>2. Sound(newArr(0))
    BY <2>1, ConIs
  <2> QED
    BY <1>1, <2>1, <2>2
<1>3. [l \in Names |-> Avail(arrays[l])] = [l \in Names |-> 0]
  BY <1>2
<1>4. SumFunction([l \in Names |-> 0]) = 0
  BY SumNone, ConstantTypes
<1>5. Room(arrays) <= MaxRoom
  BY <1>3, <1>4, ConstantTypes DEF Room
<1> QED
  BY <1>1, <1>2, <1>5 DEF ListsInv

LEMMA StepsKeep ==
  ASSUME ListsInv, Regular, [Next]_vars
  PROVE  ListsInv'
<1>1. CASE UNCHANGED vars
  BY <1>1 DEF vars, ListsInv, Room, Avail, SortingRight
<1>2. CASE Compared
  BY <1>2, ComparedDoes DEF Sorts
<1>3. ASSUME NEW l \in Names, list_new(l) PROVE ListsInv'
  BY <1>3, NewDoes DEF Acts
<1>4. ASSUME NEW l \in Names, list_newSized(l) PROVE ListsInv'
  BY <1>4, SizedDoes DEF Acts
<1>5. ASSUME NEW l \in Names, list_append(l) PROVE ListsInv'
  BY <1>5, AppendDoes DEF Acts
<1>6. ASSUME NEW l \in Names, list_prepend(l) PROVE ListsInv'
  BY <1>6, PrependDoes DEF Acts
<1>7. ASSUME NEW l \in Names, list_insert(l) PROVE ListsInv'
  BY <1>7, InsertDoes DEF Acts
<1>8. ASSUME NEW l \in Names, list_pop(l) PROVE ListsInv'
  BY <1>8, PopDoes DEF Acts
<1>9. ASSUME NEW l \in Names, list_shift(l) PROVE ListsInv'
  BY <1>9, ShiftDoes DEF Acts
<1>10. ASSUME NEW l \in Names, list_get(l) PROVE ListsInv'
  BY <1>10, GetDoes DEF Acts
<1>11. ASSUME NEW l \in Names, list_set(l) PROVE ListsInv'
  BY <1>11, SetDoes DEF Acts
<1>12. ASSUME NEW l \in Names, list_remove(l) PROVE ListsInv'
  BY <1>12, RemoveDoes DEF Acts
<1>13. ASSUME NEW l \in Names, list_removeValue(l) PROVE ListsInv'
  <2>1. PICK v : \A sel : Selected(Con(arrays[l]), v, sel)
                          => Acts("RemoveValue", l, <<v>>, sel[Len(Con(arrays[l]))], Null)
    BY <1>13, RemoveValueDoes
  <2>2. PICK sel : Selected(Con(arrays[l]), v, sel)
    BY <1>13, ListIs, SelectedIs
  <2> QED
    BY <2>1, <2>2 DEF Acts
<1>14. ASSUME NEW l \in Names, list_find(l) PROVE ListsInv'
  BY <1>14, FindDoes DEF Acts
<1>15. ASSUME NEW l \in Names, list_clone(l) PROVE ListsInv'
  BY <1>15, CloneDoes DEF Acts
<1>16. ASSUME NEW l \in Names, list_sub(l) PROVE ListsInv'
  BY <1>16, SubDoes DEF Acts
<1>17. ASSUME NEW l \in Names, list_merge(l) PROVE ListsInv'
  BY <1>17, MergeDoes DEF Acts
<1>18. ASSUME NEW l \in Names, list_fill(l) PROVE ListsInv'
  BY <1>18, FillDoes DEF Acts
<1>19. ASSUME NEW l \in Names, list_getsize(l) PROVE ListsInv'
  BY <1>19, SizeDoes DEF Acts
<1>20. ASSUME NEW l \in Names, list_setsize(l) PROVE ListsInv'
  BY <1>20, SetSizeDoes DEF Acts
<1>21. ASSUME NEW l \in Names, list_forcesize(l) PROVE ListsInv'
  BY <1>21, ForceSizeDoes DEF Acts
<1>22. ASSUME NEW l \in Names, list_reverse(l) PROVE ListsInv'
  BY <1>22, ReverseDoes DEF Acts
<1>23. ASSUME NEW l \in Names, list_randomize(l) PROVE ListsInv'
  BY <1>23, RandomizeDoes DEF Acts
<1>24. ASSUME NEW l \in Names, list_each_get(l) PROVE ListsInv'
  BY <1>24, EachDoes DEF Acts
<1>25. ASSUME NEW l \in Names, list_sort(l) PROVE ListsInv'
  BY <1>25, SortDoes DEF Sorts
<1> QED
  BY <1>1, <1>2, <1>3, <1>4, <1>5, <1>6, <1>7, <1>8, <1>9, <1>10, <1>11, <1>12, <1>13, <1>14, <1>15, <1>16,
     <1>17, <1>18, <1>19, <1>20, <1>21, <1>22, <1>23, <1>24, <1>25 DEF Next

LEMMA InvTypes ==
  ASSUME ListsInv
  PROVE  TypeOK
<1>1. ASSUME NEW l \in Names
      PROVE  /\ arrays[l].block \in Seq(Values \cup {Null, Junk})
             /\ arrays[l].size \in 0 .. Width - 1 /\ arrays[l].wild \in BOOLEAN
  <2>1. Sound(arrays[l])
    BY <1>1 DEF ListsInv
  <2>2. arrays[l].size < Width /\ Width \in Nat
    BY <1>1, Bounds
  <2>3. arrays[l].block \in Seq(Values \cup {Null, Junk}) /\ arrays[l].size \in Nat /\ arrays[l].wild \in BOOLEAN
    BY <2>1 DEF Sound
  <2> QED
    BY <2>2, <2>3
<1>2. sorting # Idle => sorting.list \in Names /\ sorting.low \in 0 .. sorting.high /\ sorting.high < sorting.i
  BY DEF ListsInv, SortingRight
<1> QED
  BY <1>1, <1>2 DEF TypeOK

LEMMA InvHolds ==
  ASSUME ListsInv
  PROVE  BlocksHold
<1>1. TypeOK
  BY InvTypes
<1>2. ASSUME NEW l \in Names
      PROVE  /\ ~arrays[l].wild /\ arrays[l].size <= Avail(arrays[l])
             /\ Junk \notin ToSet(SubSeq(arrays[l].block, 1, arrays[l].size))
  <2>1. Sound(arrays[l])
    BY <1>2 DEF ListsInv
  <2>2. \A k \in DOMAIN Con(arrays[l]) : Con(arrays[l])[k] \in Values \cup {Null}
    BY <2>1 DEF Sound
  <2>3. Junk \notin ToSet(Con(arrays[l]))
    BY <2>2, CellsAreSlots DEF ToSet, Cell
  <2> QED
    BY <2>1, <2>3 DEF Sound, Con
<1> QED
  BY <1>1, <1>2 DEF BlocksHold

\* If every call is of a kind that is executed rightly, the invariant holds: what is in use of a block was
\* written, and a sort knows its list (avm_array.cpp, typ_list.cpp).
THEOREM ListsInductive == Regular /\ Spec => []ListsInv
<1> SUFFICES ASSUME Regular PROVE Spec => []ListsInv
  OBVIOUS
<1>1. Init => ListsInv
  BY StartsRight
<1>2. ListsInv /\ [Next]_vars => ListsInv'
  BY StepsKeep
<1> QED
  BY <1>1, <1>2, PTL DEF Spec

\* Then nothing is ever written outside a block, whatever is put in, taken out, moved, copied and sorted, and
\* the collector never looks at a slot of a list that was not written.
THEOREM BlocksAlwaysHold == Regular /\ Spec => []BlocksHold
<1>1. ListsInv => BlocksHold
  BY InvHolds
<1> QED
  BY <1>1, ListsInductive, PTL

(***************************************************************************)
(* The methods do what the abstract specification promises.                *)
(***************************************************************************)
LEMMA PromisedCall ==
  ASSUME NEW l \in Names, NEW op, NEW args, NEW t, NEW ans, Acts(op, l, args, t, ans)
  PROVE  /\ Promised!Does(op, t) /\ Promised!Gives(ans)
         /\ Promised!This = Con(arrays[l]) /\ Promised!Args = args
         /\ \A m \in Names : Contents[m] = Con(arrays[m])
<1>1. called' = [op |-> op, list |-> l, args |-> args] /\ answer' = ans /\ sorting' = sorting
  BY DEF Acts
<1>2. called'.op = op /\ called'.list = l /\ called'.args = args
  BY <1>1
<1>3. \A m \in Names : Contents[m] = Con(arrays[m])
  BY DEF Contents, Con
<1>4. Contents' = [Contents EXCEPT ![l] = t]
  <2>1. Contents' = [m \in Names |-> Con(arrays'[m])]
    BY DEF Contents, Con
  <2>2. \A m \in Names : Con(arrays'[m]) = IF m = l THEN t ELSE Con(arrays[m])
    BY DEF Acts
  <2>3. Contents = [m \in Names |-> Con(arrays[m])]
    BY DEF Contents, Con
  <2> QED
    BY <2>1, <2>2, <2>3
<1>5. Promised!Does(op, t)
  BY <1>1, <1>2, <1>4 DEF Promised!Does
<1>6. Promised!Gives(ans)
  BY <1>1 DEF Promised!Gives
<1>7. Promised!This = Con(arrays[l]) /\ Promised!Args = args
  BY <1>2, <1>3 DEF Promised!This, Promised!Args
<1> QED
  BY <1>3, <1>5, <1>6, <1>7

LEMMA NewPromised ==
  ASSUME ListsInv, Regular, NEW l \in Names, list_new(l)
  PROVE  Promised!New
<1>1. PICK vs \in Seq(Cell) : Acts("New", l, vs, vs, Null)
  BY NewDoes
<1>2. Promised!Does("New", vs) /\ Promised!Args = vs
  BY <1>1, PromisedCall
<1> QED
  BY <1>2 DEF Promised!New

LEMMA SizePromised ==
  ASSUME ListsInv, Regular, NEW l \in Names, list_getsize(l)
  PROVE  Promised!Size
<1> PICK s : s = Con(arrays[l])
  OBVIOUS
<1>1. Acts("size", l, <<>>, s, Len(s))
  BY SizeDoes
<1>2. Promised!Does("size", s) /\ Promised!Gives(Len(s)) /\ Promised!This = s
  BY <1>1, PromisedCall
<1> QED
  BY <1>2 DEF Promised!Size, Promised!Looks

\* What the abstract operators make.
LEMMA ConcatIs ==
  ASSUME NEW u \in Seq(Cell), NEW w \in Seq(Cell)
  PROVE  /\ u \o w \in Seq(Cell) /\ Len(u \o w) = Len(u) + Len(w) /\ Len(u) \in Nat /\ Len(w) \in Nat
         /\ \A k \in 1 .. Len(u \o w) : (u \o w)[k] = IF k <= Len(u) THEN u[k] ELSE w[k - Len(u)]
OBVIOUS

LEMMA PartsAre ==
  ASSUME NEW s \in Seq(Cell), NEW pos \in Nat, NEW n \in Nat
  PROVE  /\ Promised!Part(s, pos, n) \in Seq(Cell)
         /\ Len(Promised!Part(s, pos, n)) = IF pos + n <= Len(s) THEN n ELSE IF pos <= Len(s) THEN Len(s) - pos ELSE 0
         /\ \A k \in 1 .. Len(Promised!Part(s, pos, n)) : Promised!Part(s, pos, n)[k] = s[pos + k]
<1>1. PICK hi : hi = IF pos + n <= Len(s) THEN pos + n ELSE Len(s)
  OBVIOUS
<1>2. PICK t : t = SubSeq(s, pos + 1, hi)
  OBVIOUS
<1>3. Len(s) \in Nat /\ s \in Seq(Cell) /\ hi \in Nat /\ hi <= Len(s)
  BY <1>1
<1>4. t \in Seq(Cell)
  BY ONLY <1>2, <1>3, pos \in Nat
<1>5. CASE pos + 1 <= hi
  <2>1. Len(t) = hi - pos /\ \A k \in 1 .. hi - pos : t[k] = s[pos + 1 + k - 1]
    BY ONLY <1>2, <1>3, <1>5, pos \in Nat
  <2>2. \A k \in 1 .. hi - pos : pos + 1 + k - 1 = pos + k
    BY ONLY <1>3, pos \in Nat
  <2>3. \A k \in 1 .. Len(t) : t[k] = s[pos + k]
    BY <2>1, <2>2
  <2>4. Len(t) = IF pos + n <= Len(s) THEN n ELSE IF pos <= Len(s) THEN Len(s) - pos ELSE 0
    BY ONLY <2>1, <1>1, <1>3, <1>5, pos \in Nat, n \in Nat
  <2> QED
    BY <1>1, <1>2, <1>4, <2>3, <2>4 DEF Promised!Part
<1>6. CASE ~(pos + 1 <= hi)
  <2>1. t = <<>>
    BY ONLY <1>2, <1>3, <1>6, pos \in Nat
  <2>2. Len(t) = IF pos + n <= Len(s) THEN n ELSE IF pos <= Len(s) THEN Len(s) - pos ELSE 0
    <3>1. Len(t) = 0
      BY <2>1
    <3> QED
      BY ONLY <3>1, <1>1, <1>3, <1>6, pos \in Nat, n \in Nat
  <2>3. \A k \in 1 .. Len(t) : t[k] = s[pos + k]
    BY <2>1
  <2> QED
    BY <1>1, <1>2, <1>4, <2>2, <2>3 DEF Promised!Part
<1> QED
  BY <1>5, <1>6

LEMMA RestIs ==
  ASSUME NEW s \in Seq(Cell), NEW d \in Nat
  PROVE  /\ SubSeq(s, d + 1, Len(s)) \in Seq(Cell)
         /\ Len(SubSeq(s, d + 1, Len(s))) = IF d <= Len(s) THEN Len(s) - d ELSE 0
         /\ \A k \in 1 .. Len(SubSeq(s, d + 1, Len(s))) : SubSeq(s, d + 1, Len(s))[k] = s[d + k]
<1>1. Len(s) \in Nat
  OBVIOUS
<1>2. ~(d + Len(s) <= Len(s)) \/ d = 0
  BY <1>1
<1>3. Promised!Part(s, d, Len(s)) = SubSeq(s, d + 1, Len(s))
  <2>1. (IF d + Len(s) <= Len(s) THEN d + Len(s) ELSE Len(s)) = Len(s)
    BY <1>1, <1>2
  <2> QED
    BY <2>1 DEF Promised!Part
<1>4. /\ Promised!Part(s, d, Len(s)) \in Seq(Cell)
      /\ Len(Promised!Part(s, d, Len(s))) = IF d + Len(s) <= Len(s) THEN Len(s) ELSE IF d <= Len(s) THEN Len(s) - d ELSE 0
      /\ \A k \in 1 .. Len(Promised!Part(s, d, Len(s))) : Promised!Part(s, d, Len(s))[k] = s[d + k]
  BY <1>1, PartsAre
<1>5. (IF d + Len(s) <= Len(s) THEN Len(s) ELSE IF d <= Len(s) THEN Len(s) - d ELSE 0) = IF d <= Len(s) THEN Len(s) - d ELSE 0
  BY ONLY <1>1, d \in Nat
<1> QED
  BY <1>3, <1>4, <1>5

Lesser(m, n) == IF m > n THEN n ELSE m
LEMMA ReplacedIs ==
  ASSUME NEW s \in Seq(Cell), NEW vs \in Seq(Cell), NEW pos \in Nat, NEW n \in Nat
  PROVE  /\ Promised!Replaced(s, pos, n, vs) \in Seq(Cell)
         /\ Len(Promised!Replaced(s, pos, n, vs)) =
              Lesser(pos, Len(s)) + Len(vs) + (IF pos + n <= Len(s) THEN Len(s) - pos - n ELSE 0)
         /\ \A k \in 1 .. Len(Promised!Replaced(s, pos, n, vs)) :
              Promised!Replaced(s, pos, n, vs)[k] =
                IF k <= Lesser(pos, Len(s)) THEN s[k]
                ELSE IF k <= Lesser(pos, Len(s)) + Len(vs) THEN vs[k - Lesser(pos, Len(s))]
                ELSE s[k - Lesser(pos, Len(s)) - Len(vs) + pos + n]
<1>1. PICK u : u = Promised!Part(s, 0, pos)
  OBVIOUS
<1>2. PICK w : w = SubSeq(s, pos + n + 1, Len(s))
  OBVIOUS
<1>3. PICK m : m = Lesser(pos, Len(s))
  OBVIOUS
<1>4. Len(s) \in Nat /\ Len(vs) \in Nat /\ vs \in Seq(Cell) /\ m \in Nat
  BY <1>3 DEF Lesser
<1>5. u \in Seq(Cell) /\ Len(u) = m /\ \A k \in 1 .. Len(u) : u[k] = s[k]
  <2>1. /\ u \in Seq(Cell)
        /\ Len(u) = IF 0 + pos <= Len(s) THEN pos ELSE IF 0 <= Len(s) THEN Len(s) - 0 ELSE 0
        /\ \A k \in 1 .. Len(u) : u[k] = s[0 + k]
    <3>1. 0 \in Nat
      OBVIOUS
    <3>2. /\ Promised!Part(s, 0, pos) \in Seq(Cell)
          /\ Len(Promised!Part(s, 0, pos)) = IF 0 + pos <= Len(s) THEN pos ELSE IF 0 <= Len(s) THEN Len(s) - 0 ELSE 0
          /\ \A k \in 1 .. Len(Promised!Part(s, 0, pos)) : Promised!Part(s, 0, pos)[k] = s[0 + k]
      BY ONLY <3>1, PartsAre, s \in Seq(Cell), pos \in Nat
    <3> QED
      BY <1>1, <3>2
  <2>2. Len(u) = m
    BY <1>3, <1>4, <2>1 DEF Lesser
  <2>3. \A k \in 1 .. Len(u) : 0 + k = k
    BY <1>4, <2>2
  <2> QED
    BY <2>1, <2>2, <2>3
<1>6. /\ w \in Seq(Cell) /\ Len(w) = IF pos + n <= Len(s) THEN Len(s) - (pos + n) ELSE 0
      /\ \A k \in 1 .. Len(w) : w[k] = s[(pos + n) + k]
  <2>1. pos + n \in Nat
    OBVIOUS
  <2> QED
    BY <1>2, <2>1, RestIs
<1>7. PICK t : t = u \o vs \o w
  OBVIOUS
<1>8. /\ t \in Seq(Cell) /\ Len(t) = Len(u) + Len(vs) + Len(w)
      /\ \A k \in 1 .. Len(t) : t[k] = IF k <= Len(u) THEN u[k] ELSE IF k <= Len(u) + Len(vs) THEN vs[k - Len(u)]
                                       ELSE w[k - (Len(u) + Len(vs))]
  <2>1. PICK x : x = u \o vs
    OBVIOUS
  <2>2. x \in Seq(Cell) /\ Len(x) = Len(u) + Len(vs) /\ \A k \in 1 .. Len(x) : x[k] = IF k <= Len(u) THEN u[k] ELSE vs[k - Len(u)]
    BY <2>1, <1>4, <1>5, ConcatIs
  <2>3. t = x \o w
    BY <1>7, <2>1
  <2>4. t \in Seq(Cell) /\ Len(t) = Len(x) + Len(w) /\ \A k \in 1 .. Len(t) : t[k] = IF k <= Len(x) THEN x[k] ELSE w[k - Len(x)]
    BY <2>2, <2>3, <1>6, ConcatIs
  <2>5. Len(u) \in Nat /\ Len(w) \in Nat
    BY <1>5, <1>6
  <2>6. ASSUME NEW k \in 1 .. Len(t)
        PROVE  t[k] = IF k <= Len(u) THEN u[k] ELSE IF k <= Len(u) + Len(vs) THEN vs[k - Len(u)] ELSE w[k - (Len(u) + Len(vs))]
    <3>1. CASE k <= Len(x)
      <4>1. k \in 1 .. Len(x)
        BY <2>2, <3>1
      <4>2. k <= Len(u) \/ k <= Len(u) + Len(vs)
        BY <2>2, <3>1
      <4> QED
        BY <2>2, <2>4, <3>1, <4>1, <4>2
    <3>2. CASE ~(k <= Len(x))
      <4>1. ~(k <= Len(u)) /\ ~(k <= Len(u) + Len(vs))
        BY <1>4, <2>2, <2>5, <3>2
      <4> QED
        BY <2>2, <2>4, <3>2, <4>1
    <3> QED
      BY <3>1, <3>2
  <2> QED
    BY <2>2, <2>4, <2>6
<1>9. Len(t) = m + Len(vs) + (IF pos + n <= Len(s) THEN Len(s) - pos - n ELSE 0)
  BY ONLY <1>4, <1>5, <1>6, <1>8, pos \in Nat, n \in Nat
<1>10. ASSUME NEW k \in 1 .. Len(t)
       PROVE  t[k] = IF k <= m THEN s[k] ELSE IF k <= m + Len(vs) THEN vs[k - m] ELSE s[k - m - Len(vs) + pos + n]
  <2>1. CASE k <= m
    <3>1. k \in 1 .. Len(u)
      BY <1>4, <1>5, <1>9, <2>1
    <3> QED
      BY <1>5, <1>8, <2>1, <3>1
  <2>2. CASE ~(k <= m) /\ k <= m + Len(vs)
    BY <1>5, <1>8, <2>2
  <2>3. CASE ~(k <= m) /\ ~(k <= m + Len(vs))
    <3>0. Len(w) \in Nat /\ Len(t) = m + Len(vs) + Len(w)
      BY <1>5, <1>6, <1>8
    <3>1. k - (m + Len(vs)) \in 1 .. Len(w) /\ (pos + n) + (k - (m + Len(vs))) = k - m - Len(vs) + pos + n
      BY ONLY <1>4, <3>0, <2>3, k \in 1 .. Len(t), pos \in Nat, n \in Nat
    <3>2. t[k] = w[k - (m + Len(vs))]
      BY <1>5, <1>8, <2>3
    <3> QED
      BY <1>6, <2>3, <3>1, <3>2
  <2> QED
    BY <2>1, <2>2, <2>3
<1>11. Promised!Replaced(s, pos, n, vs) = t
  BY <1>1, <1>2, <1>7 DEF Promised!Replaced
<1> QED
  BY <1>3, <1>8, <1>9, <1>10, <1>11

LEMMA PaddingIs ==
  ASSUME NEW n \in Int
  PROVE  /\ Promised!Copies(Null, n) \in Seq(Cell) /\ Len(Promised!Copies(Null, n)) = IF n > 0 THEN n ELSE 0
         /\ \A k \in 1 .. Len(Promised!Copies(Null, n)) : Promised!Copies(Null, n)[k] = Null
<1>1. PICK m : m = IF n > 0 THEN n ELSE 0
  OBVIOUS
<1>2. m \in Nat /\ 1 .. n = 1 .. m
  BY <1>1
<1>3. PICK f : f = [k \in 1 .. m |-> Null]
  OBVIOUS
<1>4. f \in [1 .. m -> Cell]
  BY <1>3, CellsAreSlots
<1>5. f \in Seq(Cell) /\ Len(f) = m
  BY ONLY <1>2, <1>4, FunSeq
<1>6. Promised!Copies(Null, n) = f
  BY <1>2, <1>3 DEF Promised!Copies
<1> QED
  BY <1>1, <1>3, <1>5, <1>6

LEMMA OverwrittenIs ==
  ASSUME NEW s \in Seq(Cell), NEW vs \in Seq(Cell), NEW pos \in Nat
  PROVE  /\ Promised!Overwritten(s, pos, vs) \in Seq(Cell)
         /\ Len(Promised!Overwritten(s, pos, vs)) = Greater(Len(s), pos + Len(vs))
         /\ \A k \in 1 .. Len(Promised!Overwritten(s, pos, vs)) :
              Promised!Overwritten(s, pos, vs)[k] =
                IF k > pos /\ k <= pos + Len(vs) THEN vs[k - pos] ELSE IF k <= Len(s) THEN s[k] ELSE Null
<1>1. PICK p : p = Promised!Copies(Null, pos + Len(vs) - Len(s))
  OBVIOUS
<1>2. Len(s) \in Nat /\ Len(vs) \in Nat /\ vs \in Seq(Cell) /\ s \in Seq(Cell) /\ pos + Len(vs) - Len(s) \in Int
  OBVIOUS
<1>3. /\ p \in Seq(Cell) /\ Len(p) = IF pos + Len(vs) - Len(s) > 0 THEN pos + Len(vs) - Len(s) ELSE 0
      /\ \A k \in 1 .. Len(p) : p[k] = Null
  BY <1>1, <1>2, PaddingIs
<1>4. PICK t : t = s \o p
  OBVIOUS
<1>5. t \in Seq(Cell) /\ Len(t) = Len(s) + Len(p) /\ \A k \in 1 .. Len(t) : t[k] = IF k <= Len(s) THEN s[k] ELSE p[k - Len(s)]
  BY <1>2, <1>3, <1>4, ConcatIs
<1>6. Len(t) = Greater(Len(s), pos + Len(vs)) /\ Len(t) \in Nat /\ Len(p) \in Nat
  <2>1. Len(t) = IF Len(s) > pos + Len(vs) THEN Len(s) ELSE pos + Len(vs)
    BY ONLY <1>2, <1>3, <1>5, pos \in Nat
  <2> QED
    BY <1>3, <1>5, <2>1 DEF Greater
<1>7. DOMAIN t = 1 .. Len(t) /\ DOMAIN vs = 1 .. Len(vs)
  BY <1>5, <1>2
<1>8. ASSUME NEW k \in 1 .. Len(t) PROVE t[k] = IF k <= Len(s) THEN s[k] ELSE Null
  <2>1. ~(k <= Len(s)) => k - Len(s) \in 1 .. Len(p)
    BY ONLY <1>2, <1>5, <1>6, k \in 1 .. Len(t)
  <2> QED
    BY <1>3, <1>5, <2>1
<1> DEFINE el(k) == IF k > pos /\ k <= pos + Len(vs) THEN vs[k - pos] ELSE IF k <= Len(s) THEN s[k] ELSE Null
<1>9. ASSUME NEW k \in 1 .. Len(t)
      PROVE  (IF k - pos \in DOMAIN vs THEN vs[k - pos] ELSE t[k]) = el(k) /\ el(k) \in Cell
  <2>1. k - pos \in 1 .. Len(vs) <=> k > pos /\ k <= pos + Len(vs)
    BY ONLY <1>2, k \in 1 .. Len(t), <1>6, pos \in Nat
  <2>2. (IF k - pos \in DOMAIN vs THEN vs[k - pos] ELSE t[k]) = el(k)
    BY <1>7, <1>8, <2>1
  <2>3. k - pos \in 1 .. Len(vs) => vs[k - pos] \in Cell
    BY <1>2
  <2>4. t[k] \in Cell
    BY <1>5
  <2> QED
    BY <1>7, <2>2, <2>3, <2>4
<1>10. Promised!Overwritten(s, pos, vs) = [k \in 1 .. Len(t) |-> el(k)]
  <2>1. Promised!Overwritten(s, pos, vs) = [k \in DOMAIN t |-> IF k - pos \in DOMAIN vs THEN vs[k - pos] ELSE t[k]]
    BY <1>1, <1>4 DEF Promised!Overwritten
  <2> HIDE DEF el
  <2> QED
    BY <1>7, <1>9, <2>1
<1>11. PICK r : r = [k \in 1 .. Len(t) |-> el(k)]
  OBVIOUS
<1>12. r \in [1 .. Len(t) -> Cell]
  <2> HIDE DEF el
  <2> QED
    BY <1>9, <1>11
<1>13. r \in Seq(Cell) /\ Len(r) = Len(t)
  BY ONLY <1>6, <1>12, FunSeq
<1> QED
  BY <1>6, <1>10, <1>11, <1>13

LEMMA SizedPromised ==
  ASSUME ListsInv, Regular, NEW l \in Names, list_newSized(l)
  PROVE  Promised!Sized
<1>1. PICK n : Acts("Sized", l, <<n>>, <<>>, Null)
  BY SizedDoes
<1>2. Promised!Does("Sized", <<>>)
  BY <1>1, PromisedCall
<1> QED
  BY <1>2 DEF Promised!Sized

LEMMA AppendSame ==
  ASSUME NEW s \in Seq(Cell), NEW vs \in Seq(Cell), NEW t, AppendList(s, vs, t)
  PROVE  t = s \o vs
<1>1. Same(t, s \o vs)
  BY ConcatIs DEF AppendList, Same
<1> QED
  BY <1>1, SameSeq

LEMMA AppendPromised ==
  ASSUME ListsInv, Regular, NEW l \in Names, list_append(l)
  PROVE  Promised!AddLast
<1> PICK s : s = Con(arrays[l])
  OBVIOUS
<1>1. PICK vs \in Seq(Cell) : \E t : AppendList(s, vs, t) /\ Acts("<<", l, vs, t, Null)
  BY AppendDoes
<1>2. PICK t : AppendList(s, vs, t) /\ Acts("<<", l, vs, t, Null)
  BY <1>1
<1>3. t = s \o vs
  BY <1>2, ListIs, AppendSame
<1>4. Promised!Does("<<", t) /\ Promised!This = s /\ Promised!Args = vs
  BY <1>2, PromisedCall
<1> QED
  BY <1>3, <1>4 DEF Promised!AddLast

LEMMA ReverseIs ==
  ASSUME NEW s \in Seq(Cell)
  PROVE  /\ Reverse(s) \in Seq(Cell) /\ Len(Reverse(s)) = Len(s)
         /\ \A i \in 1 .. Len(s) : Reverse(s)[i] = s[Len(s) + 1 - i]
<1>1. Len(s) \in Nat /\ \A k \in 1 .. Len(s) : s[k] \in Cell
  OBVIOUS
<1>2. \A i \in 1 .. Len(s) : (Len(s) - i) + 1 \in 1 .. Len(s) /\ (Len(s) - i) + 1 = Len(s) + 1 - i
  BY <1>1
<1>3. PICK t : t = Reverse(s)
  OBVIOUS
<1>4. t = [i \in 1 .. Len(s) |-> s[(Len(s) - i) + 1]]
  BY <1>3 DEF Reverse
<1>5. t \in [1 .. Len(s) -> Cell]
  BY <1>1, <1>2, <1>4
<1>6. t \in Seq(Cell) /\ Len(t) = Len(s)
  BY ONLY <1>1, <1>5, FunSeq
<1> QED
  BY <1>2, <1>3, <1>4, <1>6

LEMMA PrependPromised ==
  ASSUME ListsInv, Regular, NEW l \in Names, list_prepend(l)
  PROVE  Promised!AddFirst
<1> PICK s : s = Con(arrays[l])
  OBVIOUS
<1>1. PICK vs \in Seq(Cell) : \E t : PrependList(s, vs, t) /\ Acts(">>", l, vs, t, Null)
  BY PrependDoes
<1>2. PICK t : PrependList(s, vs, t) /\ Acts(">>", l, vs, t, Null)
  BY <1>1
<1>3. t = Reverse(vs) \o s
  <2>1. PICK r : r = Reverse(vs)
    OBVIOUS
  <2>2. r \in Seq(Cell) /\ Len(r) = Len(vs) /\ \A i \in 1 .. Len(vs) : r[i] = vs[Len(vs) + 1 - i]
    BY <2>1, ReverseIs
  <2>3. s \in Seq(Cell)
    BY ListIs
  <2>4. PICK w : w = r \o s
    OBVIOUS
  <2>5. /\ w \in Seq(Cell) /\ Len(w) = Len(r) + Len(s) /\ Len(r) \in Nat /\ Len(s) \in Nat
        /\ \A k \in 1 .. Len(w) : w[k] = IF k <= Len(r) THEN r[k] ELSE s[k - Len(r)]
    BY <2>2, <2>3, <2>4, ConcatIs
  <2>6. /\ t \in Seq(Cell) /\ Len(t) = Len(s) + Len(vs)
        /\ \A i \in 1 .. Len(t) : t[i] = IF i <= Len(vs) THEN vs[Len(vs) + 1 - i] ELSE s[i - Len(vs)]
    BY <1>2 DEF PrependList
  <2>7. Len(t) = Len(w)
    BY ONLY <2>2, <2>5, <2>6
  <2>8. ASSUME NEW k \in 1 .. Len(w) PROVE t[k] = w[k]
    <3>1. k <= Len(r) => k \in 1 .. Len(vs)
      BY <2>2
    <3> QED
      BY <2>2, <2>5, <2>6, <2>7, <3>1
  <2>9. Same(t, w)
    BY <2>5, <2>6, <2>7, <2>8 DEF Same
  <2> QED
    BY <2>1, <2>4, <2>9, SameSeq
<1>4. Promised!Does(">>", t) /\ Promised!This = s /\ Promised!Args = vs
  BY <1>2, PromisedCall
<1> QED
  BY <1>3, <1>4 DEF Promised!AddFirst, Promised!Reverse, Reverse

\* A parameter before others.
LEMMA FirstArg ==
  ASSUME NEW x, NEW S, NEW vs \in Seq(S)
  PROVE  /\ (<<x>> \o vs)[1] = x /\ Tail(<<x>> \o vs) = vs /\ Len(<<x>> \o vs) = Len(vs) + 1 /\ Len(vs) \in Nat
         /\ \A k \in 1 .. Len(vs) : (<<x>> \o vs)[k + 1] = vs[k]
<1>1. PICK T : T = S \cup {x}
  OBVIOUS
<1>2. <<x>> \in Seq(T) /\ vs \in Seq(T) /\ Len(<<x>>) = 1
  BY <1>1
<1>3. PICK w : w = <<x>> \o vs
  OBVIOUS
<1>4. w \in Seq(T) /\ Len(w) = 1 + Len(vs) /\ Len(vs) \in Nat /\ w[1] = x /\ \A k \in 2 .. 1 + Len(vs) : w[k] = vs[k - 1]
  BY <1>2, <1>3
<1>5. ASSUME NEW k \in 1 .. Len(vs) PROVE w[k + 1] = vs[k]
  <2>1. k + 1 \in 2 .. 1 + Len(vs) /\ (k + 1) - 1 = k
    BY <1>4
  <2> QED
    BY <1>4, <2>1
<1>6. Tail(w) = vs
  <2>1. w # <<>>
    BY <1>4
  <2>2. PICK z : z = Tail(w)
    OBVIOUS
  <2>3. z \in Seq(T) /\ Len(z) = Len(w) - 1 /\ \A k \in 1 .. Len(z) : z[k] = w[k + 1]
    BY ONLY <2>1, <2>2, <1>4
  <2>4. Len(z) = Len(vs) /\ \A k \in 1 .. Len(vs) : z[k] = vs[k]
    BY <2>3, <1>4, <1>5
  <2>5. z = vs
    BY ONLY <2>3, <2>4, <1>2
  <2> QED
    BY <2>2, <2>5
<1> QED
  BY <1>3, <1>4, <1>5, <1>6

LEMMA InsertPromised ==
  ASSUME ListsInv, Regular, NEW l \in Names, list_insert(l)
  PROVE  Promised!Insert
<1> PICK s : s = Con(arrays[l])
  OBVIOUS
<1>1. PICK vs \in Seq(Cell), pos \in Nat : \E t :
        /\ vs # <<>> => pos <= Len(s)
        /\ InsertList(s, pos, vs, t) /\ Acts("Insert", l, <<pos>> \o vs, t, Null)
  BY InsertDoes
<1>2. PICK t : /\ vs # <<>> => pos <= Len(s)
               /\ InsertList(s, pos, vs, t) /\ Acts("Insert", l, <<pos>> \o vs, t, Null)
  BY <1>1
<1>3. s \in Seq(Cell) /\ Len(s) \in Nat /\ Len(vs) \in Nat
  BY ListIs
<1>4. t = Promised!Replaced(s, pos, 0, vs)
  <2>1. PICK w : w = Promised!Replaced(s, pos, 0, vs)
    OBVIOUS
  <2>2. PICK m : m = Lesser(pos, Len(s))
    OBVIOUS
  <2>3. /\ w \in Seq(Cell) /\ Len(w) = m + Len(vs) + (IF pos + 0 <= Len(s) THEN Len(s) - pos - 0 ELSE 0)
        /\ \A k \in 1 .. Len(w) :
             w[k] = IF k <= m THEN s[k] ELSE IF k <= m + Len(vs) THEN vs[k - m] ELSE s[k - m - Len(vs) + pos + 0]
    <3>1. 0 \in Nat
      OBVIOUS
    <3> QED
      BY <1>3, <2>1, <2>2, <3>1, ReplacedIs
  <2>4. m = IF pos > Len(s) THEN Len(s) ELSE pos
    BY <2>2 DEF Lesser
  <2>5. Len(vs) = 0 \/ pos <= Len(s)
    BY <1>2
  <2>6. Len(w) = Len(s) + Len(vs) /\ m \in Nat
    <3>1. CASE pos <= Len(s)
      <4>1. m = pos /\ pos + 0 <= Len(s)
        BY ONLY <1>3, <2>4, <3>1, pos \in Nat
      <4>2. Len(w) = pos + Len(vs) + (Len(s) - pos - 0)
        BY <2>3, <4>1
      <4> QED
        BY ONLY <1>3, <4>1, <4>2, pos \in Nat
    <3>2. CASE ~(pos <= Len(s))
      <4>1. m = Len(s) /\ ~(pos + 0 <= Len(s)) /\ Len(vs) = 0
        BY ONLY <1>3, <2>4, <2>5, <3>2, pos \in Nat
      <4>2. Len(w) = Len(s) + Len(vs) + 0
        BY <2>3, <4>1
      <4> QED
        BY ONLY <1>3, <4>1, <4>2
    <3> QED
      BY <3>1, <3>2
  <2>7. /\ t \in Seq(Cell) /\ Len(t) = Len(s) + Len(vs)
        /\ \A i \in 1 .. Len(t) : t[i] = IF i <= pos THEN s[i] ELSE IF i <= pos + Len(vs) THEN vs[i - pos] ELSE s[i - Len(vs)]
    BY <1>2 DEF InsertList
  <2>8. ASSUME NEW k \in 1 .. Len(w) PROVE t[k] = w[k]
    <3>1. CASE pos <= Len(s)
      <4>1. m = pos /\ k - m - Len(vs) + pos + 0 = k - Len(vs) /\ k \in 1 .. Len(t)
        BY ONLY <3>1, <1>3, <2>4, <2>6, <2>7, k \in 1 .. Len(w), pos \in Nat
      <4> QED
        BY <4>1, <2>3, <2>7
    <3>2. CASE ~(pos <= Len(s))
      <4>1. k <= m /\ k <= pos /\ k \in 1 .. Len(t)
        BY ONLY <3>2, <1>3, <2>4, <2>5, <2>6, <2>7, k \in 1 .. Len(w), pos \in Nat
      <4> QED
        BY <4>1, <2>3, <2>7
    <3> QED
      BY <3>1, <3>2
  <2>9. Same(t, w)
    BY <2>3, <2>6, <2>7, <2>8 DEF Same
  <2> QED
    BY <2>1, <2>9, SameSeq
<1>5. Promised!Does("Insert", t) /\ Promised!This = s /\ Promised!Args = <<pos>> \o vs
  BY <1>2, PromisedCall
<1>6. Promised!Args[1] = pos /\ Tail(Promised!Args) = vs
  BY <1>5, FirstArg
<1> QED
  BY <1>4, <1>5, <1>6 DEF Promised!Insert

LEMMA PopPromised ==
  ASSUME ListsInv, Regular, NEW l \in Names, list_pop(l)
  PROVE  Promised!Pop
<1> PICK s : s = Con(arrays[l])
  OBVIOUS
<1>1. PICK t, ans : Popped(s, t, ans) /\ Acts("Pop", l, <<>>, t, ans)
  BY PopDoes
<1>2. s \in Seq(Cell) /\ Len(s) \in Nat /\ (s = <<>> <=> Len(s) = 0)
  BY ListIs
<1>3. Promised!Does("Pop", t) /\ Promised!Gives(ans) /\ Promised!This = s
  BY <1>1, PromisedCall
<1>4. t = (IF s = <<>> THEN <<>> ELSE Front(s)) /\ ans = (IF s = <<>> THEN Null ELSE Last(s))
  <2>1. CASE Len(s) = 0
    BY <1>1, <1>2, <2>1 DEF Popped
  <2>2. CASE Len(s) # 0
    <3>1. t \in Seq(Cell) /\ Len(t) = Len(s) - 1 /\ (\A k \in 1 .. Len(t) : t[k] = s[k]) /\ ans = s[Len(s)]
      BY <1>1, <2>2 DEF Popped
    <3>0. PICK n : n = Len(s) - 1
      OBVIOUS
    <3>2. PICK w : w = SubSeq(s, 1, n)
      OBVIOUS
    <3>3. w \in Seq(Cell) /\ Len(w) = n /\ \A k \in 1 .. n : w[k] = s[k]
      <4>1. n \in Nat /\ n <= Len(s) /\ s \in Seq(Cell)
        BY <3>0, <1>2, <2>2
      <4> QED
        BY ONLY <3>2, <4>1
    <3>4. Same(t, w)
      BY <3>0, <3>1, <3>3 DEF Same
    <3> QED
      BY <1>2, <2>2, <3>0, <3>1, <3>2, <3>4, SameSeq DEF Front, Last
  <2> QED
    BY <2>1, <2>2
<1> QED
  BY <1>3, <1>4 DEF Promised!Pop, Promised!Front, Promised!Last, Front, Last

LEMMA ShiftPromised ==
  ASSUME ListsInv, Regular, NEW l \in Names, list_shift(l)
  PROVE  Promised!Shift
<1> PICK s : s = Con(arrays[l])
  OBVIOUS
<1>1. PICK t, ans : ShiftedOut(s, t, ans) /\ Acts("Shift", l, <<>>, t, ans)
  BY ShiftDoes
<1>2. s \in Seq(Cell) /\ Len(s) \in Nat /\ (s = <<>> <=> Len(s) = 0)
  BY ListIs
<1>3. Promised!Does("Shift", t) /\ Promised!Gives(ans) /\ Promised!This = s
  BY <1>1, PromisedCall
<1>4. t = (IF s = <<>> THEN <<>> ELSE Tail(s)) /\ ans = (IF s = <<>> THEN Null ELSE Head(s))
  <2>1. CASE Len(s) = 0
    BY <1>1, <1>2, <2>1 DEF ShiftedOut
  <2>2. CASE Len(s) # 0
    <3>1. t \in Seq(Cell) /\ Len(t) = Len(s) - 1 /\ (\A k \in 1 .. Len(t) : t[k] = s[k + 1]) /\ ans = s[1]
      BY <1>1, <2>2 DEF ShiftedOut
    <3>2. PICK w : w = Tail(s)
      OBVIOUS
    <3>3. w \in Seq(Cell) /\ Len(w) = Len(s) - 1 /\ \A k \in 1 .. Len(w) : w[k] = s[k + 1]
      BY ONLY <3>2, <1>2, <2>2
    <3>4. Same(t, w)
      BY <3>1, <3>3 DEF Same
    <3>5. Head(s) = s[1]
      BY <1>2, <2>2
    <3> QED
      BY <1>2, <2>2, <3>1, <3>2, <3>4, <3>5, SameSeq
  <2> QED
    BY <2>1, <2>2
<1> QED
  BY <1>3, <1>4 DEF Promised!Shift

LEMMA GetPromised ==
  ASSUME ListsInv, Regular, NEW l \in Names, list_get(l)
  PROVE  Promised!Get
<1> PICK s : s = Con(arrays[l])
  OBVIOUS
<1>1. PICK p \in Int : Acts("[]", l, <<p>>, s, ValueAt(s, At(s, p)))
  BY GetDoes
<1>2. Promised!Does("[]", s) /\ Promised!Gives(ValueAt(s, At(s, p))) /\ Promised!This = s /\ Promised!Args = <<p>>
  BY <1>1, PromisedCall
<1>3. Promised!Args[1] = p
  BY <1>2
<1>4. Promised!FromEnd(s, p) = At(s, p)
  BY DEF Promised!FromEnd, At
<1> QED
  BY <1>2, <1>3, <1>4 DEF Promised!Get, Promised!Looks, ValueAt

LEMMA SetPromised ==
  ASSUME ListsInv, Regular, NEW l \in Names, list_set(l)
  PROVE  Promised!Set
<1> PICK s : s = Con(arrays[l])
  OBVIOUS
<1>1. PICK p \in Int, v \in Cell : \E t :
        /\ At(s, p) \in Nat /\ SetList(s, At(s, p), v, t)
        /\ Acts("[]=", l, <<v, p>>, t, Null)
  BY SetDoes
<1>2. PICK t : At(s, p) \in Nat /\ SetList(s, At(s, p), v, t) /\ Acts("[]=", l, <<v, p>>, t, Null)
  BY <1>1
<1>3. PICK x : x = At(s, p)
  OBVIOUS
<1>4. s \in Seq(Cell) /\ Len(s) \in Nat /\ x \in Nat
  BY <1>2, <1>3, ListIs
<1>5. t = Promised!Overwritten(s, x, <<v>>)
  <2>2. PICK vs : vs = <<v>>
    OBVIOUS
  <2>1. PICK w : w = Promised!Overwritten(s, x, vs)
    OBVIOUS
  <2>3. vs \in Seq(Cell) /\ Len(vs) = 1 /\ vs[1] = v
    BY <2>2
  <2>4. /\ w \in Seq(Cell) /\ Len(w) = Greater(Len(s), x + Len(vs))
        /\ \A k \in 1 .. Len(w) : w[k] = IF k > x /\ k <= x + Len(vs) THEN vs[k - x] ELSE IF k <= Len(s) THEN s[k] ELSE Null
    BY ONLY <1>4, <2>1, <2>2, <2>3, OverwrittenIs
  <2>5. /\ t \in Seq(Cell) /\ Len(t) = Greater(Len(s), x + 1)
        /\ \A k \in 1 .. Len(t) : t[k] = IF k = x + 1 THEN v ELSE IF k <= Len(s) THEN s[k] ELSE Null
    BY <1>2, <1>3 DEF SetList
  <2>6. ASSUME NEW k \in 1 .. Len(w) PROVE t[k] = w[k]
    <3>1. (k > x /\ k <= x + 1 <=> k = x + 1) /\ (k = x + 1 => k - x = 1)
      BY ONLY <1>4, k \in 1 .. Len(w)
    <3> QED
      BY <2>3, <2>4, <2>5, <3>1
  <2>7. Same(t, w)
    BY <2>3, <2>4, <2>5, <2>6 DEF Same
  <2> QED
    BY <2>1, <2>2, <2>7, SameSeq
<1>6. Promised!Does("[]=", t) /\ Promised!This = s /\ Promised!Args = <<v, p>>
  BY <1>2, PromisedCall
<1>7. Promised!Args[1] = v /\ Promised!Args[2] = p
  BY <1>6
<1>8. Promised!FromEnd(s, p) = x
  BY <1>3 DEF Promised!FromEnd, At
<1> QED
  BY <1>5, <1>6, <1>7, <1>8 DEF Promised!Set

ReplacedAs(s, vs, pos, n, w) ==
  /\ w \in Seq(Cell) /\ Len(w) = Lesser(pos, Len(s)) + Len(vs) + (IF pos + n <= Len(s) THEN Len(s) - pos - n ELSE 0)
  /\ \A k \in 1 .. Len(w) :
       w[k] = IF k <= Lesser(pos, Len(s)) THEN s[k]
              ELSE IF k <= Lesser(pos, Len(s)) + Len(vs) THEN vs[k - Lesser(pos, Len(s))]
              ELSE s[k - Lesser(pos, Len(s)) - Len(vs) + pos + n]

LEMMA ReplacedNamed ==
  ASSUME NEW s \in Seq(Cell), NEW vs \in Seq(Cell), NEW pos \in Nat, NEW n \in Nat
  PROVE  ReplacedAs(s, vs, pos, n, Promised!Replaced(s, pos, n, vs))
BY ReplacedIs DEF ReplacedAs

LEMMA DeletedLength ==
  ASSUME NEW x \in Nat, NEW n \in Nat, NEW c \in Nat, NEW m, m = IF x <= c THEN x ELSE c
  PROVE  m + 0 + (IF x + n <= c THEN c - x - n ELSE 0) = IF x >= c THEN c ELSE IF x + n < c THEN c - n ELSE x
<1>1. CASE x <= c
  BY <1>1
<1>2. CASE ~(x <= c)
  BY <1>2
<1> QED
  BY <1>1, <1>2

LEMMA DeletedPlaces ==
  ASSUME NEW x \in Nat, NEW n \in Nat, NEW c \in Nat, NEW m, m = IF x <= c THEN x ELSE c,
         NEW k \in Nat, ~(k <= m), k <= m + 0 + (IF x + n <= c THEN c - x - n ELSE 0)
  PROVE  ~(x >= c) /\ ~(k <= x) /\ ~(k <= m + 0) /\ k - m - 0 + x + n = k + n
<1>1. CASE x <= c
  <2>1. m = x
    BY <1>1
  <2>2. CASE x + n <= c
    BY <2>1, <2>2
  <2>3. CASE ~(x + n <= c)
    BY <2>1, <2>3
  <2> QED
    BY <2>2, <2>3
<1>2. CASE ~(x <= c)
  BY <1>2
<1> QED
  BY <1>1, <1>2

LEMMA DeletedIs ==
  ASSUME NEW s \in Seq(Cell), NEW x \in Nat, NEW n \in Nat, NEW t, DelList(s, x, n, t)
  PROVE  t = Promised!Replaced(s, x, n, <<>>)
<1> PICK vs : vs = <<>>
  OBVIOUS
<1> PICK w : w = Promised!Replaced(s, x, n, vs)
  OBVIOUS
<1> PICK m : m = Lesser(x, Len(s))
  OBVIOUS
<1> PICK c : c = Len(s)
  OBVIOUS
<1>1. vs \in Seq(Cell) /\ Len(vs) = 0
  OBVIOUS
<1>2. ReplacedAs(s, vs, x, n, w)
  BY <1>1, ReplacedNamed
<1>3. c \in Nat
  OBVIOUS
<1>4. m = IF x <= c THEN x ELSE c
  BY <1>3 DEF Lesser
<1>5. /\ w \in Seq(Cell) /\ Len(w) = m + 0 + (IF x + n <= c THEN c - x - n ELSE 0)
      /\ \A k \in 1 .. Len(w) : w[k] = IF k <= m THEN s[k] ELSE IF k <= m + 0 THEN vs[k - m] ELSE s[k - m - 0 + x + n]
  BY <1>1, <1>2 DEF ReplacedAs
<1>6. /\ t \in Seq(Cell) /\ Len(t) = (IF x >= c THEN c ELSE IF x + n < c THEN c - n ELSE x)
      /\ \A k \in 1 .. Len(t) : t[k] = IF x >= c \/ k <= x THEN s[k] ELSE s[k + n]
  BY DEF DelList
<1>7. Len(w) = Len(t)
  BY ONLY <1>3, <1>4, <1>5, <1>6, DeletedLength, x \in Nat, n \in Nat
<1>8. ASSUME NEW k \in 1 .. Len(w) PROVE t[k] = w[k]
  <2>1. k \in Nat /\ k <= Len(w) /\ m <= x
    BY <1>3, <1>4, <1>5
  <2>2. CASE k <= m
    <3>1. k <= x
      BY <1>3, <1>4, <2>1, <2>2
    <3> QED
      BY <1>5, <1>6, <1>7, <2>2, <3>1
  <2>3. CASE ~(k <= m)
    <3>1. k <= m + 0 + (IF x + n <= c THEN c - x - n ELSE 0)
      BY <1>5, <2>1
    <3>2. ~(x >= c) /\ ~(k <= x) /\ ~(k <= m + 0) /\ k - m - 0 + x + n = k + n
      BY ONLY <1>3, <1>4, <2>1, <2>3, <3>1, DeletedPlaces, x \in Nat, n \in Nat
    <3> QED
      BY <1>5, <1>6, <1>7, <2>3, <3>2
  <2> QED
    BY <2>2, <2>3
<1>9. Same(t, w)
  BY <1>5, <1>6, <1>7, <1>8 DEF Same
<1> QED
  BY <1>9, SameSeq

LEMMA UpToDeletes ==
  ASSUME NEW s \in Seq(Cell), NEW x \in Nat, NEW n \in Nat, NEW last \in Int, UpTo(s, x, n, last),
         NEW t, DelList(s, x, n, t)
  PROVE  IF last < x THEN t = s ELSE DelList(s, x, last - x + 1, t)
<1>1. PICK z : z = Len(s)
  OBVIOUS
<1>2. z \in Nat /\ \A k : k \in (x .. x + n - 1) \cap (0 .. z - 1) <=> k \in (x .. last) \cap (0 .. z - 1)
  BY <1>1 DEF UpTo
<1>3. ASSUME NEW k \in 0 .. z - 1, k >= x PROVE k <= x + n - 1 <=> k <= last
  <2>1. k \in (x .. x + n - 1) \cap (0 .. z - 1) <=> k \in (x .. last) \cap (0 .. z - 1)
    BY <1>2
  <2>2. k \in x .. x + n - 1 <=> k \in x .. last
    BY <2>1
  <2>3. k \in Int
    BY <1>2
  <2> QED
    BY ONLY <2>2, <2>3, k >= x, x \in Nat, n \in Nat, last \in Int
<1>4. CASE last < x
  <2>1. x >= z \/ n = 0
    <3>1. SUFFICES ASSUME x < z, n >= 1 PROVE FALSE
      BY <1>2
    <3>2. x \in 0 .. z - 1 /\ x >= x /\ x <= x + n - 1
      BY ONLY <1>2, <3>1, x \in Nat, n \in Nat
    <3>3. x <= last
      BY <1>3, <3>2
    <3> QED
      BY <1>4, <3>3
  <2>2. Len(t) = Len(s) /\ t \in Seq(Cell) /\ \A k \in 1 .. Len(t) : t[k] = s[k]
    BY <1>1, <1>2, <2>1 DEF DelList
  <2>3. Same(t, s)
    BY <2>2 DEF Same
  <2> QED
    BY <1>4, <2>3, SameSeq
<1>5. CASE ~(last < x)
  <2>1. PICK m : m = last - x + 1
    OBVIOUS
  <2>2. m \in Nat /\ m >= 1 /\ last = x + m - 1
    BY <1>5, <2>1
  <2>3. x >= z \/ m = n \/ (x + n >= z /\ x + m >= z)
    <3>1. SUFFICES ASSUME x < z, m # n, x + n < z \/ x + m < z PROVE FALSE
      BY <1>2, <2>2
    <3>2. n >= 1
      <4>1. x \in 0 .. z - 1 /\ x >= x /\ x <= last
        BY <1>2, <1>5, <3>1
      <4>2. x <= x + n - 1
        BY <1>3, <4>1
      <4> QED
        BY <4>2
    <3>3. CASE x + n < z
      <4>1. x + n \in 0 .. z - 1 /\ x + n - 1 \in 0 .. z - 1 /\ x + n >= x /\ x + n - 1 >= x
        BY ONLY <1>2, <3>2, <3>3, x \in Nat, n \in Nat
      <4>2. ~(x + n <= last) /\ x + n - 1 <= last
        BY <1>3, <4>1
      <4> QED
        BY <2>2, <3>1, <4>2
    <3>4. CASE x + m < z
      <4>1. x + m \in 0 .. z - 1 /\ x + m - 1 \in 0 .. z - 1 /\ x + m >= x /\ x + m - 1 >= x
        BY ONLY <1>2, <2>2, <3>4, x \in Nat
      <4>2. ~(x + m <= x + n - 1) /\ x + m - 1 <= x + n - 1
        BY <1>3, <2>2, <4>1
      <4> QED
        BY <2>2, <3>1, <4>2
    <3> QED
      BY <3>1, <3>3, <3>4
  <2>4. DelList(s, x, m, t)
    <3>1. CASE x >= z
      BY <1>1, <3>1 DEF DelList
    <3>2. CASE m = n
      BY <3>2
    <3>3. CASE x < z /\ x + n >= z /\ x + m >= z
      <4>1. Len(t) = x /\ t \in Seq(Cell) /\ \A k \in 1 .. Len(t) : k <= x /\ t[k] = s[k]
        BY <1>1, <1>2, <3>3 DEF DelList
      <4> QED
        BY <1>1, <1>2, <2>2, <3>3, <4>1 DEF DelList
    <3> QED
      BY <1>2, <2>3, <3>1, <3>2, <3>3
  <2> QED
    BY <1>5, <2>1, <2>4
<1> QED
  BY <1>4, <1>5

LEMMA DeletePromised ==
  ASSUME ListsInv, Regular, NEW l \in Names, list_remove(l)
  PROVE  Promised!Delete
<1> PICK s : s = Con(arrays[l])
  OBVIOUS
<1>1. PICK p \in Int, n \in Nat : \E len, t :
        /\ (len = <<>> /\ n = 1) \/ (len = <<n>> /\ UpTo(s, At(s, p), n, At(s, n)))
        /\ IF At(s, p) < 0 THEN t = s ELSE DelList(s, At(s, p), n, t)
        /\ Acts("Remove", l, <<p>> \o len, t, Null)
  BY RemoveDoes
<1>2. PICK len, t :
        /\ (len = <<>> /\ n = 1) \/ (len = <<n>> /\ UpTo(s, At(s, p), n, At(s, n)))
        /\ IF At(s, p) < 0 THEN t = s ELSE DelList(s, At(s, p), n, t)
        /\ Acts("Remove", l, <<p>> \o len, t, Null)
  BY <1>1
<1>3. PICK x : x = At(s, p)
  OBVIOUS
<1>4. PICK last : last = IF len = <<>> THEN x ELSE At(s, n)
  OBVIOUS
<1>5. s \in Seq(Cell) /\ Len(s) \in Nat /\ x \in Int /\ last \in Int
  <2>1. s \in Seq(Cell) /\ Len(s) \in Nat
    BY ListIs
  <2> QED
    BY <1>3, <1>4, <2>1 DEF At
<1>6. len = <<>> \/ (len = <<n>> /\ len # <<>>)
  <2>1. <<n>> # <<>>
    OBVIOUS
  <2> QED
    BY <1>2, <2>1
<1>7. t = IF x < 0 \/ last < x THEN s ELSE Promised!Replaced(s, x, last - x + 1, <<>>)
  <2>1. CASE x < 0
    BY <1>2, <1>3, <2>1
  <2>2. CASE ~(x < 0)
    <3>1. x \in Nat /\ DelList(s, x, n, t)
      BY <1>2, <1>3, <1>5, <2>2
    <3>2. CASE len = <<>>
      <4>1. n = 1 /\ last = x /\ ~(last < x) /\ last - x + 1 = n
        BY <1>2, <1>4, <1>5, <1>6, <3>2
      <4> QED
        BY <1>5, <2>2, <3>1, <4>1, DeletedIs
    <3>3. CASE len = <<n>> /\ len # <<>>
      <4>1. UpTo(s, x, n, last)
        BY <1>2, <1>3, <1>4, <3>3
      <4>2. IF last < x THEN t = s ELSE DelList(s, x, last - x + 1, t)
        BY <1>5, <3>1, <4>1, UpToDeletes
      <4>3. ~(last < x) => last - x + 1 \in Nat
        BY <1>5
      <4> QED
        BY <1>5, <2>2, <3>1, <4>2, <4>3, DeletedIs
    <3> QED
      BY <1>6, <3>2, <3>3
  <2> QED
    BY <2>1, <2>2
<1>8. Promised!Does("Remove", t) /\ Promised!This = s /\ Promised!Args = <<p>> \o len
  BY <1>2, PromisedCall
<1>9. Promised!Args[1] = p /\ last = IF Len(Promised!Args) = 1 THEN x ELSE Promised!FromEnd(s, Promised!Args[2])
  <2>1. len \in Seq(Int) /\ ((len = <<>> /\ Len(len) = 0) \/ (len # <<>> /\ Len(len) = 1 /\ len[1] = n))
    <3>1. CASE len = <<>>
      BY <3>1
    <3>2. CASE len = <<n>> /\ len # <<>>
      <4>1. <<n>> \in Seq(Int) /\ Len(<<n>>) = 1 /\ <<n>>[1] = n
        OBVIOUS
      <4> QED
        BY ONLY <3>2, <4>1
    <3> QED
      BY <1>6, <3>1, <3>2
  <2>2. /\ Promised!Args[1] = p /\ Len(Promised!Args) = Len(len) + 1
        /\ \A k \in 1 .. Len(len) : Promised!Args[k + 1] = len[k]
    BY <1>8, <2>1, FirstArg
  <2>3. CASE len = <<>> /\ Len(len) = 0
    BY <1>4, <2>2, <2>3
  <2>4. CASE len # <<>> /\ Len(len) = 1 /\ len[1] = n
    <3>1. Promised!Args[1 + 1] = len[1] /\ Len(Promised!Args) = 2 /\ 1 + 1 = 2
      BY <2>2, <2>4
    <3>2. Promised!FromEnd(s, n) = At(s, n)
      BY DEF Promised!FromEnd, At
    <3> QED
      BY <1>4, <2>2, <2>4, <3>1, <3>2
  <2> QED
    BY <2>1, <2>3, <2>4
<1>10. Promised!FromEnd(s, p) = x
  BY <1>3 DEF Promised!FromEnd, At
<1> QED
  BY <1>7, <1>8, <1>9, <1>10 DEF Promised!Delete

LEMMA WithoutIs ==
  ASSUME NEW s \in Seq(Cell), NEW v
  PROVE  \E sel : Selected(s, v, sel) /\ Promised!Without(s, v) = sel[Len(s)]
<1> DEFINE el(f, k) == IF k = 0 THEN <<>> ELSE IF s[Len(s) - k + 1] = v THEN f[k - 1] ELSE <<s[Len(s) - k + 1]>> \o f[k - 1]
           Is(f) == f = [k \in 0 .. Len(s) |-> el(f, k)]
<1>0. Len(s) \in Nat /\ \A k \in 1 .. Len(s) : s[k] \in Cell
  OBVIOUS
<1>1. \E f : Is(f)
  <2>1. PICK f : Selected(s, v, f)
    BY SelectedIs
  <2>2. ASSUME NEW k \in 0 .. Len(s) PROVE f[k] = el(f, k)
    <3>1. CASE k = 0
      BY <2>1, <3>1 DEF Selected
    <3>2. CASE k # 0
      <4>1. k \in 1 .. Len(s)
        BY <1>0, <3>2
      <4> QED
        BY <2>1, <3>2, <4>1 DEF Selected
    <3> QED
      BY <3>1, <3>2
  <2>3. f \in [0 .. Len(s) -> Seq(Cell)]
    BY <2>1 DEF Selected
  <2> HIDE DEF el
  <2> QED
    BY <2>2, <2>3
<1>2. PICK f : f = CHOOSE g : Is(g)
  OBVIOUS
<1>3. f = [k \in 0 .. Len(s) |-> el(f, k)]
  <2> HIDE DEF el
  <2> QED
    BY <1>1, <1>2
<1>4. \A k \in 0 .. Len(s) : f[k] = el(f, k)
  <2> HIDE DEF el
  <2> QED
    BY <1>3
<1>5. \A k \in 0 .. Len(s) : f[k] \in Seq(Cell)
  <2>1. PICK P : P = [k \in 0 .. Len(s) |-> Seq(Cell)]
    OBVIOUS
  <2>2. 0 \in 0 .. Len(s) /\ f[0] \in P[0]
    <3>1. 0 \in 0 .. Len(s)
      BY <1>0
    <3>2. f[0] = <<>>
      BY <1>4, <3>1
    <3>3. <<>> \in Seq(Cell)
      OBVIOUS
    <3> QED
      BY <2>1, <3>1, <3>2, <3>3
  <2>3. ASSUME NEW k \in 1 .. Len(s), f[k - 1] \in P[k - 1] PROVE f[k] \in P[k]
    <3>1. k \in 0 .. Len(s) /\ k - 1 \in 0 .. Len(s) /\ k # 0 /\ Len(s) - k + 1 \in 1 .. Len(s)
      BY <1>0
    <3>2. f[k - 1] \in Seq(Cell)
      BY <2>1, <2>3, <3>1
    <3>3. f[k] = IF s[Len(s) - k + 1] = v THEN f[k - 1] ELSE <<s[Len(s) - k + 1]>> \o f[k - 1]
      BY <1>4, <3>1
    <3>4. PICK x : x = s[Len(s) - k + 1]
      OBVIOUS
    <3>5. PICK r : r = f[k - 1]
      OBVIOUS
    <3>6. x \in Cell /\ r \in Seq(Cell)
      BY <1>0, <3>1, <3>2, <3>4, <3>5
    <3>7. <<x>> \o r \in Seq(Cell)
      BY ONLY <3>6
    <3>8. f[k] \in Seq(Cell)
      BY <3>3, <3>4, <3>5, <3>6, <3>7
    <3> QED
      BY <2>1, <3>1, <3>8
  <2>4. Keeping(Len(s), P, f)
    BY <1>0, <2>2, <2>3 DEF Keeping
  <2>5. \A k \in 0 .. Len(s) : f[k] \in P[k]
    BY <2>4, Kept
  <2> QED
    BY <2>1, <2>5
<1>6. f \in [0 .. Len(s) -> Seq(Cell)]
  <2> HIDE DEF el
  <2> QED
    BY <1>3, <1>5
<1>7. Selected(s, v, f)
  <2>1. ASSUME NEW k \in 1 .. Len(s)
        PROVE  f[k] = IF s[Len(s) - k + 1] = v THEN f[k - 1] ELSE <<s[Len(s) - k + 1]>> \o f[k - 1]
    <3>1. k \in 0 .. Len(s) /\ k # 0
      BY <1>0
    <3> QED
      BY <1>4, <3>1
  <2>2. f[0] = <<>>
    <3>1. 0 \in 0 .. Len(s)
      BY <1>0
    <3> QED
      BY <1>4, <3>1
  <2> QED
    BY <1>6, <2>1, <2>2 DEF Selected
<1>8. Promised!Without(s, v) = f[Len(s)]
  BY <1>2 DEF Promised!Without
<1> QED
  BY <1>7, <1>8

LEMMA RemoveValuePromised ==
  ASSUME ListsInv, Regular, NEW l \in Names, list_removeValue(l)
  PROVE  Promised!RemoveValue
<1> PICK s : s = Con(arrays[l])
  OBVIOUS
<1>1. PICK v : \A sel : Selected(s, v, sel) => Acts("RemoveValue", l, <<v>>, sel[Len(s)], Null)
  BY RemoveValueDoes
<1>2. PICK sel : Selected(s, v, sel) /\ Promised!Without(s, v) = sel[Len(s)]
  BY ListIs, WithoutIs
<1>3. Promised!Does("RemoveValue", sel[Len(s)]) /\ Promised!This = s /\ Promised!Args = <<v>>
  BY <1>1, <1>2, PromisedCall
<1>4. Promised!Args[1] = v
  BY <1>3
<1> QED
  BY <1>2, <1>3, <1>4 DEF Promised!RemoveValue

LEMMA PaddedLength ==
  ASSUME NEW n \in Nat, NEW c \in Nat
  PROVE  (IF 0 + n <= c THEN n ELSE IF 0 <= c THEN c - 0 ELSE 0) + (IF n - c > 0 THEN n - c ELSE 0) = n
OBVIOUS

LEMMA PaddedIs ==
  ASSUME NEW s \in Seq(Cell), NEW n \in Nat, NEW t, ForceList(s, n, t)
  PROVE  t = Promised!Part(s, 0, n) \o Promised!Copies(Null, n - Len(s))
<1>1. PICK u : u = Promised!Part(s, 0, n)
  OBVIOUS
<1>2. PICK p : p = Promised!Copies(Null, n - Len(s))
  OBVIOUS
<1>3. PICK w : w = u \o p
  OBVIOUS
<1>4. Len(s) \in Nat
  OBVIOUS
<1>5. /\ u \in Seq(Cell) /\ Len(u) = (IF 0 + n <= Len(s) THEN n ELSE IF 0 <= Len(s) THEN Len(s) - 0 ELSE 0)
      /\ \A k \in 1 .. Len(u) : u[k] = s[0 + k]
  <2>1. 0 \in Nat
    OBVIOUS
  <2> QED
    BY ONLY <1>1, <2>1, PartsAre, s \in Seq(Cell), n \in Nat
<1>6. p \in Seq(Cell) /\ Len(p) = (IF n - Len(s) > 0 THEN n - Len(s) ELSE 0) /\ \A k \in 1 .. Len(p) : p[k] = Null
  <2>1. n - Len(s) \in Int
    BY <1>4
  <2> QED
    BY <1>2, <2>1, PaddingIs
<1>7. /\ w \in Seq(Cell) /\ Len(w) = Len(u) + Len(p) /\ Len(u) \in Nat /\ Len(p) \in Nat
      /\ \A k \in 1 .. Len(w) : w[k] = IF k <= Len(u) THEN u[k] ELSE p[k - Len(u)]
  BY <1>3, <1>5, <1>6, ConcatIs
<1>8. Len(w) = n
  <2> PICK c : c = Len(s)
    OBVIOUS
  <2>1. Len(u) = (IF 0 + n <= c THEN n ELSE IF 0 <= c THEN c - 0 ELSE 0)
    BY <1>5
  <2>2. Len(p) = (IF n - c > 0 THEN n - c ELSE 0)
    BY <1>6
  <2>3. Len(w) = Len(u) + Len(p)
    BY <1>7
  <2>4. c \in Nat
    BY <1>4
  <2> QED
    BY ONLY <2>1, <2>2, <2>3, <2>4, PaddedLength, n \in Nat
<1>9. t \in Seq(Cell) /\ Len(t) = n /\ \A k \in 1 .. n : t[k] = IF k <= Len(s) THEN s[k] ELSE Null
  BY DEF ForceList
<1>10. ASSUME NEW k \in 1 .. n PROVE t[k] = w[k]
  <2>1. CASE k <= Len(u)
    <3>1. k \in 1 .. Len(u) /\ 0 + k = k /\ k <= Len(s)
      BY ONLY <1>4, <1>5, <1>7, <2>1, k \in 1 .. n, n \in Nat
    <3> QED
      BY <1>5, <1>7, <1>8, <1>9, <2>1, <3>1
  <2>2. CASE ~(k <= Len(u))
    <3>1. k - Len(u) \in 1 .. Len(p) /\ ~(k <= Len(s))
      BY ONLY <1>4, <1>5, <1>7, <1>8, <2>2, k \in 1 .. n, n \in Nat
    <3> QED
      BY <1>6, <1>7, <1>8, <1>9, <2>2, <3>1
  <2> QED
    BY <2>1, <2>2
<1>11. Same(t, w)
  BY <1>7, <1>8, <1>9, <1>10 DEF Same
<1> QED
  BY <1>1, <1>2, <1>3, <1>11, SameSeq

LEMMA SetSizePromised ==
  ASSUME ListsInv, Regular, NEW l \in Names, list_setsize(l)
  PROVE  Promised!SetSize
<1> PICK s : s = Con(arrays[l])
  OBVIOUS
<1>1. PICK n \in Nat : \E t : ForceList(s, n, t) /\ Acts("size=", l, <<n>>, t, Null)
  BY SetSizeDoes
<1>2. PICK t : ForceList(s, n, t) /\ Acts("size=", l, <<n>>, t, Null)
  BY <1>1
<1>3. Promised!Does("size=", t) /\ Promised!This = s /\ Promised!Args = <<n>>
  BY <1>2, PromisedCall
<1>4. Promised!Args[1] = n
  BY <1>3
<1>5. t = Promised!Part(s, 0, n) \o Promised!Copies(Null, n - Len(s))
  BY <1>2, ListIs, PaddedIs
<1> QED
  BY <1>3, <1>4, <1>5 DEF Promised!SetSize

LEMMA ResizePromised ==
  ASSUME ListsInv, Regular, NEW l \in Names, list_forcesize(l)
  PROVE  Promised!Resize
<1> PICK s : s = Con(arrays[l])
  OBVIOUS
<1>1. PICK n \in Nat : \E t : ForceList(s, n, t) /\ Acts("Resize", l, <<n>>, t, Null)
  BY ForceSizeDoes
<1>2. PICK t : ForceList(s, n, t) /\ Acts("Resize", l, <<n>>, t, Null)
  BY <1>1
<1>3. Promised!Does("Resize", t) /\ Promised!This = s /\ Promised!Args = <<n>>
  BY <1>2, PromisedCall
<1>4. Promised!Args[1] = n
  BY <1>3
<1>5. t = Promised!Part(s, 0, n) \o Promised!Copies(Null, n - Len(s))
  BY <1>2, ListIs, PaddedIs
<1> QED
  BY <1>3, <1>4, <1>5 DEF Promised!Resize

LEMMA EachPromised ==
  ASSUME ListsInv, Regular, NEW l \in Names, list_each_get(l)
  PROVE  Promised!Each
<1> PICK s : s = Con(arrays[l])
  OBVIOUS
<1>1. PICK n \in Nat : Acts("Each", l, <<n>>, s, IF n < Len(s) THEN <<n, s[n + 1]>> ELSE Null)
  BY EachDoes
<1>2. PICK ans : ans = IF n < Len(s) THEN <<n, s[n + 1]>> ELSE Null
  OBVIOUS
<1>3. Promised!Does("Each", s) /\ Promised!Gives(ans) /\ Promised!This = s /\ Promised!Args = <<n>>
  BY <1>1, <1>2, PromisedCall
<1>4. Promised!Args[1] = n
  BY <1>3
<1> QED
  BY <1>2, <1>3, <1>4 DEF Promised!Each, Promised!Looks

LEMMA ReversePromised ==
  ASSUME ListsInv, Regular, NEW l \in Names, list_reverse(l)
  PROVE  Promised!Backward
<1> PICK s : s = Con(arrays[l])
  OBVIOUS
<1>1. PICK t : ReverseList(s, t) /\ Acts("Reverse", l, <<>>, t, Null)
  BY ReverseDoes
<1>2. s \in Seq(Cell)
  BY ListIs
<1>3. PICK r : r = Reverse(s)
  OBVIOUS
<1>4. r \in Seq(Cell) /\ Len(r) = Len(s) /\ \A i \in 1 .. Len(s) : r[i] = s[Len(s) + 1 - i]
  BY <1>2, <1>3, ReverseIs
<1>5. Same(t, r)
  BY <1>1, <1>4 DEF ReverseList, Same
<1>6. t = Reverse(s)
  BY <1>3, <1>5, SameSeq
<1>7. Promised!Does("Reverse", t) /\ Promised!This = s
  BY <1>1, PromisedCall
<1> QED
  BY <1>6, <1>7 DEF Promised!Backward, Promised!Reverse, Reverse

LEMMA MergePromised ==
  ASSUME ListsInv, Regular, NEW l \in Names, list_merge(l)
  PROVE  Promised!Merge
<1> PICK s : s = Con(arrays[l])
  OBVIOUS
<1>1. PICK m \in Names : \E t : AppendList(s, Con(arrays[m]), t) /\ Acts("Merge", l, <<m>>, t, Null)
  BY MergeDoes
<1>2. PICK t : AppendList(s, Con(arrays[m]), t) /\ Acts("Merge", l, <<m>>, t, Null)
  BY <1>1
<1>3. PICK u : u = Con(arrays[m])
  OBVIOUS
<1>4. t = s \o u
  BY <1>2, <1>3, ListIs, AppendSame
<1>5. Promised!Does("Merge", t) /\ Promised!This = s /\ Promised!Args = <<m>> /\ Contents[m] = u
  BY <1>2, <1>3, PromisedCall
<1>6. Promised!Args[1] = m
  BY <1>5
<1> QED
  BY <1>4, <1>5, <1>6 DEF Promised!Merge

LEMMA SubbedIs ==
  ASSUME NEW s \in Seq(Cell), NEW u \in Seq(Cell), NEW pos \in Nat, NEW n \in Nat, NEW pos2 \in Nat, NEW n2 \in Nat,
         pos + n <= Len(s), pos2 + n2 <= Len(u), NEW t, SubList(s, pos, n, u, pos2, n2, t)
  PROVE  t = Promised!Replaced(s, pos, n, Promised!Part(u, pos2, n2))
<1> PICK vs : vs = Promised!Part(u, pos2, n2)
  OBVIOUS
<1> PICK w : w = Promised!Replaced(s, pos, n, vs)
  OBVIOUS
<1> PICK c : c = Len(s)
  OBVIOUS
<1>1. vs \in Seq(Cell) /\ Len(vs) = n2 /\ \A k \in 1 .. n2 : vs[k] = u[pos2 + k]
  BY PartsAre
<1>2. ReplacedAs(s, vs, pos, n, w)
  BY <1>1, ReplacedNamed
<1>3. c \in Nat /\ pos + n <= c
  OBVIOUS
<1>4. Lesser(pos, Len(s)) = pos
  BY <1>3 DEF Lesser
<1>5. /\ w \in Seq(Cell) /\ Len(w) = pos + n2 + (c - pos - n)
      /\ \A k \in 1 .. Len(w) :
           w[k] = IF k <= pos THEN s[k] ELSE IF k <= pos + n2 THEN vs[k - pos] ELSE s[k - pos - n2 + pos + n]
  BY <1>1, <1>2, <1>4 DEF ReplacedAs
<1>6. /\ t \in Seq(Cell) /\ Len(t) = c - n + n2
      /\ \A k \in 1 .. Len(t) : t[k] = IF k <= pos THEN s[k] ELSE IF k <= pos + n2 THEN u[pos2 + (k - pos)] ELSE s[k - n2 + n]
  BY DEF SubList
<1>7. Len(t) = Len(w)
  BY ONLY <1>3, <1>5, <1>6, pos \in Nat, n \in Nat, n2 \in Nat
<1>8. ASSUME NEW k \in 1 .. Len(w) PROVE t[k] = w[k]
  <2>1. k \in Nat /\ k >= 1
    BY <1>5
  <2>2. k - pos - n2 + pos + n = k - n2 + n
    BY ONLY <2>1, pos \in Nat, n \in Nat, n2 \in Nat
  <2>3. ~(k <= pos) /\ k <= pos + n2 => k - pos \in 1 .. n2
    BY ONLY <2>1, pos \in Nat, n2 \in Nat
  <2> QED
    BY <1>1, <1>5, <1>6, <1>7, <2>2, <2>3
<1>9. Same(t, w)
  BY <1>5, <1>6, <1>7, <1>8 DEF Same
<1> QED
  BY <1>9, SameSeq

LEMMA SubPromised ==
  ASSUME ListsInv, Regular, NEW l \in Names, list_sub(l)
  PROVE  Promised!Sub
<1>1. PICK m \in Names : \E p \in Int, n \in Nat : \E p2 \in Int, n2 \in Nat : \E t :
        /\ At(Con(arrays[l]), p) \in 0 .. Len(Con(arrays[l])) /\ n <= Len(Con(arrays[l])) - At(Con(arrays[l]), p)
        /\ At(Con(arrays[m]), p2) \in 0 .. Len(Con(arrays[m])) /\ n2 <= Len(Con(arrays[m])) - At(Con(arrays[m]), p2)
        /\ SubList(Con(arrays[l]), At(Con(arrays[l]), p), n, Con(arrays[m]), At(Con(arrays[m]), p2), n2, t)
        /\ Acts("Sub", l, <<p, n, m, p2, n2>>, t, Null)
  BY SubDoes
<1>2. PICK s : s = Con(arrays[l])
  OBVIOUS
<1>3. PICK u : u = Con(arrays[m])
  OBVIOUS
<1>4. \E p \in Int, n \in Nat : \E p2 \in Int, n2 \in Nat : \E t :
        /\ At(s, p) \in 0 .. Len(s) /\ n <= Len(s) - At(s, p)
        /\ At(u, p2) \in 0 .. Len(u) /\ n2 <= Len(u) - At(u, p2)
        /\ SubList(s, At(s, p), n, u, At(u, p2), n2, t)
        /\ Acts("Sub", l, <<p, n, m, p2, n2>>, t, Null)
  BY ONLY <1>1, <1>2, <1>3
<1>5. PICK p \in Int, n \in Nat : \E p2 \in Int, n2 \in Nat : \E t :
        /\ At(s, p) \in 0 .. Len(s) /\ n <= Len(s) - At(s, p)
        /\ At(u, p2) \in 0 .. Len(u) /\ n2 <= Len(u) - At(u, p2)
        /\ SubList(s, At(s, p), n, u, At(u, p2), n2, t)
        /\ Acts("Sub", l, <<p, n, m, p2, n2>>, t, Null)
  BY ONLY <1>4
<1>6. PICK p2 \in Int, n2 \in Nat : \E t :
        /\ At(s, p) \in 0 .. Len(s) /\ n <= Len(s) - At(s, p)
        /\ At(u, p2) \in 0 .. Len(u) /\ n2 <= Len(u) - At(u, p2)
        /\ SubList(s, At(s, p), n, u, At(u, p2), n2, t)
        /\ Acts("Sub", l, <<p, n, m, p2, n2>>, t, Null)
  BY ONLY <1>5
<1>7. PICK t : /\ At(s, p) \in 0 .. Len(s) /\ n <= Len(s) - At(s, p)
               /\ At(u, p2) \in 0 .. Len(u) /\ n2 <= Len(u) - At(u, p2)
               /\ SubList(s, At(s, p), n, u, At(u, p2), n2, t)
               /\ Acts("Sub", l, <<p, n, m, p2, n2>>, t, Null)
  BY ONLY <1>6
<1>8. PICK pos : pos = At(s, p)
  OBVIOUS
<1>9. PICK pos2 : pos2 = At(u, p2)
  OBVIOUS
<1>10. /\ pos \in 0 .. Len(s) /\ n <= Len(s) - pos /\ pos2 \in 0 .. Len(u) /\ n2 <= Len(u) - pos2
       /\ SubList(s, pos, n, u, pos2, n2, t) /\ Acts("Sub", l, <<p, n, m, p2, n2>>, t, Null)
  BY <1>7, <1>8, <1>9
<1>11. s \in Seq(Cell) /\ Len(s) \in Nat /\ u \in Seq(Cell) /\ Len(u) \in Nat
  BY <1>2, <1>3, ListIs
<1>12. pos \in Nat /\ pos2 \in Nat /\ pos + n <= Len(s) /\ pos2 + n2 <= Len(u)
  BY ONLY <1>10, <1>11, n \in Nat, n2 \in Nat
<1>17. t = Promised!Replaced(s, pos, n, Promised!Part(u, pos2, n2))
  BY <1>10, <1>11, <1>12, SubbedIs
<1>18. Promised!Does("Sub", t) /\ Promised!This = s /\ Promised!Args = <<p, n, m, p2, n2>> /\ Contents[m] = u
  BY <1>2, <1>3, <1>10, PromisedCall
<1>19. Promised!Args[1] = p /\ Promised!Args[2] = n /\ Promised!Args[3] = m /\ Promised!Args[4] = p2 /\ Promised!Args[5] = n2
  BY <1>18
<1>20. Promised!FromEnd(s, p) = pos /\ Promised!FromEnd(u, p2) = pos2
  BY <1>8, <1>9 DEF Promised!FromEnd, At
<1> QED
  BY <1>17, <1>18, <1>19, <1>20 DEF Promised!Sub

LEMMA GivenIs ==
  ASSUME NEW given, Passed(given)
  PROVE  given \in Seq(Int) /\ Len(given) \in {0, 1, 2} /\ (given = <<>> <=> Len(given) = 0)
<1>1. Positions \subseteq Int /\ Lengths \subseteq Int
  BY DEF Positions, Lengths
<1>2. CASE given = <<>>
  BY <1>2
<1>3. ASSUME NEW p \in Positions, given = <<p>>
      PROVE  given \in Seq(Int) /\ Len(given) \in {0, 1, 2} /\ (given = <<>> <=> Len(given) = 0)
  <2>1. <<p>> \in Seq(Int) /\ Len(<<p>>) = 1
    BY <1>1
  <2> QED
    BY ONLY <1>3, <2>1
<1>4. ASSUME NEW p \in Positions, NEW n \in Lengths, given = <<p, n>>
      PROVE  given \in Seq(Int) /\ Len(given) \in {0, 1, 2} /\ (given = <<>> <=> Len(given) = 0)
  <2>1. <<p, n>> \in Seq(Int) /\ Len(<<p, n>>) = 2
    BY <1>1
  <2> QED
    BY ONLY <1>4, <2>1
<1>5. \/ given = <<>> \/ \E p \in Positions : given = <<p>>
      \/ \E p \in Positions : \E n \in Lengths : given = <<p, n>>
  BY DEF Passed
<1> QED
  BY <1>2, <1>3, <1>4, <1>5

LEMMA ClonePromised ==
  ASSUME ListsInv, Regular, NEW l \in Names, list_clone(l)
  PROVE  Promised!Clone
<1>1. PICK from \in Names : \E given :
         /\ Passed(given) /\ PassedAt(Con(arrays[from]), given) >= 0
         /\ (IF Len(given) = 2 THEN given[2] ELSE Len(Con(arrays[from])) - PassedAt(Con(arrays[from]), given) + 1) = 0
         /\ Acts("Clone", l, <<from>> \o given, <<>>, Null)
  BY CloneDoes
<1>2. PICK s : s = Con(arrays[from])
  OBVIOUS
<1>3. PICK given : /\ Passed(given) /\ PassedAt(s, given) >= 0
                   /\ (IF Len(given) = 2 THEN given[2] ELSE Len(s) - PassedAt(s, given) + 1) = 0
                   /\ Acts("Clone", l, <<from>> \o given, <<>>, Null)
  BY <1>1, <1>2
<1>4. s \in Seq(Cell) /\ Len(s) \in Nat
  BY <1>2, ListIs
<1>5. PICK pos : pos = PassedAt(s, given)
  OBVIOUS
<1>6. pos \in Nat
  BY <1>2, <1>3, <1>5, PassedIs
<1>7. /\ Promised!Does("Clone", <<>>) /\ Promised!Args = <<from>> \o given /\ Contents[from] = s
  BY <1>2, <1>3, PromisedCall
<1>8. /\ given \in Seq(Int) /\ Len(given) \in {0, 1, 2}
      /\ (given = <<>> <=> Len(given) = 0)
  BY <1>3, GivenIs
<1>9. /\ Promised!Args[1] = from /\ Len(Promised!Args) = Len(given) + 1
      /\ \A k \in 1 .. Len(given) : Promised!Args[k + 1] = given[k]
  BY <1>7, <1>8, FirstArg
<1>10. Promised!FromEnd(s, Promised!Arg(2, 0)) = pos
  <2>1. CASE Len(given) = 0
    <3>1. pos = 0 /\ Promised!Arg(2, 0) = 0
      BY <1>5, <1>8, <1>9, <2>1 DEF PassedAt, Promised!Arg
    <3> QED
      BY <3>1 DEF Promised!FromEnd
  <2>2. CASE Len(given) \in {1, 2}
    <3>1. 1 \in 1 .. Len(given) /\ 1 + 1 = 2 /\ 2 <= Len(given) + 1 /\ given # <<>>
      BY <1>8, <2>2
    <3>2. Promised!Args[2] = given[1]
      BY <1>9, <3>1
    <3>3. pos = At(s, given[1]) /\ Promised!Arg(2, 0) = given[1]
      BY <1>5, <1>9, <3>1, <3>2 DEF PassedAt, Promised!Arg
    <3> QED
      BY <3>3 DEF Promised!FromEnd, At
  <2> QED
    BY <1>8, <2>1, <2>2
<1>11. Promised!Part(s, pos, Promised!Arg(3, Len(s) - pos)) = <<>>
  <2>1. CASE Len(given) = 2
    <3>1. 2 \in 1 .. Len(given) /\ 2 + 1 = 3 /\ 3 <= Len(given) + 1
      BY <2>1
    <3>2. Promised!Args[3] = given[2] /\ given[2] = 0
      BY <1>3, <1>9, <2>1, <3>1
    <3>3. Promised!Arg(3, Len(s) - pos) = 0
      BY <1>9, <3>1, <3>2 DEF Promised!Arg
    <3>4. PICK u : u = Promised!Part(s, pos, 0)
      OBVIOUS
    <3>5. /\ u \in Seq(Cell)
          /\ Len(u) = IF pos + 0 <= Len(s) THEN 0 ELSE IF pos <= Len(s) THEN Len(s) - pos ELSE 0
      <4>1. 0 \in Nat
        OBVIOUS
      <4> QED
        BY <1>4, <1>6, <3>4, <4>1, PartsAre
    <3>6. Len(u) = 0
      BY <1>4, <1>6, <3>5
    <3>7. u = <<>>
      BY <3>5, <3>6
    <3> QED
      BY <3>3, <3>4, <3>7
  <2>2. CASE Len(given) # 2
    <3>1. Len(s) - pos + 1 = 0
      BY <1>3, <1>5, <2>2
    <3>2. ~(3 <= Len(given) + 1)
      <4> PICK g : g = Len(given)
        OBVIOUS
      <4>1. g = 0 \/ g = 1
        BY <1>8, <2>2
      <4>2. ~(3 <= g + 1)
        BY ONLY <4>1
      <4> QED
        BY <4>2
    <3>3. Promised!Arg(3, Len(s) - pos) = Len(s) - pos
      BY <1>9, <3>2 DEF Promised!Arg
    <3>4. pos + (Len(s) - pos) <= Len(s) /\ pos + (Len(s) - pos) = Len(s)
      BY ONLY <1>4, <1>6
    <3>5. PICK u : u = SubSeq(s, pos + 1, Len(s))
      OBVIOUS
    <3>6. Promised!Part(s, pos, Len(s) - pos) = u
      BY <3>4, <3>5 DEF Promised!Part
    <3>7. u \in Seq(Cell) /\ Len(u) = IF pos <= Len(s) THEN Len(s) - pos ELSE 0
      BY <1>4, <1>6, <3>5, RestIs
    <3>8. Len(u) = 0
      BY <1>4, <1>6, <3>1, <3>7
    <3>9. u = <<>>
      BY <3>7, <3>8
    <3> QED
      BY <3>3, <3>6, <3>9
  <2> QED
    BY <2>1, <2>2
<1> QED
  BY <1>7, <1>9, <1>10, <1>11 DEF Promised!Clone

FilledIs(s, x, n, v, t) == t = Promised!Overwritten(s, x, Promised!Copies(v, n))
LEMMA RepeatedIs ==
  ASSUME NEW s \in Seq(Cell), NEW x \in Nat, NEW n \in Nat, NEW v \in Cell, NEW t, RptList(s, x, n, v, t)
  PROVE  FilledIs(s, x, n, v, t)
<1> PICK vs : vs = Promised!Copies(v, n)
  OBVIOUS
<1> PICK w : w = Promised!Overwritten(s, x, vs)
  OBVIOUS
<1>1. PICK f : f = [k \in 1 .. n |-> v]
  OBVIOUS
<1>2. f \in [1 .. n -> Cell]
  BY <1>1
<1>3. f \in Seq(Cell) /\ Len(f) = n
  BY <1>2, FunSeq
<1>4. vs = f
  BY <1>1 DEF Promised!Copies
<1>5. vs \in Seq(Cell) /\ Len(vs) = n /\ \A k \in 1 .. n : vs[k] = v
  BY <1>1, <1>3, <1>4
<1>6. /\ w \in Seq(Cell) /\ Len(w) = Greater(Len(s), x + Len(vs))
      /\ \A k \in 1 .. Len(w) : w[k] = IF k > x /\ k <= x + Len(vs) THEN vs[k - x] ELSE IF k <= Len(s) THEN s[k] ELSE Null
  BY <1>5, OverwrittenIs
<1>7. /\ t \in Seq(Cell) /\ Len(t) = Greater(Len(s), x + n)
      /\ \A k \in 1 .. Len(t) : t[k] = IF k > x /\ k <= x + n THEN v ELSE IF k <= Len(s) THEN s[k] ELSE Null
  BY DEF RptList
<1>8. ASSUME NEW k \in 1 .. Len(w) PROVE t[k] = w[k]
  <2>1. k > x /\ k <= x + n => k - x \in 1 .. n
    <3>1. k \in Nat
      BY <1>6
    <3> QED
      BY ONLY <3>1, x \in Nat, n \in Nat
  <2> QED
    BY <1>5, <1>6, <1>7, <2>1
<1>9. Same(t, w)
  BY <1>5, <1>6, <1>7, <1>8 DEF Same
<1> QED
  BY <1>9, SameSeq DEF FilledIs

LEMMA FillPromised ==
  ASSUME ListsInv, Regular, NEW l \in Names, list_fill(l)
  PROVE  Promised!Fill
<1>1. PICK v \in Cell : \E p \in Int, n \in Nat : \E t :
         /\ At(Con(arrays[l]), p) >= 0 /\ RptList(Con(arrays[l]), At(Con(arrays[l]), p), n, v, t)
         /\ Acts("Fill", l, <<v>> \o <<p, n>>, t, Null)
  BY FillDoes
<1>2. PICK s : s = Con(arrays[l])
  OBVIOUS
<1>3. PICK p \in Int, n \in Nat : \E t :
         At(s, p) >= 0 /\ RptList(s, At(s, p), n, v, t) /\ Acts("Fill", l, <<v>> \o <<p, n>>, t, Null)
  BY <1>1, <1>2
<1>4. PICK t : At(s, p) >= 0 /\ RptList(s, At(s, p), n, v, t) /\ Acts("Fill", l, <<v>> \o <<p, n>>, t, Null)
  BY <1>3
<1>5. PICK x : x = At(s, p)
  OBVIOUS
<1>6. s \in Seq(Cell) /\ Len(s) \in Nat
  BY <1>2, ListIs
<1>7. x \in Nat
  <2>1. x \in Int
    BY <1>5, <1>6 DEF At
  <2> QED
    BY <1>4, <1>5, <2>1
<1>8. FilledIs(s, x, n, v, t)
  BY <1>4, <1>5, <1>6, <1>7, RepeatedIs
<1>9. Promised!Does("Fill", t) /\ Promised!This = s /\ Promised!Args = <<v>> \o <<p, n>>
  BY <1>2, <1>4, PromisedCall
<1>10. Len(Promised!Args) = 3 /\ Promised!Args[1] = v /\ Promised!Args[2] = p /\ Promised!Args[3] = n
  <2>1. PICK vs : vs = <<p, n>>
    OBVIOUS
  <2>2. vs \in Seq(Int) /\ Len(vs) = 2 /\ vs[1] = p /\ vs[2] = n
    BY <2>1
  <2>3. PICK w : w = <<v>> \o vs
    OBVIOUS
  <2>4. w[1] = v /\ Len(w) = Len(vs) + 1 /\ \A k \in 1 .. Len(vs) : w[k + 1] = vs[k]
    BY <2>2, <2>3, FirstArg
  <2>5. 1 \in 1 .. Len(vs) /\ 2 \in 1 .. Len(vs) /\ 1 + 1 = 2 /\ 2 + 1 = 3
    BY <2>2
  <2>6. w[2] = p /\ w[3] = n /\ Len(w) = 3
    BY <2>2, <2>4, <2>5
  <2> QED
    BY <1>9, <2>1, <2>3, <2>4, <2>6
<1>11. Promised!Arg(1, Null) = v /\ Promised!Arg(2, 0) = p /\ Promised!Arg(3, Len(s) - x) = n
  BY <1>10 DEF Promised!Arg
<1>12. Promised!FromEnd(s, p) = x
  BY <1>5 DEF Promised!FromEnd, At
<1> QED
  BY <1>8, <1>9, <1>11, <1>12 DEF Promised!Fill, FilledIs

IsLeast(S, x) == x \in S /\ \A y \in S : x <= y
LEMMA LeastIn ==
  ASSUME NEW S, S \subseteq Nat, S # {}
  PROVE  IsLeast(S, Min(S))
<1>1. \E x : IsLeast(S, x)
  <2> SUFFICES ASSUME ~\E x : IsLeast(S, x) PROVE FALSE
    OBVIOUS
  <2>1. PICK T : T = {n \in Nat : \A m \in 0 .. n : m \notin S}
    OBVIOUS
  <2>2. 0 \in T
    <3>1. 0 \in S => IsLeast(S, 0)
      BY DEF IsLeast
    <3>2. \A m \in 0 .. 0 : m = 0
      OBVIOUS
    <3> QED
      BY <2>1, <3>1, <3>2
  <2>3. ASSUME NEW n \in Nat, n \in T PROVE n + 1 \in T
    <3>1. \A m \in 0 .. n : m \notin S
      BY <2>1, <2>3
    <3>2. \A y \in S : n + 1 <= y
      BY <3>1
    <3>3. n + 1 \notin S
      BY <3>2 DEF IsLeast
    <3>4. \A m \in 0 .. n + 1 : m \in 0 .. n \/ m = n + 1
      OBVIOUS
    <3> QED
      BY <2>1, <3>1, <3>3, <3>4
  <2>4. Nat \subseteq T
    BY <2>2, <2>3, Induct
  <2>5. PICK x : x \in S
    OBVIOUS
  <2>6. x \in Nat /\ x \in 0 .. x
    BY <2>5
  <2> QED
    BY <2>1, <2>4, <2>5, <2>6
<1> QED
  BY <1>1 DEF IsLeast, Min

LEMMA FindPromised ==
  ASSUME ListsInv, Regular, NEW l \in Names, list_find(l)
  PROVE  Promised!Find
<1> PICK s : s = Con(arrays[l])
  OBVIOUS
<1>1. PICK v : Acts("Find", l, <<v>>, s, IF Places(s, v) = {} THEN Null ELSE Min(Places(s, v)))
  BY FindDoes
<1>2. s \in Seq(Cell) /\ Len(s) \in Nat
  BY ListIs
<1>3. PICK I : I = {i \in 1 .. Len(s) : s[i] = v}
  OBVIOUS
<1>4. PICK P : P = Places(s, v)
  OBVIOUS
<1>5. /\ \A i : i \in I <=> i \in 1 .. Len(s) /\ s[i] = v
      /\ \A k : k \in P <=> k \in 0 .. Len(s) - 1 /\ s[k + 1] = v
  BY <1>3, <1>4 DEF Places
<1>6. I \subseteq Nat /\ P \subseteq Nat
  BY <1>2, <1>5
<1>7. \A i \in I : i - 1 \in P
  <2> SUFFICES ASSUME NEW i \in I PROVE i - 1 \in P
    OBVIOUS
  <2>1. i \in 1 .. Len(s) /\ i - 1 + 1 = i /\ i - 1 \in 0 .. Len(s) - 1
    BY <1>2, <1>5
  <2> QED
    BY <1>5, <2>1
<1>8. \A k \in P : k + 1 \in I
  <2> SUFFICES ASSUME NEW k \in P PROVE k + 1 \in I
    OBVIOUS
  <2>1. k + 1 \in 1 .. Len(s)
    BY <1>2, <1>5
  <2> QED
    BY <1>5, <2>1
<1>9. (I = {} <=> P = {}) /\ (P # {} => Min(I) # 0 /\ Min(I) - 1 = Min(P))
  <2>1. I = {} <=> P = {}
    BY <1>7, <1>8
  <2>2. ASSUME P # {} PROVE Min(I) # 0 /\ Min(I) - 1 = Min(P)
    <3>1. PICK a : a = Min(I)
      OBVIOUS
    <3>2. PICK b : b = Min(P)
      OBVIOUS
    <3>3. IsLeast(I, a) /\ IsLeast(P, b)
      BY <1>6, <2>1, <2>2, <3>1, <3>2, LeastIn
    <3>4. a \in I /\ b \in P /\ a - 1 \in P /\ b + 1 \in I
      BY <1>7, <1>8, <3>3 DEF IsLeast
    <3>5. a <= b + 1 /\ b <= a - 1 /\ a \in Nat /\ b \in Nat
      BY <1>6, <3>3, <3>4 DEF IsLeast
    <3>6. a # 0 /\ a - 1 = b
      BY ONLY <3>5
    <3> QED
      BY <3>1, <3>2, <3>6
  <2> QED
    BY <2>1, <2>2
<1>10. PICK ans : ans = IF P = {} THEN Null ELSE Min(P)
  OBVIOUS
<1>11. Promised!Does("Find", s) /\ Promised!Gives(ans) /\ Promised!This = s /\ Promised!Args = <<v>>
  BY <1>1, <1>4, <1>10, PromisedCall
<1>12. Promised!Args[1] = v
  BY <1>11
<1>13. PICK at : at = Promised!SelectInSeq(s, LAMBDA w : w = v)
  OBVIOUS
<1>14. at = IF I # {} THEN Min(I) ELSE 0
  BY <1>3, <1>13 DEF Promised!SelectInSeq, Promised!Min, Min
<1>15. ans = IF at = 0 THEN Null ELSE at - 1
  BY <1>9, <1>10, <1>14
<1> QED
  BY <1>11, <1>12, <1>13, <1>15 DEF Promised!Find, Promised!Looks

Times(s, v) == Cardinality({k \in DOMAIN s : s[k] = v})
LEMMA SameCount ==
  ASSUME NEW s, NEW v
  PROVE  Promised!Count(s, v) = Times(s, v)
BY DEF Times, Promised!Count, Promised!Cardinality, Cardinality

LEMMA ShuffledCounts ==
  ASSUME NEW s, NEW t, Shuffled(s, t), NEW v
  PROVE  Times(s, v) = Times(t, v)
<1>1. PICK p : Ordering(s, t, p)
  BY DEF Shuffled
<1>2. PICK n : n = Len(s)
  OBVIOUS
<1>3. n \in Nat /\ DOMAIN s = 1 .. n /\ DOMAIN t = 1 .. n
  BY <1>2 DEF Shuffled
<1>4. PICK S : S = {k \in 1 .. n : s[k] = v}
  OBVIOUS
<1>5. PICK T : T = {k \in 1 .. n : t[k] = v}
  OBVIOUS
<1>6. /\ p \in [1 .. n -> 1 .. n] /\ \A i, j \in 1 .. n : p[i] = p[j] => i = j
      /\ \A j \in 1 .. n : \E i \in 1 .. n : p[i] = j
      /\ \A i \in 1 .. n : t[i] = s[p[i]]
  BY <1>1, <1>2 DEF Ordering
<1>7. PICK f : f = [k \in T |-> p[k]]
  OBVIOUS
<1>8. f \in Bijection(T, S)
  <2>1. f \in [T -> S]
    BY <1>4, <1>5, <1>6, <1>7
  <2>2. \A a, b \in T : f[a] = f[b] => a = b
    BY <1>5, <1>6, <1>7
  <2>3. \A j \in S : \E a \in T : f[a] = j
    BY <1>4, <1>5, <1>6, <1>7
  <2> QED
    BY <2>1, <2>2, <2>3 DEF Bijection, Injection, Surjection, IsInjective
<1>9. ExistsBijection(T, S)
  BY <1>8 DEF ExistsBijection
<1>10. IsFiniteSet(T)
  <2>1. IsFiniteSet(1 .. n)
    BY <1>3, FS_Interval
  <2> QED
    BY <1>5, <2>1, FS_Subset
<1>11. Cardinality(S) = Cardinality(T)
  BY <1>9, <1>10, FS_Bijection
<1> QED
  BY <1>3, <1>4, <1>5, <1>11 DEF Times

LEMMA ShuffledPermuted ==
  ASSUME NEW s, NEW t, Shuffled(s, t)
  PROVE  Promised!Permuted(s, t)
<1>1. Len(s) = Len(t)
  BY DEF Shuffled
<1>2. ASSUME NEW v PROVE Promised!Count(s, v) = Promised!Count(t, v)
  BY SameCount, ShuffledCounts
<1> QED
  BY <1>1, <1>2 DEF Promised!Permuted

LEMMA RandomizePromised ==
  ASSUME ListsInv, Regular, NEW l \in Names, list_randomize(l)
  PROVE  Promised!Randomize
<1> PICK s : s = Con(arrays[l])
  OBVIOUS
<1>1. PICK t : Shuffled(s, t) /\ Acts("Randomize", l, <<>>, t, Null)
  BY RandomizeDoes
<1>2. Promised!Does("Randomize", t) /\ Promised!This = s
  BY <1>1, PromisedCall
<1>3. called'.op = "Randomize" /\ called'.list = l
  BY <1>1 DEF Acts
<1>4. Contents'[l] = t
  BY <1>1 DEF Acts, Contents, Con
<1>5. Promised!Permuted(s, t)
  BY <1>1, ShuffledPermuted
<1> QED
  BY <1>2, <1>3, <1>4, <1>5 DEF Promised!Randomize

\* A step of sorting: what the call is named says whether it is the first, or the last.
LEMMA SortingPromised ==
  ASSUME ListsInv, NEW l \in Names, NEW t, NEW op, Shuffled(Con(arrays[l]), t), Sorts(l, t),
         called' = [op |-> IF sorting' = Idle THEN "sorted" ELSE op, list |-> l, args |-> <<>>],
         op \in {"Sort", "compared"}, sorting.list = IF op = "Sort" THEN Null ELSE l
  PROVE  Promised!SortStep
<1>1. called'.op = (IF sorting' = Idle THEN "sorted" ELSE op) /\ called'.list = l
  OBVIOUS
<1>2. Contents' = [Contents EXCEPT ![l] = t]
  <2>1. Contents' = [m \in Names |-> Con(arrays'[m])] /\ Contents = [m \in Names |-> Con(arrays[m])]
    BY DEF Contents, Con
  <2>2. \A m \in Names : Con(arrays'[m]) = IF m = l THEN t ELSE Con(arrays[m])
    BY DEF Sorts
  <2> QED
    BY <2>1, <2>2
<1>3. Contents'[l] = t /\ Promised!This = Con(arrays[l])
  BY <1>1, <1>2 DEF Contents, Con, Promised!This
<1>4. Promised!Permuted(Con(arrays[l]), t)
  BY ShuffledPermuted
<1>5. sorting' = Idle => sorting'.list = Null
  BY DEF Idle
<1>6. sorting' # Idle => sorting'.list = l
  BY DEF Sorts
<1>7. Promised!ToSet(t) = ToSet(t)
  BY DEF Promised!ToSet, ToSet
<1>8. DOMAIN t = 1 .. Len(t)
  BY DEF Shuffled
<1>9. sorting' = Idle /\ Null \notin Promised!ToSet(t) => \A j, k \in DOMAIN t : j < k => Rank[t[j]] <= Rank[t[k]]
  BY <1>7, <1>8 DEF Sorts, Ascending
<1>10. CASE sorting' = Idle
  BY <1>1, <1>2, <1>3, <1>4, <1>5, <1>9, <1>10 DEF Promised!SortStep
<1>11. CASE sorting' # Idle
  BY <1>1, <1>2, <1>3, <1>4, <1>6, <1>11 DEF Promised!SortStep
<1> QED
  BY <1>10, <1>11

LEMMA SortPromised ==
  ASSUME ListsInv, Regular, NEW l \in Names, list_sort(l)
  PROVE  Promised!SortStep
<1>1. /\ sorting = Idle /\ Sorts(l, Con(arrays[l]))
      /\ called' = [op |-> IF sorting' = Idle THEN "sorted" ELSE "Sort", list |-> l, args |-> <<>>]
  BY SortDoes
<1>2. sorting.list = Null
  BY <1>1 DEF Idle
<1>3. Shuffled(Con(arrays[l]), Con(arrays[l]))
  BY ListIs, ShuffledSelf
<1> QED
  BY <1>1, <1>2, <1>3, SortingPromised

LEMMA ComparedPromised ==
  ASSUME ListsInv, Regular, Compared
  PROVE  Promised!SortStep
<1> PICK l : l = sorting.list
  OBVIOUS
<1>1. /\ l \in Names
      /\ \E t : Shuffled(Con(arrays[l]), t) /\ Sorts(l, t)
      /\ called' = [op |-> IF sorting' = Idle THEN "sorted" ELSE "compared", list |-> l, args |-> <<>>]
  BY ComparedDoes
<1>2. PICK t : Shuffled(Con(arrays[l]), t) /\ Sorts(l, t)
  BY <1>1
<1> QED
  BY <1>1, <1>2, SortingPromised

LEMMA StepsPromised ==
  ASSUME ListsInv, Regular, [Next]_vars
  PROVE  [Promised!Next]_(Promised!vars)
<1>1. CASE UNCHANGED vars
  BY <1>1 DEF vars, Promised!vars, Contents
<1> SUFFICES ASSUME Next PROVE Promised!Next
  BY <1>1
<1>2. CASE Compared
  BY <1>2, ComparedPromised DEF Promised!Next
<1>3. ASSUME NEW l \in Names, list_new(l) PROVE Promised!Next
  BY <1>3, NewPromised DEF Promised!Next
<1>4. ASSUME NEW l \in Names, list_newSized(l) PROVE Promised!Next
  BY <1>4, SizedPromised DEF Promised!Next
<1>5. ASSUME NEW l \in Names, list_append(l) PROVE Promised!Next
  BY <1>5, AppendPromised DEF Promised!Next
<1>6. ASSUME NEW l \in Names, list_prepend(l) PROVE Promised!Next
  BY <1>6, PrependPromised DEF Promised!Next
<1>7. ASSUME NEW l \in Names, list_insert(l) PROVE Promised!Next
  BY <1>7, InsertPromised DEF Promised!Next
<1>8. ASSUME NEW l \in Names, list_pop(l) PROVE Promised!Next
  BY <1>8, PopPromised DEF Promised!Next
<1>9. ASSUME NEW l \in Names, list_shift(l) PROVE Promised!Next
  BY <1>9, ShiftPromised DEF Promised!Next
<1>10. ASSUME NEW l \in Names, list_get(l) PROVE Promised!Next
  BY <1>10, GetPromised DEF Promised!Next
<1>11. ASSUME NEW l \in Names, list_set(l) PROVE Promised!Next
  BY <1>11, SetPromised DEF Promised!Next
<1>12. ASSUME NEW l \in Names, list_remove(l) PROVE Promised!Next
  BY <1>12, DeletePromised DEF Promised!Next
<1>13. ASSUME NEW l \in Names, list_removeValue(l) PROVE Promised!Next
  BY <1>13, RemoveValuePromised DEF Promised!Next
<1>14. ASSUME NEW l \in Names, list_find(l) PROVE Promised!Next
  BY <1>14, FindPromised DEF Promised!Next
<1>15. ASSUME NEW l \in Names, list_clone(l) PROVE Promised!Next
  BY <1>15, ClonePromised DEF Promised!Next
<1>16. ASSUME NEW l \in Names, list_sub(l) PROVE Promised!Next
  BY <1>16, SubPromised DEF Promised!Next
<1>17. ASSUME NEW l \in Names, list_merge(l) PROVE Promised!Next
  BY <1>17, MergePromised DEF Promised!Next
<1>18. ASSUME NEW l \in Names, list_fill(l) PROVE Promised!Next
  BY <1>18, FillPromised DEF Promised!Next
<1>19. ASSUME NEW l \in Names, list_getsize(l) PROVE Promised!Next
  BY <1>19, SizePromised DEF Promised!Next
<1>20. ASSUME NEW l \in Names, list_setsize(l) PROVE Promised!Next
  BY <1>20, SetSizePromised DEF Promised!Next
<1>21. ASSUME NEW l \in Names, list_forcesize(l) PROVE Promised!Next
  BY <1>21, ResizePromised DEF Promised!Next
<1>22. ASSUME NEW l \in Names, list_reverse(l) PROVE Promised!Next
  BY <1>22, ReversePromised DEF Promised!Next
<1>23. ASSUME NEW l \in Names, list_randomize(l) PROVE Promised!Next
  BY <1>23, RandomizePromised DEF Promised!Next
<1>24. ASSUME NEW l \in Names, list_each_get(l) PROVE Promised!Next
  BY <1>24, EachPromised DEF Promised!Next
<1>25. ASSUME NEW l \in Names, list_sort(l) PROVE Promised!Next
  BY <1>25, SortPromised DEF Promised!Next
<1> QED
  BY <1>2, <1>3, <1>4, <1>5, <1>6, <1>7, <1>8, <1>9, <1>10, <1>11, <1>12, <1>13, <1>14, <1>15, <1>16, <1>17, <1>18, <1>19, <1>20, <1>21, <1>22, <1>23, <1>24, <1>25 DEF Next

\* Every method does to its list, and answers, what the abstract specification promises, and nothing to the other
\* lists, for any lists, values, ranks and lengths; and sorting, over all its comparisons, only changes the order
\* and ends in an ascending one.
THEOREM ListsImplemented == Regular /\ Spec => ImplementsLists
<1> SUFFICES ASSUME Regular PROVE Spec => ImplementsLists
  OBVIOUS
<1>1. Init => sorting.list = Null
  BY DEF Init, Idle
<1>2. ListsInv /\ [Next]_vars => [Promised!Next]_(Promised!vars)
  BY StepsPromised
<1>3. Spec => []ListsInv
  BY ListsInductive
<1> QED
  BY <1>1, <1>2, <1>3, PTL DEF Spec, ImplementsLists, Promised!Spec
=============================================================================
