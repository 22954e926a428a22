------------------------------ MODULE SeqProofs -----------------------------
(***************************************************************************)
(* Induction over numbers, what a recursive function over them computes,   *)
(* and the sequences the specifications build with such functions.         *)
(***************************************************************************)
EXTENDS SequencesExt, SequenceTheorems, WellFoundedInduction, TLAPS

-----------------------------------------------------------------------------
(***************************************************************************)
(* Induction over numbers, for a set of them.                              *)
(***************************************************************************)
LEMMA NatWF == \E R : IsWellFoundedOn(R, Nat) /\ \A n \in Nat : n > 0 => <<n - 1, n>> \in R
<1> DEFINE R == OpToRel(<, Nat)
<1>1. IsWellFoundedOn(R, Nat)
  BY NatLessThanWellFounded
<1>2. \A n \in Nat : n > 0 => <<n - 1, n>> \in R
  BY DEF OpToRel
<1> QED
  BY <1>1, <1>2

LEMMA Induct ==
  ASSUME NEW S, 0 \in S, \A n \in Nat : n \in S => n + 1 \in S
  PROVE  Nat \subseteq S
<1>1. PICK R : IsWellFoundedOn(R, Nat) /\ \A n \in Nat : n > 0 => <<n - 1, n>> \in R
  BY NatWF
<1> SUFFICES ASSUME NEW k \in Nat, k \notin S PROVE FALSE
  OBVIOUS
<1>2. PICK T : T = Nat \ S
  OBVIOUS
<1>3. T \subseteq Nat /\ T # {}
  BY <1>2
<1>4. PICK n \in T : \A y \in T : <<y, n>> \notin R
  BY <1>1, <1>3, WFMin
<1>5. n \in Nat /\ n # 0
  BY <1>2
<1>6. n - 1 \in Nat /\ n - 1 + 1 = n
  BY ONLY <1>5
<1>7. n - 1 \notin T
  <2>1. n > 0
    BY ONLY <1>5
  <2>2. <<n - 1, n>> \in R
    BY <1>1, <1>5, <2>1
  <2> QED
    BY <1>4, <2>2
<1> QED
  BY <1>2, <1>4, <1>6, <1>7

(***************************************************************************)
(* The values of a recursive function exist: G gives the next from number  *)
(* and value.                                                              *)
(***************************************************************************)
Iterates(S, a, G, N)     == a \in S /\ G \in [Nat \X S -> S] /\ N \in Nat
Iteration(f, S, a, G, N) == f \in [0 .. N -> S] /\ f[0] = a /\ \A n \in 1 .. N : f[n] = G[<<n, f[n - 1]>>]
LEMMA Iterated ==
  ASSUME NEW S, NEW a, NEW G, NEW N, Iterates(S, a, G, N)
  PROVE  \E f : Iteration(f, S, a, G, N)
<1> USE DEF Iterates, Iteration
<1> DEFINE Starts(n, f) == f \in [0 .. n -> S] /\ f[0] = a /\ \A i \in 1 .. n : f[i] = G[<<i, f[i - 1]>>]
           T == {n \in Nat : \E f : Starts(n, f)}
<1>1. 0 \in T
  <2>1. PICK f : f = [i \in 0 .. 0 |-> a]
    OBVIOUS
  <2>2. Starts(0, f)
    BY <2>1
  <2> QED
    BY <2>2
<1>2. ASSUME NEW n \in Nat, n \in T PROVE n + 1 \in T
  <2>1. PICK f : Starts(n, f)
    BY <1>2
  <2>2. f \in [0 .. n -> S] /\ f[0] = a /\ \A i \in 1 .. n : f[i] = G[<<i, f[i - 1]>>]
    BY <2>1
  <2>3. PICK v : v = G[<<n + 1, f[n]>>]
    OBVIOUS
  <2>4. v \in S
    BY <2>2, <2>3
  <2>5. PICK g : g = [i \in 0 .. n + 1 |-> IF i <= n THEN f[i] ELSE v]
    OBVIOUS
  <2>6. g \in [0 .. n + 1 -> S] /\ g[n + 1] = v /\ \A i \in 0 .. n : g[i] = f[i]
    BY <2>2, <2>4, <2>5
  <2>7. g[0] = a
    BY <2>2, <2>6
  <2>8. ASSUME NEW i \in 1 .. n + 1 PROVE g[i] = G[<<i, g[i - 1]>>]
    <3>1. CASE i <= n
      <4>1. i \in 1 .. n /\ i \in 0 .. n /\ i - 1 \in 0 .. n
        BY ONLY <3>1, <2>8, n \in Nat
      <4> QED
        BY <2>2, <2>6, <4>1
    <3>2. CASE i = n + 1
      <4>1. i - 1 = n /\ n \in 0 .. n
        BY ONLY <3>2, n \in Nat
      <4> QED
        BY <2>3, <2>6, <3>2, <4>1
    <3> QED
      BY <3>1, <3>2
  <2> QED
    BY <2>6, <2>7, <2>8
<1> HIDE DEF T
<1>3. N \in T
  BY <1>1, <1>2, Induct
<1> QED
  BY <1>3 DEF T

-----------------------------------------------------------------------------
(***************************************************************************)
(* Sequences put behind each other.                                        *)
(***************************************************************************)
\* f[i] is s[1] \o ... \o s[i].
Grows(f, s, n)    == f[1] = s[1] /\ \A i \in 2 .. n : f[i] = f[i - 1] \o s[i]
Flattens(f, S, s) == f \in [1 .. Len(s) -> Seq(S)] /\ Grows(f, s, Len(s)) /\ FlattenSeq(s) = f[Len(s)]
LEMMA Flattened ==
  ASSUME NEW S, NEW s \in Seq(Seq(S)), Len(s) >= 1
  PROVE  \E f : Flattens(f, S, s)
<1> PICK N \in Nat : N = Len(s)
  BY LenProperties
<1> PICK G : G = [p \in Nat \X Seq(S) |-> IF p[1] \in 1 .. N THEN p[2] \o s[p[1]] ELSE <<>>]
  OBVIOUS
<1>1. G \in [Nat \X Seq(S) -> Seq(S)]
  <2>1. ASSUME NEW p \in Nat \X Seq(S) PROVE G[p] \in Seq(S)
    <3>1. p[1] \in Nat /\ p[2] \in Seq(S)
      OBVIOUS
    <3>2. p[1] \in 1 .. N => s[p[1]] \in Seq(S)
      BY ElementOfSeq
    <3> QED
      BY <3>1, <3>2, ConcatProperties, EmptySeq
  <2> QED
    BY <2>1
<1>2. <<>> \in Seq(S)
  BY EmptySeq
<1>3. PICK g : g \in [0 .. N -> Seq(S)] /\ g[0] = <<>> /\ \A n \in 1 .. N : g[n] = G[<<n, g[n - 1]>>]
  <2>1. Iterates(Seq(S), <<>>, G, N)
    BY <1>1, <1>2 DEF Iterates
  <2>2. PICK g : Iteration(g, Seq(S), <<>>, G, N)
    BY <2>1, Iterated
  <2> QED
    BY <2>2 DEF Iteration
<1>4. \A n \in 1 .. N : g[n] = g[n - 1] \o s[n]
  <2> TAKE n \in 1 .. N
  <2>1. n \in Nat /\ n - 1 \in 0 .. N
    OBVIOUS
  <2>2. <<n, g[n - 1]>> \in Nat \X Seq(S)
    BY <1>3, <2>1
  <2> QED
    BY <1>3, <2>2
<1>5. g[1] = s[1]
  <2>1. 1 \in 1 .. N /\ s[1] \in Seq(S) /\ 1 - 1 = 0
    BY ElementOfSeq
  <2>2. g[1] = g[0] \o s[1]
    BY <1>4, <2>1
  <2>3. g[1] = <<>> \o s[1]
    BY <1>3, <2>2
  <2> QED
    BY <2>1, <2>3, ConcatEmptySeq
<1> DEFINE flat(x) == x = [i \in 1 .. N |-> IF i = 1 THEN s[i] ELSE x[i - 1] \o s[i]]
<1>6. \E x : flat(x)
  <2> PICK f : f = [i \in 1 .. N |-> g[i]]
    OBVIOUS
  <2>1. \A i \in 1 .. N : i # 1 => i - 1 \in 1 .. N
    OBVIOUS
  <2>2. \A i \in 1 .. N : f[i] = IF i = 1 THEN s[i] ELSE f[i - 1] \o s[i]
    BY <1>4, <1>5, <2>1
  <2>3. flat(f)
    BY <2>2
  <2> HIDE DEF flat
  <2> QED
    BY <2>3
<1> PICK h : h = CHOOSE x : flat(x)
  OBVIOUS
<1>7. FlattenSeq(s) = h[N]
  BY DEF FlattenSeq
<1>8. flat(h)
  <2> HIDE DEF flat
  <2> QED
    BY <1>6
<1>9. h[1] = s[1] /\ \A i \in 2 .. N : h[i] = h[i - 1] \o s[i]
  <2>1. h = [i \in 1 .. N |-> IF i = 1 THEN s[i] ELSE h[i - 1] \o s[i]]
    BY <1>8
  <2>2. \A i \in 1 .. N : h[i] = IF i = 1 THEN s[i] ELSE h[i - 1] \o s[i]
    BY ONLY <2>1
  <2>3. 1 \in 1 .. N /\ \A i \in 2 .. N : i \in 1 .. N /\ i # 1
    OBVIOUS
  <2> QED
    BY ONLY <2>2, <2>3
<1>10. \A i \in 1 .. N : h[i] = g[i]
  <2> PICK T : T = {i \in Nat : i + 1 \in 1 .. N => h[i + 1] = g[i + 1]}
    OBVIOUS
  <2>1. 0 \in T
    <3>1. 0 + 1 = 1 /\ 0 \in Nat /\ h[1] = g[1]
      BY ONLY <1>5, <1>9
    <3> QED
      BY <3>1
  <2>2. ASSUME NEW i \in Nat, i \in T PROVE i + 1 \in T
    <3> SUFFICES ASSUME i + 1 + 1 \in 1 .. N PROVE h[i + 1 + 1] = g[i + 1 + 1]
      OBVIOUS
    <3> PICK j \in Nat : j = i + 1 + 1
      OBVIOUS
    <3>1. i + 1 \in 1 .. N /\ j \in 2 .. N /\ j \in 1 .. N /\ j - 1 = i + 1
      OBVIOUS
    <3>2. h[i + 1] = g[i + 1]
      BY <2>2, <3>1
    <3>3. h[j] = h[i + 1] \o s[j] /\ g[j] = g[i + 1] \o s[j]
      BY ONLY <1>4, <1>9, <3>1
    <3> QED
      BY <3>2, <3>3
  <2>3. Nat \subseteq T
    BY <2>1, <2>2, Induct
  <2> TAKE i \in 1 .. N
  <2>4. i - 1 \in Nat /\ i - 1 + 1 = i
    OBVIOUS
  <2> QED
    BY <2>3, <2>4
<1>11. h \in [1 .. N -> Seq(S)]
  <2>1. h = [i \in 1 .. N |-> g[i]]
    BY <1>8, <1>10
  <2>2. \A i \in 1 .. N : g[i] \in Seq(S)
    <3>1. \A i \in 1 .. N : i \in 0 .. N
      OBVIOUS
    <3> QED
      BY <1>3, <3>1
  <2> QED
    BY ONLY <2>1, <2>2
<1> QED
  BY <1>7, <1>9, <1>11 DEF Flattens, Grows

LEMMA FlatSame ==
  ASSUME NEW n \in Nat, NEW f, NEW g, NEW s, Grows(f, s, n), Grows(g, s, n)
  PROVE  \A i \in 1 .. n : f[i] = g[i]
<1> USE DEF Grows
<1> PICK T : T = {i \in Nat : i + 1 <= n => f[i + 1] = g[i + 1]}
  OBVIOUS
<1>1. 0 \in T
  <2>1. 0 + 1 = 1
    OBVIOUS
  <2> QED
    BY <2>1
<1>2. ASSUME NEW i \in Nat, i \in T PROVE i + 1 \in T
  <2> SUFFICES ASSUME i + 1 + 1 <= n PROVE f[i + 1 + 1] = g[i + 1 + 1]
    OBVIOUS
  <2> PICK j \in Nat : j = i + 1 + 1
    OBVIOUS
  <2>1. j \in 2 .. n /\ j - 1 = i + 1 /\ i + 1 <= n
    OBVIOUS
  <2>2. f[i + 1] = g[i + 1]
    BY <1>2, <2>1
  <2>3. f[j] = f[j - 1] \o s[j] /\ g[j] = g[j - 1] \o s[j]
    BY <2>1
  <2> QED
    BY <2>1, <2>2, <2>3
<1>3. Nat \subseteq T
  BY <1>1, <1>2, Induct
<1> TAKE i \in 1 .. n
<1>4. i - 1 \in Nat /\ i - 1 + 1 = i /\ i <= n
  OBVIOUS
<1> QED
  BY <1>3, <1>4

LEMMA FlatTyped ==
  ASSUME NEW S, NEW s \in Seq(Seq(S))
  PROVE  FlattenSeq(s) \in Seq(S) /\ (s = <<>> => FlattenSeq(s) = <<>>)
<1>1. CASE Len(s) = 0
  <2>1. s = <<>> /\ FlattenSeq(s) = s
    BY <1>1, EmptySeq DEF FlattenSeq
  <2> QED
    BY <2>1, EmptySeq
<1>2. CASE Len(s) >= 1
  <2>1. Len(s) \in 1 .. Len(s) /\ s # <<>>
    BY <1>2, LenProperties, EmptySeq
  <2>2. PICK f : f \in [1 .. Len(s) -> Seq(S)] /\ FlattenSeq(s) = f[Len(s)]
    BY <1>2, Flattened DEF Flattens
  <2> QED
    BY <2>1, <2>2
<1> QED
  BY <1>1, <1>2, LenProperties

LEMMA FlatAppend ==
  ASSUME NEW S, NEW s \in Seq(Seq(S)), NEW e \in Seq(S)
  PROVE  FlattenSeq(Append(s, e)) = FlattenSeq(s) \o e
<1> PICK Q : Q = Seq(S)
  OBVIOUS
<1> PICK t : t = Append(s, e)
  OBVIOUS
<1> PICK n \in Nat : n = Len(s)
  BY LenProperties
<1>1. t \in Seq(Seq(S)) /\ Len(t) = n + 1 /\ t[n + 1] = e /\ \A i \in 1 .. n : t[i] = s[i]
  <2>1. s \in Seq(Q) /\ e \in Q
    OBVIOUS
  <2>2. t \in Seq(Q) /\ Len(t) = n + 1 /\ t[n + 1] = e /\ \A i \in 1 .. n : t[i] = s[i]
    BY <2>1, AppendProperties
  <2> QED
    BY <2>2
<1>2. PICK h : Grows(h, t, n + 1) /\ FlattenSeq(t) = h[n + 1]
  <2>1. Len(t) >= 1
    BY <1>1
  <2>2. PICK h : Flattens(h, S, t)
    BY <1>1, <2>1, Flattened
  <2>3. Grows(h, t, Len(t)) /\ FlattenSeq(t) = h[Len(t)]
    BY <2>2 DEF Flattens
  <2>4. Len(t) = n + 1
    BY <1>1
  <2> QED
    BY ONLY <2>3, <2>4
<1>3. CASE n = 0
  <2>1. FlattenSeq(s) = <<>>
    <3>1. s = <<>>
      BY <1>3, EmptySeq
    <3> QED
      BY <3>1, FlatTyped
  <2>2. FlattenSeq(t) = e
    BY <1>1, <1>2, <1>3 DEF Grows
  <2> QED
    BY <2>1, <2>2, ConcatEmptySeq
<1>4. CASE n >= 1
  <2>1. PICK f : Flattens(f, S, s)
    BY <1>4, Flattened
  <2>2. Grows(f, s, n) /\ FlattenSeq(s) = f[n]
    BY <2>1 DEF Flattens
  <2>3. h[1] = t[1] /\ \A i \in 2 .. n + 1 : h[i] = h[i - 1] \o t[i]
    BY <1>2 DEF Grows
  <2>4. Grows(h, s, n)
    <3>1. 1 \in 1 .. n /\ \A i \in 2 .. n : i \in 2 .. n + 1 /\ i \in 1 .. n
      BY ONLY <1>4, n \in Nat
    <3>2. h[1] = s[1] /\ \A i \in 2 .. n : h[i] = h[i - 1] \o s[i]
      BY <1>1, <2>3, <3>1
    <3> QED
      BY <3>2 DEF Grows
  <2>5. h[n] = f[n]
    <3>1. n \in 1 .. n
      BY <1>4
    <3> QED
      BY <2>2, <2>4, <3>1, FlatSame
  <2>6. h[n + 1] = h[n] \o e
    <3>1. PICK k : k = n + 1
      OBVIOUS
    <3>2. k \in 2 .. n + 1 /\ k - 1 = n
      BY ONLY <3>1, <1>4, n \in Nat
    <3>3. h[k] = h[k - 1] \o t[k]
      BY ONLY <2>3, <3>2
    <3>4. t[k] = e
      BY <1>1, <3>1
    <3> QED
      BY ONLY <3>1, <3>2, <3>3, <3>4
  <2> QED
    BY <1>2, <2>2, <2>5, <2>6
<1> QED
  BY <1>3, <1>4
-----------------------------------------------------------------------------
(***************************************************************************)
(* What the elements of a sequence are, and that each is there once.       *)
(***************************************************************************)
\* Who is in a sequence, by index.
LEMMA ToSetIs ==
  ASSUME NEW S, NEW s \in Seq(S)
  PROVE  /\ Len(s) \in Nat /\ DOMAIN s = 1 .. Len(s)
         /\ ToSet(s) \subseteq S
         /\ \A x : x \in ToSet(s) <=> \E i \in 1 .. Len(s) : s[i] = x
         /\ \A i \in 1 .. Len(s) : s[i] \in ToSet(s)
         /\ (IsInjective(s) <=> \A i, j \in 1 .. Len(s) : s[i] = s[j] => i = j)
<1>1. Len(s) \in Nat /\ DOMAIN s = 1 .. Len(s) /\ \A i \in 1 .. Len(s) : s[i] \in S
  BY LenProperties, ElementOfSeq
<1>2. ToSet(s) = {s[i] : i \in 1 .. Len(s)}
  BY ONLY <1>1 DEF ToSet
<1>3. IsInjective(s) <=> \A i, j \in 1 .. Len(s) : s[i] = s[j] => i = j
  BY ONLY <1>1 DEF IsInjective
<1> QED
  BY <1>1, <1>2, <1>3

\* One sequence behind another.
LEMMA ConcatSet ==
  ASSUME NEW S, NEW s \in Seq(S), NEW t \in Seq(S)
  PROVE  /\ s \o t \in Seq(S) /\ ToSet(s \o t) = ToSet(s) \cup ToSet(t)
         /\ IsInjective(s) /\ IsInjective(t) /\ ToSet(s) \cap ToSet(t) = {} => IsInjective(s \o t)
<1> PICK u : u = s \o t
  OBVIOUS
<1> PICK m \in Nat : m = Len(s)
  BY LenProperties
<1> PICK n \in Nat : n = Len(t)
  BY LenProperties
<1>1. /\ u \in Seq(S) /\ Len(u) = m + n
      /\ \A i \in 1 .. m + n : u[i] = IF i <= m THEN s[i] ELSE t[i - m]
  BY ConcatProperties
<1>2. \A i \in 1 .. m + n : i <= m => i \in 1 .. m
  OBVIOUS
<1>3. \A i \in 1 .. m + n : ~(i <= m) => i - m \in 1 .. n
  OBVIOUS
<1>4. \A i \in 1 .. m : i \in 1 .. m + n /\ u[i] = s[i]
  BY <1>1
<1>5. \A i \in 1 .. n : i + m \in 1 .. m + n /\ u[i + m] = t[i]
  <2> TAKE i \in 1 .. n
  <2> PICK j : j = i + m
    OBVIOUS
  <2>1. j \in 1 .. m + n /\ ~(j <= m) /\ j - m = i
    OBVIOUS
  <2>2. u[j] = t[j - m]
    BY <1>1, <2>1
  <2> QED
    BY <2>1, <2>2
<1>6. ToSet(u) = ToSet(s) \cup ToSet(t)
  <2>1. /\ \A x : x \in ToSet(s) <=> \E i \in 1 .. m : s[i] = x
        /\ \A x : x \in ToSet(t) <=> \E i \in 1 .. n : t[i] = x
    BY ToSetIs
  <2>2. \A x : x \in ToSet(u) <=> \E i \in 1 .. m + n : u[i] = x
    <3>1. \A x : x \in ToSet(u) <=> \E i \in 1 .. Len(u) : u[i] = x
      BY ONLY <1>1, ToSetIs
    <3> QED
      BY ONLY <1>1, <3>1
  <2>3. ASSUME NEW i \in 1 .. m + n PROVE u[i] \in ToSet(s) \cup ToSet(t)
    <3>1. CASE i <= m
      BY <1>1, <1>2, <2>1, <3>1
    <3>2. CASE ~(i <= m)
      <4>1. u[i] = t[i - m] /\ i - m \in 1 .. n
        BY <1>1, <1>3, <3>2
      <4> QED
        BY <2>1, <4>1
    <3> QED
      BY <3>1, <3>2
  <2>4. \A i \in 1 .. m : s[i] \in ToSet(u)
    BY <1>4, <2>2
  <2>5. \A i \in 1 .. n : t[i] \in ToSet(u)
    BY <1>5, <2>2
  <2> QED
    BY ONLY <2>1, <2>2, <2>3, <2>4, <2>5
<1>7. ASSUME IsInjective(s), IsInjective(t), ToSet(s) \cap ToSet(t) = {} PROVE IsInjective(u)
  <2>1. /\ \A i, j \in 1 .. m : s[i] = s[j] => i = j
        /\ \A i, j \in 1 .. n : t[i] = t[j] => i = j
    BY <1>7, ToSetIs
  <2>2. \A i \in 1 .. m, j \in 1 .. n : s[i] # t[j]
    <3>1. (\A i \in 1 .. m : s[i] \in ToSet(s)) /\ (\A j \in 1 .. n : t[j] \in ToSet(t))
      BY ToSetIs
    <3> QED
      BY <1>7, <3>1
  <2>3. ASSUME NEW i \in 1 .. m + n, NEW j \in 1 .. m + n, u[i] = u[j] PROVE i = j
    <3>1. CASE i <= m /\ j <= m
      BY <1>1, <1>2, <2>1, <2>3, <3>1
    <3>2. CASE i <= m /\ ~(j <= m)
      BY <1>1, <1>2, <1>3, <2>2, <2>3, <3>2
    <3>3. CASE ~(i <= m) /\ j <= m
      BY <1>1, <1>2, <1>3, <2>2, <2>3, <3>3
    <3>4. CASE ~(i <= m) /\ ~(j <= m)
      <4>1. i - m \in 1 .. n /\ j - m \in 1 .. n /\ t[i - m] = t[j - m]
        BY <1>1, <1>3, <2>3, <3>4
      <4>2. i - m = j - m
        BY <2>1, <4>1
      <4> QED
        BY <4>2
    <3> QED
      BY <3>1, <3>2, <3>3, <3>4
  <2>4. \A i, j \in 1 .. Len(u) : u[i] = u[j] => i = j
    BY ONLY <1>1, <2>3
  <2> QED
    BY <1>1, <2>4, ToSetIs
<1> QED
  BY <1>1, <1>6, <1>7

\* One element.
LEMMA OneSet ==
  ASSUME NEW S, NEW x \in S
  PROVE  <<x>> \in Seq(S) /\ ToSet(<<x>>) = {x} /\ IsInjective(<<x>>)
<1> PICK s : s = <<x>>
  OBVIOUS
<1>1. s \in Seq(S) /\ Len(s) = 1 /\ s[1] = x /\ 1 .. 1 = {1}
  OBVIOUS
<1>2. ToSet(s) = {s[1]}
  <2>1. \A y : y \in ToSet(s) <=> \E i \in 1 .. Len(s) : s[i] = y
    BY ONLY <1>1, ToSetIs
  <2>2. 1 .. Len(s) = {1}
    BY <1>1
  <2> QED
    BY ONLY <1>1, <2>1, <2>2
<1>3. \A i, j \in 1 .. Len(s) : s[i] = s[j] => i = j
  BY ONLY <1>1
<1>4. IsInjective(s)
  BY <1>1, <1>3, ToSetIs
<1> QED
  BY <1>1, <1>2, <1>4

\* The same, backwards.
LEMMA ReverseSet ==
  ASSUME NEW S, NEW s \in Seq(S)
  PROVE  /\ Reverse(s) \in Seq(S) /\ ToSet(Reverse(s)) = ToSet(s)
         /\ IsInjective(s) => IsInjective(Reverse(s))
<1> PICK n \in Nat : n = Len(s)
  BY LenProperties
<1> PICK r : r = Reverse(s)
  OBVIOUS
<1>1. r = [i \in 1 .. n |-> s[(n - i) + 1]]
  BY DEF Reverse
<1>2. \A i \in 1 .. n : (n - i) + 1 \in 1 .. n /\ (n - ((n - i) + 1)) + 1 = i
  OBVIOUS
<1>3. \A i \in 1 .. n : s[i] \in S
  BY ElementOfSeq
<1>4. r \in Seq(S) /\ Len(r) = n
  <2>1. r \in [1 .. n -> S]
    BY ONLY <1>1, <1>2, <1>3
  <2> QED
    BY <2>1
<1>5. \A i \in 1 .. n : r[i] = s[(n - i) + 1]
  BY <1>1
<1>6. \A i \in 1 .. n : s[i] = r[(n - i) + 1]
  <2> TAKE i \in 1 .. n
  <2> PICK j : j = (n - i) + 1
    OBVIOUS
  <2>1. j \in 1 .. n /\ (n - j) + 1 = i
    BY <1>2
  <2> QED
    BY <1>5, <2>1
<1>7. ToSet(r) = ToSet(s)
  <2>1. \A x : x \in ToSet(s) <=> \E i \in 1 .. n : s[i] = x
    BY ToSetIs
  <2>2. \A x : x \in ToSet(r) <=> \E i \in 1 .. n : r[i] = x
    BY <1>4, ToSetIs
  <2> QED
    BY ONLY <1>2, <1>5, <1>6, <2>1, <2>2
<1>8. ASSUME IsInjective(s) PROVE IsInjective(r)
  <2>1. \A i, j \in 1 .. n : s[i] = s[j] => i = j
    BY <1>8, ToSetIs
  <2>2. ASSUME NEW i \in 1 .. n, NEW j \in 1 .. n, r[i] = r[j] PROVE i = j
    <3>1. (n - i) + 1 = (n - j) + 1
      BY <1>2, <1>5, <2>1, <2>2
    <3> QED
      BY <3>1
  <2> QED
    BY <1>4, <2>2, ToSetIs
<1> QED
  BY <1>4, <1>7, <1>8

\* No element is in two of the sequences, nor twice in one.
Disjoint(s) ==
  /\ \A i \in 1 .. Len(s) : IsInjective(s[i])
  /\ \A i, j \in 1 .. Len(s) : i # j => ToSet(s[i]) \cap ToSet(s[j]) = {}
\* All of them behind each other hold what each of them holds.
LEMMA FlatSet ==
  ASSUME NEW S, NEW s \in Seq(Seq(S)), Len(s) >= 1
  PROVE  /\ FlattenSeq(s) \in Seq(S)
         /\ \A x : x \in ToSet(FlattenSeq(s)) <=> \E i \in 1 .. Len(s) : x \in ToSet(s[i])
         /\ Disjoint(s) => IsInjective(FlattenSeq(s))
<1> PICK n \in Nat : n = Len(s)
  BY LenProperties
<1>1. PICK f : f \in [1 .. n -> Seq(S)] /\ FlattenSeq(s) = f[n]
               /\ f[1] = s[1] /\ \A i \in 2 .. n : f[i] = f[i - 1] \o s[i]
  <2>1. PICK f : Flattens(f, S, s)
    BY Flattened
  <2> QED
    BY <2>1 DEF Flattens, Grows
<1>2. \A i \in 1 .. n : s[i] \in Seq(S)
  BY ElementOfSeq
<1> DEFINE Is(m) == /\ \A x : x \in ToSet(f[m]) <=> \E i \in 1 .. m : x \in ToSet(s[i])
                    /\ Disjoint(s) => IsInjective(f[m])
           T == {m \in Nat : m + 1 <= n => Is(m + 1)}
<1>3. 0 \in T
  <2>1. 1 .. 1 = {1} /\ 0 + 1 = 1 /\ f[1] = s[1] /\ 1 \in 1 .. n
    BY <1>1
  <2>2. Is(1)
    BY <2>1 DEF Disjoint
  <2> HIDE DEF Is
  <2> QED
    BY <2>1, <2>2
<1>4. ASSUME NEW m \in Nat, m \in T PROVE m + 1 \in T
  <2> PICK k \in Nat : k = m + 1
    OBVIOUS
  <2> HIDE DEF T
  <2> SUFFICES ASSUME k + 1 <= n PROVE Is(k + 1)
    BY DEF T
  <2>1. Is(k)
    BY <1>4 DEF T
  <2> PICK l \in Nat : l = k + 1
    OBVIOUS
  <2>2. l \in 2 .. n /\ l \in 1 .. n /\ k \in 1 .. n /\ l - 1 = k
    OBVIOUS
  <2>3. f[l] = f[k] \o s[l] /\ f[k] \in Seq(S) /\ s[l] \in Seq(S)
    BY <1>1, <1>2, <2>2
  <2>4. /\ ToSet(f[l]) = ToSet(f[k]) \cup ToSet(s[l])
        /\ IsInjective(f[k]) /\ IsInjective(s[l]) /\ ToSet(f[k]) \cap ToSet(s[l]) = {} => IsInjective(f[l])
    BY <2>3, ConcatSet
  <2>5. \A x : x \in ToSet(f[k]) <=> \E i \in 1 .. k : x \in ToSet(s[i])
    BY <2>1
  <2>6. \A i : i \in 1 .. l <=> i \in 1 .. k \/ i = l
    OBVIOUS
  <2>7. \A x : x \in ToSet(f[l]) <=> \E i \in 1 .. l : x \in ToSet(s[i])
    BY ONLY <2>4, <2>5, <2>6
  <2>8. ASSUME Disjoint(s) PROVE IsInjective(f[l])
    <3>1. IsInjective(f[k]) /\ IsInjective(s[l])
      BY <2>1, <2>2, <2>8 DEF Disjoint
    <3>2. \A i \in 1 .. k : i \in 1 .. n /\ i # l
      OBVIOUS
    <3>3. \A i \in 1 .. k : ToSet(s[i]) \cap ToSet(s[l]) = {}
      BY <2>2, <2>8, <3>2 DEF Disjoint
    <3>4. ToSet(f[k]) \cap ToSet(s[l]) = {}
      BY ONLY <2>5, <3>3
    <3> QED
      BY <2>4, <3>1, <3>4
  <2> QED
    BY <2>7, <2>8
<1> HIDE DEF T, Is
<1>5. n - 1 \in T
  <2>1. n - 1 \in Nat
    OBVIOUS
  <2>2. Nat \subseteq T
    BY <1>3, <1>4, Induct
  <2> QED
    BY <2>1, <2>2
<1>6. Is(n)
  <2>1. (n - 1) + 1 <= n /\ (n - 1) + 1 = n
    OBVIOUS
  <2> QED
    BY <1>5, <2>1 DEF T
<1>7. FlattenSeq(s) \in Seq(S)
  <2>1. n \in 1 .. n
    OBVIOUS
  <2> QED
    BY <1>1, <2>1
<1> QED
  BY <1>1, <1>6, <1>7 DEF Is
=============================================================================
