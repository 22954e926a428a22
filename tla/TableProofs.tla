------------------------------ MODULE TableProofs ------------------------------
(***************************************************************************)
(* Whatever keys are set and removed, however their hashes collide and     *)
(* whenever the table grows: it holds the entries it was given and no      *)
(* others, each key where a search from its place meets it, tells each of  *)
(* them once to who goes through it, and puts the rest of a cut chain back *)
(* without a new vector of nodes.  For all sets of keys, all hashes and    *)
(* all lengths of the vector.                                              *)
(***************************************************************************)
EXTENDS Table, SeqProofs, FiniteSetTheorems

-----------------------------------------------------------------------------
(***************************************************************************)
(* The inductive invariant.  L is the number of nodes, ns the nodes, at[k] *)
(* the place where k belongs.  P holds the nodes whose key tblRemove has   *)
(* still to add again: their links say nothing any more.  Every other node *)
(* in use has a rank, its distance from the node where its key belongs.    *)
(***************************************************************************)
NodeOf(L)     == [key : Key \cup {None}, val : Val \cup {None}, next : 0 .. L]
Filled(L, ns) == {i \in 1 .. L : ns[i].key # None}
Placed(L, at) == \A k \in Key : at[k] \in Nat /\ at[k] >= 1 /\ (L >= 1 => at[k] <= L)

Vector(L, ns) ==
  /\ L \in Nat /\ ns \in [1 .. L -> NodeOf(L)]
  /\ \A i \in 1 .. L : ns[i].key = None => ns[i].next = 0

\* The nodes of a chain follow each other, and no two have the same place and rank.
Linked(ns, at, A, r) ==
  \A i \in A :
    /\ r[i] \in Nat
    /\ at[ns[i].key] \in A /\ at[ns[at[ns[i].key]].key] = at[ns[i].key]
    /\ r[i] = 0 <=> i = at[ns[i].key]
    /\ r[i] > 0 => \E j \in A : ns[j].next = i
    /\ ns[i].next # 0 => /\ ns[i].next \in A /\ r[ns[i].next] = r[i] + 1
                         /\ at[ns[ns[i].next].key] = at[ns[i].key]
Apart(ns, at, A, r) ==
  \A i, j \in A : at[ns[i].key] = at[ns[j].key] /\ r[i] = r[j] => i = j
Ranked(ns, at, A, r) == Linked(ns, at, A, r) /\ Apart(ns, at, A, r)

\* m[k] is what is found under k.
Shows(L, ns, m) ==
  /\ DOMAIN m = Key /\ m = [k \in Key |-> m[k]]
  /\ \A i \in Filled(L, ns) : ns[i].key \in Key /\ ns[i].val \in Val /\ m[ns[i].key] = <<ns[i].val>>
  /\ \A k \in Key : m[k] # <<>> => \E i \in Filled(L, ns) : ns[i].key = k
  /\ \A i, j \in Filled(L, ns) : ns[i].key = ns[j].key => i = j

Chained(L, ns, at, P, m) ==
  /\ Vector(L, ns) /\ Placed(L, at) /\ Shows(L, ns, m)
  /\ P \subseteq Filled(L, ns)
  /\ \E r : Ranked(ns, at, Filled(L, ns) \ P, r)

LEMMA Entry == ASSUME NEW v, NEW w PROVE <<v>> # <<>> /\ (<<v>> = <<w>> => v = w)
  OBVIOUS

\* An entry is added to what the nodes show, or replaces one.
Keeps(L, ns, u, x) ==
  /\ \A j \in Filled(L, u) : j # x => \E i \in Filled(L, ns) : u[j].key = ns[i].key /\ u[j].val = ns[i].val
  /\ \A i \in Filled(L, ns) : \E j \in Filled(L, u) : u[j].key = ns[i].key
  /\ \A i, j \in Filled(L, u) : u[i].key = u[j].key => i = j
LEMMA ShowsSet ==
  ASSUME NEW L, NEW ns, NEW m, NEW u, NEW x, NEW k \in Key, NEW v \in Val,
         Shows(L, ns, m), x \in Filled(L, u), u[x].key = k, u[x].val = v, Keeps(L, ns, u, x)
  PROVE  Shows(L, u, [m EXCEPT ![k] = <<v>>])
<1> PICK q : q = [m EXCEPT ![k] = <<v>>]
  OBVIOUS
<1>1. DOMAIN q = Key /\ q = [l \in Key |-> q[l]] /\ q[k] = <<v>> /\ \A l \in Key : l # k => q[l] = m[l]
  BY DEF Shows
<1>2. ASSUME NEW j \in Filled(L, u) PROVE u[j].key \in Key /\ u[j].val \in Val /\ q[u[j].key] = <<u[j].val>>
  <2>1. CASE j = x
    BY <1>1, <2>1
  <2>2. CASE j # x
    <3>1. PICK i \in Filled(L, ns) : u[j].key = ns[i].key /\ u[j].val = ns[i].val
      BY <2>2 DEF Keeps
    <3>2. u[j].key # k
      BY <2>2 DEF Keeps
    <3>3. ns[i].key \in Key /\ ns[i].val \in Val /\ m[ns[i].key] = <<ns[i].val>>
      BY DEF Shows
    <3> QED
      BY <1>1, <3>1, <3>2, <3>3
  <2> QED
    BY <2>1, <2>2
<1>3. ASSUME NEW l \in Key, q[l] # <<>> PROVE \E j \in Filled(L, u) : u[j].key = l
  <2>1. CASE l = k
    BY <2>1
  <2>2. CASE l # k
    <3>1. PICK i \in Filled(L, ns) : ns[i].key = l
      BY <1>1, <1>3, <2>2 DEF Shows
    <3> QED
      BY <3>1 DEF Keeps
  <2> QED
    BY <2>1, <2>2
<1>4. \A i, j \in Filled(L, u) : u[i].key = u[j].key => i = j
  BY DEF Keeps
<1>5. Shows(L, u, q)
  BY <1>1, <1>2, <1>3, <1>4 DEF Shows
<1> QED
  BY <1>5

\* An entry is taken out of it.
LEMMA ShowsLess ==
  ASSUME NEW L, NEW ns, NEW m, NEW u, NEW x, 
         Shows(L, ns, m), x \in Filled(L, ns), Filled(L, u) = Filled(L, ns) \ {x},
         \A i \in Filled(L, u) : u[i].key = ns[i].key /\ u[i].val = ns[i].val
  PROVE  Shows(L, u, [m EXCEPT ![ns[x].key] = <<>>])
<1> PICK k : k = ns[x].key
  OBVIOUS
<1> PICK q : q = [m EXCEPT ![k] = <<>>]
  OBVIOUS
<1>1. DOMAIN q = Key /\ q = [l \in Key |-> q[l]] /\ q[k] = <<>> /\ \A l \in Key : l # k => q[l] = m[l]
  BY DEF Shows
<1>2. ASSUME NEW j \in Filled(L, u) PROVE u[j].key \in Key /\ u[j].val \in Val /\ q[u[j].key] = <<u[j].val>>
  <2>1. ns[j].key \in Key /\ ns[j].val \in Val /\ m[ns[j].key] = <<ns[j].val>> /\ ns[j].key # k
    BY DEF Shows
  <2> QED
    BY <1>1, <2>1
<1>3. ASSUME NEW l \in Key, q[l] # <<>> PROVE \E j \in Filled(L, u) : u[j].key = l
  <2>1. l # k /\ m[l] # <<>>
    BY <1>1, <1>3
  <2>2. PICK i \in Filled(L, ns) : ns[i].key = l
    BY <2>1 DEF Shows
  <2> QED
    BY <2>1, <2>2
<1>4. \A i, j \in Filled(L, u) : u[i].key = u[j].key => i = j
  BY DEF Shows
<1>5. Shows(L, u, q)
  BY <1>1, <1>2, <1>3, <1>4 DEF Shows
<1> QED
  BY <1>5

-----------------------------------------------------------------------------
(***************************************************************************)
(* What an operation does to the ranks.                                    *)
(***************************************************************************)
LEMMA RankSame ==
  ASSUME NEW ns, NEW at, NEW A, NEW r, NEW u, Ranked(ns, at, A, r),
         \A i \in A : u[i].key = ns[i].key /\ u[i].next = ns[i].next
  PROVE  Ranked(u, at, A, r)
  BY DEF Ranked, Linked, Apart

\* A key is put where it belongs.
LEMMA RankFree ==
  ASSUME NEW ns, NEW at, NEW A, NEW r, NEW u, NEW h, Ranked(ns, at, A, r),
         h \notin A, at[u[h].key] = h, u[h].next = 0, 0 \notin A, h # 0, \A i \in A : u[i] = ns[i]
  PROVE  \E q : Ranked(u, at, A \cup {h}, q)
<1> PICK B : B = A \cup {h}
  OBVIOUS
<1> PICK q : q = [i \in B |-> IF i = h THEN 0 ELSE r[i]]
  OBVIOUS
<1>1. q[h] = 0 /\ \A i \in A : q[i] = r[i]
  OBVIOUS
<1>2. ASSUME NEW i \in B
      PROVE  /\ q[i] \in Nat
             /\ at[u[i].key] \in B /\ at[u[at[u[i].key]].key] = at[u[i].key]
             /\ q[i] = 0 <=> i = at[u[i].key]
             /\ q[i] > 0 => \E j \in B : u[j].next = i
             /\ u[i].next # 0 => /\ u[i].next \in B /\ q[u[i].next] = q[i] + 1
                                 /\ at[u[u[i].next].key] = at[u[i].key]
  <2>1. CASE i = h
    BY <1>1, <2>1
  <2>2. CASE i \in A
    BY <1>1, <2>2 DEF Ranked, Linked
  <2> QED
    BY <2>1, <2>2
<1>3. ASSUME NEW i \in B, NEW j \in B, at[u[i].key] = at[u[j].key], q[i] = q[j] PROVE i = j
  <2>1. \A l \in A : at[u[l].key] # h
    BY DEF Ranked, Linked
  <2> QED
    BY <1>1, <1>3, <2>1 DEF Ranked, Apart
<1>4. Linked(u, at, B, q) /\ Apart(u, at, B, q)
  BY <1>2, <1>3 DEF Linked, Apart
<1> QED
  BY <1>4 DEF Ranked

\* A key is put behind the one in its place, which belongs there.
Behind(ns, at, A, u, h, n) ==
  /\ h \in A /\ at[ns[h].key] = h /\ n \notin A /\ 0 \notin A /\ n # 0
  /\ at[u[n].key] = h /\ u[n].next = ns[h].next /\ u[h].key = ns[h].key /\ u[h].next = n
  /\ \A i \in A : i # h => u[i] = ns[i]
LEMMA RankBehind ==
  ASSUME NEW ns, NEW at, NEW A, NEW r, NEW u, NEW h, NEW n, Ranked(ns, at, A, r), Behind(ns, at, A, u, h, n)
  PROVE  \E q : Ranked(u, at, A \cup {n}, q)
<1> USE DEF Behind
<1> PICK B : B = A \cup {n}
  OBVIOUS
<1> PICK q : q = [i \in B |-> IF i = n THEN 1 ELSE IF at[ns[i].key] = h /\ i # h THEN r[i] + 1 ELSE r[i]]
  OBVIOUS
<1>1. q[n] = 1 /\ \A i \in A : q[i] = IF at[ns[i].key] = h /\ i # h THEN r[i] + 1 ELSE r[i]
  OBVIOUS
<1>2. \A i \in A : u[i].key = ns[i].key
  OBVIOUS
<1>3. r[h] = 0 /\ \A i \in A : r[i] \in Nat /\ (r[i] = 0 <=> i = at[ns[i].key])
  BY DEF Ranked, Linked
<1>4. ASSUME NEW i \in B
      PROVE  /\ q[i] \in Nat
             /\ at[u[i].key] \in B /\ at[u[at[u[i].key]].key] = at[u[i].key]
             /\ q[i] = 0 <=> i = at[u[i].key]
             /\ q[i] > 0 => \E j \in B : u[j].next = i
             /\ u[i].next # 0 => /\ u[i].next \in B /\ q[u[i].next] = q[i] + 1
                                 /\ at[u[u[i].next].key] = at[u[i].key]
  <2>1. CASE i = n
    <3>1. ns[h].next # 0 => /\ ns[h].next \in A /\ r[ns[h].next] = 1 /\ at[ns[ns[h].next].key] = h
      BY <1>3 DEF Ranked, Linked
    <3>2. ns[h].next # 0 => q[ns[h].next] = 2
      BY <1>1, <1>3, <3>1
    <3> QED
      BY <1>1, <1>2, <2>1, <3>1, <3>2
  <2>2. CASE i \in A
    <3>1. PICK g : g = at[ns[i].key]
      OBVIOUS
    <3>2. g \in A /\ at[ns[g].key] = g
      BY <2>2, <3>1 DEF Ranked, Linked
    <3>3. q[i] \in Nat /\ (q[i] = 0 <=> i = g)
      BY <1>1, <1>3, <2>2, <3>1
    <3>4. q[i] > 0 => \E j \in B : u[j].next = i
      <4>1. SUFFICES ASSUME q[i] > 0 PROVE \E j \in B : u[j].next = i
        OBVIOUS
      <4>2. r[i] > 0
        BY <1>3, <2>2, <3>1, <3>3, <4>1
      <4>3. PICK j \in A : ns[j].next = i
        BY <2>2, <4>2 DEF Ranked, Linked
      <4>4. CASE j = h
        BY <4>3, <4>4
      <4>5. CASE j # h
        BY <4>3, <4>5
      <4> QED
        BY <4>4, <4>5
    <3>5. u[i].next # 0 => u[i].next \in B /\ q[u[i].next] = q[i] + 1 /\ at[u[u[i].next].key] = g
      <4>1. CASE i = h
        BY <1>1, <1>3, <2>2, <3>1, <4>1
      <4>2. CASE i # h
        <5>1. SUFFICES ASSUME ns[i].next # 0 
                       PROVE  ns[i].next \in B /\ q[ns[i].next] = q[i] + 1 /\ at[u[ns[i].next].key] = g
          BY <2>2, <4>2
        <5>2. PICK j : j = ns[i].next
          OBVIOUS
        <5>3. j \in A /\ r[j] = r[i] + 1 /\ at[ns[j].key] = g
          BY <2>2, <3>1, <5>1, <5>2 DEF Ranked, Linked
        <5>4. j # h
          BY <1>3, <2>2, <5>3
        <5>5. q[j] = q[i] + 1
          BY <1>1, <1>3, <2>2, <3>1, <4>2, <5>3, <5>4
        <5> QED
          BY <1>2, <5>2, <5>3, <5>5
      <4> QED
        BY <4>1, <4>2
    <3> QED
      BY <1>2, <2>2, <3>1, <3>2, <3>3, <3>4, <3>5
  <2> QED
    BY <2>1, <2>2
<1>5. ASSUME NEW i \in B, NEW j \in B, at[u[i].key] = at[u[j].key], q[i] = q[j] PROVE i = j
  <2>1. \A a, b \in A : at[ns[a].key] = at[ns[b].key] /\ r[a] = r[b] => a = b
    BY DEF Ranked, Apart
  <2>2. \A a \in A : at[ns[a].key] = h => q[a] # 1
    BY <1>1, <1>3
  <2>3. CASE i = n
    BY <1>1, <1>2, <1>5, <2>2, <2>3
  <2>4. CASE j = n
    BY <1>1, <1>2, <1>5, <2>2, <2>4
  <2>5. CASE i \in A /\ j \in A
    <3>1. at[ns[i].key] = at[ns[j].key]
      BY <1>2, <1>5, <2>5
    <3>2. CASE at[ns[i].key] = h
      <4>1. q[i] = (IF i = h THEN 0 ELSE r[i] + 1) /\ q[j] = (IF j = h THEN 0 ELSE r[j] + 1)
        BY <1>1, <1>3, <2>5, <3>1, <3>2
      <4> QED
        BY <1>3, <1>5, <2>1, <2>5, <3>1, <4>1
    <3>3. CASE at[ns[i].key] # h
      BY <1>1, <1>5, <2>1, <2>5, <3>1, <3>3
    <3> QED
      BY <3>2, <3>3
  <2> QED
    BY <2>3, <2>4, <2>5
<1>6. Linked(u, at, B, q) /\ Apart(u, at, B, q)
  BY <1>4, <1>5 DEF Linked, Apart
<1> QED
  BY <1>6 DEF Ranked

\* A key is put where another one is, which moves away.
Instead(ns, at, A, u, h, n, b) ==
  /\ h \in A /\ b \in A /\ at[ns[h].key] # h /\ n \notin A /\ 0 \notin A /\ n # 0 /\ ns[b].next = h
  /\ at[u[h].key] = h /\ u[h].next = 0 /\ u[n] = ns[h] /\ u[b].key = ns[b].key /\ u[b].next = n
  /\ \A i \in A : i # h /\ i # b => u[i] = ns[i]
LEMMA RankInstead ==
  ASSUME NEW ns, NEW at, NEW A, NEW r, NEW u, NEW h, NEW n, NEW b, Ranked(ns, at, A, r), Instead(ns, at, A, u, h, n, b)
  PROVE  \E q : Ranked(u, at, A \cup {n}, q)
<1> USE DEF Instead
<1> PICK B : B = A \cup {n}
  OBVIOUS
<1> PICK q : q = [i \in B |-> IF i = n THEN r[h] ELSE IF i = h THEN 0 ELSE r[i]]
  OBVIOUS
<1>1. q[n] = r[h] /\ q[h] = 0 /\ \A i \in A : i # h => q[i] = r[i]
  OBVIOUS
<1>2. \A i \in A : r[i] \in Nat /\ at[ns[i].key] \in A /\ (r[i] = 0 <=> i = at[ns[i].key]) /\ at[ns[i].key] # h
  BY DEF Ranked, Linked
<1>3. r[h] = r[b] + 1 /\ at[ns[b].key] = at[ns[h].key] /\ b # h /\ h # 0
  BY <1>2 DEF Ranked, Linked
<1>4. \A i \in A : i # h => u[i].key = ns[i].key
  OBVIOUS
<1>5. \A i \in A : ns[i].next = h => i = b
  <2> TAKE i \in A
  <2>1. SUFFICES ASSUME ns[i].next = h PROVE i = b
    OBVIOUS
  <2>2. r[h] = r[i] + 1 /\ at[ns[i].key] = at[ns[h].key]
    BY <1>3, <2>1 DEF Ranked, Linked
  <2>3. r[i] = r[b]
    BY <1>2, <1>3, <2>2
  <2> QED
    BY <1>3, <2>2, <2>3 DEF Ranked, Apart
<1>6. ASSUME NEW i \in B
      PROVE  /\ q[i] \in Nat
             /\ at[u[i].key] \in B /\ at[u[at[u[i].key]].key] = at[u[i].key]
             /\ q[i] = 0 <=> i = at[u[i].key]
             /\ q[i] > 0 => \E j \in B : u[j].next = i
             /\ u[i].next # 0 => /\ u[i].next \in B /\ q[u[i].next] = q[i] + 1
                                 /\ at[u[u[i].next].key] = at[u[i].key]
  <2>1. CASE i = h
    BY <1>1, <2>1
  <2>2. CASE i = n
    <3>1. PICK g : g = at[ns[h].key]
      OBVIOUS
    <3>2. g \in A /\ g # h /\ at[ns[g].key] = g /\ r[h] > 0 /\ r[h] \in Nat
      BY <1>2, <3>1 DEF Ranked, Linked
    <3>3. u[b].next = n /\ b \in B
      OBVIOUS
    <3>4. SUFFICES ASSUME ns[h].next # 0
                   PROVE  ns[h].next \in B /\ q[ns[h].next] = r[h] + 1 /\ at[u[ns[h].next].key] = g
      BY <1>1, <1>4, <2>2, <3>1, <3>2, <3>3
    <3>5. PICK j : j = ns[h].next
      OBVIOUS
    <3>6. j \in A /\ r[j] = r[h] + 1 /\ at[ns[j].key] = g
      BY <3>1, <3>4, <3>5 DEF Ranked, Linked
    <3>7. j # h
      BY <1>2, <3>6
    <3> QED
      BY <1>1, <1>4, <3>5, <3>6, <3>7
  <2>3. CASE i \in A /\ i # h
    <3>1. PICK g : g = at[ns[i].key]
      OBVIOUS
    <3>2. g \in A /\ at[ns[g].key] = g /\ g # h
      BY <1>2, <2>3, <3>1 DEF Ranked, Linked
    <3>3. q[i] \in Nat /\ (q[i] = 0 <=> i = g)
      BY <1>1, <1>2, <2>3, <3>1
    <3>4. q[i] > 0 => \E j \in B : u[j].next = i
      <4>1. SUFFICES ASSUME r[i] > 0 PROVE \E j \in B : u[j].next = i
        BY <1>1, <2>3
      <4>2. PICK j \in A : ns[j].next = i
        BY <2>3, <4>1 DEF Ranked, Linked
      <4>3. CASE j = h
        BY <4>2, <4>3
      <4>4. CASE j # h
        BY <2>3, <4>2, <4>4
      <4> QED
        BY <4>3, <4>4
    <3>5. u[i].next # 0 => u[i].next \in B /\ q[u[i].next] = q[i] + 1 /\ at[u[u[i].next].key] = g
      <4>1. CASE i = b
        BY <1>1, <1>3, <2>3, <3>1, <4>1
      <4>2. CASE i # b
        <5>1. SUFFICES ASSUME ns[i].next # 0 
                       PROVE  ns[i].next \in B /\ q[ns[i].next] = q[i] + 1 /\ at[u[ns[i].next].key] = g
          BY <2>3, <4>2
        <5>2. PICK j : j = ns[i].next
          OBVIOUS
        <5>3. j \in A /\ r[j] = r[i] + 1 /\ at[ns[j].key] = g
          BY <2>3, <3>1, <5>1, <5>2 DEF Ranked, Linked
        <5>4. j # h
          BY <1>5, <2>3, <4>2, <5>2
        <5> QED
          BY <1>1, <1>4, <2>3, <5>2, <5>3, <5>4
      <4> QED
        BY <4>1, <4>2
    <3> QED
      BY <1>4, <2>3, <3>1, <3>2, <3>3, <3>4, <3>5
  <2> QED
    BY <2>1, <2>2, <2>3
<1>7. ASSUME NEW i \in B, NEW j \in B, at[u[i].key] = at[u[j].key], q[i] = q[j] PROVE i = j
  <2>1. \A a, c \in A : at[ns[a].key] = at[ns[c].key] /\ r[a] = r[c] => a = c
    BY DEF Ranked, Apart
  <2>2. CASE i = h \/ j = h
    <3>1. \A l \in B : l # h => at[u[l].key] # h
      BY <1>2, <1>4
    <3> QED
      BY <1>7, <2>2, <3>1
  <2>3. CASE i # h /\ j # h
    <3>1. CASE i = n /\ j \in A
      <4>1. at[ns[h].key] = at[ns[j].key] /\ r[h] = r[j]
        BY <1>1, <1>4, <1>7, <2>3, <3>1
      <4> QED
        BY <2>1, <2>3, <3>1, <4>1
    <3>2. CASE j = n /\ i \in A
      <4>1. at[ns[h].key] = at[ns[i].key] /\ r[h] = r[i]
        BY <1>1, <1>4, <1>7, <2>3, <3>2
      <4> QED
        BY <2>1, <2>3, <3>2, <4>1
    <3>3. CASE i \in A /\ j \in A
      BY <1>1, <1>4, <1>7, <2>1, <2>3, <3>3
    <3> QED
      BY <3>1, <3>2, <3>3
  <2> QED
    BY <2>2, <2>3
<1>8. Linked(u, at, B, q)
  BY ONLY <1>6 DEF Linked
<1>9. Apart(u, at, B, q)
  BY ONLY <1>7 DEF Apart
<1> QED
  BY <1>8, <1>9 DEF Ranked

\* A chain is cut before the node of some rank.
Before(ns, at, A, r, x) == {i \in A : at[ns[i].key] = at[ns[x].key] => r[i] < r[x]}
LEMMA RankCut ==
  ASSUME NEW ns, NEW at, NEW A, NEW r, NEW u, NEW x \in A, NEW B, 0 \notin A, Ranked(ns, at, A, r),
         B = Before(ns, at, A, r, x),
         \A i \in B : u[i].key = ns[i].key /\ u[i].next = (IF ns[i].next = x THEN 0 ELSE ns[i].next)
  PROVE  Ranked(u, at, B, r)
<1> PICK h : h = at[ns[x].key]
  OBVIOUS
<1>1. \A i : i \in B <=> i \in A /\ (at[ns[i].key] = h => r[i] < r[x])
  BY DEF Before
<1>2. \A i \in A : r[i] \in Nat
  BY DEF Ranked, Linked
<1>3. ASSUME NEW i \in B
      PROVE  /\ r[i] \in Nat
             /\ at[u[i].key] \in B /\ at[u[at[u[i].key]].key] = at[u[i].key]
             /\ r[i] = 0 <=> i = at[u[i].key]
             /\ r[i] > 0 => \E j \in B : u[j].next = i
             /\ u[i].next # 0 => /\ u[i].next \in B /\ r[u[i].next] = r[i] + 1
                                 /\ at[u[u[i].next].key] = at[u[i].key]
  <2>1. PICK g : g = at[ns[i].key]
    OBVIOUS
  <2>2. i \in A /\ g \in A /\ at[ns[g].key] = g /\ r[g] = 0 /\ (r[i] = 0 <=> i = g)
    BY <1>1, <2>1 DEF Ranked, Linked
  <2>3. g \in B
    BY <1>1, <1>2, <2>1, <2>2
  <2>4. r[i] > 0 => \E j \in B : u[j].next = i
    <3>1. SUFFICES ASSUME r[i] > 0 PROVE \E j \in B : u[j].next = i
      OBVIOUS
    <3>2. PICK j \in A : ns[j].next = i
      BY <2>2, <3>1 DEF Ranked, Linked
    <3>3. r[i] = r[j] + 1 /\ at[ns[j].key] = g
      BY <2>1, <2>2, <3>2 DEF Ranked, Linked
    <3>4. j \in B
      BY <1>1, <1>2, <2>1, <2>2, <3>3
    <3>5. i # x
      BY <1>1, <1>2
    <3> QED
      BY <3>2, <3>4, <3>5
  <2>5. u[i].next # 0 => u[i].next \in B /\ r[u[i].next] = r[i] + 1 /\ at[u[u[i].next].key] = g
    <3>1. SUFFICES ASSUME ns[i].next # 0, ns[i].next # x
                   PROVE  ns[i].next \in B /\ r[ns[i].next] = r[i] + 1 /\ at[u[ns[i].next].key] = g
      OBVIOUS
    <3>2. PICK j : j = ns[i].next
      OBVIOUS
    <3>3. j \in A /\ r[j] = r[i] + 1 /\ at[ns[j].key] = g
      BY <2>1, <2>2, <3>1, <3>2 DEF Ranked, Linked
    <3>4. g = h => r[j] # r[x]
      BY <3>1, <3>2, <3>3 DEF Ranked, Apart
    <3>5. g = h => r[j] < r[x]
      <4>1. g = h => r[i] < r[x]
        BY <1>1, <2>1
      <4>2. r[i] \in Nat /\ r[x] \in Nat
        BY <1>2, <2>2
      <4> QED
        BY <3>3, <3>4, <4>1, <4>2
    <3>6. j \in B
      BY <1>1, <3>3, <3>5
    <3> QED
      BY <3>2, <3>3, <3>6
  <2> QED
    BY <1>2, <2>1, <2>2, <2>3, <2>4, <2>5
<1>4. Linked(u, at, B, r)
  BY ONLY <1>3 DEF Linked
<1>5. \A i, j \in B : at[u[i].key] = at[u[j].key] /\ r[i] = r[j] => i = j
  <2> TAKE i, j \in B
  <2>1. i \in A /\ j \in A /\ u[i].key = ns[i].key /\ u[j].key = ns[j].key
    BY <1>1
  <2> QED
    BY <2>1 DEF Ranked, Apart
<1> QED
  BY <1>4, <1>5 DEF Ranked, Apart

-----------------------------------------------------------------------------
(***************************************************************************)
(* Walking a chain.                                                        *)
(***************************************************************************)
LEMMA RankBound ==
  ASSUME NEW L \in Nat, NEW ns, NEW at, NEW A, NEW r, NEW i \in A, Ranked(ns, at, A, r), A \subseteq 1 .. L
  PROVE  r[i] \in Nat /\ r[i] < L
<1> PICK c : c = r[i]
  OBVIOUS
<1>1. c \in Nat
  BY DEF Ranked, Linked
<1> PICK T : T = {q \in Nat : q <= c => \E j \in A : r[j] = c - q}
  OBVIOUS
<1>2. 0 \in T
  BY <1>1
<1>3. ASSUME NEW q \in Nat, q \in T PROVE q + 1 \in T
  <2>1. SUFFICES ASSUME q + 1 <= c PROVE \E j \in A : r[j] = c - (q + 1)
    OBVIOUS
  <2>2. PICK j \in A : r[j] = c - q
    BY <1>1, <1>3, <2>1
  <2>3. r[j] > 0
    BY <1>1, <2>1, <2>2
  <2>4. PICK b \in A : ns[b].next = j
    BY <2>3 DEF Ranked, Linked
  <2>5. r[j] = r[b] + 1 /\ r[b] \in Nat
    BY <2>4 DEF Ranked, Linked
  <2> QED
    BY <1>1, <2>1, <2>2, <2>5
<1>4. Nat \subseteq T
  BY <1>2, <1>3, Induct
<1>5. ASSUME NEW e \in 0 .. c PROVE \E j \in A : r[j] = e
  <2>1. c - e \in Nat /\ c - e <= c /\ c - (c - e) = e
    BY <1>1
  <2> QED
    BY <1>4, <2>1
<1> PICK f : f = [e \in 0 .. c |-> CHOOSE j \in A : r[j] = e]
  OBVIOUS
<1>6. \A e \in 0 .. c : f[e] \in A /\ r[f[e]] = e
  BY <1>5
<1>7. f \in Injection(0 .. c, A)
  <2>1. f \in [0 .. c -> A]
    BY <1>6
  <2> QED
    BY <1>6, <2>1 DEF Injection, IsInjective
<1>8. IsFiniteSet(1 .. L) /\ Cardinality(1 .. L) = L
  BY FS_Interval
<1>9. IsFiniteSet(A) /\ Cardinality(A) <= L
  BY <1>8, FS_Subset
<1>10. Cardinality(0 .. c) <= Cardinality(A)
  BY <1>7, <1>9, FS_Injection
<1>11. Cardinality(0 .. c) = c + 1
  <2>1. 0 \in Int /\ c \in Int /\ ~(0 > c) /\ c - 0 + 1 = c + 1
    BY <1>1
  <2> QED
    BY ONLY <2>1, FS_Interval
<1>12. Cardinality(A) \in Nat
  BY <1>9, FS_CardinalityType
<1> QED
  BY <1>1, <1>9, <1>10, <1>11, <1>12

Met(f, L, ns, h) ==
  f \in [0 .. L -> 0 .. L] /\ f[0] = h /\ \A d \in 1 .. L : f[d] = IF f[d - 1] = 0 THEN 0 ELSE ns[f[d - 1]].next
LEMMA ChainIs ==
  ASSUME NEW L, NEW ns, NEW h \in 0 .. L, Vector(L, ns), Len(ns) = L
  PROVE  Met(chain(ns, h), L, ns, h)
<1>1. L \in Nat /\ \A j \in 1 .. L : ns[j].next \in 0 .. L
  BY DEF Vector, NodeOf
<1> PICK after : after = [j \in 0 .. L |-> IF j = 0 THEN 0 ELSE ns[j].next]
  OBVIOUS
<1>2. after \in [0 .. L -> 0 .. L] /\ \A j \in 0 .. L : after[j] = IF j = 0 THEN 0 ELSE ns[j].next
  BY <1>1
<1> DEFINE met(x) == x = [d \in 0 .. L |-> IF d = 0 THEN h ELSE after[x[d - 1]]]
<1> PICK f : f = CHOOSE x : met(x)
  OBVIOUS
<1>3. chain(ns, h) = f
  BY DEF chain
<1>4. \E x : met(x)
  <2> PICK G : G = [p \in Nat \X (0 .. L) |-> after[p[2]]]
    OBVIOUS
  <2>1. G \in [Nat \X (0 .. L) -> 0 .. L]
    BY <1>2
  <2>2. Iterates(0 .. L, h, G, L)
    BY <1>1, <2>1 DEF Iterates
  <2>3. PICK g : Iteration(g, 0 .. L, h, G, L)
    BY <2>2, Iterated
  <2>4. g \in [0 .. L -> 0 .. L] /\ g[0] = h /\ \A n \in 1 .. L : g[n] = G[<<n, g[n - 1]>>]
    BY <2>3 DEF Iteration
  <2>5. \A n \in 0 .. L : n # 0 => g[n] = after[g[n - 1]]
    <3> TAKE n \in 0 .. L
    <3>1. SUFFICES ASSUME n # 0 PROVE g[n] = after[g[n - 1]]
      OBVIOUS
    <3>2. n \in 1 .. L /\ n \in Nat /\ n - 1 \in 0 .. L
      BY <1>1, <3>1
    <3>3. <<n, g[n - 1]>> \in Nat \X (0 .. L)
      BY <2>4, <3>2
    <3> QED
      BY <2>4, <3>2, <3>3
  <2>6. g = [d \in 0 .. L |-> IF d = 0 THEN h ELSE after[g[d - 1]]]
    BY <2>4, <2>5
  <2>7. met(g)
    BY <2>6
  <2> QED
    BY <2>7
<1>5. met(f)
  <2> HIDE DEF met
  <2> QED
    BY <1>4
<1>6. \A d \in 0 .. L : f[d] = IF d = 0 THEN h ELSE after[f[d - 1]]
  BY <1>5
<1>7. f[0] = h /\ \A d \in 1 .. L : f[d] = after[f[d - 1]]
  <2>1. 0 \in 0 .. L /\ \A d \in 1 .. L : d \in 0 .. L /\ d # 0
    BY <1>1
  <2> QED
    BY ONLY <1>6, <2>1
<1>8. ASSUME NEW d \in 0 .. L PROVE f[d] \in 0 .. L
  <2> PICK T : T = {n \in Nat : n <= L => f[n] \in 0 .. L}
    OBVIOUS
  <2>1. 0 \in T
    BY <1>7
  <2>2. ASSUME NEW n \in Nat, n \in T PROVE n + 1 \in T
    <3>1. SUFFICES ASSUME n + 1 <= L PROVE f[n + 1] \in 0 .. L
      OBVIOUS
    <3>2. n + 1 \in 1 .. L /\ n + 1 - 1 = n /\ f[n] \in 0 .. L
      BY <1>1, <2>2, <3>1
    <3>3. f[n + 1] = after[f[n]]
      BY ONLY <1>7, <3>2
    <3> QED
      BY <1>2, <3>2, <3>3
  <2>3. Nat \subseteq T
    BY <2>1, <2>2, Induct
  <2>4. d \in Nat /\ d <= L
    BY ONLY <1>1, <1>8
  <2>5. d \in T
    BY ONLY <2>3, <2>4
  <2> QED
    BY <2>4, <2>5
<1>9. f \in [0 .. L -> 0 .. L]
  BY <1>5, <1>8
<1>10. \A d \in 1 .. L : f[d] = IF f[d - 1] = 0 THEN 0 ELSE ns[f[d - 1]].next
  <2> TAKE d \in 1 .. L
  <2>1. d - 1 \in 0 .. L
    BY <1>1
  <2> QED
    BY <1>2, <1>7, <1>8, <2>1
<1> QED
  BY <1>3, <1>7, <1>9, <1>10 DEF Met

\* The walk from the head of a chain meets its nodes by rank, and no others.
WalkOf(L, ns, at, A, r, h, f) ==
  Ranked(ns, at, A, r) /\ A \subseteq 1 .. L /\ h \in A /\ at[ns[h].key] = h /\ L \in Nat /\ Met(f, L, ns, h)
LEMMA WalkIs ==
  ASSUME NEW L, NEW ns, NEW at, NEW A, NEW r, NEW h, NEW f, WalkOf(L, ns, at, A, r, h, f)
  PROVE  /\ \A e \in 0 .. L : f[e] # 0 => f[e] \in A /\ at[ns[f[e]].key] = h /\ r[f[e]] = e
         /\ \A i \in A : at[ns[i].key] = h => r[i] \in 0 .. L - 1 /\ f[r[i]] = i
<1> SUFFICES ASSUME Ranked(ns, at, A, r), A \subseteq 1 .. L, h \in A, at[ns[h].key] = h, L \in Nat, Met(f, L, ns, h)
             PROVE  /\ \A e \in 0 .. L : f[e] # 0 => f[e] \in A /\ at[ns[f[e]].key] = h /\ r[f[e]] = e
                    /\ \A i \in A : at[ns[i].key] = h => r[i] \in 0 .. L - 1 /\ f[r[i]] = i
  BY DEF WalkOf
<1>1. f[0] = h /\ \A d \in 1 .. L : f[d] = IF f[d - 1] = 0 THEN 0 ELSE ns[f[d - 1]].next
  BY DEF Met
<1>2. r[h] = 0
  BY DEF Ranked, Linked
<1>3. ASSUME NEW e \in 0 .. L, f[e] # 0 PROVE f[e] \in A /\ at[ns[f[e]].key] = h /\ r[f[e]] = e
  <2> PICK T : T = {n \in Nat : n <= L /\ f[n] # 0 => f[n] \in A /\ at[ns[f[n]].key] = h /\ r[f[n]] = n}
    OBVIOUS
  <2>1. 0 \in T
    BY <1>1, <1>2
  <2>2. ASSUME NEW n \in Nat, n \in T PROVE n + 1 \in T
    <3>1. SUFFICES ASSUME n + 1 <= L, f[n + 1] # 0
                   PROVE  f[n + 1] \in A /\ at[ns[f[n + 1]].key] = h /\ r[f[n + 1]] = n + 1
      OBVIOUS
    <3>2. n + 1 \in 1 .. L /\ n + 1 - 1 = n
      BY <3>1
    <3>3. f[n] # 0 /\ f[n + 1] = ns[f[n]].next
      BY <1>1, <3>1, <3>2
    <3>4. f[n] \in A /\ at[ns[f[n]].key] = h /\ r[f[n]] = n
      BY <2>2, <3>1, <3>3
    <3> QED
      BY <3>1, <3>3, <3>4 DEF Ranked, Linked
  <2>3. Nat \subseteq T
    BY <2>1, <2>2, Induct
  <2> QED
    BY <1>3, <2>3
<1>4. ASSUME NEW i \in A, at[ns[i].key] = h PROVE r[i] \in 0 .. L - 1 /\ f[r[i]] = i
  <2>1. r[i] \in Nat /\ r[i] < L
    BY RankBound
  <2> PICK T : T = {n \in Nat : n <= L => \A j \in A : at[ns[j].key] = h /\ r[j] = n => f[n] = j}
    OBVIOUS
  <2>2. 0 \in T
    BY <1>1 DEF Ranked, Linked
  <2>3. ASSUME NEW n \in Nat, n \in T PROVE n + 1 \in T
    <3>1. SUFFICES ASSUME n + 1 <= L, NEW j \in A, at[ns[j].key] = h, r[j] = n + 1 PROVE f[n + 1] = j
      OBVIOUS
    <3>2. n + 1 \in 1 .. L /\ n + 1 - 1 = n /\ n + 1 > 0 /\ n <= L
      BY <3>1
    <3>3. PICK b \in A : ns[b].next = j
      BY <3>1, <3>2 DEF Ranked, Linked
    <3>4. j # 0 /\ b # 0
      OBVIOUS
    <3>5. r[j] = r[b] + 1 /\ at[ns[b].key] = h /\ r[b] \in Nat
      BY <3>1, <3>3, <3>4 DEF Ranked, Linked
    <3>6. r[b] = n
      BY <3>1, <3>5
    <3>7. f[n] = b
      BY <2>3, <3>2, <3>5, <3>6
    <3> QED
      BY <1>1, <3>2, <3>3, <3>4, <3>7
  <2>4. Nat \subseteq T
    BY <2>2, <2>3, Induct
  <2> QED
    BY <1>4, <2>1, <2>4
<1> QED
  BY <1>3, <1>4

-----------------------------------------------------------------------------
(***************************************************************************)
(* Finding a key.                                                          *)
(***************************************************************************)
FindOf(f, L, ns, k) ==
  /\ f \in [0 .. L -> [0 .. L -> 0 .. L]]
  /\ \A n, j \in 0 .. L : f[n][j] = IF j = 0 \/ n = 0 THEN 0
                                    ELSE IF ns[j].key = k THEN j ELSE f[n - 1][ns[j].next]
LEMMA FindFunction ==
  ASSUME NEW t, NEW L, NEW ns, NEW k, t.nodes = ns, Len(ns) = L, Vector(L, ns), ns # <<>>
  PROVE  \E f : FindOf(f, L, ns, k) /\ tblFind(t, k) = f[L][tblKey2Node(t, k)]
<1>1. L \in Nat /\ \A j \in 1 .. L : ns[j].next \in 0 .. L
  BY DEF Vector, NodeOf
<1> PICK S : S = [0 .. L -> 0 .. L]
  OBVIOUS
<1> DEFINE row(n, g) == [j \in 0 .. L |-> IF j = 0 \/ n = 0 THEN 0
                                          ELSE IF ns[j].key = k THEN j ELSE g[ns[j].next]]
<1>2. \A n \in Nat, g \in S : row(n, g) \in S
  <2> TAKE n \in Nat, g \in S
  <2>1. \A j \in 0 .. L : j # 0 => j \in 1 .. L
    BY <1>1
  <2> QED
    BY <1>1, <2>1
<1>3. 0 \in 0 .. L /\ [j \in 0 .. L |-> 0] \in S
  BY <1>1
<1> DEFINE rows(x) == x = [n \in 0 .. L |-> row(n, x[n - 1])]
<1> PICK f : f = CHOOSE x : rows(x)
  OBVIOUS
<1>4. tblFind(t, k) = f[L][tblKey2Node(t, k)]
  BY DEF tblFind
<1>5. \E x : rows(x)
  <2> HIDE DEF row
  <2> PICK a : a = [j \in 0 .. L |-> 0]
    OBVIOUS
  <2> PICK G : G = [p \in Nat \X S |-> row(p[1], p[2])]
    OBVIOUS
  <2>1. \A n \in Nat, g \in S : G[<<n, g>>] = row(n, g)
    OBVIOUS
  <2>2. G \in [Nat \X S -> S]
    BY <1>2
  <2>3. Iterates(S, a, G, L)
    BY <1>1, <1>3, <2>2 DEF Iterates
  <2>4. PICK g : Iteration(g, S, a, G, L)
    BY <2>3, Iterated
  <2>5. g \in [0 .. L -> S] /\ g[0] = a /\ \A n \in 1 .. L : g[n] = G[<<n, g[n - 1]>>]
    BY <2>4 DEF Iteration
  <2>6. \A n \in 0 .. L : g[n] = row(n, g[n - 1])
    <3> TAKE n \in 0 .. L
    <3>1. CASE n = 0
      <4>1. row(n, g[n - 1]) = a
        BY <3>1 DEF row
      <4> QED
        BY <2>5, <3>1, <4>1
    <3>2. CASE n # 0
      <4>1. n \in 1 .. L /\ n \in Nat /\ n - 1 \in 0 .. L
        BY <1>1, <3>2
      <4> QED
        BY <2>1, <2>5, <4>1
    <3> QED
      BY <3>1, <3>2
  <2>7. g = [n \in 0 .. L |-> row(n, g[n - 1])]
    BY <2>5, <2>6
  <2>8. rows(g)
    BY <2>7
  <2> HIDE DEF rows
  <2> QED
    BY <2>8
<1>6. rows(f)
  <2> HIDE DEF rows
  <2> QED
    BY <1>5
<1>7. \A n \in 0 .. L : f[n] = row(n, f[n - 1])
  <2> HIDE DEF row
  <2> QED
    BY <1>6
<1>8. ASSUME NEW n \in 0 .. L PROVE f[n] \in S
  <2> HIDE DEF row, rows
  <2> PICK T : T = {i \in Nat : i <= L => f[i] \in S}
    OBVIOUS
  <2>1. 0 \in T
    <3>1. f[0] = row(0, f[0 - 1])
      BY <1>3, <1>7
    <3>2. row(0, f[0 - 1]) = [j \in 0 .. L |-> 0]
      BY DEF row
    <3> QED
      BY <1>3, <3>1, <3>2
  <2>2. ASSUME NEW i \in Nat, i \in T PROVE i + 1 \in T
    <3>1. SUFFICES ASSUME i + 1 <= L PROVE f[i + 1] \in S
      OBVIOUS
    <3>2. i + 1 \in 0 .. L /\ i + 1 - 1 = i /\ i + 1 \in Nat /\ i <= L
      BY ONLY <1>1, <3>1, i \in Nat
    <3>3. f[i + 1] = row(i + 1, f[i])
      BY ONLY <1>7, <3>2
    <3>4. f[i] \in S
      BY <2>2, <3>2
    <3>5. row(i + 1, f[i]) \in S
      BY ONLY <1>2, <3>2, <3>4
    <3> QED
      BY <3>3, <3>5
  <2>3. Nat \subseteq T
    BY <2>1, <2>2, Induct
  <2>4. n \in Nat /\ n <= L
    BY ONLY <1>1, <1>8
  <2> QED
    BY <2>3, <2>4
<1>9. f \in [0 .. L -> S]
  <2> HIDE DEF row
  <2> QED
    BY <1>6, <1>8
<1>10. \A n, j \in 0 .. L : f[n][j] = IF j = 0 \/ n = 0 THEN 0
                                      ELSE IF ns[j].key = k THEN j ELSE f[n - 1][ns[j].next]
  <2> TAKE n, j \in 0 .. L
  <2>1. f[n] = row(n, f[n - 1])
    BY ONLY <1>7, n \in 0 .. L
  <2>2. \A g : row(n, g)[j] = IF j = 0 \/ n = 0 THEN 0 ELSE IF ns[j].key = k THEN j ELSE g[ns[j].next]
    BY ONLY j \in 0 .. L
  <2> QED
    BY ONLY <2>1, <2>2
<1>11. FindOf(f, L, ns, k)
  BY <1>9, <1>10 DEF FindOf
<1> QED
  BY <1>4, <1>11

\* Only k is found, 
LEMMA FindsKey ==
  ASSUME NEW L, NEW ns, NEW k, NEW f, NEW n \in 0 .. L, NEW j \in 0 .. L, Vector(L, ns), FindOf(f, L, ns, k), f[n][j] # 0
  PROVE  f[n][j] \in 1 .. L /\ ns[f[n][j]].key = k
<1> PICK T : T = {i \in Nat : i <= L => \A l \in 0 .. L : f[i][l] # 0 => ns[f[i][l]].key = k}
  OBVIOUS
<1>1. L \in Nat /\ \A l \in 1 .. L : ns[l].next \in 0 .. L
  BY DEF Vector, NodeOf
<1>2. /\ f \in [0 .. L -> [0 .. L -> 0 .. L]]
      /\ \A i, l \in 0 .. L : f[i][l] = IF l = 0 \/ i = 0 THEN 0
                                        ELSE IF ns[l].key = k THEN l ELSE f[i - 1][ns[l].next]
  BY DEF FindOf
<1>3. 0 \in T
  <2>1. 0 \in 0 .. L
    BY <1>1
  <2> QED
    BY <1>2, <2>1
<1>4. ASSUME NEW i \in Nat, i \in T PROVE i + 1 \in T
  <2>1. SUFFICES ASSUME i + 1 <= L, NEW l \in 0 .. L, f[i + 1][l] # 0 PROVE ns[f[i + 1][l]].key = k
    OBVIOUS
  <2>2. i + 1 \in 0 .. L /\ i + 1 - 1 = i /\ i <= L
    BY <1>1, <2>1
  <2>3. f[i + 1][l] = IF l = 0 \/ i + 1 = 0 THEN 0 ELSE IF ns[l].key = k THEN l ELSE f[i][ns[l].next]
    BY <1>2, <2>2
  <2>4. l # 0 => l \in 1 .. L
    BY <1>1
  <2> QED
    BY <1>1, <1>4, <2>1, <2>2, <2>3, <2>4
<1>5. Nat \subseteq T
  BY <1>3, <1>4, Induct
<1>6. n \in Nat /\ n <= L
  BY <1>1
<1>7. ns[f[n][j]].key = k
  BY <1>5, <1>6
<1>8. f[n][j] \in 0 .. L
  BY <1>2
<1> QED
  BY <1>1, <1>7, <1>8

\* and it is found if it is there.
HeldAt(L, ns, at, A, r, k, i) ==
  /\ Vector(L, ns) /\ Ranked(ns, at, A, r) /\ A \subseteq 1 .. L
  /\ i \in A /\ ns[i].key = k /\ \A j \in A : ns[j].key = k => j = i
LEMMA FindsAll ==
  ASSUME NEW L, NEW ns, NEW at, NEW A, NEW r, NEW k, NEW f, NEW i, FindOf(f, L, ns, k), HeldAt(L, ns, at, A, r, k, i)
  PROVE  f[L][at[k]] = i
<1> USE DEF HeldAt
<1>1. L \in Nat /\ \A l \in 1 .. L : ns[l].next \in 0 .. L
  BY DEF Vector, NodeOf
<1>2. \A n, l \in 0 .. L : f[n][l] = IF l = 0 \/ n = 0 THEN 0
                                     ELSE IF ns[l].key = k THEN l ELSE f[n - 1][ns[l].next]
  BY DEF FindOf
<1> PICK c : c = r[i]
  OBVIOUS
<1> PICK h : h = at[k]
  OBVIOUS
<1>3. c \in Nat /\ c < L
  BY <1>1, RankBound
<1> PICK T : T = {q \in Nat : q <= c => \E j \in A : r[j] = c - q /\ at[ns[j].key] = h 
                                                    /\ \A n \in q + 1 .. L : f[n][j] = i}
  OBVIOUS
<1>4. 0 \in T
  <2>1. \A n \in 0 + 1 .. L : f[n][i] = i
    <3> TAKE n \in 0 + 1 .. L
    <3>1. n \in 0 .. L /\ n # 0 /\ i # 0 /\ i \in 0 .. L
      BY <1>1
    <3> QED
      BY <1>2, <3>1
  <2> QED
    BY <1>3, <2>1
<1>5. ASSUME NEW q \in Nat, q \in T PROVE q + 1 \in T
  <2>1. SUFFICES ASSUME q + 1 <= c
                 PROVE  \E j \in A : r[j] = c - (q + 1) /\ at[ns[j].key] = h /\ \A n \in q + 1 + 1 .. L : f[n][j] = i
    OBVIOUS
  <2>2. q <= c
    BY <1>3, <2>1
  <2>3. PICK j \in A : r[j] = c - q /\ at[ns[j].key] = h /\ \A n \in q + 1 .. L : f[n][j] = i
    BY <1>5, <2>2
  <2>4. r[j] > 0
    BY <1>3, <2>1, <2>3
  <2>5. PICK b \in A : ns[b].next = j
    BY <2>4 DEF Ranked, Linked
  <2>6. j # 0 /\ b # 0 /\ b \in 0 .. L
    BY <1>1
  <2>7. r[j] = r[b] + 1 /\ at[ns[b].key] = h /\ r[b] \in Nat
    BY <2>3, <2>5, <2>6 DEF Ranked, Linked
  <2>8. r[b] = c - (q + 1)
    BY <1>3, <2>3, <2>7
  <2>9. b # i
    BY <1>3, <2>1, <2>8
  <2>10. \A n \in q + 1 + 1 .. L : f[n][b] = i
    <3> TAKE n \in q + 1 + 1 .. L
    <3>1. n \in 0 .. L /\ n # 0 /\ n - 1 \in q + 1 .. L
      BY <1>1
    <3>2. ns[b].key # k
      BY <2>9
    <3> QED
      BY <1>2, <2>3, <2>5, <2>6, <3>1, <3>2
  <2> QED
    BY <2>7, <2>8, <2>10
<1>6. Nat \subseteq T
  BY <1>4, <1>5, Induct
<1>7. PICK j \in A : r[j] = 0 /\ at[ns[j].key] = h /\ \A n \in c + 1 .. L : f[n][j] = i
  <2>1. c \in T /\ c <= c /\ c - c = 0
    BY <1>3, <1>6
  <2> QED
    BY <2>1
<1>8. j = h
  BY <1>7 DEF Ranked, Linked
<1>9. L \in c + 1 .. L
  BY <1>1, <1>3
<1> QED
  BY <1>7, <1>8, <1>9

-----------------------------------------------------------------------------
(***************************************************************************)
(* The tables.                                                             *)
(***************************************************************************)
Place(t) == [k \in Key |-> tblKey2Node(t, k)]
Shaped(t, L) ==
  /\ t = [nodes |-> t.nodes, lastfree |-> t.lastfree, size |-> t.size]
  /\ Len(t.nodes) = L /\ t.nodes \in Seq(NodeOf(L))
  /\ t.lastfree \in 1 .. L + 1
  /\ t.size = Cardinality(Filled(L, t.nodes))
Fine(t, L, P, m) == Shaped(t, L) /\ Chained(L, t.nodes, Place(t), P, m)

LEMMA PlaceIs ==
  ASSUME NEW t, NEW L \in Nat, NEW S, t.nodes \in Seq(S), Len(t.nodes) = L
  PROVE  /\ availNodes(t) = IF L = 0 THEN 1 ELSE L
         /\ t.nodes = <<>> <=> L = 0
<1>1. t.nodes = <<>> <=> L = 0
  BY EmptySeq
<1> QED
  BY <1>1 DEF availNodes

LEMMA PlaceSame ==
  ASSUME NEW t, NEW u, NEW L \in Nat, NEW S, t.nodes \in Seq(S), Len(t.nodes) = L, u.nodes \in Seq(S), Len(u.nodes) = L
  PROVE  Place(u) = Place(t) 
<1>1. availNodes(u) = availNodes(t)
  BY PlaceIs
<1>2. \A k \in Key : tblKey2Node(u, k) = tblKey2Node(t, k)
  BY <1>1 DEF tblKey2Node
<1> QED
  BY <1>2 DEF Place

Hashes == hash \in [Key -> Nat]
LEMMA PlacedIs ==
  ASSUME NEW t, NEW L \in Nat, NEW S, t.nodes \in Seq(S), Len(t.nodes) = L, Hashes
  PROVE  Placed(L, Place(t))
<1>1. availNodes(t) = IF L = 0 THEN 1 ELSE L
  BY PlaceIs
<1>2. \A a \in Nat, b \in Nat \ {0} : a % b \in Nat /\ a % b < b
  OBVIOUS
<1>3. ASSUME NEW k \in Key
      PROVE  tblKey2Node(t, k) \in Nat /\ tblKey2Node(t, k) >= 1 /\ (L >= 1 => tblKey2Node(t, k) <= L)
  <2>1. PICK n \in Nat \ {0} : n = availNodes(t)
    BY <1>1
  <2>2. hash[k] \in Nat
    BY DEF Hashes
  <2>3. hash2NodeMod2(hash[k], n) \in Nat /\ hash2NodeMod2(hash[k], n) < n
    BY <1>2, <2>2 DEF hash2NodeMod2
  <2>4. PICK d : d = IF n <= 2 THEN 1 ELSE n - 1
    OBVIOUS
  <2>5. d \in Nat \ {0} /\ d <= n
    BY <2>4
  <2>6. hash[k] % d \in Nat /\ hash[k] % d < d
    BY <1>2, <2>2, <2>5
  <2>7. hash2NodeDiv(hash[k], n) \in Nat /\ hash2NodeDiv(hash[k], n) < n
    BY <2>4, <2>5, <2>6 DEF hash2NodeDiv
  <2>8. n <= L \/ L = 0
    BY <1>1, <2>1
  <2>9. PICK w \in Nat : w < n /\ tblKey2Node(t, k) = 1 + w
    BY <2>1, <2>3, <2>7 DEF tblKey2Node
  <2> QED
    BY <2>8, <2>9
<1> QED
  BY <1>3 DEF Placed, Place

\* What a fine table is made of.
LEMMA FineIs ==
  ASSUME NEW t, NEW L, NEW P, NEW m, Fine(t, L, P, m)
  PROVE  /\ L \in Nat /\ Vector(L, t.nodes) /\ DOMAIN t.nodes = 1 .. L /\ Len(t.nodes) = L /\ (t.nodes = <<>> <=> L = 0)
         /\ \A k \in Key : /\ Place(t)[k] = tblKey2Node(t, k) /\ tblKey2Node(t, k) \in Nat \ {0}
                           /\ L >= 1 => tblKey2Node(t, k) \in 1 .. L
         /\ \A i \in 1 .. L : t.nodes[i] \in NodeOf(L)
         /\ \A i \in Filled(L, t.nodes) : t.nodes[i].key \in Key
         /\ Shows(L, t.nodes, m)
         /\ 0 \notin Filled(L, t.nodes) /\ Filled(L, t.nodes) \subseteq 1 .. L
<1>1. L \in Nat /\ Vector(L, t.nodes) /\ Len(t.nodes) = L /\ Placed(L, Place(t)) /\ Shows(L, t.nodes, m) /\ t.nodes \in Seq(NodeOf(L))
  BY DEF Fine, Shaped, Chained, Vector
<1>2. DOMAIN t.nodes = 1 .. L /\ \A i \in 1 .. L : t.nodes[i] \in NodeOf(L)
  BY <1>1 DEF Vector
<1>3. \A k \in Key : Place(t)[k] = tblKey2Node(t, k)
  BY DEF Place
<1>4. \A k \in Key : tblKey2Node(t, k) \in Nat \ {0} /\ (L >= 1 => tblKey2Node(t, k) \in 1 .. L)
  BY <1>1, <1>3 DEF Placed
<1>5. t.nodes = <<>> <=> L = 0
  BY <1>1, PlaceIs
<1> QED
  BY <1>1, <1>2, <1>3, <1>4, <1>5 DEF Shows, Filled

\* What tblFind and tblGet return.
LEMMA FindIs ==
  ASSUME NEW t, NEW L, NEW m, NEW k \in Key, Fine(t, L, {}, m)
  PROVE  \/ /\ tblFind(t, k) = 0 /\ m[k] = <<>>
            /\ \A i \in Filled(L, t.nodes) : t.nodes[i].key # k
         \/ /\ tblFind(t, k) \in Filled(L, t.nodes) /\ t.nodes[tblFind(t, k)].key = k
            /\ m[k] = <<t.nodes[tblFind(t, k)].val>> /\ m[k] # <<>>
<1> PICK A : A = Filled(L, t.nodes)
  OBVIOUS
<1> PICK ns : ns = t.nodes
  OBVIOUS
<1>1. /\ L \in Nat /\ Vector(L, ns) /\ Len(ns) = L /\ (ns = <<>> <=> L = 0)
      /\ Place(t)[k] = tblKey2Node(t, k) /\ tblKey2Node(t, k) \in Nat \ {0} /\ (L >= 1 => tblKey2Node(t, k) \in 1 .. L)
      /\ Shows(L, ns, m) /\ A \subseteq 1 .. L
  BY FineIs
<1>2. CASE L = 0
  <2>1. tblFind(t, k) = 0
    BY <1>1, <1>2 DEF tblFind
  <2>2. A = {}
    BY <1>1, <1>2
  <2>3. m[k] = <<>>
    <3>1. Filled(L, ns) = {} /\ Shows(L, ns, m)
      BY <1>1, <2>2
    <3> QED
      BY ONLY <3>1, k \in Key DEF Shows
  <2> QED
    BY <2>1, <2>2, <2>3
<1>3. CASE L >= 1
  <2>1. PICK f : FindOf(f, L, ns, k) /\ tblFind(t, k) = f[L][tblKey2Node(t, k)]
    <3>1. t.nodes = ns /\ Len(ns) = L /\ Vector(L, ns) /\ ns # <<>>
      BY <1>1, <1>3
    <3> QED
      BY ONLY <3>1, FindFunction
  <2>2. L \in 0 .. L /\ tblKey2Node(t, k) \in 0 .. L
    BY <1>1, <1>3
  <2>3. CASE \E i \in A : ns[i].key = k
    <3>1. PICK i \in A : ns[i].key = k
      BY <2>3
    <3>2. \A j \in A : ns[j].key = k => j = i
      BY <1>1, <3>1 DEF Shows
    <3>3. PICK r : Ranked(ns, Place(t), A, r)
      BY DEF Fine, Chained
    <3> PICK at : at = Place(t)
      OBVIOUS
    <3>4. Ranked(ns, at, A, r)
      BY <3>3
    <3>5. f[L][at[k]] = i
      <4>1. HeldAt(L, ns, at, A, r, k, i)
        BY <1>1, <3>1, <3>2, <3>4 DEF HeldAt
      <4> QED
        BY ONLY <2>1, <4>1, FindsAll
    <3>6. tblFind(t, k) = i
      BY <1>1, <2>1, <3>5
    <3>7. m[k] = <<ns[i].val>>
      BY <1>1, <3>1 DEF Shows
    <3>8. m[k] # <<>>
      BY <3>7, Entry
    <3> QED
      BY <3>1, <3>6, <3>7, <3>8
  <2>4. CASE \A i \in A : ns[i].key # k
    <3>1. m[k] = <<>>
      BY <1>1, <2>4 DEF Shows
    <3>2. tblFind(t, k) = 0
      <4>1. SUFFICES ASSUME tblFind(t, k) # 0 PROVE FALSE
        OBVIOUS
      <4>2. PICK i : i = tblFind(t, k)
        OBVIOUS
      <4>3. i \in 1 .. L /\ ns[i].key = k
        BY <1>1, <2>1, <2>2, <4>1, <4>2, FindsKey
      <4>4. i \in A
        BY <4>3, KeysAreNotNull DEF Filled
      <4> QED
        BY <2>4, <4>3, <4>4
    <3> QED
      BY <2>4, <3>1, <3>2
  <2> QED
    BY <2>3, <2>4
<1> QED
  BY <1>1, <1>2, <1>3

LEMMA GetIs ==
  ASSUME NEW t, NEW L, NEW m, Fine(t, L, {}, m)
  PROVE  [k \in Key |-> tblGet(t, k)] = m
<1>1. \A k \in Key : tblGet(t, k) = m[k]
  <2> TAKE k \in Key
  <2>1. CASE tblFind(t, k) = 0 /\ m[k] = <<>>
    BY <2>1 DEF tblGet
  <2>2. CASE tblFind(t, k) \in Filled(L, t.nodes) /\ m[k] = <<t.nodes[tblFind(t, k)].val>>
    <3>1. tblFind(t, k) # 0
      BY <2>2, FineIs
    <3> QED
      BY <2>2, <3>1 DEF tblGet
  <2> QED
    BY <2>1, <2>2, FindIs
<1>2. m = [k \in Key |-> m[k]]
  BY DEF Fine, Chained, Shows
<1> QED
  BY <1>1, <1>2

-----------------------------------------------------------------------------
(***************************************************************************)
(* Putting a key.                                                          *)
(***************************************************************************)
LEMMA MaxIs ==
  ASSUME NEW L \in Nat, NEW S, S \subseteq 1 .. L, S # {}
  PROVE  Max(S) \in S /\ \A y \in S : y <= Max(S)
<1>1. \E x \in S : \A y \in S : x >= y
  <2>1. SUFFICES ASSUME \A x \in S : \E y \in S : ~(x >= y) PROVE FALSE
    OBVIOUS
  <2> PICK T : T = {n \in Nat : \E x \in S : x >= n}
    OBVIOUS
  <2>2. 0 \in T
    <3>1. PICK x \in S : TRUE
      OBVIOUS
    <3>2. x \in 1 .. L
      BY <3>1
    <3>3. x >= 0
      BY ONLY <3>2, L \in Nat
    <3> QED
      BY <3>1, <3>3
  <2>3. ASSUME NEW n \in Nat, n \in T PROVE n + 1 \in T
    <3>1. PICK x \in S : x >= n
      BY <2>3
    <3>2. PICK y \in S : ~(x >= y)
      BY <2>1
    <3>3. x \in Nat /\ y \in Nat /\ y >= n + 1
      BY <3>1, <3>2
    <3> QED
      BY <3>3
  <2>4. Nat \subseteq T
    BY <2>2, <2>3, Induct
  <2>5. L + 1 \in T
    BY <2>4
  <2> QED
    BY <2>5
<1>2. PICK x : x = Max(S)
  OBVIOUS
<1>3. x \in S /\ \A y \in S : x >= y
  BY <1>1, <1>2 DEF Max
<1> QED
  BY <1>2, <1>3

LEMMA MinIs ==
  ASSUME NEW S, S \subseteq Nat, S # {}
  PROVE  Min(S) \in S /\ \A y \in S : Min(S) <= y
<1>1. \E x \in S : \A y \in S : x =< y
  <2>1. SUFFICES ASSUME \A x \in S : \E y \in S : ~(x =< y) PROVE FALSE
    OBVIOUS
  <2> PICK T : T = {n \in Nat : \A x \in S : x >= n}
    OBVIOUS
  <2>2. 0 \in T
    OBVIOUS
  <2>3. ASSUME NEW n \in Nat, n \in T PROVE n + 1 \in T
    <3>1. SUFFICES ASSUME NEW x \in S PROVE x >= n + 1
      OBVIOUS
    <3>2. PICK y \in S : ~(x =< y)
      BY <2>1
    <3>3. x \in Nat /\ y \in Nat /\ y >= n
      BY <2>3
    <3> QED
      BY <3>2, <3>3
  <2>4. Nat \subseteq T
    BY <2>2, <2>3, Induct
  <2>5. PICK x \in S : x \in Nat
    OBVIOUS
  <2>6. x + 1 \in T
    BY <2>4, <2>5
  <2>7. x >= x + 1
    BY <2>5, <2>6
  <2> QED
    BY ONLY <2>5, <2>7
<1>2. PICK x : x = Min(S)
  OBVIOUS
<1>3. x \in S /\ \A y \in S : x =< y
  BY <1>1, <1>2 DEF Min
<1> QED
  BY <1>2, <1>3

\* The free node found is the last one there is before lastfree.
LEMMA LastFreeIs ==
  ASSUME NEW t, NEW L \in Nat, DOMAIN t.nodes = 1 .. L, t.lastfree \in Nat
  PROVE  \/ /\ tblLastFreeNode(t) = 0
            /\ \A i \in 1 .. L : i < t.lastfree => t.nodes[i].key # None
         \/ /\ tblLastFreeNode(t) \in 1 .. L /\ tblLastFreeNode(t) < t.lastfree
            /\ t.nodes[tblLastFreeNode(t)].key = None /\ tblLastFreeNode(t) # 0
            /\ \A i \in 1 .. L : i < t.lastfree /\ t.nodes[i].key = None => i <= tblLastFreeNode(t)
<1> PICK free : free = {i \in 1 .. L : i < t.lastfree /\ t.nodes[i].key = None}
  OBVIOUS
<1>1. tblLastFreeNode(t) = IF free = {} THEN 0 ELSE Max(free)
  BY DEF tblLastFreeNode, isFree
<1>2. CASE free = {}
  BY <1>1, <1>2
<1>3. CASE free # {}
  <2>1. Max(free) \in free /\ \A y \in free : y <= Max(free)
    BY <1>3, MaxIs
  <2>2. PICK n : n = Max(free)
    OBVIOUS
  <2>3. n \in 1 .. L /\ n < t.lastfree /\ t.nodes[n].key = None /\ n # 0
    <3>1. n \in free
      BY <2>1, <2>2
    <3>2. n \in 1 .. L /\ n < t.lastfree /\ t.nodes[n].key = None
      BY <3>1
    <3> QED
      BY <3>2
  <2>4. \A i \in 1 .. L : i < t.lastfree /\ t.nodes[i].key = None => i <= n
    BY <2>1, <2>2
  <2> QED
    BY <1>1, <1>3, <2>2, <2>3, <2>4
<1> QED
  BY <1>2, <1>3

\* Node i of the old nodes is node c[i] of the new ones; x holds the entry that is new.
Carried(L, ns, u, k, v, x, c) ==
  /\ x \in Filled(L, u) /\ u[x].key = k /\ u[x].val = v
  /\ \A i \in Filled(L, ns) : /\ c[i] \in Filled(L, u) /\ c[i] # x
                              /\ u[c[i]].key = ns[i].key /\ u[c[i]].val = ns[i].val
  /\ \A j \in Filled(L, u) : j # x => \E i \in Filled(L, ns) : c[i] = j
LEMMA ShowsPut ==
  ASSUME NEW L, NEW ns, NEW m, NEW u, NEW x, NEW k \in Key, NEW v \in Val, NEW c,
         Shows(L, ns, m), m[k] = <<>>, Carried(L, ns, u, k, v, x, c)
  PROVE  Shows(L, u, [m EXCEPT ![k] = <<v>>])
<1>1. \A i \in Filled(L, ns) : ns[i].key # k
  <2> TAKE i \in Filled(L, ns)
  <2>1. m[ns[i].key] = <<ns[i].val>>
    BY DEF Shows
  <2> QED
    BY <2>1, Entry
<1>2. \A j \in Filled(L, u) : j # x => \E i \in Filled(L, ns) : c[i] = j /\ u[j].key = ns[i].key /\ u[j].val = ns[i].val
  BY DEF Carried
<1>3. \A i \in Filled(L, ns) : \E j \in Filled(L, u) : u[j].key = ns[i].key
  BY DEF Carried
<1>4. ASSUME NEW i \in Filled(L, u), NEW j \in Filled(L, u), u[i].key = u[j].key PROVE i = j
  <2>1. CASE i = x /\ j # x
    <3>1. PICK a \in Filled(L, ns) : u[j].key = ns[a].key
      BY <1>2, <2>1
    <3> QED
      BY <1>1, <1>4, <2>1, <3>1 DEF Carried
  <2>2. CASE j = x /\ i # x
    <3>1. PICK a \in Filled(L, ns) : u[i].key = ns[a].key
      BY <1>2, <2>2
    <3> QED
      BY <1>1, <1>4, <2>2, <3>1 DEF Carried
  <2>3. CASE i # x /\ j # x
    <3>1. PICK a \in Filled(L, ns) : c[a] = i /\ u[i].key = ns[a].key
      BY <1>2, <2>3
    <3>2. PICK b \in Filled(L, ns) : c[b] = j /\ u[j].key = ns[b].key
      BY <1>2, <2>3
    <3>3. a = b
      BY <1>4, <3>1, <3>2 DEF Shows
    <3> QED
      BY <3>1, <3>2, <3>3
  <2> QED
    BY <2>1, <2>2, <2>3
<1>5. Keeps(L, ns, u, x)
  BY <1>2, <1>3, <1>4 DEF Keeps
<1> QED
  BY <1>5, ShowsSet DEF Carried

\* The three ways a key is put.
InFree(L, ns, u, at, k, v) ==
  /\ u \in [1 .. L -> NodeOf(L)] /\ at[k] \in 1 .. L /\ ns[at[k]].key = None
  /\ u[at[k]] = [key |-> k, val |-> v, next |-> 0]
  /\ \A i \in 1 .. L : i # at[k] => u[i] = ns[i]
InBehind(L, ns, u, at, k, v, n) ==
  /\ u \in [1 .. L -> NodeOf(L)] /\ at[k] \in Filled(L, ns) /\ at[ns[at[k]].key] = at[k]
  /\ n \in 1 .. L /\ ns[n].key = None
  /\ u[n] = [key |-> k, val |-> v, next |-> ns[at[k]].next]
  /\ u[at[k]].key = ns[at[k]].key /\ u[at[k]].val = ns[at[k]].val /\ u[at[k]].next = n
  /\ \A i \in 1 .. L : i # at[k] /\ i # n => u[i] = ns[i]
InInstead(L, ns, u, at, k, v, n, b) ==
  /\ u \in [1 .. L -> NodeOf(L)] /\ at[k] \in Filled(L, ns) /\ at[ns[at[k]].key] # at[k]
  /\ n \in 1 .. L /\ ns[n].key = None
  /\ b \in Filled(L, ns) /\ ns[b].next = at[k]
  /\ u[n] = ns[at[k]] /\ u[at[k]] = [key |-> k, val |-> v, next |-> 0]
  /\ u[b].key = ns[b].key /\ u[b].val = ns[b].val /\ u[b].next = n
  /\ \A i \in 1 .. L : i # at[k] /\ i # n /\ i # b => u[i] = ns[i]

\* Chains as they were, and one entry more, at the node w that was free.
Longer(L, ns, u, at, P, m, k, v, w) ==
  /\ Chained(L, u, at, P, [m EXCEPT ![k] = <<v>>])
  /\ w \in 1 .. L \ Filled(L, ns) /\ Filled(L, u) = Filled(L, ns) \cup {w}
  /\ at[u[at[k]].key] = at[k]
  /\ \A i \in P : u[i].key = ns[i].key

LEMMA ChainFree ==
  ASSUME NEW L, NEW ns, NEW u, NEW at, NEW P, NEW m, NEW k \in Key, NEW v \in Val,
         Chained(L, ns, at, P, m), m[k] = <<>>, InFree(L, ns, u, at, k, v)
  PROVE  Longer(L, ns, u, at, P, m, k, v, at[k])
<1> PICK h : h = at[k]
  OBVIOUS
<1> PICK F : F = Filled(L, ns)
  OBVIOUS
<1>0. L \in Nat /\ k # None /\ Vector(L, ns) /\ P \subseteq F /\ Shows(L, ns, m) /\ Placed(L, at)
  BY KeysAreNotNull DEF Chained, Vector
<1>1. /\ h \in 1 .. L /\ ns[h].key = None /\ u[h].key = k /\ u[h].val = v /\ u[h].next = 0
      /\ u \in [1 .. L -> NodeOf(L)] /\ \A i \in 1 .. L : i # h => u[i] = ns[i]
  BY DEF InFree
<1>2. h \notin F /\ Filled(L, u) = F \cup {h} /\ 0 \notin F /\ h # 0 /\ \A i \in F : u[i] = ns[i]
  BY <1>0, <1>1 DEF Filled
<1>3. Vector(L, u)
  BY <1>0, <1>1 DEF Vector
<1>4. Shows(L, u, [m EXCEPT ![k] = <<v>>])
  <2> PICK c : c = [i \in F |-> i]
    OBVIOUS
  <2>1. Carried(L, ns, u, k, v, h, c)
    BY <1>1, <1>2 DEF Carried
  <2> QED
    BY <1>0, <2>1, ShowsPut
<1>5. P \subseteq Filled(L, u) /\ \A i \in P : u[i].key = ns[i].key
  BY <1>0, <1>2
<1>6. \E r : Ranked(u, at, Filled(L, u) \ P, r)
  <2> PICK A : A = F \ P
    OBVIOUS
  <2>1. PICK r : Ranked(ns, at, A, r)
    BY DEF Chained
  <2>2. h \notin A /\ 0 \notin A /\ h # 0 /\ \A i \in A : u[i] = ns[i]
    BY <1>2
  <2>3. at[u[h].key] = h /\ u[h].next = 0
    BY <1>1
  <2>4. PICK q : Ranked(u, at, A \cup {h}, q)
    BY <2>1, <2>2, <2>3, RankFree
  <2>5. Filled(L, u) \ P = A \cup {h}
    BY <1>0, <1>2
  <2> QED
    BY <2>4, <2>5
<1>7. Chained(L, u, at, P, [m EXCEPT ![k] = <<v>>])
  BY <1>0, <1>3, <1>4, <1>5, <1>6 DEF Chained
<1> QED
  BY <1>1, <1>2, <1>5, <1>7 DEF Longer

LEMMA ChainBehind ==
  ASSUME NEW L, NEW ns, NEW u, NEW at, NEW P, NEW m, NEW k \in Key, NEW v \in Val, NEW n,
         Chained(L, ns, at, P, m), m[k] = <<>>, at[k] \notin P, InBehind(L, ns, u, at, k, v, n)
  PROVE  Longer(L, ns, u, at, P, m, k, v, n)
<1> PICK h : h = at[k]
  OBVIOUS
<1> PICK F : F = Filled(L, ns)
  OBVIOUS
<1>0. L \in Nat /\ k # None /\ Vector(L, ns) /\ P \subseteq F /\ Shows(L, ns, m) /\ Placed(L, at)
  BY KeysAreNotNull DEF Chained, Vector
<1>1. /\ h \in F /\ at[ns[h].key] = h /\ n \in 1 .. L /\ ns[n].key = None
      /\ u[n].key = k /\ u[n].val = v /\ u[n].next = ns[h].next
      /\ u[h].key = ns[h].key /\ u[h].val = ns[h].val /\ u[h].next = n
      /\ u \in [1 .. L -> NodeOf(L)] /\ \A i \in 1 .. L : i # h /\ i # n => u[i] = ns[i]
  BY DEF InBehind
<1>2. /\ n \notin F /\ 0 \notin F /\ n # 0 /\ \A i \in F : i \in 1 .. L /\ i # n /\ (i # h => u[i] = ns[i])
      /\ ns[h].key # None
  BY <1>0, <1>1 DEF Filled
<1>3. Filled(L, u) = F \cup {n}
  BY <1>0, <1>1, <1>2 DEF Filled
<1>4. Vector(L, u)
  BY <1>0, <1>1, <1>2 DEF Vector
<1>5. Shows(L, u, [m EXCEPT ![k] = <<v>>])
  <2> PICK c : c = [i \in F |-> i]
    OBVIOUS
  <2>1. Carried(L, ns, u, k, v, n, c)
    BY <1>1, <1>2, <1>3 DEF Carried
  <2> QED
    BY <1>0, <2>1, ShowsPut
<1>6. P \subseteq Filled(L, u) /\ \A i \in P : u[i].key = ns[i].key
  BY <1>0, <1>1, <1>2, <1>3
<1>7. \E r : Ranked(u, at, Filled(L, u) \ P, r)
  <2> PICK A : A = F \ P
    OBVIOUS
  <2>1. PICK r : Ranked(ns, at, A, r)
    BY DEF Chained
  <2>2. h \in A /\ n \notin A /\ 0 \notin A /\ n # 0 /\ \A i \in A : i # h => u[i] = ns[i]
    BY <1>1, <1>2
  <2>3. at[u[n].key] = h
    BY <1>1
  <2>4. PICK q : Ranked(u, at, A \cup {n}, q)
    <3>1. Behind(ns, at, A, u, h, n)
      BY <1>1, <2>2, <2>3 DEF Behind
    <3> QED
      BY ONLY <2>1, <3>1, RankBehind
  <2>5. Filled(L, u) \ P = A \cup {n}
    BY <1>0, <1>2, <1>3
  <2> QED
    BY <2>4, <2>5
<1>8. Chained(L, u, at, P, [m EXCEPT ![k] = <<v>>])
  BY <1>0, <1>4, <1>5, <1>6, <1>7 DEF Chained
<1> QED
  BY <1>1, <1>2, <1>3, <1>6, <1>8 DEF Longer

LEMMA ChainInstead ==
  ASSUME NEW L, NEW ns, NEW u, NEW at, NEW m, NEW k \in Key, NEW v \in Val, NEW n, NEW b,
         Chained(L, ns, at, {}, m), m[k] = <<>>, InInstead(L, ns, u, at, k, v, n, b)
  PROVE  Longer(L, ns, u, at, {}, m, k, v, n)
<1> PICK h : h = at[k]
  OBVIOUS
<1> PICK F : F = Filled(L, ns)
  OBVIOUS
<1>0. L \in Nat /\ k # None /\ Vector(L, ns) /\ Shows(L, ns, m) /\ Placed(L, at)
  BY KeysAreNotNull DEF Chained, Vector
<1>r. PICK r : Ranked(ns, at, F, r)
  <2>1. F \ {} = F
    OBVIOUS
  <2> QED
    BY <2>1 DEF Chained
<1>1. /\ h \in F /\ at[ns[h].key] # h /\ n \in 1 .. L /\ ns[n].key = None /\ b \in F /\ ns[b].next = h
      /\ u[n] = ns[h] /\ u[h].key = k /\ u[h].val = v /\ u[h].next = 0
      /\ u[b].key = ns[b].key /\ u[b].val = ns[b].val /\ u[b].next = n
      /\ u \in [1 .. L -> NodeOf(L)] /\ \A i \in 1 .. L : i # h /\ i # n /\ i # b => u[i] = ns[i]
  BY DEF InInstead
<1>2. /\ n \notin F /\ 0 \notin F /\ n # 0 /\ \A i \in F : i \in 1 .. L /\ i # n /\ (i # h /\ i # b => u[i] = ns[i])
      /\ ns[h].key # None /\ ns[b].key # None
  BY <1>0, <1>1 DEF Filled
<1>3. b # h
  <2>1. r[h] = r[b] + 1 /\ r[b] \in Nat
    BY <1>1, <1>2, <1>r DEF Ranked, Linked
  <2> QED
    BY <2>1
<1>4. Filled(L, u) = F \cup {n}
  BY <1>0, <1>1, <1>2 DEF Filled
<1>5. Vector(L, u)
  BY <1>0, <1>1, <1>2 DEF Vector
<1>6. Shows(L, u, [m EXCEPT ![k] = <<v>>])
  <2> PICK c : c = [i \in F |-> IF i = h THEN n ELSE i]
    OBVIOUS
  <2>1. Carried(L, ns, u, k, v, h, c)
    BY <1>1, <1>2, <1>3, <1>4 DEF Carried
  <2> QED
    BY <1>0, <2>1, ShowsPut
<1>7. \E q : Ranked(u, at, Filled(L, u) \ {}, q)
  <2>1. n \notin F /\ 0 \notin F /\ n # 0 /\ \A i \in F : i # h /\ i # b => u[i] = ns[i]
    BY <1>2
  <2>2. at[u[h].key] = h
    BY <1>1
  <2>3. PICK q : Ranked(u, at, F \cup {n}, q)
    <3>1. Instead(ns, at, F, u, h, n, b)
      BY <1>1, <2>1, <2>2 DEF Instead
    <3> QED
      BY ONLY <1>r, <3>1, RankInstead
  <2>4. Filled(L, u) \ {} = F \cup {n}
    BY <1>4
  <2> QED
    BY <2>3, <2>4
<1>8. Chained(L, u, at, {}, [m EXCEPT ![k] = <<v>>])
  BY <1>0, <1>5, <1>6, <1>7 DEF Chained
<1> QED
  BY <1>1, <1>2, <1>4, <1>8 DEF Longer

LEMMA NodeIs ==
  ASSUME NEW L, NEW x, x \in NodeOf(L)
  PROVE  /\ x = [key |-> x.key, val |-> x.val, next |-> x.next]
         /\ x.key \in Key \cup {None} /\ x.val \in Val \cup {None} /\ x.next \in 0 .. L
  BY DEF NodeOf
LEMMA NodeMade ==
  ASSUME NEW L, NEW k \in Key \cup {None}, NEW v \in Val \cup {None}, NEW n \in 0 .. L
  PROVE  [key |-> k, val |-> v, next |-> n] \in NodeOf(L)
  BY DEF NodeOf
NodesOf(L, q) == q \in [1 .. L -> NodeOf(L)]
SetsNode(L, ns, h, k, v, q) ==
  /\ h \in 1 .. L /\ k \in Key \cup {None} /\ v \in Val \cup {None} /\ NodesOf(L, ns)
  /\ q = [ns EXCEPT ![h].key = k, ![h].val = v]
LEMMA SetNode ==
  ASSUME NEW L, NEW ns, NEW h, NEW k, NEW v, NEW q, SetsNode(L, ns, h, k, v, q)
  PROVE  /\ NodesOf(L, q) /\ q[h] = [key |-> k, val |-> v, next |-> ns[h].next]
         /\ \A i \in 1 .. L : i # h => q[i] = ns[i]
<1> USE DEF SetsNode, NodesOf
<1>1. PICK a, b, c : ns[h] = [key |-> a, val |-> b, next |-> c] /\ c \in 0 .. L
  BY DEF NodeOf
<1>2. q[h] = [key |-> k, val |-> v, next |-> c]
  <2>1. PICK p : p = [ns EXCEPT ![h].key = k]
    OBVIOUS
  <2>2. p[h] = [key |-> k, val |-> b, next |-> c] /\ DOMAIN p = 1 .. L
    BY <1>1, <2>1
  <2>3. q = [p EXCEPT ![h].val = v]
    BY <2>1
  <2>4. q[h] = [p[h] EXCEPT !.val = v]
    BY ONLY <2>2, <2>3, h \in 1 .. L
  <2> QED
    BY ONLY <2>2, <2>4
<1>3. q[h] \in NodeOf(L)
  BY <1>1, <1>2, NodeMade
<1>4. \A i \in 1 .. L : i # h => q[i] = ns[i]
  OBVIOUS
<1>5. DOMAIN q = 1 .. L /\ q = [i \in 1 .. L |-> q[i]]
  OBVIOUS
<1> QED
  BY <1>1, <1>2, <1>3, <1>4, <1>5
SetsBehind(L, ns, h, n, x, q) ==
  /\ h \in 1 .. L /\ n \in 1 .. L /\ n # h /\ x \in NodeOf(L) /\ NodesOf(L, ns)
  /\ q = [ns EXCEPT ![n] = x, ![h].next = n]
LEMMA SetBehind ==
  ASSUME NEW L, NEW ns, NEW h, NEW n, NEW x, NEW q, SetsBehind(L, ns, h, n, x, q)
  PROVE  /\ NodesOf(L, q) /\ q[n] = x /\ q[h].next = n /\ q[h].key = ns[h].key /\ q[h].val = ns[h].val
         /\ \A i \in 1 .. L : i # h /\ i # n => q[i] = ns[i]
<1> USE DEF SetsBehind, NodesOf
<1>1. PICK a, b, c : ns[h] = [key |-> a, val |-> b, next |-> c] /\ a \in Key \cup {None} /\ b \in Val \cup {None}
  BY DEF NodeOf
<1>2. q[h] = [key |-> a, val |-> b, next |-> n] /\ q[n] = x
  BY <1>1
<1>3. n \in 0 .. L
  OBVIOUS
<1>4. q[h] \in NodeOf(L) 
  BY ONLY <1>1, <1>2, <1>3 DEF NodeOf
<1>5. \A i \in 1 .. L : i # h /\ i # n => q[i] = ns[i]
  OBVIOUS
<1>6. DOMAIN q = 1 .. L /\ q = [i \in 1 .. L |-> q[i]]
  OBVIOUS
<1> QED
  BY <1>1, <1>2, <1>4, <1>5, <1>6
SetsInstead(L, ns, h, n, b, x, q) ==
  /\ h \in 1 .. L /\ n \in 1 .. L /\ b \in 1 .. L /\ n # h /\ b # h /\ b # n /\ x \in NodeOf(L) /\ NodesOf(L, ns)
  /\ q = [ns EXCEPT ![b].next = n, ![n] = ns[h], ![h] = x]
LEMMA SetInstead ==
  ASSUME NEW L, NEW ns, NEW h, NEW n, NEW b, NEW x, NEW q, SetsInstead(L, ns, h, n, b, x, q)
  PROVE  /\ NodesOf(L, q) /\ q[h] = x /\ q[n] = ns[h]
         /\ q[b].next = n /\ q[b].key = ns[b].key /\ q[b].val = ns[b].val
         /\ \A i \in 1 .. L : i # h /\ i # n /\ i # b => q[i] = ns[i]
<1> USE DEF SetsInstead, NodesOf
<1>1. PICK a, d, c : ns[b] = [key |-> a, val |-> d, next |-> c] /\ a \in Key \cup {None} /\ d \in Val \cup {None}
  BY DEF NodeOf
<1>2. q[b] = [key |-> a, val |-> d, next |-> n] /\ q[n] = ns[h] /\ q[h] = x
  BY <1>1
<1>3. n \in 0 .. L
  OBVIOUS
<1>4. q[b] \in NodeOf(L) 
  BY ONLY <1>1, <1>2, <1>3 DEF NodeOf
<1>5. \A i \in 1 .. L : i # h /\ i # n /\ i # b => q[i] = ns[i]
  OBVIOUS
<1>6. DOMAIN q = 1 .. L /\ q = [i \in 1 .. L |-> q[i]]
  OBVIOUS
<1> QED
  BY <1>1, <1>2, <1>4, <1>5, <1>6

\* A node is taken by the entry put, and nothing is lost.
Put(t, u, L, P, m, k, v, w) ==
  /\ Fine(u, L, P, [m EXCEPT ![k] = <<v>>]) /\ Place(u) = Place(t) /\ u.size = t.size + 1
  /\ w \in 1 .. L \ Filled(L, t.nodes) /\ Filled(L, u.nodes) = Filled(L, t.nodes) \cup {w}
  /\ Place(t)[u.nodes[Place(t)[k]].key] = Place(t)[k]
  /\ \A i \in P : u.nodes[i].key = t.nodes[i].key
  /\ \/ w = Place(t)[k] /\ u.lastfree = t.lastfree
     \/ placeTaken(t, k) /\ w = tblLastFreeNode(t) /\ u.lastfree = w
CanPut(t, L, P, k) ==
  /\ L >= 1
  /\ placeTaken(t, k) => /\ tblLastFreeNode(t) # 0
                         /\ P = {} \/ (Place(t)[t.nodes[Place(t)[k]].key] = Place(t)[k] /\ Place(t)[k] \notin P)
LEMMA LongerPut ==
  ASSUME NEW t, NEW u, NEW L, NEW P, NEW m, NEW k \in Key, NEW v \in Val, NEW w, NEW f, Fine(t, L, P, m),
         Longer(L, t.nodes, u.nodes, Place(t), P, m, k, v, w), u.nodes \in [1 .. L -> NodeOf(L)],
         u = [nodes |-> u.nodes, lastfree |-> f, size |-> t.size + 1],
         \/ w = Place(t)[k] /\ f = t.lastfree
         \/ placeTaken(t, k) /\ w = tblLastFreeNode(t) /\ f = w
  PROVE  Put(t, u, L, P, m, k, v, w)
<1>1. L \in Nat /\ t.nodes \in Seq(NodeOf(L)) /\ Len(t.nodes) = L
  BY FineIs DEF Fine, Shaped
<1>2. u.nodes \in Seq(NodeOf(L)) /\ Len(u.nodes) = L
  BY <1>1
<1>3. Place(u) = Place(t)
  BY <1>1, <1>2, PlaceSame
<1> PICK F : F = Filled(L, t.nodes)
  OBVIOUS
<1>4. /\ Chained(L, u.nodes, Place(u), P, [m EXCEPT ![k] = <<v>>])
      /\ w \in 1 .. L \ F /\ Filled(L, u.nodes) = F \cup {w}
      /\ Place(t)[u.nodes[Place(t)[k]].key] = Place(t)[k]
      /\ \A i \in P : u.nodes[i].key = t.nodes[i].key
  BY <1>3 DEF Longer
<1>5. f \in 1 .. L + 1
  BY <1>1, <1>4 DEF Fine, Shaped
<1>6. t.size + 1 = Cardinality(F \cup {w})
  <2>1. F \subseteq 1 .. L /\ IsFiniteSet(1 .. L)
    BY FS_Interval, <1>1 DEF Filled
  <2>2. IsFiniteSet(F)
    BY <2>1, FS_Subset
  <2>3. Cardinality(F \cup {w}) = Cardinality(F) + 1
    BY <1>4, <2>2, FS_AddElement
  <2> QED
    BY <2>3 DEF Fine, Shaped
<1>7. u.lastfree = f /\ u.size = t.size + 1
  OBVIOUS
<1>8. Shaped(u, L)
  BY <1>2, <1>4, <1>5, <1>6, <1>7 DEF Shaped
<1> QED
  BY <1>3, <1>4, <1>7, <1>8 DEF Put, Fine

LEMMA PutIs ==
  ASSUME NEW t, NEW L, NEW P, NEW m, NEW k \in Key, NEW v \in Val, Fine(t, L, P, m), m[k] = <<>>, CanPut(t, L, P, k)
  PROVE  \E w : Put(t, put(t, k, v), L, P, m, k, v, w)
<1> PICK ns : ns = t.nodes
  OBVIOUS
<1> PICK at : at = Place(t)
  OBVIOUS
<1> PICK h : h = tblKey2Node(t, k)
  OBVIOUS
<1> PICK n : n = tblLastFreeNode(t)
  OBVIOUS
<1> PICK u : u = put(t, k, v)
  OBVIOUS
<1> PICK F : F = Filled(L, ns)
  OBVIOUS
<1>1. /\ L \in Nat /\ L >= 1 /\ Vector(L, ns) /\ DOMAIN ns = 1 .. L /\ ns # <<>> /\ at[k] = h /\ h \in 1 .. L
      /\ t.lastfree \in Nat /\ Chained(L, ns, at, P, m)
  <2>1. L \in Nat /\ Vector(L, ns) /\ DOMAIN ns = 1 .. L /\ (ns = <<>> <=> L = 0) /\ Place(t)[k] = h /\ (L >= 1 => h \in 1 .. L)
    BY FineIs
  <2>2. L >= 1
    BY DEF CanPut
  <2>3. t.lastfree \in 1 .. L + 1 /\ Chained(L, ns, Place(t), P, m)
    BY DEF Fine, Shaped
  <2> QED
    BY <2>1, <2>2, <2>3
<1>2. ns \in [1 .. L -> NodeOf(L)] /\ k \in Key \cup {None} /\ v \in Val \cup {None} /\ \A i \in F : ns[i].key \in Key
  BY <1>1, FineIs DEF Vector
<1>3. placeTaken(t, k) <=> ns[h].key # None
  BY <1>1 DEF placeTaken, isFree
<1>4. \A w : Longer(L, ns, u.nodes, at, P, m, k, v, w) /\ u.nodes \in [1 .. L -> NodeOf(L)]
             /\ u = [nodes |-> u.nodes, lastfree |-> u.lastfree, size |-> t.size + 1]
             /\ \/ w = h /\ u.lastfree = t.lastfree
                \/ placeTaken(t, k) /\ w = n /\ u.lastfree = w
             => Put(t, u, L, P, m, k, v, w)
  BY <1>1, LongerPut
<1>5. CASE ~placeTaken(t, k)
  <2>1. ns[h].key = None /\ ns[h].next = 0
    BY <1>1, <1>3, <1>5 DEF Vector
  <2>2. u = [nodes |-> [ns EXCEPT ![h].key = k, ![h].val = v], lastfree |-> t.lastfree, size |-> t.size + 1]
    BY <1>5 DEF put
  <2>3. /\ u.nodes = [ns EXCEPT ![h].key = k, ![h].val = v]
        /\ u = [nodes |-> u.nodes, lastfree |-> u.lastfree, size |-> t.size + 1] /\ u.lastfree = t.lastfree
    BY <2>2
  <2>4. /\ u.nodes \in [1 .. L -> NodeOf(L)] /\ u.nodes[h] = [key |-> k, val |-> v, next |-> 0]
        /\ \A i \in 1 .. L : i # h => u.nodes[i] = ns[i]
    <3>1. SetsNode(L, ns, h, k, v, u.nodes)
      BY <1>1, <1>2, <2>3 DEF SetsNode, NodesOf
    <3> PICK q : q = u.nodes
      OBVIOUS
    <3>2. SetsNode(L, ns, h, k, v, q)
      BY <3>1
    <3>3. /\ NodesOf(L, q) /\ q[h] = [key |-> k, val |-> v, next |-> ns[h].next]
          /\ \A i \in 1 .. L : i # h => q[i] = ns[i]
      BY ONLY <3>2, SetNode
    <3> QED
      BY <2>1, <3>3 DEF NodesOf
  <2>5. InFree(L, ns, u.nodes, at, k, v)
    BY <1>1, <2>1, <2>4 DEF InFree
  <2>6. Longer(L, ns, u.nodes, at, P, m, k, v, h)
    BY <1>1, <2>5, ChainFree
  <2> QED
    BY <1>4, <2>3, <2>4, <2>6
<1>6. CASE placeTaken(t, k)
  <2>1. n \in 1 .. L /\ ns[n].key = None /\ h \in F /\ n # h
    <3>1. n # 0
      BY <1>6 DEF CanPut
    <3> QED
      BY <1>1, <1>3, <1>6, <3>1, LastFreeIs DEF Filled
  <2>2. tblKey2Node(t, ns[h].key) = at[ns[h].key]
    BY <1>2, <2>1, FineIs
  <2>3. CASE at[ns[h].key] = h
    <3>1. u = [nodes |-> [ns EXCEPT ![n] = [key |-> k, val |-> v, next |-> ns[h].next], ![h].next = n],
               lastfree |-> n, size |-> t.size + 1]
      BY <1>6, <2>2, <2>3 DEF put
    <3>2. /\ u.nodes = [ns EXCEPT ![n] = [key |-> k, val |-> v, next |-> ns[h].next], ![h].next = n]
          /\ u = [nodes |-> u.nodes, lastfree |-> u.lastfree, size |-> t.size + 1] /\ u.lastfree = n
      BY <3>1
    <3>x. [key |-> k, val |-> v, next |-> ns[h].next] \in NodeOf(L)
      <4>1. ns[h].next \in 0 .. L
        BY <1>1, <1>2, NodeIs
      <4> QED
        BY ONLY <1>2, <4>1, NodeMade
    <3>3. SetsBehind(L, ns, h, n, [key |-> k, val |-> v, next |-> ns[h].next], u.nodes)
      BY <1>1, <1>2, <2>1, <3>2, <3>x DEF SetsBehind, NodesOf
    <3>y. /\ u.nodes[n] = [key |-> k, val |-> v, next |-> ns[h].next]
          /\ u.nodes[h].key = ns[h].key /\ u.nodes[h].val = ns[h].val /\ u.nodes[h].next = n
          /\ \A i \in 1 .. L : i # h /\ i # n => u.nodes[i] = ns[i]
          /\ NodesOf(L, u.nodes)
      BY ONLY <3>3, SetBehind
    <3>4. u.nodes \in [1 .. L -> NodeOf(L)]
      BY <3>y DEF NodesOf
    <3>5. InBehind(L, ns, u.nodes, at, k, v, n)
      BY <1>1, <2>1, <2>3, <3>y, <3>4 DEF InBehind
    <3>6. at[k] \notin P
      <4>1. P = {} \/ at[k] \notin P
        BY <1>6 DEF CanPut
      <4> QED
        BY <4>1
    <3>7. Longer(L, ns, u.nodes, at, P, m, k, v, n)
      BY <1>1, <3>5, <3>6, ChainBehind
    <3> QED
      BY <1>4, <1>6, <3>2, <3>4, <3>7
  <2>4. CASE at[ns[h].key] # h
    <3>1. P = {}
      BY <1>1, <1>6, <2>4 DEF CanPut
    <3>2. PICK r : Ranked(ns, at, F, r)
      <4>1. F \ {} = F
        OBVIOUS
      <4> QED
        BY <1>1, <3>1, <4>1 DEF Chained
    <3>3. r[h] > 0 /\ h # 0
      BY <1>1, <2>1, <2>4, <3>2 DEF Ranked, Linked
    <3>4. PICK c \in F : ns[c].next = h
      BY <2>1, <3>2, <3>3 DEF Ranked, Linked
    <3>5. PICK b : b = CHOOSE i \in 1 .. L : ns[i].next = h
      OBVIOUS
    <3>6. b \in 1 .. L /\ ns[b].next = h
      BY <3>4, <3>5 DEF Filled
    <3>7. b \in F /\ b # n
      BY <1>1, <2>1, <3>3, <3>6 DEF Vector, Filled
    <3>8. b # h
      BY <2>1, <3>2, <3>3, <3>6 DEF Ranked, Linked
    <3>9. u = [nodes |-> [ns EXCEPT ![b].next = n, ![n] = ns[h], ![h] = [key |-> k, val |-> v, next |-> 0]],
               lastfree |-> n, size |-> t.size + 1]
      BY <1>1, <1>6, <2>2, <2>4, <3>5 DEF put
    <3>10. /\ u.nodes = [ns EXCEPT ![b].next = n, ![n] = ns[h], ![h] = [key |-> k, val |-> v, next |-> 0]]
           /\ u = [nodes |-> u.nodes, lastfree |-> u.lastfree, size |-> t.size + 1] /\ u.lastfree = n
      BY <3>9
    <3>x. [key |-> k, val |-> v, next |-> 0] \in NodeOf(L)
      <4>1. 0 \in 0 .. L
        BY <1>1
      <4> QED
        BY ONLY <1>2, <4>1, NodeMade
    <3>11. SetsInstead(L, ns, h, n, b, [key |-> k, val |-> v, next |-> 0], u.nodes)
      BY <1>1, <1>2, <2>1, <3>6, <3>7, <3>8, <3>10, <3>x DEF SetsInstead, NodesOf
    <3>y. /\ u.nodes[n] = ns[h] /\ u.nodes[h] = [key |-> k, val |-> v, next |-> 0]
          /\ u.nodes[b].key = ns[b].key /\ u.nodes[b].val = ns[b].val /\ u.nodes[b].next = n
          /\ \A i \in 1 .. L : i # h /\ i # n /\ i # b => u.nodes[i] = ns[i]
          /\ NodesOf(L, u.nodes)
      BY ONLY <3>11, SetInstead
    <3>12. u.nodes \in [1 .. L -> NodeOf(L)]
      BY <3>y DEF NodesOf
    <3>13. InInstead(L, ns, u.nodes, at, k, v, n, b)
      BY <1>1, <2>1, <2>4, <3>6, <3>7, <3>y, <3>12 DEF InInstead
    <3>14. Longer(L, ns, u.nodes, at, P, m, k, v, n)
      BY <1>1, <3>1, <3>13, ChainInstead
    <3> QED
      BY <1>4, <1>6, <3>10, <3>12, <3>14
  <2> QED
    BY <2>3, <2>4
<1> QED
  BY <1>5, <1>6

-----------------------------------------------------------------------------
(***************************************************************************)
(* A new vector, and the keys put into it.                                 *)
(***************************************************************************)
LEMMA PowerIs ==
  ASSUME NEW s \in Nat
  PROVE  ceilPow2(s) \in Nat /\ ceilPow2(s) >= s
<1> DEFINE pows(x) == x = [e \in 0 .. s |-> IF e = 0 THEN 1 ELSE 2 * x[e - 1]]
<1> PICK f : f = CHOOSE x : pows(x)
  OBVIOUS
<1>1. ceilPow2(s) = IF s = 0 THEN 0 ELSE f[Min({e \in 0 .. s : f[e] >= s})]
  BY DEF ceilPow2
<1>2. \E x : pows(x)
  <2> PICK G : G = [p \in Nat \X Nat |-> 2 * p[2]]
    OBVIOUS
  <2>1. G \in [Nat \X Nat -> Nat]
    OBVIOUS
  <2>2. Iterates(Nat, 1, G, s)
    BY <2>1 DEF Iterates
  <2>3. PICK g : Iteration(g, Nat, 1, G, s)
    BY <2>2, Iterated
  <2>4. g \in [0 .. s -> Nat] /\ g[0] = 1 /\ \A n \in 1 .. s : g[n] = G[<<n, g[n - 1]>>]
    BY <2>3 DEF Iteration
  <2>5. \A n \in 0 .. s : n # 0 => g[n] = 2 * g[n - 1]
    <3> TAKE n \in 0 .. s
    <3>1. SUFFICES ASSUME n # 0 PROVE g[n] = 2 * g[n - 1]
      OBVIOUS
    <3>2. n \in 1 .. s /\ n \in Nat /\ n - 1 \in 0 .. s
      BY <3>1
    <3>3. <<n, g[n - 1]>> \in Nat \X Nat
      BY <2>4, <3>2
    <3> QED
      BY <2>4, <3>2, <3>3
  <2>6. g = [e \in 0 .. s |-> IF e = 0 THEN 1 ELSE 2 * g[e - 1]]
    BY <2>4, <2>5
  <2>7. pows(g)
    BY <2>6
  <2> QED
    BY <2>7
<1>3. pows(f)
  <2> HIDE DEF pows
  <2> QED
    BY <1>2
<1>4. \A e \in 0 .. s : f[e] = IF e = 0 THEN 1 ELSE 2 * f[e - 1]
  BY <1>3
<1>5. \A e \in 0 .. s : f[e] \in Nat /\ f[e] >= e + 1
  <2> PICK T : T = {n \in Nat : n <= s => f[n] \in Nat /\ f[n] >= n + 1}
    OBVIOUS
  <2>1. 0 \in T
    <3>1. 0 \in 0 .. s
      OBVIOUS
    <3>2. f[0] = 1
      BY ONLY <1>4, <3>1
    <3> QED
      BY <3>2
  <2>2. ASSUME NEW n \in Nat, n \in T PROVE n + 1 \in T
    <3>1. SUFFICES ASSUME n + 1 <= s PROVE f[n + 1] \in Nat /\ f[n + 1] >= n + 1 + 1
      OBVIOUS
    <3>2. n + 1 \in 0 .. s /\ n + 1 - 1 = n /\ n + 1 # 0 /\ n <= s
      BY ONLY <3>1, n \in Nat, s \in Nat
    <3>3. f[n + 1] = 2 * f[n]
      BY ONLY <1>4, <3>2
    <3>4. f[n] \in Nat /\ f[n] >= n + 1
      BY <2>2, <3>2
    <3> QED
      BY ONLY <3>3, <3>4, n \in Nat
  <2>3. Nat \subseteq T
    BY <2>1, <2>2, Induct
  <2> TAKE e \in 0 .. s
  <2>4. e \in Nat /\ e <= s
    OBVIOUS
  <2>5. e \in T
    BY ONLY <2>3, <2>4
  <2> QED
    BY <2>4, <2>5
<1> PICK E : E = {e \in 0 .. s : f[e] >= s}
  OBVIOUS
<1>6. s \in E
  <2>1. s \in 0 .. s
    OBVIOUS
  <2>2. f[s] \in Nat /\ f[s] >= s + 1
    BY ONLY <1>5, <2>1
  <2> QED
    BY <2>1, <2>2
<1>7. Min(E) \in E
  <2>1. E \subseteq Nat /\ E # {}
    BY <1>6
  <2> QED
    BY ONLY <2>1, MinIs
<1>8. Min(E) \in 0 .. s /\ f[Min(E)] >= s
  BY <1>7
<1>9. f[Min(E)] \in Nat
  BY <1>5, <1>8
<1>10. ceilPow2(s) = IF s = 0 THEN 0 ELSE f[Min(E)]
  BY <1>1
<1> QED
  BY ONLY <1>8, <1>9, <1>10, s \in Nat

Nothing == [k \in Key |-> <<>>]
LEMMA AllocIs ==
  ASSUME NEW L \in Nat, Hashes
  PROVE  Fine(tblAllocnodes(L), L, {}, Nothing)
<1> PICK t : t = tblAllocnodes(L)
  OBVIOUS
<1> PICK at : at = Place(t)
  OBVIOUS
<1>1. t = [nodes |-> [i \in 1 .. L |-> emptyNode], lastfree |-> L + 1, size |-> 0]
  BY DEF tblAllocnodes
<1>2. t.nodes = [i \in 1 .. L |-> emptyNode] /\ t.lastfree = L + 1 /\ t.size = 0
      /\ t = [nodes |-> t.nodes, lastfree |-> t.lastfree, size |-> t.size]
  BY <1>1
<1>3. emptyNode \in NodeOf(L) /\ emptyNode.key = None /\ emptyNode.next = 0
  <2>1. 0 \in 0 .. L
    OBVIOUS
  <2> QED
    BY <2>1 DEF emptyNode, NodeOf
<1>4. t.nodes \in [1 .. L -> NodeOf(L)] /\ \A i \in 1 .. L : t.nodes[i].key = None /\ t.nodes[i].next = 0
  BY <1>2, <1>3
<1>5. t.nodes \in Seq(NodeOf(L)) /\ Len(t.nodes) = L
  BY <1>4
<1>6. Filled(L, t.nodes) = {}
  BY <1>4 DEF Filled
<1>7. Shaped(t, L)
  <2>1. t.lastfree \in 1 .. L + 1
    BY <1>2
  <2>2. t.size = Cardinality(Filled(L, t.nodes))
    BY <1>2, <1>6, FS_EmptySet
  <2> QED
    BY <1>2, <1>5, <2>1, <2>2 DEF Shaped
<1>8. Shows(L, t.nodes, Nothing)
  BY <1>6 DEF Shows, Nothing
<1>9. Vector(L, t.nodes)
  BY <1>4 DEF Vector
<1>10. Placed(L, Place(t))
  BY <1>5, PlacedIs
<1>11. Ranked(t.nodes, at, Filled(L, t.nodes) \ {}, <<>>)
  BY <1>6 DEF Ranked, Linked, Apart
<1>12. Chained(L, t.nodes, Place(t), {}, Nothing)
  BY <1>6, <1>8, <1>9, <1>10, <1>11 DEF Chained
<1> QED
  BY <1>7, <1>12 DEF Fine

-----------------------------------------------------------------------------
(***************************************************************************)
(* A loop over tables: what each step keeps, all of them keep.             *)
(***************************************************************************)
Kept(N, a, U, F, I) ==
  /\ N \in Nat /\ I \subseteq Nat \X U /\ <<0, a>> \in I
  /\ \A i \in 1 .. N, u \in U : <<i - 1, u>> \in I => <<i, F[<<i, u>>]>> \in I
Looped(h, N, a, U, F) ==
  h[0] = a /\ \A i \in 1 .. N : h[i - 1] \in U => h[i] = F[<<i, h[i - 1]>>]
LEMMA LoopKeeps ==
  ASSUME NEW N, NEW a, NEW U, NEW F, NEW I, Kept(N, a, U, F, I), NEW h, Looped(h, N, a, U, F)
  PROVE  \A i \in 0 .. N : <<i, h[i]>> \in I
<1>1. N \in Nat
  BY DEF Kept
<1> PICK T : T = {n \in Nat : n <= N => <<n, h[n]>> \in I}
  OBVIOUS
<1>2. 0 \in T
  BY DEF Kept, Looped
<1>3. ASSUME NEW n \in Nat, n \in T PROVE n + 1 \in T
  <2>1. SUFFICES ASSUME n + 1 <= N PROVE <<n + 1, h[n + 1]>> \in I
    OBVIOUS
  <2>2. n + 1 \in 1 .. N /\ n + 1 - 1 = n /\ n <= N
    BY <1>1, <2>1
  <2>3. <<n, h[n]>> \in I
    BY <1>3, <2>2
  <2>4. h[n] \in U
    BY <2>3 DEF Kept
  <2>5. h[n + 1] = F[<<n + 1, h[n]>>]
    BY <2>2, <2>4 DEF Looped
  <2> QED
    BY <2>2, <2>3, <2>4, <2>5 DEF Kept
<1>4. Nat \subseteq T
  BY <1>2, <1>3, Induct
<1> TAKE i \in 0 .. N
<1>5. i \in Nat /\ i <= N
  BY <1>1
<1> QED
  BY <1>4, <1>5

LEMMA LoopExists ==
  ASSUME NEW N, NEW a, NEW U, NEW F, NEW I, Kept(N, a, U, F, I)
  PROVE  \E h : h = [i \in 0 .. N |-> h[i]] /\ h \in [0 .. N -> U] /\ Looped(h, N, a, U, F)
<1>1. N \in Nat /\ I \subseteq Nat \X U /\ <<0, a>> \in I
  BY DEF Kept
<1>2. a \in U
  BY <1>1
<1> PICK G : G = [p \in Nat \X U |-> IF <<p[1], F[p]>> \in I THEN F[p] ELSE a]
  OBVIOUS
<1>3. \A n \in Nat, u \in U : G[<<n, u>>] = IF <<n, F[<<n, u>>]>> \in I THEN F[<<n, u>>] ELSE a
  OBVIOUS
<1>4. G \in [Nat \X U -> U]
  <2>1. \A p \in Nat \X U : (IF <<p[1], F[p]>> \in I THEN F[p] ELSE a) \in U
    BY <1>1, <1>2
  <2> QED
    BY <2>1
<1>5. Iterates(U, a, G, N)
  BY <1>1, <1>2, <1>4 DEF Iterates
<1>6. PICK h : Iteration(h, U, a, G, N)
  BY <1>5, Iterated
<1>7. h \in [0 .. N -> U] /\ h[0] = a /\ \A n \in 1 .. N : h[n] = G[<<n, h[n - 1]>>]
  BY <1>6 DEF Iteration
<1>8. Kept(N, a, U, G, I)
  <2>1. ASSUME NEW i \in 1 .. N, NEW u \in U, <<i - 1, u>> \in I PROVE <<i, G[<<i, u>>]>> \in I
    <3>1. <<i, F[<<i, u>>]>> \in I
      BY <2>1 DEF Kept
    <3> QED
      BY <1>3, <3>1
  <2> QED
    BY <1>1, <2>1 DEF Kept
<1>9. Looped(h, N, a, U, G)
  BY <1>7 DEF Looped
<1>10. \A i \in 0 .. N : <<i, h[i]>> \in I
  BY <1>8, <1>9, LoopKeeps
<1>11. ASSUME NEW i \in 1 .. N PROVE h[i] = F[<<i, h[i - 1]>>]
  <2>1. i \in Nat /\ i - 1 \in 0 .. N
    BY <1>1
  <2>2. h[i - 1] \in U /\ <<i - 1, h[i - 1]>> \in I
    BY <1>7, <1>10, <2>1
  <2>3. <<i, F[<<i, h[i - 1]>>]>> \in I
    BY <2>2 DEF Kept
  <2> QED
    BY <1>3, <1>7, <2>1, <2>2, <2>3
<1>12. Looped(h, N, a, U, F)
  BY <1>7, <1>11 DEF Looped
<1> QED
  BY <1>7, <1>12

-----------------------------------------------------------------------------
(***************************************************************************)
(* Every key is put into the new vector, which has room for it.            *)
(***************************************************************************)
\* Every free node is before lastfree.
Bounded(t, L) == \A i \in 1 .. L : t.nodes[i].key = None => i < t.lastfree
LEMMA PutBounded ==
  ASSUME NEW t, NEW u, NEW L, NEW P, NEW m, NEW k, NEW v, NEW w, Put(t, u, L, P, m, k, v, w), Bounded(t, L),
         Fine(t, L, P, m)
  PROVE  Bounded(u, L)
<1>1. Filled(L, u.nodes) = Filled(L, t.nodes) \cup {w} /\ L \in Nat /\ DOMAIN t.nodes = 1 .. L /\ t.lastfree \in Nat
  BY FineIs DEF Put, Fine, Shaped
<1> SUFFICES ASSUME NEW i \in 1 .. L, u.nodes[i].key = None PROVE i < u.lastfree
  BY DEF Bounded
<1>2. i # w /\ t.nodes[i].key = None
  BY <1>1 DEF Filled
<1>3. i < t.lastfree
  BY <1>2 DEF Bounded
<1>4. CASE u.lastfree = t.lastfree
  BY <1>3, <1>4
<1>5. CASE w = tblLastFreeNode(t) /\ u.lastfree = w
  <2>1. tblLastFreeNode(t) # 0
    BY <1>1, <1>2, <1>3, LastFreeIs
  <2>2. i <= tblLastFreeNode(t) /\ tblLastFreeNode(t) \in 1 .. L
    BY <1>1, <1>2, <1>3, <2>1, LastFreeIs
  <2> QED
    BY <1>2, <1>5, <2>2
<1> QED
  BY <1>4, <1>5 DEF Put

\* A table with fewer keys than nodes has a free one.
LEMMA RoomIs ==
  ASSUME NEW t, NEW L, NEW P, NEW m, Fine(t, L, P, m), t.size < L
  PROVE  \E i \in 1 .. L : t.nodes[i].key = None
<1>1. t.size = Cardinality(Filled(L, t.nodes)) /\ L \in Nat
  BY FineIs DEF Fine, Shaped
<1>2. Cardinality(1 .. L) = L
  BY <1>1, FS_Interval
<1>3. Filled(L, t.nodes) # 1 .. L
  BY <1>1, <1>2
<1> QED
  BY <1>3 DEF Filled

LEMMA FindsFree ==
  ASSUME NEW t, NEW L, NEW P, NEW m, Fine(t, L, P, m), t.size < L, Bounded(t, L)
  PROVE  tblLastFreeNode(t) # 0
<1>1. L \in Nat /\ DOMAIN t.nodes = 1 .. L /\ t.lastfree \in Nat
  BY FineIs DEF Fine, Shaped
<1>2. PICK i \in 1 .. L : t.nodes[i].key = None
  BY RoomIs
<1>3. i < t.lastfree
  BY <1>2 DEF Bounded
<1> QED
  BY <1>1, <1>2, <1>3, LastFreeIs

upto(t, L, m, i) == [k \in Key |-> IF \E j \in Filled(L, t.nodes) : j >= L + 1 - i /\ t.nodes[j].key = k THEN m[k] ELSE <<>>]
Moved(t, L, m, M, i, u) == Fine(u, M, {}, upto(t, L, m, i)) /\ Bounded(u, M) /\ u.size <= i
step(t, L, i, u) ==
  IF t.nodes[L + 1 - i].key = None THEN u ELSE put(u, t.nodes[L + 1 - i].key, t.nodes[L + 1 - i].val)
LEMMA MovedStep ==
  ASSUME NEW t, NEW L, NEW m, Fine(t, L, {}, m), NEW M \in Nat, M >= L, NEW i \in 1 .. L, NEW u, Moved(t, L, m, M, i - 1, u)
  PROVE  Moved(t, L, m, M, i, step(t, L, i, u))
<1> PICK F : F = Filled(L, t.nodes)
  OBVIOUS
<1> PICK j : j = L + 1 - i
  OBVIOUS
<1> PICK p : p = upto(t, L, m, i - 1)
  OBVIOUS
<1> PICK q : q = upto(t, L, m, i)
  OBVIOUS
<1>1. L \in Nat /\ j \in 1 .. L /\ j + 1 = L + 1 - (i - 1) /\ i \in Nat /\ i - 1 \in Nat /\ i - 1 < M
  BY FineIs
<1>2. /\ p = [k \in Key |-> IF \E l \in F : l >= j + 1 /\ t.nodes[l].key = k THEN m[k] ELSE <<>>]
      /\ q = [k \in Key |-> IF \E l \in F : l >= j /\ t.nodes[l].key = k THEN m[k] ELSE <<>>]
  BY <1>1 DEF upto
<1>3. F \subseteq 1 .. L /\ \A l \in 1 .. L : l >= j <=> (l = j \/ l >= j + 1)
  BY <1>1 DEF Filled
<1>4. Fine(u, M, {}, p) /\ Bounded(u, M) /\ u.size <= i - 1 /\ u.size \in Nat
  <2>1. Fine(u, M, {}, p) /\ Bounded(u, M) /\ u.size <= i - 1
    BY DEF Moved
  <2>2. Filled(M, u.nodes) \subseteq 1 .. M /\ IsFiniteSet(1 .. M)
    BY FS_Interval DEF Filled
  <2>3. IsFiniteSet(Filled(M, u.nodes))
    BY <2>2, FS_Subset
  <2>4. u.size \in Nat
    BY <2>1, <2>3, FS_CardinalityType DEF Fine, Shaped
  <2> QED
    BY <2>1, <2>4
<1>5. CASE t.nodes[j].key = None
  <2>1. j \notin F
    BY <1>5 DEF Filled
  <2>2. \A k : (\E l \in F : l >= j /\ t.nodes[l].key = k) <=> (\E l \in F : l >= j + 1 /\ t.nodes[l].key = k)
    BY <1>3, <2>1
  <2>3. p = q
    BY <1>2, <2>2
  <2>4. u.size <= i
    BY <1>1, <1>4
  <2> QED
    BY <1>4, <1>5, <2>3, <2>4 DEF Moved, step
<1>6. CASE t.nodes[j].key # None
  <2> PICK k : k = t.nodes[j].key
    OBVIOUS
  <2> PICK v : v = t.nodes[j].val
    OBVIOUS
  <2>1. j \in F
    BY <1>1, <1>6 DEF Filled
  <2>2. k \in Key /\ v \in Val /\ m[k] = <<v>> /\ \A l \in F : t.nodes[l].key = k => l = j
    BY <2>1, FineIs DEF Shows
  <2>3. p[k] = <<>>
    <3>1. ~ \E l \in F : l >= j + 1 /\ t.nodes[l].key = k
      BY <1>1, <2>2
    <3> QED
      BY <1>2, <2>2, <3>1
  <2>4. q = [p EXCEPT ![k] = <<v>>]
    <3>1. q[k] = <<v>>
      <4>1. j >= j
        BY <1>1
      <4>2. \E l \in F : l >= j /\ t.nodes[l].key = k
        BY <2>1, <4>1
      <4> QED
        BY <1>2, <2>2, <4>2
    <3>2. \A x \in Key : x # k => q[x] = p[x]
      <4> TAKE x \in Key
      <4>1. SUFFICES ASSUME x # k PROVE q[x] = p[x]
        OBVIOUS
      <4>2. (\E l \in F : l >= j /\ t.nodes[l].key = x) <=> (\E l \in F : l >= j + 1 /\ t.nodes[l].key = x)
        BY <1>3, <4>1
      <4> QED
        BY <1>2, <4>2
    <3>3. p = [x \in Key |-> p[x]] /\ q = [x \in Key |-> q[x]]
      BY <1>2
    <3> QED
      BY <2>2, <3>1, <3>2, <3>3
  <2>5. CanPut(u, M, {}, k)
    <3>1. u.size < M
      BY <1>1, <1>4
    <3>2. tblLastFreeNode(u) # 0
      BY <1>4, <3>1, FindsFree
    <3> QED
      BY <1>1, <3>2 DEF CanPut
  <2>6. PICK w : Put(u, put(u, k, v), M, {}, p, k, v, w)
    BY <1>4, <2>2, <2>3, <2>5, PutIs
  <2>7. Bounded(put(u, k, v), M)
    BY <1>4, <2>6, PutBounded
  <2>8. Fine(put(u, k, v), M, {}, q) /\ put(u, k, v).size <= i
    <3>1. Fine(put(u, k, v), M, {}, q)
      BY <2>4, <2>6 DEF Put
    <3>2. put(u, k, v).size = u.size + 1
      BY <2>6 DEF Put
    <3>3. u.size + 1 <= i
      BY ONLY <1>1, <1>4
    <3> QED
      BY <3>1, <3>2, <3>3
  <2> QED
    BY <1>6, <2>7, <2>8 DEF Moved, step
<1> QED
  BY <1>5, <1>6

Tables(L) == [nodes : Seq(NodeOf(L)), lastfree : 1 .. L + 1, size : Nat]
LEMMA FineTable ==
  ASSUME NEW t, NEW L, NEW P, NEW m, Fine(t, L, P, m)
  PROVE  t \in Tables(L)
<1>1. L \in Nat /\ Filled(L, t.nodes) \subseteq 1 .. L
  BY FineIs
<1>2. IsFiniteSet(Filled(L, t.nodes))
  BY <1>1, FS_Interval, FS_Subset
<1>3. t.size \in Nat
  BY <1>2, FS_CardinalityType DEF Fine, Shaped
<1>4. /\ t = [nodes |-> t.nodes, lastfree |-> t.lastfree, size |-> t.size]
      /\ t.nodes \in Seq(NodeOf(L)) /\ t.lastfree \in 1 .. L + 1
  BY DEF Fine, Shaped
<1> QED
  BY <1>3, <1>4 DEF Tables

LEMMA ResizeIs ==
  ASSUME NEW t, NEW L, NEW m, Fine(t, L, {}, m), Hashes, NEW newsize \in Nat
  PROVE  \E M \in Nat : /\ M >= availNodes(t) /\ M >= newsize /\ M >= L
                        /\ Fine(tblResize(t, newsize), M, {}, m)
                        /\ Bounded(tblResize(t, newsize), M) /\ tblResize(t, newsize).size <= L
<1>1. L \in Nat /\ Len(t.nodes) = L /\ availNodes(t) = (IF L = 0 THEN 1 ELSE L) /\ t.nodes \in Seq(NodeOf(L))
  BY FineIs, PlaceIs DEF Fine, Shaped
<1> PICK s : s = IF newsize < availNodes(t) THEN availNodes(t) ELSE newsize
  OBVIOUS
<1>2. s \in Nat /\ s >= availNodes(t) /\ s >= newsize /\ s >= L
  BY <1>1
<1> PICK M : M = ceilPow2(s)
  OBVIOUS
<1>3. M \in Nat /\ M >= s
  BY <1>2, PowerIs
<1> PICK a : a = tblAllocnodes(M)
  OBVIOUS
<1> PICK U : U = Tables(M)
  OBVIOUS
<1> PICK I : I = {p \in Nat \X U : Moved(t, L, m, M, p[1], p[2])}
  OBVIOUS
<1> PICK F : F = [p \in Nat \X U |-> step(t, L, p[1], p[2])]
  OBVIOUS
<1>4. \A i \in Nat, u \in U : (<<i, u>> \in I <=> Moved(t, L, m, M, i, u)) /\ F[<<i, u>>] = step(t, L, i, u)
  OBVIOUS
<1>5. \A i, u : Moved(t, L, m, M, i, u) => u \in U
  BY FineTable DEF Moved
<1>6. Moved(t, L, m, M, 0, a)
  <2>1. Fine(a, M, {}, Nothing)
    BY <1>3, AllocIs
  <2>2. \A j \in Filled(L, t.nodes) : ~(j >= L + 1 - 0)
    BY <1>1 DEF Filled
  <2>3. upto(t, L, m, 0) = Nothing
    BY <2>2 DEF upto, Nothing
  <2>4. a.size = 0 /\ a.lastfree = M + 1
    BY DEF tblAllocnodes
  <2>5. Bounded(a, M)
    BY <1>3, <2>4 DEF Bounded
  <2>6. a.size <= 0
    BY <2>4
  <2> QED
    BY <2>1, <2>3, <2>5, <2>6 DEF Moved
<1>7. \A i \in 1 .. L, u \in U : Moved(t, L, m, M, i - 1, u) => Moved(t, L, m, M, i, step(t, L, i, u))
  <2>1. M >= L
    BY ONLY <1>1, <1>2, <1>3
  <2> TAKE i \in 1 .. L, u \in U
  <2> QED
    BY <1>3, <2>1, MovedStep
<1>8. Kept(L, a, U, F, I)
  <2>1. a \in U /\ <<0, a>> \in I
    BY <1>4, <1>5, <1>6
  <2>2. ASSUME NEW i \in 1 .. L, NEW u \in U, <<i - 1, u>> \in I PROVE <<i, F[<<i, u>>]>> \in I
    <3>1. i - 1 \in Nat /\ i \in Nat
      BY <1>1
    <3>2. Moved(t, L, m, M, i - 1, u)
      BY <1>4, <2>2, <3>1
    <3>3. Moved(t, L, m, M, i, step(t, L, i, u))
      BY <1>7, <3>2
    <3>4. step(t, L, i, u) \in U
      BY <1>5, <3>3
    <3> QED
      BY <1>4, <3>1, <3>3, <3>4
  <2>3. I \subseteq Nat \X U
    OBVIOUS
  <2> QED
    BY <1>1, <2>1, <2>2, <2>3 DEF Kept
<1> DEFINE new(x) == x = [i \in 0 .. L |-> IF i = 0 THEN a
                           ELSE IF t.nodes[L + 1 - i].key = None THEN x[i - 1]
                           ELSE put(x[i - 1], t.nodes[L + 1 - i].key, t.nodes[L + 1 - i].val)]
<1> PICK h : h = CHOOSE x : new(x)
  OBVIOUS
<1>9. tblResize(t, newsize) = h[L]
  BY <1>1 DEF tblResize
<1>10. \E x : new(x)
  <2> PICK g : g = [i \in 0 .. L |-> g[i]] /\ g \in [0 .. L -> U] /\ Looped(g, L, a, U, F)
    BY <1>8, LoopExists
  <2>1. \A i \in 0 .. L : g[i] = IF i = 0 THEN a ELSE step(t, L, i, g[i - 1])
    <3> TAKE i \in 0 .. L
    <3>1. CASE i = 0
      BY <3>1 DEF Looped
    <3>2. CASE i # 0
      <4>1. i \in 1 .. L /\ i \in Nat /\ i - 1 \in 0 .. L
        BY <1>1, <3>2
      <4> QED
        BY <1>4, <3>2, <4>1 DEF Looped
    <3> QED
      BY <3>1, <3>2
  <2>2. new(g)
    BY <2>1 DEF step
  <2> HIDE DEF new
  <2> QED
    BY <2>2
<1>11. new(h)
  <2> HIDE DEF new
  <2> QED
    BY <1>10
<1>12. \A i \in 0 .. L : h[i] = IF i = 0 THEN a ELSE step(t, L, i, h[i - 1])
  BY <1>11 DEF step
<1> HIDE DEF new
<1>13. Looped(h, L, a, U, F)
  <2>1. 0 \in 0 .. L /\ \A i \in 1 .. L : i \in 0 .. L /\ i # 0 /\ i \in Nat
    BY <1>1
  <2> QED
    BY <1>4, <1>12, <2>1 DEF Looped
<1>14. Moved(t, L, m, M, L, h[L])
  <2>1. \A i \in 0 .. L : <<i, h[i]>> \in I
    BY <1>8, <1>13, LoopKeeps
  <2>2. L \in 0 .. L
    BY <1>1
  <2>3. <<L, h[L]>> \in I
    BY <2>1, <2>2
  <2> QED
    BY <2>3
<1>15. upto(t, L, m, L) = m
  <2>1. m = [k \in Key |-> m[k]] /\ \A k \in Key : m[k] # <<>> => \E j \in Filled(L, t.nodes) : t.nodes[j].key = k
    BY FineIs DEF Shows
  <2>2. \A j \in Filled(L, t.nodes) : j >= L + 1 - L
    BY <1>1 DEF Filled
  <2>3. \A k \in Key : upto(t, L, m, L)[k] = m[k]
    BY <2>1, <2>2 DEF upto
  <2>4. upto(t, L, m, L) = [k \in Key |-> upto(t, L, m, L)[k]]
    BY DEF upto
  <2> QED
    BY <2>1, <2>3, <2>4
<1>16. Fine(h[L], M, {}, m) /\ Bounded(h[L], M) /\ h[L].size <= L
  BY <1>14, <1>15 DEF Moved
<1> PICK r : r = tblResize(t, newsize)
  OBVIOUS
<1>17. Fine(r, M, {}, m) /\ Bounded(r, M) /\ r.size <= L
  BY <1>9, <1>16
<1>18. M >= availNodes(t) /\ M >= newsize /\ M >= L
  <2>1. availNodes(t) \in Nat
    BY <1>1
  <2> QED
    BY ONLY <1>1, <1>2, <1>3, <2>1, newsize \in Nat
<1> QED
  BY <1>3, <1>17, <1>18

-----------------------------------------------------------------------------
(***************************************************************************)
(* Adding a key, and giving one another value.                             *)
(***************************************************************************)
LEMMA AddIs ==
  ASSUME NEW t, NEW L, NEW m, NEW k \in Key, NEW v \in Val, Fine(t, L, {}, m), m[k] = <<>>, Hashes
  PROVE  \E M : Fine(tblAdd(t, k, v), M, {}, [m EXCEPT ![k] = <<v>>])
<1>1. L \in Nat /\ DOMAIN t.nodes = 1 .. L /\ t.lastfree \in Nat /\ t.nodes \in Seq(NodeOf(L)) /\ Len(t.nodes) = L
      /\ (t.nodes = <<>> <=> L = 0) /\ availNodes(t) = IF L = 0 THEN 1 ELSE L
  <2>1. L \in Nat /\ DOMAIN t.nodes = 1 .. L /\ Len(t.nodes) = L /\ (t.nodes = <<>> <=> L = 0)
    BY FineIs
  <2>2. t.nodes \in Seq(NodeOf(L)) /\ t.lastfree \in 1 .. L + 1
    BY DEF Fine, Shaped
  <2>3. availNodes(t) = IF L = 0 THEN 1 ELSE L
    BY <2>1, <2>2, PlaceIs
  <2> QED
    BY <2>1, <2>2, <2>3
<1>2. CASE ~mustGrow(t, k)
  <2>1. ~placeTaken(t, k) \/ tblLastFreeNode(t) # 0
    BY <1>2 DEF mustGrow
  <2>2. L >= 1
    <3>1. CASE ~placeTaken(t, k)
      BY <1>1, <3>1 DEF placeTaken
    <3>2. CASE tblLastFreeNode(t) # 0
      <4>1. tblLastFreeNode(t) \in 1 .. L
        BY <1>1, <3>2, LastFreeIs
      <4> QED
        BY <1>1, <4>1
    <3> QED
      BY <2>1, <3>1, <3>2
  <2>3. CanPut(t, L, {}, k)
    BY <2>1, <2>2 DEF CanPut
  <2>4. PICK w : Put(t, put(t, k, v), L, {}, m, k, v, w)
    BY <2>3, PutIs
  <2>5. tblAdd(t, k, v) = put(t, k, v)
    BY <1>2 DEF tblAdd
  <2> QED
    BY <2>4, <2>5 DEF Put
<1>3. CASE mustGrow(t, k)
  <2> PICK u : u = tblResize(t, availNodes(t) + 1)
    OBVIOUS
  <2>1. availNodes(t) + 1 \in Nat
    BY <1>1
  <2>2. PICK M \in Nat : M >= availNodes(t) + 1 /\ Fine(u, M, {}, m) /\ Bounded(u, M) /\ u.size <= L
    BY <2>1, ResizeIs
  <2>3. u.size < M /\ M >= 1
    <3>1. u \in Tables(M)
      BY <2>2, FineTable
    <3>2. u.size \in Nat
      BY <3>1 DEF Tables
    <3> QED
      BY <1>1, <2>2, <3>2
  <2>4. tblLastFreeNode(u) # 0
    BY <2>2, <2>3, FindsFree
  <2>5. CanPut(u, M, {}, k)
    BY <2>3, <2>4 DEF CanPut
  <2>6. PICK w : Put(u, put(u, k, v), M, {}, m, k, v, w)
    BY <2>2, <2>5, PutIs
  <2>7. tblAdd(t, k, v) = put(u, k, v)
    BY <1>3 DEF tblAdd
  <2> QED
    BY <2>6, <2>7 DEF Put
<1> QED
  BY <1>2, <1>3

LEMMA SetIs ==
  ASSUME NEW t, NEW L, NEW m, NEW k \in Key, NEW v \in Val, Fine(t, L, {}, m), Hashes
  PROVE  \E M : Fine(tblSet(t, k, v), M, {}, [m EXCEPT ![k] = <<v>>])
<1> PICK n : n = tblFind(t, k)
  OBVIOUS
<1>1. CASE n = 0 /\ m[k] = <<>>
  <2>1. tblSet(t, k, v) = tblAdd(t, k, v)
    BY <1>1 DEF tblSet
  <2> PICK q : q = [m EXCEPT ![k] = <<v>>]
    OBVIOUS
  <2>2. PICK M : Fine(tblAdd(t, k, v), M, {}, q)
    BY <1>1, AddIs
  <2>3. Fine(tblSet(t, k, v), M, {}, q)
    BY <2>1, <2>2
  <2> QED
    BY <2>3
<1>2. CASE n \in Filled(L, t.nodes) /\ t.nodes[n].key = k
  <2> PICK u : u = tblSet(t, k, v)
    OBVIOUS
  <2> PICK ns : ns = t.nodes
    OBVIOUS
  <2> PICK us : us = u.nodes
    OBVIOUS
  <2> PICK at : at = Place(t)
    OBVIOUS
  <2> PICK F : F = Filled(L, ns)
    OBVIOUS
  <2>1. n # 0 /\ n \in 1 .. L /\ L \in Nat /\ Vector(L, ns) /\ Len(ns) = L /\ ns \in Seq(NodeOf(L))
    <3>1. 0 \notin Filled(L, ns) /\ Filled(L, ns) \subseteq 1 .. L /\ L \in Nat /\ Vector(L, ns) /\ Len(ns) = L
      BY FineIs
    <3> QED
      BY <1>2, <3>1 DEF Fine, Shaped
  <2>2. u = [t EXCEPT !.nodes[n].val = v]
    BY <2>1 DEF tblSet
  <2>3. t = [nodes |-> ns, lastfree |-> t.lastfree, size |-> t.size]
    BY DEF Fine, Shaped
  <2>4. PICK f, z : t = [nodes |-> ns, lastfree |-> f, size |-> z]
    BY <2>3
  <2>5. u = [nodes |-> [ns EXCEPT ![n].val = v], lastfree |-> f, size |-> z]
    BY ONLY <2>2, <2>4
  <2>6. us = [ns EXCEPT ![n].val = v] /\ u = [nodes |-> us, lastfree |-> t.lastfree, size |-> t.size]
    BY <2>4, <2>5
  <2>7. ns \in [1 .. L -> NodeOf(L)]
    BY <2>1 DEF Vector
  <2>8. PICK a, b, c : ns[n] = [key |-> a, val |-> b, next |-> c] /\ a \in Key \cup {None} /\ c \in 0 .. L
    BY <2>1, <2>7 DEF NodeOf
  <2>9. us[n] = [key |-> a, val |-> v, next |-> c] /\ \A i \in 1 .. L : i # n => us[i] = ns[i]
    BY <2>1, <2>6, <2>7, <2>8
  <2>10. us[n] \in NodeOf(L)
    BY ONLY <2>8, <2>9, v \in Val DEF NodeOf
  <2>11. us \in [1 .. L -> NodeOf(L)]
    BY <2>1, <2>6, <2>7, <2>9, <2>10
  <2>12. us[n].key = k /\ us[n].val = v /\ \A i \in 1 .. L : us[i].key = ns[i].key /\ us[i].next = ns[i].next
    BY <1>2, <2>8, <2>9
  <2>13. Filled(L, us) = F
    BY <2>12 DEF Filled
  <2>14. Vector(L, us)
    BY <2>1, <2>11, <2>12 DEF Vector
  <2>15. Shows(L, ns, m) /\ Placed(L, at)
    BY DEF Fine, Chained
  <2>16. Shows(L, us, [m EXCEPT ![k] = <<v>>])
    <3>1. \A j \in F : j # n => us[j].key = ns[j].key /\ us[j].val = ns[j].val
      BY <2>9 DEF Filled
    <3>2. \A i, j \in F : us[i].key = us[j].key => i = j
      BY <2>12, <2>15 DEF Shows, Filled
    <3>3. \A i \in F : us[i].key = ns[i].key
      BY <2>12 DEF Filled
    <3>4. Keeps(L, ns, us, n)
      BY <2>13, <3>1, <3>2, <3>3 DEF Keeps
    <3>5. n \in Filled(L, us)
      BY <1>2, <2>13
    <3> QED
      BY <2>12, <2>15, <3>4, <3>5, ShowsSet
  <2>17. PICK r : Ranked(ns, at, F \ {}, r)
    BY DEF Fine, Chained
  <2>18. Ranked(us, at, F \ {}, r)
    <3>1. \A i \in F \ {} : us[i].key = ns[i].key /\ us[i].next = ns[i].next
      BY <2>12 DEF Filled
    <3> QED
      BY <2>17, <3>1, RankSame
  <2>19. us \in Seq(NodeOf(L)) /\ Len(us) = L
    BY <2>1, <2>11
  <2>20. Place(u) = at
    BY <2>1, <2>19, PlaceSame
  <2>21. Chained(L, us, at, {}, [m EXCEPT ![k] = <<v>>])
    BY <2>13, <2>14, <2>15, <2>16, <2>18 DEF Chained
  <2>22. Shaped(u, L)
    <3>1. t.lastfree \in 1 .. L + 1 /\ t.size = Cardinality(F)
      BY DEF Fine, Shaped
    <3>2. u.lastfree = t.lastfree /\ u.size = t.size
      BY <2>6
    <3> QED
      BY <2>6, <2>13, <2>19, <3>1, <3>2 DEF Shaped
  <2>23. Fine(u, L, {}, [m EXCEPT ![k] = <<v>>])
    BY <2>20, <2>21, <2>22 DEF Fine
  <2> QED
    BY <2>23
<1> QED
  BY <1>1, <1>2, FindIs

-----------------------------------------------------------------------------
(***************************************************************************)
(* Emptying a node.                                                        *)
(***************************************************************************)
Emptied(L, ns, us, n) ==
  /\ n \in Filled(L, ns) /\ NodesOf(L, us) /\ us[n] = emptyNode
  /\ \A i \in 1 .. L : i # n => us[i].key = ns[i].key /\ us[i].val = ns[i].val /\ us[i].next \in {0, ns[i].next}
Lessened(L, ns, us, at, P, m, n, Q, q) ==
  /\ q = [m EXCEPT ![ns[n].key] = <<>>]
  /\ Chained(L, ns, at, P, m) /\ Emptied(L, ns, us, n) /\ Q \subseteq Filled(L, ns) \ {n}
  /\ \E r : Ranked(us, at, (Filled(L, ns) \ {n}) \ Q, r)
LEMMA ChainLess ==
  ASSUME NEW L, NEW ns, NEW us, NEW at, NEW P, NEW m, NEW n, NEW Q, NEW q, Lessened(L, ns, us, at, P, m, n, Q, q)
  PROVE  /\ Chained(L, us, at, Q, q)
         /\ Filled(L, us) = Filled(L, ns) \ {n}
<1> PICK F : F = Filled(L, ns)
  OBVIOUS
<1>0. /\ Chained(L, ns, at, P, m) /\ Emptied(L, ns, us, n) /\ Q \subseteq F \ {n}
      /\ \E r : Ranked(us, at, (F \ {n}) \ Q, r)
  BY DEF Lessened
<1>1. /\ n \in F /\ us \in [1 .. L -> NodeOf(L)] /\ us[n].key = None /\ us[n].next = 0
      /\ \A i \in 1 .. L : i # n => us[i].key = ns[i].key /\ us[i].val = ns[i].val /\ us[i].next \in {0, ns[i].next}
  BY <1>0 DEF Emptied, NodesOf, emptyNode
<1>2. Filled(L, us) = F \ {n}
  BY <1>1 DEF Filled
<1>3. Vector(L, us)
  <2>1. L \in Nat /\ \A i \in 1 .. L : ns[i].key = None => ns[i].next = 0
    BY <1>0 DEF Chained, Vector
  <2>2. \A i \in 1 .. L : us[i].key = None => us[i].next = 0
    BY <1>1, <2>1
  <2> QED
    BY <1>1, <2>1, <2>2 DEF Vector
<1>4. Shows(L, us, q)
  <2>1. \A i \in Filled(L, us) : us[i].key = ns[i].key /\ us[i].val = ns[i].val
    BY <1>1, <1>2 DEF Filled
  <2>2. Shows(L, ns, m)
    BY <1>0 DEF Chained
  <2>3. Shows(L, us, [m EXCEPT ![ns[n].key] = <<>>])
    BY <1>1, <1>2, <2>1, <2>2, ShowsLess
  <2> QED
    BY <2>3 DEF Lessened
<1>5. Placed(L, at)
  BY <1>0 DEF Chained
<1>6. Chained(L, us, at, Q, q)
  BY <1>0, <1>2, <1>3, <1>4, <1>5 DEF Chained
<1> QED
  BY <1>2, <1>6

Pieces(c, cs, f, z) == c = [nodes |-> cs, lastfree |-> f, size |-> z]
Zeroing(L, c, cs, f, z, n) == L \in Nat /\ f \in 1 .. L + 1 /\ n \in 1 .. L /\ Pieces(c, cs, f, z) /\ NodesOf(L, cs)
LEMMA ZeroTable ==
  ASSUME NEW L, NEW c, NEW cs, NEW f, NEW z, NEW n, Zeroing(L, c, cs, f, z, n)
  PROVE  /\ Pieces(zero(c, n), zero(c, n).nodes, zero(c, n).lastfree, zero(c, n).size)
         /\ NodesOf(L, zero(c, n).nodes) /\ zero(c, n).nodes \in Seq(NodeOf(L)) /\ Len(zero(c, n).nodes) = L
         /\ zero(c, n).nodes[n] = emptyNode /\ \A i \in 1 .. L : i # n => zero(c, n).nodes[i] = cs[i]
         /\ zero(c, n).lastfree = (IF f < n THEN n + 1 ELSE f) /\ zero(c, n).lastfree \in 1 .. L + 1
         /\ zero(c, n).size = z - 1
<1> PICK u : u = zero(c, n)
  OBVIOUS
<1>0. L \in Nat /\ f \in 1 .. L + 1 /\ n \in 1 .. L /\ Pieces(c, cs, f, z) /\ NodesOf(L, cs)
  BY DEF Zeroing
<1>1. c.nodes = cs /\ c.lastfree = f /\ c.size = z
  BY <1>0 DEF Pieces
<1>2. u = [nodes |-> [cs EXCEPT ![n] = emptyNode], lastfree |-> IF f < n THEN n + 1 ELSE f, size |-> z - 1]
  BY <1>1 DEF zero
<1>3. u.nodes = [cs EXCEPT ![n] = emptyNode] /\ u.lastfree = (IF f < n THEN n + 1 ELSE f) /\ u.size = z - 1
      /\ u = [nodes |-> u.nodes, lastfree |-> u.lastfree, size |-> u.size]
  BY <1>2
<1>4. emptyNode \in NodeOf(L)
  <2>1. 0 \in 0 .. L
    BY <1>0
  <2> QED
    BY <2>1 DEF emptyNode, NodeOf
<1>5. cs \in [1 .. L -> NodeOf(L)]
  BY <1>0 DEF NodesOf
<1>6. u.nodes \in [1 .. L -> NodeOf(L)] /\ u.nodes[n] = emptyNode /\ \A i \in 1 .. L : i # n => u.nodes[i] = cs[i]
  BY <1>0, <1>3, <1>4, <1>5
<1>7. u.nodes \in Seq(NodeOf(L)) /\ Len(u.nodes) = L
  BY <1>0, <1>6
<1>8. u.lastfree \in 1 .. L + 1
  BY <1>0, <1>3
<1>9. Pieces(u, u.nodes, u.lastfree, u.size) /\ NodesOf(L, u.nodes)
  BY <1>3, <1>6 DEF Pieces, NodesOf
<1> QED
  BY <1>3, <1>6, <1>7, <1>8, <1>9

\* Table u is table t with node n emptied: its lastfree, and the nodes that stay.
Zeroed(t, u, L, n) ==
  /\ Place(u) = Place(t) /\ Filled(L, u.nodes) = Filled(L, t.nodes) \ {n} /\ u.nodes[n].key = None
  /\ \A i \in 1 .. L : i # n => u.nodes[i].key = t.nodes[i].key
  /\ u.lastfree = IF t.lastfree < n THEN n + 1 ELSE t.lastfree
ZeroOf(t, L, P, m, n, c, cs, Q, q) ==
  /\ Fine(t, L, P, m) /\ Pieces(c, cs, t.lastfree, t.size) /\ NodesOf(L, cs) /\ q = [m EXCEPT ![t.nodes[n].key] = <<>>]
  /\ Emptied(L, t.nodes, zero(c, n).nodes, n) /\ Q \subseteq Filled(L, t.nodes) \ {n}
  /\ \E r : Ranked(zero(c, n).nodes, Place(t), (Filled(L, t.nodes) \ {n}) \ Q, r)
LEMMA ZeroIs ==
  ASSUME NEW t, NEW L, NEW P, NEW m, NEW n, NEW c, NEW cs, NEW Q, NEW q, ZeroOf(t, L, P, m, n, c, cs, Q, q)
  PROVE  Fine(zero(c, n), L, Q, q) /\ Zeroed(t, zero(c, n), L, n)
<1> PICK u : u = zero(c, n)
  OBVIOUS
<1> PICK at : at = Place(t)
  OBVIOUS
<1> PICK F : F = Filled(L, t.nodes)
  OBVIOUS
<1>0. /\ Fine(t, L, P, m) /\ Pieces(c, cs, t.lastfree, t.size) /\ NodesOf(L, cs) /\ q = [m EXCEPT ![t.nodes[n].key] = <<>>]
      /\ Emptied(L, t.nodes, u.nodes, n) /\ Q \subseteq F \ {n} /\ \E r : Ranked(u.nodes, at, (F \ {n}) \ Q, r)
  BY DEF ZeroOf
<1>1. L \in Nat /\ n \in F /\ F \subseteq 1 .. L /\ n \in 1 .. L
  BY <1>0, FineIs DEF Emptied
<1>2. t.lastfree \in 1 .. L + 1 /\ t.nodes \in Seq(NodeOf(L)) /\ Len(t.nodes) = L /\ t.size = Cardinality(F) /\ Chained(L, t.nodes, at, P, m)
  BY <1>0 DEF Fine, Shaped
<1>3. /\ Pieces(u, u.nodes, u.lastfree, u.size)
      /\ NodesOf(L, u.nodes) /\ u.nodes \in Seq(NodeOf(L)) /\ Len(u.nodes) = L
      /\ u.lastfree = (IF t.lastfree < n THEN n + 1 ELSE t.lastfree) /\ u.lastfree \in 1 .. L + 1
      /\ u.size = t.size - 1
  <2>1. NodesOf(L, cs) /\ Pieces(c, cs, t.lastfree, t.size)
    BY <1>0
  <2>2. Zeroing(L, c, cs, t.lastfree, t.size, n)
    BY <1>1, <1>2, <2>1 DEF Zeroing
  <2> QED
    BY ONLY <2>2, ZeroTable, u = zero(c, n)
<1>4. Chained(L, u.nodes, at, Q, q) /\ Filled(L, u.nodes) = F \ {n}
  <2>1. Lessened(L, t.nodes, u.nodes, at, P, m, n, Q, q)
    BY <1>0, <1>2 DEF Lessened
  <2> QED
    BY ONLY <2>1, ChainLess, F = Filled(L, t.nodes)
<1>5. Place(u) = at
  BY <1>1, <1>2, <1>3, PlaceSame
<1>6. u.size = Cardinality(F \ {n})
  <2>1. IsFiniteSet(1 .. L)
    BY <1>1, FS_Interval
  <2>2. IsFiniteSet(F)
    BY ONLY <1>1, <2>1, FS_Subset
  <2>3. Cardinality(F \ {n}) = Cardinality(F) - 1
    BY ONLY <1>1, <2>2, FS_RemoveElement
  <2> QED
    BY <1>2, <1>3, <2>3
<1>7. Shaped(u, L)
  BY <1>3, <1>4, <1>6 DEF Shaped, Pieces
<1>8. Zeroed(t, u, L, n)
  <2>1. u.nodes[n].key = None /\ \A i \in 1 .. L : i # n => u.nodes[i].key = t.nodes[i].key
    BY <1>0 DEF Emptied, emptyNode
  <2> QED
    BY <1>3, <1>4, <1>5, <2>1 DEF Zeroed
<1>9. Fine(u, L, Q, q)
  BY <1>4, <1>5, <1>7 DEF Fine
<1> QED
  BY <1>8, <1>9

-----------------------------------------------------------------------------
(***************************************************************************)
(* Adding again a key whose node was chained behind the key removed: there *)
(* is always a node for it, so the nodes are not replaced meanwhile.       *)
(***************************************************************************)
Ready(u, L, P) == u.lastfree \notin P \/ \E f \in 1 .. L : f < u.lastfree /\ u.nodes[f].key = None
Pending(u, L, P, m, at, h) ==
  /\ Fine(u, L, P, m) /\ Ready(u, L, P) /\ Place(u) = at
  /\ h \in 1 .. L /\ h \notin P /\ (u.nodes[h].key = None \/ at[u.nodes[h].key] = h)
  /\ \A i \in P : at[u.nodes[i].key] = h
LEMMA ReaddIs ==
  ASSUME NEW u, NEW L, NEW P, NEW m, NEW at, NEW h, NEW n \in P, Pending(u, L, P, m, at, h)
  PROVE  Pending(readd(u, n, L), L, P \ {n}, m, at, h)
<1> PICK ns : ns = u.nodes
  OBVIOUS
<1> PICK F : F = Filled(L, ns)
  OBVIOUS
<1> PICK k : k = ns[n].key
  OBVIOUS
<1> PICK v : v = ns[n].val
  OBVIOUS
<1> PICK z : z = zero(u, n)
  OBVIOUS
<1> PICK Q : Q = P \ {n}
  OBVIOUS
<1> PICK q : q = [m EXCEPT ![k] = <<>>]
  OBVIOUS
<1>1. /\ Fine(u, L, P, m) /\ Ready(u, L, P) /\ Place(u) = at
      /\ h \in 1 .. L /\ h \notin P /\ (ns[h].key = None \/ at[ns[h].key] = h)
      /\ \A i \in P : at[ns[i].key] = h
  BY DEF Pending
<1>2. L \in Nat /\ F \subseteq 1 .. L /\ Len(ns) = L /\ Vector(L, ns) /\ Shows(L, ns, m) /\ 0 \notin F
  BY <1>1, FineIs
<1>3. P \subseteq F /\ n \in F /\ n \in 1 .. L /\ u.lastfree \in 1 .. L + 1 /\ n # h
      /\ u = [nodes |-> ns, lastfree |-> u.lastfree, size |-> u.size]
  BY <1>1, <1>2 DEF Fine, Shaped, Chained
<1>4. NodesOf(L, ns) /\ Pieces(u, ns, u.lastfree, u.size)
  BY <1>2, <1>3 DEF Vector, NodesOf, Pieces
<1>5. z.nodes[n] = emptyNode /\ NodesOf(L, z.nodes) /\ \A i \in 1 .. L : i # n => z.nodes[i] = ns[i]
  <2>1. Zeroing(L, u, ns, u.lastfree, u.size, n)
    BY <1>2, <1>3, <1>4 DEF Zeroing
  <2> QED
    BY ONLY <2>1, ZeroTable, z = zero(u, n)
<1>6. Fine(z, L, Q, q) /\ Zeroed(u, z, L, n)
  <2>1. Emptied(L, ns, z.nodes, n)
    BY <1>3, <1>5 DEF Emptied
  <2>2. PICK r : Ranked(ns, at, F \ P, r)
    BY <1>1 DEF Fine, Chained
  <2>3. Ranked(z.nodes, at, F \ P, r)
    <3>1. \A i \in F \ P : z.nodes[i].key = ns[i].key /\ z.nodes[i].next = ns[i].next
      BY <1>2, <1>5
    <3> QED
      BY ONLY <2>2, <3>1, RankSame
  <2>4. (F \ {n}) \ Q = F \ P
    OBVIOUS
  <2>5. ZeroOf(u, L, P, m, n, u, ns, Q, q)
    BY <1>1, <1>3, <1>4, <2>1, <2>3, <2>4 DEF ZeroOf
  <2> QED
    BY ONLY <2>5, ZeroIs, z = zero(u, n)
<1>7. k \in Key /\ v \in Val /\ m[k] = <<v>> /\ at[k] = h
  BY <1>1, <1>2, <1>3 DEF Shows
<1>8. /\ Place(z) = at /\ Filled(L, z.nodes) = F \ {n} /\ z.nodes[n].key = None
      /\ \A i \in 1 .. L : i # n => z.nodes[i].key = ns[i].key
      /\ z.lastfree = IF u.lastfree < n THEN n + 1 ELSE u.lastfree
  BY <1>1, <1>6 DEF Zeroed
<1>9. tblLastFreeNode(z) # 0
  <2>1. \E f \in 1 .. L : f < z.lastfree /\ z.nodes[f].key = None
    <3>1. CASE u.lastfree = n
      <4>1. PICK f \in 1 .. L : f < u.lastfree /\ ns[f].key = None
        BY <1>1, <3>1 DEF Ready
      <4>2. z.nodes[f].key = None /\ f < z.lastfree
        BY <1>3, <1>8, <3>1, <4>1
      <4> QED
        BY <4>2
    <3>2. CASE u.lastfree # n
      <4>1. n < z.lastfree
        BY <1>3, <1>8, <3>2
      <4> QED
        BY <1>3, <1>8, <4>1
    <3> QED
      BY <3>1, <3>2
  <2>2. DOMAIN z.nodes = 1 .. L /\ z.lastfree \in Nat
    BY <1>6, FineIs DEF Fine, Shaped
  <2> QED
    BY <1>2, <2>1, <2>2, LastFreeIs
<1>10. CanPut(z, L, Q, k)
  <2>1. Place(z)[k] = h /\ tblKey2Node(z, k) = h /\ L >= 1
    <3>1. Place(z)[k] = tblKey2Node(z, k)
      BY <1>6, <1>7, FineIs
    <3> QED
      BY <1>1, <1>2, <1>7, <1>8, <3>1
  <2>2. placeTaken(z, k) => z.nodes[h].key # None
    <3>1. z.nodes # <<>>
      BY <1>6, <2>1, FineIs
    <3> QED
      BY <2>1, <3>1 DEF placeTaken, isFree
  <2>3. z.nodes[h].key # None => at[z.nodes[h].key] = h
    BY <1>1, <1>3, <1>8
  <2> QED
    BY <1>1, <1>8, <1>9, <2>1, <2>2, <2>3 DEF CanPut
<1> PICK w : w = put(z, k, v)
  OBVIOUS
<1>11. readd(u, n, L) = w
  <2>1. ~mustGrow(z, k)
    BY <1>9 DEF mustGrow
  <2>2. tblAdd(z, k, v) = w
    BY <2>1 DEF tblAdd
  <2> QED
    BY <1>2, <2>2 DEF readd
<1>12. PICK y : Put(z, w, L, Q, q, k, v, y)
  <2>1. DOMAIN m = Key
    BY <1>2 DEF Shows
  <2>2. q[k] = <<>>
    BY <1>7, <2>1
  <2> QED
    BY <1>6, <1>7, <1>10, <2>2, PutIs
<1>13. Fine(w, L, Q, m) /\ Place(w) = at
  <2>1. Fine(w, L, Q, [q EXCEPT ![k] = <<v>>]) /\ Place(w) = Place(z)
    BY <1>12 DEF Put
  <2>2. [q EXCEPT ![k] = <<v>>] = m
    <3>1. m = [x \in Key |-> m[x]]
      BY <1>2 DEF Shows
    <3> QED
      BY <1>7, <3>1
  <2> QED
    BY <1>8, <2>1, <2>2
<1>14. /\ y \in 1 .. L /\ y \notin F \ {n} /\ Filled(L, w.nodes) = (F \ {n}) \cup {y}
       /\ at[w.nodes[h].key] = h /\ \A i \in Q : w.nodes[i].key = z.nodes[i].key
       /\ (y = h /\ w.lastfree = z.lastfree) \/ w.lastfree = y
  BY <1>7, <1>8, <1>12 DEF Put
<1>15. Ready(w, L, Q)
  <2>1. CASE w.lastfree = y
    BY <1>3, <1>14, <2>1 DEF Ready
  <2>2. CASE y = h /\ w.lastfree = z.lastfree
    <3>1. w.nodes[n].key = None
      BY <1>3, <1>14, <2>2 DEF Filled
    <3>2. CASE u.lastfree = n
      BY <1>3, <1>8, <2>2, <3>2 DEF Ready
    <3>3. CASE u.lastfree # n
      <4>1. n < w.lastfree
        BY <1>3, <1>8, <2>2, <3>3
      <4> QED
        BY <1>3, <3>1, <4>1 DEF Ready
    <3> QED
      BY <3>2, <3>3
  <2> QED
    BY <1>14, <2>1, <2>2
<1>16. \A i \in Q : at[w.nodes[i].key] = h
  BY <1>1, <1>2, <1>3, <1>8, <1>14
<1>17. Pending(w, L, Q, m, at, h)
  BY <1>1, <1>13, <1>14, <1>15, <1>16 DEF Pending
<1> QED
  BY <1>11, <1>17

-----------------------------------------------------------------------------
(***************************************************************************)
(* Removing a key.                                                         *)
(***************************************************************************)
\* k is found at x, the node of rank d in the chain f from h.
Removal(t, L, m, k, x, h, f, d, r) ==
  /\ Fine(t, L, {}, m) /\ Ranked(t.nodes, Place(t), Filled(L, t.nodes), r)
  /\ x \in Filled(L, t.nodes) /\ t.nodes[x].key = k /\ Place(t)[k] = h /\ h \in 1 .. L
  /\ Met(f, L, t.nodes, h) /\ r[x] = d /\ d \in 0 .. L - 1 /\ f[d] = x
  /\ \A e \in 0 .. L : f[e] # 0 => /\ f[e] \in Filled(L, t.nodes) /\ Place(t)[t.nodes[f[e]].key] = h /\ r[f[e]] = e
  /\ \A i \in Filled(L, t.nodes) : Place(t)[t.nodes[i].key] = h => r[i] \in 0 .. L - 1 /\ f[r[i]] = i
LEMMA RemovalIs ==
  ASSUME NEW t, NEW L, NEW m, NEW k \in Key, NEW x, NEW h, NEW f, NEW d, Fine(t, L, {}, m),
         x = tblFind(t, k), x # 0, h = tblKey2Node(t, k), f = chain(t.nodes, h),
         d = CHOOSE e \in 0 .. L - 1 : f[e] = x
  PROVE  \E r : Removal(t, L, m, k, x, h, f, d, r)
<1> PICK ns : ns = t.nodes
  OBVIOUS
<1> PICK at : at = Place(t)
  OBVIOUS
<1> PICK F : F = Filled(L, ns)
  OBVIOUS
<1>1. /\ L \in Nat /\ F \subseteq 1 .. L /\ Len(ns) = L /\ Vector(L, ns) /\ at[k] = h /\ (L >= 1 => h \in 1 .. L)
      /\ x \in F /\ ns[x].key = k
  BY FineIs, FindIs
<1>2. h \in 1 .. L /\ h \in 0 .. L
  BY <1>1
<1>3. PICK r : Ranked(ns, at, F, r)
  <2>1. F \ {} = F
    OBVIOUS
  <2> QED
    BY <2>1 DEF Fine, Chained
<1>4. Met(f, L, ns, h)
  BY <1>1, <1>2, ChainIs
<1>5. h \in F /\ at[ns[h].key] = h
  BY <1>1, <1>3 DEF Ranked, Linked
<1>6. /\ \A e \in 0 .. L : f[e] # 0 => f[e] \in F /\ at[ns[f[e]].key] = h /\ r[f[e]] = e
      /\ \A i \in F : at[ns[i].key] = h => r[i] \in 0 .. L - 1 /\ f[r[i]] = i
  <2>1. WalkOf(L, ns, at, F, r, h, f)
    BY <1>1, <1>3, <1>4, <1>5 DEF WalkOf
  <2> QED
    BY ONLY <2>1, WalkIs
<1>7. d = r[x] /\ d \in 0 .. L - 1 /\ f[d] = x
  <2>1. r[x] \in 0 .. L - 1 /\ f[r[x]] = x
    BY <1>1, <1>6
  <2>2. d \in 0 .. L - 1 /\ f[d] = x
    BY <2>1
  <2>3. d \in 0 .. L
    BY <1>1, <2>2
  <2> QED
    BY <1>6, <2>2, <2>3
<1> QED
  BY <1>1, <1>2, <1>3, <1>4, <1>6, <1>7 DEF Removal

\* The nodes still to be added again when those up to rank e have been.
Rest(t, L, h, r, d, e) == {i \in Filled(L, t.nodes) : Place(t)[t.nodes[i].key] = h /\ r[i] > e /\ r[i] > d}
cutAt(t, f, d) == IF d = 0 THEN t ELSE unlink(t, f[d - 1])
LEMMA CutIs ==
  ASSUME NEW t, NEW L, NEW m, NEW k, NEW x, NEW h, NEW f, NEW d, NEW r, Removal(t, L, m, k, x, h, f, d, r),
         NEW c, c = cutAt(t, f, d)
  PROVE  /\ Pieces(c, c.nodes, t.lastfree, t.size) /\ NodesOf(L, c.nodes)
         /\ \A i \in 1 .. L : c.nodes[i].key = t.nodes[i].key /\ c.nodes[i].val = t.nodes[i].val
         /\ \A i \in 1 .. L : c.nodes[i].next \in {0, t.nodes[i].next}
         /\ \A i \in Filled(L, t.nodes) : c.nodes[i].next = IF t.nodes[i].next = x THEN 0 ELSE t.nodes[i].next
<1> PICK ns : ns = t.nodes
  OBVIOUS
<1> PICK at : at = Place(t)
  OBVIOUS
<1> PICK F : F = Filled(L, ns)
  OBVIOUS
<1>1. /\ Fine(t, L, {}, m) /\ Ranked(ns, at, F, r)
      /\ x \in F /\ ns[x].key = k /\ at[k] = h /\ h \in 1 .. L
      /\ Met(f, L, ns, h) /\ r[x] = d /\ d \in 0 .. L - 1 /\ f[d] = x
      /\ \A e \in 0 .. L : f[e] # 0 => f[e] \in F /\ at[ns[f[e]].key] = h /\ r[f[e]] = e
      /\ \A i \in F : at[ns[i].key] = h => r[i] \in 0 .. L - 1 /\ f[r[i]] = i
  BY DEF Removal
<1>2. L \in Nat /\ Vector(L, ns) /\ F \subseteq 1 .. L /\ 0 \notin F
  BY <1>1, FineIs
<1>3. PICK a, z : a = t.lastfree /\ z = t.size /\ t = [nodes |-> ns, lastfree |-> a, size |-> z]
  BY <1>1 DEF Fine, Shaped
<1>4. NodesOf(L, ns)
  BY <1>2 DEF Vector, NodesOf
<1>5. \A i \in F : ns[i].next = x => at[ns[i].key] = h /\ r[i] + 1 = d /\ r[i] \in Nat
  <2> TAKE i \in F
  <2>1. r[i] \in Nat /\ (ns[i].next # 0 => r[ns[i].next] = r[i] + 1 /\ at[ns[ns[i].next].key] = at[ns[i].key])
    BY <1>1 DEF Ranked, Linked
  <2> QED
    BY <1>1, <1>2, <2>1
<1>6. CASE d = 0
  <2>1. c = t
    BY <1>6 DEF cutAt
  <2>2. \A i \in F : ns[i].next # x
    BY <1>5, <1>6
  <2> QED
    BY <1>3, <1>4, <2>1, <2>2 DEF Pieces
<1>7. CASE d # 0
  <2> PICK p : p = f[d - 1]
    OBVIOUS
  <2>1. p \in F /\ ns[p].next = x
    <3>1. d \in 1 .. L /\ d - 1 \in 0 .. L
      BY <1>1, <1>2, <1>7
    <3>2. f[d] = IF p = 0 THEN 0 ELSE ns[p].next
      BY <1>1, <3>1 DEF Met
    <3> QED
      BY <1>1, <1>2, <3>1, <3>2
  <2>2. c = [t EXCEPT !.nodes[p].next = 0]
    BY <1>7 DEF cutAt, unlink
  <2>3. c = [nodes |-> [ns EXCEPT ![p].next = 0], lastfree |-> a, size |-> z]
    BY ONLY <1>3, <2>2
  <2>4. c.nodes = [ns EXCEPT ![p].next = 0] /\ c = [nodes |-> c.nodes, lastfree |-> a, size |-> z]
    BY <2>3
  <2> PICK cs : cs = c.nodes
    OBVIOUS
  <2>5. p \in 1 .. L /\ ns \in [1 .. L -> NodeOf(L)] /\ cs = [ns EXCEPT ![p].next = 0]
    BY <1>2, <1>4, <2>1, <2>4 DEF NodesOf
  <2>6. PICK b, v, y : ns[p] = [key |-> b, val |-> v, next |-> y] /\ b \in Key \cup {None} /\ v \in Val \cup {None}
    BY <2>5 DEF NodeOf
  <2>7. cs[p] = [key |-> b, val |-> v, next |-> 0] /\ \A i \in 1 .. L : i # p => cs[i] = ns[i]
    <3>1. cs[p] = [ns[p] EXCEPT !.next = 0] /\ \A i \in 1 .. L : i # p => cs[i] = ns[i]
      BY ONLY <2>5
    <3>2. PICK y1 : y1 = ns[p]
      OBVIOUS
    <3>3. y1 = [key |-> b, val |-> v, next |-> y]
      BY ONLY <2>6, <3>2
    <3>4. cs[p] = [y1 EXCEPT !.next = 0]
      BY ONLY <3>1, <3>2
    <3>5. cs[p] = [key |-> b, val |-> v, next |-> 0]
      BY ONLY <3>3, <3>4
    <3> QED
      BY <3>1, <3>5
  <2>8. cs[p] \in NodeOf(L)
    <3>1. 0 \in 0 .. L
      BY <1>2
    <3> QED
      BY ONLY <2>6, <2>7, <3>1 DEF NodeOf
  <2>9. NodesOf(L, cs)
    <3>1. cs \in [1 .. L -> NodeOf(L)]
      BY ONLY <2>5, <2>7, <2>8
    <3> QED
      BY <3>1 DEF NodesOf
  <2>10. \A i \in F : ns[i].next = x => i = p
    <3> TAKE i \in F
    <3>1. SUFFICES ASSUME ns[i].next = x PROVE i = p
      OBVIOUS
    <3>2. r[i] = d - 1 /\ f[r[i]] = i
      BY <1>1, <1>5, <3>1
    <3> QED
      BY <3>2
  <2>11. cs[p].next = 0 /\ cs[p].key = ns[p].key /\ cs[p].val = ns[p].val
    BY <2>6, <2>7
  <2>12. \A i \in F : cs[i].next = IF ns[i].next = x THEN 0 ELSE ns[i].next
    <3> TAKE i \in F
    <3>1. CASE i = p
      BY <2>1, <2>11, <3>1
    <3>2. CASE i # p
      BY <1>2, <2>7, <2>10, <3>2
    <3> QED
      BY <3>1, <3>2
  <2>13. \A i \in 1 .. L : cs[i].key = ns[i].key /\ cs[i].val = ns[i].val /\ cs[i].next \in {0, ns[i].next}
    BY <2>7, <2>11
  <2>14. Pieces(c, cs, t.lastfree, t.size)
    BY <1>3, <2>4 DEF Pieces
  <2> QED
    BY <2>9, <2>12, <2>13, <2>14
<1> QED
  BY <1>6, <1>7

LEMMA CutFirst ==
  ASSUME NEW t, NEW L, NEW m, NEW k, NEW x, NEW h, NEW f, NEW d, NEW r, Removal(t, L, m, k, x, h, f, d, r)
  PROVE  Pending(zero(cutAt(t, f, d), x), L, Rest(t, L, h, r, d, 0), [m EXCEPT ![k] = <<>>], Place(t), h)
<1> PICK ns : ns = t.nodes
  OBVIOUS
<1> PICK at : at = Place(t)
  OBVIOUS
<1> PICK F : F = Filled(L, ns)
  OBVIOUS
<1> PICK c : c = cutAt(t, f, d)
  OBVIOUS
<1> PICK cs : cs = c.nodes
  OBVIOUS
<1> PICK z : z = zero(c, x)
  OBVIOUS
<1> PICK Q : Q = Rest(t, L, h, r, d, 0)
  OBVIOUS
<1> PICK q : q = [m EXCEPT ![k] = <<>>]
  OBVIOUS
<1>1. /\ Fine(t, L, {}, m) /\ Ranked(ns, at, F, r)
      /\ x \in F /\ ns[x].key = k /\ at[k] = h /\ h \in 1 .. L
      /\ Met(f, L, ns, h) /\ r[x] = d /\ d \in 0 .. L - 1 /\ f[d] = x
      /\ \A e \in 0 .. L : f[e] # 0 => f[e] \in F /\ at[ns[f[e]].key] = h /\ r[f[e]] = e
  BY DEF Removal
<1>2. L \in Nat /\ Vector(L, ns) /\ F \subseteq 1 .. L /\ 0 \notin F /\ t.lastfree \in 1 .. L + 1
  BY <1>1, FineIs DEF Fine, Shaped
<1>3. /\ Pieces(c, cs, t.lastfree, t.size) /\ NodesOf(L, cs)
      /\ \A i \in 1 .. L : cs[i].key = ns[i].key /\ cs[i].val = ns[i].val
      /\ \A i \in 1 .. L : cs[i].next \in {0, ns[i].next}
      /\ \A i \in F : cs[i].next = IF ns[i].next = x THEN 0 ELSE ns[i].next
  BY CutIs
<1>4. z.nodes[x] = emptyNode /\ NodesOf(L, z.nodes) /\ \A i \in 1 .. L : i # x => z.nodes[i] = cs[i]
  <2>1. Zeroing(L, c, cs, t.lastfree, t.size, x)
    BY <1>1, <1>2, <1>3 DEF Zeroing
  <2> QED
    BY ONLY <2>1, ZeroTable, z = zero(c, x)
<1>5. Q = {i \in F : at[ns[i].key] = h /\ r[i] > d}
  <2>1. Q = {i \in F : at[ns[i].key] = h /\ r[i] > 0 /\ r[i] > d}
    BY DEF Rest
  <2>2. \A i \in F : r[i] \in Nat
    BY <1>1 DEF Ranked, Linked
  <2>3. \A i \in F : r[i] > d => r[i] > 0
    BY <1>1, <2>2
  <2> QED
    BY <2>1, <2>3
<1>6. (F \ {x}) \ Q = Before(ns, at, F, r, x)
  <2>1. \A i \in F : r[i] \in Nat
    BY <1>1 DEF Ranked, Linked
  <2>2. \A i \in F : at[ns[i].key] = h /\ r[i] = d => i = x
    BY <1>1 DEF Ranked, Apart
  <2>3. \A i \in F : (i # x /\ i \notin Q) <=> (at[ns[i].key] = h => r[i] < d)
    BY <1>1, <1>5, <2>1, <2>2
  <2> QED
    BY <1>1, <2>3 DEF Before
<1>7. Fine(z, L, Q, q) /\ Zeroed(t, z, L, x)
  <2>1. Emptied(L, ns, z.nodes, x)
    BY <1>1, <1>2, <1>3, <1>4 DEF Emptied
  <2> PICK B : B = Before(ns, at, F, r, x)
    OBVIOUS
  <2>2. Ranked(z.nodes, at, B, r)
    <3>1. x \notin B
      <4>1. r[x] \in Nat
        BY <1>1, <1>2
      <4> QED
        BY <1>1, <4>1 DEF Before
    <3>2. \A i \in B : z.nodes[i].key = ns[i].key /\ z.nodes[i].next = IF ns[i].next = x THEN 0 ELSE ns[i].next
      BY <1>2, <1>3, <1>4, <3>1 DEF Before
    <3> QED
      BY <1>1, <1>2, <3>2, RankCut
  <2>3. Q \subseteq F \ {x}
    BY <1>1, <1>2, <1>5
  <2>4. ZeroOf(t, L, {}, m, x, c, cs, Q, q)
    <3>1. q = [m EXCEPT ![t.nodes[x].key] = <<>>]
      BY <1>1
    <3>2. Ranked(zero(c, x).nodes, Place(t), (Filled(L, t.nodes) \ {x}) \ Q, r)
      BY <1>6, <2>2
    <3>3. Emptied(L, t.nodes, zero(c, x).nodes, x) /\ Q \subseteq Filled(L, t.nodes) \ {x}
      BY <2>1, <2>3
    <3> QED
      BY ONLY <1>1, <1>3, <3>1, <3>2, <3>3 DEF ZeroOf
  <2> QED
    BY ONLY <2>4, ZeroIs, z = zero(c, x)
<1>8. /\ Place(z) = at /\ Filled(L, z.nodes) = F \ {x} /\ z.nodes[x].key = None
      /\ \A i \in 1 .. L : i # x => z.nodes[i].key = ns[i].key
      /\ z.lastfree = IF t.lastfree < x THEN x + 1 ELSE t.lastfree
  BY <1>7 DEF Zeroed
<1>9. x \notin Q /\ Q \subseteq F
  BY <1>1, <1>2, <1>5
<1>10. Ready(z, L, Q)
  <2>1. CASE t.lastfree = x
    BY <1>1, <1>2, <1>8, <1>9, <2>1 DEF Ready
  <2>2. CASE t.lastfree # x
    <3>1. x < z.lastfree
      BY <1>1, <1>2, <1>8, <2>2
    <3> QED
      BY <1>1, <1>2, <1>8, <3>1 DEF Ready
  <2> QED
    BY <2>1, <2>2
<1>11. h \in F /\ at[ns[h].key] = h /\ r[h] = 0
  BY <1>1 DEF Ranked, Linked
<1>12. h \notin Q /\ (z.nodes[h].key = None \/ at[z.nodes[h].key] = h)
  BY <1>1, <1>2, <1>5, <1>8, <1>11
<1>13. \A i \in Q : at[z.nodes[i].key] = h
  BY <1>2, <1>5, <1>8, <1>9
<1>14. Pending(z, L, Q, q, at, h)
  BY <1>1, <1>7, <1>8, <1>10, <1>12, <1>13 DEF Pending
<1> QED
  BY <1>14

LEMMA RestNext ==
  ASSUME NEW t, NEW L, NEW m, NEW k, NEW x, NEW h, NEW f, NEW d, NEW r, Removal(t, L, m, k, x, h, f, d, r), NEW e \in 1 .. L
  PROVE  /\ f[e] # 0 /\ e > d => /\ f[e] \in Rest(t, L, h, r, d, e - 1)
                                 /\ Rest(t, L, h, r, d, e) = Rest(t, L, h, r, d, e - 1) \ {f[e]}
         /\ f[e] = 0 \/ e <= d => Rest(t, L, h, r, d, e) = Rest(t, L, h, r, d, e - 1)
<1> PICK ns : ns = t.nodes
  OBVIOUS
<1> PICK at : at = Place(t)
  OBVIOUS
<1> PICK F : F = Filled(L, ns)
  OBVIOUS
<1>1. /\ Fine(t, L, {}, m) /\ Ranked(ns, at, F, r) /\ d \in 0 .. L - 1 
      /\ \A i \in 0 .. L : f[i] # 0 => f[i] \in F /\ at[ns[f[i]].key] = h /\ r[f[i]] = i
      /\ \A i \in F : at[ns[i].key] = h => r[i] \in 0 .. L - 1 /\ f[r[i]] = i
  BY DEF Removal
<1>2. L \in Nat /\ e \in Nat /\ e - 1 \in Nat /\ e \in 0 .. L /\ d \in Nat /\ 0 \notin F
  BY <1>1, FineIs
<1>3. /\ Rest(t, L, h, r, d, e) = {i \in F : at[ns[i].key] = h /\ r[i] > e /\ r[i] > d}
      /\ Rest(t, L, h, r, d, e - 1) = {i \in F : at[ns[i].key] = h /\ r[i] > e - 1 /\ r[i] > d}
  BY DEF Rest
<1>4. \A i \in F : at[ns[i].key] = h => r[i] \in Nat /\ (r[i] > e - 1 <=> (r[i] > e \/ r[i] = e))
  BY <1>1, <1>2
<1>5. CASE f[e] # 0 /\ e > d
  <2>1. f[e] \in F /\ at[ns[f[e]].key] = h /\ r[f[e]] = e
    BY <1>1, <1>2, <1>5
  <2>2. \A i \in F : at[ns[i].key] = h => (r[i] = e <=> i = f[e])
    BY <1>1, <2>1
  <2>3. e > e - 1 /\ ~(e > e) /\ ~(e <= d)
    BY <1>2, <1>5
  <2> QED
    BY <1>3, <1>4, <1>5, <2>1, <2>2, <2>3
<1>6. CASE f[e] = 0 \/ e <= d
  <2>1. \A i \in F : at[ns[i].key] = h /\ r[i] > d => r[i] # e
    BY <1>1, <1>2, <1>4, <1>6
  <2>2. ~(f[e] # 0 /\ e > d)
    BY <1>2, <1>6
  <2> QED
    BY <1>3, <1>4, <2>1, <2>2
<1> QED
  BY <1>5, <1>6
Rechained(t, L, h, f, d, e, u) == IF e <= d \/ f[e] = 0 THEN u ELSE readd(u, f[e], L)
LEMMA RechainedIs ==
  ASSUME NEW t, NEW L, NEW m, NEW k, NEW x, NEW h, NEW f, NEW d, NEW r, Removal(t, L, m, k, x, h, f, d, r), NEW e \in 1 .. L,
         NEW u, NEW q, Pending(u, L, Rest(t, L, h, r, d, e - 1), q, Place(t), h)
  PROVE  Pending(Rechained(t, L, h, f, d, e, u), L, Rest(t, L, h, r, d, e), q, Place(t), h)
<1> PICK P : P = Rest(t, L, h, r, d, e - 1)
  OBVIOUS
<1> PICK Q : Q = Rest(t, L, h, r, d, e)
  OBVIOUS
<1> PICK at : at = Place(t)
  OBVIOUS
<1>1. Pending(u, L, P, q, at, h)
  OBVIOUS
<1>2. d \in Nat /\ e \in Nat
  <2>1. Fine(t, L, {}, m) /\ d \in 0 .. L - 1
    BY DEF Removal
  <2> QED
    BY <2>1, FineIs
<1>3. CASE f[e] # 0 /\ e > d
  <2>1. f[e] \in P /\ Q = P \ {f[e]}
    BY <1>3, RestNext
  <2> PICK w : w = readd(u, f[e], L)
    OBVIOUS
  <2>2. Pending(w, L, Q, q, at, h)
    BY <1>1, <2>1, ReaddIs
  <2>3. Rechained(t, L, h, f, d, e, u) = w
    BY <1>2, <1>3 DEF Rechained
  <2> QED
    BY <2>2, <2>3
<1>4. CASE f[e] = 0 \/ e <= d
  <2>1. Q = P
    BY <1>4, RestNext
  <2>2. Rechained(t, L, h, f, d, e, u) = u
    BY <1>4 DEF Rechained
  <2> QED
    BY <1>1, <2>1, <2>2
<1> QED
  BY <1>2, <1>3, <1>4

LEMMA RemoveIs ==
  ASSUME NEW t, NEW L, NEW m, NEW k \in Key, Fine(t, L, {}, m)
  PROVE  Fine(tblRemove(t, k), L, {}, [m EXCEPT ![k] = <<>>])
<1> PICK x : x = tblFind(t, k)
  OBVIOUS
<1>0. L \in Nat /\ Len(t.nodes) = L
  BY FineIs
<1>1. CASE x = 0
  <2>1. tblRemove(t, k) = t
    BY <1>1 DEF tblRemove
  <2>2. m[k] = <<>> /\ m = [y \in Key |-> m[y]]
    <3>1. 0 \notin Filled(L, t.nodes) /\ Shows(L, t.nodes, m)
      BY FineIs
    <3>2. m = [y \in Key |-> m[y]]
      BY <3>1 DEF Shows
    <3>3. m[k] = <<>>
      <4>1. tblFind(t, k) = 0 /\ 0 \notin Filled(L, t.nodes) /\ Fine(t, L, {}, m) /\ k \in Key
        BY <1>1, <3>1
      <4> QED
        BY ONLY <4>1, FindIs
    <3> QED
      BY <3>2, <3>3
  <2>3. [m EXCEPT ![k] = <<>>] = m
    BY <2>2
  <2> QED
    BY <2>1, <2>3
<1>2. CASE x # 0
  <2> PICK h : h = tblKey2Node(t, k)
    OBVIOUS
  <2> PICK f : f = chain(t.nodes, h)
    OBVIOUS
  <2> PICK d : d = CHOOSE e \in 0 .. L - 1 : f[e] = x
    OBVIOUS
  <2> PICK q : q = [m EXCEPT ![k] = <<>>]
    OBVIOUS
  <2> PICK at : at = Place(t)
    OBVIOUS
  <2>1. PICK r : Removal(t, L, m, k, x, h, f, d, r)
    BY <1>2, RemovalIs
  <2>2. f[d] = x
    BY <2>1 DEF Removal
  <2> PICK c : c = cutAt(t, f, d)
    OBVIOUS
  <2> PICK a : a = zero(c, x)
    OBVIOUS
  <2>3. Pending(a, L, Rest(t, L, h, r, d, 0), q, at, h)
    <3>1. Pending(zero(cutAt(t, f, d), x), L, Rest(t, L, h, r, d, 0), [m EXCEPT ![k] = <<>>], Place(t), h)
      BY ONLY <2>1, CutFirst
    <3>2. zero(cutAt(t, f, d), x) = a
      OBVIOUS
    <3> QED
      BY <3>1, <3>2
  <2> DEFINE left(y) == y = [i \in 0 .. L |-> IF i = 0 THEN a
                          ELSE IF i <= d \/ f[i] = 0 THEN y[i - 1]
                          ELSE readd(y[i - 1], f[i], L)]
  <2> PICK g : g = CHOOSE y : left(y)
    OBVIOUS
  <2>4. tblRemove(t, k) = g[L]
    BY <1>0, <1>2, <2>2 DEF tblRemove, cutAt
  <2> PICK U : U = Tables(L)
    OBVIOUS
  <2> PICK I : I = {p \in Nat \X U : Pending(p[2], L, Rest(t, L, h, r, d, p[1]), q, at, h)}
    OBVIOUS
  <2> PICK F : F = [p \in Nat \X U |-> Rechained(t, L, h, f, d, p[1], p[2])]
    OBVIOUS
  <2>5. \A i \in Nat, u \in U : /\ <<i, u>> \in I <=> Pending(u, L, Rest(t, L, h, r, d, i), q, at, h)
                                /\ F[<<i, u>>] = Rechained(t, L, h, f, d, i, u)
    OBVIOUS
  <2>6. \A u, P : Pending(u, L, P, q, at, h) => u \in U
    BY FineTable DEF Pending
  <2>7. Kept(L, a, U, F, I)
    <3>1. a \in U /\ <<0, a>> \in I
      BY <2>3, <2>5, <2>6
    <3>2. ASSUME NEW i \in 1 .. L, NEW u \in U, <<i - 1, u>> \in I PROVE <<i, F[<<i, u>>]>> \in I
      <4>1. i - 1 \in Nat /\ i \in Nat
        BY <1>0
      <4>2. Pending(u, L, Rest(t, L, h, r, d, i - 1), q, at, h)
        BY <2>5, <3>2, <4>1
      <4> PICK w : w = Rechained(t, L, h, f, d, i, u)
        OBVIOUS
      <4>3. Pending(w, L, Rest(t, L, h, r, d, i), q, at, h)
        BY <2>1, <4>2, RechainedIs
      <4>4. w \in U
        BY <2>6, <4>3
      <4> QED
        BY <2>5, <4>1, <4>3, <4>4
    <3>3. I \subseteq Nat \X U
      OBVIOUS
    <3> QED
      BY <1>0, <3>1, <3>2, <3>3 DEF Kept
  <2>8. \E y : left(y)
    <3> PICK y : y = [i \in 0 .. L |-> y[i]] /\ y \in [0 .. L -> U] /\ Looped(y, L, a, U, F)
      BY ONLY <2>7, LoopExists
    <3>1. \A i \in 0 .. L : y[i] = IF i = 0 THEN a ELSE Rechained(t, L, h, f, d, i, y[i - 1])
      <4> TAKE i \in 0 .. L
      <4>1. CASE i = 0
        BY <4>1 DEF Looped
      <4>2. CASE i # 0
        <5>1. i \in 1 .. L /\ i \in Nat /\ i - 1 \in 0 .. L
          BY <1>0, <4>2
        <5>2. y[i - 1] \in U
          BY <5>1
        <5>3. F[<<i, y[i - 1]>>] = Rechained(t, L, h, f, d, i, y[i - 1])
          BY ONLY <2>5, <5>1, <5>2
        <5>4. y[i] = F[<<i, y[i - 1]>>]
          BY <5>1, <5>2 DEF Looped
        <5> QED
          BY ONLY <4>2, <5>3, <5>4
      <4> QED
        BY <4>1, <4>2
    <3>2. left(y)
      BY <3>1 DEF Rechained
    <3> HIDE DEF left
    <3> QED
      BY <3>2
  <2>9. left(g)
    <3> HIDE DEF left
    <3> QED
      BY <2>8
  <2>10. \A i \in 0 .. L : g[i] = IF i = 0 THEN a ELSE Rechained(t, L, h, f, d, i, g[i - 1])
    BY <2>9 DEF Rechained
  <2> HIDE DEF left
  <2>11. Looped(g, L, a, U, F)
    <3>1. 0 \in 0 .. L /\ \A i \in 1 .. L : i \in 0 .. L /\ i # 0 /\ i \in Nat
      BY <1>0
    <3>2. g[0] = a
      BY <2>10, <3>1
    <3>3. ASSUME NEW i \in 1 .. L, g[i - 1] \in U PROVE g[i] = F[<<i, g[i - 1]>>]
      <4>1. F[<<i, g[i - 1]>>] = Rechained(t, L, h, f, d, i, g[i - 1])
        BY ONLY <2>5, <3>1, <3>3
      <4> QED
        BY <2>10, <3>1, <4>1
    <3> QED
      BY <3>2, <3>3 DEF Looped
  <2>12. Pending(g[L], L, Rest(t, L, h, r, d, L), q, at, h)
    <3>1. \A i \in 0 .. L : <<i, g[i]>> \in I
      BY ONLY <2>7, <2>11, LoopKeeps
    <3>2. L \in 0 .. L
      BY <1>0
    <3>3. <<L, g[L]>> \in I
      BY <3>1, <3>2
    <3> QED
      BY <3>3
  <2>13. Rest(t, L, h, r, d, L) = {}
    <3>1. \A i \in Filled(L, t.nodes) : Place(t)[t.nodes[i].key] = h => r[i] \in 0 .. L - 1
      BY <2>1 DEF Removal
    <3>2. \A j \in 0 .. L - 1 : ~(j > L)
      BY <1>0
    <3> QED
      BY <3>1, <3>2 DEF Rest
  <2>14. Fine(g[L], L, {}, q)
    BY <2>12, <2>13 DEF Pending
  <2> QED
    BY <2>4, <2>14
<1> QED
  BY <1>1, <1>2

-----------------------------------------------------------------------------
(***************************************************************************)
(* The number of entries.                                                  *)
(***************************************************************************)
LEMMA FilledIs ==
  ASSUME NEW t, NEW L, NEW P, NEW m, Fine(t, L, P, m)
  PROVE  IsFiniteSet(Filled(L, t.nodes)) /\ t.size = Cardinality(Filled(L, t.nodes)) /\ t.size \in Nat
<1>1. L \in Nat /\ Filled(L, t.nodes) \subseteq 1 .. L
  BY FineIs
<1>2. IsFiniteSet(Filled(L, t.nodes))
  BY <1>1, FS_Interval, FS_Subset
<1>3. t.size = Cardinality(Filled(L, t.nodes))
  BY DEF Fine, Shaped
<1> QED
  BY <1>2, <1>3, FS_CardinalityType

LEMMA OneEach ==
  ASSUME NEW F, NEW T, NEW g \in [F -> T], IsFiniteSet(F), \A i, j \in F : g[i] = g[j] => i = j,
         \A k \in T : \E i \in F : g[i] = k
  PROVE  IsFiniteSet(T) /\ Cardinality(T) = Cardinality(F)
<1>1. g \in Bijection(F, T)
  BY DEF Bijection, Injection, Surjection, IsInjective
<1>2. ExistsBijection(F, T)
  BY <1>1 DEF ExistsBijection
<1> QED
  BY <1>2, FS_Bijection

Held(m) == {k \in Key : m[k] # <<>>}
LEMMA SizeIs ==
  ASSUME NEW t, NEW L, NEW P, NEW m, Fine(t, L, P, m)
  PROVE  IsFiniteSet(Held(m)) /\ t.size = Cardinality(Held(m))
<1> PICK F : F = Filled(L, t.nodes)
  OBVIOUS
<1> PICK T : T = Held(m)
  OBVIOUS
<1> PICK g : g = [i \in F |-> t.nodes[i].key]
  OBVIOUS
<1>1. IsFiniteSet(F) /\ t.size = Cardinality(F)
  BY FilledIs
<1>2. /\ \A i \in F : t.nodes[i].key \in Key /\ m[t.nodes[i].key] = <<t.nodes[i].val>>
      /\ \A k \in Key : m[k] # <<>> => \E i \in F : t.nodes[i].key = k
      /\ \A i, j \in F : t.nodes[i].key = t.nodes[j].key => i = j
  BY FineIs DEF Shows
<1>3. \A i \in F : t.nodes[i].key \in T
  BY <1>2, Entry DEF Held
<1>4. \A k \in T : \E i \in F : t.nodes[i].key = k
  BY <1>2 DEF Held
<1>5. g \in [F -> T] /\ (\A i, j \in F : g[i] = g[j] => i = j) /\ \A k \in T : \E i \in F : g[i] = k
  BY <1>2, <1>3, <1>4
<1>6. IsFiniteSet(T) /\ Cardinality(T) = Cardinality(F)
  BY ONLY <1>1, <1>5, OneEach
<1> QED
  BY <1>1, <1>6

-----------------------------------------------------------------------------
(***************************************************************************)
(* The invariant of the specification.                                     *)
(***************************************************************************)
Inv == hash \in [Key -> 0 .. MaxHash] /\ \E L, m : Fine(tbl, L, {}, m)

LEMMA Reached ==
  ASSUME NEW u, NEW L, NEW m, Fine(u, L, {}, m), tbl' = u, UNCHANGED hash
  PROVE  Fine(tbl, L, {}, m)'
<1>1. Place(tbl)' = Place(u)
  BY DEF Place, tblKey2Node, hash2NodeDiv, hash2NodeMod2, availNodes
<1>2. Shaped(tbl, L)'
  BY DEF Fine, Shaped, Filled, NodeOf
<1>3. Chained(L, u.nodes, Place(u), {}, m)
  BY DEF Fine
<1>4. Chained(L, tbl.nodes, Place(tbl), {}, m)'
  BY <1>1, <1>3
<1> QED
  BY <1>2, <1>4 DEF Fine

LEMMA HashesAre == ASSUME hash \in [Key -> 0 .. MaxHash] PROVE Hashes
<1>1. \A k \in Key : hash[k] \in Nat
  BY BoundsAreNumbers
<1> QED
  BY <1>1 DEF Hashes

LEMMA InvInit == Init => Inv
<1> SUFFICES ASSUME Init PROVE Inv
  OBVIOUS
<1>1. PICK size \in 0 .. MaxNodes : tbl = newTbl(size)
  BY DEF Init
<1>2. hash \in [Key -> 0 .. MaxHash] /\ Hashes
  BY HashesAre DEF Init
<1>3. size \in Nat
  BY BoundsAreNumbers
<1> PICK L : L = ceilPow2(size)
  OBVIOUS
<1>4. L \in Nat
  BY <1>3, PowerIs
<1>5. Fine(tblAllocnodes(L), L, {}, Nothing)
  BY <1>2, <1>4, AllocIs
<1>6. tbl = tblAllocnodes(L)
  BY <1>1 DEF newTbl
<1>7. Fine(tbl, L, {}, Nothing)
  BY <1>5, <1>6
<1> QED
  BY <1>2, <1>7 DEF Inv

\* What the operation called, with its operands, does to what the table shows.
Changes(L, m, M, q) ==
  \/ \E k \in Key : \E v \in Val : did' = <<"set", k, v>> /\ q = [m EXCEPT ![k] = <<v>>]
  \/ \E k \in Key : did' = <<"remove", k>> /\ q = [m EXCEPT ![k] = <<>>] /\ M = L
  \/ \E size \in 0 .. MaxNodes : did' = <<"resize", size>> /\ q = m
  \/ did' = did /\ q = m
LEMMA StepIs ==
  ASSUME NEW L, NEW m, Fine(tbl, L, {}, m), hash \in [Key -> 0 .. MaxHash], [Next]_vars
  PROVE  \E u, M, q : tbl' = u /\ Fine(u, M, {}, q) /\ UNCHANGED hash /\ Changes(L, m, M, q)
<1>1. Hashes
  BY HashesAre
<1>2. ASSUME NEW k \in Key, NEW v \in Val, SetKey(k, v)
      PROVE  \E u, M, q : tbl' = u /\ Fine(u, M, {}, q) /\ UNCHANGED hash /\ Changes(L, m, M, q)
  <2> PICK u : u = tblSet(tbl, k, v)
    OBVIOUS
  <2> PICK q : q = [m EXCEPT ![k] = <<v>>]
    OBVIOUS
  <2>1. PICK M : Fine(tblSet(tbl, k, v), M, {}, [m EXCEPT ![k] = <<v>>])
    BY <1>1, SetIs
  <2>2. tbl' = u /\ Fine(u, M, {}, q) /\ UNCHANGED hash
    BY <1>2, <2>1 DEF SetKey
  <2>3. Changes(L, m, M, q)
    BY <1>2 DEF Changes, SetKey
  <2> QED
    BY <2>2, <2>3
<1>3. ASSUME NEW k \in Key, RemoveKey(k)
      PROVE  \E u, M, q : tbl' = u /\ Fine(u, M, {}, q) /\ UNCHANGED hash /\ Changes(L, m, M, q)
  <2> PICK u : u = tblRemove(tbl, k)
    OBVIOUS
  <2> PICK q : q = [m EXCEPT ![k] = <<>>]
    OBVIOUS
  <2>1. Fine(tblRemove(tbl, k), L, {}, [m EXCEPT ![k] = <<>>])
    BY RemoveIs
  <2>2. tbl' = u /\ Fine(u, L, {}, q) /\ UNCHANGED hash
    BY <1>3, <2>1 DEF RemoveKey
  <2>3. Changes(L, m, L, q)
    BY <1>3 DEF Changes, RemoveKey
  <2> QED
    BY <2>2, <2>3
<1>4. ASSUME NEW size \in 0 .. MaxNodes, Resize(size)
      PROVE  \E u, M, q : tbl' = u /\ Fine(u, M, {}, q) /\ UNCHANGED hash /\ Changes(L, m, M, q)
  <2> PICK u : u = tblResize(tbl, size)
    OBVIOUS
  <2>1. size \in Nat
    BY BoundsAreNumbers
  <2>2. PICK M : Fine(tblResize(tbl, size), M, {}, m)
    BY <1>1, <2>1, ResizeIs
  <2>3. tbl' = u /\ Fine(u, M, {}, m) /\ UNCHANGED hash
    BY <1>4, <2>2 DEF Resize
  <2>4. Changes(L, m, M, m)
    BY <1>4 DEF Changes, Resize
  <2> QED
    BY <2>3, <2>4
<1>5. ASSUME UNCHANGED vars
      PROVE  \E u, M, q : tbl' = u /\ Fine(u, M, {}, q) /\ UNCHANGED hash /\ Changes(L, m, M, q)
  <2> PICK u : u = tbl
    OBVIOUS
  <2>1. tbl' = u /\ Fine(u, L, {}, m) /\ UNCHANGED hash
    BY <1>5 DEF vars
  <2>2. Changes(L, m, L, m)
    BY <1>5 DEF Changes, vars
  <2> QED
    BY <2>1, <2>2
<1> QED
  BY <1>2, <1>3, <1>4, <1>5 DEF Next

LEMMA InvNext == Inv /\ [Next]_vars => Inv'
<1> SUFFICES ASSUME Inv, [Next]_vars PROVE Inv'
  OBVIOUS
<1>1. PICK L, m : Fine(tbl, L, {}, m)
  BY DEF Inv
<1>2. hash \in [Key -> 0 .. MaxHash]
  BY DEF Inv
<1>3. PICK u, M, q : tbl' = u /\ Fine(u, M, {}, q) /\ UNCHANGED hash
  BY <1>1, <1>2, StepIs
<1>4. Fine(tbl, M, {}, q)'
  BY <1>3, Reached
<1> QED
  BY <1>2, <1>3, <1>4 DEF Inv

\* In every reachable state the nodes are chained from the places of their keys and show one value for each key
\* that was set and not removed since (tblSet, tblRemove, tblResize of avm_table.cpp).
THEOREM TableInvariant == Spec => []Inv
<1> QED
  BY InvInit, InvNext, PTL DEF Spec

LEMMA UsedAre ==
  ASSUME NEW L, NEW m, Fine(tbl, L, {}, m)
  PROVE  InUse = Filled(L, tbl.nodes) /\ Nodes = 1 .. L /\ L = Len(tbl.nodes) /\ L \in Nat
         /\ Cardinality(InUse) = tbl.size /\ tbl.size = Cardinality(Held(m))
<1>1. DOMAIN tbl.nodes = 1 .. L /\ L = Len(tbl.nodes) /\ L \in Nat
  BY FineIs
<1>2. InUse = Filled(L, tbl.nodes)
  BY <1>1 DEF InUse, Nodes, Filled, isFree
<1> QED
  BY <1>1, <1>2, FilledIs, SizeIs DEF Nodes

LEMMA TypeIs == Inv => TypeOK
<1> SUFFICES ASSUME Inv PROVE TypeOK
  OBVIOUS
<1>1. hash \in [Key -> 0 .. MaxHash]
  BY DEF Inv
<1>2. PICK L, m : Fine(tbl, L, {}, m)
  BY DEF Inv
<1>3. Nodes = 1 .. L /\ L = Len(tbl.nodes) /\ L \in Nat /\ tbl.size = Cardinality(InUse)
  BY <1>2, UsedAre
<1>4. tbl.nodes \in Seq(NodeOf(L)) /\ tbl.lastfree \in 1 .. L + 1
  BY <1>2 DEF Fine, Shaped
<1>5. 0 .. L = Nodes \cup {0}
  BY <1>3
<1>6. NodeOf(L) = [key : Key \cup {None}, val : Val \cup {None}, next : Nodes \cup {0}]
  BY <1>5 DEF NodeOf
<1> QED
  BY <1>1, <1>3, <1>4, <1>6 DEF TypeOK

LEMMA OwnPlace == Inv => OwnMainPosition
<1> SUFFICES ASSUME Inv, NEW i \in InUse
             PROVE  LET mp == tblKey2Node(tbl, tbl.nodes[i].key)
                    IN  /\ tblKey2Node(tbl, tbl.nodes[mp].key) = mp
                        /\ \E d \in 0 .. Len(tbl.nodes) : chain(tbl.nodes, mp)[d] = i
  BY TypeIs DEF OwnMainPosition
<1> PICK ns : ns = tbl.nodes
  OBVIOUS
<1> PICK at : at = Place(tbl)
  OBVIOUS
<1> PICK h : h = tblKey2Node(tbl, ns[i].key)
  OBVIOUS
<1>1. PICK L, m : Fine(tbl, L, {}, m)
  BY DEF Inv
<1> PICK F : F = Filled(L, ns)
  OBVIOUS
<1>2. i \in F /\ L = Len(ns) /\ L \in Nat
  BY <1>1, UsedAre
<1>3. /\ Vector(L, ns) /\ F \subseteq 1 .. L
      /\ \A k \in Key : at[k] = tblKey2Node(tbl, k) /\ (L >= 1 => at[k] \in 1 .. L)
      /\ \A j \in F : ns[j].key \in Key
  BY <1>1, FineIs
<1>4. h = at[ns[i].key] /\ h \in 1 .. L /\ h \in 0 .. L
  BY <1>2, <1>3
<1>5. PICK r : Ranked(ns, at, F, r)
  <2>1. F \ {} = F
    OBVIOUS
  <2> QED
    BY <1>1, <2>1 DEF Fine, Chained
<1>6. h \in F /\ at[ns[h].key] = h
  BY <1>2, <1>4, <1>5 DEF Ranked, Linked
<1>7. tblKey2Node(tbl, ns[h].key) = h
  BY <1>3, <1>6
<1> PICK f : f = chain(ns, h)
  OBVIOUS
<1>8. Met(f, L, ns, h)
  BY <1>2, <1>3, <1>4, ChainIs
<1>9. WalkOf(L, ns, at, F, r, h, f)
  BY <1>2, <1>3, <1>5, <1>6, <1>8 DEF WalkOf
<1>10. r[i] \in 0 .. L - 1 /\ f[r[i]] = i
  BY ONLY <1>2, <1>4, <1>9, WalkIs
<1>11. r[i] \in 0 .. L
  BY <1>2, <1>10
<1> QED
  BY <1>2, <1>7, <1>10, <1>11

\* The main invariant of avm_table.cpp: the node where a key in use belongs holds a key that belongs there, and the
\* search of tblFind, which follows the links from that node, meets the key.
THEOREM KeysInTheirPlaces == Spec => []OwnMainPosition
<1> QED
  BY TableInvariant, OwnPlace, PTL

\* tblRemove adds the keys behind the one it removes again while it holds a pointer into the nodes; none of these
\* additions replaces the vector, because the node just emptied is free and lastfree is above it.
THEOREM RemovedInPlace == Spec => RemoveInPlace
<1>1. Inv /\ [Next]_vars => [Cardinality(InUse') < Cardinality(InUse) => Len(tbl'.nodes) = Len(tbl.nodes)]_vars
  <2> SUFFICES ASSUME Inv, [Next]_vars, Cardinality(InUse') < Cardinality(InUse) PROVE Len(tbl'.nodes) = Len(tbl.nodes)
    OBVIOUS
  <2>1. PICK L, m : Fine(tbl, L, {}, m)
    BY DEF Inv
  <2>2. hash \in [Key -> 0 .. MaxHash]
    BY DEF Inv
  <2>3. PICK u, M, q : tbl' = u /\ Fine(u, M, {}, q) /\ UNCHANGED hash /\ Changes(L, m, M, q)
    BY <2>1, <2>2, StepIs
  <2>4. /\ L = Len(tbl.nodes) /\ Cardinality(InUse) = Cardinality(Held(m))
        /\ DOMAIN u.nodes = 1 .. M /\ M = Len(u.nodes) /\ u.size = Cardinality(Filled(M, u.nodes))
        /\ u.size = Cardinality(Held(q)) /\ IsFiniteSet(Held(m)) /\ IsFiniteSet(Held(q))
    <3>1. L = Len(tbl.nodes) /\ Cardinality(InUse) = Cardinality(Held(m))
      BY <2>1, UsedAre
    <3>2. DOMAIN u.nodes = 1 .. M /\ M = Len(u.nodes)
      BY <2>3, FineIs
    <3>3. u.size = Cardinality(Filled(M, u.nodes))
      BY <2>3, FilledIs
    <3>4. u.size = Cardinality(Held(q)) /\ IsFiniteSet(Held(m)) /\ IsFiniteSet(Held(q))
      BY <2>1, <2>3, SizeIs
    <3> QED
      BY <3>1, <3>2, <3>3, <3>4
  <2>5. InUse' = Filled(M, u.nodes)
    BY <2>3, <2>4 DEF InUse, Nodes, Filled, isFree
  <2>6. Cardinality(Held(q)) < Cardinality(Held(m))
    BY <2>4, <2>5
  <2>7. ~(Held(m) \subseteq Held(q))
    <3>1. SUFFICES ASSUME Held(m) \subseteq Held(q) PROVE FALSE
      OBVIOUS
    <3>2. Cardinality(Held(m)) <= Cardinality(Held(q))
      BY <2>4, <3>1, FS_Subset
    <3>3. Cardinality(Held(m)) \in Nat /\ Cardinality(Held(q)) \in Nat
      BY <2>4, FS_CardinalityType
    <3> QED
      BY <2>6, <3>2, <3>3
  <2>8. ASSUME NEW k \in Key, NEW v \in Val, q = [m EXCEPT ![k] = <<v>>] PROVE FALSE
    <3>1. DOMAIN m = Key
      BY <2>1, FineIs DEF Shows
    <3>2. \A x \in Key : m[x] # <<>> => q[x] # <<>>
      BY <2>8, <3>1, Entry
    <3> QED
      BY <2>7, <3>2 DEF Held
  <2>9. q # m
    BY <2>7
  <2>10. M = L
    BY <2>3, <2>8, <2>9 DEF Changes
  <2> QED
    BY <2>3, <2>4, <2>10
<1> QED
  BY <1>1, TableInvariant, PTL DEF Spec, RemoveInPlace

-----------------------------------------------------------------------------
(***************************************************************************)
(* What a table promises.                                                  *)
(***************************************************************************)
Content == [k \in Key |-> tblGet(tbl, k)]
LEMMA ContentIs == \A L, m : Fine(tbl, L, {}, m) => Content = m
<1> TAKE L, m
<1> QED
  BY GetIs DEF Content

LEMMA NextContent == (\A L, m : Fine(tbl, L, {}, m) => Content = m)'
<1>1. \A L, m : Fine(tbl, L, {}, m) => Content = m
  BY ContentIs
<1> QED
  BY <1>1, PTL

LEMMA MapInit == Init => Map!Init
<1> SUFFICES ASSUME Init PROVE Map!Init
  OBVIOUS
<1>1. PICK size \in 0 .. MaxNodes : tbl = newTbl(size)
  BY DEF Init
<1>2. Hashes
  BY HashesAre DEF Init
<1>3. size \in Nat
  BY BoundsAreNumbers
<1> PICK L : L = ceilPow2(size)
  OBVIOUS
<1>4. L \in Nat
  BY <1>3, PowerIs
<1>5. Fine(tblAllocnodes(L), L, {}, Nothing)
  BY <1>2, <1>4, AllocIs
<1>6. tbl = tblAllocnodes(L)
  BY <1>1 DEF newTbl
<1>7. Fine(tbl, L, {}, Nothing)
  BY <1>5, <1>6
<1>8. Content = Nothing
  BY <1>7, ContentIs
<1> QED
  BY <1>8 DEF Map!Init, Map!NoEntry, Content, Nothing, Init

LEMMA MapNext == Inv /\ [Next]_vars => [Map!Next]_<<Content, did>>
<1> SUFFICES ASSUME Inv, [Next]_vars PROVE [Map!Next]_<<Content, did>>
  OBVIOUS
<1>1. PICK L, m : Fine(tbl, L, {}, m)
  BY DEF Inv
<1>2. hash \in [Key -> 0 .. MaxHash]
  BY DEF Inv
<1>3. PICK u, M, q : tbl' = u /\ Fine(u, M, {}, q) /\ UNCHANGED hash /\ Changes(L, m, M, q)
  BY <1>1, <1>2, StepIs
<1>4. Content = m
  BY <1>1, ContentIs
<1>5. Fine(tbl, M, {}, q)'
  BY <1>3, Reached
<1>6. Content' = q
  BY <1>5, NextContent
<1>7. ASSUME NEW k \in Key, NEW v \in Val, did' = <<"set", k, v>>, q = [m EXCEPT ![k] = <<v>>] PROVE Map!Next
  <2>1. Content' = [Content EXCEPT ![k] = <<v>>]
    BY <1>4, <1>6, <1>7
  <2>2. Map!Set(k, v)
    BY <1>7, <2>1 DEF Map!Set, Content
  <2>3. did'[1] = "set"
    BY <1>7
  <2> QED
    BY <2>2, <2>3 DEF Map!Next
<1>8. ASSUME NEW k \in Key, did' = <<"remove", k>>, q = [m EXCEPT ![k] = <<>>] PROVE Map!Next
  <2>1. Content' = [Content EXCEPT ![k] = <<>>]
    BY <1>4, <1>6, <1>8
  <2>2. Map!Remove(k)
    BY <1>8, <2>1 DEF Map!Remove, Map!NoEntry, Content
  <2>3. did'[1] = "remove"
    BY <1>8
  <2> QED
    BY <2>2, <2>3 DEF Map!Next
<1>9. ASSUME NEW size \in 0 .. MaxNodes, did' = <<"resize", size>>, q = m PROVE Map!Next
  <2>1. did'[1] = "resize" /\ did'[2] = size
    BY <1>9
  <2>2. Map!Resize(size)
    BY <1>4, <1>6, <1>9 DEF Map!Resize, Content
  <2> QED
    BY <2>1, <2>2 DEF Map!Next
<1>10. ASSUME did' = did, q = m PROVE UNCHANGED <<Content, did>>
  BY <1>4, <1>6, <1>10
<1> QED
  BY <1>3, <1>7, <1>8, <1>9, <1>10 DEF Changes

\* What tblGet finds under a key is what tblSet put there last, unless tblRemove took it away: each operation does
\* what it was called for under its own key and is noticed under no other, and growing changes nothing.
THEOREM TablesAreMaps == Spec => ImplementsMap
<1>1. Spec => Map!Spec
  BY MapInit, MapNext, TableInvariant, PTL DEF Spec, Map!Spec, Map!vars, Content
<1> QED
  BY <1>1 DEF ImplementsMap

-----------------------------------------------------------------------------
(***************************************************************************)
(* Going through a table, from null to null.                               *)
(***************************************************************************)
keyAt(ns, p) == IF p = 0 THEN None ELSE ns[p].key
LEMMA NextIs ==
  ASSUME NEW t, NEW L, NEW m, Fine(t, L, {}, m), NEW p \in Filled(L, t.nodes) \cup {0}, NEW R,
         R = {i \in Filled(L, t.nodes) : i > p}
  PROVE  tblNext(t, keyAt(t.nodes, p)) = IF R = {} THEN None ELSE t.nodes[Min(R)].key
<1> PICK F : F = Filled(L, t.nodes)
  OBVIOUS
<1> PICK k : k = keyAt(t.nodes, p)
  OBVIOUS
<1>1. /\ L \in Nat /\ DOMAIN t.nodes = 1 .. L /\ 0 \notin F /\ F \subseteq 1 .. L
      /\ \A i \in F : t.nodes[i].key \in Key
      /\ \A i, j \in F : t.nodes[i].key = t.nodes[j].key => i = j
  BY FineIs DEF Shows
<1> PICK from : from = IF k = None THEN 0 ELSE tblFind(t, k)
  OBVIOUS
<1>2. from = p /\ (k = None <=> p = 0)
  <2>1. CASE p = 0
    BY <2>1 DEF keyAt
  <2>2. CASE p # 0
    <3>1. p \in F /\ k = t.nodes[p].key /\ k # None /\ k \in Key
      BY <1>1, <2>2 DEF keyAt, Filled
    <3>2. tblFind(t, k) \in F /\ t.nodes[tblFind(t, k)].key = k
      BY <3>1, FindIs
    <3> QED
      BY <1>1, <2>2, <3>1, <3>2
  <2> QED
    BY <2>1, <2>2
<1> PICK rest : rest = {i \in DOMAIN t.nodes : i > from /\ t.nodes[i].key # None}
  OBVIOUS
<1>3. rest = R
  BY <1>1, <1>2 DEF Filled
<1>4. tblNext(t, k) = IF (k # None /\ from = 0) \/ rest = {} THEN None ELSE t.nodes[Min(rest)].key
  BY DEF tblNext
<1> QED
  BY <1>2, <1>3, <1>4

upTo(F, p) == {i \in F : i <= p}
LEMMA NextCount ==
  ASSUME NEW L \in Nat, NEW F \in SUBSET (1 .. L), NEW p \in F \cup {0}, NEW R, R = {i \in F : i > p}, R # {}
  PROVE  Min(R) \in F /\ Cardinality(upTo(F, Min(R))) = Cardinality(upTo(F, p)) + 1
<1> PICK q : q = Min(R)
  OBVIOUS
<1>0. \A i \in F : i \in Nat
  OBVIOUS
<1>1. R \subseteq Nat /\ p \in Nat
  <2>1. p \in F \/ p = 0
    OBVIOUS
  <2>2. R \subseteq F
    OBVIOUS
  <2>3. R \subseteq Nat
    BY ONLY <1>0, <2>2
  <2>4. p \in Nat
    BY ONLY <1>0, <2>1
  <2> QED
    BY ONLY <2>3, <2>4
<1>2. q \in R /\ \A y \in R : q <= y
  BY <1>1, MinIs
<1>3. q \in F /\ q > p /\ q \in Nat
  BY <1>1, <1>2
<1>4. \A i \in F : i <= q <=> (i <= p \/ i = q)
  <2> TAKE i \in F
  <2>1. i \in Nat
    OBVIOUS
  <2>2. i > p => q <= i
    BY <1>2
  <2> QED
    BY <1>1, <1>3, <2>1, <2>2
<1>5. upTo(F, q) = upTo(F, p) \cup {q} /\ q \notin upTo(F, p)
  <2>1. ~(q <= p)
    BY <1>1, <1>3
  <2> QED
    BY <1>3, <1>4, <2>1 DEF upTo
<1>6. IsFiniteSet(upTo(F, p))
  <2>1. IsFiniteSet(1 .. L)
    BY FS_Interval
  <2>2. upTo(F, p) \subseteq 1 .. L
    BY DEF upTo
  <2> QED
    BY ONLY <2>1, <2>2, FS_Subset
<1>7. Cardinality(upTo(F, p) \cup {q}) = Cardinality(upTo(F, p)) + 1
  BY ONLY <1>5, <1>6, FS_AddElement
<1> QED
  BY <1>3, <1>5, <1>7

LEMMA CountIs ==
  ASSUME NEW L \in Nat, NEW F \in SUBSET (1 .. L)
  PROVE  /\ IsFiniteSet(F) /\ Cardinality(F) \in Nat /\ upTo(F, 0) = {} /\ Cardinality(upTo(F, 0)) = 0
         /\ \A p \in F \cup {0} : Cardinality(upTo(F, p)) = Cardinality(F) => \A i \in F : ~(i > p)
         /\ \A p \in F \cup {0} : Cardinality(upTo(F, p)) < Cardinality(F) => \E i \in F : i > p
         /\ \A p \in F : Cardinality(upTo(F, p)) \in 1 .. Cardinality(F)
         /\ \A p \in F, q \in F : Cardinality(upTo(F, p)) = Cardinality(upTo(F, q)) => p = q
<1>0. \A i \in F : i \in Nat /\ i >= 1
  OBVIOUS
<1>1. IsFiniteSet(F) /\ Cardinality(F) \in Nat
  <2>1. IsFiniteSet(1 .. L)
    BY FS_Interval
  <2>2. IsFiniteSet(F)
    BY ONLY <2>1, FS_Subset, F \in SUBSET (1 .. L)
  <2> QED
    BY <2>2, FS_CardinalityType
<1>2. upTo(F, 0) = {} /\ Cardinality(upTo(F, 0)) = 0
  <2>1. \A i \in F : ~(i <= 0)
    BY <1>0
  <2>2. upTo(F, 0) = {}
    BY <2>1 DEF upTo
  <2> QED
    BY <2>2, FS_EmptySet
<1>3. \A p : /\ upTo(F, p) \subseteq F /\ IsFiniteSet(upTo(F, p)) /\ Cardinality(upTo(F, p)) \in Nat
             /\ Cardinality(upTo(F, p)) <= Cardinality(F)
             /\ Cardinality(upTo(F, p)) = Cardinality(F) => upTo(F, p) = F
  <2> TAKE p
  <2>1. upTo(F, p) \in SUBSET F
    BY DEF upTo
  <2>2. IsFiniteSet(upTo(F, p)) /\ Cardinality(upTo(F, p)) <= Cardinality(F)
        /\ (Cardinality(F) = Cardinality(upTo(F, p)) => F = upTo(F, p))
    BY <1>1, <2>1, FS_Subset
  <2> QED
    BY <2>1, <2>2, FS_CardinalityType
<1>4. \A p \in F \cup {0} : Cardinality(upTo(F, p)) = Cardinality(F) => \A i \in F : ~(i > p)
  <2> TAKE p \in F \cup {0}
  <2>1. SUFFICES ASSUME upTo(F, p) = F PROVE \A i \in F : ~(i > p)
    BY <1>3
  <2>2. \A i \in F : i <= p
    BY <2>1 DEF upTo
  <2>3. p \in Nat
    BY <1>0
  <2>4. \A i \in F : ~(i > p)
    BY <1>0, <2>2, <2>3
  <2> QED
    BY <2>4
<1>5. \A p \in F \cup {0} : Cardinality(upTo(F, p)) < Cardinality(F) => \E i \in F : i > p
  <2> TAKE p \in F \cup {0}
  <2>1. SUFFICES ASSUME \A i \in F : ~(i > p) PROVE ~(Cardinality(upTo(F, p)) < Cardinality(F))
    OBVIOUS
  <2>2. \A i \in F : i <= p
    <3>1. p \in Nat
      BY <1>0
    <3> QED
      BY <1>0, <2>1, <3>1
  <2>3. upTo(F, p) = F
    BY <2>2 DEF upTo
  <2> QED
    BY <1>1, <2>3
<1>6. \A p \in F : Cardinality(upTo(F, p)) \in 1 .. Cardinality(F)
  <2> TAKE p \in F
  <2>1. p \in upTo(F, p)
    BY DEF upTo
  <2>2. Cardinality(upTo(F, p)) # 0
    BY <1>3, <2>1, FS_EmptySet
  <2> QED
    BY <1>1, <1>3, <2>2
<1>7. \A p \in F, q \in F : p < q => Cardinality(upTo(F, p)) # Cardinality(upTo(F, q))
  <2> TAKE p \in F, q \in F
  <2>1. SUFFICES ASSUME p < q, Cardinality(upTo(F, p)) = Cardinality(upTo(F, q)) PROVE FALSE
    OBVIOUS
  <2>2. upTo(F, p) \subseteq upTo(F, q)
    <3>1. \A i \in F : i <= p => i <= q
      BY <1>0, <2>1
    <3> QED
      BY <3>1 DEF upTo
  <2>3. upTo(F, p) = upTo(F, q)
    BY <1>3, <2>1, <2>2, FS_Subset
  <2>4. q \in upTo(F, q) /\ q \notin upTo(F, p)
    BY <2>1 DEF upTo
  <2> QED
    BY <2>3, <2>4
<1>8. \A p \in F, q \in F : Cardinality(upTo(F, p)) = Cardinality(upTo(F, q)) => p = q
  BY <1>7
<1> QED
  BY <1>1, <1>2, <1>4, <1>5, <1>6, <1>8

\* The n-th key told is that of the node with n nodes in use up to it.
Told(L, ns, n, k) ==
  \E p \in Filled(L, ns) \cup {0} : k = keyAt(ns, p) /\ Cardinality(upTo(Filled(L, ns), p)) = n
LEMMA ToldStep ==
  ASSUME NEW t, NEW L, NEW m, Fine(t, L, {}, m), NEW n \in Nat, NEW k, Told(L, t.nodes, n, k)
  PROVE  /\ n < Cardinality(Filled(L, t.nodes)) => Told(L, t.nodes, n + 1, tblNext(t, k))
         /\ n = Cardinality(Filled(L, t.nodes)) => tblNext(t, k) = None
<1> PICK F : F = Filled(L, t.nodes)
  OBVIOUS
<1>1. L \in Nat /\ F \in SUBSET (1 .. L) /\ 0 \notin F
  BY FineIs
<1>2. PICK p \in F \cup {0} : k = keyAt(t.nodes, p) /\ Cardinality(upTo(F, p)) = n
  BY DEF Told
<1> PICK R : R = {i \in F : i > p}
  OBVIOUS
<1>3. tblNext(t, k) = IF R = {} THEN None ELSE t.nodes[Min(R)].key
  BY <1>2, NextIs
<1>4. ASSUME n < Cardinality(F) PROVE Told(L, t.nodes, n + 1, tblNext(t, k))
  <2>1. R # {}
    <3>1. \E i \in F : i > p
      BY ONLY <1>1, <1>2, <1>4, CountIs
    <3> QED
      BY <3>1
  <2>2. Min(R) \in F /\ Cardinality(upTo(F, Min(R))) = n + 1
    BY <1>1, <1>2, <2>1, NextCount
  <2>3. tblNext(t, k) = keyAt(t.nodes, Min(R))
    BY <1>1, <1>3, <2>1, <2>2 DEF keyAt
  <2> QED
    BY <2>2, <2>3 DEF Told
<1>5. ASSUME n = Cardinality(F) PROVE tblNext(t, k) = None
  <2>1. R = {}
    <3>1. \A i \in F : ~(i > p)
      BY ONLY <1>1, <1>2, <1>5, CountIs
    <3> QED
      BY <3>1
  <2> QED
    BY <1>3, <2>1
<1> QED
  BY <1>4, <1>5

LEMMA NextKey ==
  ASSUME NEW t, NEW L, NEW m, Fine(t, L, {}, m), NEW k
  PROVE  tblNext(t, k) \in Key \cup {None}
<1> PICK from : from = IF k = None THEN 0 ELSE tblFind(t, k)
  OBVIOUS
<1> PICK rest : rest = {i \in DOMAIN t.nodes : i > from /\ t.nodes[i].key # None}
  OBVIOUS
<1>1. tblNext(t, k) = IF (k # None /\ from = 0) \/ rest = {} THEN None ELSE t.nodes[Min(rest)].key
  BY DEF tblNext
<1>2. L \in Nat /\ DOMAIN t.nodes = 1 .. L /\ \A i \in Filled(L, t.nodes) : t.nodes[i].key \in Key
  BY FineIs
<1>3. rest # {} => t.nodes[Min(rest)].key \in Key
  <2>1. rest \subseteq Filled(L, t.nodes) /\ rest \subseteq Nat
    BY <1>2 DEF Filled
  <2> QED
    BY <1>2, <2>1, MinIs
<1> QED
  BY <1>1, <1>3

LEMMA AllTold == Inv => TraversalComplete
<1> SUFFICES ASSUME Inv PROVE TraversalComplete
  OBVIOUS
<1>1. PICK L, m : Fine(tbl, L, {}, m)
  BY DEF Inv
<1> PICK ns : ns = tbl.nodes
  OBVIOUS
<1> PICK F : F = Filled(L, ns)
  OBVIOUS
<1> PICK C : C = Cardinality(F)
  OBVIOUS
<1>2. L \in Nat /\ F \in SUBSET (1 .. L) /\ 0 \notin F /\ L = Len(tbl.nodes) /\ InUse = F
  BY <1>1, FineIs, UsedAre
<1>3. C \in Nat /\ C <= L
  <2>1. Cardinality(1 .. L) = L /\ IsFiniteSet(1 .. L)
    BY <1>2, FS_Interval
  <2>2. Cardinality(F) <= Cardinality(1 .. L)
    BY ONLY <1>2, <2>1, FS_Subset
  <2>3. C \in Nat
    BY <1>2, CountIs
  <2> QED
    BY <2>1, <2>2, <2>3
<1> DEFINE told(x) == x = [n \in 0 .. L |-> IF n = 0 THEN None ELSE tblNext(tbl, x[n - 1])]
<1> PICK h : h = CHOOSE x : told(x)
  OBVIOUS
<1> PICK keys : keys = {ns[i].key : i \in F}
  OBVIOUS
<1>14. \A k : k \in keys <=> \E i \in F : k = ns[i].key
  BY ONLY keys = {ns[i].key : i \in F}
<1>15. InUse = F => {tbl.nodes[i].key : i \in InUse} = keys
  OBVIOUS
<1> PICK U : U = Key \cup {None}
  OBVIOUS
<1> PICK I : I = Nat \X U
  OBVIOUS
<1> PICK G : G = [p \in Nat \X U |-> tblNext(tbl, p[2])]
  OBVIOUS
<1>4. \A i \in Nat, u \in U : G[<<i, u>>] = tblNext(tbl, u) /\ tblNext(tbl, u) \in U
  <2>1. \A u : tblNext(tbl, u) \in U
    BY <1>1, NextKey
  <2> QED
    BY <2>1
<1>5. Kept(L, None, U, G, I)
  <2>1. None \in U /\ <<0, None>> \in I /\ I \subseteq Nat \X U
    OBVIOUS
  <2>2. ASSUME NEW i \in 1 .. L, NEW u \in U PROVE <<i, G[<<i, u>>]>> \in I
    <3>1. i \in Nat
      BY <1>2
    <3> QED
      BY <1>4, <3>1
  <2> QED
    BY <1>2, <2>1, <2>2 DEF Kept
<1>6. \E x : told(x)
  <2> PICK y : y = [i \in 0 .. L |-> y[i]] /\ y \in [0 .. L -> U] /\ Looped(y, L, None, U, G)
    BY ONLY <1>5, LoopExists
  <2>1. \A i \in 0 .. L : y[i] = IF i = 0 THEN None ELSE tblNext(tbl, y[i - 1])
    <3> TAKE i \in 0 .. L
    <3>1. CASE i = 0
      BY <3>1 DEF Looped
    <3>2. CASE i # 0
      <4>1. i \in 1 .. L /\ i \in Nat /\ i - 1 \in 0 .. L
        BY <1>2, <3>2
      <4>2. y[i - 1] \in U
        BY <4>1
      <4>3. y[i] = G[<<i, y[i - 1]>>]
        BY <4>1, <4>2 DEF Looped
      <4> QED
        BY <1>4, <3>2, <4>1, <4>2, <4>3
    <3> QED
      BY <3>1, <3>2
  <2>2. told(y)
    BY <2>1
  <2> HIDE DEF told
  <2> QED
    BY <2>2
<1>7. told(h)
  <2> HIDE DEF told
  <2> QED
    BY <1>6
<1>8. \A n \in 0 .. L : h[n] = IF n = 0 THEN None ELSE tblNext(tbl, h[n - 1])
  BY <1>7
<1>9. \A n \in 0 .. C : Told(L, ns, n, h[n])
  <2> PICK T : T = {n \in Nat : n <= C => Told(L, ns, n, h[n])}
    OBVIOUS
  <2>1. 0 \in T
    <3>1. h[0] = keyAt(ns, 0)
      BY <1>2, <1>8 DEF keyAt
    <3>2. Cardinality(upTo(F, 0)) = 0
      BY <1>2, CountIs
    <3>3. Told(L, ns, 0, h[0])
      BY <3>1, <3>2 DEF Told
    <3> QED
      BY <3>3
  <2>2. ASSUME NEW n \in Nat, n \in T PROVE n + 1 \in T
    <3>1. SUFFICES ASSUME n + 1 <= C PROVE Told(L, ns, n + 1, h[n + 1])
      OBVIOUS
    <3>2. n < C /\ n <= C /\ n + 1 \in 0 .. L /\ n + 1 # 0 /\ n + 1 - 1 = n
      BY <1>2, <1>3, <3>1
    <3>3. Told(L, ns, n, h[n])
      BY <2>2, <3>2
    <3>4. h[n + 1] = tblNext(tbl, h[n])
      BY <1>8, <3>2
    <3> PICK k : k = h[n]
      OBVIOUS
    <3>5. Told(L, ns, n + 1, tblNext(tbl, k))
      BY <1>1, <3>2, <3>3, ToldStep
    <3> QED
      BY <3>4, <3>5
  <2>3. Nat \subseteq T
    BY <2>1, <2>2, Induct
  <2>4. ASSUME NEW n \in 0 .. C PROVE Told(L, ns, n, h[n])
    <3>1. n \in Nat /\ n <= C
      BY <1>3
    <3> QED
      BY <2>3, <3>1
  <2> QED
    BY <2>4
<1>10. {h[n] : n \in 1 .. C} = keys
  <2>1. ASSUME NEW n \in 1 .. C PROVE h[n] \in keys
    <3>1. n \in 0 .. C /\ n # 0
      BY <1>3
    <3>2. PICK p \in F \cup {0} : h[n] = keyAt(ns, p) /\ Cardinality(upTo(F, p)) = n
      BY <1>9, <3>1 DEF Told
    <3>3. p # 0
      <4>1. Cardinality(upTo(F, 0)) = 0
        BY <1>2, CountIs
      <4> QED
        BY <3>1, <3>2, <4>1
    <3>4. p \in F /\ h[n] = ns[p].key
      BY <3>2, <3>3 DEF keyAt
    <3> QED
      BY ONLY <1>14, <3>4
  <2>2. ASSUME NEW i \in F PROVE \E n \in 1 .. C : h[n] = ns[i].key
    <3> PICK n : n = Cardinality(upTo(F, i))
      OBVIOUS
    <3>1. n \in 1 .. C /\ n \in 0 .. C /\ n # 0
      <4>1. n \in 1 .. C
        BY <1>2, CountIs
      <4> QED
        BY <1>3, <4>1
    <3>2. PICK p \in F \cup {0} : h[n] = keyAt(ns, p) /\ Cardinality(upTo(F, p)) = n
      BY <1>9, <3>1 DEF Told
    <3>3. p # 0
      BY <1>2, <3>1, <3>2, CountIs
    <3>4. p = i
      <4>1. p \in F /\ i \in F /\ Cardinality(upTo(F, p)) = Cardinality(upTo(F, i))
        BY <3>2, <3>3
      <4>2. L \in Nat /\ F \in SUBSET (1 .. L)
        BY <1>2
      <4> QED
        BY ONLY <4>1, <4>2, CountIs
    <3> QED
      BY <3>1, <3>2, <3>3, <3>4 DEF keyAt
  <2> QED
    BY ONLY <1>14, <2>1, <2>2
<1>11. Cardinality(keys) = C
  <2> PICK g : g = [i \in F |-> ns[i].key]
    OBVIOUS
  <2>1. \A i, j \in F : ns[i].key = ns[j].key => i = j
    BY <1>1, FineIs DEF Shows
  <2>2. g \in [F -> keys] /\ (\A i, j \in F : g[i] = g[j] => i = j) /\ \A k \in keys : \E i \in F : g[i] = k
    BY <2>1
  <2>3. IsFiniteSet(F)
    BY <1>2, CountIs
  <2> QED
    BY ONLY <2>2, <2>3, OneEach, C = Cardinality(F)
<1>12. tblNext(tbl, h[C]) = None
  <2>1. C \in 0 .. C
    BY <1>3
  <2>2. Told(L, ns, C, h[C])
    BY <1>9, <2>1
  <2> PICK k : k = h[C]
    OBVIOUS
  <2>3. tblNext(tbl, k) = None
    BY <1>1, <1>3, <2>2, ToldStep
  <2> QED
    BY <2>3
<1>13. /\ {h[n] : n \in 1 .. Cardinality(InUse)} = {tbl.nodes[i].key : i \in InUse}
       /\ Cardinality({tbl.nodes[i].key : i \in InUse}) = Cardinality(InUse)
       /\ tblNext(tbl, h[Cardinality(InUse)]) = None
  <2>1. InUse = F /\ C = Cardinality(InUse)
    BY <1>2
  <2>2. {tbl.nodes[i].key : i \in InUse} = keys
    BY <1>15, <2>1
  <2> QED
    BY ONLY <1>10, <1>11, <1>12, <2>1, <2>2
<1>16. L = Len(tbl.nodes)
  BY <1>2
<1> QED
  BY ONLY <1>13, <1>16, h = CHOOSE x : told(x) DEF TraversalComplete

\* Who asks tblNext for the key after the last one it was told, starting from null, is told every key of the table
\* once and then null.
THEOREM TraversalsComplete == Spec => []TraversalComplete
<1> QED
  BY TableInvariant, AllTold, PTL
=============================================================================
