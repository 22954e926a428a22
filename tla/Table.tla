-------------------------------- MODULE Table --------------------------------
(***************************************************************************)
(* The hash tables of the Acorn VM (avm_table.cpp): a vector of nodes, each*)
(* holding one key and its value, and linked to the next node whose key    *)
(* hashes to the same place.  A key that finds its place taken goes into   *)
(* the last free node, unless the key in its place does not belong there:  *)
(* then that one is moved away.  The vector only ever doubles.             *)
(*                                                                         *)
(* Nodes are numbered from 1, and 0 stands for the null pointer.  A table  *)
(* created with room for no entry shares one empty node, never written to, *)
(* with every other such table: here it has no nodes at all.               *)
(***************************************************************************)
EXTENDS Naturals, FiniteSets, SequencesExt

CONSTANTS
  Key,      \* the values used as keys
  Pointer,  \* the keys hashed by address (and floats): they avoid powers of two
  Val,      \* the values stored
  None,     \* null: never a key, but it may be stored as a value
  MaxHash,  \* the hash of a key is at most this
  MaxNodes  \* the longest vector of nodes followed (a power of 2)

ASSUME KeysAreNotNull == None \notin Key /\ Pointer \subseteq Key
ASSUME BoundsAreNumbers == MaxHash \in Nat /\ MaxNodes \in Nat

VARIABLES
  tbl,   \* the table: its nodes, lastfree and size
  hash,  \* hash[k]: the number k is hashed from
  did    \* the last operation, with its operands

vars == <<tbl, hash, did>>

emptyNode == [key |-> None, val |-> None, next |-> 0]

-----------------------------------------------------------------------------
(***************************************************************************)
(* Where a key belongs, and finding it                                     *)
(***************************************************************************)
\* 1 << lAvailNodes, which is also 1 for the shared empty node
availNodes(t) == IF t.nodes = <<>> THEN 1 ELSE Len(t.nodes)

hash2NodeMod2(h, size) == h % size
hash2NodeDiv(h, size) == h % (IF size <= 2 THEN 1 ELSE size - 1)  \* (size - 1) | 1

tblKey2Node(t, k) ==
  1 + IF k \in Pointer THEN hash2NodeDiv(hash[k], availNodes(t))
                       ELSE hash2NodeMod2(hash[k], availNodes(t))

\* chain(nodes, i)[d]: the node met after following d links from node i, or 0.
chain(nodes, i) ==
  LET after == [j \in 0 .. Len(nodes) |-> IF j = 0 THEN 0 ELSE nodes[j].next]
      met[d \in 0 .. Len(nodes)] == IF d = 0 THEN i ELSE after[met[d - 1]]
  IN  met

\* The node that holds k, or 0.  find[n][j] looks for it in the chain from node j, n nodes long at most.
tblFind(t, k) ==
  LET find[n \in 0..Len(t.nodes)] ==
        [j \in 0..Len(t.nodes) |->
           IF j = 0 \/ n = 0 THEN 0
           ELSE IF t.nodes[j].key = k THEN j ELSE find[n - 1][t.nodes[j].next]]
  IN  IF t.nodes = <<>> THEN 0 ELSE find[Len(t.nodes)][tblKey2Node(t, k)]

tblGet(t, k) == LET n == tblFind(t, k) IN IF n = 0 THEN <<>> ELSE <<t.nodes[n].val>>

\* The key after k in the order of the nodes; after null, the first one; null when there is none.
tblNext(t, k) ==
  LET from == IF k = None THEN 0 ELSE tblFind(t, k)
      rest == {i \in DOMAIN t.nodes : i > from /\ t.nodes[i].key # None}
  IN  IF (k # None /\ from = 0) \/ rest = {} THEN None
      ELSE t.nodes[Min(rest)].key

-----------------------------------------------------------------------------
(***************************************************************************)
(* Adding a key that is not there                                          *)
(***************************************************************************)
isFree(nodes, i) == nodes[i].key = None

\* The last free node before lastfree, which is left there; 0 when there is none.
tblLastFreeNode(t) ==
  LET free == {i \in DOMAIN t.nodes : i < t.lastfree /\ isFree(t.nodes, i)}
  IN  IF free = {} THEN 0 ELSE Max(free)

placeTaken(t, k) == t.nodes = <<>> \/ ~isFree(t.nodes, tblKey2Node(t, k))

\* A slip (put): the key in the way stays, wherever it belongs.
putBehind(t, k, v) ==
  LET mp == tblKey2Node(t, k)
      n  == tblLastFreeNode(t)
  IN  [nodes    |-> IF ~placeTaken(t, k)
                    THEN [t.nodes EXCEPT ![mp].key = k, ![mp].val = v]
                    ELSE [t.nodes EXCEPT ![n] = [key |-> k, val |-> v, next |-> t.nodes[mp].next],
                                         ![mp].next = n],
       lastfree |-> IF placeTaken(t, k) THEN n ELSE t.lastfree,
       size     |-> t.size + 1]

\* Puts k in its own place, or in a free node behind it (there is one).
put(t, k, v) ==
  LET mp   == tblKey2Node(t, k)
      n    == tblLastFreeNode(t)
      home == tblKey2Node(t, t.nodes[mp].key)  \* where the key in k's place belongs
      before == CHOOSE i \in DOMAIN t.nodes : t.nodes[i].next = mp
      behind == [t.nodes EXCEPT ![n] = [key |-> k, val |-> v, next |-> t.nodes[mp].next],
                                ![mp].next = n]
      instead == [t.nodes EXCEPT ![before].next = n,
                                 ![n] = t.nodes[mp],
                                 ![mp] = [key |-> k, val |-> v, next |-> 0]]
  IN  [nodes    |-> IF ~placeTaken(t, k)
                    THEN [t.nodes EXCEPT ![mp].key = k, ![mp].val = v]
                    ELSE IF home = mp THEN behind ELSE instead,
       lastfree |-> IF placeTaken(t, k) THEN n ELSE t.lastfree,
       size     |-> t.size + 1]

tblAllocnodes(size) ==
  [nodes |-> [i \in 1..size |-> emptyNode], lastfree |-> size + 1, size |-> 0]

\* The next power of two.
ceilPow2(size) ==
  LET pow[e \in 0 .. size] == IF e = 0 THEN 1 ELSE 2 * pow[e - 1]
  IN  IF size = 0 THEN 0 ELSE pow[Min({e \in 0 .. size : pow[e] >= size})]

\* A slip (tblResize): the last node is forgotten.
tblResizeShort(t, newsize) ==
  LET n == Len(t.nodes)
      new[i \in 0 .. n] ==
        IF i = 0 THEN tblAllocnodes(ceilPow2(IF newsize < availNodes(t) THEN availNodes(t) ELSE newsize))
        ELSE LET node == t.nodes[n + 1 - i]
             IN  IF i = 1 \/ node.key = None THEN new[i - 1] ELSE put(new[i - 1], node.key, node.val)
  IN  new[n]

\* A new vector, never a shorter one, that the keys of the old one are put into from the last.
tblResize(t, newsize) ==
  LET n == Len(t.nodes)
      new[i \in 0 .. n] ==
        IF i = 0 THEN tblAllocnodes(ceilPow2(IF newsize < availNodes(t) THEN availNodes(t) ELSE newsize))
        ELSE LET node == t.nodes[n + 1 - i]
             IN  IF node.key = None THEN new[i - 1] ELSE put(new[i - 1], node.key, node.val)
  IN  new[n]

mustGrow(t, k) == placeTaken(t, k) /\ tblLastFreeNode(t) = 0

tblAdd(t, k, v) ==
  IF mustGrow(t, k) THEN put(tblResize(t, availNodes(t) + 1), k, v) ELSE put(t, k, v)

-----------------------------------------------------------------------------
(***************************************************************************)
(* Removing a key, and with it the links of the keys chained after it      *)
(***************************************************************************)
\* A slip (zero): lastfree stays where it is.
zeroUnlisted(t, n) == [t EXCEPT !.nodes[n] = emptyNode, !.size = t.size - 1]

\* Node n is emptied; lastfree moves up when it had passed the node.
zero(t, n) ==
  [nodes    |-> [t.nodes EXCEPT ![n] = emptyNode],
   lastfree |-> IF t.lastfree < n THEN n + 1 ELSE t.lastfree,
   size     |-> t.size - 1]

\* A slip (tblRemove): the keys chained behind the one removed are left where they are.
tblRemoveCut(t, k) ==
  LET n == tblFind(t, k)
  IN  IF n = 0 THEN t
      ELSE zero([t EXCEPT !.nodes = [i \in DOMAIN t.nodes |->
                   IF t.nodes[i].next = n THEN [t.nodes[i] EXCEPT !.next = 0] ELSE t.nodes[i]]], n)

\* The key of a pending node n is added again. Had an addition before replaced the nodes, this would read
\* where they were freed: nothing is said of it.
readd(u, n, length) ==
  IF Len(u.nodes) # length THEN u ELSE tblAdd(zero(u, n), u.nodes[n].key, u.nodes[n].val)

unlink(t, n) == [t EXCEPT !.nodes[n].next = 0]

\* The chain is cut before k, and the keys that followed it are added again one by one.
tblRemove(t, k) ==
  LET met == chain(t.nodes, tblKey2Node(t, k))
      d   == CHOOSE e \in 0 .. Len(t.nodes) - 1 : met[e] = tblFind(t, k)
      cut == IF d = 0 THEN t ELSE unlink(t, met[d - 1])
      left[e \in 0 .. Len(t.nodes)] ==
        IF e = 0 THEN zero(cut, met[d])
        ELSE IF e <= d \/ met[e] = 0 THEN left[e - 1] ELSE readd(left[e - 1], met[e], Len(t.nodes))
  IN  IF tblFind(t, k) = 0 THEN t ELSE left[Len(t.nodes)]

\* An existing key gets another value where it is; a new one is added.
tblSet(t, k, v) ==
  LET n == tblFind(t, k)
  IN  IF n = 0 THEN tblAdd(t, k, v) ELSE [t EXCEPT !.nodes[n].val = v]

-----------------------------------------------------------------------------
(***************************************************************************)
(* The table and its life                                                  *)
(***************************************************************************)
newTbl(size) == tblAllocnodes(ceilPow2(size))

Init ==
  /\ hash \in [Key -> 0..MaxHash]
  /\ tbl \in {newTbl(size) : size \in 0..MaxNodes}
  /\ did = <<"new">>

SetKey(k, v) ==
  /\ did' = <<"set", k, v>>
  /\ tbl' = tblSet(tbl, k, v)
  /\ Len(tbl'.nodes) <= MaxNodes
  /\ UNCHANGED hash

RemoveKey(k) ==
  /\ did' = <<"remove", k>>
  /\ tbl' = tblRemove(tbl, k)
  /\ UNCHANGED hash

Resize(newsize) ==
  /\ did' = <<"resize", newsize>>
  /\ tbl' = tblResize(tbl, newsize)
  /\ UNCHANGED hash

Next ==
  \/ \E k \in Key, v \in Val : SetKey(k, v)
  \/ \E k \in Key : RemoveKey(k)
  \/ \E size \in 0..MaxNodes : Resize(size)

Spec == Init /\ [][Next]_vars

-----------------------------------------------------------------------------
(***************************************************************************)
(* Properties                                                              *)
(***************************************************************************)
Nodes == DOMAIN tbl.nodes
InUse == {i \in Nodes : ~isFree(tbl.nodes, i)}

\* Every node, link and position is what its field may hold, and size, which a program reads as the length of its
\* table, is the number of its entries whatever was added, moved, chained again or removed.
TypeOK ==
  /\ hash \in [Key -> 0..MaxHash]
  /\ tbl.nodes \in Seq([key : Key \cup {None}, val : Val \cup {None}, next : Nodes \cup {0}])
  /\ tbl.lastfree \in 1..Len(tbl.nodes) + 1
  /\ tbl.size = Cardinality(InUse)

\* The main invariant of these tables (the comment at the head of avm_table.cpp): of the
\* keys that hash to a node in use, or were chained behind one, the node's own key is
\* one that belongs there, and a key out of its own place is chained from it.
OwnMainPosition ==
  /\ TypeOK
  /\ \A i \in InUse :
       LET mp == tblKey2Node(tbl, tbl.nodes[i].key)
       IN  /\ tblKey2Node(tbl, tbl.nodes[mp].key) = mp
           /\ \E d \in 0 .. Len(tbl.nodes) : chain(tbl.nodes, mp)[d] = i

\* A program that starts from null and asks tblNext for the key after the last one it was given is
\* told every key of the table once, and then null.
TraversalComplete ==
  LET told[n \in 0..Len(tbl.nodes)] ==
        IF n = 0 THEN None ELSE tblNext(tbl, told[n - 1])
      keys == {tbl.nodes[i].key : i \in InUse}
  IN  /\ {told[n] : n \in 1..Cardinality(InUse)} = keys
      /\ Cardinality(keys) = Cardinality(InUse)
      /\ keys # {} => tblNext(tbl, told[Cardinality(InUse)]) = None

\* tblRemove holds a pointer into the nodes while it adds the rest of the chain again, so
\* none of these additions may replace the nodes: the node just emptied is always found.
RemoveInPlace ==
  [][Cardinality(InUse') < Cardinality(InUse) => Len(tbl'.nodes) = Len(tbl.nodes)]_vars

\* What the tables promise: a set stores its value under its key, a removal removes its key, a resize loses none,
\* and what is found under any other key stays, collisions, moved keys and growth notwithstanding.
Map == INSTANCE KeyMap WITH map <- [k \in Key |-> tblGet(tbl, k)]
ImplementsMap == Map!Spec

\* "any free node in index is before this position", says avm_table.h of lastfree; so a table
\* with a free node never has to grow.
LastFreeBound == \A i \in Nodes : isFree(tbl.nodes, i) => i < tbl.lastfree
=============================================================================
