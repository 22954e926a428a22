------------------------------ MODULE ArraysInv -----------------------------
(***************************************************************************)
(* Why the methods of lists never reach a slot that was not written, and   *)
(* why sorting comes to an ascending order: the inductive invariant of     *)
(* Arrays.  ArrayProofs proves it; lists.cfg can check it first.           *)
(***************************************************************************)
EXTENDS Arrays

\* The calls that are executed rightly.
Regular == Irregular = {}

\* The values that array a has in use.
Con(a) == SubSeq(a.block, 1, a.size)

\* The block of a has room for what is in use, and that was written.
Sound(a) ==
  /\ a \in [block : Seq(Values \cup {Null, Junk}), size : Nat, wild : BOOLEAN]
  /\ ~a.wild /\ a.size <= Avail(a) /\ Con(a) \in Seq(Values \cup {Null})

\* The list that is sorted is as long as it was, and ascending up to the value that is being inserted; what
\* was found out of that value's place is true of the list as it is now.
SortingRight(s) ==
  /\ sorting.i \in 1 .. Len(s) - 1 /\ sorting.low \in 0 .. sorting.high /\ sorting.high < sorting.i
  /\ sorting.newval = s[sorting.i + 1]
  /\ Null \notin ToSet(s) =>
       /\ \A j, k \in 1 .. sorting.i : j < k => Rank[s[j]] <= Rank[s[k]]
       /\ \A j \in 1 .. sorting.low : Rank[s[j]] <= Rank[sorting.newval]
       /\ \A j \in sorting.high + 2 .. sorting.i : Rank[sorting.newval] <= Rank[s[j]]

ListsInv ==
  /\ DOMAIN arrays = Names /\ \A l \in Names : Sound(arrays[l])
  /\ Room(arrays) <= MaxRoom
  /\ sorting # Idle =>
       /\ sorting \in [list : Names, i : Nat, low : Nat, high : Nat, newval : Values \cup {Null}, by : {"<=>"}]
       /\ SortingRight(Con(arrays[sorting.list]))
==============================================================================
