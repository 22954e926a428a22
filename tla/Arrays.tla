-------------------------------- MODULE Arrays --------------------------------
(***************************************************************************)
(* Arrays (avm_array.cpp) and the methods of lists (typ_list.cpp).         *)
(*                                                                         *)
(* An array is a block of memory, of which the first size slots are in     *)
(* use. A slot that was never written, or is not in use any more, holds    *)
(* Junk: the collector does not keep what it refers to. Positions are      *)
(* unsigned numbers that wrap around (AuintIdx).                           *)
(*                                                                         *)
(* Methods run one at a time, but sorting calls a comparison, and that may *)
(* call the methods of lists again. A sort within a sort is left out.      *)
(* So are the bytes that blocks add to totalbytes.                         *)
(***************************************************************************)
EXTENDS Integers, SequencesExt, FiniteSetsExt

CONSTANTS
  Names,      \* the lists of the program
  Values, Null, Junk,
  Rank,       \* Rank[v]: where the comparison puts value v; it cannot compare Null
  Width,      \* numbers an AuintIdx can hold (2^32)
  MaxRoom,    \* bound: slots of all blocks together
  MaxPos,     \* bound: positions and lengths that are passed
  Irregular   \* kinds of calls allowed although they are not executed rightly, see Unless

ASSUME ConstantTypes ==
  /\ IsFiniteSet(Names) /\ Null \notin Names \cup Values /\ Junk \notin Values \cup {Null}
  /\ Rank \in [Values -> Int]
  /\ MaxRoom \in Nat /\ MaxPos \in Nat /\ Width \in Nat /\ Width > 2 * (MaxRoom + MaxPos + 1)

VARIABLES
  arrays,   \* name -> [block, size, wild]; wild: something was written outside the block
  sorting,  \* the activation of list_sort: the list, i, low, high, newval
  called,   \* the call that was executed last: [op, list, args]
  answer    \* and what it gave

vars == <<arrays, sorting, called, answer>>

Word(n)      == n % Width
Copies(v, n) == [k \in 1 .. n |-> v]
Avail(a)     == Len(a.block)
\* What n rounds make of array a.
Loop(a, n, Round(_, _)) ==
  LET after[k \in 0 .. n] == IF k = 0 THEN a ELSE Round(after[k - 1], k)
  IN IF n < 1 THEN a ELSE after[n]

(***************************************************************************)
(* Blocks.                                                                 *)
(***************************************************************************)
\* A fresh block.
newArr(len) == [block |-> Copies(Junk, len), size |-> 0, wild |-> FALSE]

\* n slots from pos on, and putting vs there. Slot 0 is block[1].
Slots(a, pos, n) == [k \in 1 .. n |-> IF pos + k <= Avail(a) THEN a.block[pos + k] ELSE Junk]
Put(a, pos, vs) ==
  [a EXCEPT !.block = [k \in DOMAIN @ |-> IF k - pos \in DOMAIN vs THEN vs[k - pos] ELSE @[k]],
            !.wild = @ \/ (vs # <<>> /\ pos + Len(vs) > Avail(a))]
\* memmove of n slots; n may have become negative, that is, huge.
Moved(a, to, from, n) == IF n < 0 THEN [a EXCEPT !.wild = TRUE] ELSE Put(a, to, Slots(a, from, n))
NullsTo(a, pos) == Put(a, a.size, Copies(Null, pos - a.size))
InUse(a, n) == [a EXCEPT !.size = n, !.block = [k \in DOMAIN @ |-> IF k <= n THEN @[k] ELSE Junk]]

\* A slip: the room is made for the old size only.
arrMakeRoomShort(a, len) == [a EXCEPT !.block = @ \o Copies(Junk, len - 1 - Len(@))]
arrMakeRoom(a, len) == [a EXCEPT !.block = @ \o Copies(Junk, len - Len(@))]

arrSetSize(a, len) == InUse(IF len > a.size THEN arrMakeRoom(a, len) ELSE a, len)

arrForceSize(a, len) ==
  LET b == [a EXCEPT !.block = SubSeq(@ \o Copies(Junk, len - Len(@)), 1, len)]
  IN InUse(NullsTo(b, len), len)

arrGet(a, pos) == IF pos >= a.size THEN Null ELSE Slots(a, pos, 1)[1]

arrSet(a, pos, v) ==
  LET b == IF pos >= Avail(a) THEN arrMakeRoom(a, Word(pos + 1)) ELSE a
      c == Put(NullsTo(b, pos), pos, <<v>>)
  IN IF Word(pos + 1) > a.size THEN InUse(c, pos + 1) ELSE c

arrAdd(a, v) ==
  LET sz == a.size
      b == IF sz + 1 > Avail(a) THEN arrMakeRoom(a, sz + (IF sz > 0 THEN sz ELSE 1)) ELSE a
  IN InUse(Put(b, sz, <<v>>), sz + 1)

arrRpt(a, pos, n, v) ==
  LET b == IF Word(pos + n) > Avail(a) THEN arrMakeRoom(a, Word(pos + n)) ELSE a
      c == Put(NullsTo(b, pos), pos, Copies(v, n))
  IN IF Word(pos + n) < n THEN a
     ELSE IF pos + n > a.size THEN InUse(c, pos + n) ELSE c

arrDel(a, pos, n) ==
  IF pos >= a.size \/ Word(pos + n) < n THEN a
  ELSE IF pos + n < a.size THEN InUse(Moved(a, pos, pos + n, a.size - pos - n), a.size - n)
  ELSE InUse(a, pos)

arrIns(a, pos, n, v) ==
  LET b == arrMakeRoom(a, n + a.size)
      c == IF pos < a.size THEN Moved(b, pos + n, pos, a.size - pos) ELSE b
  IN IF Word(a.size + n) < n THEN a ELSE arrRpt([c EXCEPT !.size = a.size + n], pos, n, v)

\* arr2 is an array, or a itself (same).
arrSub(a, pos, n, arr2, same, pos2, n2) ==
  LET left == Word(a.size - n + n2)
      b == arrMakeRoom(a, left)
      c == IF n # n2 /\ pos < a.size THEN Moved(b, Word(pos + n2), Word(pos + n), a.size - pos - n) ELSE b
      d == NullsTo(c, pos)
  IN IF left < n2 THEN a
     ELSE InUse(Put(d, pos, Slots(IF same THEN d ELSE arr2, pos2, n2)), left)

(***************************************************************************)
(* The methods of lists. Parameters that a caller may leave out are left   *)
(* out of args too.                                                        *)
(***************************************************************************)
Idle == [list |-> Null, i |-> 0, low |-> 0, high |-> 0, newval |-> Null, by |-> "<=>"]

Init ==
  /\ arrays = [l \in Names |-> newArr(0)] /\ sorting = Idle
  /\ called = [op |-> "none", list |-> Null, args |-> <<>>] /\ answer = Null

(***************************************************************************)
(* What is bad about a call must be a kind that is allowed:                *)
(*   "before", "beyond", "negative"   positions before the start, parts    *)
(*                     that reach over the end, lengths below 0            *)
(*   "gap", "grow"     slots get in use that are not written               *)
(*   "first", "end", "clone", "method", "alias"                            *)
(*                     values that are missed, added or not moved          *)
(*   "span"            a second position is given to Remove                *)
(*   "sixth"           Sub finds another length in its sixth parameter     *)
(*   "busy"            a comparison changes the list that is sorted        *)
(***************************************************************************)
Unless(kind, bad) == bad => kind \in Irregular
Called(op, l, args, ans) ==
  /\ sorting.list = l => "busy" \in Irregular
  /\ called' = [op |-> op, list |-> l, args |-> args] /\ answer' = ans
\* The slots of the blocks of all lists.
Room(as) == SumFunction([l \in Names |-> Avail(as[l])])
\* Method op gives list l the array a.
Done(op, l, args, a, ans) ==
  /\ Called(op, l, args, ans)
  /\ arrays' = [arrays EXCEPT ![l] = a] /\ Room(arrays') <= MaxRoom
  /\ UNCHANGED sorting
Become(op, l, args, a) == Done(op, l, args, a, Null)
Look(op, l, args, ans) == Done(op, l, args, arrays[l], ans)

Positions == -MaxPos .. MaxPos
Lengths   == (IF "negative" \in Irregular THEN -MaxPos ELSE 0) .. MaxPos
Few       == SeqOf(Values \cup {Null}, 2)

\* A position that a caller gave, which counts from the end if it is negative.
From(a, pos) == IF pos < 0 THEN pos + a.size ELSE pos

\* l is given a new list; the one it named is not used any more.
list_new(l) == \E vs \in Few :
  Become("New", l, vs, Loop(newArr(IF vs = <<>> THEN 4 ELSE Len(vs)), Len(vs), LAMBDA a, k : arrSet(a, k - 1, vs[k])))
list_newSized(l) == \E n \in 0 .. MaxPos : Become("Sized", l, <<n>>, newArr(n))

list_append(l)  == \E vs \in Few : Become("<<", l, vs, Loop(arrays[l], Len(vs), LAMBDA a, k : arrAdd(a, vs[k])))
list_prepend(l) == \E vs \in Few : Become(">>", l, vs, Loop(arrays[l], Len(vs), LAMBDA a, k : arrIns(a, 0, 1, vs[k])))
list_insert(l)  == \E pos \in Positions, vs \in Few :
  /\ Unless("before", pos < 0) /\ Unless("gap", pos > arrays[l].size /\ vs # <<>>)
  /\ Become("Insert", l, <<pos>> \o vs,
            Loop(arrays[l], Len(vs), LAMBDA a, k : arrIns(a, Word(pos + k - 1), 1, vs[k])))

list_pop(l) == LET a == arrays[l] IN
  Done("Pop", l, <<>>, IF a.size = 0 THEN a ELSE arrSetSize(a, a.size - 1),
       IF a.size = 0 THEN Null ELSE arrGet(a, a.size - 1))
list_shift(l) == LET a == arrays[l] IN
  Done("Shift", l, <<>>, IF a.size = 0 THEN a ELSE arrDel(a, 0, 1), IF a.size = 0 THEN Null ELSE arrGet(a, 0))

list_get(l) == \E pos \in Positions : Look("[]", l, <<pos>>, arrGet(arrays[l], Word(From(arrays[l], pos))))
list_set(l) == \E p \in Positions, v \in Values :
  LET pos == From(arrays[l], p) IN
  Unless("before", pos < 0) /\ Become("[]=", l, <<v, p>>, arrSet(arrays[l], Word(pos), v))

\* The second parameter is taken for a length. It is what the comment says, a position, where both remove the same.
list_remove(l) == \E p \in Positions, len \in {<<>>} \cup {<<n>> : n \in Lengths} :
  LET a   == arrays[l]
      pos == From(a, p)
      n   == IF len = <<>> THEN 1 ELSE len[1]
      AsPosition == (pos .. pos + n - 1) \cap (0 .. a.size - 1) = (pos .. From(a, n)) \cap (0 .. a.size - 1)
  IN /\ Unless("span", len # <<>> /\ ~AsPosition)
     /\ Become("Remove", l, <<p>> \o len, arrDel(a, Word(pos), Word(n)))

\* From the end towards the start, which is not looked at.
list_removeValue(l) == \E v \in Values :
  LET a == arrays[l] IN
  /\ Unless("first", a.size > 0 /\ arrGet(a, 0) = v)
  /\ Become("RemoveValue", l, <<v>>,
            Loop(a, a.size - 1, LAMBDA b, k : IF arrGet(b, a.size - k) = v THEN arrDel(b, a.size - k, 1) ELSE b))

list_find(l) == \E v \in Values :
  LET a == arrays[l]
      at == {k \in 0 .. a.size - 1 : arrGet(a, k) = v}
  IN Look("Find", l, <<v>>, IF at = {} THEN Null ELSE Min(at))

\* l is given a copy of a part of list from.
list_clone(l) == \E from \in Names, given \in {<<>>} \cup {<<pos>> : pos \in Positions} \cup (Positions \X Lengths) :
  LET a == arrays[from]
      pos == IF given = <<>> THEN 0 ELSE From(a, given[1])
      len == IF Len(given) = 2 THEN given[2] ELSE a.size - pos + 1
  IN /\ Unless("clone", len # 0) /\ Unless("before", pos < 0)
     /\ Become("Clone", l, <<from>> \o given,
               arrSub(newArr(Word(len)), 0, Word(len), a, FALSE, Word(pos), Word(len)))

\* Whether arrSub copies from slots it has not moved others to, if the two lists are one.
Apart(a, pos, n, pos2, n2) ==
  n = n2 \/ (pos + n2 .. a.size - n + n2 - 1) \cap (pos2 .. pos2 + n2 - 1) = {}

\* Parameter 5 is asked for as a length, but n2 is read from the sixth, which others may have left there.
list_sub(l) == \E m \in Names, p \in Positions, n \in Lengths, p2 \in Positions, len2 \in Lengths, n2 \in Lengths :
  LET a == arrays[l]
      pos == From(a, p)
      pos2 == From(arrays[m], p2)
  IN /\ Unless("sixth", n2 # len2)
     /\ Unless("beyond", ~(pos \in 0 .. a.size /\ n <= a.size - pos /\ pos2 \in 0 .. arrays[m].size /\ n2 <= arrays[m].size - pos2))
     /\ Unless("alias", l = m /\ ~Apart(a, pos, n, pos2, n2))
     /\ Become("Sub", l, <<p, n, m, p2, len2>>, arrSub(a, Word(pos), Word(n), arrays[m], l = m, Word(pos2), Word(n2)))

list_merge(l) == \E m \in Names :
  Become("Merge", l, <<m>>, arrSub(arrays[l], arrays[l].size, 0, arrays[m], l = m, 0, arrays[m].size))

list_fill(l) == \E v \in Values \cup {Null}, given \in {<<>>} \cup {<<pos>> : pos \in Positions} \cup (Positions \X Lengths) :
  LET a == arrays[l]
      pos == IF given = <<>> THEN 0 ELSE From(a, given[1])
      len == IF Len(given) = 2 THEN given[2] ELSE a.size - pos + 1
  IN /\ Unless("end", Len(given) < 2) /\ Unless("before", pos < 0)
     /\ Become("Fill", l, <<v>> \o given, arrRpt(a, Word(pos), Word(len), v))

list_getsize(l) == Look("size", l, <<>>, arrays[l].size)
list_setsize(l) == \E n \in 0 .. MaxPos :
  Unless("grow", n > arrays[l].size) /\ Become("size=", l, <<n>>, arrSetSize(arrays[l], n))

\* A block that exists is resized as if it were new, which fails an assertion where those are compiled in.
list_forcesize(l) == \E n \in 0 .. MaxPos : Become("Resize", l, <<n>>, arrForceSize(arrays[l], n))

Swapped(a, i, j) == arrSet(arrSet(a, i, arrGet(a, j)), j, arrGet(a, i))
list_reverse(l) == LET a == arrays[l] IN
  Become("Reverse", l, <<>>, Loop(a, a.size \div 2, LAMBDA b, k : Swapped(b, a.size - k, k - 1)))
list_randomize(l) == LET a == arrays[l] IN
  \E js \in {f \in [1 .. a.size - 1 -> 0 .. a.size - 1] : \A i \in DOMAIN f : f[i] < i} :
    Become("Randomize", l, <<>>, Loop(a, a.size - 1, LAMBDA b, k : Swapped(b, a.size - k, js[a.size - k])))

\* An iterator of the list, which has come to position current.
list_each_get(l) == \E current \in 0 .. MaxPos :
  Look("Each", l, <<current>>, IF current >= arrays[l].size THEN Null ELSE <<current, arrGet(arrays[l], current)>>)

(***************************************************************************)
(* Sorting: binary insertion. list_sort stops where it calls the           *)
(* comparison; Compared is how it goes on when that has come back.         *)
(***************************************************************************)
\* Inserting the i-th value, if there is one (arr_size is asked every time).
Inserting(l, a, i, by) ==
  IF i < a.size THEN [list |-> l, i |-> i, low |-> 0, high |-> i - 1, newval |-> arrGet(a, i), by |-> by] ELSE Idle

\* "method": a comparison that is passed is not used, the list is called in its place.
list_sort(l) == \E by \in {"<=>"} \cup (IF "method" \in Irregular THEN {"list"} ELSE {}) :
  /\ sorting = Idle
  /\ sorting' = Inserting(l, arrays[l], 1, by)
  /\ Called(IF sorting' = Idle THEN "sorted" ELSE "Sort", l, <<>>, Null)
  /\ UNCHANGED arrays

Compare(v, w) ==
  IF Null \in {v, w} \/ sorting.by = "list" THEN "none"
  ELSE IF Rank[v] < Rank[w] THEN "less" ELSE IF Rank[v] = Rank[w] THEN "equal" ELSE "greater"

\* A slip: what is greater than all goes before the last of them.
InsertionShort(s, j, comp) ==
  IF comp = "equal" THEN j + 1 ELSE IF (IF comp = "less" THEN s.low ELSE s.high) = j THEN j ELSE -1
\* Where the new value belongs, or -1 if that is not known yet.
Insertion(s, j, comp) ==
  CASE comp = "equal" -> j + 1
    [] comp = "less"  -> IF j = s.low THEN j ELSE -1
    [] comp \in {"greater", "none"} -> IF j = s.high THEN j + 1 ELSE -1

Compared ==
  LET s == sorting
      a == arrays[s.list]
      j == s.low + (s.high - s.low) \div 2
      comp == Compare(s.newval, arrGet(a, j))
      to == Insertion(s, j, comp)
      b == IF to \in 0 .. s.i - 1 THEN arrSet(arrSub(a, to + 1, s.i - to, a, TRUE, to, s.i - to), to, s.newval) ELSE a
  IN /\ s.list # Null
     /\ arrays' = [arrays EXCEPT ![s.list] = b] /\ Room(arrays') <= MaxRoom
     /\ sorting' = IF to # -1 THEN Inserting(s.list, b, s.i + 1, s.by)
                   ELSE IF comp = "less" THEN [s EXCEPT !.high = j - 1] ELSE [s EXCEPT !.low = j + 1]
     /\ called' = [op |-> IF sorting' = Idle THEN "sorted" ELSE "compared", list |-> s.list, args |-> <<>>]
     /\ answer' = Null

Next ==
  \/ Compared
  \/ \E l \in Names :
       \/ list_new(l) \/ list_newSized(l) \/ list_append(l) \/ list_prepend(l) \/ list_insert(l) \/ list_pop(l)
       \/ list_shift(l) \/ list_get(l) \/ list_set(l) \/ list_remove(l) \/ list_removeValue(l) \/ list_find(l)
       \/ list_clone(l) \/ list_sub(l) \/ list_merge(l) \/ list_fill(l) \/ list_getsize(l) \/ list_setsize(l)
       \/ list_forcesize(l) \/ list_reverse(l) \/ list_randomize(l) \/ list_each_get(l) \/ list_sort(l)

Spec == Init /\ [][Next]_vars
------------------------------------------------------------------------------
Contents == [l \in Names |-> SubSeq(arrays[l].block, 1, arrays[l].size)]

TypeOK ==
  /\ \A l \in Names : /\ arrays[l].block \in Seq(Values \cup {Null, Junk})
                      /\ arrays[l].size \in 0 .. Width - 1 /\ arrays[l].wild \in BOOLEAN
  /\ sorting # Idle => sorting.list \in Names /\ sorting.low \in 0 .. sorting.high /\ sorting.high < sorting.i

\* Nothing is written outside a block, and what is in use was written: the collector looks at all of it
\* (avm_array.h:55), and moves what memmove is told to.
BlocksHold ==
  /\ TypeOK
  /\ \A l \in Names : LET a == arrays[l] IN
       ~a.wild /\ a.size <= Avail(a) /\ Junk \notin ToSet(SubSeq(a.block, 1, a.size))

\* Every method does to its list, and answers, what the abstract specification says, and nothing to the other
\* lists, also while one of them is being sorted; and sorting only changes the order, until it is ascending.
Promised == INSTANCE Lists WITH lists <- Contents, sorting <- sorting.list
ImplementsLists == Promised!Spec
==============================================================================
