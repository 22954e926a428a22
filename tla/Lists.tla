-------------------------------- MODULE Lists --------------------------------
(***************************************************************************)
(* What the methods of Acorn's lists promise: the abstract specification   *)
(* of module Arrays. A list is a sequence of values. Positions count from  *)
(* 0; a negative one counts from the end. called says which method is      *)
(* called for which list with which parameters, and answer what it gives.  *)
(***************************************************************************)
EXTENDS Integers, SequencesExt

CONSTANTS
  Null,
  Rank   \* Rank[v]: where the comparison puts value v; it cannot compare Null

VARIABLES
  lists,    \* name -> sequence of values
  sorting,  \* the list that is being sorted, or Null
  called,   \* [op, list, args]
  answer

vars == <<lists, sorting, called, answer>>

\* The call of this step.
This    == lists[called'.list]
Args    == called'.args
Arg(i, default) == IF i <= Len(Args) THEN Args[i] ELSE default
FromEnd(s, pos) == IF pos < 0 THEN pos + Len(s) ELSE pos

Copies(v, n) == [k \in 1 .. n |-> v]
\* The n values from position pos on, as far as there are so many.
Part(s, pos, n) == SubSeq(s, pos + 1, IF pos + n <= Len(s) THEN pos + n ELSE Len(s))
\* s with vs from position pos on, which may lie beyond its end.
Overwritten(s, pos, vs) ==
  LET t == s \o Copies(Null, pos + Len(vs) - Len(s))
  IN [k \in DOMAIN t |-> IF k - pos \in DOMAIN vs THEN vs[k - pos] ELSE t[k]]
\* s with vs in place of the n values from pos on.
Replaced(s, pos, n, vs) == Part(s, 0, pos) \o vs \o SubSeq(s, pos + n + 1, Len(s))
\* s without the values that are v.
Without(s, v) ==
  LET rest[k \in 0 .. Len(s)] ==   \* what is left of the last k values
        LET w == s[Len(s) - k + 1] IN
        IF k = 0 THEN <<>> ELSE IF w = v THEN rest[k - 1] ELSE <<w>> \o rest[k - 1]
  IN rest[Len(s)]
Count(s, v)      == Cardinality({k \in DOMAIN s : s[k] = v})
Permuted(s, t)   == Len(s) = Len(t) /\ \A v \in ToSet(s) : Count(s, v) = Count(t, v)

Does(op, s)  == called'.op = op /\ lists' = [lists EXCEPT ![called'.list] = s] /\ sorting' = sorting
Gives(v)     == answer' = v
Looks(op, v) == Does(op, This) /\ Gives(v)

New      == Does("New", Args)
Sized    == Does("Sized", <<>>)          \* New with a capacity
AddLast  == Does("<<", This \o Args)
AddFirst == Does(">>", Reverse(Args) \o This)
Insert   == Does("Insert", Replaced(This, Args[1], 0, Tail(Args)))
Pop      == Does("Pop", IF This = <<>> THEN <<>> ELSE Front(This)) /\ Gives(IF This = <<>> THEN Null ELSE Last(This))
Shift    == Does("Shift", IF This = <<>> THEN <<>> ELSE Tail(This)) /\ Gives(IF This = <<>> THEN Null ELSE Head(This))
Get      == LET pos == FromEnd(This, Args[1]) IN
            Looks("[]", IF pos \in 0 .. Len(This) - 1 THEN This[pos + 1] ELSE Null)
Set      == Does("[]=", Overwritten(This, FromEnd(This, Args[2]), <<Args[1]>>))
\* From the first position to the second one.
Delete   == LET pos  == FromEnd(This, Args[1])
                last == IF Len(Args) = 1 THEN pos ELSE FromEnd(This, Args[2])
            IN Does("Remove", IF pos < 0 \/ last < pos THEN This ELSE Replaced(This, pos, last - pos + 1, <<>>))
RemoveValue == Does("RemoveValue", Without(This, Args[1]))
Find     == LET at == SelectInSeq(This, LAMBDA v : v = Args[1]) IN Looks("Find", IF at = 0 THEN Null ELSE at - 1)
Size     == Looks("size", Len(This))
SetSize  == Does("size=", Part(This, 0, Args[1]) \o Copies(Null, Args[1] - Len(This)))
Resize   == Does("Resize", Part(This, 0, Args[1]) \o Copies(Null, Args[1] - Len(This)))
\* Parameter 1 is the list that is copied.
Clone    == LET from == lists[Args[1]]
                pos  == FromEnd(from, Arg(2, 0))
            IN Does("Clone", Part(from, pos, Arg(3, Len(from) - pos)))
Sub      == LET from == lists[Args[3]]
                pos2 == FromEnd(from, Args[4])
            IN Does("Sub", Replaced(This, FromEnd(This, Args[1]), Args[2], Part(from, pos2, Args[5])))
Merge    == Does("Merge", This \o lists[Args[1]])
Fill     == LET pos == FromEnd(This, Arg(2, 0)) IN
            Does("Fill", Overwritten(This, pos, Copies(Arg(1, Null), Arg(3, Len(This) - pos))))
Backward == Does("Reverse", Reverse(This))
\* An iterator over the list that has come to a position gives the value there.
Each     == Looks("Each", IF Args[1] < Len(This) THEN <<Args[1], This[Args[1] + 1]>> ELSE Null)
Randomize == called'.op = "Randomize" /\ (\E s \in {lists'[called'.list]} : Permuted(This, s) /\ Does("Randomize", s))

\* Sorting takes several steps, as it calls the comparison; meanwhile the list only changes its order.
SortStep ==
  /\ called'.op \in {"Sort", "compared", "sorted"}
  /\ LET s == lists'[called'.list] IN
     /\ Permuted(This, s) /\ lists' = [lists EXCEPT ![called'.list] = s]
     /\ sorting \in IF called'.op = "Sort" THEN {Null} ELSE IF called'.op = "compared" THEN {called'.list} ELSE {Null, called'.list}
     /\ sorting' = IF called'.op = "sorted" THEN Null ELSE called'.list
     /\ called'.op = "sorted" /\ Null \notin ToSet(s) => \A j, k \in DOMAIN s : j < k => Rank[s[j]] <= Rank[s[k]]

Next ==
  \/ New \/ Sized \/ AddLast \/ AddFirst \/ Insert \/ Pop \/ Shift \/ Get \/ Set \/ Delete \/ RemoveValue \/ Find
  \/ Size \/ SetSize \/ Resize \/ Clone \/ Sub \/ Merge \/ Fill \/ Backward \/ Each \/ Randomize \/ SortStep

Spec == sorting = Null /\ [][Next]_vars
==============================================================================
