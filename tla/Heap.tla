-------------------------------- MODULE Heap --------------------------------
(***************************************************************************)
(* What the memory manager promises the rest of the Acorn VM, without a    *)
(* word about colours, lists or phases: objects refer to one another, the  *)
(* program creates objects and rewrites references, and the collector      *)
(* gives memory back.  An object the program can still reach from the root *)
(* is never given back, and giving one back never alters a survivor.       *)
(***************************************************************************)
CONSTANTS
  Obj,    \* every object there may ever be
  Root    \* the member of Obj from which every live object is reached: the VM

VARIABLES
  alloc,  \* the objects whose memory is allocated
  refs    \* refs[x]: the objects x holds a pointer to

vars == <<alloc, refs>>

\* What can be reached from a set of objects: the least set that contains it
\* and everything its members hold.
ReachFrom(from) ==
  LET first  == from \cup UNION {refs[x] : x \in from}
      held   == from \cup UNION {refs[x] : x \in Obj}
      closed == {S \in {first \cup more : more \in SUBSET (held \ first)} : \A x \in S : refs[x] \subseteq S}
  IN  {x \in held : \A S \in closed : x \in S}

Reachable == ReachFrom({Root})

\* No pointer the program can follow leads to memory that was given back.
NoDangling == Reachable \subseteq alloc

Init ==
  /\ alloc \in SUBSET Obj
  /\ refs \in [Obj -> SUBSET Obj]
  /\ NoDangling

\* The program creates objects and changes references; it gives nothing back.
Mutate ==
  /\ alloc \subseteq alloc'
  /\ refs' \in [Obj -> SUBSET Obj]
  /\ NoDangling'

\* The collector gives back unreachable objects and touches no survivor.
Collect ==
  LET dead == alloc \ alloc'
  IN  /\ alloc' \subseteq alloc
      /\ dead \cap Reachable = {}
      /\ refs' = [x \in Obj |-> IF x \in dead THEN {} ELSE refs[x]]

Next == Mutate \/ Collect

Spec == Init /\ [][Next]_vars
=============================================================================
