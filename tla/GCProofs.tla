------------------------------ MODULE GCProofs ------------------------------
(***************************************************************************)
(* The collector frees no object the program can reach: the invariant of   *)
(* GCInv is inductive, and GC implements Heap.                             *)
(*                                                                         *)
(* A full cycle frees all that was unreachable when it began, a sweep that *)
(* stops at an old object has missed nothing, and the gray list is sound:  *)
(* the invariant of GCFullInv holds whenever that of GCInv does.           *)
(***************************************************************************)
EXTENDS GCFullInv, SeqProofs, SequenceTheorems, FiniteSetTheorems, TLAPS

-----------------------------------------------------------------------------
(***************************************************************************)
(* Reachability.                                                           *)
(***************************************************************************)
\* Reach(r) holds the root and is closed under r.
LEMMA ReachClosed ==
  ASSUME NEW r \in [Obj -> SUBSET Obj]
  PROVE  /\ Vm \in Reach(r)
         /\ Reach(r) \subseteq Obj
         /\ \A x \in Reach(r) : r[x] \subseteq Reach(r)
BY DEF Reach, Obj

\* It is the least such set.
LEMMA ReachLeast ==
  ASSUME NEW r, NEW T \in SUBSET Obj, Vm \in T, \A x \in T : r[x] \subseteq T
  PROVE  Reach(r) \subseteq T
<1> DEFINE first == {Vm} \cup r[Vm]
<1>1. T = first \cup (T \ first) /\ T \ first \in SUBSET (Obj \ first)
  OBVIOUS
<1> QED
  BY <1>1 DEF Reach

\* Pointers of unreachable objects do not matter.
LEMMA ReachSame ==
  ASSUME NEW r \in [Obj -> SUBSET Obj], NEW q \in [Obj -> SUBSET Obj],
         \A x \in Reach(r) : q[x] = r[x]
  PROVE  Reach(q) = Reach(r)
<1>1. Reach(q) \subseteq Reach(r)
  BY ReachClosed, ReachLeast
<1>2. \A x \in Reach(q) : r[x] \subseteq Reach(q)
  BY <1>1, ReachClosed
<1>3. Reach(r) \subseteq Reach(q)
  BY <1>2, ReachClosed, ReachLeast
<1> QED
  BY <1>1, <1>3

\* Heap looks only at sets that hold what from points to; every closed one does.
LEMMA ReachFromIs ==
  ASSUME refs \in [Obj -> SUBSET Obj], NEW from \in SUBSET Obj
  PROVE  LET pointed == from \cup UNION {refs[x] : x \in Obj}
             closed  == {S \in SUBSET pointed : from \subseteq S /\ \A x \in S : refs[x] \subseteq S}
         IN  H!ReachFrom(from) = {x \in pointed : \A S \in closed : x \in S}
<1> DEFINE pointed == from \cup UNION {refs[x] : x \in Obj}
           closed  == {S \in SUBSET pointed : from \subseteq S /\ \A x \in S : refs[x] \subseteq S}
           first   == from \cup UNION {refs[x] : x \in from}
           looked  == {S \in {first \cup more : more \in SUBSET (pointed \ first)} : \A x \in S : refs[x] \subseteq S}
<1>1. first \subseteq pointed
  OBVIOUS
<1>2. ASSUME NEW S \in closed PROVE S \in looked
  <2>1. S = first \cup (S \ first) /\ S \ first \in SUBSET (pointed \ first)
    OBVIOUS
  <2> QED
    BY <2>1
<1>3. ASSUME NEW S \in looked PROVE S \in closed
  BY <1>1
<1>4. looked = closed
  BY <1>2, <1>3
<1>5. H!ReachFrom(from) = {x \in pointed : \A S \in looked : x \in S}
  BY DEF H!ReachFrom
<1> QED
  BY <1>4, <1>5

\* Heap defines reachability by the closed sets of objects that are pointed to;
\* the others make no difference.
LEMMA ReachableIsLive ==
  ASSUME refs \in [Obj -> SUBSET Obj]
  PROVE  Reachable = Live
<1> DEFINE pointed == {Vm} \cup UNION {refs[x] : x \in Obj}
           closed  == {S \in SUBSET pointed : {Vm} \subseteq S /\ \A x \in S : refs[x] \subseteq S}
<1>1. Reachable = {x \in pointed : \A S \in closed : x \in S}
  BY ReachFromIs, Vm \in Obj DEF Reachable, H!Reachable, Obj
<1>2. pointed \subseteq Obj /\ pointed \in closed
  BY DEF Obj
<1>3. Reachable \subseteq Live
  <2> SUFFICES ASSUME NEW x \in Reachable
               PROVE  x \in Live
    OBVIOUS
  <2>1. Live \cap pointed \in closed
    BY <1>2, ReachClosed DEF Live
  <2> QED
    BY <1>1, <2>1
<1>4. Live \subseteq Reachable
  <2>1. Live \subseteq pointed
    BY <1>2, ReachLeast DEF Live
  <2>2. \A S \in closed : Live \subseteq S
    BY <1>2, ReachLeast DEF Live
  <2> QED
    BY <1>1, <2>1, <2>2
<1> QED
  BY <1>3, <1>4
-----------------------------------------------------------------------------
(***************************************************************************)
(* The program's steps.                                                    *)
(***************************************************************************)
\* What mem_markobj does to the colours and to the gray list.
LEMMA Marked ==
  ASSUME NEW c \in [Obj -> Colors], NEW g \in SUBSET Obj, NEW S \in SUBSET Obj,
         markobj(c, g, S)
  PROVE  /\ color' \in [Obj -> Colors] /\ gray' \in SUBSET Obj /\ g \subseteq gray'
         /\ \A x \in Obj : ~(x \in S /\ c[x] \in White) => color'[x] = c[x]
         /\ \A x \in Obj : x \in S /\ c[x] \in White =>
              \/ x \in Sym /\ color'[x] = "black"
              \/ x \notin Sym /\ color'[x] = "gray" /\ x \in gray'
BY DEF markobj, Colors, White

\* A running thread is live and so is all it can load.
LEMMA HeldIsLive ==
  ASSUME Types, Shape, NEW t \in Threads, Runs(t)
  PROVE  t \in Live /\ held(t) \subseteq Live /\ Live \subseteq Obj
<1>1. Vm \in Live /\ Live \subseteq Obj /\ \A x \in Live : refs[x] \subseteq Live
  BY ReachClosed DEF Types, Live
<1>2. Main \in Live /\ Global \in Live
  BY <1>1 DEF Shape
<1>3. t \in Live
  BY <1>2, ReachableIsLive DEF Runs, Types
<1>4. held(t) \subseteq Live
  BY <1>1, <1>2, <1>3 DEF held
<1> QED
  BY <1>1, <1>3, <1>4

\* A step of the program keeps the colour invariants if it makes only the objects
\* of N reachable, changes colours by marking alone, and lets no black object
\* point to a new white one.
LEMMA ProgramStep ==
  ASSUME Types, Barrier, Colours, Types', Shape',
         NEW N \in SUBSET Obj,
         UNCHANGED <<gcstate, gcmode, gcnextmode, gcbarrieron, currentwhite>>,
         gcstate \notin InAtomic,
         alloc \subseteq alloc', Live \subseteq Obj, Live' \subseteq Live \cup N,
         gray \subseteq gray', color'[Vm] = color[Vm],
         \A x \in Live : \/ color'[x] = color[x]
                         \/ /\ gcbarrieron /\ color'[x] \notin White
                            /\ x \in Sym \/ (color'[x] = "gray" /\ x \in gray'),
         \A n \in N : /\ n \in alloc' /\ color'[n] # Otherwhite
                      /\ n \in Sym \/ color'[n] \in White,
         gcbarrieron => \A p \in Live \ Threads : color'[p] = "black" =>
                           \A c \in refs'[p] \ refs[p] : color'[c] \notin White,
         \A x \in Live : x \in unswept => x \in unswept'
  PROVE  Colours'
<1>0. Otherwhite' = Otherwhite /\ Otherwhite \in White
  BY DEF Otherwhite, White, Types
<1>1. LiveAllocated'
  BY DEF LiveAllocated, Colours
<1>2. LiveNotDead'
  BY <1>0 DEF LiveNotDead, Colours, isdead
<1>3. VmBlack'
  BY DEF VmBlack, Colours
<1>4. BlackAboveNoWhite'
  <2> SUFFICES ASSUME gcbarrieron, NEW p \in Live' \ Threads, color'[p] = "black",
                      NEW c \in refs'[p], color'[c] \in White
               PROVE  FALSE
    BY DEF BlackAboveNoWhite
  <2>1. p \notin Sym
    BY DEF Shape, Obj
  <2>2. p \in Live
    BY <2>1 DEF White
  <2>3. c \in refs[p] /\ color[p] = "black"
    BY <2>1, <2>2
  <2>4. c \in Live
    BY <2>2, <2>3, ReachClosed DEF Live, Types
  <2>5. color[c] \notin White
    BY <2>2, <2>3 DEF Colours, BlackAboveNoWhite
  <2> QED
    BY <2>4, <2>5
<1>5. GrayListed'
  BY DEF GrayListed, Colours, White
<1>6. WhiteAtBegin'
  BY DEF WhiteAtBegin, Colours, Unmarked, Barrier, GC_FULLMODE, GC_GENMODE
<1>7. SweptWhite'
  BY DEF SweptWhite, Colours, Unmarked, Barrier, GC_FULLMODE, GC_GENMODE
<1>8. StacksScanned'
  BY DEF StacksScanned, InAtomic
<1> QED
  BY <1>1, <1>2, <1>3, <1>4, <1>5, <1>6, <1>7, <1>8 DEF Colours

\* Stores of live objects into live objects make nothing reachable but what is
\* new, and that only if it points to nothing else.
LEMMA Stored ==
  ASSUME Types, Types', NEW N \in SUBSET Obj,
         \A x \in Live \cup N : refs'[x] \subseteq Live \cup N
  PROVE  Live' \subseteq Live \cup N
<1>1. Vm \in Live /\ Live \subseteq Obj
  BY ReachClosed DEF Types, Live
<1>2. Reach(refs') \subseteq Live \cup N
  BY <1>1, ReachLeast
<1> QED
  BY <1>2 DEF Live

\* Live is closed and holds the roots.
LEMMA LiveClosed ==
  ASSUME Types
  PROVE  Live \subseteq Obj /\ Vm \in Live /\ \A x \in Live : refs[x] \subseteq Live
BY ReachClosed DEF Types, Live

\* The write barrier marks v or leaves it; a black parent gets no white v that lives.
LEMMA BarrierMarks ==
  ASSUME Types, NEW p \in Obj, NEW v \in Obj, markobj(color, gray, markChk(p, v))
  PROVE  /\ color' \in [Obj -> Colors] /\ gray' \in SUBSET Obj /\ gray \subseteq gray'
         /\ \A x \in Obj : \/ color'[x] = color[x]
                           \/ /\ gcbarrieron /\ color'[x] \notin White /\ color[x] \in White
                              /\ x \in Sym \/ (color'[x] = "gray" /\ x \in gray')
         /\ gcbarrieron /\ color[p] = "black" /\ ~isdead(v) => color'[v] \notin White
<1>1. /\ color \in [Obj -> Colors] /\ gray \in SUBSET Obj
      /\ markChk(p, v) \in SUBSET Obj
  BY DEF Types, markChk
<1>2. /\ color' \in [Obj -> Colors] /\ gray' \in SUBSET Obj /\ gray \subseteq gray'
      /\ \A x \in Obj : ~(x \in markChk(p, v) /\ color[x] \in White) => color'[x] = color[x]
      /\ \A x \in Obj : x \in markChk(p, v) /\ color[x] \in White =>
           \/ x \in Sym /\ color'[x] = "black"
           \/ x \notin Sym /\ color'[x] = "gray" /\ x \in gray'
  BY <1>1, Marked
<1> QED
  BY <1>2 DEF markChk, White

LEMMA pushValueStep ==
  ASSUME IInv, NEW t \in Threads, NEW v \in Obj, pushValue(t, v)
  PROVE  IInv'
<1> USE DEF IInv
<1>1. t \in Live /\ v \in Live /\ Runs(t)
  BY HeldIsLive DEF pushValue
<1>2. /\ color' \in [Obj -> Colors] /\ gray' \in SUBSET Obj /\ gray \subseteq gray'
      /\ \A x \in Obj : \/ color'[x] = color[x]
                        \/ /\ gcbarrieron /\ color'[x] \notin White /\ color[x] \in White
                           /\ x \in Sym \/ (color'[x] = "gray" /\ x \in gray')
  BY BarrierMarks DEF pushValue, Obj
<1>3. Types'
  BY <1>2 DEF pushValue, Types, Obj, cycleVars, sweepVars, progVars
<1>4. Live' \subseteq Live
  <2>1. \A x \in Live : refs'[x] \subseteq refs[x] \cup {v}
    BY LiveClosed DEF pushValue, Types
  <2> QED
    BY <1>1, <1>3, <2>1, LiveClosed, Stored
<1>5. Shape'
  <2>1. t \in alloc \cup {Main} /\ t \notin Sym \cup {Vm}
    BY <1>1, KindsAreDisjoint DEF Colours, LiveAllocated, Threads
  <2> QED
    BY <2>1 DEF pushValue, Shape, Types
<1>6. Barrier' /\ Building'
  BY <1>1 DEF pushValue, cycleVars, progVars, Barrier, Building, Runs
<1>7. Colours'
  <2>1. UNCHANGED <<unswept, alloc, cycleVars>>
    BY DEF pushValue, unswept, ahead, sweepVars, cycleVars
  <2>2. \A p \in Live \ Threads : refs'[p] = refs[p]
    BY <1>1, LiveClosed DEF pushValue, Types
  <2>3. color'[Vm] = color[Vm]
    BY <1>2 DEF Colours, VmBlack, White, Obj
  <2> QED
    BY <1>1, <1>2, <1>3, <1>4, <1>5, <2>1, <2>2, <2>3, LiveClosed, ProgramStep
       DEF cycleVars, Runs
<1> QED
  BY <1>3, <1>5, <1>6, <1>7

LEMMA setElementStep ==
  ASSUME IInv, NEW t \in Threads, NEW p \in Node, NEW v \in Obj, setElement(t, p, v)
  PROVE  IInv'
<1> USE DEF IInv
<1>1. p \in Live /\ v \in Live /\ Runs(t)
  BY HeldIsLive DEF setElement
<1>2. PICK over \in SUBSET refs[p] : refs' = [refs EXCEPT ![p] = (@ \ over) \cup {v}]
  BY DEF setElement
<1>3. /\ color' \in [Obj -> Colors] /\ gray' \in SUBSET Obj /\ gray \subseteq gray'
      /\ \A x \in Obj : \/ color'[x] = color[x]
                        \/ /\ gcbarrieron /\ color'[x] \notin White /\ color[x] \in White
                           /\ x \in Sym \/ (color'[x] = "gray" /\ x \in gray')
      /\ gcbarrieron /\ color[p] = "black" /\ ~isdead(v) => color'[v] \notin White
  BY BarrierMarks DEF setElement, Obj
<1>4. Types'
  BY <1>2, <1>3 DEF setElement, Types, Obj, cycleVars, sweepVars, progVars
<1>5. Live' \subseteq Live
  <2>1. \A x \in Live : refs'[x] \subseteq refs[x] \cup {v}
    BY <1>2, LiveClosed DEF Types
  <2> QED
    BY <1>1, <1>4, <2>1, LiveClosed, Stored
<1>6. Shape'
  <2>1. p \in alloc \cup {Main} /\ p \notin Sym \cup {Vm}
    BY <1>1, KindsAreDisjoint DEF Colours, LiveAllocated
  <2> QED
    BY <1>2, <2>1 DEF setElement, Shape, Types
<1>7. Barrier' /\ Building'
  BY <1>1 DEF setElement, cycleVars, progVars, Barrier, Building, Runs
<1>8. Colours'
  <2>1. UNCHANGED <<unswept, alloc, cycleVars>>
    BY DEF setElement, unswept, ahead, sweepVars, cycleVars
  <2>2. gcbarrieron => \A q \in Live \ Threads : color'[q] = "black" =>
                         \A c \in refs'[q] \ refs[q] : color'[c] \notin White
    <3> SUFFICES ASSUME gcbarrieron, NEW q \in Live, color'[q] = "black",
                        NEW c \in refs'[q] \ refs[q]
                 PROVE  color'[c] \notin White
      OBVIOUS
    <3>1. q = p /\ c = v
      BY <1>2, LiveClosed DEF Types
    <3>2. p \notin Sym
      BY KindsAreDisjoint
    <3>3. color[p] = "black"
      BY <1>3, <3>1, <3>2 DEF Obj
    <3> QED
      BY <1>1, <1>3, <3>1, <3>3 DEF Colours, LiveNotDead
  <2>3. color'[Vm] = color[Vm]
    BY <1>3 DEF Colours, VmBlack, White, Obj
  <2> QED
    BY <1>1, <1>3, <1>4, <1>5, <1>6, <2>1, <2>2, <2>3, LiveClosed, ProgramStep
       DEF cycleVars, Runs
<1> QED
  BY <1>4, <1>6, <1>7, <1>8

\* Steps that write to stacks without a barrier, or take a pointer away: what is
\* written is live, and only threads get new pointers.
LEMMA PlainStoreStep ==
  ASSUME IInv, NEW t \in Threads, Runs(t),
         refs' \in [Obj -> SUBSET Obj], stale' = stale,
         \A x \in Live : refs'[x] \subseteq Live,
         \A x \in Obj \ (Live \cup Threads) : refs'[x] = refs[x],
         \A x \in Threads \ (alloc \cup {Main}) : refs'[x] = refs[x],
         \A x \in Live \ Threads : refs'[x] \subseteq refs[x],
         refs'[Vm] = refs[Vm],
         UNCHANGED <<alloc, lists, symArray, markVars, cycleVars, sweepVars, request, building>>
  PROVE  IInv'
<1> USE DEF IInv
<1>1. Types'
  BY DEF Types, markVars, cycleVars, sweepVars
<1>2. Live' \subseteq Live
  BY <1>1, LiveClosed, Stored
<1>3. Shape'
  BY LiveClosed, KindsAreDisjoint DEF Shape, Types, Obj, Threads, Colours, LiveAllocated
<1>4. Barrier' /\ Building'
  BY DEF cycleVars, Barrier, Building, Runs
<1>5. Colours'
  <2>1. UNCHANGED <<unswept, alloc, cycleVars, color, gray>>
    BY DEF unswept, ahead, sweepVars, cycleVars, markVars
  <2> QED
    BY <1>1, <1>2, <1>3, <2>1, LiveClosed, ProgramStep DEF cycleVars, Runs
<1> QED
  BY <1>1, <1>3, <1>4, <1>5

LEMMA copyToStackStep ==
  ASSUME IInv, NEW t \in Threads, NEW u \in Threads, NEW v \in Obj, copyToStack(t, u, v)
  PROVE  IInv'
<1> USE DEF IInv
<1>1. t \in Live /\ u \in Live /\ v \in Live /\ Runs(t)
  BY HeldIsLive, LiveClosed DEF copyToStack
<1>2. u \in alloc \cup {Main} /\ u # Vm
  BY <1>1, KindsAreDisjoint DEF Colours, LiveAllocated, Threads
<1>3. refs' \in [Obj -> SUBSET Obj] /\ \A x \in Obj : refs'[x] = IF x = u THEN refs[x] \cup {v} ELSE refs[x]
  BY DEF copyToStack, Types
<1>4. \A x \in Live : refs'[x] \subseteq Live
  BY <1>1, <1>3, LiveClosed
<1> QED
  BY <1>1, <1>2, <1>3, <1>4, LiveClosed, PlainStoreStep DEF copyToStack, progVars, Obj

LEMMA popValueStep ==
  ASSUME Regular, IInv, NEW t \in Threads, NEW v \in Obj, popValue(t, v)
  PROVE  IInv'
<1> USE DEF IInv
<1>1. t \in Live /\ Runs(t)
  BY HeldIsLive DEF popValue
<1>2. t \in alloc \cup {Main} /\ t # Vm
  BY <1>1, KindsAreDisjoint DEF Colours, LiveAllocated, Threads
<1>3. refs' \in [Obj -> SUBSET Obj] /\ \A x \in Obj : refs'[x] = IF x = t THEN refs[x] \ {v} ELSE refs[x]
  BY DEF popValue, Types
<1>4. \A x \in Live : refs'[x] \subseteq Live
  BY <1>3, LiveClosed
<1> QED
  BY <1>1, <1>2, <1>3, <1>4, LiveClosed, PlainStoreStep DEF popValue, Obj, Regular

LEMMA callMorCPrepStep ==
  ASSUME IInv, NEW t \in Threads, callMorCPrep(t)
  PROVE  IInv'
<1> USE DEF IInv
<1>1. refs' = refs
  BY DEF callMorCPrep, Types
<1>2. t \in Live /\ Runs(t)
  BY HeldIsLive DEF callMorCPrep
<1> QED
  BY <1>1, <1>2, LiveClosed, PlainStoreStep DEF callMorCPrep, progVars, Types

LEMMA removeElementStep ==
  ASSUME IInv, NEW t \in Threads, NEW p \in Node, NEW v \in Obj, removeElement(t, p, v)
  PROVE  IInv'
<1> USE DEF IInv
<1>1. t \in Live /\ p \in Live /\ Runs(t) /\ p # Vm /\ p \notin Threads
  BY HeldIsLive, KindsAreDisjoint DEF removeElement, Threads
<1>2. refs' \in [Obj -> SUBSET Obj] /\ \A x \in Obj : refs'[x] = IF x = p THEN refs[x] \ {v} ELSE refs[x]
  BY DEF removeElement, Types
<1>3. \A x \in Live : refs'[x] \subseteq Live
  BY <1>2, LiveClosed
<1> QED
  BY <1>1, <1>2, <1>3, LiveClosed, PlainStoreStep DEF removeElement, progVars, Obj

\* Linking o at the head of a list keeps all that a sweep has still to visit.
LEMMA LinkedAhead ==
  ASSUME Types, NEW k \in ListStates, NEW o \in Node \cup Thr,
         lists' = [lists EXCEPT ![k] = linked(k, o)], sweepgc' = shifted(k), gcstate' = gcstate
  PROVE  /\ lists' \in [ListStates -> Seq(Node \cup Thr)] /\ sweepgc' \in {NULL} \cup Nat
         /\ \A j \in ListStates : ToSet(lists[j]) \subseteq ToSet(lists'[j])
         /\ o \in ToSet(lists'[k])
         /\ unswept \subseteq unswept'
<1>1. lists \in [ListStates -> Seq(Node \cup Thr)] /\ sweepgc \in {NULL} \cup Nat
  BY DEF Types
<1>2. /\ lists' \in [ListStates -> Seq(Node \cup Thr)] /\ sweepgc' \in {NULL} \cup Nat
      /\ lists'[k] = <<o>> \o lists[k]
      /\ \A j \in ListStates \ {k} : lists'[j] = lists[j]
  BY <1>1 DEF linked, shifted, NULL
<1>3. /\ lists'[k] \in Seq(Node \cup Thr) /\ Len(lists'[k]) = Len(lists[k]) + 1
      /\ lists'[k][1] = o
      /\ \A i \in 1 .. Len(lists[k]) : lists'[k][i + 1] = lists[k][i]
  BY <1>1, <1>2
<1>4. ToSet(lists[k]) \subseteq ToSet(lists'[k]) /\ o \in ToSet(lists'[k])
  <2>1. \A i \in 1 .. Len(lists[k]) : i + 1 \in 1 .. Len(lists'[k])
    BY <1>1, <1>3
  <2>2. DOMAIN lists[k] = 1 .. Len(lists[k]) /\ DOMAIN lists'[k] = 1 .. Len(lists'[k]) /\ 1 \in 1 .. Len(lists'[k])
    BY <1>1, <1>2, <1>3
  <2> QED
    BY <1>3, <2>1, <2>2 DEF ToSet
<1>5. gcstate \in ListStates => ahead(gcstate) \subseteq ahead(gcstate)'
  <2> SUFFICES ASSUME gcstate \in ListStates, NEW i \in 1 .. Len(lists[gcstate]),
                      sweepgc # NULL, sweepgc < i
               PROVE  lists[gcstate][i] \in ahead(gcstate)'
    BY DEF ahead
  <2>1. CASE gcstate # k
    BY <1>2, <2>1 DEF ahead, shifted
  <2>2. CASE gcstate = k
    <3>1. i + 1 \in 1 .. Len(lists'[k]) /\ sweepgc' # NULL /\ sweepgc' < i + 1
      BY <1>1, <1>3, <2>2 DEF shifted, NULL
    <3> QED
      BY <1>3, <2>2, <3>1 DEF ahead
  <2> QED
    BY <2>1, <2>2
<1>6. unswept \subseteq unswept'
  BY <1>2, <1>4, <1>5 DEF unswept, ListStates
<1> QED
  BY <1>2, <1>4, <1>6

LEMMA mem_newStep ==
  ASSUME IInv, NEW t \in Threads, NEW o \in Node, mem_new(t, o)
  PROVE  IInv'
<1> USE DEF IInv
<1>1. t \in Live /\ Runs(t) /\ o \notin alloc
  BY HeldIsLive DEF mem_new
<1>2. t # o /\ t \in alloc \cup {Main} /\ t \notin Sym \cup {Vm} /\ o \notin Live /\ o \notin Sym \cup Thr \cup {Vm, Main}
  BY <1>1, KindsAreDisjoint DEF Colours, LiveAllocated, Threads
<1>3. /\ refs' \in [Obj -> SUBSET Obj] /\ color' \in [Obj -> Colors]
      /\ \A x \in Obj : refs'[x] = IF x = t THEN refs[x] \cup {o} ELSE refs[x]
      /\ \A x \in Obj : color'[x] = IF x = o THEN currentwhite ELSE color[x]
  BY DEF mem_new, Types, Obj, Colors
<1>4. /\ lists' \in [ListStates -> Seq(Node \cup Thr)] /\ sweepgc' \in {NULL} \cup Nat
      /\ \A j \in ListStates : ToSet(lists[j]) \subseteq ToSet(lists'[j])
      /\ o \in ToSet(lists'["sweep"]) /\ unswept \subseteq unswept'
  BY LinkedAhead DEF mem_new, cycleVars, ListStates
<1>5. Types'
  BY <1>3, <1>4 DEF mem_new, Types, cycleVars, progVars
<1>6. Live' \subseteq Live \cup {o}
  <2>1. refs[o] = {}
    BY <1>1, <1>2 DEF Shape, Obj
  <2>2. \A x \in Live \cup {o} : refs'[x] \subseteq Live \cup {o}
    BY <1>2, <1>3, <2>1, LiveClosed DEF Obj
  <2>3. {o} \in SUBSET Obj
    BY DEF Obj
  <2> QED
    BY <1>5, <2>2, <2>3, Stored
<1>7. Shape'
  BY <1>2, <1>3, <1>4 DEF mem_new, Shape, Obj, ListStates
<1>8. Barrier' /\ Building'
  BY <1>1 DEF mem_new, cycleVars, progVars, Barrier, Building, Runs
<1>9. Colours'
  <2>1. currentwhite # Otherwhite /\ currentwhite \in White
    BY DEF Types, White, Otherwhite
  <2>2. o \in alloc' /\ alloc \subseteq alloc' /\ gray' = gray
    BY DEF mem_new
  <2>3. UNCHANGED <<gcstate, gcmode, gcnextmode, gcbarrieron, currentwhite>>
    BY DEF mem_new, cycleVars
  <2>4. gcstate \notin InAtomic
    BY <1>1 DEF Runs
  <2>5. \A x \in Live : color'[x] = color[x]
    BY <1>2, <1>3, LiveClosed
  <2>6. \A p \in Live \ Threads : refs'[p] = refs[p]
    BY <1>3, LiveClosed
  <2>7. color'[Vm] = color[Vm] /\ color'[o] = currentwhite /\ {o} \in SUBSET Obj
    BY <1>2, <1>3 DEF Obj
  <2> QED
    BY <1>4, <1>5, <1>6, <1>7, <2>1, <2>2, <2>3, <2>4, <2>5, <2>6, <2>7, LiveClosed, ProgramStep
<1> QED
  BY <1>5, <1>7, <1>8, <1>9

\* A symbol whose stored or looked-up value is put on a live stack.
LEMMA SymStep ==
  ASSUME IInv, NEW t \in Threads, t \in Live, NEW s \in Sym, gcstate \notin InAtomic,
         alloc' = alloc \cup {s}, refs' = [refs EXCEPT ![t] = @ \cup {s}],
         color' = [color EXCEPT ![s] = IF isdead(s) \/ s \notin alloc THEN currentwhite ELSE @],
         building' = {},
         UNCHANGED <<lists, old, gray, cycleVars, sweepVars, request, stale>>
  PROVE  IInv'
<1> USE DEF IInv
<1>1. s \in Obj /\ t \in Obj /\ s \notin Node \cup Thr \cup {Vm, Main} /\ t \in alloc \cup {Main}
      /\ t \notin Sym \cup {Vm}
  BY KindsAreDisjoint DEF Obj, Threads, Colours, LiveAllocated
<1>2. currentwhite # Otherwhite /\ currentwhite \in White /\ currentwhite \in Colors
  BY DEF Types, White, Otherwhite, Colors
<1>3. /\ refs' \in [Obj -> SUBSET Obj] /\ color' \in [Obj -> Colors]
      /\ \A x \in Obj : refs'[x] = IF x = t THEN refs[x] \cup {s} ELSE refs[x]
      /\ \A x \in Obj \ {s} : color'[x] = color[x]
      /\ color'[s] = IF isdead(s) \/ s \notin alloc THEN currentwhite ELSE color[s]
  BY <1>1, <1>2 DEF Types
<1>4. Types'
  BY <1>3 DEF Types, cycleVars, sweepVars
<1>5. Live' \subseteq Live \cup {s}
  <2>1. refs[s] = {}
    BY <1>1 DEF Shape
  <2> QED
    BY <1>1, <1>3, <1>4, <2>1, LiveClosed, Stored
<1>6. Shape'
  BY <1>1, <1>3 DEF Shape
<1>7. Barrier' /\ Building'
  BY DEF cycleVars, Barrier, Building
<1>8. Colours'
  <2>1. UNCHANGED <<unswept, gcstate, gcmode, gcnextmode, gcbarrieron, currentwhite>>
    BY DEF unswept, ahead, sweepVars, cycleVars
  <2>2. \A x \in Live : color'[x] = color[x]
    BY <1>1, <1>3, LiveClosed DEF Colours, LiveAllocated, LiveNotDead
  <2>3. \A p \in Live \ Threads : refs'[p] = refs[p]
    BY <1>3, LiveClosed
  <2>4. color'[Vm] = color[Vm] /\ color'[s] # Otherwhite /\ {s} \in SUBSET Obj
    BY <1>1, <1>2, <1>3 DEF Obj, isdead
  <2> QED
    BY <1>4, <1>5, <1>6, <2>1, <2>2, <2>3, <2>4, LiveClosed, ProgramStep
<1> QED
  BY <1>4, <1>6, <1>7, <1>8

LEMMA newSymFoundStep ==
  ASSUME IInv, NEW t \in Threads, NEW s \in Sym, newSymFound(t, s)
  PROVE  IInv'
<1>1. t \in Live /\ Runs(t) /\ s \in alloc
  BY HeldIsLive DEF newSymFound, IInv
<1> QED
  BY <1>1, SymStep DEF newSymFound, mem_keepalive, Runs, progVars

LEMMA newSymAddedStep ==
  ASSUME IInv, NEW t \in Threads, NEW s \in Sym, newSymAdded(t, s)
  PROVE  IInv'
<1>1. t \in Live
  <2>1. CASE building = {<<t, s>>}
    BY <2>1 DEF IInv, Building
  <2>2. CASE Runs(t)
    BY <2>2, HeldIsLive DEF IInv
  <2> QED
    BY <2>1, <2>2 DEF newSymAdded
<1> QED
  BY <1>1, SymStep DEF newSymAdded

LEMMA newSymGrowsStep ==
  ASSUME IInv, NEW t \in Threads, NEW s \in Sym, newSymGrows(t, s)
  PROVE  IInv'
<1> USE DEF IInv
<1>1. t \in Live /\ Runs(t)
  BY HeldIsLive DEF newSymGrows
<1>2. UNCHANGED <<alloc, refs, lists, color, gray, cycleVars, sweepVars, request, stale, Live>>
      /\ building' = {<<t, s>>} /\ old' \in [Obj -> BOOLEAN]
  BY DEF newSymGrows, sym_resize_tbl, Live, Types
<1>3. Types'
  BY <1>2 DEF Types, cycleVars, sweepVars
<1>4. Shape' /\ Barrier'
  BY <1>2 DEF Shape, Barrier, cycleVars
<1>5. Building'
  BY <1>1, <1>2, KindsAreDisjoint DEF Building
<1>6. Colours'
  BY <1>2 DEF cycleVars, sweepVars, Colours, LiveAllocated, LiveNotDead, isdead, Otherwhite, VmBlack,
     BlackAboveNoWhite, GrayListed, WhiteAtBegin, Unmarked, SweptWhite, unswept, ahead, StacksScanned
<1> QED
  BY <1>3, <1>4, <1>5, <1>6

\* newThread links a thread that nothing points to yet.
LEMMA newThreadStep ==
  ASSUME IInv, NEW t \in Threads, NEW n \in Thr, newThread(t, n)
  PROVE  IInv'
<1> USE DEF IInv
<1>1. t \in Live /\ Runs(t) /\ n \notin alloc
  BY HeldIsLive DEF newThread
<1>2. n \notin Live /\ n \in Obj /\ n \notin Node \cup Sym \cup {Vm, Main}
  BY <1>1, KindsAreDisjoint DEF Colours, LiveAllocated, Obj, Threads
<1>3. /\ color' \in [Obj -> Colors] /\ color'[n] = currentwhite
      /\ \A x \in Obj : color'[x] = IF x = n THEN currentwhite ELSE color[x]
  BY <1>2 DEF newThread, Types, Colors
<1>4. /\ lists' \in [ListStates -> Seq(Node \cup Thr)] /\ sweepgc' \in {NULL} \cup Nat
      /\ \A j \in ListStates : ToSet(lists[j]) \subseteq ToSet(lists'[j])
      /\ n \in ToSet(lists'["sweepthread"]) /\ unswept \subseteq unswept'
  BY LinkedAhead DEF newThread, cycleVars, ListStates
<1>5. refs' = refs /\ Live' = Live /\ alloc' = alloc \cup {n} /\ building' = {<<t, n>>} /\ gray' = gray
  BY DEF newThread, Live
<1>6. Types'
  BY <1>3, <1>4, <1>5 DEF newThread, Types, cycleVars
<1>7. Shape'
  BY <1>2, <1>4, <1>5 DEF Shape, ListStates
<1>8. UNCHANGED <<gcstate, gcmode, gcnextmode, gcbarrieron, currentwhite>>
  BY DEF newThread, cycleVars
<1>9. Barrier' /\ Building'
  BY <1>1, <1>3, <1>5, <1>8 DEF Barrier, Building
<1>10. Colours'
  <2>1. gcstate \notin InAtomic
    BY <1>1 DEF Runs
  <2>2. \A x \in Live : color'[x] = color[x]
    BY <1>2, <1>3, LiveClosed
  <2>3. color'[Vm] = color[Vm] /\ {} \in SUBSET Obj
    BY <1>2, <1>3 DEF Obj
  <2> QED
    BY <1>4, <1>5, <1>6, <1>7, <1>8, <2>1, <2>2, <2>3, LiveClosed, ProgramStep
<1> QED
  BY <1>6, <1>7, <1>9, <1>10

\* thrInit makes the new thread, still white, reachable.
LEMMA thrInitStep ==
  ASSUME IInv, NEW t \in Threads, NEW n \in Thr, thrInit(t, n)
  PROVE  IInv'
<1> USE DEF IInv
<1>1. t \in Live /\ n \in alloc /\ color[n] = currentwhite /\ gcstate \notin InAtomic
  BY DEF thrInit, Building
<1>2. /\ n \in Obj /\ t \in Obj /\ n \notin Node \cup Sym \cup {Vm, Main}
      /\ t \in alloc \cup {Main} /\ t \notin Sym \cup {Vm}
  BY <1>1, KindsAreDisjoint DEF Colours, LiveAllocated, Obj, Threads
<1>3. PICK parms \in SUBSET refs[t] : refs' = [refs EXCEPT ![n] = parms, ![t] = @ \cup {n}]
  BY DEF thrInit
<1>4. /\ refs' \in [Obj -> SUBSET Obj]
      /\ \A x \in Obj \ {t, n} : refs'[x] = refs[x]
      /\ refs'[n] \subseteq refs[t] \cup {n} /\ refs'[t] \subseteq refs[t] \cup {n}
  BY <1>2, <1>3 DEF Types
<1>5. Types'
  BY <1>4 DEF thrInit, Types, markVars, cycleVars, sweepVars
<1>6. Live' \subseteq Live \cup {n}
  <2>1. \A x \in Live \cup {n} : refs'[x] \subseteq Live \cup {n}
    BY <1>1, <1>2, <1>4, LiveClosed
  <2>2. {n} \in SUBSET Obj
    BY <1>2
  <2> QED
    BY <1>5, <2>1, <2>2, Stored
<1>7. Shape'
  BY <1>1, <1>2, <1>4 DEF thrInit, Shape, Obj
<1>8. UNCHANGED <<unswept, gcstate, gcmode, gcnextmode, gcbarrieron, currentwhite, alloc, color, gray, unswept>>
  BY DEF thrInit, markVars, unswept, ahead, sweepVars, cycleVars
<1>9. Barrier' /\ Building'
  BY <1>8 DEF thrInit, Barrier, Building
<1>10. Colours'
  <2>1. currentwhite # Otherwhite /\ currentwhite \in White
    BY DEF Types, White, Otherwhite
  <2>2. \A p \in Live \ Threads : refs'[p] = refs[p]
    BY <1>4, LiveClosed DEF Threads
  <2>3. {n} \in SUBSET Obj
    BY <1>2
  <2> QED
    BY <1>1, <1>5, <1>6, <1>7, <1>8, <2>1, <2>2, <2>3, LiveClosed, ProgramStep
<1> QED
  BY <1>5, <1>7, <1>9, <1>10

\* A full collection only sets what is to come. It asks for GC_FULLMODE, and the
\* barrier is decided by modes that are not about to be used when it does.
LEMMA mem_gcfullStep ==
  ASSUME Regular, IInv, NEW mode \in FullRequests, mem_gcfull(mode)
  PROVE  IInv'
<1> USE DEF IInv
<1>1. mode = GC_FULLMODE
  BY DEF Regular
<1>2. /\ UNCHANGED <<alloc, refs, lists, color, old, gray, gcstate, gcmode, gcbarrieron, gcnbrold,
                     currentwhite, sweepgc, building, stale, Live, unswept>>
      /\ request' \in [stage : 0 .. 3, mode : {GC_FULLMODE}]
      /\ gcnextmode' \in {gcnextmode, GC_FULLMODE}
      /\ gcstate \in SweepStates => gcnextmode' = gcnextmode
  BY <1>1 DEF mem_gcfull, heapVars, markVars, sweepVars, Live, unswept, ahead
<1>3. Types'
  BY <1>2 DEF Types
<1>4. Shape' /\ Barrier' /\ Building'
  BY <1>2 DEF Shape, Barrier, Building
<1>5. Colours'
  BY <1>2 DEF Colours, LiveAllocated, LiveNotDead, isdead, Otherwhite, VmBlack,
     BlackAboveNoWhite, GrayListed, WhiteAtBegin, Unmarked, SweptWhite, StacksScanned
<1> QED
  BY <1>3, <1>4, <1>5
-----------------------------------------------------------------------------
(***************************************************************************)
(* The collector's steps: marking.                                         *)
(***************************************************************************)
\* The two whites differ.
LEMMA Whites ==
  ASSUME currentwhite \in White
  PROVE  Otherwhite \in White /\ Otherwhite # currentwhite /\ White \subseteq Colors
         /\ {"black", "gray"} \cap White = {} /\ {"black", "gray"} \subseteq Colors
BY DEF Otherwhite, White, Colors

\* The collector interrupts no allocation of a thread.
LEMMA CollectorBuilding ==
  ASSUME Regular, Building, collects, building' = building, Live' = Live
  PROVE  Building'
BY DEF Regular, Building, collects

\* A step that marks: colours only get darker, and what turns gray is listed.
LEMMA MarkingStep ==
  ASSUME Regular, IInv, collects, gcstate \notin SweepStates,
         UNCHANGED <<heapVars, old, gcmode, currentwhite, sweepVars, progVars>>,
         gcnextmode' \in {GC_FULLMODE, GC_GENMODE},
         gcstate' \in {"mark", "atomic"} \cup InAtomic, gcbarrieron' = TRUE,
         color' \in [Obj -> Colors], gray' \in SUBSET Obj, color'[Vm] = "black",
         \A x \in Live : color'[x] = color[x] \/ color'[x] \notin White,
         BlackAboveNoWhite', GrayListed', StacksScanned'
  PROVE  IInv'
<1> USE DEF IInv
<1>1. UNCHANGED <<alloc, refs, lists, Live, stale, request, building, sweepgc, Otherwhite>>
  BY DEF heapVars, sweepVars, progVars, Live, Otherwhite
<1>2. gcstate' \in States /\ gcstate' # "begin" /\ gcstate' \notin SweepStates
  BY DEF States, InAtomic, SweepStates, ListStates
<1>3. Types'
  BY <1>1, <1>2 DEF Types
<1>4. Shape' /\ Barrier'
  BY <1>1, <1>2 DEF Shape, Barrier
<1>5. Building'
  BY <1>1, CollectorBuilding
<1>6. LiveAllocated' /\ VmBlack' /\ WhiteAtBegin' /\ SweptWhite'
  BY <1>1, <1>2 DEF Colours, LiveAllocated, VmBlack, WhiteAtBegin, SweptWhite
<1>7. LiveNotDead'
  BY <1>1, Whites DEF Colours, LiveNotDead, isdead, Types
<1> QED
  BY <1>3, <1>4, <1>5, <1>6, <1>7 DEF Colours

LEMMA GCBeginStep ==
  ASSUME Regular, IInv, GCBegin
  PROVE  IInv'
<1> USE DEF IInv
<1>1. /\ collects /\ gcstate = "begin" /\ gcstate' = "mark" /\ gcbarrieron' = TRUE
      /\ UNCHANGED <<heapVars, old, gcmode, gcnextmode, currentwhite, sweepVars, progVars, refs, Live>>
  BY DEF GCBegin, heapVars, Live
<1>2. gcstate \notin SweepStates /\ gcstate' \in {"mark", "atomic"} \cup InAtomic /\ StacksScanned'
  BY <1>1 DEF SweepStates, ListStates, InAtomic, StacksScanned
<1>3. gcnextmode' \in {GC_FULLMODE, GC_GENMODE}
  BY <1>1 DEF Types
<1>4. CASE marksRoot
  <2>1. markobj(color, {}, {Main, Global}) /\ {Main, Global} \in SUBSET Obj /\ {} \in SUBSET Obj
        /\ color \in [Obj -> Colors] /\ Main \notin Sym /\ Global \notin Sym /\ Vm \notin {Main, Global}
    BY <1>4, KindsAreDisjoint DEF GCBegin, Shape, Obj, Threads, Types
  <2>2. /\ color' \in [Obj -> Colors] /\ gray' \in SUBSET Obj
        /\ \A x \in Obj : ~(x \in {Main, Global} /\ color[x] \in White) => color'[x] = color[x]
        /\ \A x \in {Main, Global} : color[x] \in White => color'[x] = "gray" /\ x \in gray'
    <3>1. /\ color' \in [Obj -> Colors] /\ gray' \in SUBSET Obj
          /\ \A x \in Obj : ~(x \in {Main, Global} /\ color[x] \in White) => color'[x] = color[x]
          /\ \A x \in Obj : x \in {Main, Global} /\ color[x] \in White =>
               \/ x \in Sym /\ color'[x] = "black"
               \/ x \notin Sym /\ color'[x] = "gray" /\ x \in gray'
      BY <2>1, Marked
    <3> QED
      BY <2>1, <3>1
  <2>3. color'[Vm] = "black"
    BY <2>1, <2>2 DEF Colours, VmBlack, Obj
  <2>4. \A x \in Unmarked : color[x] \in White
    BY <1>1, <1>4 DEF Colours, WhiteAtBegin, marksRoot
  <2>5. \A x \in Live : color'[x] = color[x] \/ color'[x] \notin White
    BY <2>2, LiveClosed, Whites DEF Types
  <2>6. BlackAboveNoWhite'
    <3> SUFFICES ASSUME NEW p \in Live \ Threads, color'[p] = "black", NEW c \in refs[p]
                 PROVE  color'[c] \notin White
      BY <1>1 DEF BlackAboveNoWhite
    <3>1. p \in Sym \cup {Vm}
      BY <2>2, <2>4, LiveClosed, Whites DEF Unmarked, Types
    <3>2. p = Vm /\ c \in {Main, Global}
      BY <3>1 DEF Shape, Obj
    <3> QED
      BY <2>1, <2>2, <3>2, Whites DEF Types
  <2>7. GrayListed'
    <3> SUFFICES ASSUME NEW o \in Live \ (Threads \cup Sym), color'[o] = "gray"
                 PROVE  o \in gray'
      BY <1>1 DEF GrayListed
    <3>1. o \in Unmarked /\ color[o] \in White
      BY <2>3, <2>4 DEF Unmarked
    <3> QED
      BY <2>2, <3>1, LiveClosed, Whites DEF Types
  <2> QED
    BY <1>1, <1>2, <1>3, <2>2, <2>3, <2>5, <2>6, <2>7, MarkingStep
<1>5. CASE ~marksRoot
  <2>1. UNCHANGED <<color, gray>> /\ gcbarrieron
    BY <1>1, <1>5 DEF GCBegin, marksRoot, Types, Barrier
  <2>2. BlackAboveNoWhite' /\ GrayListed'
    BY <1>1, <2>1 DEF Colours, BlackAboveNoWhite, GrayListed
  <2> QED
    BY <1>1, <1>2, <1>3, <2>1, <2>2, MarkingStep DEF Types, Colours, VmBlack
<1> QED
  BY <1>4, <1>5

LEMMA MarkTopGrayStep ==
  ASSUME Regular, IInv, MarkTopGray
  PROVE  IInv'
<1> USE DEF IInv
<1>1. /\ collects /\ gcstate \in {"mark"} \cup InAtomic
      /\ UNCHANGED <<heapVars, old, gcstate, gcmode, gcnextmode, gcbarrieron, currentwhite,
                     sweepVars, progVars, alloc, refs, Live>>
  BY DEF MarkTopGray, heapVars, cycleVars, Live
<1>2. gcstate \notin SweepStates /\ gcstate' \in {"mark", "atomic"} \cup InAtomic /\ gcbarrieron
  BY <1>1 DEF SweepStates, ListStates, InAtomic, Barrier
<1>3. gcnextmode' \in {GC_FULLMODE, GC_GENMODE}
  BY <1>1 DEF Types
<1>4. PICK o \in gray :
        \/ /\ o \in Threads /\ gray' = gray \ {o}
           /\ color' = [color EXCEPT ![o] = IF gcstate = "mark" THEN "gray" ELSE "black"]
        \/ o \notin Threads /\ markobj([color EXCEPT ![o] = "black"], gray \ {o}, refs[o])
  BY DEF MarkTopGray
<1>5. o \in Obj /\ color \in [Obj -> Colors]
  BY DEF Types
<1>6. CASE o \in Threads
  <2>1. /\ color' \in [Obj -> Colors] /\ gray' = gray \ {o} /\ gray' \in SUBSET Obj
        /\ \A x \in Obj \ {o} : color'[x] = color[x]
        /\ color'[o] \in {"gray", "black"}
    BY <1>4, <1>5, <1>6, Whites DEF Types
  <2>2. color'[Vm] = "black"
    BY <1>6, <2>1, KindsAreDisjoint DEF Colours, VmBlack, Obj, Threads
  <2>3. \A x \in Obj : color'[x] = color[x] \/ color'[x] \notin White
    BY <2>1, Whites DEF Types
  <2>4. BlackAboveNoWhite'
    BY <1>1, <1>2, <1>6, <2>1, <2>3, LiveClosed DEF Colours, BlackAboveNoWhite
  <2>5. GrayListed'
    BY <1>1, <1>2, <1>6, <2>1, LiveClosed DEF Colours, GrayListed
  <2>6. StacksScanned'
    BY <1>1, <2>3 DEF Colours, StacksScanned, Types, Obj
  <2> QED
    BY <1>1, <1>2, <1>3, <2>1, <2>2, <2>3, <2>4, <2>5, <2>6, LiveClosed, MarkingStep
<1>7. CASE o \notin Threads
  <2> DEFINE c == [color EXCEPT ![o] = "black"]
  <2>1. /\ c \in [Obj -> Colors] /\ gray \ {o} \in SUBSET Obj /\ refs[o] \in SUBSET Obj
        /\ c[o] = "black" /\ \A x \in Obj \ {o} : c[x] = color[x]
        /\ markobj(c, gray \ {o}, refs[o])
    BY <1>4, <1>5, <1>7, Whites DEF Types
  <2> HIDE DEF c
  <2>2. /\ color' \in [Obj -> Colors] /\ gray' \in SUBSET Obj /\ gray \ {o} \subseteq gray'
        /\ \A x \in Obj : ~(x \in refs[o] /\ c[x] \in White) => color'[x] = c[x]
        /\ \A x \in Obj : x \in refs[o] /\ c[x] \in White =>
             \/ x \in Sym /\ color'[x] = "black"
             \/ x \notin Sym /\ color'[x] = "gray" /\ x \in gray'
    BY <2>1, Marked
  <2>3. color'[o] = "black"
    BY <1>5, <2>1, <2>2, Whites DEF Types
  <2>4. \A x \in Obj : \/ color'[x] = color[x]
                       \/ color'[x] = "gray" /\ x \in gray'
                       \/ color'[x] = "black" /\ (x = o \/ x \in Sym)
    BY <2>1, <2>2, <2>3
  <2>5. \A x \in refs[o] : color'[x] \notin White
    BY <2>1, <2>2, Whites DEF Types
  <2>6. color'[Vm] = "black"
    BY <2>1, <2>2, <2>3, Whites DEF Colours, VmBlack, Obj, Types
  <2>7. \A x \in Obj : color'[x] = color[x] \/ color'[x] \notin White
    BY <2>4, Whites DEF Types
  <2>8. BlackAboveNoWhite'
    <3> SUFFICES ASSUME NEW p \in Live \ Threads, color'[p] = "black", NEW d \in refs[p]
                 PROVE  color'[d] \notin White
      BY <1>1 DEF BlackAboveNoWhite
    <3>1. p \notin Sym /\ d \in Obj
      BY LiveClosed DEF Shape
    <3>2. p = o \/ color[p] = "black"
      BY <2>4, <3>1, LiveClosed
    <3> QED
      BY <1>2, <2>5, <2>7, <3>1, <3>2 DEF Colours, BlackAboveNoWhite
  <2>9. GrayListed'
    BY <1>1, <1>2, <2>2, <2>3, <2>4, LiveClosed DEF Colours, GrayListed
  <2>10. StacksScanned'
    BY <1>1, <2>7 DEF Colours, StacksScanned, Types, Obj
  <2> QED
    BY <1>1, <1>2, <1>3, <2>2, <2>6, <2>7, <2>8, <2>9, <2>10, LiveClosed, MarkingStep
<1> QED
  BY <1>6, <1>7

\* Steps that leave the colours alone.
LEMMA MarkDoneStep ==
  ASSUME Regular, IInv, MarkDone
  PROVE  IInv'
<1> USE DEF IInv
<1>1. /\ collects /\ gcstate = "mark" /\ gcstate' = "atomic" /\ gcbarrieron
      /\ UNCHANGED <<heapVars, color, old, gray, gcmode, gcnextmode, gcbarrieron, currentwhite,
                     sweepVars, progVars, refs, Live>>
  BY DEF MarkDone, heapVars, markVars, Live, Barrier
<1>2. BlackAboveNoWhite' /\ GrayListed' /\ StacksScanned'
  BY <1>1 DEF Colours, BlackAboveNoWhite, GrayListed, StacksScanned
<1>3. gcstate \notin SweepStates
  BY <1>1 DEF SweepStates, ListStates
<1> QED
  BY <1>1, <1>2, <1>3, MarkingStep DEF Types, Colours, VmBlack

LEMMA AtomicBeginStep ==
  ASSUME Regular, IInv, AtomicBegin
  PROVE  IInv'
<1> USE DEF IInv
<1>1. /\ collects /\ gcstate = "atomic" /\ gcstate' = "markatomic" /\ gcbarrieron
      /\ UNCHANGED <<heapVars, color, old, gray, gcmode, gcbarrieron, currentwhite,
                     sweepVars, progVars, refs, Live>>
  BY DEF AtomicBegin, heapVars, markVars, Live, Barrier
<1>2. BlackAboveNoWhite' /\ GrayListed' /\ StacksScanned'
  BY <1>1 DEF Colours, BlackAboveNoWhite, GrayListed, StacksScanned
<1>3. gcstate \notin SweepStates /\ gcstate' \in InAtomic
  BY <1>1 DEF SweepStates, ListStates, InAtomic
<1>4. gcnextmode' \in {GC_FULLMODE, GC_GENMODE}
  BY DEF AtomicBegin, Types
<1> QED
  BY <1>1, <1>2, <1>3, <1>4, MarkingStep DEF Types, Colours, VmBlack

\* A sequence over S has its elements in S.
LEMMA ToSetType ==
  ASSUME NEW S, NEW s \in Seq(S)
  PROVE  ToSet(s) \subseteq S
BY DEF ToSet

LEMMA MarkThreadsStep ==
  ASSUME Regular, IInv, MarkThreads
  PROVE  IInv'
<1> USE DEF IInv
<1>1. /\ collects /\ gcstate = "markatomic" /\ gcstate' = "markrest" /\ gcbarrieron
      /\ UNCHANGED <<heapVars, old, gcmode, gcnextmode, gcbarrieron, currentwhite,
                     sweepVars, progVars, alloc, refs, Live>>
  BY DEF MarkThreads, heapVars, Live, Barrier, InAtomic
<1>2. gcstate \notin SweepStates /\ gcstate' \in InAtomic
  BY <1>1 DEF SweepStates, ListStates, InAtomic
<1> DEFINE c == [color EXCEPT ![Main] = "black"]
           S == UNION {refs[t] : t \in scanned}
<1>3. scanned \subseteq Obj
  BY ToSetType DEF scanned, Types, Obj, Threads, ListStates
<1>4. /\ c \in [Obj -> Colors] /\ c[Main] = "black" /\ \A x \in Obj \ {Main} : c[x] = color[x]
      /\ S \in SUBSET Obj /\ gray \in SUBSET Obj /\ markobj(c, gray, S)
  BY <1>3, Whites DEF MarkThreads, Types, Obj, Threads
<1>5. \A t \in Threads \cap (alloc \cup {Main}) : refs[t] \subseteq S
  BY DEF scanned, Shape, Threads
<1> HIDE DEF c, S
<1>6. /\ color' \in [Obj -> Colors] /\ gray' \in SUBSET Obj /\ gray \subseteq gray'
      /\ \A x \in Obj : ~(x \in S /\ c[x] \in White) => color'[x] = c[x]
      /\ \A x \in Obj : x \in S /\ c[x] \in White =>
           \/ x \in Sym /\ color'[x] = "black"
           \/ x \notin Sym /\ color'[x] = "gray" /\ x \in gray'
  BY <1>4, Marked
<1>7. \A x \in Obj : \/ color'[x] = color[x]
                     \/ color'[x] = "gray" /\ x \in gray'
                     \/ color'[x] = "black" /\ x \in Sym \cup {Main}
  BY <1>4, <1>6
<1>8. \A x \in S : color'[x] \notin White
  BY <1>4, <1>6, Whites DEF Types
<1>9. color'[Vm] = "black"
  BY <1>4, <1>6, Whites, KindsAreDisjoint DEF Colours, VmBlack, Obj, Types
<1>10. \A x \in Obj : color'[x] = color[x] \/ color'[x] \notin White
  BY <1>7, Whites DEF Types
<1>11. BlackAboveNoWhite'
  <2> SUFFICES ASSUME NEW p \in Live \ Threads, color'[p] = "black", NEW d \in refs[p]
               PROVE  color'[d] \notin White
    BY <1>1 DEF BlackAboveNoWhite
  <2>1. p \notin Sym /\ p # Main /\ d \in Obj
    BY LiveClosed DEF Shape, Threads
  <2>2. color[p] = "black"
    BY <1>7, <2>1, LiveClosed
  <2> QED
    BY <1>1, <1>10, <2>1, <2>2 DEF Colours, BlackAboveNoWhite
<1>12. GrayListed'
  BY <1>1, <1>6, <1>7, LiveClosed DEF Colours, GrayListed, Threads
<1>13. StacksScanned'
  BY <1>1, <1>5, <1>8 DEF StacksScanned
<1> QED
  BY <1>1, <1>2, <1>6, <1>9, <1>10, <1>11, <1>12, <1>13, LiveClosed, MarkingStep DEF Types

\* When marking is over no live object is white: the marked ones are closed, for
\* no gray object is left, black ones point to no white one, and the stacks were scanned.
LEMMA AllMarked ==
  ASSUME IInv, gcstate = "markrest", gray = {}
  PROVE  \A x \in Live : color[x] \notin White
<1> USE DEF IInv
<1> DEFINE T == {x \in Live : color[x] \notin White}
<1>1. Vm \in T /\ T \in SUBSET Obj
  BY LiveClosed, Whites DEF Colours, VmBlack, Types
<1>2. \A x \in T : refs[x] \subseteq T
  <2> SUFFICES ASSUME NEW x \in Live, color[x] \notin White, NEW d \in refs[x]
               PROVE  d \in T
    OBVIOUS
  <2>1. d \in Live /\ x \in Obj
    BY LiveClosed
  <2>2. gcbarrieron
    BY DEF Barrier, InAtomic
  <2>3. CASE x \in Threads
    <3>1. x \in alloc \cup {Main}
      BY <2>3, KindsAreDisjoint DEF Colours, LiveAllocated, Threads
    <3> QED
      BY <2>1, <2>3, <3>1 DEF Colours, StacksScanned
  <2>4. CASE x \notin Threads
    <3>1. x \notin Sym
      BY <2>1 DEF Shape
    <3>2. color[x] = "black"
      BY <2>1, <2>2, <2>4, <3>1 DEF Colours, GrayListed, Types, Colors
    <3> QED
      BY <2>1, <2>2, <2>4, <3>2 DEF Colours, BlackAboveNoWhite
  <2> QED
    BY <2>3, <2>4
<1>3. Live \subseteq T
  BY <1>1, <1>2, ReachLeast DEF Live
<1> QED
  BY <1>3

LEMMA AtomicEndStep ==
  ASSUME Regular, IInv, AtomicEnd
  PROVE  IInv'
<1> USE DEF IInv
<1>1. /\ collects /\ gcstate = "markrest" /\ gray = {} /\ gcstate' = "sweepsymbol"
      /\ UNCHANGED <<alloc, refs, lists, gray, gcmode, gcnextmode, sweepgc, request, building, stale, Live>>
      /\ currentwhite' = Otherwhite /\ gcbarrieron
  BY DEF AtomicEnd, heapVars, progVars, Live, Barrier, InAtomic
<1>2. currentwhite \in White /\ Otherwhite' = currentwhite
  BY <1>1 DEF Types, Otherwhite, White
<1>3. /\ gcbarrieron' = (gcnextmode # GC_FULLMODE) /\ gcnextmode \in {GC_FULLMODE, GC_GENMODE}
      /\ gcstate' \in SweepStates
  BY <1>1 DEF AtomicEnd, Types, SweepStates
<1>4. /\ color' \in [Obj -> Colors] /\ old' \in [Obj -> BOOLEAN]
      /\ \A x \in Obj \ {Main} : color'[x] = color[x]
      /\ color'[Main] = IF gcnextmode = GC_GENMODE THEN color[Main] ELSE Otherwhite
  <2>1. color \in [Obj -> Colors] /\ old \in [Obj -> BOOLEAN] /\ Main \in Obj /\ Otherwhite \in Colors
    BY <1>2, Whites DEF Types, Obj, Threads
  <2>2. CASE gcnextmode = GC_GENMODE
    <3>1. color' = color /\ old' = [old EXCEPT ![Main] = TRUE]
      BY <2>2 DEF AtomicEnd
    <3> QED
      BY <2>1, <2>2, <3>1
  <2>3. CASE gcnextmode # GC_GENMODE
    <3>1. color' = [color EXCEPT ![Main] = Otherwhite] /\ old' = [old EXCEPT ![Main] = FALSE]
      BY <2>3 DEF AtomicEnd
    <3> QED
      BY <2>1, <2>3, <3>1
  <2> QED
    BY <2>2, <2>3
<1>5. Types'
  BY <1>1, <1>2, <1>3, <1>4, Whites DEF Types, States
<1>6. Shape' /\ Barrier'
  <2>1. Shape'
    BY <1>1 DEF Shape
  <2>2. GC_FULLMODE # GC_GENMODE
    BY DEF GC_FULLMODE, GC_GENMODE
  <2>3. gcbarrieron' <=> gcnextmode' = GC_GENMODE
    BY <1>1, <1>3, <2>2, Zenon
  <2> QED
    BY <1>1, <2>1, <2>3 DEF Barrier, InAtomic
<1>7. \A b \in building : b[2] \notin Thr
  BY <1>1 DEF collects, Regular
<1>8. Building'
  BY <1>1, <1>7 DEF Building
<1>9. LiveAllocated' /\ VmBlack'
  BY <1>1, <1>4, KindsAreDisjoint DEF Colours, LiveAllocated, VmBlack, Obj
<1>10. LiveNotDead'
  BY <1>1, <1>2, <1>4, AllMarked, LiveClosed, Whites DEF LiveNotDead, isdead
<1>11. BlackAboveNoWhite' /\ GrayListed'
  <2>1. CASE gcnextmode = GC_GENMODE
    <3>1. \A x \in Obj : color'[x] = color[x]
      BY <1>4, <2>1
    <3> QED
      BY <1>1, <3>1, LiveClosed DEF Colours, BlackAboveNoWhite, GrayListed
  <2>2. CASE gcnextmode = GC_FULLMODE
    BY <1>3, <2>2 DEF BlackAboveNoWhite, GrayListed
  <2> QED
    BY <1>3, <2>1, <2>2
<1>12. SweptWhite'
  <2> SUFFICES ASSUME gcnextmode = GC_FULLMODE, NEW x \in Unmarked, x # Main
               PROVE  x \in unswept'
    BY <1>1, <1>2, <1>4, Whites DEF SweptWhite, Unmarked, GC_FULLMODE, GC_GENMODE
  <2>1. x \in alloc \cap (Node \cup Thr)
    BY DEF Unmarked, Colours, LiveAllocated, Types
  <2> QED
    BY <1>1, <2>1 DEF Shape, unswept
<1>13. WhiteAtBegin' /\ StacksScanned'
  BY <1>1 DEF WhiteAtBegin, StacksScanned
<1> QED
  BY <1>5, <1>6, <1>8, <1>9, <1>10, <1>11, <1>12, <1>13 DEF Colours
-----------------------------------------------------------------------------
(***************************************************************************)
(* The collector's steps: sweeping.                                        *)
(***************************************************************************)
\* A sweep of the objects V frees no live one, and whitens the live ones when it
\* prepares for a full cycle; V may leave the part of the lists still to visit.
LEMMA SweepingStep ==
  ASSUME Regular, IInv, collects, gcstate \in SweepStates, gcstate' \in SweepStates,
         NEW V \in SUBSET (Node \cup Sym \cup Thr), sweepobjs(V),
         UNCHANGED <<gray, gcmode, gcnextmode, gcbarrieron, currentwhite, progVars>>,
         lists' \in [ListStates -> Seq(Node \cup Thr)], sweepgc' \in {NULL} \cup Nat,
         \A k \in ListStates : \A x \in ToSet(lists[k]) :
           x \in ToSet(lists'[k]) \/ (x \in V /\ isdead(x)),
         \A x \in unswept \ V : x \in unswept'
  PROVE  IInv'
<1> USE DEF IInv
<1>1. /\ Live \subseteq Obj /\ \A x \in Live : ~isdead(x)
      /\ V \subseteq Obj /\ Vm \notin V /\ Main \notin V /\ Vm \in Obj
  BY LiveClosed, KindsAreDisjoint DEF Colours, LiveNotDead, Obj, Threads
<1>2. currentwhite \in White
  BY DEF Types
<1>3. /\ alloc' = {x \in alloc : ~(x \in V /\ isdead(x))}
      /\ refs' \in [Obj -> SUBSET Obj] /\ color' \in [Obj -> Colors] /\ old' \in [Obj -> BOOLEAN]
      /\ \A x \in Obj : refs'[x] = IF x \in V /\ isdead(x) THEN {} ELSE refs[x]
      /\ \A x \in Live : color'[x] = IF x \in V /\ gcnextmode # GC_GENMODE THEN currentwhite ELSE color[x]
  <2>1. "white0" \in Colors /\ currentwhite \in Colors
    BY <1>2 DEF Colors, White
  <2>2. alloc' = {x \in alloc : ~(x \in V /\ isdead(x))}
    BY DEF sweepobjs
  <2>3. \A x \in Obj : refs'[x] = IF x \in V /\ isdead(x) THEN {} ELSE refs[x]
    BY DEF sweepobjs
  <2>4. refs' \in [Obj -> SUBSET Obj]
    BY DEF sweepobjs, Types
  <2>5. color' \in [Obj -> Colors]
    BY <2>1 DEF sweepobjs, Types
  <2>6. old' \in [Obj -> BOOLEAN]
    BY DEF sweepobjs, Types
  <2>7. \A x \in Live : color'[x] = IF x \in V /\ gcnextmode # GC_GENMODE THEN currentwhite ELSE color[x]
    BY <1>1 DEF sweepobjs
  <2> QED
    BY <2>2, <2>3, <2>4, <2>5, <2>6, <2>7
<1>4. \A x \in Live : refs'[x] = refs[x]
  BY <1>1, <1>3
<1>5. Live' = Live
  BY <1>3, <1>4, ReachSame DEF Live, Types
<1>6. Types'
  BY <1>3 DEF Types, progVars, SweepStates, ListStates, States
<1>7. Shape'
  <2>1. refs'[Vm] = refs[Vm]
    BY <1>1, <1>3
  <2>2. \A x \in alloc' : ~(x \in V /\ isdead(x)) /\ x \in alloc
    BY <1>3
  <2>3. \A x \in Obj \ (alloc' \cup {Vm, Main}) : refs'[x] = {}
    BY <1>3 DEF Shape
  <2>4. \A x \in Sym : refs'[x] = {}
    BY <1>3 DEF Shape, Obj
  <2> QED
    BY <2>1, <2>2, <2>3, <2>4 DEF Shape, ListStates
<1>8. Barrier'
  BY DEF Barrier, SweepStates, ListStates, InAtomic
<1>9. Building'
  BY <1>5, CollectorBuilding DEF progVars
<1>10. LiveAllocated'
  BY <1>1, <1>3, <1>5 DEF Colours, LiveAllocated
<1>11. LiveNotDead'
  BY <1>1, <1>2, <1>3, <1>5, Whites DEF LiveNotDead, isdead, Otherwhite
<1>12. VmBlack'
  BY <1>1, <1>3, LiveClosed DEF Colours, VmBlack
<1>13. BlackAboveNoWhite' /\ GrayListed'
  <2> SUFFICES ASSUME gcbarrieron
               PROVE  BlackAboveNoWhite' /\ GrayListed'
    BY DEF BlackAboveNoWhite, GrayListed
  <2>1. \A x \in Live : color'[x] = color[x]
    BY <1>3 DEF Barrier
  <2> QED
    BY <1>4, <1>5, <2>1, LiveClosed DEF Colours, BlackAboveNoWhite, GrayListed
<1>14. SweptWhite'
  <2> SUFFICES ASSUME gcnextmode = GC_FULLMODE, NEW x \in Unmarked
               PROVE  color'[x] \in White \/ x \in unswept'
    BY <1>5 DEF SweptWhite, Unmarked
  <2>1. x \in Live /\ (color[x] \in White \/ x \in unswept)
    BY DEF Unmarked, Colours, SweptWhite
  <2> QED
    BY <1>2, <1>3, <2>1 DEF GC_FULLMODE, GC_GENMODE
<1>15. WhiteAtBegin' /\ StacksScanned'
  BY DEF WhiteAtBegin, StacksScanned, SweepStates, ListStates
<1> QED
  BY <1>6, <1>7, <1>8, <1>9, <1>10, <1>11, <1>12, <1>13, <1>14, <1>15 DEF Colours

\* All of a list is ahead of a sweep that starts.
LEMMA AheadAtStart ==
  ASSUME Types, NEW k \in ListStates, lists' = lists, sweepgc' = 0
  PROVE  ahead(k)' = ToSet(lists[k])
<1>1. lists[k] \in Seq(Node \cup Thr) /\ 0 # NULL /\ \A j \in 1 .. Len(lists[k]) : 0 < j
  BY DEF Types, NULL
<1>2. DOMAIN lists[k] = 1 .. Len(lists[k])
  BY <1>1
<1> QED
  BY <1>1, <1>2 DEF ahead, ToSet

LEMMA SweepSymbolsStep ==
  ASSUME Regular, IInv, SweepSymbols
  PROVE  IInv'
<1> USE DEF IInv
<1>1. PICK V \in SUBSET Sym : sweepobjs(V)
  BY DEF SweepSymbols
<1>2. /\ collects /\ gcstate = "sweepsymbol"
      /\ UNCHANGED <<gray, gcmode, gcnextmode, gcbarrieron, currentwhite, progVars, lists>>
      /\ (gcstate' = "sweepthread" /\ sweepgc' = 0) \/ UNCHANGED <<gcstate, sweepgc>>
  BY DEF SweepSymbols
<1>3. unswept' = unswept
  BY <1>2, AheadAtStart DEF unswept, ListStates
<1>4. /\ lists' \in [ListStates -> Seq(Node \cup Thr)] /\ sweepgc' \in {NULL} \cup Nat
      /\ gcstate \in SweepStates /\ gcstate' \in SweepStates /\ V \in SUBSET (Node \cup Sym \cup Thr)
  BY <1>2 DEF Types, SweepStates, ListStates
<1> QED
  BY <1>1, <1>2, <1>3, <1>4, SweepingStep

\* What RemoveAt leaves of a sequence.
LEMMA RemoveAtElements ==
  ASSUME NEW S, NEW s \in Seq(S), NEW i \in 1 .. Len(s)
  PROVE  /\ RemoveAt(s, i) \in Seq(S) /\ Len(RemoveAt(s, i)) = Len(s) - 1
         /\ \A j \in 1 .. i - 1 : RemoveAt(s, i)[j] = s[j]
         /\ \A j \in i + 1 .. Len(s) : j - 1 \in i .. Len(s) - 1 /\ RemoveAt(s, i)[j - 1] = s[j]
<1> DEFINE front == SubSeq(s, 1, i - 1)
           back  == SubSeq(s, i + 1, Len(s))
<1>1. /\ front \in Seq(S) /\ Len(front) = i - 1 /\ \A j \in 1 .. i - 1 : front[j] = s[j]
  OBVIOUS
<1>2. /\ back \in Seq(S) /\ Len(back) = Len(s) - i
      /\ \A j \in i + 1 .. Len(s) : j - i \in 1 .. Len(back) /\ back[j - i] = s[j]
  OBVIOUS
<1>3. RemoveAt(s, i) = front \o back
  BY DEF RemoveAt
<1> HIDE DEF front, back
<1>4. \A j \in i + 1 .. Len(s) : (front \o back)[j - 1] = back[j - i]
  <2> TAKE j \in i + 1 .. Len(s)
  <2>1. j - 1 \in 1 .. Len(front) + Len(back) /\ ~(j - 1 <= Len(front)) /\ (j - 1) - Len(front) = j - i
    BY <1>1, <1>2
  <2> QED
    BY <1>1, <1>2, <2>1
<1>5. RemoveAt(s, i) \in Seq(S) /\ Len(RemoveAt(s, i)) = Len(s) - 1
  <2>1. front \o back \in Seq(S) /\ Len(front \o back) = Len(front) + Len(back)
    <3>1. front \in Seq(S) /\ back \in Seq(S)
      BY <1>1, <1>2
    <3> QED
      BY <3>1, ConcatProperties
  <2>2. Len(front) + Len(back) = Len(s) - 1
    BY <1>1, <1>2
  <2> QED
    BY <1>3, <2>1, <2>2
<1>6. \A j \in 1 .. i - 1 : RemoveAt(s, i)[j] = s[j]
  <2> TAKE j \in 1 .. i - 1
  <2>1. j \in 1 .. Len(front) + Len(back) /\ j <= Len(front)
    BY <1>1, <1>2
  <2>2. (front \o back)[j] = front[j]
    BY <1>1, <1>2, <2>1
  <2> QED
    BY <1>1, <1>3, <2>2
<1>7. \A j \in i + 1 .. Len(s) : j - 1 \in i .. Len(s) - 1
  OBVIOUS
<1>8. \A j \in i + 1 .. Len(s) : RemoveAt(s, i)[j - 1] = s[j]
  BY <1>2, <1>3, <1>4
<1> QED
  BY <1>5, <1>6, <1>7, <1>8

LEMMA SweepElementStep ==
  ASSUME Regular, IInv, SweepElement
  PROVE  IInv'
<1> USE DEF IInv
<1> DEFINE k == gcstate
           i == sweepgc + 1
           o == lists[k][i]
<1>1. /\ collects /\ k \in ListStates /\ sweepgc # NULL /\ sweepgc < Len(lists[k]) /\ sweepobjs({o})
      /\ UNCHANGED <<gray, gcstate, gcmode, gcnextmode, gcbarrieron, currentwhite, progVars>>
      /\ \/ isdead(o) /\ lists' = [lists EXCEPT ![k] = RemoveAt(@, i)] /\ sweepgc' = sweepgc
         \/ ~isdead(o) /\ lists' = lists /\ sweepgc' = i
  BY DEF SweepElement
<1>2. sweepgc \in Nat /\ lists[k] \in Seq(Node \cup Thr) /\ lists \in [ListStates -> Seq(Node \cup Thr)]
  BY <1>1 DEF Types
<1>3. i \in 1 .. Len(lists[k]) /\ o \in Node \cup Thr
  BY <1>1, <1>2
<1>4. /\ lists' \in [ListStates -> Seq(Node \cup Thr)] /\ sweepgc' \in Nat
      /\ \A j \in ListStates \ {k} : lists'[j] = lists[j]
  <2>1. RemoveAt(lists[k], i) \in Seq(Node \cup Thr)
    BY <1>2, <1>3, RemoveAtElements
  <2>2. CASE isdead(o)
    <3>1. lists' = [lists EXCEPT ![k] = RemoveAt(@, i)] /\ sweepgc' = sweepgc
      BY <1>1, <2>2
    <3>2. lists' \in [ListStates -> Seq(Node \cup Thr)]
      BY <1>2, <2>1, <3>1
    <3>3. \A j \in ListStates \ {k} : lists'[j] = lists[j]
      BY <1>2, <3>1
    <3> QED
      BY <1>2, <3>1, <3>2, <3>3
  <2>3. CASE ~isdead(o)
    <3>1. lists' = lists /\ sweepgc' = i
      BY <1>1, <2>3
    <3> QED
      BY <1>2, <3>1
  <2> QED
    BY <2>2, <2>3
<1>5. \A x \in ToSet(lists[k]) : x \in ToSet(lists'[k]) \/ (x = o /\ isdead(x))
  <2>1. CASE isdead(o)
    <3>1. lists'[k] = RemoveAt(lists[k], i)
      BY <1>1, <1>2, <2>1
    <3> SUFFICES ASSUME NEW j \in 1 .. Len(lists[k]), j # i
                 PROVE  lists[k][j] \in ToSet(lists'[k])
      BY <1>2, <2>1 DEF ToSet
    <3>2. lists'[k] \in Seq(Node \cup Thr) /\ Len(lists'[k]) = Len(lists[k]) - 1
      BY <1>2, <1>3, <3>1, RemoveAtElements
    <3>3. DOMAIN lists'[k] = 1 .. Len(lists[k]) - 1
      BY <3>2
    <3>4. CASE j < i
      <4>1. j \in 1 .. i - 1 /\ j \in DOMAIN lists'[k]
        BY <1>2, <1>3, <3>3, <3>4
      <4>2. lists'[k][j] = lists[k][j]
        BY <1>2, <1>3, <3>1, <4>1, RemoveAtElements
      <4> QED
        BY <4>1, <4>2 DEF ToSet
    <3>5. CASE j > i
      <4>1. j \in i + 1 .. Len(lists[k])
        BY <1>2, <1>3, <3>5
      <4>2. j - 1 \in i .. Len(lists[k]) - 1 /\ lists'[k][j - 1] = lists[k][j]
        BY <1>2, <1>3, <3>1, <4>1, RemoveAtElements
      <4>3. j - 1 \in DOMAIN lists'[k]
        BY <1>2, <1>3, <3>3, <4>2
      <4> QED
        BY <4>2, <4>3 DEF ToSet
    <3> QED
      BY <1>2, <1>3, <3>4, <3>5
  <2>2. CASE ~isdead(o)
    BY <1>1, <2>2
  <2> QED
    BY <2>1, <2>2
<1>6. \A x \in ahead(k) \ {o} : x \in ahead(k)'
  <2> SUFFICES ASSUME NEW j \in 1 .. Len(lists[k]), sweepgc < j, j # i
               PROVE  lists[k][j] \in ahead(k)'
    BY DEF ahead
  <2>1. j \in i + 1 .. Len(lists[k])
    BY <1>2, <1>3
  <2>2. CASE isdead(o)
    <3>1. lists'[k] = RemoveAt(lists[k], i) /\ sweepgc' = sweepgc
      BY <1>1, <1>2, <2>2
    <3>2. /\ Len(lists'[k]) = Len(lists[k]) - 1
          /\ j - 1 \in i .. Len(lists[k]) - 1 /\ lists'[k][j - 1] = lists[k][j]
      <4>1. /\ Len(RemoveAt(lists[k], i)) = Len(lists[k]) - 1
            /\ \A n \in i + 1 .. Len(lists[k]) :
                 n - 1 \in i .. Len(lists[k]) - 1 /\ RemoveAt(lists[k], i)[n - 1] = lists[k][n]
        BY <1>2, <1>3, RemoveAtElements
      <4> QED
        BY <2>1, <3>1, <4>1
    <3>3. j - 1 \in 1 .. Len(lists'[k]) /\ sweepgc' < j - 1 /\ sweepgc' # NULL
      BY <1>1, <1>2, <1>3, <3>1, <3>2
    <3> QED
      BY <1>1, <3>2, <3>3 DEF ahead
  <2>3. CASE ~isdead(o)
    <3>1. lists' = lists /\ sweepgc' = i /\ sweepgc' # NULL /\ sweepgc' < j
      BY <1>1, <1>2, <1>3, <2>1, <2>3 DEF NULL
    <3> QED
      BY <1>1, <3>1 DEF ahead
  <2> QED
    BY <2>2, <2>3
<1> HIDE DEF i, o
<1>7. \A x \in unswept \ {o} : x \in unswept'
  BY <1>1, <1>4, <1>6 DEF unswept, ListStates
<1>8. \A h \in ListStates : \A x \in ToSet(lists[h]) : x \in ToSet(lists'[h]) \/ (x \in {o} /\ isdead(x))
  BY <1>4, <1>5
<1>9. gcstate \in SweepStates /\ gcstate' \in SweepStates /\ {o} \in SUBSET (Node \cup Sym \cup Thr)
      /\ sweepgc' \in {NULL} \cup Nat
  BY <1>1, <1>3, <1>4 DEF SweepStates
<1> QED
  BY <1>1, <1>4, <1>7, <1>8, <1>9, SweepingStep

\* A sweep leaves a list before its end only at an old object, and then does not
\* prepare for a full cycle.
LEMMA SweepListEndStep ==
  ASSUME Regular, IInv, SweepListEnd
  PROVE  IInv'
<1> USE DEF IInv
<1>1. /\ collects /\ gcstate \in ListStates /\ sweepgc # NULL /\ sweepgc' = NULL
      /\ UNCHANGED <<heapVars, markVars, cycleVars, progVars>>
      /\ sweepgc = Len(lists[gcstate]) \/ gcnextmode = GC_GENMODE
  BY DEF SweepListEnd, stopsAt
<1>2. /\ UNCHANGED <<alloc, refs, lists, color, old, gray, gcstate, gcmode, gcnextmode, gcbarrieron,
                     currentwhite, request, building, stale, Live>>
  BY <1>1 DEF heapVars, markVars, cycleVars, progVars, Live
<1>3. Types'
  BY <1>1, <1>2 DEF Types
<1>4. Shape' /\ Barrier' /\ Building'
  BY <1>2 DEF Shape, Barrier, Building
<1>5. gcnextmode = GC_FULLMODE => unswept \subseteq unswept'
  <2> SUFFICES ASSUME gcnextmode = GC_FULLMODE
               PROVE  unswept \subseteq unswept'
    OBVIOUS
  <2>1. lists[gcstate] \in Seq(Node \cup Thr) /\ sweepgc = Len(lists[gcstate])
    BY <1>1 DEF Types, GC_FULLMODE, GC_GENMODE
  <2>2. \A j \in 1 .. Len(lists[gcstate]) : ~(sweepgc < j)
    BY <2>1
  <2>3. ahead(gcstate) = {}
    BY <2>2 DEF ahead
  <2> QED
    BY <1>1, <1>2, <2>3 DEF unswept, ListStates
<1>6. SweptWhite'
  BY <1>2, <1>5 DEF Colours, SweptWhite, Unmarked
<1>7. Colours'
  BY <1>2, <1>6 DEF Colours, LiveAllocated, LiveNotDead, isdead, Otherwhite, VmBlack,
     BlackAboveNoWhite, GrayListed, WhiteAtBegin, Unmarked, StacksScanned
<1> QED
  BY <1>3, <1>4, <1>7

LEMMA ThreadsSweptStep ==
  ASSUME Regular, IInv, ThreadsSwept
  PROVE  IInv'
<1> USE DEF IInv
<1>1. /\ collects /\ gcstate = "sweepthread" /\ sweepgc = NULL /\ gcstate' = "sweep" /\ sweepgc' = 0
      /\ UNCHANGED <<alloc, refs, lists, color, old, gray, gcmode, gcnextmode, gcbarrieron,
                     currentwhite, request, building, stale, Live>>
  BY DEF ThreadsSwept, heapVars, markVars, progVars, Live
<1>2. Types'
  BY <1>1 DEF Types, States, SweepStates, ListStates
<1>3. Shape' /\ Building'
  BY <1>1 DEF Shape, Building
<1>4. Barrier'
  BY <1>1 DEF Barrier, InAtomic, SweepStates, ListStates
<1>5. unswept \subseteq unswept'
  <2>1. ahead("sweepthread") = {}
    BY <1>1 DEF ahead
  <2>2. ahead("sweep")' = ToSet(lists["sweep"])
    BY <1>1, AheadAtStart DEF ListStates
  <2> QED
    BY <1>1, <2>1, <2>2 DEF unswept
<1>6. SweptWhite'
  BY <1>1, <1>5 DEF Colours, SweptWhite, Unmarked, SweepStates, ListStates
<1>7. Colours'
  BY <1>1, <1>6 DEF Colours, LiveAllocated, LiveNotDead, isdead, Otherwhite, VmBlack,
     BlackAboveNoWhite, GrayListed, WhiteAtBegin, Unmarked, StacksScanned
<1> QED
  BY <1>2, <1>3, <1>4, <1>7

\* The cycle ends: what the sweep prepared for is what begins.
LEMMA SweepEndStep ==
  ASSUME Regular, IInv, SweepEnd
  PROVE  IInv'
<1> USE DEF IInv
<1>1. /\ collects /\ gcstate = "sweep" /\ sweepgc = NULL /\ gcstate' = "begin" /\ gcmode' = gcnextmode
      /\ gcnextmode' \in {request.mode, 0} /\ request' = nextRequest
      /\ UNCHANGED <<alloc, refs, lists, color, gray, gcbarrieron, currentwhite, sweepgc,
                     building, stale, Live>>
  BY DEF SweepEnd, sweepVars, Live
<1>2. old' \in [Obj -> BOOLEAN]
  BY DEF SweepEnd, sym_resize_tbl, Types
<1>3. request' \in [stage : 0 .. 3, mode : {GC_FULLMODE}] /\ request.mode = GC_FULLMODE
  BY <1>1 DEF Types, nextRequest
<1>4. Types'
  BY <1>1, <1>2, <1>3 DEF Types, States, GC_FULLMODE
<1>5. Shape' /\ Building'
  BY <1>1 DEF Shape, Building
<1>6. Barrier'
  BY <1>1 DEF Barrier, InAtomic, SweepStates, ListStates
<1>7. WhiteAtBegin'
  <2>1. unswept = {}
    BY <1>1 DEF unswept, ahead
  <2> QED
    BY <1>1, <2>1 DEF Colours, SweptWhite, WhiteAtBegin, Unmarked, SweepStates, ListStates
<1>8. LiveAllocated' /\ LiveNotDead' /\ VmBlack'
  BY <1>1 DEF Colours, LiveAllocated, LiveNotDead, isdead, Otherwhite, VmBlack
<1>9. BlackAboveNoWhite' /\ GrayListed'
  BY <1>1 DEF Colours, BlackAboveNoWhite, GrayListed
<1>10. SweptWhite' /\ StacksScanned'
  BY <1>1 DEF SweptWhite, StacksScanned, SweepStates, ListStates
<1> QED
  BY <1>4, <1>5, <1>6, <1>7, <1>8, <1>9, <1>10 DEF Colours
-----------------------------------------------------------------------------
(***************************************************************************)
(* The invariant is inductive.                                             *)
(***************************************************************************)
LEMMA InitInv ==
  ASSUME Init
  PROVE  IInv
<1>1. Types
  <2>1. refs \in [Obj -> SUBSET Obj]
    BY KindsAreDisjoint DEF Init, Obj, Threads
  <2>2. color \in [Obj -> Colors] /\ old \in [Obj -> BOOLEAN] /\ currentwhite \in White
    BY DEF Init, Colors, White
  <2>3. lists \in [ListStates -> Seq(Node \cup Thr)]
    <3>1. <<>> \in Seq(Node \cup Thr) /\ <<Global>> \in Seq(Node \cup Thr)
      BY KindsAreDisjoint
    <3> QED
      BY <3>1 DEF Init
  <2>4. /\ alloc \subseteq Node \cup Sym \cup Thr /\ gray \subseteq Obj
        /\ building \subseteq Threads \X (Sym \cup Thr) /\ stale = [t \in Threads |-> {}]
    BY KindsAreDisjoint DEF Init
  <2>5. gcstate \in States /\ gcbarrieron \in BOOLEAN /\ sweepgc \in {NULL} \cup Nat
    BY DEF Init, States
  <2>6. gcmode \in {GC_FULLMODE, GC_GENMODE} /\ gcnextmode \in {GC_FULLMODE, GC_GENMODE}
    BY DEF Init, GC_FULLMODE
  <2>7. request \in [stage : 0 .. 3, mode : {GC_FULLMODE}]
    <3>1. 0 \in 0 .. 3
      OBVIOUS
    <3> QED
      BY <3>1 DEF Init
  <2> QED
    BY <2>1, <2>2, <2>3, <2>4, <2>5, <2>6, <2>7 DEF Types
<1>2. Shape
  BY KindsAreDisjoint DEF Init, Shape, Obj, Threads, ListStates, ToSet
<1>3. Building /\ Barrier
  BY DEF Init, Building, Barrier, InAtomic, SweepStates, ListStates, GC_FULLMODE, GC_GENMODE
<1>4. Live \subseteq {Vm, Main, Global}
  <2>1. {Vm, Main, Global} \in SUBSET Obj
    BY KindsAreDisjoint DEF Obj, Threads
  <2>2. \A x \in {Vm, Main, Global} : refs[x] \subseteq {Vm, Main, Global}
    BY <2>1 DEF Init
  <2> QED
    BY <2>1, <2>2, ReachLeast DEF Live
<1>5. /\ \A x \in Live \ {Vm} : color[x] = "white0"
      /\ color[Vm] = "black" /\ currentwhite = "white0" /\ alloc = {Global}
      /\ gcbarrieron = FALSE /\ gcstate = "begin"
  BY <1>1, LiveClosed DEF Init, Obj
<1>6. Colours
  BY <1>4, <1>5 DEF Colours, LiveAllocated, LiveNotDead, isdead, Otherwhite, VmBlack, White,
     BlackAboveNoWhite, GrayListed, WhiteAtBegin, Unmarked, SweptWhite, StacksScanned,
     SweepStates, ListStates
<1> QED
  BY <1>1, <1>2, <1>3, <1>6 DEF IInv

LEMMA MutatorStep ==
  ASSUME Regular, IInv, Mutator
  PROVE  IInv'
BY pushValueStep, popValueStep, copyToStackStep, setElementStep, removeElementStep,
   callMorCPrepStep, mem_newStep, newSymFoundStep, newSymGrowsStep, newSymAddedStep,
   newThreadStep, thrInitStep, mem_gcfullStep
   DEF Mutator

LEMMA CollectorStep ==
  ASSUME Regular, IInv, GCStep
  PROVE  IInv'
BY GCBeginStep, MarkTopGrayStep, MarkDoneStep, AtomicBeginStep, MarkThreadsStep, AtomicEndStep,
   SweepSymbolsStep, SweepElementStep, SweepListEndStep, ThreadsSweptStep, SweepEndStep
   DEF GCStep

LEMMA StutterStep ==
  ASSUME IInv, UNCHANGED vars
  PROVE  IInv'
<1>1. UNCHANGED <<alloc, refs, color, old, lists, gray, currentwhite, gcstate, gcmode, gcnextmode,
                  gcbarrieron, sweepgc, request, building, stale, Live, unswept>>
  BY DEF vars, heapVars, markVars, cycleVars, sweepVars, progVars, Live, unswept, ahead
<1>2. Types' /\ Shape' /\ Building' /\ Barrier'
  BY <1>1 DEF IInv, Types, Shape, Building, Barrier
<1>3. Colours'
  BY <1>1 DEF IInv, Colours, LiveAllocated, LiveNotDead, isdead, Otherwhite, VmBlack,
     BlackAboveNoWhite, GrayListed, WhiteAtBegin, Unmarked, SweptWhite, StacksScanned
<1> QED
  BY <1>2, <1>3 DEF IInv

\* Every step of the collector and of the program keeps the invariant.
THEOREM Inductive == ASSUME Regular PROVE Spec => []IInv
<1>1. Init => IInv
  BY InitInv
<1>2. IInv /\ [Next]_vars => IInv'
  BY MutatorStep, CollectorStep, StutterStep DEF Next
<1> QED
  BY <1>1, <1>2, PTL DEF Spec
-----------------------------------------------------------------------------
(***************************************************************************)
(* What follows.                                                           *)
(***************************************************************************)
LEMMA InvNoDangling == IInv => NoDangling
BY ReachableIsLive DEF IInv, Types, Colours, LiveAllocated, NoDangling, H!NoDangling, Reachable

\* No pointer the program can follow leads to freed memory.
THEOREM NeverDangling == ASSUME Regular PROVE Spec => []NoDangling
BY InvNoDangling, Inductive, PTL

\* While the barrier is on no reachable black object but a thread points to a white one.
THEOREM AlwaysTriColour == ASSUME Regular PROVE Spec => []TriColour
<1>1. IInv => TriColour
  BY ReachableIsLive DEF IInv, Types, Colours, BlackAboveNoWhite, TriColour
<1> QED
  BY <1>1, Inductive, PTL

\* The assert of mem_markatomic holds as long as nobody asks for an emergency cycle.
THEOREM MainIsMarked == ASSUME Regular PROVE Spec => []MainMarked
<1>1. IInv => MainMarked
  <2> SUFFICES ASSUME IInv, gcstate = "markatomic"
               PROVE  color[Main] \notin White
    BY DEF MainMarked, MainNotWhite
  <2>1. gcbarrieron /\ color[Vm] = "black" /\ Main \in refs[Vm]
    BY DEF IInv, Barrier, InAtomic, Colours, VmBlack, Shape
  <2>2. Vm \in Live \ Threads
    BY LiveClosed, KindsAreDisjoint DEF IInv, Threads
  <2> QED
    BY <2>1, <2>2 DEF IInv, Colours, BlackAboveNoWhite
<1> QED
  BY <1>1, Inductive, PTL

\* The program's steps are those of Heap: they give nothing back.
LEMMA MutatorImplements ==
  ASSUME IInv', NoDangling', Mutator
  PROVE  H!Mutate
<1>1. alloc \subseteq alloc'
  <2>1. ASSUME NEW t \in Threads, NEW v \in Obj, pushValue(t, v) \/ popValue(t, v)
        PROVE  alloc \subseteq alloc'
    BY <2>1 DEF pushValue, popValue
  <2>2. ASSUME NEW t \in Threads, NEW u \in Threads, NEW v \in Obj, copyToStack(t, u, v)
        PROVE  alloc \subseteq alloc'
    BY <2>2 DEF copyToStack
  <2>3. ASSUME NEW t \in Threads, NEW p \in Node, NEW v \in Obj,
               setElement(t, p, v) \/ removeElement(t, p, v)
        PROVE  alloc \subseteq alloc'
    BY <2>3 DEF setElement, removeElement
  <2>4. ASSUME NEW t \in Threads, callMorCPrep(t) \/ \E o \in Node : mem_new(t, o)
        PROVE  alloc \subseteq alloc'
    BY <2>4 DEF callMorCPrep, mem_new
  <2>5. ASSUME NEW t \in Threads, NEW s \in Sym,
               newSymFound(t, s) \/ newSymGrows(t, s) \/ newSymAdded(t, s)
        PROVE  alloc \subseteq alloc'
    BY <2>5 DEF newSymFound, newSymGrows, newSymAdded
  <2>6. ASSUME NEW t \in Threads, NEW n \in Thr, newThread(t, n) \/ thrInit(t, n)
        PROVE  alloc \subseteq alloc'
    BY <2>6 DEF newThread, thrInit
  <2>7. ASSUME NEW mode \in FullRequests, mem_gcfull(mode)
        PROVE  alloc \subseteq alloc'
    BY <2>7 DEF mem_gcfull, heapVars
  <2> QED
    BY <2>1, <2>2, <2>3, <2>4, <2>5, <2>6, <2>7 DEF Mutator
<1>2. refs' \in [Obj -> SUBSET Obj] /\ H!NoDangling'
  BY DEF IInv, Types, NoDangling
<1> QED
  BY <1>1, <1>2 DEF H!Mutate

\* What a sweep gives back is not reachable, and it alters no survivor.
LEMMA SweepImplements ==
  ASSUME IInv, NEW V \in SUBSET (Node \cup Sym \cup Thr), sweepobjs(V)
  PROVE  H!Collect
<1> USE DEF IInv
<1> DEFINE freed == {x \in V : isdead(x)}
           dead  == (alloc \cup {Vm, Main}) \ (alloc' \cup {Vm, Main})
<1>1. alloc' = alloc \ freed /\ refs' = [x \in Obj |-> IF x \in freed THEN {} ELSE refs[x]]
  BY DEF sweepobjs
<1>2. dead = freed \cap alloc
  BY <1>1, KindsAreDisjoint DEF Types, Threads
<1>3. freed \cap Live = {} /\ freed \cap {Vm, Main} = {}
  BY KindsAreDisjoint DEF Colours, LiveNotDead
<1>4. dead \cap H!Reachable = {}
  BY <1>2, <1>3, ReachableIsLive DEF Types, Reachable
<1>5. \A x \in freed \ dead : refs[x] = {}
  <2>1. freed \subseteq Obj
    BY DEF Obj, Threads
  <2> QED
    BY <1>2, <1>3, <2>1 DEF Shape
<1>6. refs' = [x \in Obj |-> IF x \in dead THEN {} ELSE refs[x]]
  BY <1>1, <1>2, <1>5
<1> QED
  BY <1>1, <1>4, <1>6 DEF H!Collect

\* The collector's steps are those of Heap, or do not touch the heap.
LEMMA CollectorImplements ==
  ASSUME IInv, GCStep
  PROVE  H!Collect \/ UNCHANGED H!vars
<1>1. CASE SweepSymbols
  <2>1. PICK V \in SUBSET Sym : sweepobjs(V)
    BY <1>1 DEF SweepSymbols
  <2> QED
    BY <2>1, SweepImplements
<1>2. CASE SweepElement
  <2> DEFINE o == lists[gcstate][sweepgc + 1]
  <2>1. sweepobjs({o}) /\ gcstate \in ListStates /\ sweepgc # NULL /\ sweepgc < Len(lists[gcstate])
    BY <1>2 DEF SweepElement
  <2>2. lists[gcstate] \in Seq(Node \cup Thr) /\ sweepgc \in Nat
    BY <2>1 DEF IInv, Types
  <2>3. o \in Node \cup Thr
    BY <2>1, <2>2
  <2> HIDE DEF o
  <2> QED
    BY <2>1, <2>3, SweepImplements
<1>3. CASE GCStep /\ ~SweepSymbols /\ ~SweepElement
  <2>1. UNCHANGED <<alloc, refs>>
    BY <1>3 DEF GCStep, GCBegin, MarkTopGray, MarkDone, AtomicBegin, MarkThreads, AtomicEnd,
       SweepListEnd, ThreadsSwept, SweepEnd, heapVars
  <2> QED
    BY <2>1 DEF H!vars
<1> QED
  BY <1>1, <1>2, <1>3

\* The collector implements Heap: an object the program can reach is never given
\* back, and giving one back alters no survivor.
THEOREM ImplementsHeap == ASSUME Regular PROVE Spec => MemorySafety
<1>1. Init /\ IInv /\ NoDangling => H!Init
  BY KindsAreDisjoint DEF IInv, Types, Obj, Threads, NoDangling, H!Init
<1>2. IInv /\ IInv' /\ NoDangling' /\ [Next]_vars => [H!Next]_(H!vars)
  <2> SUFFICES ASSUME IInv, IInv', NoDangling', [Next]_vars
               PROVE  H!Next \/ UNCHANGED H!vars
    OBVIOUS
  <2>1. CASE Mutator
    BY <2>1, MutatorImplements DEF H!Next
  <2>2. CASE GCStep
    BY <2>2, CollectorImplements DEF H!Next
  <2>3. CASE UNCHANGED vars
    BY <2>3 DEF vars, heapVars, H!vars
  <2> QED
    BY <2>1, <2>2, <2>3 DEF Next
<1> QED
  BY <1>1, <1>2, Inductive, NeverDangling, PTL DEF Spec, MemorySafety, H!Spec

-----------------------------------------------------------------------------
(***************************************************************************)
(* Sets that hold the live objects.                                        *)
(***************************************************************************)
\* Whatever marking may come to includes all that is live.
LEMMA LiveIsMarkable ==
  ASSUME IInv, NEW R \in SUBSET (alloc \cup {Vm, Main}), Markable(R)
  PROVE  Live \subseteq R /\ R \subseteq Obj
<1>1. R \subseteq Obj
  BY DEF IInv, Types, Obj, Threads
<1>2. Vm \in R /\ \A x \in R : refs[x] \subseteq R
  BY DEF Markable
<1> QED
  BY <1>1, <1>2, ReachLeast DEF Live

\* Nothing live is doomed.
LEMMA LiveNotDoomed ==
  ASSUME IInv, Doomed
  PROVE  Live \cap doomed = {} /\ Vm \notin doomed /\ Main \notin doomed
<1>1. Vm \in Obj /\ Vm \notin doomed /\ Main \notin doomed
  BY KindsAreDisjoint DEF Doomed, IInv, Types, Obj
<1>2. \A x \in Obj \ doomed : refs[x] \subseteq Obj \ doomed
  BY DEF Doomed, IInv, Types
<1>3. Live \subseteq Obj \ doomed
  BY <1>1, <1>2, ReachLeast DEF Live
<1> QED
  BY <1>1, <1>3
-----------------------------------------------------------------------------
(***************************************************************************)
(* The program's steps.                                                    *)
(***************************************************************************)
\* A thread newThread has linked and thrInit has still to set up.
settingUp == {n \in Thr \cap alloc : \E b \in building : b[2] = n}

\* The symbols that may be looked up: those the step leaves dead are not among them.
foundSym == {s \in alloc \cap Sym : color'[s] # Otherwhite}

\* What a step of the program does that allocates the objects of N: what it
\* stores is live, new, or the thread it is setting up, and it changes colours
\* by marking and by saving dead symbols only.
ProgramFrame(N) ==
  /\ UNCHANGED <<gcstate, gcmode, gcbarrieron, currentwhite, doomed>>
  /\ gcnextmode' = gcnextmode \/ gcstate \notin SweepStates
  /\ N \subseteq Obj \ (alloc \cup {Vm, Main}) /\ alloc' = alloc \cup N
  /\ \A x \in N : color'[x] = currentwhite
  /\ \A x \in Obj \ N :
       \/ color'[x] = color[x]
       \/ /\ gcbarrieron /\ x \in Live /\ color'[x] \notin White
          /\ x \in Sym \/ (color'[x] = "gray" /\ x \in gray')
          /\ x \in Sym => color'[x] # "gray"
       \/ x \in Sym /\ isdead(x) /\ color'[x] = currentwhite
  /\ gray \subseteq gray' /\ \A x \in gray' \ gray : gcbarrieron /\ x \in Live /\ color'[x] = "gray"
  /\ \A x \in Obj : refs'[x] \subseteq refs[x] \cup Live \cup N \cup settingUp \cup foundSym
  /\ gcbarrieron => \A p \in Obj \ Threads : color'[p] = "black" =>
                       \A y \in refs'[p] \ refs[p] : color'[y] \notin White
  /\ \A x \in Obj \ Sym : old'[x] = old[x]
  /\ \A x \in Sym : old'[x] => old[x]
  /\ unswept \subseteq unswept'
  /\ \A b \in building' : b \in building \/ b[2] \in Sym \cup N

\* Then what a full cycle will find stays white and young.
LEMMA ProgramFresh ==
  ASSUME IInv, Olds, Fresh, NEW N, ProgramFrame(N)
  PROVE  Fresh'
<1>1. /\ UNCHANGED <<gcstate, gcmode, currentwhite>> /\ unswept \subseteq unswept'
      /\ gcnextmode' = gcnextmode \/ gcstate \notin SweepStates
      /\ N \subseteq Obj \ (alloc \cup {Vm, Main}) /\ alloc' = alloc \cup N
      /\ alloc \subseteq Obj
  BY DEF ProgramFrame, IInv, Types, Obj, Threads
<1>2. ASSUME ~gcbarrieron, NEW x \in alloc' \ Sym, x \in alloc => fresh(x)
      PROVE  fresh(x)'
  BY <1>1, <1>2 DEF ProgramFrame, fresh, Olds
<1>3. ASSUME gcstate = "begin", gcmode = GC_FULLMODE, NEW x \in alloc' \ Sym
      PROVE  fresh(x)'
  <2>1. ~gcbarrieron
    BY <1>3 DEF IInv, Barrier, GC_FULLMODE, GC_GENMODE
  <2> QED
    BY <1>2, <1>3, <2>1 DEF Fresh
<1>4. ASSUME gcstate \in SweepStates, gcnextmode = GC_FULLMODE, NEW x \in alloc' \ Sym
      PROVE  x \in unswept' \/ fresh(x)'
  <2>1. ~gcbarrieron
    BY <1>4 DEF IInv, Barrier, GC_FULLMODE, GC_GENMODE
  <2> QED
    BY <1>1, <1>2, <1>4, <2>1 DEF Fresh
<1> QED
  BY <1>1, <1>3, <1>4 DEF Fresh

\* The gray list stays sound.
LEMMA ProgramGrays ==
  ASSUME IInv, IInv', Grays, NEW N, ProgramFrame(N)
  PROVE  Grays'
<1>1. PICK R \in SUBSET (alloc \cup {Vm, Main}) : Markable(R)
  BY DEF Grays
<1>2. Live \subseteq R /\ R \subseteq Obj /\ settingUp \subseteq R
  BY <1>1, LiveIsMarkable DEF Markable, settingUp, Threads
<1>3. /\ UNCHANGED <<gcbarrieron, currentwhite, Otherwhite>>
      /\ N \subseteq Obj \ (alloc \cup {Vm, Main}) /\ alloc' = alloc \cup N
  BY DEF ProgramFrame, Otherwhite
<1>4. currentwhite \in White /\ Otherwhite # currentwhite /\ {"black", "gray"} \cap White = {}
      /\ Otherwhite \in White
  BY Whites DEF IInv, Types
<1>5. \A x \in Obj : /\ color'[x] \in White => color[x] \in White \/ x \in N
                     /\ color'[x] = Otherwhite => color[x] = Otherwhite /\ x \notin N
  BY <1>3, <1>4 DEF ProgramFrame, isdead
<1>6. \A x \in gray' : color'[x] = "gray"
  <2>1. gray \subseteq Obj
    BY DEF IInv, Types
  <2>2. \A x \in gray : x \notin N
    BY <1>1, <1>3 DEF Markable
  <2> QED
    BY <1>4, <2>1, <2>2 DEF ProgramFrame, Grays, isdead
<1>7. gcbarrieron' \/ gray' = {}
  BY DEF ProgramFrame, Grays
<1>8. \A s \in Sym : color'[s] # "gray"
  BY <1>4 DEF ProgramFrame, Grays, Obj
<1> DEFINE Q == R \cup N \cup (Sym \cap alloc)
<1>9. Q \in SUBSET (alloc' \cup {Vm, Main}) /\ Q \subseteq Obj
  BY <1>2, <1>3 DEF Obj
<1>10. {Vm} \cup gray' \cup (Threads \cap (alloc' \cup {Main})) \subseteq Q
  BY <1>1, <1>2, <1>3 DEF ProgramFrame, Markable
<1>11. ASSUME NEW x \in Q
       PROVE  refs'[x] \subseteq Q /\ \A y \in refs'[x] : color'[y] # Otherwhite
  <2>1. /\ refs'[x] \subseteq refs[x] \cup Live \cup N \cup settingUp \cup foundSym
        /\ foundSym \subseteq Sym \cap alloc /\ \A y \in foundSym : color'[y] # Otherwhite
    BY <1>9 DEF ProgramFrame, foundSym
  <2>2. refs[x] \subseteq R /\ \A y \in refs[x] : color[y] # Otherwhite
    <3>1. CASE x \in R
      BY <1>1, <3>1 DEF Markable, isdead
    <3>2. CASE x \in N
      BY <1>3, <3>2 DEF IInv, Shape
    <3>3. CASE x \in Sym
      BY <1>9, <3>3 DEF IInv, Shape
    <3> QED
      BY <3>1, <3>2, <3>3
  <2>3. \A y \in Live : color[y] # Otherwhite
    BY DEF IInv, Colours, LiveNotDead, isdead
  <2>4. \A y \in settingUp : color[y] # Otherwhite
    BY <1>4 DEF IInv, Building, settingUp
  <2>5. \A y \in N : color'[y] # Otherwhite
    BY <1>4 DEF ProgramFrame
  <2> QED
    BY <1>2, <1>5, <1>9, <2>1, <2>2, <2>3, <2>4, <2>5
<1>12. ASSUME gcbarrieron, NEW p \in Q \ Threads
       PROVE  /\ color'[p] = "black" => \A y \in refs'[p] : color'[y] \notin White
              /\ color'[p] = "gray" => p \in gray'
  <2>1. CASE p \in N
    BY <1>3, <1>4, <2>1 DEF ProgramFrame
  <2>2. CASE p \in Sym
    <3>1. p \in Obj
      BY <1>9
    <3> QED
      BY <1>8, <2>2, <3>1 DEF IInv, Shape
  <2>3. CASE p \notin N \cup Sym
    <3>1. p \in R /\ p \in Obj
      BY <1>2, <2>3
    <3>2. ASSUME color'[p] = "gray"
          PROVE  p \in gray'
      <4>1. p \notin Sym
        BY <1>8, <3>2
      <4>2. color[p] = "gray" => p \in gray
        BY <1>1, <1>12, <3>1 DEF Markable
      <4> QED
        BY <1>4, <2>3, <3>1, <3>2, <4>1, <4>2 DEF ProgramFrame
    <3>3. ASSUME color'[p] = "black", NEW y \in refs'[p], color'[y] \in White
          PROVE  FALSE
      <4>1. p \notin Sym
        BY <3>1, <3>3 DEF IInv, Shape
      <4>2. color[p] = "black"
        BY <1>4, <2>3, <3>1, <3>3, <4>1 DEF ProgramFrame
      <4>3. y \in refs[p]
        BY <1>12, <3>1, <3>3 DEF ProgramFrame
      <4>4. color[y] \notin White /\ y \in R
        BY <1>1, <1>12, <3>1, <4>2, <4>3 DEF Markable
      <4>5. y \notin N /\ y \in Obj
        BY <1>2, <1>3, <4>4
      <4> QED
        BY <1>5, <3>3, <4>4, <4>5
    <3> QED
      BY <3>2, <3>3
  <2> QED
    BY <2>1, <2>2, <2>3
<1>13. Markable(Q)'
  BY <1>3, <1>10, <1>11, <1>12 DEF Markable, isdead
<1> QED
  BY <1>6, <1>7, <1>8, <1>9, <1>13 DEF Grays

\* What a full cycle will free stays so.
LEMMA ProgramDoomed ==
  ASSUME IInv, Doomed, NEW N, ProgramFrame(N)
  PROVE  Doomed'
<1>1. Live \cap doomed = {} /\ settingUp \cap doomed = {}
  BY LiveNotDoomed DEF Doomed, settingUp
<1>2. /\ UNCHANGED <<gcstate, currentwhite, Otherwhite, doomed>>
      /\ N \subseteq Obj \ (alloc \cup {Vm, Main}) /\ alloc' = alloc \cup N
      /\ doomed \subseteq alloc \ Sym /\ N \cap doomed = {} /\ doomed \subseteq Obj
  BY DEF ProgramFrame, Otherwhite, Doomed, IInv, Types, Obj, Threads
<1>3. \A x \in Obj : x \notin doomed \/ x \in Threads => refs'[x] \cap doomed = {}
  BY <1>1, <1>2 DEF ProgramFrame, Doomed, foundSym
<1>4. \A x \in doomed : color'[x] = color[x] /\ old'[x] = old[x]
  BY <1>1, <1>2 DEF ProgramFrame
<1>5. \A b \in building' : b[2] \notin doomed
  BY <1>2 DEF ProgramFrame, Doomed
<1>6. unswept \subseteq unswept'
  BY DEF ProgramFrame
<1> QED
  BY <1>2, <1>3, <1>4, <1>5, <1>6 DEF Doomed, isdead

\* A store with a barrier check for the parent p, which is live; only p's pointers
\* change.
LEMMA StoreFrame ==
  ASSUME IInv, NEW t \in Threads, Runs(t), NEW p \in Obj, NEW v \in Live,
         refs' \in [Obj -> SUBSET Obj], refs'[p] \subseteq refs[p] \cup {v},
         \A x \in Obj \ {p} : refs'[x] = refs[x],
         markobj(color, gray, markChk(p, v)),
         UNCHANGED <<alloc, lists, symArray, old, cycleVars, sweepVars, building, doomed>>
  PROVE  ProgramFrame({})
<1>1. v \in Obj /\ ~isdead(v)
  BY LiveClosed DEF IInv, Colours, LiveNotDead
<1>2. /\ color' \in [Obj -> Colors] /\ gray' \in SUBSET Obj /\ gray \subseteq gray'
      /\ \A x \in Obj : \/ color'[x] = color[x]
                        \/ /\ gcbarrieron /\ color'[x] \notin White /\ color[x] \in White
                           /\ x \in Sym \/ (color'[x] = "gray" /\ x \in gray')
      /\ gcbarrieron /\ color[p] = "black" /\ ~isdead(v) => color'[v] \notin White
  BY <1>1, BarrierMarks DEF IInv
<1>3. /\ color \in [Obj -> Colors] /\ gray \in SUBSET Obj /\ markChk(p, v) \subseteq {v}
      /\ markChk(p, v) # {} => gcbarrieron
  BY DEF IInv, Types, markChk
<1>4. /\ \A x \in Obj : color'[x] # color[x] => x = v /\ gcbarrieron /\ (x \in Sym => color'[x] = "black")
      /\ \A x \in gray' \ gray : x = v /\ gcbarrieron /\ color'[x] = "gray"
  BY <1>1, <1>3 DEF markobj
<1>5. \A x \in Obj : \/ color'[x] = color[x]
                     \/ /\ gcbarrieron /\ x \in Live /\ color'[x] \notin White
                        /\ x \in Sym \/ (color'[x] = "gray" /\ x \in gray')
                        /\ x \in Sym => color'[x] # "gray"
  BY <1>2, <1>4
<1>6. UNCHANGED <<unswept, gcstate, gcmode, gcnextmode, gcbarrieron, currentwhite>>
  BY DEF unswept, ahead, sweepVars, cycleVars
<1>7. ASSUME gcbarrieron, NEW q \in Obj \ Threads, color'[q] = "black", NEW y \in refs'[q] \ refs[q]
      PROVE  color'[y] \notin White
  <2>1. q = p /\ y = v
    BY <1>7
  <2>2. color[p] = "black" \/ p = v
    BY <1>4, <1>7, <2>1
  <2> QED
    BY <1>1, <1>2, <1>7, <2>1, <2>2 DEF White
<1>8. \A x \in Obj : refs'[x] \subseteq refs[x] \cup Live
  BY <1>1
<1> QED
  BY <1>2, <1>4, <1>5, <1>6, <1>7, <1>8 DEF ProgramFrame

\* Stores without a barrier go to stacks, or take pointers away.
LEMMA PlainFrame ==
  ASSUME IInv, NEW t \in Threads, Runs(t),
         \A x \in Obj : refs'[x] \subseteq refs[x] \cup Live,
         \A x \in Obj \ Threads : refs'[x] \subseteq refs[x],
         UNCHANGED <<alloc, lists, symArray, markVars, cycleVars, sweepVars, building, doomed>>
  PROVE  ProgramFrame({})
<1>1. UNCHANGED <<unswept, gcstate, gcmode, gcnextmode, gcbarrieron, currentwhite, color, old, gray>>
  BY DEF unswept, ahead, sweepVars, cycleVars, markVars
<1> QED
  BY <1>1 DEF ProgramFrame

\* A symbol is put on a stack, whether it was there already or not.
LEMMA SymFrame ==
  ASSUME IInv, NEW t \in Threads, NEW s \in Sym, gcstate \notin InAtomic,
         alloc' = alloc \cup {s}, refs' = [refs EXCEPT ![t] = @ \cup {s}],
         color' = [color EXCEPT ![s] = IF isdead(s) \/ s \notin alloc THEN currentwhite ELSE @],
         building' = {},
         UNCHANGED <<lists, old, gray, cycleVars, sweepVars, doomed>>
  PROVE  ProgramFrame({s} \ alloc)
<1>1. s \in Obj /\ s \notin {Vm, Main} /\ currentwhite # Otherwhite
  BY KindsAreDisjoint, Whites DEF Obj, IInv, Types
<1>2. /\ \A x \in Obj \ {s} : color'[x] = color[x]
      /\ color'[s] = IF isdead(s) \/ s \notin alloc THEN currentwhite ELSE color[s]
  BY <1>1 DEF IInv, Types
<1>3. \A x \in Obj : refs'[x] \subseteq refs[x] \cup {s} /\ (x \notin Threads => refs'[x] = refs[x])
  BY DEF IInv, Types
<1>4. s \in {s} \ alloc \/ s \in foundSym
  BY <1>1, <1>2 DEF foundSym, isdead
<1>5. UNCHANGED <<unswept, gcstate, gcmode, gcnextmode, gcbarrieron, currentwhite>>
  BY DEF unswept, ahead, sweepVars, cycleVars
<1> QED
  BY <1>1, <1>2, <1>3, <1>4, <1>5 DEF ProgramFrame

LEMMA storesFrame ==
  ASSUME IInv, NEW t \in Threads, NEW v \in Obj,
         \/ pushValue(t, v) \/ popValue(t, v) \/ callMorCPrep(t)
         \/ \E u \in Threads : copyToStack(t, u, v)
         \/ \E p \in Node : setElement(t, p, v) \/ removeElement(t, p, v)
  PROVE  ProgramFrame({})
<1>1. refs \in [Obj -> SUBSET Obj]
  BY DEF IInv, Types
<1>2. CASE pushValue(t, v)
  <2>1. Runs(t) /\ v \in Live /\ refs' = [refs EXCEPT ![t] = @ \cup {v}]
    BY <1>2, HeldIsLive DEF pushValue, IInv
  <2>2. refs' \in [Obj -> SUBSET Obj] /\ refs'[t] \subseteq refs[t] \cup {v}
        /\ \A x \in Obj \ {t} : refs'[x] = refs[x]
    BY <1>1, <2>1 DEF Obj
  <2> QED
    BY <1>2, <2>1, <2>2, StoreFrame DEF pushValue, progVars, Obj
<1>3. CASE popValue(t, v)
  <2>1. Runs(t) /\ refs' = [refs EXCEPT ![t] = @ \ {v}]
    BY <1>3 DEF popValue
  <2>2. \A x \in Obj : refs'[x] \subseteq refs[x]
    BY <1>1, <2>1
  <2> QED
    BY <1>3, <2>1, <2>2, PlainFrame DEF popValue
<1>4. CASE callMorCPrep(t)
  <2>1. Runs(t) /\ refs' = refs
    BY <1>1, <1>4 DEF callMorCPrep, IInv, Types
  <2> QED
    BY <1>4, <2>1, PlainFrame DEF callMorCPrep, progVars
<1>5. ASSUME NEW u \in Threads, copyToStack(t, u, v)
      PROVE  ProgramFrame({})
  <2>1. Runs(t) /\ v \in Live /\ refs' = [refs EXCEPT ![u] = @ \cup {v}]
    BY <1>5, HeldIsLive DEF copyToStack, IInv
  <2>2. \A x \in Obj : refs'[x] \subseteq refs[x] \cup {v} /\ (x \notin Threads => refs'[x] = refs[x])
    BY <1>1, <2>1
  <2> QED
    BY <1>5, <2>1, <2>2, PlainFrame DEF copyToStack, progVars
<1>6. ASSUME NEW p \in Node, setElement(t, p, v)
      PROVE  ProgramFrame({})
  <2>1. PICK over : Runs(t) /\ v \in Live /\ refs' = [refs EXCEPT ![p] = (@ \ over) \cup {v}]
    BY <1>6, HeldIsLive DEF setElement, IInv
  <2>2. refs' \in [Obj -> SUBSET Obj] /\ refs'[p] \subseteq refs[p] \cup {v}
        /\ \A x \in Obj \ {p} : refs'[x] = refs[x]
    BY <1>1, <2>1 DEF Obj
  <2> QED
    BY <1>6, <2>1, <2>2, StoreFrame DEF setElement, progVars, Obj
<1>7. ASSUME NEW p \in Node, removeElement(t, p, v)
      PROVE  ProgramFrame({})
  <2>1. Runs(t) /\ refs' = [refs EXCEPT ![p] = @ \ {v}]
    BY <1>7 DEF removeElement
  <2>2. \A x \in Obj : refs'[x] \subseteq refs[x]
    BY <1>1, <2>1
  <2> QED
    BY <1>7, <2>1, <2>2, PlainFrame DEF removeElement, progVars
<1> QED
  BY <1>2, <1>3, <1>4, <1>5, <1>6, <1>7

LEMMA mem_newFrame ==
  ASSUME IInv, NEW t \in Threads, NEW o \in Node, mem_new(t, o)
  PROVE  ProgramFrame({o})
<1>1. t \in Live /\ o \notin alloc /\ o \in Obj /\ o \notin Sym \cup {Vm, Main} /\ gcstate \notin InAtomic
  BY HeldIsLive, KindsAreDisjoint DEF mem_new, IInv, Runs, Obj
<1>2. /\ color'[o] = currentwhite /\ \A x \in Obj \ {o} : color'[x] = color[x]
      /\ \A x \in Obj : refs'[x] \subseteq refs[x] \cup {o} /\ (x \notin Threads => refs'[x] = refs[x])
  BY <1>1 DEF mem_new, IInv, Types
<1>3. unswept \subseteq unswept' /\ UNCHANGED <<gcstate, gcmode, gcnextmode, gcbarrieron, currentwhite>>
  BY LinkedAhead DEF mem_new, cycleVars, ListStates, IInv
<1>4. alloc' = alloc \cup {o} /\ UNCHANGED <<gray, old, building, doomed>>
  BY DEF mem_new, progVars
<1> QED
  BY <1>1, <1>2, <1>3, <1>4 DEF ProgramFrame

LEMMA newSymFrame ==
  ASSUME IInv, NEW t \in Threads, NEW s \in Sym,
         newSymFound(t, s) \/ newSymGrows(t, s) \/ newSymAdded(t, s)
  PROVE  \E N : ProgramFrame(N)
<1>1. CASE newSymFound(t, s)
  <2>1. s \in alloc /\ building = {} /\ alloc' = alloc \cup {s} /\ gcstate \notin InAtomic
    BY <1>1 DEF newSymFound, Runs
  <2> QED
    BY <1>1, <2>1, SymFrame DEF newSymFound, mem_keepalive, progVars
<1>2. CASE newSymAdded(t, s)
  BY <1>2, SymFrame DEF newSymAdded
<1>3. CASE newSymGrows(t, s)
  <2>1. UNCHANGED <<alloc, refs, lists, color, gray, cycleVars, sweepVars, doomed>>
        /\ building' = {<<t, s>>}
    BY <1>3 DEF newSymGrows
  <2>2. \A x \in Obj : old'[x] = (old[x] /\ x \notin alloc \cap Sym)
    BY <1>3 DEF newSymGrows, sym_resize_tbl
  <2>3. \A x \in Obj \ Sym : old'[x] = old[x]
    BY <2>2 DEF IInv, Types
  <2>4. \A x \in Sym : old'[x] => old[x]
    BY <2>2 DEF Obj
  <2>5. UNCHANGED <<unswept, gcstate, gcmode, gcnextmode, gcbarrieron, currentwhite>>
    BY <2>1 DEF unswept, ahead, sweepVars, cycleVars
  <2>6. ProgramFrame({})
    BY <2>1, <2>3, <2>4, <2>5 DEF ProgramFrame
  <2> QED
    BY <2>6
<1> QED
  BY <1>1, <1>2, <1>3

LEMMA newThreadFrame ==
  ASSUME IInv, NEW t \in Threads, NEW n \in Thr, newThread(t, n) \/ thrInit(t, n)
  PROVE  \E N : ProgramFrame(N)
<1>1. CASE newThread(t, n)
  <2>1. n \notin alloc /\ n \in Obj /\ n \notin Sym \cup {Vm, Main} /\ gcstate \notin InAtomic
    BY <1>1, KindsAreDisjoint DEF newThread, Runs, Obj, Threads
  <2>2. color'[n] = currentwhite /\ \A x \in Obj \ {n} : color'[x] = color[x]
    BY <1>1, <2>1 DEF newThread, IInv, Types
  <2>3. unswept \subseteq unswept' /\ UNCHANGED <<gcstate, gcmode, gcnextmode, gcbarrieron, currentwhite>>
    BY <1>1, LinkedAhead DEF newThread, cycleVars, ListStates, IInv
  <2>4. alloc' = alloc \cup {n} /\ building' = {<<t, n>>} /\ UNCHANGED <<refs, gray, old, doomed>>
    BY <1>1 DEF newThread
  <2>5. ProgramFrame({n})
    BY <2>1, <2>2, <2>3, <2>4 DEF ProgramFrame
  <2> QED
    BY <2>5
<1>2. CASE thrInit(t, n)
  <2>1. building = {<<t, n>>} /\ building' = {} /\ n \in alloc /\ t \in Live
    BY <1>2 DEF thrInit, IInv, Building
  <2>2. n \in settingUp /\ refs[t] \subseteq Live /\ t \in Obj /\ n \in Obj
    BY <2>1, LiveClosed DEF settingUp, IInv, Obj, Threads
  <2>3. \A x \in Obj : refs'[x] \subseteq refs[x] \cup Live \cup settingUp
                       /\ (x \notin Threads => refs'[x] = refs[x])
    <3>1. PICK parms \in SUBSET refs[t] : refs' = [refs EXCEPT ![n] = parms, ![t] = @ \cup {n}]
      BY <1>2 DEF thrInit
    <3> QED
      BY <2>2, <3>1 DEF IInv, Types, Threads
  <2>4. UNCHANGED <<unswept, gcstate, gcmode, gcnextmode, gcbarrieron, currentwhite, color, old, gray, alloc, doomed>>
    BY <1>2 DEF thrInit, unswept, ahead, sweepVars, cycleVars, markVars
  <2>5. ProgramFrame({})
    BY <2>1, <2>3, <2>4 DEF ProgramFrame
  <2> QED
    BY <2>5
<1> QED
  BY <1>1, <1>2

LEMMA mem_gcfullFrame ==
  ASSUME NEW mode \in FullRequests, mem_gcfull(mode)
  PROVE  ProgramFrame({})
<1>1. UNCHANGED <<unswept, gcstate, gcmode, gcbarrieron, currentwhite, alloc, refs, color, old, gray, building, doomed>>
  BY DEF mem_gcfull, unswept, ahead, sweepVars, heapVars, markVars
<1>2. gcnextmode' = gcnextmode \/ gcstate \notin SweepStates
  BY DEF mem_gcfull
<1> QED
  BY <1>1, <1>2 DEF ProgramFrame

\* Every step of the program has the frame.
LEMMA MutatorFrame ==
  ASSUME IInv, Mutator
  PROVE  \E N : ProgramFrame(N)
<1>1. ASSUME NEW t \in Threads, NEW v \in Obj,
             \/ pushValue(t, v) \/ popValue(t, v)
             \/ \E u \in Threads : copyToStack(t, u, v)
             \/ \E p \in Node : setElement(t, p, v) \/ removeElement(t, p, v)
      PROVE  \E N : ProgramFrame(N)
  BY <1>1, storesFrame
<1>2. ASSUME NEW t \in Threads,
             \/ callMorCPrep(t)
             \/ \E o \in Node : mem_new(t, o)
             \/ \E s \in Sym : newSymFound(t, s) \/ newSymGrows(t, s) \/ newSymAdded(t, s)
             \/ \E n \in Thr : newThread(t, n) \/ thrInit(t, n)
      PROVE  \E N : ProgramFrame(N)
  <2>1. Vm \in Obj
    BY DEF Obj
  <2> QED
    BY <1>2, <2>1, storesFrame, mem_newFrame, newSymFrame, newThreadFrame
<1> QED
  BY <1>1, <1>2, mem_gcfullFrame DEF Mutator

-----------------------------------------------------------------------------
(***************************************************************************)
(* The lists and their old objects.                                        *)
(***************************************************************************)
\* The elements of a list, and where the sweep of it is.
LEMMA ListFacts ==
  ASSUME IInv, Listed, NEW k \in ListStates
  PROVE  /\ lists[k] \in Seq(Node \cup Thr) /\ Len(lists[k]) \in Nat
         /\ \A i \in 1 .. Len(lists[k]) : lists[k][i] \in (Node \cup Thr) \cap alloc
         /\ \A i, j \in 1 .. Len(lists[k]) : lists[k][i] = lists[k][j] => i = j
         /\ position(k) \in 0 .. Len(lists[k])
<1>1. lists[k] \in Seq(Node \cup Thr)
  BY DEF IInv, Types
<1>2. DOMAIN lists[k] = 1 .. Len(lists[k]) /\ Len(lists[k]) \in Nat
  BY <1>1
<1>3. \A i \in 1 .. Len(lists[k]) : lists[k][i] \in ToSet(lists[k])
  BY <1>2 DEF ToSet
<1>4. ToSet(lists[k]) \subseteq (Node \cup Thr) \cap alloc
  BY DEF Listed, ListStates
<1>5. IsInjective(lists[k])
  BY DEF Listed
<1>6. position(k) \in 0 .. Len(lists[k])
  BY <1>2 DEF position, Listed, IInv, Types, NULL
<1> QED
  BY <1>1, <1>2, <1>3, <1>4, <1>5, <1>6 DEF IsInjective

\* Steps that leave the lists, how far they are swept and who is old in them alone.
LEMMA ListsKept ==
  ASSUME IInv, Listed, Olds, lists' = lists,
         \A x \in Node \cup Thr : (x \in alloc' <=> x \in alloc) /\ old'[x] = old[x],
         \A x \in Obj \ (alloc' \cup Sym \cup {Main}) : ~old'[x],
         \A k \in ListStates : position(k)' = position(k)
                               /\ (position(k) # 0 => gcnextmode' = gcnextmode),
         sweepgc' # NULL => gcstate' \in ListStates /\ sweepgc' <= Len(lists[gcstate'])
  PROVE  Listed' /\ Olds'
<1>1. Listed'
  BY DEF Listed
<1>2. ASSUME NEW k \in ListStates
      PROVE  oldSuffix(lists[k], position(k))'
  <2>1. \A i \in position(k) + 1 .. Len(lists[k]) : lists[k][i] \in Node \cup Thr
    BY <1>2, ListFacts
  <2>2. oldSuffix(lists[k], position(k)) /\ position(k)' = position(k)
    BY DEF Olds
  <2> QED
    BY <2>1, <2>2 DEF oldSuffix
<1>3. ASSUME NEW k \in ListStates, NEW i \in 1 .. position(k), old'[lists[k][i]]
      PROVE  gcnextmode' = GC_GENMODE /\ \A j \in i .. position(k) : old'[lists[k][j]]
  <2>1. \A j \in 1 .. position(k) : lists[k][j] \in Node \cup Thr
    BY <1>3, ListFacts
  <2>2. \A j \in i .. position(k) : j \in 1 .. position(k)
    BY <1>3, ListFacts
  <2>3. position(k) # 0
    BY <1>3, ListFacts
  <2>4. old[lists[k][i]]
    BY <1>3, <2>1
  <2> QED
    BY <2>1, <2>2, <2>3, <2>4 DEF Olds
<1>4. \A k \in ListStates : position(k)' = position(k)
  OBVIOUS
<1>5. Olds'
  BY <1>2, <1>3, <1>4 DEF Olds
<1> QED
  BY <1>1, <1>5

\* A new object at the head of a list.
LEMMA LinkedLists ==
  ASSUME IInv, Listed, Olds, NEW k \in ListStates, NEW o \in Node \cup Thr, o \notin alloc,
         o \in Node <=> k = "sweep",
         lists' = [lists EXCEPT ![k] = linked(k, o)], sweepgc' = shifted(k),
         alloc' = alloc \cup {o}, UNCHANGED <<gcstate, gcnextmode, old>>
  PROVE  Listed' /\ Olds'
<1> DEFINE c == lists[k]
<1>1. /\ c \in Seq(Node \cup Thr) /\ Len(c) \in Nat
      /\ \A i \in 1 .. Len(c) : c[i] \in (Node \cup Thr) \cap alloc
      /\ \A i, j \in 1 .. Len(c) : c[i] = c[j] => i = j
  BY ListFacts
<1>2. lists'[k] = <<o>> \o c /\ \A h \in ListStates \ {k} : lists'[h] = lists[h]
  BY DEF linked, IInv, Types
<1>3. /\ lists'[k] \in Seq(Node \cup Thr) /\ Len(lists'[k]) = Len(c) + 1 /\ lists'[k][1] = o
      /\ \A i \in 1 .. Len(c) : lists'[k][i + 1] = c[i]
  <2>1. <<o>> \in Seq(Node \cup Thr) /\ Len(<<o>>) = 1 /\ <<o>>[1] = o
    OBVIOUS
  <2>2. <<o>> \o c \in Seq(Node \cup Thr) /\ Len(<<o>> \o c) = 1 + Len(c)
    BY <1>1, <2>1, ConcatProperties
  <2>3. \A i \in 1 .. 1 + Len(c) : (<<o>> \o c)[i] = IF i <= 1 THEN <<o>>[i] ELSE c[i - 1]
    BY <1>1
  <2> HIDE DEF c
  <2>4. (<<o>> \o c)[1] = o
    BY <1>1, <2>3
  <2>5. \A i \in 1 .. Len(c) : (<<o>> \o c)[i + 1] = c[i]
    BY <1>1, <2>3
  <2>6. lists'[k] = <<o>> \o c
    BY <1>2
  <2>7. 1 + Len(c) = Len(c) + 1
    BY <1>1
  <2> QED
    BY <2>2, <2>4, <2>5, <2>6, <2>7
<1>4. \A i \in 2 .. Len(lists'[k]) : i - 1 \in 1 .. Len(c) /\ lists'[k][i] = c[i - 1]
  <2> TAKE i \in 2 .. Len(lists'[k])
  <2>1. i - 1 \in 1 .. Len(c) /\ (i - 1) + 1 = i
    BY <1>1, <1>3
  <2> QED
    BY <1>3, <2>1
<1>5. \A i \in 1 .. Len(lists'[k]) : i = 1 \/ i \in 2 .. Len(lists'[k])
  BY <1>1, <1>3
<1>6. Listed'
  <2>1. lists'["sweep"] \in Seq(Node) /\ lists'["sweepthread"] \in Seq(Thr)
    <3>1. CASE k = "sweep"
      <4>1. o \in Node /\ c \in Seq(Node)
        BY <3>1 DEF Listed
      <4>2. <<o>> \o c \in Seq(Node)
        BY <4>1
      <4> QED
        BY <1>2, <3>1, <4>2 DEF Listed, ListStates
    <3>2. CASE k = "sweepthread"
      <4>1. o \in Thr /\ c \in Seq(Thr)
        BY <3>2 DEF Listed
      <4>2. <<o>> \o c \in Seq(Thr)
        BY <4>1
      <4> QED
        BY <1>2, <3>2, <4>2 DEF Listed, ListStates
    <3> QED
      BY <3>1, <3>2 DEF ListStates
  <2>2. ToSet(lists'[k]) = ToSet(c) \cup {o}
    <3>1. DOMAIN c = 1 .. Len(c) /\ DOMAIN lists'[k] = 1 .. Len(lists'[k]) /\ 1 \in 1 .. Len(lists'[k])
      BY <1>1, <1>3
    <3>2. \A i \in 1 .. Len(c) : i + 1 \in 1 .. Len(lists'[k])
      BY <1>1, <1>3
    <3> HIDE DEF c
    <3>3. ToSet(lists'[k]) \subseteq ToSet(c) \cup {o}
      <4> SUFFICES ASSUME NEW i \in 1 .. Len(lists'[k])
                   PROVE  lists'[k][i] \in ToSet(c) \cup {o}
        BY <3>1 DEF ToSet
      <4>1. CASE i = 1
        BY <1>3, <4>1
      <4>2. CASE i # 1
        BY <1>4, <1>5, <3>1, <4>2 DEF ToSet
      <4> QED
        BY <4>1, <4>2
    <3>4. ToSet(c) \cup {o} \subseteq ToSet(lists'[k])
      BY <1>3, <3>1, <3>2 DEF ToSet
    <3> QED
      BY <3>3, <3>4
  <2>3. \A h \in ListStates \ {k} : ToSet(lists'[h]) = ToSet(lists[h])
    BY <1>2
  <2>4. /\ ToSet(lists'["sweep"]) = alloc' \cap Node
        /\ ToSet(lists'["sweepthread"]) = alloc' \cap Thr
    BY <2>2, <2>3, KindsAreDisjoint DEF Listed, ListStates
  <2>5. IsInjective(lists'[k])
    <3> SUFFICES ASSUME NEW i \in 1 .. Len(lists'[k]), NEW j \in 1 .. Len(lists'[k]),
                        lists'[k][i] = lists'[k][j]
                 PROVE  i = j
      <4>1. DOMAIN lists'[k] = 1 .. Len(lists'[k])
        BY <1>3
      <4> QED
        BY <4>1 DEF IsInjective
    <3>1. CASE i = 1 \/ j = 1
      BY <1>1, <1>3, <1>4, <1>5, <3>1
    <3>2. CASE i # 1 /\ j # 1
      <4>1. i - 1 = j - 1
        BY <1>1, <1>4, <1>5, <3>2
      <4> QED
        BY <1>3, <4>1
    <3> QED
      BY <3>1, <3>2
  <2>6. \A h \in ListStates : IsInjective(lists'[h])
    BY <1>2, <2>5 DEF Listed
  <2>7. sweepgc' # NULL => gcstate' \in ListStates /\ sweepgc' <= Len(lists'[gcstate])
    <3>1. sweepgc' = IF gcstate = k /\ sweepgc > 0 THEN sweepgc + 1 ELSE sweepgc
      BY DEF shifted
    <3>2. CASE sweepgc = NULL
      BY <3>1, <3>2 DEF NULL
    <3>3. CASE sweepgc # NULL
      <4>1. sweepgc \in Nat /\ gcstate \in ListStates /\ sweepgc <= Len(lists[gcstate])
        BY <3>3 DEF Listed, IInv, Types
      <4> QED
        BY <1>1, <1>2, <1>3, <3>1, <4>1
    <3> QED
      BY <3>2, <3>3
  <2> QED
    BY <2>1, <2>4, <2>6, <2>7 DEF Listed
<1>7. /\ position(k)' = IF position(k) = 0 THEN 0 ELSE position(k) + 1
      /\ \A h \in ListStates \ {k} : position(h)' = position(h)
      /\ position(k) \in 0 .. Len(c)
  <2>1. sweepgc \in {NULL} \cup Nat
    BY DEF IInv, Types
  <2> QED
    BY <2>1, ListFacts DEF position, shifted, NULL
<1>8. ~old[o]
  BY KindsAreDisjoint DEF Olds, Obj, Threads
<1>9. oldSuffix(lists'[k], position(k)')
  <2> SUFFICES ASSUME NEW i \in position(k)' + 1 .. Len(lists'[k]),
                      NEW j \in position(k)' + 1 .. Len(lists'[k]),
                      i < j, old[lists'[k][i]]
               PROVE  old[lists'[k][j]]
    BY DEF oldSuffix
  <2>1. i \in 2 .. Len(lists'[k]) /\ j \in 2 .. Len(lists'[k])
    <3>1. i \in 1 .. Len(lists'[k]) /\ i # 1 /\ j \in Nat /\ j <= Len(lists'[k])
      BY <1>1, <1>3, <1>7, <1>8
    <3> QED
      BY <1>1, <1>3, <3>1
  <2>2. lists'[k][i] = c[i - 1] /\ lists'[k][j] = c[j - 1]
    BY <1>4, <2>1
  <2>3. i - 1 \in position(k) + 1 .. Len(c) /\ j - 1 \in position(k) + 1 .. Len(c) /\ i - 1 < j - 1
    BY <1>1, <1>3, <1>7, <2>1
  <2>4. oldSuffix(c, position(k))
    BY DEF Olds
  <2> QED
    BY <2>2, <2>3, <2>4 DEF oldSuffix
<1>10. ASSUME NEW i \in 1 .. position(k)', old[lists'[k][i]]
       PROVE  gcnextmode = GC_GENMODE /\ \A j \in i .. position(k)' : old[lists'[k][j]]
  <2>1. position(k) # 0 /\ position(k)' = position(k) + 1 /\ position(k)' <= Len(lists'[k])
    BY <1>1, <1>3, <1>7
  <2>2. i # 1
    BY <1>3, <1>8, <1>10
  <2>3. i \in 2 .. Len(lists'[k]) /\ i - 1 \in 1 .. position(k)
    BY <1>1, <1>3, <1>7, <2>1, <2>2
  <2>4. gcnextmode = GC_GENMODE /\ \A j \in i - 1 .. position(k) : old[c[j]]
    BY <1>4, <1>10, <2>3 DEF Olds
  <2>5. \A j \in i .. position(k)' : j \in 2 .. Len(lists'[k]) /\ j - 1 \in i - 1 .. position(k)
    BY <1>1, <1>3, <1>7, <2>1, <2>3
  <2> QED
    BY <1>4, <2>4, <2>5
<1>11. Olds'
  <2>1. \A x \in Obj \ (alloc' \cup Sym \cup {Main}) : ~old'[x]
    BY DEF Olds
  <2>2. \A h \in ListStates : oldSuffix(lists'[h], position(h)')
    BY <1>2, <1>7, <1>9 DEF Olds
  <2>3. \A h \in ListStates : oldSuffix(lists[h], position(h))'
    BY <2>2 DEF oldSuffix
  <2>4. \A h \in ListStates : \A i \in 1 .. position(h)' : old'[lists'[h][i]] =>
          gcnextmode' = GC_GENMODE /\ \A j \in i .. position(h)' : old'[lists'[h][j]]
    BY <1>2, <1>7, <1>10 DEF Olds
  <2> QED
    BY <2>1, <2>3, <2>4 DEF Olds
<1> QED
  BY <1>6, <1>11

\* The element i of c taken out: who is where, and who is left.
LEMMA RemoveAtIndex ==
  ASSUME NEW S, NEW c \in Seq(S), NEW i \in 1 .. Len(c),
         \A a, b \in 1 .. Len(c) : c[a] = c[b] => a = b
  PROVE  /\ RemoveAt(c, i) \in Seq(S) /\ Len(RemoveAt(c, i)) = Len(c) - 1
         /\ \A j \in 1 .. Len(c) - 1 : RemoveAt(c, i)[j] = c[IF j < i THEN j ELSE j + 1]
         /\ ToSet(RemoveAt(c, i)) = ToSet(c) \ {c[i]}
         /\ IsInjective(RemoveAt(c, i))
<1>1. /\ RemoveAt(c, i) \in Seq(S) /\ Len(RemoveAt(c, i)) = Len(c) - 1 /\ Len(c) \in Nat
      /\ \A j \in 1 .. i - 1 : RemoveAt(c, i)[j] = c[j]
      /\ \A j \in i + 1 .. Len(c) : j - 1 \in i .. Len(c) - 1 /\ RemoveAt(c, i)[j - 1] = c[j]
  BY RemoveAtElements
<1> PICK d : d = RemoveAt(c, i)
  OBVIOUS
<1>2. \A j \in 1 .. Len(c) - 1 : d[j] = c[IF j < i THEN j ELSE j + 1]
  <2> TAKE j \in 1 .. Len(c) - 1
  <2>1. CASE j < i
    <3>1. j \in 1 .. i - 1
      BY <1>1, <2>1
    <3> QED
      BY <1>1, <2>1, <3>1
  <2>2. CASE ~(j < i)
    <3>1. j + 1 \in i + 1 .. Len(c) /\ (j + 1) - 1 = j
      BY <1>1, <2>2
    <3> QED
      BY <1>1, <2>2, <3>1
  <2> QED
    BY <2>1, <2>2
<1>3. DOMAIN c = 1 .. Len(c) /\ DOMAIN d = 1 .. Len(c) - 1
  BY <1>1
<1>4. \A j \in 1 .. Len(c) - 1 : /\ (IF j < i THEN j ELSE j + 1) \in 1 .. Len(c)
                                 /\ (IF j < i THEN j ELSE j + 1) # i
  BY <1>1
<1>5. ToSet(d) \subseteq ToSet(c) \ {c[i]}
  <2> SUFFICES ASSUME NEW j \in 1 .. Len(c) - 1
               PROVE  d[j] \in ToSet(c) \ {c[i]}
    BY <1>3 DEF ToSet
  <2> PICK n \in 1 .. Len(c) : n = (IF j < i THEN j ELSE j + 1) /\ n # i
    BY <1>4
  <2> QED
    BY <1>2, <1>3 DEF ToSet
<1>6. ToSet(c) \ {c[i]} \subseteq ToSet(d)
  <2> SUFFICES ASSUME NEW j \in 1 .. Len(c), j # i
               PROVE  c[j] \in ToSet(d)
    BY <1>3 DEF ToSet
  <2>1. CASE j < i
    <3>1. j \in 1 .. i - 1 /\ j \in DOMAIN d
      BY <1>1, <1>3, <2>1
    <3> QED
      BY <1>1, <3>1 DEF ToSet
  <2>2. CASE j > i
    <3>1. j \in i + 1 .. Len(c)
      BY <1>1, <2>2
    <3>2. j - 1 \in DOMAIN d /\ d[j - 1] = c[j]
      BY <1>1, <1>3, <3>1
    <3> QED
      BY <3>2 DEF ToSet
  <2> QED
    BY <1>1, <2>1, <2>2
<1>7. IsInjective(d)
  <2> SUFFICES ASSUME NEW a \in 1 .. Len(c) - 1, NEW b \in 1 .. Len(c) - 1, d[a] = d[b]
               PROVE  a = b
    BY <1>3 DEF IsInjective
  <2> PICK m \in 1 .. Len(c) : m = (IF a < i THEN a ELSE a + 1)
    BY <1>4
  <2> PICK n \in 1 .. Len(c) : n = (IF b < i THEN b ELSE b + 1)
    BY <1>4
  <2>1. m = n
    BY <1>2
  <2> QED
    BY <1>1, <2>1
<1> QED
  BY <1>1, <1>2, <1>5, <1>6, <1>7

\* What the sweep of one element does.
LEMMA SweptElement ==
  ASSUME IInv, Listed, SweepElement
  PROVE  \E o \in Node \cup Thr : \E i \in 1 .. Len(lists[gcstate]) :
           /\ gcstate \in ListStates /\ sweepgc # NULL /\ i = sweepgc + 1 /\ o = lists[gcstate][i]
           /\ o \in alloc /\ ~stopsAt(o)
           /\ alloc' = IF isdead(o) THEN alloc \ {o} ELSE alloc
           /\ \A x \in Obj : x # o => /\ old'[x] = old[x] /\ color'[x] = color[x]
                                      /\ refs'[x] = refs[x]
           /\ old'[o] <=> ~isdead(o) /\ gcnextmode = GC_GENMODE
           /\ ~isdead(o) => refs'[o] = refs[o] /\
                            color'[o] = IF gcnextmode = GC_GENMODE THEN color[o] ELSE currentwhite
           /\ isdead(o) => refs'[o] = {} /\ color'[o] = "white0"
           /\ doomed' = IF isdead(o) THEN doomed \ {o} ELSE doomed
           /\ IF isdead(o) THEN lists' = [lists EXCEPT ![gcstate] = RemoveAt(lists[gcstate], i)] /\ sweepgc' = sweepgc
                           ELSE lists' = lists /\ sweepgc' = i
           /\ UNCHANGED <<gray, gcstate, gcmode, gcnextmode, gcbarrieron, currentwhite, building>>
<1> DEFINE i == sweepgc + 1
           o == lists[gcstate][i]
<1>1. /\ gcstate \in ListStates /\ sweepgc # NULL /\ sweepgc < Len(lists[gcstate]) /\ ~stopsAt(o)
      /\ sweepobjs({o})
      /\ UNCHANGED <<gray, gcstate, gcmode, gcnextmode, gcbarrieron, currentwhite, building>>
      /\ IF isdead(o) THEN lists' = [lists EXCEPT ![gcstate] = RemoveAt(lists[gcstate], i)] /\ sweepgc' = sweepgc
                      ELSE lists' = lists /\ sweepgc' = i
  BY DEF SweepElement, progVars, IInv, Types
<1>2. i \in 1 .. Len(lists[gcstate])
  BY <1>1, ListFacts DEF IInv, Types
<1>3. o \in (Node \cup Thr) \cap alloc /\ o \in Obj
  BY <1>1, <1>2, ListFacts DEF Obj, Threads
<1> PICK n : n = i
  OBVIOUS
<1> PICK e : e = o
  OBVIOUS
<1> HIDE DEF i, o
<1>4. /\ alloc' = IF isdead(e) THEN alloc \ {e} ELSE alloc
      /\ doomed' = IF isdead(e) THEN doomed \ {e} ELSE doomed
  BY <1>1 DEF sweepobjs
<1>5. \A x \in Obj : x # e => old'[x] = old[x] /\ color'[x] = color[x] /\ refs'[x] = refs[x]
  BY <1>1 DEF sweepobjs
<1>6. /\ old'[e] <=> ~isdead(e) /\ gcnextmode = GC_GENMODE
      /\ ~isdead(e) => refs'[e] = refs[e] /\
                       color'[e] = IF gcnextmode = GC_GENMODE THEN color[e] ELSE currentwhite
      /\ isdead(e) => refs'[e] = {} /\ color'[e] = "white0"
  BY <1>1, <1>3 DEF sweepobjs
<1>7. n = sweepgc + 1 /\ e = lists[gcstate][n]
  BY DEF i, o
<1>8. /\ gcstate \in ListStates /\ sweepgc # NULL /\ ~stopsAt(e)
      /\ IF isdead(e) THEN lists' = [lists EXCEPT ![gcstate] = RemoveAt(lists[gcstate], n)] /\ sweepgc' = sweepgc
                      ELSE lists' = lists /\ sweepgc' = n
      /\ UNCHANGED <<gray, gcstate, gcmode, gcnextmode, gcbarrieron, currentwhite, building>>
  BY <1>1
<1>9. n \in 1 .. Len(lists[gcstate]) /\ e \in Node \cup Thr /\ e \in alloc
  BY <1>2, <1>3
<1> USE <1>9
<1> WITNESS e \in Node \cup Thr
<1> WITNESS n \in 1 .. Len(lists[gcstate])
<1> QED
  BY <1>4, <1>5, <1>6, <1>7, <1>8, <1>9

LEMMA SweepElementLists ==
  ASSUME IInv, Listed, Olds, SweepElement
  PROVE  Listed' /\ Olds'
<1> PICK k \in ListStates : k = gcstate
  BY SweptElement
<1> PICK c : c = lists[k]
  OBVIOUS
<1>1. PICK o \in Node \cup Thr, i \in 1 .. Len(c) :
           /\ sweepgc # NULL /\ i = sweepgc + 1 /\ o = c[i]
           /\ o \in alloc /\ ~stopsAt(o)
           /\ alloc' = IF isdead(o) THEN alloc \ {o} ELSE alloc
           /\ \A x \in Obj : x # o => old'[x] = old[x]
           /\ old'[o] <=> ~isdead(o) /\ gcnextmode = GC_GENMODE
           /\ IF isdead(o) THEN lists' = [lists EXCEPT ![k] = RemoveAt(c, i)] /\ sweepgc' = sweepgc
                           ELSE lists' = lists /\ sweepgc' = i
           /\ UNCHANGED <<gcstate, gcnextmode>>
  BY SweptElement
<1>2. /\ c \in Seq(Node \cup Thr) /\ Len(c) \in Nat
      /\ \A j \in 1 .. Len(c) : c[j] \in (Node \cup Thr) \cap alloc
      /\ \A a, b \in 1 .. Len(c) : c[a] = c[b] => a = b
      /\ sweepgc \in Nat /\ position(k) = sweepgc /\ position(k)' = sweepgc'
      /\ \A h \in ListStates \ {k} : position(h) = 0 /\ position(h)' = 0
  <2>1. sweepgc \in Nat /\ sweepgc' # NULL
    BY <1>1 DEF IInv, Types, NULL
  <2> QED
    BY <1>1, <2>1, ListFacts DEF position
<1> PICK p \in Nat : p = sweepgc
  BY <1>2
<1>3. \A j \in 1 .. Len(c) : j # i => c[j] # o /\ c[j] \in Obj /\ old'[c[j]] = old[c[j]]
  BY <1>1, <1>2 DEF Obj, Threads
<1>4. /\ oldSuffix(c, p)
      /\ \A a \in 1 .. p : old[c[a]] => gcnextmode = GC_GENMODE /\ \A j \in a .. p : old[c[j]]
      /\ \A x \in Obj \ (alloc \cup Sym \cup {Main}) : ~old[x]
  BY <1>2 DEF Olds
<1>5. \A x \in Obj \ (alloc' \cup Sym \cup {Main}) : ~old'[x]
  BY <1>1, <1>4
<1>6. CASE isdead(o)
  <2> PICK d : d = RemoveAt(c, i)
    OBVIOUS
  <2>1. /\ d \in Seq(Node \cup Thr) /\ Len(d) = Len(c) - 1 /\ IsInjective(d)
        /\ \A j \in 1 .. Len(c) - 1 : d[j] = c[IF j < i THEN j ELSE j + 1]
        /\ ToSet(d) = ToSet(c) \ {o}
    <3>1. /\ RemoveAt(c, i) \in Seq(Node \cup Thr) /\ Len(RemoveAt(c, i)) = Len(c) - 1
          /\ \A j \in 1 .. Len(c) - 1 : RemoveAt(c, i)[j] = c[IF j < i THEN j ELSE j + 1]
          /\ ToSet(RemoveAt(c, i)) = ToSet(c) \ {c[i]}
          /\ IsInjective(RemoveAt(c, i))
      <4>1. c \in Seq(Node \cup Thr) /\ i \in 1 .. Len(c)
        BY <1>2
      <4>2. \A a, b \in 1 .. Len(c) : c[a] = c[b] => a = b
        BY <1>2
      <4> QED
        BY ONLY <4>1, <4>2, RemoveAtIndex
    <3>2. c[i] = o
      BY <1>1
    <3> QED
      BY <3>1, <3>2
  <2>2. /\ lists'[k] = d /\ \A h \in ListStates \ {k} : lists'[h] = lists[h]
        /\ alloc' = alloc \ {o} /\ sweepgc' = p
    BY <1>1, <1>6 DEF IInv, Types
  <2>3. Listed'
    <3>1. lists'["sweep"] \in Seq(Node) /\ lists'["sweepthread"] \in Seq(Thr)
      <4>1. CASE k = "sweep"
        <5>1. d \in Seq(Node)
          BY <1>2, <4>1, RemoveAtIndex DEF Listed
        <5> QED
          BY <2>2, <4>1, <5>1 DEF Listed, ListStates
      <4>2. CASE k = "sweepthread"
        <5>1. d \in Seq(Thr)
          BY <1>2, <4>2, RemoveAtIndex DEF Listed
        <5> QED
          BY <2>2, <4>2, <5>1 DEF Listed, ListStates
      <4> QED
        BY <4>1, <4>2 DEF ListStates
    <3>2. /\ ToSet(lists'["sweep"]) = alloc' \cap Node
          /\ ToSet(lists'["sweepthread"]) = alloc' \cap Thr
      <4>1. o \in ToSet(c)
        BY <1>1, <1>2 DEF ToSet
      <4> QED
        BY <2>1, <2>2, <4>1, KindsAreDisjoint DEF Listed, ListStates
    <3>3. \A h \in ListStates : IsInjective(lists'[h])
      BY <2>1, <2>2 DEF Listed
    <3>4. sweepgc' <= Len(lists'[gcstate'])
      BY <1>1, <1>2, <2>1, <2>2
    <3> QED
      BY <1>1, <3>1, <3>2, <3>3, <3>4 DEF Listed
  <2>4. oldSuffix(d, p)'
    <3> SUFFICES ASSUME NEW a \in p + 1 .. Len(d), NEW b \in p + 1 .. Len(d), a < b, old'[d[a]]
                 PROVE  old'[d[b]]
      BY DEF oldSuffix
    <3>1. /\ a + 1 \in p + 1 .. Len(c) /\ b + 1 \in p + 1 .. Len(c) /\ a + 1 < b + 1
          /\ a + 1 # i /\ b + 1 # i /\ d[a] = c[a + 1] /\ d[b] = c[b + 1]
      <4>1. a \in 1 .. Len(c) - 1 /\ b \in 1 .. Len(c) - 1 /\ ~(a < i) /\ ~(b < i) /\ i = p + 1
        BY <1>1, <1>2, <2>1
      <4>2. d[a] = c[a + 1] /\ d[b] = c[b + 1]
        BY <2>1, <4>1
      <4>3. a + 1 \in p + 1 .. Len(c) /\ b + 1 \in p + 1 .. Len(c) /\ a + 1 < b + 1
        BY <1>2, <4>1
      <4>4. a + 1 # i /\ b + 1 # i
        BY <1>2, <4>1
      <4> QED
        BY <4>2, <4>3, <4>4
    <3>2. a + 1 \in 1 .. Len(c) /\ b + 1 \in 1 .. Len(c)
      BY <3>1, <1>2
    <3>3. old[c[a + 1]]
      BY <1>3, <3>1, <3>2
    <3>4. old[c[b + 1]]
      BY <1>4, <3>1, <3>3 DEF oldSuffix
    <3> QED
      BY <1>3, <3>1, <3>2, <3>4
  <2>5. ASSUME NEW a \in 1 .. p, old'[d[a]]
        PROVE  gcnextmode = GC_GENMODE /\ \A j \in a .. p : old'[d[j]]
    <3>1. \A j \in 1 .. p : j \in 1 .. Len(c) /\ j # i /\ d[j] = c[j]
      <4> TAKE j \in 1 .. p
      <4>1. j \in 1 .. Len(c) - 1 /\ j < i /\ j # i /\ j \in 1 .. Len(c)
        BY <1>1, <1>2
      <4> QED
        BY <2>1, <4>1
    <3>2. old[c[a]]
      BY <1>3, <2>5, <3>1
    <3>3. gcnextmode = GC_GENMODE /\ \A j \in a .. p : j \in 1 .. p /\ old[c[j]]
      BY <1>4, <3>2
    <3> QED
      BY <1>3, <3>1, <3>3
  <2>6. \A h \in ListStates : oldSuffix(lists[h], position(h))'
    <3>1. \A h \in ListStates \ {k} : oldSuffix(lists[h], 0)
      BY <1>2 DEF Olds
    <3>2. \A h \in ListStates \ {k} : \A a \in 1 .. Len(lists[h]) : lists[h][a] \in Obj /\ lists[h][a] # o
      <4> SUFFICES ASSUME NEW h \in ListStates \ {k}, NEW a \in 1 .. Len(lists[h])
                   PROVE  lists[h][a] \in Obj /\ lists[h][a] # o
        OBVIOUS
      <4>1. lists[h][a] \in Node \cup Thr /\ lists[h][a] \in ToSet(lists[h])
        BY ListFacts DEF ToSet
      <4>2. o \in ToSet(c)
        BY <1>1, <1>2 DEF ToSet
      <4> QED
        BY <4>1, <4>2, KindsAreDisjoint DEF Listed, ListStates, Obj, Threads
    <3>3. \A h \in ListStates \ {k} : oldSuffix(lists[h], 0)'
      BY <1>1, <2>2, <3>1, <3>2 DEF oldSuffix
    <3> QED
      BY <1>2, <2>2, <2>4, <3>3 DEF oldSuffix
  <2>7. \A h \in ListStates : \A a \in 1 .. position(h)' : old'[lists'[h][a]] =>
          gcnextmode' = GC_GENMODE /\ \A j \in a .. position(h)' : old'[lists'[h][j]]
    BY <1>1, <1>2, <2>2, <2>5
  <2> QED
    BY <1>5, <2>3, <2>6, <2>7 DEF Olds
<1>7. CASE ~isdead(o)
  <2>1. lists' = lists /\ sweepgc' = i /\ alloc' = alloc /\ gcstate' = k
        /\ (old'[o] <=> gcnextmode = GC_GENMODE)
    BY <1>1, <1>7
  <2>2. Listed'
    BY <1>1, <1>2, <2>1 DEF Listed
  <2>3. i = p + 1 /\ c[i] = o
    BY <1>1
  <2>4. oldSuffix(c, i)'
    <3> SUFFICES ASSUME NEW a \in i + 1 .. Len(c), NEW b \in i + 1 .. Len(c), a < b, old'[c[a]]
                 PROVE  old'[c[b]]
      BY DEF oldSuffix
    <3>1. a \in p + 1 .. Len(c) /\ b \in p + 1 .. Len(c) /\ a \in 1 .. Len(c) /\ b \in 1 .. Len(c)
          /\ a # i /\ b # i
      BY <1>2, <2>3
    <3> QED
      BY <1>3, <1>4, <3>1 DEF oldSuffix
  <2>5. ASSUME NEW a \in 1 .. i, old'[c[a]]
        PROVE  gcnextmode = GC_GENMODE /\ \A j \in a .. i : old'[c[j]]
    <3>1. CASE a = i
      <4>1. \A j \in a .. i : j = i
        BY <3>1
      <4> QED
        BY <2>1, <2>3, <2>5, <3>1, <4>1
    <3>2. CASE a # i
      <4>1. a \in 1 .. p /\ a \in 1 .. Len(c)
        BY <1>2, <2>3, <3>2
      <4>2. gcnextmode = GC_GENMODE /\ \A j \in a .. p : old[c[j]]
        BY <1>3, <1>4, <2>5, <3>2, <4>1
      <4>3. \A j \in a .. i : j = i \/ (j # i /\ j \in a .. p /\ j \in 1 .. Len(c))
        BY <1>2, <2>3, <4>1
      <4> QED
        BY <1>3, <2>1, <2>3, <4>2, <4>3
    <3> QED
      BY <3>1, <3>2
  <2>6. \A h \in ListStates \ {k} : \A a \in 1 .. Len(lists[h]) : lists[h][a] \in Obj /\ lists[h][a] # o
    <3> SUFFICES ASSUME NEW h \in ListStates \ {k}, NEW a \in 1 .. Len(lists[h])
                 PROVE  lists[h][a] \in Obj /\ lists[h][a] # o
      OBVIOUS
    <3>1. lists[h][a] \in Node \cup Thr /\ lists[h][a] \in ToSet(lists[h])
      BY ListFacts DEF ToSet
    <3>2. o \in ToSet(c)
      BY <1>1, <1>2 DEF ToSet
    <3> QED
      BY <3>1, <3>2, KindsAreDisjoint DEF Listed, ListStates, Obj, Threads
  <2>7. \A h \in ListStates : oldSuffix(lists[h], position(h))'
    <3>1. \A h \in ListStates \ {k} : oldSuffix(lists[h], 0)
      BY <1>2 DEF Olds
    <3>2. \A h \in ListStates \ {k} : oldSuffix(lists[h], 0)'
      BY <1>1, <2>1, <2>6, <3>1 DEF oldSuffix
    <3> QED
      BY <1>2, <2>1, <2>4, <3>2 DEF oldSuffix
  <2>8. \A h \in ListStates : \A a \in 1 .. position(h)' : old'[lists'[h][a]] =>
          gcnextmode' = GC_GENMODE /\ \A j \in a .. position(h)' : old'[lists'[h][j]]
    BY <1>1, <1>2, <2>1, <2>5
  <2> QED
    BY <1>5, <2>2, <2>7, <2>8 DEF Olds
<1> QED
  BY <1>6, <1>7

\* The sweep of a list ends: at its end, or at an object behind which all are old.
LEMMA SweepListEndLists ==
  ASSUME IInv, Listed, Olds, SweepListEnd
  PROVE  Listed' /\ Olds'
<1>1. /\ gcstate \in ListStates /\ sweepgc # NULL /\ sweepgc' = NULL
      /\ \/ sweepgc = Len(lists[gcstate])
         \/ sweepgc < Len(lists[gcstate]) /\ old[lists[gcstate][sweepgc + 1]]
      /\ UNCHANGED <<lists, alloc, old, gcstate, gcnextmode>>
  BY DEF SweepListEnd, stopsAt, heapVars, markVars, cycleVars
<1> PICK k \in ListStates : k = gcstate
  BY <1>1
<1> PICK c : c = lists[k]
  OBVIOUS
<1> PICK p \in Nat : p = sweepgc
  BY <1>1 DEF IInv, Types
<1>2. Len(c) \in Nat /\ position(k) = p /\ p <= Len(c) /\ \A h \in ListStates \ {k} : position(h) = 0
  BY <1>1, ListFacts DEF position
<1>3. \A h \in ListStates : position(h)' = 0
  BY <1>1 DEF position
<1>4. /\ oldSuffix(c, p)
      /\ \A a \in 1 .. p : old[c[a]] => \A j \in a .. p : old[c[j]]
  BY <1>2 DEF Olds
<1>5. p = Len(c) \/ (p + 1 \in p + 1 .. Len(c) /\ old[c[p + 1]])
  BY <1>1, <1>2
<1>6. ASSUME NEW a \in 1 .. Len(c), NEW b \in 1 .. Len(c), a < b, old[c[a]]
      PROVE  old[c[b]]
  <2>1. CASE b <= p
    <3>1. a \in 1 .. p /\ b \in a .. p
      BY <1>2, <1>6, <2>1
    <3> QED
      BY <1>4, <1>6, <3>1
  <2>2. CASE a <= p /\ p < b
    <3>1. b \in p + 1 .. Len(c) /\ p # Len(c) /\ (b = p + 1 \/ p + 1 < b)
      BY <1>2, <2>2
    <3> QED
      BY <1>4, <1>5, <3>1 DEF oldSuffix
  <2>3. CASE p < a
    <3>1. a \in p + 1 .. Len(c) /\ b \in p + 1 .. Len(c)
      BY <1>2, <1>6, <2>3
    <3> QED
      BY <1>4, <1>6, <3>1 DEF oldSuffix
  <2> QED
    BY <1>2, <2>1, <2>2, <2>3
<1>7. oldSuffix(c, 0)
  <2>1. \A a \in 0 + 1 .. Len(c) : a \in 1 .. Len(c)
    BY <1>2
  <2> QED
    BY <1>6, <2>1 DEF oldSuffix
<1>8. \A h \in ListStates : oldSuffix(lists[h], 0)
  BY <1>2, <1>7 DEF Olds
<1>9. \A h \in ListStates : oldSuffix(lists[h], position(h))'
  BY <1>1, <1>3, <1>8 DEF oldSuffix
<1>10. Listed'
  BY <1>1 DEF Listed
<1>11. \A x \in Obj \ (alloc' \cup Sym \cup {Main}) : ~old'[x]
  BY <1>1 DEF Olds
<1>12. \A h \in ListStates : 1 .. position(h)' = {}
  BY <1>3
<1> QED
  BY <1>9, <1>10, <1>11, <1>12 DEF Olds

\* Only new objects move the lists while the program runs.
LEMMA MutatorLists ==
  ASSUME IInv, Listed, Olds, Mutator
  PROVE  Listed' /\ Olds'
<1>1. ASSUME NEW t \in Threads, NEW o \in Node, mem_new(t, o)
      PROVE  Listed' /\ Olds'
  <2>1. o \notin alloc /\ alloc' = alloc \cup {o} /\ UNCHANGED <<gcstate, gcnextmode, old>>
        /\ lists' = [lists EXCEPT !["sweep"] = linked("sweep", o)] /\ sweepgc' = shifted("sweep")
    BY <1>1 DEF mem_new, cycleVars
  <2> QED
    BY <2>1, LinkedLists DEF ListStates
<1>2. ASSUME NEW t \in Threads, NEW n \in Thr, newThread(t, n)
      PROVE  Listed' /\ Olds'
  <2>1. n \notin alloc /\ alloc' = alloc \cup {n} /\ UNCHANGED <<gcstate, gcnextmode, old>>
        /\ lists' = [lists EXCEPT !["sweepthread"] = linked("sweepthread", n)]
        /\ sweepgc' = shifted("sweepthread")
    BY <1>2 DEF newThread, cycleVars
  <2> QED
    BY <2>1, LinkedLists, KindsAreDisjoint DEF ListStates
<1>3. ASSUME UNCHANGED <<lists, gcstate, sweepgc>>,
             gcnextmode' = gcnextmode \/ gcstate \notin SweepStates,
             \A x \in Node \cup Thr : x \in alloc' <=> x \in alloc,
             \A x \in Obj \ Sym : old'[x] = old[x], \A x \in Sym : old'[x] => old[x],
             alloc \subseteq alloc'
      PROVE  Listed' /\ Olds'
  <2>1. \A k \in ListStates : position(k)' = position(k)
                              /\ (position(k) # 0 => gcnextmode' = gcnextmode)
    BY <1>3 DEF position, SweepStates
  <2>2. \A x \in Node \cup Thr : x \in Obj \ Sym
    BY KindsAreDisjoint DEF Obj, Threads
  <2>3. \A x \in Obj \ (alloc' \cup Sym \cup {Main}) : ~old'[x]
    BY <1>3, <2>2 DEF Olds
  <2>4. sweepgc' # NULL => gcstate' \in ListStates /\ sweepgc' <= Len(lists[gcstate'])
    BY <1>3 DEF Listed
  <2> QED
    BY <1>3, <2>1, <2>2, <2>3, <2>4, ListsKept
<1>4. ASSUME NEW t \in Threads, NEW v \in Obj,
             \/ pushValue(t, v) \/ popValue(t, v) \/ callMorCPrep(t)
             \/ \E u \in Threads : copyToStack(t, u, v)
             \/ \E p \in Node : setElement(t, p, v) \/ removeElement(t, p, v)
      PROVE  Listed' /\ Olds'
  <2>1. UNCHANGED <<alloc, lists, old, gcstate, gcnextmode, sweepgc>>
    BY <1>4 DEF pushValue, popValue, callMorCPrep, copyToStack, setElement, removeElement,
       markVars, cycleVars, sweepVars
  <2> QED
    BY <1>3, <2>1
<1>5. ASSUME NEW t \in Threads, NEW s \in Sym,
             newSymFound(t, s) \/ newSymGrows(t, s) \/ newSymAdded(t, s)
      PROVE  Listed' /\ Olds'
  <2>1. UNCHANGED <<lists, gcstate, gcnextmode, sweepgc>>
    BY <1>5 DEF newSymFound, newSymGrows, newSymAdded, cycleVars, sweepVars
  <2>2. \A x \in Node \cup Thr : x # s
    BY KindsAreDisjoint
  <2>3. alloc' \in {alloc, alloc \cup {s}}
    BY <1>5 DEF newSymFound, newSymGrows, newSymAdded
  <2>4. (\A x \in Obj \ Sym : old'[x] = old[x]) /\ (\A x \in Sym : old'[x] => old[x])
    <3>1. CASE old' = old
      BY <3>1
    <3>2. CASE newSymGrows(t, s)
      <4>1. \A x \in Obj : old'[x] = (old[x] /\ x \notin alloc \cap Sym)
        BY <3>2 DEF newSymGrows, sym_resize_tbl
      <4>2. \A x \in Obj \ Sym : old'[x] = old[x]
        BY <4>1 DEF IInv, Types
      <4>3. \A x \in Sym : old'[x] => old[x]
        BY <4>1 DEF Obj
      <4> QED
        BY <4>2, <4>3
    <3> QED
      BY <1>5, <3>1, <3>2 DEF newSymFound, newSymAdded
  <2>5. alloc \subseteq alloc' /\ \A x \in Node \cup Thr : x \in alloc' <=> x \in alloc
    BY <2>2, <2>3
  <2> QED
    BY <1>3, <2>1, <2>4, <2>5
<1>6. ASSUME NEW t \in Threads, NEW n \in Thr, thrInit(t, n)
      PROVE  Listed' /\ Olds'
  BY <1>3, <1>6 DEF thrInit, markVars, cycleVars, sweepVars
<1>7. ASSUME NEW mode \in FullRequests, mem_gcfull(mode)
      PROVE  Listed' /\ Olds'
  BY <1>3, <1>7 DEF mem_gcfull, heapVars, markVars, sweepVars, SweepStates
<1>8. Vm \in Obj
  BY DEF Obj
<1>9. ASSUME NEW t \in Threads, callMorCPrep(t)
      PROVE  Listed' /\ Olds'
  BY <1>4, <1>8, <1>9
<1> QED
  BY <1>1, <1>2, <1>4, <1>5, <1>6, <1>7, <1>9 DEF Mutator

\* The collector moves them only where it sweeps them.
LEMMA CollectorLists ==
  ASSUME IInv, Listed, Olds, GCStep
  PROVE  Listed' /\ Olds'
<1>1. \A x \in Node \cup Thr : x \in Obj \ (Sym \cup {Main})
  BY KindsAreDisjoint DEF Obj, Threads
<1>2. ASSUME UNCHANGED <<alloc, lists, sweepgc>>, sweepgc = NULL \/ UNCHANGED <<gcstate, gcnextmode>>,
             \A x \in Obj \ Sym : x # Main => old'[x] = old[x], \A x \in Sym : old'[x] => old[x]
      PROVE  Listed' /\ Olds'
  <2>1. \A k \in ListStates : position(k)' = position(k)
                              /\ (position(k) # 0 => gcnextmode' = gcnextmode)
    BY <1>2 DEF position
  <2>2. \A x \in Obj \ (alloc' \cup Sym \cup {Main}) : ~old'[x]
    BY <1>2 DEF Olds
  <2>3. sweepgc' # NULL => gcstate' \in ListStates /\ sweepgc' <= Len(lists[gcstate'])
    BY <1>2 DEF Listed
  <2> QED
    BY <1>1, <1>2, <2>1, <2>2, <2>3, ListsKept
<1>3. gcstate \notin ListStates => sweepgc = NULL
  BY DEF Listed
<1>4. \A x \in Sym : x \in Obj /\ x # Main
  BY KindsAreDisjoint DEF Obj
<1>5. CASE GCBegin \/ MarkTopGray \/ MarkDone \/ AtomicBegin \/ MarkThreads
  <2>1. UNCHANGED <<alloc, lists, sweepgc, old>> /\ gcstate \notin ListStates
    BY <1>5 DEF GCBegin, MarkTopGray, MarkDone, AtomicBegin, MarkThreads, heapVars, markVars,
       cycleVars, sweepVars, InAtomic, ListStates
  <2> QED
    BY <1>2, <1>3, <2>1
<1>6. CASE AtomicEnd
  <2>1. UNCHANGED <<alloc, lists, sweepgc>> /\ gcstate \notin ListStates
    BY <1>6 DEF AtomicEnd, heapVars, ListStates
  <2>2. \A x \in Obj : x # Main => old'[x] = old[x]
    BY <1>6 DEF AtomicEnd, IInv, Types
  <2> QED
    BY <1>2, <1>3, <1>4, <2>1, <2>2
<1>7. CASE SweepSymbols
  <2>1. PICK V \in SUBSET Sym : sweepobjs(V)
    BY <1>7 DEF SweepSymbols
  <2>2. lists' = lists /\ gcnextmode' = gcnextmode /\ sweepgc = NULL
        /\ ((gcstate' = "sweepthread" /\ sweepgc' = 0) \/ UNCHANGED <<gcstate, sweepgc>>)
    BY <1>3, <1>7 DEF SweepSymbols, ListStates
  <2>3. \A x \in Node \cup Thr : (x \in alloc' <=> x \in alloc) /\ old'[x] = old[x]
    BY <1>1, <2>1 DEF sweepobjs
  <2>4. \A x \in Obj \ (alloc' \cup Sym \cup {Main}) : ~old'[x]
    BY <2>1 DEF sweepobjs, Olds, isdead
  <2>5. \A k \in ListStates : position(k)' = position(k)
                              /\ (position(k) # 0 => gcnextmode' = gcnextmode)
    BY <2>2 DEF position, NULL
  <2>6. sweepgc' # NULL => gcstate' \in ListStates /\ sweepgc' <= Len(lists[gcstate'])
    BY <2>2, ListFacts DEF ListStates
  <2> QED
    BY <2>2, <2>3, <2>4, <2>5, <2>6, ListsKept
<1>8. CASE ThreadsSwept
  <2>1. UNCHANGED <<alloc, lists, old, gcnextmode>> /\ sweepgc = NULL /\ gcstate' = "sweep" /\ sweepgc' = 0
    BY <1>8 DEF ThreadsSwept, heapVars, markVars
  <2>2. \A k \in ListStates : position(k)' = position(k)
                              /\ (position(k) # 0 => gcnextmode' = gcnextmode)
    BY <2>1 DEF position, NULL
  <2>3. sweepgc' # NULL => gcstate' \in ListStates /\ sweepgc' <= Len(lists[gcstate'])
    BY <2>1, ListFacts DEF ListStates
  <2>4. \A x \in Obj \ (alloc' \cup Sym \cup {Main}) : ~old'[x]
    BY <2>1 DEF Olds
  <2> QED
    BY <2>1, <2>2, <2>3, <2>4, ListsKept
<1>9. CASE SweepEnd
  <2>1. UNCHANGED <<alloc, lists, sweepgc>> /\ sweepgc = NULL
    BY <1>9 DEF SweepEnd, sweepVars
  <2>2. CASE old' = old
    BY <1>2, <2>1, <2>2
  <2>3. CASE sym_resize_tbl(nbrAvail \div 2)
    <3>1. \A x \in Obj : old'[x] = (old[x] /\ x \notin alloc \cap Sym)
      BY <2>3 DEF sym_resize_tbl
    <3>2. \A x \in Obj \ Sym : old'[x] = old[x]
      BY <3>1 DEF IInv, Types
    <3>3. \A x \in Sym : old'[x] => old[x]
      BY <1>4, <3>1
    <3> QED
      BY <1>2, <2>1, <3>2, <3>3
  <2> QED
    BY <1>9, <2>2, <2>3 DEF SweepEnd
<1> QED
  BY <1>5, <1>6, <1>7, <1>8, <1>9, SweepElementLists, SweepListEndLists DEF GCStep

-----------------------------------------------------------------------------
(***************************************************************************)
(* What the sweep has still to visit.                                      *)
(***************************************************************************)
\* Visiting an element takes that one away.
LEMMA UnsweptElement ==
  ASSUME IInv, Listed, SweepElement, NEW x \in unswept, x # lists[gcstate][sweepgc + 1]
  PROVE  x \in unswept'
<1> PICK k \in ListStates : k = gcstate
  BY SweptElement
<1> PICK c : c = lists[k]
  OBVIOUS
<1>1. PICK o \in Node \cup Thr, i \in 1 .. Len(c) :
           /\ sweepgc # NULL /\ i = sweepgc + 1 /\ o = c[i]
           /\ IF isdead(o) THEN lists' = [lists EXCEPT ![k] = RemoveAt(c, i)] /\ sweepgc' = sweepgc
                           ELSE lists' = lists /\ sweepgc' = i
           /\ gcstate' = gcstate
  BY SweptElement
<1>2. /\ c \in Seq(Node \cup Thr) /\ Len(c) \in Nat
      /\ \A a, b \in 1 .. Len(c) : c[a] = c[b] => a = b
      /\ sweepgc \in Nat /\ sweepgc' \in Nat /\ sweepgc' # NULL
  <2>1. sweepgc \in Nat
    BY <1>1 DEF IInv, Types
  <2> QED
    BY <1>1, <2>1, ListFacts DEF NULL
<1>3. \A h \in ListStates \ {k} : lists'[h] = lists[h]
  BY <1>1 DEF IInv, Types
<1>4. x \in ahead(k) => x \in ahead(k)'
  <2> SUFFICES ASSUME NEW j \in 1 .. Len(c), sweepgc < j, x = c[j]
               PROVE  x \in ahead(k)'
    BY DEF ahead
  <2>1. j # i /\ i < j
    BY <1>1, <1>2
  <2>2. CASE isdead(o)
    <3>1. lists'[k] = RemoveAt(c, i) /\ sweepgc' = sweepgc
      BY <1>1, <2>2 DEF IInv, Types
    <3>2. /\ Len(RemoveAt(c, i)) = Len(c) - 1
          /\ \A n \in i + 1 .. Len(c) : n - 1 \in i .. Len(c) - 1 /\ RemoveAt(c, i)[n - 1] = c[n]
      <4>1. c \in Seq(Node \cup Thr) /\ i \in 1 .. Len(c)
        BY <1>2
      <4> QED
        BY ONLY <4>1, RemoveAtElements
    <3>3. j \in i + 1 .. Len(c)
      BY <1>2, <2>1
    <3>4. lists'[k][j - 1] = x /\ j - 1 \in 1 .. Len(lists'[k]) /\ sweepgc' < j - 1
      <4>1. j - 1 \in i .. Len(c) - 1 /\ RemoveAt(c, i)[j - 1] = c[j]
        BY <3>2, <3>3
      <4>2. i = sweepgc + 1 /\ i >= 1
        BY <1>1, <1>2
      <4> QED
        BY <1>2, <3>1, <3>2, <4>1, <4>2
    <3> QED
      BY <1>2, <3>4 DEF ahead
  <2>3. CASE ~isdead(o)
    <3>1. lists' = lists /\ sweepgc' < j
      BY <1>1, <2>1, <2>3
    <3> QED
      BY <1>2, <3>1 DEF ahead
  <2> QED
    BY <2>2, <2>3
<1> QED
  BY <1>1, <1>3, <1>4 DEF unswept, ListStates

\* Leaving a list leaves nothing young behind.
LEMMA UnsweptEnd ==
  ASSUME IInv, Listed, Olds, SweepListEnd, NEW x \in unswept
  PROVE  x \in unswept' \/ (gcnextmode = GC_GENMODE /\ old[x])
<1>1. /\ gcstate \in ListStates /\ sweepgc # NULL /\ sweepgc' = NULL
      /\ \/ sweepgc = Len(lists[gcstate])
         \/ /\ sweepgc < Len(lists[gcstate]) /\ old[lists[gcstate][sweepgc + 1]]
            /\ gcnextmode = GC_GENMODE
      /\ UNCHANGED <<lists, gcstate>>
  BY DEF SweepListEnd, stopsAt, heapVars, cycleVars
<1> PICK k \in ListStates : k = gcstate
  BY <1>1
<1> PICK c : c = lists[k]
  OBVIOUS
<1> PICK p \in Nat : p = sweepgc
  BY <1>1 DEF IInv, Types
<1>2. Len(c) \in Nat /\ position(k) = p /\ p <= Len(c)
  BY <1>1, ListFacts DEF position
<1>3. oldSuffix(c, p)
  BY <1>2 DEF Olds
<1>4. x \in ahead(k) => gcnextmode = GC_GENMODE /\ old[x]
  <2> SUFFICES ASSUME NEW j \in 1 .. Len(c), p < j, x = c[j]
               PROVE  gcnextmode = GC_GENMODE /\ old[x]
    BY DEF ahead
  <2>1. p < Len(c) /\ old[c[p + 1]] /\ gcnextmode = GC_GENMODE
    BY <1>1, <1>2
  <2>2. p + 1 \in p + 1 .. Len(c) /\ j \in p + 1 .. Len(c) /\ (j = p + 1 \/ p + 1 < j)
    BY <1>2, <2>1
  <2> QED
    BY <1>3, <2>1, <2>2 DEF oldSuffix
<1> QED
  BY <1>1, <1>4 DEF unswept, ListStates

\* When the sweep starts it has everything to visit, when it ends nothing.
LEMMA UnsweptAll ==
  ASSUME IInv, Listed, AtomicEnd
  PROVE  alloc \ Sym \subseteq unswept'
<1>1. gcstate' = "sweepsymbol" /\ lists' = lists
  BY DEF AtomicEnd, heapVars
<1> QED
  BY <1>1 DEF unswept, Listed, IInv, Types

LEMMA UnsweptKept ==
  ASSUME IInv, Listed, SweepSymbols \/ ThreadsSwept
  PROVE  unswept \subseteq unswept'
<1>1. CASE SweepSymbols
  <2>1. lists' = lists /\ gcstate = "sweepsymbol"
        /\ ((gcstate' = "sweepthread" /\ sweepgc' = 0) \/ UNCHANGED <<gcstate, sweepgc>>)
    BY <1>1 DEF SweepSymbols
  <2> QED
    BY <2>1, AheadAtStart DEF unswept, ListStates, IInv
<1>2. CASE ThreadsSwept
  <2>1. lists' = lists /\ gcstate = "sweepthread" /\ sweepgc = NULL /\ gcstate' = "sweep" /\ sweepgc' = 0
    BY <1>2 DEF ThreadsSwept, heapVars
  <2>2. ahead("sweepthread") = {}
    BY <2>1 DEF ahead
  <2> QED
    BY <2>1, <2>2, AheadAtStart DEF unswept, ListStates, IInv
<1> QED
  BY <1>1, <1>2

LEMMA UnsweptNone ==
  ASSUME gcstate = "sweep", sweepgc = NULL
  PROVE  unswept = {}
BY DEF unswept, ahead

\* What a step that sweeps symbols does to the rest.
LEMMA SymbolsSwept ==
  ASSUME IInv, SweepSymbols
  PROVE  /\ \A x \in Obj \ Sym : /\ x \in alloc' <=> x \in alloc
                                 /\ refs'[x] = refs[x] /\ color'[x] = color[x] /\ old'[x] = old[x]
                                 /\ x \in doomed' <=> x \in doomed
         /\ \A x \in Sym : color'[x] # "gray" \/ color'[x] = color[x]
         /\ UNCHANGED <<gray, gcmode, gcnextmode, gcbarrieron, currentwhite, building>>
         /\ gcstate = "sweepsymbol" /\ gcstate' \in SweepStates
<1>1. PICK V \in SUBSET Sym : sweepobjs(V)
  BY DEF SweepSymbols
<1>2. /\ UNCHANGED <<gray, gcmode, gcnextmode, gcbarrieron, currentwhite, building>>
      /\ gcstate = "sweepsymbol" /\ gcstate' \in SweepStates
  BY DEF SweepSymbols, progVars, SweepStates, ListStates
<1>3. currentwhite # "gray"
  BY DEF IInv, Types, White
<1> QED
  BY <1>1, <1>2, <1>3 DEF sweepobjs, Obj

LEMMA CollectorFresh ==
  ASSUME Regular, IInv, Listed, Olds, Fresh, GCStep
  PROVE  Fresh'
<1>1. CASE GCBegin \/ MarkTopGray \/ MarkDone \/ AtomicBegin \/ MarkThreads
  <2>1. gcstate' \notin {"begin"} \cup SweepStates
    BY <1>1 DEF GCBegin, MarkTopGray, MarkDone, AtomicBegin, MarkThreads, cycleVars, InAtomic,
       SweepStates, ListStates
  <2> QED
    BY <2>1 DEF Fresh
<1>2. CASE AtomicEnd
  <2>1. alloc' = alloc /\ gcstate' # "begin"
    BY <1>2 DEF AtomicEnd, heapVars
  <2> QED
    BY <1>2, <2>1, UnsweptAll DEF Fresh
<1>3. CASE SweepSymbols
  <2>1. alloc \subseteq Obj /\ alloc' \subseteq alloc
    BY <1>3 DEF IInv, Types, Obj, Threads, SweepSymbols, sweepobjs
  <2>2. \A x \in alloc' \ Sym : x \in alloc /\ color'[x] = color[x] /\ old'[x] = old[x]
    BY <1>3, <2>1, SymbolsSwept
  <2>3. /\ gcstate \in SweepStates /\ gcstate' \in SweepStates /\ gcstate' # "begin"
        /\ UNCHANGED <<gcnextmode, currentwhite>>
    BY <1>3, SymbolsSwept DEF SweepStates, ListStates
  <2> QED
    BY <1>3, <2>2, <2>3, UnsweptKept DEF Fresh, fresh
<1>4. CASE SweepElement
  <2>1. PICK o \in Node \cup Thr : \E i \in 1 .. Len(lists[gcstate]) :
           /\ gcstate \in ListStates /\ i = sweepgc + 1 /\ o = lists[gcstate][i]
           /\ alloc' = IF isdead(o) THEN alloc \ {o} ELSE alloc
           /\ \A x \in Obj : x # o => old'[x] = old[x] /\ color'[x] = color[x]
           /\ old'[o] <=> ~isdead(o) /\ gcnextmode = GC_GENMODE
           /\ ~isdead(o) => color'[o] = IF gcnextmode = GC_GENMODE THEN color[o] ELSE currentwhite
           /\ UNCHANGED <<gcstate, gcnextmode, currentwhite>>
    BY <1>4, SweptElement
  <2>2. SUFFICES ASSUME gcnextmode = GC_FULLMODE, NEW x \in alloc' \ Sym, x \notin unswept'
                 PROVE  fresh(x)'
    BY <2>1 DEF Fresh, ListStates
  <2>3. x \in alloc /\ x \in Obj
    BY <2>1 DEF IInv, Types, Obj, Threads
  <2>4. CASE x = o
    BY <2>1, <2>2, <2>4 DEF fresh, GC_FULLMODE, GC_GENMODE
  <2>5. CASE x # o
    <3>1. x \notin unswept
      BY <1>4, <2>1, <2>2, <2>5, UnsweptElement
    <3>2. fresh(x)
      BY <2>1, <2>2, <2>3, <3>1 DEF Fresh, SweepStates
    <3> QED
      BY <2>1, <2>3, <2>5, <3>2 DEF fresh
  <2> QED
    BY <2>4, <2>5
<1>5. CASE SweepListEnd \/ ThreadsSwept
  <2>1. /\ UNCHANGED <<alloc, color, old, gcnextmode, currentwhite>>
        /\ gcstate \in SweepStates /\ gcstate' \in SweepStates /\ gcstate' # "begin"
    BY <1>5 DEF SweepListEnd, ThreadsSwept, heapVars, markVars, cycleVars, SweepStates, ListStates
  <2>2. gcnextmode = GC_FULLMODE => unswept \subseteq unswept'
    BY <1>5, UnsweptEnd, UnsweptKept DEF GC_FULLMODE, GC_GENMODE
  <2> QED
    BY <2>1, <2>2 DEF Fresh, fresh
<1>6. CASE SweepEnd
  <2>1. /\ gcstate = "sweep" /\ sweepgc = NULL /\ gcstate' = "begin" /\ gcmode' = gcnextmode
        /\ UNCHANGED <<alloc, color, currentwhite>>
        /\ old' = old \/ \A x \in Obj : old'[x] = (old[x] /\ x \notin alloc \cap Sym)
    BY <1>6 DEF SweepEnd, sym_resize_tbl
  <2>2. unswept = {} /\ gcstate \in SweepStates /\ gcstate' \notin SweepStates
    BY <2>1, UnsweptNone DEF SweepStates, ListStates
  <2>3. ASSUME gcnextmode = GC_FULLMODE, NEW x \in alloc \ Sym
        PROVE  fresh(x)'
    <3>1. fresh(x) /\ x \in Obj
      BY <2>2, <2>3 DEF Fresh, IInv, Types, Obj, Threads
    <3> QED
      BY <2>1, <3>1 DEF fresh
  <2> QED
    BY <2>1, <2>2, <2>3 DEF Fresh
<1> QED
  BY <1>1, <1>2, <1>3, <1>4, <1>5, <1>6 DEF GCStep

-----------------------------------------------------------------------------
(***************************************************************************)
(* The gray list and the garbage, while the collector works.               *)
(***************************************************************************)
\* The objects of S are marked, after the one that holds them, if any, was made
\* black and taken off the list.
LEMMA MarkingGrays ==
  ASSUME IInv, IInv', NEW R \in SUBSET (alloc \cup {Vm, Main}), Markable(R),
         \A o \in gray : color[o] = "gray", \A s \in Sym : color[s] # "gray",
         NEW B \in SUBSET Obj, NEW c \in [Obj -> Colors], NEW g \in SUBSET Obj, NEW S \in SUBSET R,
         \A x \in Obj \ B : c[x] = color[x],
         \A x \in B : x \notin Sym /\ (c[x] = "black" \/ (x \in Threads /\ c[x] = "gray")),
         \A x \in B \ Threads : \A y \in refs[x] : y \in S,
         g = gray \ B,
         \A p \in R \ Threads : color[p] = "black" /\ p \notin B =>
            \A y \in refs[p] : color[y] \notin White \/ y \in S,
         \A p \in R \ Threads : color[p] = "gray" => p \in gray,
         markobj(c, g, S), gcbarrieron', UNCHANGED <<alloc, refs, currentwhite>>
  PROVE  Grays'
<1>1. R \subseteq Obj /\ S \subseteq Obj
  BY DEF IInv, Types, Obj, Threads
<1>2. /\ g \subseteq gray'
      /\ \A x \in Obj : ~(x \in S /\ c[x] \in White) => color'[x] = c[x]
      /\ \A x \in Obj : x \in S /\ c[x] \in White =>
            \/ x \in Sym /\ color'[x] = "black"
            \/ x \notin Sym /\ color'[x] = "gray" /\ x \in gray'
      /\ gray' \subseteq g \cup S
      /\ \A x \in gray' \ g : x \in S /\ c[x] \in White /\ x \notin Sym
  BY <1>1, Marked DEF markobj
<1>3. /\ currentwhite \in White /\ Otherwhite \in White /\ {"black", "gray"} \cap White = {}
      /\ Otherwhite' = Otherwhite
  BY Whites DEF IInv, Types, Otherwhite
<1>4. \A o \in gray' : color'[o] = "gray"
  <2> SUFFICES ASSUME NEW o \in gray'
               PROVE  color'[o] = "gray"
    OBVIOUS
  <2>1. CASE o \in g
    <3>1. o \in Obj \ B /\ color[o] = "gray"
      BY <2>1 DEF IInv, Types
    <3> QED
      BY <1>2, <1>3, <3>1
  <2>2. CASE o \notin g
    BY <1>1, <1>2, <2>2
  <2> QED
    BY <2>1, <2>2
<1>5. \A s \in Sym : color'[s] # "gray"
  BY <1>2, <1>3 DEF Obj
<1>6. {Vm} \cup gray' \cup (Threads \cap (alloc' \cup {Main})) \subseteq R
  BY <1>2 DEF Markable
<1>7. \A y \in Obj : /\ color'[y] \in White => color[y] \in White /\ y \notin S /\ y \notin B
                     /\ color'[y] = Otherwhite => color[y] = Otherwhite
  BY <1>2, <1>3
<1>8. \A x \in R : refs'[x] \subseteq R /\ \A y \in refs'[x] : color'[y] # Otherwhite
  BY <1>1, <1>7 DEF Markable, isdead
<1>9. ASSUME NEW p \in R \ Threads, color'[p] = "black", NEW y \in refs'[p], color'[y] \in White
      PROVE  FALSE
  <2>1. p \notin Sym /\ p \in Obj /\ y \in Obj /\ y \in refs[p]
    BY <1>1, <1>8, <1>9 DEF IInv, Shape
  <2>2. p \in B \/ color[p] = "black"
    BY <1>2, <1>3, <1>9, <2>1
  <2> QED
    BY <1>7, <1>9, <2>1, <2>2
<1>10. ASSUME NEW p \in R \ Threads, color'[p] = "gray"
       PROVE  p \in gray'
  <2>1. p \notin Sym /\ p \in Obj
    BY <1>1, <1>5, <1>10
  <2>2. CASE p \in S /\ c[p] \in White
    BY <1>2, <2>1, <2>2
  <2>3. CASE ~(p \in S /\ c[p] \in White)
    <3>1. c[p] = "gray" /\ p \notin B /\ color[p] = "gray"
      BY <1>2, <1>10, <2>1, <2>3
    <3> QED
      BY <1>2, <3>1
  <2> QED
    BY <2>2, <2>3
<1>11. Markable(R)'
  BY <1>3, <1>6, <1>8, <1>9, <1>10 DEF Markable, isdead
<1>12. R \in SUBSET (alloc' \cup {Vm, Main})
  OBVIOUS
<1> QED
  BY <1>4, <1>5, <1>11, <1>12 DEF Grays

\* The whites are exchanged when all that marking came to is marked.
LEMMA AtomicEndGrays ==
  ASSUME IInv, IInv', Grays, AtomicEnd
  PROVE  Grays'
<1>1. /\ gcstate = "markrest" /\ gray = {} /\ gcbarrieron
      /\ currentwhite' = Otherwhite /\ gcbarrieron' = (gcbarrieron /\ gcnextmode # GC_FULLMODE)
      /\ UNCHANGED <<alloc, refs, gray>>
  BY DEF AtomicEnd, heapVars, IInv, Barrier, InAtomic
<1>2. \/ gcnextmode = GC_GENMODE /\ color' = color
      \/ gcnextmode # GC_GENMODE /\ color' = [color EXCEPT ![Main] = Otherwhite]
  BY DEF AtomicEnd
<1>3. PICK R \in SUBSET (alloc \cup {Vm, Main}) : Markable(R)
  BY DEF Grays
<1>4. /\ currentwhite \in White /\ Otherwhite \in White /\ Otherwhite # currentwhite
      /\ {"black", "gray"} \cap White = {} /\ Otherwhite' = currentwhite
      /\ \A x \in Obj : color[x] \in White \cup {"black", "gray"}
  BY <1>1, Whites DEF IInv, Types, Otherwhite, White, Colors
<1> PICK Q : Q = {x \in R : x \in Threads \/ color[x] \notin White}
  OBVIOUS
<1>5. Q \subseteq Obj /\ Q \in SUBSET (alloc' \cup {Vm, Main}) /\ R \subseteq Obj
  BY <1>1 DEF IInv, Types, Obj, Threads
<1>6. ASSUME NEW x \in Q, NEW y \in refs[x]
      PROVE  y \in Q /\ color[y] \notin White
  <2>1. y \in R
    BY <1>3, <1>6 DEF Markable
  <2>2. CASE x \in Threads
    <3>1. x \in alloc \cup {Main}
      BY <1>6, <2>2, KindsAreDisjoint DEF Threads
    <3> QED
      BY <1>1, <1>6, <2>1, <2>2, <3>1 DEF IInv, Colours, StacksScanned
  <2>3. CASE x \notin Threads
    <3>1. color[x] \in {"black", "gray"} /\ x \notin Threads
      BY <1>4, <1>5, <1>6, <2>3
    <3>2. color[x] # "gray"
      BY <1>1, <1>3, <1>6, <2>3 DEF Markable
    <3>3. color[y] \notin White
      BY <1>1, <1>3, <1>6, <2>3, <3>1, <3>2 DEF Markable
    <3> QED
      BY <2>1, <3>3
  <2> QED
    BY <2>2, <2>3
<1>7. \A x \in Q : refs'[x] \subseteq Q /\ \A y \in refs'[x] : color'[y] # Otherwhite'
  <2> SUFFICES ASSUME NEW x \in Q, NEW y \in refs[x]
               PROVE  y \in Q /\ color'[y] # Otherwhite'
    BY <1>1
  <2>1. y \in Q /\ color[y] \notin White /\ y \in Obj
    BY <1>5, <1>6
  <2>2. color'[y] \in {color[y], Otherwhite}
    BY <1>2, <2>1 DEF IInv, Types
  <2> QED
    BY <1>4, <2>1, <2>2
<1>8. ASSUME gcbarrieron', NEW p \in Q \ Threads
      PROVE  /\ color'[p] = "black" => \A y \in refs'[p] : color'[y] \notin White
             /\ color'[p] = "gray" => p \in gray'
  <2>1. color' = color
    BY <1>1, <1>2, <1>8 DEF IInv, Types
  <2>2. color[p] # "gray"
    BY <1>1, <1>3, <1>8 DEF Markable
  <2> QED
    BY <1>1, <1>6, <2>1, <2>2
<1>9. {Vm} \cup gray' \cup (Threads \cap (alloc' \cup {Main})) \subseteq Q
  <2>1. color[Vm] = "black"
    BY DEF IInv, Colours, VmBlack
  <2> QED
    BY <1>1, <1>3, <1>4, <2>1 DEF Markable
<1>10. Markable(Q)'
  BY <1>7, <1>8, <1>9 DEF Markable, isdead
<1>11. \A s \in Sym : color'[s] # "gray"
  <2>1. \A s \in Sym : s \in Obj /\ s # Main
    BY KindsAreDisjoint DEF Obj
  <2> QED
    BY <1>2, <2>1 DEF Grays, IInv, Types
<1> QED
  BY <1>1, <1>5, <1>10, <1>11 DEF Grays

\* A sweep takes away dead objects only, and darkens or whitens nothing while the
\* barrier is on.
LEMMA SweepGrays ==
  ASSUME IInv, IInv', Grays, NEW V \in SUBSET (Node \cup Sym \cup Thr), sweepobjs(V),
         gcstate \in SweepStates,
         UNCHANGED <<gray, gcbarrieron, currentwhite>>
  PROVE  Grays'
<1>1. PICK R \in SUBSET (alloc \cup {Vm, Main}) : Markable(R)
  BY DEF Grays
<1> PICK freed : freed = {x \in V : isdead(x)}
  OBVIOUS
<1> PICK Q : Q = R \ freed
  OBVIOUS
<1>2. R \subseteq Obj /\ V \subseteq Obj /\ Vm \notin V /\ Main \notin V
  BY KindsAreDisjoint DEF IInv, Types, Obj, Threads
<1>3. /\ currentwhite \in White /\ Otherwhite \in White /\ Otherwhite # currentwhite
      /\ {"black", "gray"} \cap White = {} /\ Otherwhite' = Otherwhite
  BY Whites DEF IInv, Types, Otherwhite
<1>4. gcbarrieron <=> gcnextmode = GC_GENMODE
  BY DEF IInv, Barrier
<1>5. /\ alloc' = alloc \ freed
      /\ \A x \in Obj \ freed : refs'[x] = refs[x]
      /\ \A x \in Obj \ freed : color'[x] = IF x \in V /\ ~gcbarrieron THEN currentwhite ELSE color[x]
      /\ \A x \in freed : x \in Obj /\ color'[x] = "white0"
  <2>1. alloc' = alloc \ freed
    BY DEF sweepobjs
  <2>2. \A x \in Obj \ freed : refs'[x] = refs[x]
    BY DEF sweepobjs
  <2>3. \A x \in Obj \ freed : color'[x] = IF x \in V /\ ~gcbarrieron THEN currentwhite ELSE color[x]
    BY <1>4 DEF sweepobjs
  <2>4. \A x \in freed : x \in Obj /\ color'[x] = "white0"
    BY <1>2 DEF sweepobjs
  <2> QED
    BY <2>1, <2>2, <2>3, <2>4
<1>6. \A o \in gray : o \notin freed /\ color'[o] = "gray"
  <2> SUFFICES ASSUME NEW o \in gray
               PROVE  o \notin freed /\ color'[o] = "gray"
    OBVIOUS
  <2>1. color[o] = "gray" /\ o \in Obj /\ gcbarrieron
    BY DEF Grays, IInv, Types
  <2>2. o \notin freed
    BY <1>3, <2>1 DEF isdead
  <2> QED
    BY <1>5, <2>1, <2>2
<1>7. \A s \in Sym : color'[s] # "gray"
  <2> SUFFICES ASSUME NEW s \in Sym
               PROVE  color'[s] # "gray"
    OBVIOUS
  <2>1. s \in Obj /\ color[s] # "gray"
    BY DEF Obj, Grays
  <2> QED
    BY <1>3, <1>5, <2>1
<1>8. ASSUME NEW x \in Q, NEW y \in refs[x]
      PROVE  y \in Q /\ y \in Obj \ freed /\ ~isdead(y) /\ color'[y] # Otherwhite
  <2>1. y \in R /\ ~isdead(y) /\ y \in Obj
    BY <1>1, <1>2, <1>8 DEF Markable
  <2> QED
    BY <1>3, <1>5, <2>1 DEF isdead
<1>9. \A x \in Q : x \in Obj \ freed /\ refs'[x] = refs[x]
  BY <1>2, <1>5
<1>10. {Vm} \cup gray' \cup (Threads \cap (alloc' \cup {Main})) \subseteq Q
  <2>1. Vm \notin freed /\ Main \notin freed
    BY <1>2
  <2> QED
    BY <1>1, <1>5, <1>6, <2>1 DEF Markable
<1>11. Q \in SUBSET (alloc' \cup {Vm, Main})
  BY <1>5
<1>12. ASSUME gcbarrieron, NEW p \in Q \ Threads
       PROVE  /\ color'[p] = "black" => \A y \in refs'[p] : color'[y] \notin White
              /\ color'[p] = "gray" => p \in gray'
  <2>1. p \in R /\ color'[p] = color[p] /\ refs'[p] = refs[p]
    BY <1>5, <1>9, <1>12
  <2>2. \A y \in refs[p] : color'[y] = color[y]
    BY <1>5, <1>8, <1>12
  <2> QED
    BY <1>1, <1>12, <2>1, <2>2 DEF Markable
<1>13. Markable(Q)'
  BY <1>3, <1>8, <1>9, <1>10, <1>12 DEF Markable, isdead
<1> QED
  BY <1>6, <1>7, <1>11, <1>13 DEF Grays

LEMMA MarkTopGrayGrays ==
  ASSUME IInv, IInv', Grays, MarkTopGray
  PROVE  Grays'
<1>1. PICK o \in gray :
        \/ /\ o \in Threads /\ gray' = gray \ {o}
           /\ color' = [color EXCEPT ![o] = IF gcstate = "mark" THEN "gray" ELSE "black"]
        \/ o \notin Threads /\ markobj([color EXCEPT ![o] = "black"], gray \ {o}, refs[o])
  BY DEF MarkTopGray
<1>2. gcbarrieron /\ gcbarrieron' /\ UNCHANGED <<alloc, refs, currentwhite>>
  BY DEF MarkTopGray, heapVars, cycleVars, IInv, Barrier, InAtomic
<1>3. PICK R \in SUBSET (alloc \cup {Vm, Main}) : Markable(R)
  BY DEF Grays
<1>4. o \in R /\ o \in Obj /\ o \notin Sym /\ gray \subseteq Obj /\ refs[o] \subseteq R
  BY <1>3 DEF Markable, Grays, IInv, Types
<1>5. \A p \in R \ Threads : /\ color[p] = "black" => \A y \in refs[p] : color[y] \notin White
                             /\ color[p] = "gray" => p \in gray
  BY <1>2, <1>3 DEF Markable
<1>6. (\A x \in gray : color[x] = "gray") /\ (\A s \in Sym : color[s] # "gray")
  BY DEF Grays
<1> PICK B \in SUBSET Obj : B = {o}
  BY <1>4
<1> PICK g \in SUBSET Obj : g = gray \ B
  BY <1>4
<1>7. g = gray \ B /\ g = gray \ {o} /\ B = {o}
  OBVIOUS
<1>8. CASE o \in Threads
  <2>1. PICK v : v = (IF gcstate = "mark" THEN "gray" ELSE "black")
    OBVIOUS
  <2>2. PICK c \in [Obj -> Colors] : c = [color EXCEPT ![o] = v]
    BY <1>4, <2>1 DEF IInv, Types, Colors
  <2>3. /\ \A x \in Obj \ B : c[x] = color[x]
        /\ c[o] = "black" \/ c[o] = "gray"
    BY <1>4, <2>1, <2>2 DEF IInv, Types
  <2>4. color' = c /\ gray' = gray \ {o}
    BY <1>1, <1>8, <2>1, <2>2
  <2>5. color' = [x \in Obj |-> c[x]]
    BY <2>2, <2>4
  <2>6. markobj(c, g, {})
    BY <2>4, <2>5 DEF markobj
  <2>7. {} \in SUBSET R
    OBVIOUS
  <2>8. /\ \A x \in B : x \notin Sym /\ (c[x] = "black" \/ (x \in Threads /\ c[x] = "gray"))
        /\ \A x \in B \ Threads : \A y \in refs[x] : y \in {}
        /\ \A p \in R \ Threads : color[p] = "black" /\ p \notin B =>
             \A y \in refs[p] : color[y] \notin White \/ y \in {}
        /\ \A p \in R \ Threads : color[p] = "gray" => p \in gray
    BY <1>4, <1>5, <1>8, <2>3
  <2>9. \A x \in Obj \ B : c[x] = color[x]
    BY <2>3
  <2> QED
    BY ONLY IInv, IInv', <1>2, <1>3, <1>6, <1>7, <2>6, <2>7, <2>8, <2>9, MarkingGrays
<1>9. CASE o \notin Threads
  <2>1. PICK c \in [Obj -> Colors] : c = [color EXCEPT ![o] = "black"]
    BY <1>4 DEF IInv, Types, Colors
  <2>2. /\ \A x \in Obj \ B : c[x] = color[x]
        /\ c[o] = "black"
    BY <1>4, <2>1 DEF IInv, Types
  <2>3. markobj(c, g, refs[o])
    BY <1>1, <1>9, <2>1
  <2>5. /\ \A x \in B : x \notin Sym /\ (c[x] = "black" \/ (x \in Threads /\ c[x] = "gray"))
        /\ \A x \in B \ Threads : \A y \in refs[x] : y \in refs[o]
        /\ \A p \in R \ Threads : color[p] = "black" /\ p \notin B =>
             \A y \in refs[p] : color[y] \notin White \/ y \in refs[o]
        /\ \A p \in R \ Threads : color[p] = "gray" => p \in gray
    BY <1>4, <1>5, <2>2
  <2>6. refs[o] \in SUBSET R /\ \A x \in Obj \ B : c[x] = color[x]
    BY <1>4, <2>2
  <2> QED
    BY ONLY IInv, IInv', <1>2, <1>3, <1>6, <1>7, <2>3, <2>5, <2>6, MarkingGrays
<1> QED
  BY <1>8, <1>9

LEMMA MarkThreadsGrays ==
  ASSUME IInv, IInv', Listed, Grays, MarkThreads
  PROVE  Grays'
<1>1. /\ gray = {} /\ gcbarrieron /\ gcbarrieron' /\ UNCHANGED <<alloc, refs, currentwhite>>
      /\ markobj([color EXCEPT ![Main] = "black"], gray, UNION {refs[t] : t \in scanned})
  BY DEF MarkThreads, heapVars, IInv, Barrier, InAtomic
<1>2. PICK R \in SUBSET (alloc \cup {Vm, Main}) : Markable(R)
  BY DEF Grays
<1>3. Main \in Obj /\ Main \notin Sym /\ Main \in Threads /\ gray \ {Main} = gray
  BY <1>1, KindsAreDisjoint DEF Obj, Threads
<1>4. scanned \subseteq R
  BY <1>2 DEF scanned, Listed, Markable, Threads
<1>5. PICK S \in SUBSET R : S = UNION {refs[t] : t \in scanned}
  BY <1>2, <1>4, ZenonT(60) DEF Markable
<1>6. \A p \in R \ Threads : /\ color[p] = "black" => \A y \in refs[p] : color[y] \notin White
                             /\ color[p] = "gray" => p \in gray
  BY <1>1, <1>2 DEF Markable
<1>7. PICK c \in [Obj -> Colors] : c = [color EXCEPT ![Main] = "black"]
  BY <1>3 DEF IInv, Types, Colors
<1>8. (\A x \in Obj \ {Main} : c[x] = color[x]) /\ c[Main] = "black"
  BY <1>3, <1>7 DEF IInv, Types
<1>9. markobj(c, gray, S) /\ {Main} \in SUBSET Obj /\ gray \in SUBSET Obj
  BY <1>1, <1>3, <1>5, <1>7
<1>10. (\A x \in gray : color[x] = "gray") /\ (\A s \in Sym : color[s] # "gray")
  BY DEF Grays
<1>11. /\ \A x \in {Main} : x \notin Sym /\ (c[x] = "black" \/ (x \in Threads /\ c[x] = "gray"))
       /\ \A x \in {Main} \ Threads : \A y \in refs[x] : y \in S
       /\ \A p \in R \ Threads : color[p] = "black" /\ p \notin {Main} =>
            \A y \in refs[p] : color[y] \notin White \/ y \in S
       /\ \A p \in R \ Threads : color[p] = "gray" => p \in gray
  BY <1>3, <1>6, <1>8
<1>12. (\A x \in Obj \ {Main} : c[x] = color[x]) /\ gray = gray \ {Main} /\ gcbarrieron'
       /\ UNCHANGED <<alloc, refs, currentwhite>>
  BY <1>1, <1>3, <1>8
<1> QED
  BY ONLY IInv, IInv', <1>2, <1>9, <1>10, <1>11, <1>12, MarkingGrays

\* A full cycle begins with everything white, a generational one with what the
\* barrier has kept in order.
LEMMA GCBeginGrays ==
  ASSUME IInv, IInv', Grays, Fresh, GCBegin
  PROVE  Grays'
<1>1. /\ gcstate = "begin" /\ gcbarrieron' /\ UNCHANGED <<alloc, refs, currentwhite>>
      /\ IF gcmode = GC_FULLMODE THEN markobj(color, {}, refs[Vm]) ELSE UNCHANGED <<color, gray>>
  BY DEF GCBegin, heapVars, marksRoot
<1>2. PICK R \in SUBSET (alloc \cup {Vm, Main}) : Markable(R)
  BY DEF Grays
<1>3. CASE gcmode = GC_FULLMODE
  <2>1. gray = {}
    BY <1>1, <1>3 DEF Grays, IInv, Barrier, GC_FULLMODE, GC_GENMODE
  <2>2. refs[Vm] \in SUBSET R /\ R \subseteq Obj /\ {} \in SUBSET Obj /\ color \in [Obj -> Colors]
    BY <1>2 DEF Markable, IInv, Types, Obj, Threads
  <2>3. ASSUME NEW p \in R \ Threads
        PROVE  /\ color[p] = "black" => \A y \in refs[p] : color[y] \notin White \/ y \in refs[Vm]
               /\ color[p] = "gray" => p \in gray
    <3>1. CASE p = Vm
      BY <3>1 DEF IInv, Colours, VmBlack
    <3>2. CASE p \in Sym
      BY <2>2, <2>3, <3>2 DEF Grays, IInv, Shape
    <3>3. CASE p \in alloc \ Sym
      <4>1. color[p] = currentwhite
        BY <1>1, <1>3, <3>3 DEF Fresh, fresh
      <4> QED
        BY <4>1 DEF IInv, Types, White
    <3> QED
      BY <2>3, <3>1, <3>2, <3>3 DEF Threads
  <2>4. (\A x \in gray : color[x] = "gray") /\ (\A s \in Sym : color[s] # "gray")
    BY DEF Grays
  <2>5. markobj(color, {}, refs[Vm])
    BY <1>1, <1>3
  <2>6. /\ \A x \in {} : x \notin Sym /\ (color[x] = "black" \/ (x \in Threads /\ color[x] = "gray"))
        /\ \A x \in {} \ Threads : \A y \in refs[x] : y \in refs[Vm]
        /\ \A p \in R \ Threads : color[p] = "black" /\ p \notin {} =>
             \A y \in refs[p] : color[y] \notin White \/ y \in refs[Vm]
        /\ \A p \in R \ Threads : color[p] = "gray" => p \in gray
        /\ \A x \in Obj \ {} : color[x] = color[x]
        /\ {} = gray \ {}
    BY <2>1, <2>3
  <2>7. gcbarrieron' /\ UNCHANGED <<alloc, refs, currentwhite>>
    BY <1>1
  <2> QED
    BY ONLY IInv, IInv', <1>2, <2>2, <2>4, <2>5, <2>6, <2>7, MarkingGrays
<1>4. CASE gcmode # GC_FULLMODE
  <2>1. gcbarrieron /\ UNCHANGED <<color, gray, Otherwhite>>
    BY <1>1, <1>4 DEF IInv, Types, Barrier, Otherwhite
  <2>2. Markable(R)'
    BY <1>1, <1>2, <2>1 DEF Markable, isdead
  <2> QED
    BY <1>1, <2>1, <2>2 DEF Grays
<1> QED
  BY <1>3, <1>4

LEMMA CollectorGrays ==
  ASSUME IInv, IInv', Listed, Fresh, Grays, GCStep
  PROVE  Grays'
<1>1. ASSUME UNCHANGED <<alloc, refs, color, gray, gcbarrieron, currentwhite>>
      PROVE  Grays'
  BY <1>1 DEF Grays, Markable, isdead, Otherwhite
<1>2. CASE MarkDone \/ AtomicBegin \/ SweepListEnd \/ ThreadsSwept \/ SweepEnd
  BY <1>1, <1>2 DEF MarkDone, AtomicBegin, SweepListEnd, ThreadsSwept, SweepEnd, heapVars, markVars, cycleVars
<1>3. CASE SweepSymbols
  <2>1. PICK V \in SUBSET Sym : sweepobjs(V)
    BY <1>3 DEF SweepSymbols
  <2>2. V \in SUBSET (Node \cup Sym \cup Thr) /\ gcstate \in SweepStates
        /\ UNCHANGED <<gray, gcbarrieron, currentwhite>>
    BY <1>3 DEF SweepSymbols, SweepStates
  <2> QED
    BY <2>1, <2>2, SweepGrays
<1>4. CASE SweepElement
  <2>1. PICK o \in Node \cup Thr : \E i \in 1 .. Len(lists[gcstate]) :
           i = sweepgc + 1 /\ o = lists[gcstate][i]
    BY <1>4, SweptElement
  <2>2. sweepobjs({o}) /\ gcstate \in SweepStates /\ UNCHANGED <<gray, gcbarrieron, currentwhite>>
    BY <1>4, <2>1 DEF SweepElement, SweepStates
  <2>3. {o} \in SUBSET (Node \cup Sym \cup Thr)
    OBVIOUS
  <2> QED
    BY <2>2, <2>3, SweepGrays
<1> QED
  BY <1>2, <1>3, <1>4, GCBeginGrays, MarkTopGrayGrays, MarkThreadsGrays, AtomicEndGrays DEF GCStep

\* What is reachable from a set holds the set and is closed.
LEMMA ReachFromClosed ==
  ASSUME refs \in [Obj -> SUBSET Obj], NEW from \in SUBSET Obj
  PROVE  /\ from \subseteq H!ReachFrom(from)
         /\ \A x \in H!ReachFrom(from) : refs[x] \subseteq H!ReachFrom(from)
<1> DEFINE pointed == from \cup UNION {refs[x] : x \in Obj}
           closed  == {S \in SUBSET pointed : from \subseteq S /\ \A x \in S : refs[x] \subseteq S}
<1>1. H!ReachFrom(from) = {x \in pointed : \A S \in closed : x \in S}
  BY ReachFromIs
<1>2. pointed \subseteq Obj
  OBVIOUS
<1> QED
  BY <1>1, <1>2

\* Marking comes to nothing that is doomed, so that it stays as it is.
LEMMA MarkingDoomed ==
  ASSUME IInv, Doomed,
         UNCHANGED <<alloc, refs, old, doomed, building, currentwhite>>,
         \A x \in doomed : color'[x] = color[x],
         gcstate' = "begin" => doomed = {},
         gcstate \in SweepStates <=> gcstate' \in SweepStates,
         gcstate \in SweepStates => \A x \in doomed : x \in unswept'
  PROVE  Doomed'
BY DEF Doomed, isdead, Otherwhite

LEMMA GCBeginDoomed ==
  ASSUME Regular, IInv, Fresh, Doomed, GCBegin
  PROVE  Doomed'
<1>1. /\ gcstate = "begin" /\ gcstate' = "mark" /\ UNCHANGED <<alloc, refs, old, building, currentwhite>>
      /\ collects
  BY DEF GCBegin, heapVars, progVars
<1>2. "mark" \notin SweepStates /\ "begin" \notin SweepStates
  BY DEF SweepStates, ListStates
<1>3. CASE gcmode # GC_FULLMODE
  <2>1. doomed = {} /\ doomed' = {}
    BY <1>1, <1>3 DEF GCBegin, marksRoot, Doomed
  <2> QED
    BY <1>1, <2>1 DEF Doomed
<1>4. CASE gcmode = GC_FULLMODE
  <2> DEFINE from == {Vm} \cup UNION {refs[t] : t \in Threads}
  <2>1. from \in SUBSET Obj /\ refs \in [Obj -> SUBSET Obj]
    BY DEF IInv, Types, Obj
  <2> PICK R : R = H!ReachFrom(from)
    OBVIOUS
  <2>2. from \subseteq R /\ \A x \in R : refs[x] \subseteq R
    BY <2>1, ReachFromClosed
  <2>3. doomed' = (alloc \ Sym) \ R /\ markobj(color, {}, refs[Vm])
    BY <1>4 DEF GCBegin, marksRoot
  <2> HIDE DEF from
  <2>4. Vm \in R /\ refs[Vm] \subseteq R /\ \A t \in Threads : refs[t] \subseteq R
    BY <2>2 DEF from
  <2>5. \A x \in Obj : x \notin doomed' \/ x \in Threads => refs'[x] \cap doomed' = {}
    <3> SUFFICES ASSUME NEW x \in Obj, x \notin doomed' \/ x \in Threads
                 PROVE  refs[x] \cap doomed' = {}
      BY <1>1
    <3>1. CASE x \in Sym \/ x \notin alloc \cup {Vm, Main}
      BY <3>1 DEF IInv, Shape
    <3>2. CASE x \in R \/ x \in Threads
      BY <2>2, <2>3, <2>4, <3>2
    <3> QED
      BY <2>3, <2>4, <3>1, <3>2 DEF Threads
  <2>6. \A x \in doomed' : color'[x] = currentwhite /\ ~old[x] /\ x \in Obj
    <3> TAKE x \in doomed'
    <3>1. x \in alloc \ Sym /\ x \in Obj /\ x \notin refs[Vm]
      BY <2>3, <2>4 DEF IInv, Types, Obj, Threads
    <3>2. fresh(x)
      BY <1>1, <1>4, <3>1 DEF Fresh
    <3>3. color'[x] = color[x]
      BY <2>3, <3>1 DEF markobj
    <3> QED
      BY <3>1, <3>2, <3>3 DEF fresh
  <2>7. \A b \in building : b[2] \notin doomed'
    <3> TAKE b \in building
    <3>1. b[2] \in Sym \cup Thr
      BY DEF IInv, Types
    <3>2. b[2] \notin Thr
      BY <1>1 DEF collects, Regular
    <3> QED
      BY <2>3, <3>1, <3>2
  <2> QED
    BY <1>1, <1>2, <2>3, <2>5, <2>6, <2>7 DEF Doomed
<1> QED
  BY <1>3, <1>4

\* Doomed objects are not reached from the gray list nor from any stack.
LEMMA MarkDoomed ==
  ASSUME IInv, Listed, Grays, Doomed, MarkTopGray \/ MarkThreads
  PROVE  Doomed'
<1>1. /\ UNCHANGED <<alloc, refs, old, doomed, building, currentwhite>>
      /\ gcstate' # "begin" /\ gcstate \notin SweepStates /\ gcstate' \notin SweepStates
  BY DEF MarkTopGray, MarkThreads, heapVars, cycleVars, progVars, InAtomic, SweepStates, ListStates
<1>2. doomed \subseteq Obj /\ Main \notin doomed
  BY LiveNotDoomed DEF Doomed, IInv, Types, Obj, Threads
<1>3. \A o \in gray : o \in Obj /\ o \notin doomed
  <2> TAKE o \in gray
  <2>1. color[o] = "gray" /\ o \in Obj
    BY DEF Grays, IInv, Types
  <2>2. o \in doomed => color[o] = currentwhite
    BY <1>1 DEF Doomed
  <2> QED
    BY <2>1, <2>2 DEF IInv, Types, White
<1>4. \A x \in doomed : color'[x] = color[x]
  <2> SUFFICES ASSUME NEW x \in doomed
               PROVE  color'[x] = color[x]
    OBVIOUS
  <2>1. x \in Obj /\ x \notin gray /\ x # Main
    BY <1>2, <1>3
  <2>2. CASE MarkTopGray
    <3> PICK o \in gray :
          \/ color' = [color EXCEPT ![o] = IF gcstate = "mark" THEN "gray" ELSE "black"]
          \/ markobj([color EXCEPT ![o] = "black"], gray \ {o}, refs[o])
      BY <2>2 DEF MarkTopGray
    <3>1. x # o /\ x \notin refs[o]
      BY <1>3, <2>1 DEF Doomed
    <3> QED
      BY <2>1, <3>1 DEF markobj, IInv, Types
  <2>3. CASE MarkThreads
    <3>1. markobj([color EXCEPT ![Main] = "black"], gray, UNION {refs[t] : t \in scanned})
      BY <2>3 DEF MarkThreads
    <3>2. scanned \subseteq Threads
      BY DEF scanned, Threads, Listed
    <3>3. x \notin UNION {refs[t] : t \in scanned}
      BY <3>2 DEF Doomed, Obj
    <3> QED
      BY <2>1, <3>1, <3>3 DEF markobj, IInv, Types
  <2> QED
    BY <2>2, <2>3
<1> QED
  BY <1>1, <1>4, MarkingDoomed

\* The whites are exchanged: what is doomed is dead now, and ahead of the sweep.
LEMMA AtomicEndDoomed ==
  ASSUME IInv, Listed, Doomed, AtomicEnd
  PROVE  Doomed'
<1>1. /\ gcstate = "markrest" /\ gcstate' = "sweepsymbol" /\ currentwhite' = Otherwhite
      /\ UNCHANGED <<alloc, refs, building, doomed>>
      /\ \A x \in Obj : x # Main => color'[x] = color[x] /\ old'[x] = old[x]
  BY DEF AtomicEnd, heapVars, progVars, IInv, Types
<1>2. Otherwhite' = currentwhite
  BY <1>1 DEF Otherwhite, IInv, Types, White
<1>3. doomed \subseteq alloc \ Sym /\ doomed \subseteq Obj /\ Main \notin doomed
  BY LiveNotDoomed DEF Doomed, IInv, Types, Obj, Threads
<1>4. "markrest" \notin SweepStates /\ "sweepsymbol" \in SweepStates
  BY DEF SweepStates, ListStates
<1>5. \A x \in doomed : ~old'[x] /\ color'[x] = currentwhite /\ x \in unswept'
  BY <1>1, <1>3, <1>4, UnsweptAll DEF Doomed
<1>6. \A x \in Obj : x \notin doomed' \/ x \in Threads => refs'[x] \cap doomed' = {}
  BY <1>1 DEF Doomed
<1>7. \A b \in building' : b[2] \notin doomed'
  BY <1>1 DEF Doomed
<1> QED
  BY <1>1, <1>2, <1>3, <1>4, <1>5, <1>6, <1>7 DEF Doomed, isdead

\* A step that frees only what is dead, and leaves the rest of what is doomed as it is.
LEMMA SweepDoomed ==
  ASSUME IInv, Doomed, NEW o,
         gcstate \in SweepStates, gcstate' \in SweepStates,
         alloc \ (Sym \cup {o}) \subseteq alloc', doomed' \subseteq doomed,
         o \in doomed' => o \in alloc',
         \A x \in Obj : refs'[x] \subseteq refs[x],
         \A x \in doomed' : color'[x] = color[x] /\ ~old'[x] /\ x \in unswept',
         \A x \in Obj : x \in doomed \ doomed' => refs'[x] = {},
         UNCHANGED <<currentwhite, building>>
  PROVE  Doomed'
<1>1. "begin" \notin SweepStates
  BY DEF SweepStates, ListStates
<1>2. doomed' \subseteq alloc' \ Sym
  BY DEF Doomed
<1>3. \A x \in Obj : x \notin doomed' \/ x \in Threads => refs'[x] \cap doomed' = {}
  BY DEF Doomed
<1>4. \A x \in doomed' : isdead(x)' /\ ~old'[x] /\ x \in unswept'
  BY DEF Doomed, isdead, Otherwhite
<1>5. \A b \in building' : b[2] \notin doomed'
  BY DEF Doomed
<1> QED
  BY <1>1, <1>2, <1>3, <1>4, <1>5 DEF Doomed

LEMMA CollectorDoomed ==
  ASSUME Regular, IInv, Listed, Olds, Fresh, Grays, Doomed, GCStep
  PROVE  Doomed'
<1>0. doomed \subseteq alloc \ Sym /\ doomed \subseteq Obj
  BY DEF Doomed, IInv, Types, Obj, Threads
<1>1. CASE MarkDone \/ AtomicBegin
  <2>1. /\ UNCHANGED <<alloc, refs, old, doomed, building, currentwhite, color>>
        /\ gcstate' # "begin" /\ gcstate \notin SweepStates /\ gcstate' \notin SweepStates
    BY <1>1 DEF MarkDone, AtomicBegin, heapVars, markVars, progVars, SweepStates, ListStates
  <2> QED
    BY <2>1, MarkingDoomed
<1>2. CASE SweepSymbols
  <2>1. /\ gcstate \in SweepStates /\ gcstate' \in SweepStates /\ UNCHANGED <<currentwhite, building>>
        /\ doomed' \subseteq doomed
    BY <1>2, SymbolsSwept DEF SweepStates, SweepSymbols, sweepobjs
  <2>2. doomed \subseteq doomed'
    BY <1>0, <1>2, SymbolsSwept
  <2>3. \A x \in Obj : refs'[x] \subseteq refs[x]
    BY <1>2 DEF SweepSymbols, sweepobjs
  <2>4. \A x \in doomed : color'[x] = color[x] /\ ~old'[x] /\ x \in unswept' /\ x \in alloc'
    BY <1>0, <1>2, <2>1, SymbolsSwept, UnsweptKept DEF Doomed
  <2>5. alloc \ (Sym \cup {Vm}) \subseteq alloc'
    BY <1>2, SymbolsSwept DEF IInv, Types, Obj, Threads
  <2> QED
    BY <2>1, <2>2, <2>3, <2>4, <2>5, SweepDoomed
<1>3. CASE SweepElement
  <2>1. PICK o \in Node \cup Thr : \E i \in 1 .. Len(lists[gcstate]) :
           /\ gcstate \in ListStates /\ i = sweepgc + 1 /\ o = lists[gcstate][i]
           /\ alloc' = IF isdead(o) THEN alloc \ {o} ELSE alloc
           /\ \A x \in Obj : x # o => /\ old'[x] = old[x] /\ color'[x] = color[x]
                                      /\ refs'[x] = refs[x]
           /\ ~isdead(o) => refs'[o] = refs[o]
           /\ isdead(o) => refs'[o] = {}
           /\ doomed' = IF isdead(o) THEN doomed \ {o} ELSE doomed
    BY <1>3, SweptElement
  <2>2. /\ gcstate \in SweepStates /\ gcstate' \in SweepStates /\ UNCHANGED <<currentwhite, building>>
    BY <1>3 DEF SweepElement, SweepStates, progVars
  <2>3. o = lists[gcstate][sweepgc + 1] /\ o \in Obj
    BY <2>1 DEF Obj, Threads
  <2>4. o \notin doomed' /\ (o \in doomed => isdead(o))
    BY <2>1, <2>2 DEF Doomed
  <2>5. doomed' \subseteq doomed /\ \A x \in doomed : x # o => x \in doomed'
    BY <2>1
  <2>6. \A x \in Obj : refs'[x] \subseteq refs[x]
    BY <2>1
  <2>7. \A x \in doomed' : color'[x] = color[x] /\ ~old'[x] /\ x \in unswept'
    <3> TAKE x \in doomed'
    <3>1. x # o /\ x \in Obj /\ x \in doomed
      BY <1>0, <2>4, <2>5
    <3>2. ~old[x] /\ x \in unswept
      BY <2>2, <3>1 DEF Doomed
    <3>3. x \in unswept'
      BY <1>3, <2>3, <3>1, <3>2, UnsweptElement
    <3> QED
      BY <2>1, <3>1, <3>2, <3>3
  <2>8. \A x \in Obj : x \in doomed \ doomed' => refs'[x] = {}
    BY <2>1
  <2>9. alloc \ (Sym \cup {o}) \subseteq alloc' /\ (o \in doomed' => o \in alloc')
    BY <2>1, <2>4
  <2> QED
    BY ONLY IInv, Doomed, <2>2, <2>5, <2>6, <2>7, <2>8, <2>9, SweepDoomed
<1>4. CASE SweepListEnd \/ ThreadsSwept
  <2>1. /\ gcstate \in SweepStates /\ gcstate' \in SweepStates
        /\ UNCHANGED <<alloc, refs, color, old, doomed, currentwhite, building>>
    BY <1>4 DEF SweepListEnd, ThreadsSwept, heapVars, markVars, cycleVars, progVars, SweepStates, ListStates
  <2>2. \A x \in doomed : x \in unswept /\ ~old[x]
    BY <2>1 DEF Doomed
  <2>3. \A x \in doomed : x \in unswept'
    BY <1>4, <2>2, UnsweptEnd, UnsweptKept
  <2>4. gcstate' # "begin"
    BY <2>1 DEF SweepStates, ListStates
  <2> QED
    BY <2>1, <2>3, <2>4, MarkingDoomed
<1>5. CASE SweepEnd
  <2>1. /\ gcstate = "sweep" /\ sweepgc = NULL /\ gcstate' = "begin" /\ doomed' = {}
        /\ UNCHANGED <<refs, building>>
    BY <1>5 DEF SweepEnd
  <2> QED
    BY <2>1 DEF Doomed
<1> QED
  BY <1>1, <1>2, <1>3, <1>4, <1>5, GCBeginDoomed, MarkDoomed, AtomicEndDoomed DEF GCStep

------------------------------------------------------------------------------
(***************************************************************************)
(* The invariant, and what follows from it.                                *)
(***************************************************************************)
LEMMA FullInit ==
  ASSUME Init
  PROVE  FInv
<1>1. /\ Global \in Node /\ Global \notin Sym /\ Global \notin Thr /\ Global # Vm /\ Global # Main
      /\ Vm \notin Sym /\ Main \notin Sym /\ Vm # Main /\ Node \cap Thr = {}
  BY KindsAreDisjoint
<1>2. /\ alloc = {Global} /\ gcstate = "begin" /\ gcmode = GC_FULLMODE /\ gcbarrieron = FALSE
      /\ lists["sweep"] = <<Global>> /\ lists["sweepthread"] = <<>>
      /\ sweepgc = NULL /\ gray = {} /\ doomed = {} /\ building = {} /\ currentwhite = "white0"
      /\ \A x \in Obj : ~old[x] /\ color[x] = (IF x = Vm THEN "black" ELSE "white0")
      /\ \A x \in Obj : refs[x] = IF x = Vm THEN {Main, Global} ELSE {}
  BY DEF Init, ListStates
<1>3. "begin" \notin SweepStates
  BY DEF SweepStates, ListStates
<1>4. Listed
  <2>1. lists["sweep"] \in Seq(Node) /\ lists["sweepthread"] \in Seq(Thr)
    BY <1>1, <1>2
  <2>2. ToSet(lists["sweep"]) = {Global} /\ ToSet(lists["sweepthread"]) = {}
    BY <1>2 DEF ToSet
  <2>3. \A k \in ListStates : IsInjective(lists[k])
    BY <1>2 DEF ListStates, IsInjective
  <2> QED
    BY <1>1, <1>2, <2>1, <2>2, <2>3 DEF Listed
<1>5. Olds
  <2>1. \A k \in ListStates : position(k) = 0
    BY <1>2 DEF position
  <2>2. \A k \in ListStates : oldSuffix(lists[k], 0)
    BY <1>2 DEF oldSuffix, ListStates
  <2> QED
    BY <1>2, <2>1, <2>2 DEF Olds
<1>6. Fresh
  BY <1>1, <1>2, <1>3 DEF Fresh, fresh, Obj
<1>7. Grays
  <2>1. Markable({Vm, Main, Global})
    BY <1>1, <1>2 DEF Markable, Threads, Obj, isdead, Otherwhite
  <2> QED
    BY <1>1, <1>2, <2>1 DEF Grays, Obj
<1>8. Doomed
  BY <1>2 DEF Doomed
<1> QED
  BY <1>4, <1>5, <1>6, <1>7, <1>8 DEF FInv

LEMMA FullStutter ==
  ASSUME FInv, UNCHANGED vars
  PROVE  FInv'
<1>1. UNCHANGED <<alloc, refs, lists, color, old, gray, gcstate, gcmode, gcnextmode,
                  gcbarrieron, currentwhite, sweepgc, building, doomed>>
  BY DEF vars, heapVars, markVars, cycleVars, sweepVars, progVars
<1>2. Listed'
  BY <1>1 DEF FInv, Listed
<1>3. Olds'
  BY <1>1 DEF FInv, Olds, position, oldSuffix
<1>4. Fresh' /\ Doomed'
  BY <1>1 DEF FInv, Fresh, fresh, Doomed, unswept, ahead, isdead, Otherwhite
<1>5. Grays'
  <2>1. PICK R \in SUBSET (alloc \cup {Vm, Main}) : Markable(R)
    BY DEF FInv, Grays
  <2>2. Markable(R)'
    BY <1>1, <2>1 DEF Markable, isdead, Otherwhite
  <2> QED
    BY <1>1, <2>2 DEF FInv, Grays
<1> QED
  BY <1>2, <1>3, <1>4, <1>5 DEF FInv

LEMMA FullStep ==
  ASSUME Regular, IInv, IInv', FInv, [Next]_vars
  PROVE  FInv'
<1>1. Listed /\ Olds /\ Fresh /\ Grays /\ Doomed
  BY DEF FInv
<1>2. CASE Mutator
  <2>1. PICK N : ProgramFrame(N)
    BY <1>2, MutatorFrame
  <2>2. Listed' /\ Olds'
    BY <1>1, <1>2, MutatorLists
  <2>3. Fresh' /\ Grays' /\ Doomed'
    BY <1>1, <2>1, ProgramFresh, ProgramGrays, ProgramDoomed
  <2> QED
    BY <2>2, <2>3 DEF FInv
<1>3. CASE GCStep
  <2>1. Listed' /\ Olds'
    BY <1>1, <1>3, CollectorLists
  <2>2. Fresh' /\ Grays' /\ Doomed'
    BY <1>1, <1>3, CollectorFresh, CollectorGrays, CollectorDoomed
  <2> QED
    BY <2>1, <2>2 DEF FInv
<1>4. CASE UNCHANGED vars
  BY <1>4, FullStutter
<1> QED
  BY <1>2, <1>3, <1>4 DEF Next

\* The lists hold what is allocated of their kind, behind an old object of a list
\* all are old, and what a full cycle found unreachable stays ahead of its sweep.
THEOREM FullInductive == ASSUME Regular PROVE Spec => []FInv
<1>1. Init => FInv
  BY FullInit
<1>2. IInv /\ IInv' /\ FInv /\ [Next]_vars => FInv'
  BY FullStep
<1> QED
  BY <1>1, <1>2, Inductive, PTL DEF Spec

\* The assert of mem_marktopgray holds: what is on the gray list is gray and
\* allocated, and no reachable object that must still be scanned is missing.
THEOREM GrayListIsSound == ASSUME Regular PROVE Spec => []GrayListSound
<1>1. IInv /\ FInv => GrayListSound
  <2> SUFFICES ASSUME IInv, FInv
               PROVE  GrayListSound
    OBVIOUS
  <2>1. PICK R \in SUBSET (alloc \cup {Vm, Main}) : Markable(R)
    BY DEF FInv, Grays
  <2>2. \A o \in gray : color[o] = "gray"
    BY DEF FInv, Grays
  <2>3. gray \subseteq alloc \cup {Main}
    BY <2>1, <2>2 DEF Markable, IInv, Colours, VmBlack
  <2>4. gcbarrieron => \A o \in Reachable \ Threads : color[o] = "gray" => o \in gray
    <3> SUFFICES ASSUME gcbarrieron, NEW o \in Reachable \ Threads, color[o] = "gray"
                 PROVE  o \in gray
      OBVIOUS
    <3>1. o \in Live
      BY ReachableIsLive DEF IInv, Types
    <3>2. o \notin Sym
      BY <3>1 DEF FInv, Grays
    <3> QED
      BY <3>1, <3>2 DEF IInv, Colours, GrayListed
  <2> QED
    BY <2>2, <2>3, <2>4 DEF GrayListSound
<1> QED
  BY <1>1, Inductive, FullInductive, PTL

\* A full cycle frees, by its end, all that was unreachable when it began.
THEOREM FullCycleFreesAll == ASSUME Regular PROVE Spec => []FullCycleCollects
<1>1. FInv => FullCycleCollects
  BY UnsweptNone DEF FInv, Doomed, FullCycleCollects, SweepStates, ListStates
<1> QED
  BY <1>1, FullInductive, PTL

-----------------------------------------------------------------------------
(***************************************************************************)
(* The symbol table: what a sweep and a change of size leave of its chains.*)
(***************************************************************************)
\* among keeps the members of S, each as often as it was there.
LEMMA AmongIs ==
  ASSUME NEW D, NEW c \in Seq(D), NEW S
  PROVE  /\ among(c, S) \in Seq(D) /\ \A x : x \in ToSet(among(c, S)) <=> x \in ToSet(c) \cap S
         /\ IsInjective(c) => IsInjective(among(c, S))
<1> PICK N \in Nat : N = Len(c)
  BY LenProperties
<1> PICK Q : Q = Seq(D)
  OBVIOUS
<1>c. \A i \in 1 .. N : c[i] \in D
  BY ElementOfSeq
<1> DEFINE next(i, v) == IF c[i] \in S THEN Append(v, c[i]) ELSE v
<1> PICK G : G = [p \in Nat \X Q |-> IF p[1] \in 1 .. N THEN next(p[1], p[2]) ELSE p[2]]
  OBVIOUS
<1>1. G \in [Nat \X Q -> Q]
  <2>1. ASSUME NEW p \in Nat \X Q PROVE G[p] \in Q
    <3>1. p[1] \in Nat /\ p[2] \in Q
      OBVIOUS
    <3>2. p[1] \in 1 .. N => Append(p[2], c[p[1]]) \in Q
      BY <1>c, <3>1, AppendProperties
    <3> QED
      BY <3>1, <3>2
  <2> QED
    BY <2>1
<1>2. <<>> \in Q
  BY EmptySeq
<1>3. PICK g : g \in [0 .. N -> Q] /\ g[0] = <<>> /\ \A n \in 1 .. N : g[n] = G[<<n, g[n - 1]>>]
  <2>1. Iterates(Q, <<>>, G, N)
    BY <1>1, <1>2 DEF Iterates
  <2>2. PICK g : Iteration(g, Q, <<>>, G, N)
    BY <2>1, Iterated
  <2> QED
    BY ONLY <2>2 DEF Iteration
<1>4. \A n \in 1 .. N : g[n] = next(n, g[n - 1]) /\ g[n - 1] \in Q
  <2> TAKE n \in 1 .. N
  <2>1. n \in Nat /\ n - 1 \in 0 .. N
    OBVIOUS
  <2>2. <<n, g[n - 1]>> \in Nat \X Q
    BY <1>3, <2>1
  <2> QED
    BY <1>3, <2>2
<1> DEFINE upto(x) == x = [i \in 0 .. N |->
              IF i = 0 THEN <<>> ELSE IF c[i] \in S THEN Append(x[i - 1], c[i]) ELSE x[i - 1]]
<1>6. \E x : upto(x)
  <2>1. \A i \in 0 .. N : i # 0 => i \in 1 .. N
    OBVIOUS
  <2>2. \A i \in 0 .. N : g[i] = IF i = 0 THEN <<>> ELSE next(i, g[i - 1])
    BY <1>3, <1>4, <2>1
  <2>3. upto(g)
    BY <1>3, <2>2
  <2> HIDE DEF upto
  <2> QED
    BY <2>3
<1> PICK h : h = CHOOSE x : upto(x)
  OBVIOUS
<1>7. among(c, S) = h[N]
  BY DEF among
<1>8. upto(h)
  <2> HIDE DEF upto
  <2> QED
    BY <1>6
<1>9. h[0] = <<>> /\ \A i \in 1 .. N : h[i] = next(i, h[i - 1])
  <2>1. h = [i \in 0 .. N |-> IF i = 0 THEN <<>> ELSE next(i, h[i - 1])]
    BY <1>8
  <2>2. \A i \in 0 .. N : h[i] = IF i = 0 THEN <<>> ELSE next(i, h[i - 1])
    BY ONLY <2>1
  <2>3. 0 \in 0 .. N /\ \A i \in 1 .. N : i \in 0 .. N /\ i # 0
    OBVIOUS
  <2> QED
    BY <2>2, <2>3
<1> DEFINE Is(m) == /\ h[m] \in Q
                    /\ \A x : x \in ToSet(h[m]) <=> x \in S /\ \E i \in 1 .. m : c[i] = x
                    /\ IsInjective(c) => IsInjective(h[m])
           P == {m \in Nat : m <= N => Is(m)}
<1>10. 0 \in P
  <2>1. 1 .. 0 = {} /\ h[0] = <<>> /\ <<>> \in Seq(D) /\ Len(<<>>) = 0
    BY <1>9, EmptySeq
  <2>2. \A x : x \notin ToSet(<<>>)
    BY <2>1, ToSetIs
  <2>3. IsInjective(<<>>)
    BY <2>1, ToSetIs
  <2>4. Is(0)
    BY <2>1, <2>2, <2>3
  <2> HIDE DEF Is
  <2> QED
    BY <2>4
<1>11. ASSUME NEW m \in Nat, m \in P PROVE m + 1 \in P
  <2> PICK k \in Nat : k = m + 1
    OBVIOUS
  <2> HIDE DEF P
  <2> SUFFICES ASSUME k <= N PROVE Is(k)
    BY DEF P
  <2>1. Is(m)
    <3>1. m <= N
      OBVIOUS
    <3> HIDE DEF Is
    <3> QED
      BY <1>11, <3>1 DEF P
  <2>2. k \in 1 .. N /\ k - 1 = m
    OBVIOUS
  <2>3. h[k] = next(k, h[m])
    BY ONLY <1>9, <2>2
  <2>4. \A i : i \in 1 .. k <=> i \in 1 .. m \/ i = k
    OBVIOUS
  <2>5. CASE c[k] \notin S
    <3>1. h[k] = h[m]
      BY <2>3, <2>5
    <3>2. \A x : x \in ToSet(h[k]) <=> x \in S /\ \E i \in 1 .. k : c[i] = x
      BY ONLY <2>1, <2>4, <2>5, <3>1
    <3> QED
      BY <2>1, <3>1, <3>2
  <2>6. CASE c[k] \in S
    <3>1. h[m] \in Seq(D) /\ c[k] \in D
      BY <1>c, <2>1, <2>2
    <3>2. PICK e : e = <<c[k]>>
      OBVIOUS
    <3>3. e \in Seq(D) /\ ToSet(e) = {c[k]} /\ IsInjective(e)
      BY <3>1, <3>2, OneSet
    <3>4. h[k] = h[m] \o e
      <4>1. h[k] = Append(h[m], c[k])
        BY <2>3, <2>6
      <4> QED
        BY ONLY <3>1, <3>2, <4>1, AppendIsConcat
    <3>5. /\ h[k] \in Seq(D) /\ ToSet(h[k]) = ToSet(h[m]) \cup {c[k]}
          /\ IsInjective(h[m]) /\ c[k] \notin ToSet(h[m]) => IsInjective(h[k])
      BY ONLY <3>1, <3>3, <3>4, ConcatSet
    <3>6. \A x : x \in ToSet(h[k]) <=> x \in S /\ \E i \in 1 .. k : c[i] = x
      BY ONLY <2>1, <2>4, <2>6, <3>5
    <3>7. ASSUME IsInjective(c) PROVE IsInjective(h[k])
      <4>1. \A i, j \in 1 .. N : c[i] = c[j] => i = j
        BY <3>7, ToSetIs
      <4>2. \A i \in 1 .. m : i \in 1 .. N /\ i # k
        BY <2>2
      <4>3. c[k] \notin ToSet(h[m])
        BY ONLY <2>1, <2>2, <4>1, <4>2
      <4> QED
        BY <2>1, <3>5, <3>7, <4>3
    <3> QED
      BY <3>5, <3>6, <3>7
  <2> QED
    BY <2>5, <2>6
<1> HIDE DEF P, Is
<1>12. Is(N)
  <2>1. Nat \subseteq P /\ N <= N
    BY <1>10, <1>11, Induct
  <2> QED
    BY <2>1 DEF P
<1>13. \A x : x \in ToSet(c) <=> \E i \in 1 .. N : c[i] = x
  BY ToSetIs
<1> QED
  BY ONLY <1>7, <1>12, <1>13, Q = Seq(D) DEF Is

\* A sweep of a chain visits what comes before the first object that stops it.
LEMMA VisitedIs ==
  ASSUME NEW D, NEW c \in Seq(D)
  PROVE  \E n \in 0 .. Len(c) :
           /\ visited(c) = SubSeq(c, 1, n)
           /\ \A i \in 1 .. n : ~stopsAt(c[i])
           /\ n < Len(c) => stopsAt(c[n + 1])
<1> PICK N \in Nat : N = Len(c)
  BY LenProperties
<1>1. CASE ~\E i \in 1 .. N : stopsAt(c[i])
  <2>1. visited(c) = c
    BY <1>1 DEF visited
  <2>2. SubSeq(c, 1, N) = c
    BY SubSeqFull
  <2>3. N \in 0 .. N /\ ~(N < N)
    OBVIOUS
  <2> QED
    BY <1>1, <2>1, <2>2, <2>3
<1>2. CASE \E i \in 1 .. N : stopsAt(c[i])
  <2> PICK I : I = {i \in 1 .. N : stopsAt(c[i])}
    OBVIOUS
  <2>1. I # {} /\ I \subseteq Nat
    BY <1>2
  <2>2. \E m \in I : \A j \in I : m <= j
    <3>1. PICK R : IsWellFoundedOn(R, Nat) /\ R = OpToRel(<, Nat)
      BY NatLessThanWellFounded
    <3>2. PICK m \in I : \A j \in I : <<j, m>> \notin R
      BY <2>1, <3>1, WFMin
    <3>3. \A j \in I : ~(j < m)
      BY <2>1, <3>1, <3>2 DEF OpToRel
    <3>4. \A j \in I : m <= j
      BY <2>1, <3>3
    <3> QED
      BY <3>4
  <2> PICK m : m = CHOOSE x \in I : \A y \in I : x <= y
    OBVIOUS
  <2>3. m \in I /\ \A y \in I : m <= y
    BY <2>2
  <2>4. SelectInSeq(c, stopsAt) = m
    BY <2>1 DEF SelectInSeq, Min
  <2>5. visited(c) = SubSeq(c, 1, m - 1)
    BY <1>2, <2>4 DEF visited
  <2>6. m \in 1 .. N /\ m - 1 \in 0 .. N /\ (m - 1) + 1 = m
    BY <2>3
  <2>7. stopsAt(c[m])
    BY <2>3
  <2>8. \A i \in 1 .. m - 1 : ~stopsAt(c[i])
    <3>1. ASSUME NEW i \in 1 .. m - 1, stopsAt(c[i]) PROVE FALSE
      <4>1. i \in 1 .. N /\ ~(m <= i)
        BY <2>6
      <4>2. i \in I
        BY <3>1, <4>1
      <4> QED
        BY <2>3, <4>1, <4>2
    <3> QED
      BY <3>1
  <2> QED
    BY <2>5, <2>6, <2>7, <2>8
<1> QED
  BY <1>1, <1>2

\* What it leaves are the survivors, all of which are old behind where it stopped.
LEMMA SweptIs ==
  ASSUME NEW c \in Seq(Sym), IsInjective(c), oldSuffix(c, 0)
  PROVE  /\ swept(c) \in Seq(Sym) /\ IsInjective(swept(c))
         /\ ToSet(visited(c)) \subseteq ToSet(c)
         /\ \A x : x \in ToSet(swept(c)) <=> x \in ToSet(c) /\ (x \in ToSet(visited(c)) => ~isdead(x))
         /\ \A x \in ToSet(c) \ ToSet(visited(c)) : gcnextmode = GC_GENMODE /\ old[x]
<1> PICK N \in Nat : N = Len(c)
  BY LenProperties
<1>1. PICK n \in 0 .. N : /\ visited(c) = SubSeq(c, 1, n)
                          /\ n < N => stopsAt(c[n + 1])
  BY VisitedIs
<1> PICK p : p = SubSeq(c, 1, n)
  OBVIOUS
<1> PICK q : q = SubSeq(c, n + 1, N)
  OBVIOUS
<1>2. /\ p \in Seq(Sym) /\ Len(p) = n /\ \A i \in 1 .. n : p[i] = c[i]
  <2>1. 1 \in 1 .. N + 1 /\ n \in 1 - 1 .. N
    OBVIOUS
  <2>2. \A i \in 1 .. n : i \in 1 .. (n - 1) + 1 /\ (1 + i) - 1 = i
    OBVIOUS
  <2>3. n - 1 + 1 = n
    OBVIOUS
  <2> QED
    BY <2>1, <2>2, <2>3, SubSeqProperties
<1>3. /\ q \in Seq(Sym) /\ Len(q) = N - n /\ \A i \in 1 .. N - n : q[i] = c[n + i]
  <2> PICK m : m = n + 1
    OBVIOUS
  <2>1. m \in 1 .. N + 1 /\ N \in m - 1 .. N /\ (N - m) + 1 = N - n
    OBVIOUS
  <2>2. \A i \in 1 .. N - n : (m + i) - 1 = n + i
    OBVIOUS
  <2>3. /\ SubSeq(c, m, N) \in Seq(Sym) /\ Len(SubSeq(c, m, N)) = (IF m <= N THEN (N - m) + 1 ELSE 0)
        /\ \A i \in 1 .. (N - m) + 1 : SubSeq(c, m, N)[i] = c[(m + i) - 1]
    BY <2>1, SubSeqProperties
  <2> QED
    BY <2>1, <2>2, <2>3
<1>4. /\ \A x : x \in ToSet(c) <=> \E i \in 1 .. N : c[i] = x
      /\ \A i, j \in 1 .. N : c[i] = c[j] => i = j
  BY ToSetIs
<1>5. /\ \A x : x \in ToSet(p) <=> \E i \in 1 .. n : c[i] = x
      /\ IsInjective(p)
  <2>1. \A i \in 1 .. n : i \in 1 .. N
    OBVIOUS
  <2>2. \A x : x \in ToSet(p) <=> \E i \in 1 .. n : p[i] = x
    BY ONLY <1>2, ToSetIs
  <2>3. \A i, j \in 1 .. Len(p) : p[i] = p[j] => i = j
    BY ONLY <1>2, <1>4, <2>1
  <2>4. IsInjective(p)
    BY ONLY <1>2, <2>3, ToSetIs
  <2> QED
    BY ONLY <1>2, <2>2, <2>4
<1>6. /\ \A x : x \in ToSet(q) <=> \E i \in n + 1 .. N : c[i] = x
      /\ IsInjective(q)
  <2>1. \A x : x \in ToSet(q) <=> \E i \in 1 .. N - n : q[i] = x
    <3>1. \A x : x \in ToSet(q) <=> \E i \in 1 .. Len(q) : q[i] = x
      BY ONLY <1>3, ToSetIs
    <3> QED
      BY ONLY <1>3, <3>1
  <2>2. \A i \in 1 .. N - n : n + i \in n + 1 .. N /\ n + i \in 1 .. N
    OBVIOUS
  <2>3. \A i \in n + 1 .. N : i - n \in 1 .. N - n /\ n + (i - n) = i
    OBVIOUS
  <2>4. \A i \in n + 1 .. N : q[i - n] = c[i]
    BY <1>3, <2>3
  <2>5. ASSUME NEW i \in 1 .. N - n, NEW j \in 1 .. N - n, q[i] = q[j] PROVE i = j
    <3>1. n + i = n + j
      BY <1>3, <1>4, <2>2, <2>5
    <3> QED
      BY <3>1
  <2>6. IsInjective(q)
    <3>1. \A i, j \in 1 .. Len(q) : q[i] = q[j] => i = j
      BY ONLY <1>3, <2>5
    <3> QED
      BY ONLY <1>3, <3>1, ToSetIs
  <2> QED
    BY ONLY <1>3, <2>1, <2>2, <2>3, <2>4, <2>6
<1>7. \A i \in 1 .. N : i \in 1 .. n \/ i \in n + 1 .. N
  OBVIOUS
<1>8. \A i \in 1 .. n, j \in n + 1 .. N : i \in 1 .. N /\ j \in 1 .. N /\ i # j
  OBVIOUS
<1>9. ToSet(p) \cap ToSet(q) = {} /\ ToSet(c) = ToSet(p) \cup ToSet(q)
  <2>1. ToSet(p) \cap ToSet(q) = {}
    BY ONLY <1>4, <1>5, <1>6, <1>8
  <2>2. ToSet(p) \cup ToSet(q) \subseteq ToSet(c)
    <3>1. \A i \in 1 .. n : i \in 1 .. N
      OBVIOUS
    <3>2. \A i \in n + 1 .. N : i \in 1 .. N
      OBVIOUS
    <3> QED
      BY ONLY <1>4, <1>5, <1>6, <3>1, <3>2
  <2>3. ToSet(c) \subseteq ToSet(p) \cup ToSet(q)
    BY ONLY <1>4, <1>5, <1>6, <1>7
  <2> QED
    BY ONLY <2>1, <2>2, <2>3
<1> PICK a : a = among(p, survivors)
  OBVIOUS
<1>10. /\ a \in Seq(Sym) /\ \A x : x \in ToSet(a) <=> x \in ToSet(p) \cap survivors
       /\ IsInjective(a)
  BY <1>2, <1>5, AmongIs
<1>11. swept(c) = a \o q
  BY <1>1, <1>2 DEF swept
<1>12. /\ a \o q \in Seq(Sym) /\ ToSet(a \o q) = ToSet(a) \cup ToSet(q)
       /\ IsInjective(a \o q)
  <2>1. ToSet(a) \cap ToSet(q) = {}
    BY ONLY <1>9, <1>10
  <2> QED
    BY ONLY <1>3, <1>6, <1>10, <2>1, ConcatSet
<1>13. visited(c) = p /\ ToSet(p) \subseteq Sym
  BY <1>1, <1>2, ToSetIs
<1>14. \A x : x \in ToSet(swept(c)) <=> x \in ToSet(c) /\ (x \in ToSet(visited(c)) => ~isdead(x))
  BY <1>9, <1>10, <1>11, <1>12, <1>13 DEF survivors
<1>15. \A x \in ToSet(c) \ ToSet(visited(c)) : gcnextmode = GC_GENMODE /\ old[x]
  <2> TAKE x \in ToSet(c) \ ToSet(visited(c))
  <2>0. x \in ToSet(q)
    BY <1>9, <1>13
  <2> PICK i \in n + 1 .. N : c[i] = x
    BY <1>6, <2>0
  <2>1. n < N /\ n + 1 \in 0 + 1 .. N /\ i \in 0 + 1 .. N
    OBVIOUS
  <2>2. gcnextmode = GC_GENMODE /\ old[c[n + 1]]
    BY <1>1, <2>1 DEF stopsAt
  <2>3. i = n + 1 \/ n + 1 < i
    OBVIOUS
  <2> PICK m : m = n + 1
    OBVIOUS
  <2> QED
    BY <2>1, <2>2, <2>3 DEF oldSuffix
<1> QED
  BY <1>9, <1>11, <1>12, <1>13, <1>14, <1>15

LEMMA SlotIs ==
  ASSUME NEW s \in Sym, NEW n \in Nat \ {0}
  PROVE  slot(s, n) \in 1 .. n
<1>1. Hash[s] \in Nat
  BY ConstantTypes
<1>2. \A a \in Nat, b \in Nat \ {0} : a % b \in 0 .. b - 1
  OBVIOUS
<1>3. Hash[s] % n \in 0 .. n - 1
  BY <1>1, <1>2
<1> PICK k : k = Hash[s] % n
  OBVIOUS
<1> QED
  BY <1>3 DEF slot

LEMMA SymbolsKept ==
  ASSUME Symbols, symArray' = symArray,
         \A s \in Sym : (s \in alloc' <=> s \in alloc) /\ old'[s] = old[s]
  PROVE  Symbols'
<1>1. \A i \in 1 .. nbrAvail : ToSet(symArray[i]) = alloc' \cap ofSlot(i, nbrAvail)
  BY DEF Symbols, ofSlot
<1>2. \A i \in 1 .. nbrAvail : oldSuffix(symArray[i], 0)'
  <2> TAKE i \in 1 .. nbrAvail
  <2>1. symArray[i] \in Seq(Sym)
    BY DEF Symbols, nbrAvail
  <2>2. \A j \in 0 + 1 .. Len(symArray[i]) : symArray[i][j] \in Sym
    BY <2>1
  <2> QED
    BY <2>2 DEF Symbols, oldSuffix
<1> QED
  BY <1>1, <1>2 DEF Symbols, nbrAvail, ofSlot, slot

\* A new size puts every symbol in its slot, and none is old any more.
LEMMA SymbolsResized ==
  ASSUME IInv, Symbols, NEW size \in Nat \ {0}, sym_resize_tbl(size), alloc' = alloc
  PROVE  Symbols' /\ nbrAvail' = size
<1> PICK flat : flat = FlattenSeq(symArray)
  OBVIOUS
<1>1. nbrAvail \in Nat /\ nbrAvail >= 1
  BY LenProperties DEF Symbols, nbrAvail
<1>2. /\ flat \in Seq(Sym)
      /\ \A x : x \in ToSet(flat) <=> \E i \in 1 .. nbrAvail : x \in ToSet(symArray[i])
      /\ Disjoint(symArray) => IsInjective(flat)
  BY <1>1, FlatSet DEF Symbols, nbrAvail
<1>3. /\ \A i \in 1 .. nbrAvail : IsInjective(symArray[i])
      /\ \A i \in 1 .. nbrAvail : ToSet(symArray[i]) = alloc \cap ofSlot(i, nbrAvail)
  BY DEF Symbols
<1>4. IsInjective(flat)
  <2>1. \A i, j \in 1 .. nbrAvail : i # j => ToSet(symArray[i]) \cap ToSet(symArray[j]) = {}
    BY <1>3 DEF ofSlot
  <2> QED
    BY <1>2, <1>3, <2>1 DEF Disjoint, nbrAvail
<1>5. ToSet(flat) = alloc \cap Sym
  <2>1. \A s \in Sym : slot(s, nbrAvail) \in 1 .. nbrAvail
    BY <1>1, SlotIs
  <2> QED
    BY <1>2, <1>3, <2>1 DEF ofSlot
<1>6. /\ symArray' = [i \in 1 .. size |-> Reverse(among(flat, ofSlot(i, size)))]
      /\ old' = [x \in Obj |-> old[x] /\ x \notin alloc \cap Sym]
  BY DEF sym_resize_tbl
<1>7. \A i \in 1 .. size : /\ symArray'[i] \in Seq(Sym) /\ IsInjective(symArray'[i])
                           /\ ToSet(symArray'[i]) = alloc \cap ofSlot(i, size)
  <2> TAKE i \in 1 .. size
  <2> PICK a : a = among(flat, ofSlot(i, size))
    OBVIOUS
  <2>1. /\ a \in Seq(Sym) /\ IsInjective(a)
        /\ \A x : x \in ToSet(a) <=> x \in ToSet(flat) \cap ofSlot(i, size)
    BY <1>2, <1>4, AmongIs
  <2>2. Reverse(a) \in Seq(Sym) /\ ToSet(Reverse(a)) = ToSet(a) /\ IsInjective(Reverse(a))
    BY ONLY <2>1, ReverseSet
  <2>3. symArray'[i] = Reverse(a)
    BY <1>6
  <2>4. ToSet(a) = alloc \cap ofSlot(i, size)
    BY <1>5, <2>1 DEF ofSlot
  <2> QED
    BY ONLY <2>2, <2>3, <2>4
<1>8. symArray' \in Seq(Seq(Sym)) /\ nbrAvail' = size
  <2> PICK Q : Q = Seq(Sym)
    OBVIOUS
  <2>1. symArray' \in [1 .. size -> Q]
    BY <1>6, <1>7
  <2>2. symArray' \in Seq(Q) /\ Len(symArray') = size
    BY ONLY <2>1, size \in Nat \ {0}
  <2> QED
    BY <2>2 DEF nbrAvail
<1>9. \A x \in Sym : ~old'[x]
  <2>1. Sym \subseteq Obj /\ \A x \in Sym \ alloc : ~old[x]
    BY DEF Obj, Symbols
  <2> QED
    BY <1>6, <2>1
<1>10. \A i \in 1 .. size : oldSuffix(symArray[i], 0)'
  <2> TAKE i \in 1 .. size
  <2>1. \A j \in 0 + 1 .. Len(symArray'[i]) : symArray'[i][j] \in Sym
    BY <1>7
  <2> QED
    BY <1>9, <2>1 DEF oldSuffix
<1>11. \A i \in 1 .. size : ToSet(symArray'[i]) = alloc' \cap ofSlot(i, size)
  BY <1>7
<1> QED
  BY <1>7, <1>8, <1>9, <1>10, <1>11 DEF Symbols, nbrAvail, ofSlot, slot

\* newSym puts the new symbol, which is young, at the head of its chain.
LEMMA SymbolsAdded ==
  ASSUME IInv, Symbols, NEW s \in Sym, s \notin alloc,
         alloc' = alloc \cup {s}, old' = old,
         symArray' = [symArray EXCEPT ![slot(s, nbrAvail)] = <<s>> \o @]
  PROVE  Symbols' /\ nbrAvail' = nbrAvail
<1> PICK n \in Nat \ {0} : n = nbrAvail
  BY LenProperties DEF Symbols, nbrAvail
<1> PICK k \in 1 .. n : k = slot(s, nbrAvail)
  BY SlotIs
<1>1. /\ symArray \in [1 .. n -> Seq(Sym)]
      /\ \A i \in 1 .. n : /\ IsInjective(symArray[i]) /\ oldSuffix(symArray[i], 0)
                           /\ ToSet(symArray[i]) = alloc \cap ofSlot(i, n)
      /\ \A x \in Sym \ alloc : ~old[x]
  BY DEF Symbols, nbrAvail
<1> PICK c : c = symArray[k]
  OBVIOUS
<1> PICK d : d = <<s>> \o c
  OBVIOUS
<1>2. c \in Seq(Sym) /\ IsInjective(c) /\ ToSet(c) = alloc \cap ofSlot(k, n) /\ Len(c) \in Nat
  BY <1>1, LenProperties
<1>3. d \in Seq(Sym) /\ IsInjective(d) /\ ToSet(d) = ToSet(c) \cup {s}
  <2>1. PICK e : e = <<s>> /\ e \in Seq(Sym) /\ ToSet(e) = {s} /\ IsInjective(e)
    BY OneSet
  <2>2. ToSet(e) \cap ToSet(c) = {}
    BY <1>2, <2>1
  <2>3. /\ e \o c \in Seq(Sym) /\ ToSet(e \o c) = ToSet(e) \cup ToSet(c) /\ IsInjective(e \o c)
    BY ONLY <1>2, <2>1, <2>2, ConcatSet
  <2> QED
    BY <2>1, <2>3
<1>4. Len(d) = Len(c) + 1 /\ d[1] = s /\ \A i \in 2 .. Len(d) : i - 1 \in 1 .. Len(c) /\ d[i] = c[i - 1]
  BY <1>2
<1>5. /\ symArray' \in [1 .. n -> Seq(Sym)] /\ symArray'[k] = d
      /\ \A i \in 1 .. n : i # k => symArray'[i] = symArray[i]
  BY <1>1, <1>3
<1>6. symArray' \in Seq(Seq(Sym)) /\ nbrAvail' = n
  <2> PICK Q : Q = Seq(Sym)
    OBVIOUS
  <2>1. symArray' \in [1 .. n -> Q]
    BY <1>5
  <2>2. symArray' \in Seq(Q) /\ Len(symArray') = n
    BY ONLY <2>1, n \in Nat \ {0}
  <2> QED
    BY <2>2 DEF nbrAvail
<1>7. \A i \in 1 .. n : s \in ofSlot(i, n) <=> i = k
  BY DEF ofSlot
<1>8. \A i \in 1 .. n : IsInjective(symArray'[i]) /\ ToSet(symArray'[i]) = alloc' \cap ofSlot(i, n)
  <2> TAKE i \in 1 .. n
  <2>1. CASE i = k
    BY <1>2, <1>3, <1>5, <1>7, <2>1
  <2>2. CASE i # k
    BY <1>1, <1>5, <1>7, <2>2
  <2> QED
    BY <2>1, <2>2
<1>9. \A i \in 1 .. n : oldSuffix(symArray[i], 0)'
  <2> TAKE i \in 1 .. n
  <2>1. CASE i = k
    <3>1. ~old[s]
      BY <1>1
    <3>2. \A a, b \in 0 + 1 .. Len(c) : a < b /\ old[c[a]] => old[c[b]]
      BY <1>1 DEF oldSuffix
    <3>3. ASSUME NEW a \in 0 + 1 .. Len(d), NEW b \in 0 + 1 .. Len(d), a < b, old[d[a]]
          PROVE  old[d[b]]
      <4>1. a # 1
        BY <1>4, <3>1, <3>3
      <4>2. a \in 2 .. Len(d) /\ b \in 2 .. Len(d)
        BY <1>2, <1>4, <3>3, <4>1
      <4>3. a - 1 \in 0 + 1 .. Len(c) /\ b - 1 \in 0 + 1 .. Len(c) /\ a - 1 < b - 1
        BY <1>2, <1>4, <3>3, <4>2
      <4>4. d[a] = c[a - 1] /\ d[b] = c[b - 1]
        BY <1>4, <4>2
      <4>5. old[c[a - 1]] => old[c[b - 1]]
        BY <3>2, <4>3
      <4> QED
        BY <3>3, <4>4, <4>5
    <3> QED
      BY <1>5, <2>1, <3>3 DEF oldSuffix
  <2>2. CASE i # k
    BY <1>1, <1>5, <2>2 DEF oldSuffix
  <2> QED
    BY <2>1, <2>2
<1>10. \A x \in Sym \ alloc' : ~old'[x]
  BY <1>1
<1> QED
  BY ONLY <1>6, <1>8, <1>9, <1>10, n \in Nat \ {0}, n = nbrAvail DEF Symbols, nbrAvail, ofSlot, slot

\* A sweep step over some of the chains.
LEMMA SymbolsSweepStep ==
  ASSUME IInv, Symbols, Counts, SweepSymbols
  PROVE  Symbols' /\ nbrAvail' = nbrAvail
<1> PICK n \in Nat \ {0} : n = nbrAvail
  BY LenProperties DEF Symbols, nbrAvail
<1>1. /\ symArray \in [1 .. n -> Seq(Sym)]
      /\ \A i \in 1 .. n : /\ IsInjective(symArray[i]) /\ oldSuffix(symArray[i], 0)
                           /\ ToSet(symArray[i]) = alloc \cap ofSlot(i, n)
      /\ \A x \in Sym \ alloc : ~old[x]
  BY DEF Symbols, nbrAvail
<1>2. PICK slots : LET V == {s \in Sym : \E i \in slots : s \in ToSet(visited(symArray[i]))}
                   IN  /\ sweepobjs(V) /\ slots \subseteq 1 .. n
                       /\ symArray' = [i \in 1 .. n |-> IF i \in slots THEN swept(symArray[i]) ELSE symArray[i]]
  <2>1. sweepsymgc + 1 .. (IF sweepsymgc + SweepMax < nbrAvail THEN sweepsymgc + SweepMax ELSE nbrAvail)
          \subseteq 1 .. n
    <3>1. sweepsymgc \in Nat /\ SweepMax \in Nat
      BY ConstantTypes DEF Counts
    <3> QED
      BY <3>1
  <2> QED
    BY <2>1 DEF SweepSymbols
<1> PICK V : V = {s \in Sym : \E i \in slots : s \in ToSet(visited(symArray[i]))}
  OBVIOUS
<1>3. \A i \in 1 .. n :
        /\ swept(symArray[i]) \in Seq(Sym) /\ IsInjective(swept(symArray[i]))
        /\ ToSet(visited(symArray[i])) \subseteq ToSet(symArray[i])
        /\ \A x : x \in ToSet(swept(symArray[i])) <=>
             x \in ToSet(symArray[i]) /\ (x \in ToSet(visited(symArray[i])) => ~isdead(x))
        /\ \A x \in ToSet(symArray[i]) \ ToSet(visited(symArray[i])) : gcnextmode = GC_GENMODE /\ old[x]
  BY <1>1, SweptIs
<1>4. \A i \in 1 .. n : \A x \in ToSet(symArray[i]) :
        x \in V <=> i \in slots /\ x \in ToSet(visited(symArray[i]))
  <2> SUFFICES ASSUME NEW i \in 1 .. n, NEW x \in ToSet(symArray[i])
               PROVE  x \in V <=> i \in slots /\ x \in ToSet(visited(symArray[i]))
    OBVIOUS
  <2>1. x \in Sym /\ slot(x, n) = i
    BY <1>1 DEF ofSlot
  <2>2. \A j \in slots : x \in ToSet(visited(symArray[j])) => j = i
    <3> TAKE j \in slots
    <3>1. j \in 1 .. n
      BY <1>2
    <3>2. x \in ToSet(visited(symArray[j])) => x \in ofSlot(j, n)
      BY <1>1, <1>3, <3>1
    <3> QED
      BY <2>1, <3>2 DEF ofSlot
  <2> QED
    BY <2>1, <2>2
<1>5. V \subseteq alloc \cap Sym
  BY <1>1, <1>2, <1>3
<1>6. /\ \A x \in Sym : x \in alloc' <=> x \in alloc /\ ~(x \in V /\ isdead(x))
      /\ \A x \in Sym : x \notin V => old'[x] = old[x]
      /\ \A x \in Sym : x \in V => (old'[x] <=> ~isdead(x) /\ gcnextmode = GC_GENMODE)
  <2>1. sweepobjs(V) /\ Sym \subseteq Obj
    BY <1>2 DEF Obj
  <2> QED
    BY <2>1 DEF sweepobjs
<1>7. \A i \in 1 .. n : symArray'[i] = IF i \in slots THEN swept(symArray[i]) ELSE symArray[i]
  BY <1>2
<1>8. \A i \in 1 .. n : symArray'[i] \in Seq(Sym) /\ IsInjective(symArray'[i])
  <2> TAKE i \in 1 .. n
  <2>1. symArray[i] \in Seq(Sym) /\ IsInjective(symArray[i])
    BY <1>1
  <2>2. swept(symArray[i]) \in Seq(Sym) /\ IsInjective(swept(symArray[i]))
    BY <1>3
  <2> QED
    BY <1>7, <2>1, <2>2
<1>9. \A i \in 1 .. n : \A x : x \in ToSet(symArray'[i]) <=> x \in ToSet(symArray[i]) /\ ~(x \in V /\ isdead(x))
  <2> TAKE i \in 1 .. n
  <2>1. CASE i \in slots
    <3>1. symArray'[i] = swept(symArray[i])
      BY <1>7, <2>1
    <3> QED
      BY <1>3, <1>4, <2>1, <3>1
  <2>2. CASE i \notin slots
    <3>1. symArray'[i] = symArray[i]
      BY <1>7, <2>2
    <3> QED
      BY <1>4, <2>2, <3>1
  <2> QED
    BY <2>1, <2>2
<1>10. \A i \in 1 .. n : ToSet(symArray'[i]) = alloc' \cap ofSlot(i, n)
  <2> TAKE i \in 1 .. n
  <2>1. \A x : x \in ToSet(symArray[i]) <=> x \in alloc /\ x \in ofSlot(i, n)
    BY <1>1
  <2>2. ofSlot(i, n) \subseteq Sym
    BY DEF ofSlot
  <2> QED
    BY <1>6, <1>9, <2>1, <2>2
<1>11. \A i \in 1 .. n : oldSuffix(symArray[i], 0)'
  <2> SUFFICES ASSUME NEW i \in 1 .. n PROVE oldSuffix(symArray[i], 0)'
    OBVIOUS
  <2>0. symArray[i] \in Seq(Sym) /\ ToSet(symArray[i]) \subseteq Sym
    BY <1>1, ToSetIs
  <2>1. CASE i \in slots
    <3>1. \A x \in ToSet(symArray[i]) : old'[x] => gcnextmode = GC_GENMODE
      BY <1>3, <1>4, <1>6, <2>0, <2>1
    <3>2. gcnextmode = GC_GENMODE => \A x \in ToSet(symArray'[i]) : old'[x]
      BY <1>3, <1>4, <1>6, <1>9, <2>0, <2>1
    <3>3. \A j \in 0 + 1 .. Len(symArray'[i]) : symArray'[i][j] \in ToSet(symArray'[i])
      BY <1>8, ToSetIs
    <3> QED
      BY <1>9, <3>1, <3>2, <3>3 DEF oldSuffix
  <2>2. CASE i \notin slots
    <3>1. symArray'[i] = symArray[i]
      BY <1>7, <2>2
    <3>2. \A x \in ToSet(symArray[i]) : old'[x] = old[x]
      BY <1>4, <1>6, <2>0, <2>2
    <3>3. \A j \in 0 + 1 .. Len(symArray[i]) : symArray[i][j] \in ToSet(symArray[i])
      BY <2>0, ToSetIs
    <3> QED
      BY <1>1, <3>1, <3>2, <3>3 DEF oldSuffix
  <2> QED
    BY <2>1, <2>2
<1>12. symArray' \in Seq(Seq(Sym)) /\ nbrAvail' = n
  <2> PICK Q : Q = Seq(Sym)
    OBVIOUS
  <2>1. symArray' \in [1 .. n -> Q]
    BY <1>2, <1>7, <1>8
  <2>2. symArray' \in Seq(Q) /\ Len(symArray') = n
    BY ONLY <2>1, n \in Nat \ {0}
  <2> QED
    BY <2>2 DEF nbrAvail
<1>13. \A x \in Sym \ alloc' : ~old'[x]
  BY <1>1, <1>5, <1>6
<1> QED
  BY ONLY <1>8, <1>10, <1>11, <1>12, <1>13, n \in Nat \ {0}, n = nbrAvail DEF Symbols, nbrAvail, ofSlot, slot

-----------------------------------------------------------------------------
(***************************************************************************)
(* The symbol table and the counts after each step.                        *)
(***************************************************************************)
LEMMA UsedIsNat ==
  nbrUsed \in Nat
<1>1. IsFiniteSet(alloc \cap Sym)
  BY ConstantTypes, FS_Subset
<1> QED
  BY <1>1, FS_CardinalityType DEF nbrUsed

LEMMA TriggerIs ==
  ASSUME NEW n \in Nat
  PROVE  upToTrigger(n) \in 0 .. OldTrigger
BY ConstantTypes DEF upToTrigger

LEMMA CountsKept ==
  ASSUME Symbols, Counts, gcnbrold' \in 0 .. OldTrigger, sweepsymgc' = sweepsymgc,
         nbrAvail' = nbrAvail \/ gcstate' # "sweepsymbol",
         gcstate' = "sweepsymbol" => gcstate = "sweepsymbol"
  PROVE  Counts'
<1>1. nbrAvail' = nbrAvail \/ gcstate' # "sweepsymbol"
  OBVIOUS
<1> QED
  BY <1>1 DEF Counts

LEMMA ProgramSymbols ==
  ASSUME IInv, SInv, Mutator
  PROVE  SInv'
<1> USE DEF SInv
<1>0. Sym \cap (Node \cup Thr) = {}
  BY KindsAreDisjoint
<1>1. gcnbrold' = gcnbrold /\ sweepsymgc' = sweepsymgc /\ gcstate' = gcstate
  <2>1. ASSUME NEW t \in Threads, NEW v \in Obj,
               \/ pushValue(t, v) \/ popValue(t, v)
               \/ \E u \in Threads : copyToStack(t, u, v)
               \/ \E p \in Node : setElement(t, p, v) \/ removeElement(t, p, v)
        PROVE  UNCHANGED <<cycleVars, sweepsymgc>>
    BY <2>1 DEF pushValue, popValue, copyToStack, setElement, removeElement, sweepVars
  <2>2. ASSUME NEW t \in Threads,
               \/ callMorCPrep(t) \/ \E o \in Node : mem_new(t, o)
               \/ \E s \in Sym : newSymFound(t, s) \/ newSymGrows(t, s) \/ newSymAdded(t, s)
               \/ \E n \in Thr : newThread(t, n) \/ thrInit(t, n)
        PROVE  UNCHANGED <<cycleVars, sweepsymgc>>
    BY <2>2 DEF callMorCPrep, mem_new, newSymFound, newSymGrows, newSymAdded, newThread, thrInit, sweepVars
  <2>3. ASSUME NEW mode \in FullRequests, mem_gcfull(mode)
        PROVE  UNCHANGED <<gcstate, gcnbrold, sweepsymgc>>
    BY <2>3 DEF mem_gcfull, sweepVars
  <2> QED
    BY <2>1, <2>2, <2>3 DEF Mutator, cycleVars
<1>2. ASSUME symArray' = symArray, \A s \in Sym : (s \in alloc' <=> s \in alloc), old' = old
      PROVE  SInv'
  <2>1. nbrAvail' = nbrAvail
    BY <1>2 DEF nbrAvail
  <2>2. Counts'
    BY <1>1, <2>1, CountsKept DEF Counts
  <2> QED
    BY <1>2, <2>2, SymbolsKept
<1>3. ASSUME NEW t \in Threads, NEW v \in Obj,
             \/ pushValue(t, v) \/ popValue(t, v)
             \/ \E u \in Threads : copyToStack(t, u, v)
             \/ \E p \in Node : setElement(t, p, v) \/ removeElement(t, p, v)
      PROVE  SInv'
  <2>1. symArray' = symArray /\ alloc' = alloc /\ old' = old
    BY <1>3 DEF pushValue, popValue, copyToStack, setElement, removeElement, markVars
  <2> QED
    BY <1>2, <2>1
<1>4. ASSUME NEW t \in Threads, callMorCPrep(t)
      PROVE  SInv'
  <2>1. symArray' = symArray /\ alloc' = alloc /\ old' = old
    BY <1>4 DEF callMorCPrep, markVars
  <2> QED
    BY <1>2, <2>1
<1>5. ASSUME NEW t \in Threads, NEW o \in Node, mem_new(t, o)
      PROVE  SInv'
  <2>1. symArray' = symArray /\ alloc' = alloc \cup {o} /\ old' = old
    BY <1>5 DEF mem_new
  <2> QED
    BY <1>0, <1>2, <2>1
<1>6. ASSUME NEW t \in Threads, NEW s \in Sym, newSymFound(t, s)
      PROVE  SInv'
  <2>1. symArray' = symArray /\ alloc' = alloc /\ old' = old
    BY <1>6 DEF newSymFound
  <2> QED
    BY <1>2, <2>1
<1>7. ASSUME NEW t \in Threads, NEW s \in Sym, newSymGrows(t, s)
      PROVE  SInv'
  <2>1. sym_resize_tbl(2 * nbrAvail) /\ alloc' = alloc
    BY <1>7 DEF newSymGrows
  <2> PICK n \in Nat \ {0} : n = nbrAvail
    BY LenProperties DEF Symbols, nbrAvail
  <2>2. 2 * n \in Nat \ {0} /\ n <= 2 * n
    OBVIOUS
  <2> PICK size : size = 2 * n
    OBVIOUS
  <2>3. Symbols' /\ nbrAvail' = size
    BY <2>1, <2>2, SymbolsResized
  <2>4. Counts'
    BY <1>1, <2>2, <2>3 DEF Counts
  <2> QED
    BY <2>3, <2>4
<1>8. ASSUME NEW t \in Threads, NEW s \in Sym, newSymAdded(t, s)
      PROVE  SInv'
  <2>1. /\ s \notin alloc /\ alloc' = alloc \cup {s} /\ old' = old
        /\ symArray' = [symArray EXCEPT ![slot(s, nbrAvail)] = <<s>> \o @]
    BY <1>8 DEF newSymAdded
  <2>2. Symbols' /\ nbrAvail' = nbrAvail
    BY <2>1, SymbolsAdded
  <2>3. Counts'
    BY <1>1, <2>2, CountsKept DEF Counts
  <2> QED
    BY <2>2, <2>3
<1>9. ASSUME NEW t \in Threads, NEW n \in Thr, newThread(t, n) \/ thrInit(t, n)
      PROVE  SInv'
  <2>1. symArray' = symArray /\ alloc' \in {alloc, alloc \cup {n}} /\ old' = old
    BY <1>9 DEF newThread, thrInit, markVars
  <2> QED
    BY <1>0, <1>2, <2>1
<1>10. ASSUME NEW mode \in FullRequests, mem_gcfull(mode)
       PROVE  SInv'
  <2>1. symArray' = symArray /\ alloc' = alloc /\ old' = old
    BY <1>10 DEF mem_gcfull, heapVars, markVars
  <2> QED
    BY <1>2, <2>1
<1> QED
  BY <1>3, <1>4, <1>5, <1>6, <1>7, <1>8, <1>9, <1>10 DEF Mutator

LEMMA CollectorSymbols ==
  ASSUME IInv, Listed, SInv, GCStep
  PROVE  SInv'
<1> USE DEF SInv
<1>0. Sym \cap (Node \cup Thr) = {} /\ Main \notin Sym /\ Sym \subseteq Obj
  BY KindsAreDisjoint DEF Obj
<1>1. ASSUME symArray' = symArray, \A s \in Sym : (s \in alloc' <=> s \in alloc) /\ old'[s] = old[s],
             gcnbrold' \in 0 .. OldTrigger,
             \/ sweepsymgc' = sweepsymgc /\ (gcstate' = "sweepsymbol" => gcstate = "sweepsymbol")
             \/ sweepsymgc' = 0
      PROVE  SInv'
  <2>1. nbrAvail' = nbrAvail
    BY <1>1 DEF nbrAvail
  <2>2. nbrAvail \in Nat /\ nbrAvail >= 1
    BY LenProperties DEF Symbols, nbrAvail
  <2>3. Counts'
    BY <1>1, <2>1, <2>2 DEF Counts
  <2> QED
    BY <1>1, <2>3, SymbolsKept
<1>2. gcnbrold \in 0 .. OldTrigger /\ 0 \in 0 .. OldTrigger /\ gcnbrold \in Nat
  BY ConstantTypes DEF Counts
<1>3. CASE \/ GCBegin \/ MarkTopGray \/ MarkDone \/ AtomicBegin \/ MarkThreads
           \/ SweepListEnd \/ ThreadsSwept
  <2>1. symArray' = symArray /\ alloc' = alloc /\ old' = old /\ sweepsymgc' = sweepsymgc
    BY <1>3 DEF GCBegin, MarkTopGray, MarkDone, AtomicBegin, MarkThreads, SweepListEnd, ThreadsSwept,
                heapVars, markVars, sweepVars
  <2>2. gcnbrold' \in {gcnbrold, 0}
    BY <1>3 DEF GCBegin, MarkTopGray, MarkDone, AtomicBegin, MarkThreads, SweepListEnd, ThreadsSwept,
                cycleVars
  <2>3. gcstate' = "sweepsymbol" => gcstate = "sweepsymbol"
    BY <1>3 DEF GCBegin, MarkTopGray, MarkDone, AtomicBegin, MarkThreads, SweepListEnd, ThreadsSwept,
                cycleVars, ListStates
  <2> QED
    BY <1>1, <1>2, <2>1, <2>2, <2>3
<1>4. CASE AtomicEnd
  <2>1. symArray' = symArray /\ alloc' = alloc /\ sweepsymgc' = 0
    BY <1>4 DEF AtomicEnd, heapVars
  <2>2. \A s \in Sym : old'[s] = old[s]
    BY <1>0, <1>4 DEF AtomicEnd, IInv, Types
  <2>3. upToTrigger(gcnbrold + 1) \in 0 .. OldTrigger
    BY <1>2, TriggerIs
  <2>4. gcnbrold' \in {gcnbrold, upToTrigger(gcnbrold + 1)}
    BY <1>4 DEF AtomicEnd
  <2> QED
    BY <1>1, <1>2, <2>1, <2>2, <2>3, <2>4
<1>5. CASE SweepSymbols
  <2>1. Symbols' /\ nbrAvail' = nbrAvail
    BY <1>5, SymbolsSweepStep
  <2>2. PICK V \in SUBSET Sym : sweepobjs(V)
    BY <1>5 DEF SweepSymbols
  <2>3. \A k \in SUBSET V : gcnbrold + Cardinality(k) \in Nat
    <3> TAKE k \in SUBSET V
    <3>1. IsFiniteSet(k)
      BY ConstantTypes, FS_Subset
    <3>2. Cardinality(k) \in Nat
      BY <3>1, FS_CardinalityType
    <3> QED
      BY <1>2, <3>2
  <2>4. PICK k \in SUBSET V : gcnbrold' \in {gcnbrold, upToTrigger(gcnbrold + Cardinality(k))}
    BY <2>2 DEF sweepobjs
  <2>5. gcnbrold' \in 0 .. OldTrigger
    BY <1>2, <2>3, <2>4, TriggerIs
  <2>6. nbrAvail \in Nat /\ sweepsymgc \in Nat /\ SweepMax \in Nat
    BY ConstantTypes, LenProperties DEF Symbols, nbrAvail, Counts
  <2>7. sweepsymgc' \in Nat /\ (gcstate' = "sweepsymbol" => sweepsymgc' < nbrAvail)
    BY <1>5, <2>6 DEF SweepSymbols
  <2> QED
    BY <2>1, <2>5, <2>7 DEF Counts
<1>6. CASE SweepElement
  <2>1. PICK o \in Node \cup Thr : sweepobjs({o})
    <3>1. sweepobjs({lists[gcstate][sweepgc + 1]})
      BY <1>6 DEF SweepElement
    <3>2. PICK o \in Node \cup Thr : o = lists[gcstate][sweepgc + 1]
      BY <1>6, SweptElement
    <3> QED
      BY <3>1, <3>2
  <2>2. \A s \in Sym : (s \in alloc' <=> s \in alloc) /\ old'[s] = old[s]
    BY <1>0, <2>1 DEF sweepobjs
  <2>3. PICK k \in SUBSET {o} : gcnbrold' \in {gcnbrold, upToTrigger(gcnbrold + Cardinality(k))}
    BY <2>1 DEF sweepobjs
  <2>4. IsFiniteSet({o}) /\ IsFiniteSet(k)
    BY FS_Singleton, FS_Subset
  <2>5. gcnbrold + Cardinality(k) \in Nat
    BY <1>2, <2>4, FS_CardinalityType
  <2>6. gcnbrold' \in 0 .. OldTrigger
    BY <1>2, <2>3, <2>5, TriggerIs
  <2>7. symArray' = symArray /\ sweepsymgc' = sweepsymgc /\ gcstate' = gcstate
    BY <1>6 DEF SweepElement
  <2> QED
    BY <1>1, <2>2, <2>6, <2>7
<1>7. CASE SweepEnd
  <2>1. alloc' = alloc /\ gcnbrold' = gcnbrold /\ sweepsymgc' = sweepsymgc /\ gcstate' = "begin"
    BY <1>7 DEF SweepEnd, sweepVars
  <2>2. CASE UNCHANGED <<symArray, old>>
    BY <1>1, <1>2, <2>1, <2>2
  <2>3. CASE nbrUsed < nbrAvail \div 2 /\ sym_resize_tbl(nbrAvail \div 2)
    <3>1. nbrAvail \in Nat
      BY LenProperties DEF Symbols, nbrAvail
    <3>2. \A n \in Nat : n \div 2 \in Nat
      OBVIOUS
    <3> PICK size : size = nbrAvail \div 2
      OBVIOUS
    <3>3. size \in Nat \ {0}
      <4>1. size \in Nat
        BY <3>1, <3>2
      <4> QED
        BY <2>3, <4>1, UsedIsNat
    <3>4. Symbols'
      BY <2>1, <2>3, <3>3, SymbolsResized
    <3>5. Counts'
      BY <1>2, <2>1 DEF Counts
    <3> QED
      BY <3>4, <3>5
  <2> QED
    BY <1>7, <2>2, <2>3 DEF SweepEnd
<1> QED
  BY <1>3, <1>4, <1>5, <1>6, <1>7 DEF GCStep

-----------------------------------------------------------------------------
(***************************************************************************)
(* The invariant of the symbol table, and what follows from it.            *)
(***************************************************************************)
LEMMA SymbolsInit ==
  ASSUME Init
  PROVE  SInv
<1>1. symArray \in [1 .. SymTblSize -> {<<>>}] /\ alloc = {Global} /\ SymTblSize \in Nat \ {0}
  BY ConstantTypes DEF Init
<1>2. <<>> \in Seq(Sym) /\ Len(<<>>) = 0 /\ ToSet(<<>>) = {} /\ IsInjective(<<>>)
  <2>1. <<>> \in Seq(Sym) /\ Len(<<>>) = 0 /\ 1 .. 0 = {}
    BY EmptySeq
  <2> QED
    BY <2>1, ToSetIs
<1>3. symArray \in Seq(Seq(Sym)) /\ nbrAvail = SymTblSize
  <2> PICK Q : Q = Seq(Sym)
    OBVIOUS
  <2>1. symArray \in [1 .. SymTblSize -> Q] /\ SymTblSize \in Nat
    BY <1>1, <1>2
  <2>2. symArray \in Seq(Q) /\ Len(symArray) = SymTblSize
    BY ONLY <2>1
  <2> QED
    BY <2>2 DEF nbrAvail
<1>4. \A i \in 1 .. nbrAvail : symArray[i] = <<>>
  BY <1>1, <1>3
<1>5. Global \notin Sym /\ Sym \subseteq Obj
  BY KindsAreDisjoint DEF Obj
<1>6. Symbols
  <2>1. \A i \in 1 .. nbrAvail : oldSuffix(symArray[i], 0)
    BY <1>2, <1>4 DEF oldSuffix
  <2>2. \A i \in 1 .. nbrAvail : ToSet(symArray[i]) = alloc \cap ofSlot(i, nbrAvail)
    BY <1>1, <1>2, <1>4, <1>5 DEF ofSlot
  <2>3. \A s \in Sym \ alloc : ~old[s]
    BY <1>5 DEF Init
  <2> QED
    BY <1>1, <1>2, <1>3, <1>4, <2>1, <2>2, <2>3 DEF Symbols
<1>7. Counts
  BY ConstantTypes DEF Init, Counts
<1> QED
  BY <1>6, <1>7 DEF SInv

LEMMA SymbolsStutter ==
  ASSUME SInv, UNCHANGED vars
  PROVE  SInv'
<1>1. UNCHANGED <<alloc, symArray, old, gcnbrold, sweepsymgc, gcstate>>
  BY DEF vars, heapVars, markVars, cycleVars, sweepVars
<1>2. Symbols'
  BY <1>1, SymbolsKept DEF SInv
<1>3. Counts'
  BY <1>1 DEF SInv, Counts, nbrAvail
<1> QED
  BY <1>2, <1>3 DEF SInv

\* The symbol table holds every allocated symbol once, in its slot, behind an old
\* one of a chain all are old, and the counts stay inside their bounds.
THEOREM SymbolsInductive == ASSUME Regular PROVE Spec => []SInv
<1>1. Init => SInv
  BY SymbolsInit
<1>2. IInv /\ FInv /\ SInv /\ [Next]_vars => SInv'
  BY ProgramSymbols, CollectorSymbols, SymbolsStutter DEF Next, FInv
<1> QED
  BY <1>1, <1>2, Inductive, FullInductive, PTL DEF Spec

\* Every variable keeps its type, the sweep position of a list stays inside it and
\* that of the symbol table inside the table, whose size changes in between.
THEOREM TypeIsKept == ASSUME Regular PROVE Spec => []TypeOK
<1>1. IInv /\ FInv /\ SInv => TypeOK
  <2> SUFFICES ASSUME Types, Listed, Doomed, Symbols, Counts PROVE TypeOK
    BY DEF IInv, FInv, SInv
  <2>1. alloc \subseteq Obj \ {Vm, Main}
    BY KindsAreDisjoint DEF Types, Obj, Threads
  <2>2. doomed \subseteq Obj
    BY <2>1 DEF Doomed
  <2>3. request \in [stage : 0 .. 3, mode : FullRequests \cup {GC_FULLMODE}]
    BY DEF Types
  <2>4. stale \in [Threads -> SUBSET Obj]
    BY DEF Types
  <2>5. {gcmode, gcnextmode} \subseteq {GC_FULLMODE, GC_EMERGENCY, GC_GENMODE}
    BY DEF Types
  <2> QED
    BY <2>1, <2>2, <2>3, <2>4, <2>5 DEF Types, Listed, Symbols, Counts, TypeOK
<1> QED
  BY <1>1, Inductive, FullInductive, SymbolsInductive, PTL

\* A sweep that stops at an old object misses nothing: behind it, in a list and in
\* a chain of the symbol table, all are old.
THEOREM OldBehindOld == ASSUME Regular PROVE Spec => []OldSuffix
<1>1. FInv /\ SInv => OldSuffix
  <2> SUFFICES ASSUME Olds, Symbols PROVE OldSuffix
    BY DEF FInv, SInv
  <2>1. \A k \in ListStates : oldSuffix(lists[k], position(k))
    BY DEF Olds
  <2> QED
    BY <2>1 DEF OldSuffix, position, Symbols
<1> QED
  BY <1>1, FullInductive, SymbolsInductive, PTL

\* Every allocated object is on exactly one chain, once, and a symbol on that of its
\* slot: newSym finds what exists and the sweep frees each object at most once.
THEOREM ChainsHoldAll == ASSUME Regular PROVE Spec => []ChainsHoldHeap
<1>1. IInv /\ FInv /\ SInv => ChainsHoldHeap
  <2> SUFFICES ASSUME Types, Listed, Symbols PROVE ChainsHoldHeap
    BY DEF IInv, FInv, SInv
  <2> PICK n \in Nat \ {0} : n = nbrAvail
    BY LenProperties DEF Symbols, nbrAvail
  <2>1. /\ \A i \in 1 .. n : ToSet(symArray[i]) = alloc \cap ofSlot(i, n)
        /\ \A i \in 1 .. n : IsInjective(symArray[i])
    BY DEF Symbols
  <2>2. \A c : c \in ToSet(symArray) <=> \E i \in 1 .. n : symArray[i] = c
    <3>1. PICK Q : Q = Seq(Sym)
      OBVIOUS
    <3>2. symArray \in Seq(Q) /\ Len(symArray) = n
      BY <3>1 DEF Symbols, nbrAvail
    <3> QED
      BY <3>2, ToSetIs
  <2> PICK chains : chains = {lists[k] : k \in ListStates} \cup ToSet(symArray)
    OBVIOUS
  <2>3. lists["sweep"] \in chains /\ lists["sweepthread"] \in chains
    BY DEF ListStates
  <2>4. \A c \in chains : \/ \E k \in ListStates : c = lists[k]
                          \/ \E i \in 1 .. n : c = symArray[i]
    BY <2>2
  <2>5. \A c \in chains : IsInjective(c)
    BY <2>1, <2>4 DEF Listed
  <2>6. \A c \in chains : ToSet(c) \subseteq alloc
    BY <2>1, <2>4 DEF Listed, ListStates
  <2>7. ASSUME NEW x \in alloc PROVE \E c \in chains : x \in ToSet(c)
    <3>1. CASE x \in Sym
      <4>1. slot(x, n) \in 1 .. n
        BY <3>1, SlotIs
      <4>2. x \in ToSet(symArray[slot(x, n)])
        BY <2>1, <2>7, <3>1, <4>1 DEF ofSlot
      <4> QED
        BY <2>2, <4>1, <4>2
    <3>2. CASE x \in Node \cup Thr
      BY <2>3, <2>7, <3>2 DEF Listed
    <3> QED
      BY <2>7, <3>1, <3>2 DEF Types
  <2>8. \A i \in 1 .. nbrAvail : \A s \in ToSet(symArray[i]) : slot(s, nbrAvail) = i
    BY <2>1 DEF ofSlot
  <2>9. alloc = UNION {ToSet(c) : c \in chains}
    BY <2>6, <2>7
  <2> QED
    BY <2>5, <2>8, <2>9 DEF ChainsHoldHeap
<1> QED
  BY <1>1, Inductive, FullInductive, SymbolsInductive, PTL
=============================================================================
