------------------------------- MODULE GCInv --------------------------------
(***************************************************************************)
(* The inductive invariant of the collector: why no reachable object is    *)
(* ever freed.  GCProofs proves it inductive; gc_nodes checks it first.    *)
(* It supposes that nobody asks for an emergency collection and that       *)
(* neither of the two deviations GC makes configurable happens.            *)
(***************************************************************************)
EXTENDS GC

\* What is supposed of the constants; MC runs with each part false find the
\* deviations README.md reports.
Regular == FullRequests \subseteq {GC_FULLMODE} /\ ~StepInThrInit /\ ~StaleRegisters

\* What can be reached from the VM when x points to r[x].
Reach(r) ==
  LET first  == {Vm} \cup r[Vm]
      closed == {S \in {first \cup more : more \in SUBSET (Obj \ first)} : \A y \in S : r[y] \subseteq S}
  IN  {x \in Obj : \A S \in closed : x \in S}
Live == Reach(refs)

Types ==
  /\ alloc \subseteq Node \cup Sym \cup Thr
  /\ refs \in [Obj -> SUBSET Obj]
  /\ color \in [Obj -> Colors] /\ old \in [Obj -> BOOLEAN]
  /\ lists \in [ListStates -> Seq(Node \cup Thr)]
  /\ gray \subseteq Obj
  /\ currentwhite \in White /\ gcstate \in States /\ gcbarrieron \in BOOLEAN
  /\ gcmode \in {GC_FULLMODE, GC_GENMODE} /\ gcnextmode \in {GC_FULLMODE, GC_GENMODE}
  /\ sweepgc \in {NULL} \cup Nat
  /\ request \in [stage : 0 .. 3, mode : {GC_FULLMODE}]
  /\ building \subseteq Threads \X (Sym \cup Thr)
  /\ stale = [t \in Threads |-> {}]

\* The VM points to its two roots; symbols and freed objects point to nothing;
\* the lists miss no object.
Shape ==
  /\ refs[Vm] = {Main, Global}
  /\ \A x \in Obj : x \in Sym \/ x \notin alloc \cup {Vm, Main} => refs[x] = {}
  /\ alloc \cap Node \subseteq ToSet(lists["sweep"])
  /\ alloc \cap Thr \subseteq ToSet(lists["sweepthread"])

\* An allocation that the collector interrupted is made by a live thread; a thread
\* that is being set up was not touched since it was allocated.
Building ==
  \A b \in building :
    /\ b[1] \in Live
    /\ b[2] \in Thr => b[2] \in alloc /\ color[b[2]] = currentwhite

\* When the write barrier is on: while marking, and between two cycles if the
\* next one is generational and so starts from what is black already.
Barrier ==
  /\ gcstate \in {"mark", "atomic"} \cup InAtomic => gcbarrieron
  /\ gcstate \in SweepStates => (gcbarrieron <=> gcnextmode = GC_GENMODE)
  /\ gcstate = "begin" => (gcbarrieron <=> gcmode = GC_GENMODE)

LiveAllocated == Live \subseteq alloc \cup {Vm, Main}
LiveNotDead   == \A x \in Live : ~isdead(x)
VmBlack       == color[Vm] = "black"

BlackAboveNoWhite ==
  gcbarrieron => \A p \in Live \ Threads :
                   color[p] = "black" => \A c \in refs[p] : color[c] \notin White
GrayListed ==
  gcbarrieron => \A o \in Live \ (Threads \cup Sym) : color[o] = "gray" => o \in gray

\* Before the root is marked nothing is, but symbols, which hold no pointers.
Unmarked == Live \ (Sym \cup {Vm})
WhiteAtBegin ==
  gcstate = "begin" /\ gcmode = GC_FULLMODE => \A x \in Unmarked : color[x] \in White

\* The part of a list that the sweep has still to visit.
ahead(k) == {lists[k][i] : i \in {j \in 1 .. Len(lists[k]) : sweepgc # NULL /\ sweepgc < j}}
unswept ==
  CASE gcstate = "sweepsymbol" -> ToSet(lists["sweepthread"]) \cup ToSet(lists["sweep"])
    [] gcstate = "sweepthread" -> ahead("sweepthread") \cup ToSet(lists["sweep"])
    [] gcstate = "sweep" -> ahead("sweep")
    [] OTHER -> {}
\* A sweep that prepares for a full cycle whitens all it has passed.
SweptWhite ==
  gcstate \in SweepStates /\ gcnextmode = GC_FULLMODE =>
    \A x \in Unmarked : color[x] \in White \/ x \in unswept

\* Once the stacks were scanned nothing white is on any of them.
StacksScanned ==
  gcstate = "markrest" =>
    \A t \in Threads \cap (alloc \cup {Main}) : \A c \in refs[t] : color[c] \notin White

Colours ==
  /\ LiveAllocated /\ LiveNotDead /\ VmBlack
  /\ BlackAboveNoWhite /\ GrayListed
  /\ WhiteAtBegin /\ SweptWhite /\ StacksScanned

IInv == Types /\ Shape /\ Building /\ Barrier /\ Colours
=============================================================================
