--------------------------------- MODULE GC ---------------------------------
(***************************************************************************)
(* The garbage collector of the Acorn VM (src/avmlib/avm_gc.cpp), with the *)
(* allocation entry points that drive it (avm_memory.cpp), the symbol      *)
(* table it sweeps (avm_symbol.cpp) and the program that keeps changing    *)
(* the heap between two of its steps.                                      *)
(*                                                                         *)
(* It is a tri-colour, incremental, optionally generational mark and       *)
(* sweep.  Every entry point that allocates may first run collector steps  *)
(* (mem_gccheck), so between any two operations of the program the         *)
(* collector advances by any number of steps: that is the interleaving of  *)
(* Mutator and GCStep below.  How much one call advances (gctrigger,       *)
(* gcstepunits) is pacing and is left out.                                 *)
(***************************************************************************)
EXTENDS Integers, Sequences, FiniteSets, SequencesExt

CONSTANTS
  Node,     \* collections: strings, arrays, tables, methods, lexers, compilers
  Sym,      \* symbols; they hold no pointers
  Thr,      \* yielders: threads other than the main thread
  Main,     \* the main thread, part of the VmInfo block
  Vm,       \* the VM itself, root of every full mark
  Global,   \* the global namespace table, created by newVM
  Hash,     \* Hash[s]: hash of symbol s
  SymTblSize,   \* AVM_SYMTBLMINSIZE, a power of two
  SweepMax,     \* GCSWEEPMAX: symbol chains swept in one step
  OldTrigger,   \* GCOLDTRIGGER
  FullRequests, \* the modes with which mem_gcfull may be called
  StepInThrInit, \* may the mem_gccheck inside thrInit run a collector step?
  StaleRegisters, \* do a method's registers start with what earlier calls left there?
  LoadContext, \* bound: the threads that load themselves as a value
  MaxRefs,  \* bound: pointers one object holds
  MaxStack  \* bound: pointers one stack holds

Threads == Thr \cup {Main}
Obj     == Node \cup Sym \cup Threads \cup {Vm}

GC_FULLMODE  == 0   \* also what gcnextmode holds while it is undecided
GC_EMERGENCY == 1
GC_GENMODE   == 2
NULL == -1          \* a sweepgc that points nowhere

ASSUME KindsAreDisjoint ==
  /\ Node \cap Sym = {} /\ Node \cap Thr = {} /\ Sym \cap Thr = {}
  /\ {Main, Vm} \cap (Node \cup Sym \cup Thr) = {} /\ Main # Vm
  /\ Global \in Node
ASSUME ConstantTypes ==
  /\ IsFiniteSet(Sym)
  /\ Hash \in [Sym -> Nat]
  /\ SymTblSize \in Nat \ {0} /\ SweepMax \in Nat \ {0} /\ OldTrigger \in Nat
  /\ FullRequests \subseteq {GC_FULLMODE, GC_EMERGENCY}
  /\ StepInThrInit \in BOOLEAN /\ StaleRegisters \in BOOLEAN
  /\ LoadContext \subseteq Threads
  /\ MaxRefs \in Nat /\ MaxStack \in Nat

VARIABLES
  alloc,    \* objects whose memory is allocated (Vm and Main always are)
  refs,     \* refs[x]: what x points to; a freed object points to nothing
  color,    \* the white and black bits of "marked"; gray is neither
  old,      \* the old bit of "marked"
  lists,    \* the object chains, by the state that sweeps them, newest first
  symArray, \* the symbol table: one chain of symbols per slot, newest first
  gray,     \* the gray list (its order is immaterial)
  currentwhite,
  gcstate, gcmode, gcnextmode, gcbarrieron,
  gcnbrold, \* objects turned old since the last full cycle, up to OldTrigger
  sweepsymgc, \* next symbol chain to sweep
  sweepgc,  \* elements of the swept list before the sweep position, or NULL
  request,  \* what is left to do of a mem_gcfull in progress
  building, \* <<thread, object>> of an allocation the collector may interrupt
  stale,    \* stale[t]: what the slots above stk_top of t's stack still hold
  doomed    \* history: unreachable when the full cycle began, not yet freed

heapVars   == <<alloc, refs, lists, symArray>>
markVars   == <<color, old, gray>>
cycleVars  == <<gcstate, gcmode, gcnextmode, gcbarrieron, gcnbrold, currentwhite>>
sweepVars  == <<sweepsymgc, sweepgc>>
progVars   == <<request, building, stale>>
vars == <<heapVars, markVars, cycleVars, sweepVars, progVars, doomed>>

White  == {"white0", "white1"}
Colors == White \cup {"gray", "black"}
\* sweepthread and sweep walk lists; the two states between atomic and
\* sweepsymbol are points inside mem_markatomic, where the program is stopped.
ListStates  == {"sweepthread", "sweep"}
SweepStates == ListStates \cup {"sweepsymbol"}
InAtomic    == {"markatomic", "markrest"}
States      == {"begin", "mark", "atomic"} \cup InAtomic \cup SweepStates

H == INSTANCE Heap WITH Root <- Vm, alloc <- alloc \cup {Vm, Main}
Reachable == H!Reachable

Otherwhite == IF currentwhite = "white0" THEN "white1" ELSE "white0"
isdeadUnflipped(o) == color[o] = currentwhite  \* a slip: the whites mistaken
isdead(o)  == color[o] = Otherwhite
\* The collector runs inside an allocation, and inside thrInit if so configured.
collects   == \A b \in building : b[2] \in Thr => StepInThrInit
nbrAvail   == Len(symArray)
nbrUsed    == Cardinality(alloc \cap Sym)
-----------------------------------------------------------------------------
(***************************************************************************)
(* Marking.  mem_markobj on every member of S, from the colours c and the  *)
(* gray list g: white symbols become black, other white objects become     *)
(* gray and join the list.  Which white they have makes no difference.     *)
(*                                                                         *)
(* Operators whose comment starts with "a slip" are no part of the model:  *)
(* each is the next definition with a mistake in it, and README.md says    *)
(* which property finds it.                                                *)
(***************************************************************************)
\* a slip: the object turns gray and is not put on the gray list
markobjUnlisted(c, g, S) ==
  /\ color' = [x \in Obj |-> IF x \notin S \/ c[x] \notin White THEN c[x]
                             ELSE IF x \in Sym THEN "black" ELSE "gray"]
  /\ gray' = g

markobj(c, g, S) ==
  LET whites == {x \in S : c[x] \in White}
  IN  /\ color' = [x \in Obj |-> IF x \notin whites THEN c[x]
                                 ELSE IF x \in Sym THEN "black" ELSE "gray"]
      /\ gray' = g \cup (whites \ Sym)

\* a slip: no barrier once marking is over, although the next cycle is generational
markChkInMark(parent, val) ==
  {x \in {val} : gcstate \in {"mark", "atomic"} /\ color[parent] = "black" /\ color[x] \in White}
\* The write barrier: what storing val in parent has to mark.
markChk(parent, val) ==
  {x \in {val} : gcbarrieron /\ color[parent] = "black" /\ color[x] \in White /\ ~isdead(x)}

\* a slip: the root is marked in the other mode
marksRootInGen == gcmode = GC_GENMODE
marksRoot == gcmode = GC_FULLMODE

\* A cycle starts; only one in full mode marks from the root.
GCBegin ==
  /\ collects
  /\ gcstate = "begin"
  /\ gcstate' = "mark"
  /\ gcbarrieron' = TRUE
  /\ IF marksRoot
       THEN /\ markobj(color, {}, refs[Vm])
            /\ doomed' = (alloc \ Sym) \ H!ReachFrom({Vm} \cup UNION {refs[t] : t \in Threads})
       ELSE UNCHANGED <<color, gray, doomed>>
  /\ UNCHANGED <<heapVars, old, gcmode, gcnextmode, gcnbrold, currentwhite,
                 sweepVars, progVars>>

\* Pop a gray object and mark what it holds. A thread is not scanned here, and
\* until the atomic phase it does not even turn black.
MarkTopGray ==
  /\ collects
  /\ gcstate \in {"mark"} \cup InAtomic
  /\ \E o \in gray :
       IF o \in Threads
       THEN /\ gray' = gray \ {o}
            /\ color' = [color EXCEPT ![o] = IF gcstate = "mark" THEN "gray" ELSE "black"]
       ELSE markobj([color EXCEPT ![o] = "black"], gray \ {o}, refs[o])
  /\ UNCHANGED <<heapVars, old, cycleVars, sweepVars, progVars, doomed>>

MarkDone ==
  /\ collects
  /\ gcstate = "mark" /\ gray = {}
  /\ gcstate' = "atomic"
  /\ UNCHANGED <<heapVars, markVars, gcmode, gcnextmode, gcbarrieron, gcnbrold,
                 currentwhite, sweepVars, progVars, doomed>>
-----------------------------------------------------------------------------
(***************************************************************************)
(* The atomic phase: decide what the sweep prepares for, finish marking    *)
(* with the program stopped, exchange the whites.                          *)
(***************************************************************************)
AtomicBegin ==
  /\ collects
  /\ gcstate = "atomic"
  /\ gcstate' = "markatomic"
  /\ gcnextmode' = IF gcnextmode # 0 THEN gcnextmode
                   ELSE IF gcnbrold >= OldTrigger THEN GC_FULLMODE ELSE GC_GENMODE
  /\ gcnbrold' = IF gcnextmode' = GC_GENMODE THEN gcnbrold ELSE 0
  /\ UNCHANGED <<heapVars, markVars, gcmode, gcbarrieron, currentwhite,
                 sweepVars, progVars, doomed>>

\* assert(!iswhite(mainthread)): a white main thread aborts the program here.
MainNotWhite == color[Main] \notin White

\* a slip: only the main thread's stack
scannedMain == {Main}
\* Every thread in the list is scanned, those about to be swept included.
scanned == {Main} \cup ToSet(lists["sweepthread"])

MarkThreads ==
  /\ collects
  /\ gcstate = "markatomic" /\ gray = {}
  /\ MainNotWhite
  /\ gcstate' = "markrest"
  /\ markobj([color EXCEPT ![Main] = "black"], gray, UNION {refs[t] : t \in scanned})
  /\ UNCHANGED <<heapVars, old, gcmode, gcnextmode, gcbarrieron, gcnbrold, currentwhite,
                 sweepVars, progVars, doomed>>

\* min(n, OldTrigger): the count is only ever compared with the trigger.
upToTrigger(n) == IF n < OldTrigger THEN n ELSE OldTrigger

\* The whites are exchanged, and the main thread, which is in no list, is swept.
AtomicEnd ==
  /\ collects
  /\ gcstate = "markrest" /\ gray = {}
  /\ gcstate' = "sweepsymbol"
  /\ sweepsymgc' = 0
  /\ currentwhite' = Otherwhite
  /\ gcbarrieron' = (gcbarrieron /\ gcnextmode # GC_FULLMODE)
  /\ IF gcnextmode = GC_GENMODE
       THEN /\ old' = [old EXCEPT ![Main] = TRUE]
            /\ gcnbrold' = IF old[Main] THEN gcnbrold ELSE upToTrigger(gcnbrold + 1)
            /\ UNCHANGED color
       ELSE /\ color' = [color EXCEPT ![Main] = Otherwhite]
            /\ old' = [old EXCEPT ![Main] = FALSE]
            /\ UNCHANGED gcnbrold
  /\ UNCHANGED <<heapVars, gray, gcmode, gcnextmode, sweepgc, progVars, doomed>>
-----------------------------------------------------------------------------
(***************************************************************************)
(* Sweeping.  mem_sweeplist visits objects: a dead one is freed; a         *)
(* survivor turns old (and keeps its colour) when the next cycle is        *)
(* generational, and is whitened otherwise.                                *)
(***************************************************************************)
sweepobjs(visited) ==
  LET freed == {x \in visited : isdead(x)}
      kept  == visited \ freed
      gen   == gcnextmode = GC_GENMODE
  IN  /\ alloc' = alloc \ freed
      /\ refs' = [x \in Obj |-> IF x \in freed THEN {} ELSE refs[x]]
      /\ color' = [x \in Obj |-> IF x \in freed THEN "white0"
                                 ELSE IF x \in kept /\ ~gen THEN currentwhite ELSE color[x]]
      /\ old' = [x \in Obj |-> IF x \in freed THEN FALSE
                               ELSE IF x \in kept THEN gen ELSE old[x]]
      /\ gcnbrold' = IF gen THEN upToTrigger(gcnbrold + Cardinality(kept)) ELSE gcnbrold
      /\ doomed' = doomed \ freed

\* a slip: every sweep stops there
stopsAtOld(x) == old[x] /\ ~isdead(x)
\* An old survivor: where a generational sweep of a list stops.
stopsAt(x) == gcnextmode = GC_GENMODE /\ old[x] /\ ~isdead(x)

\* What mem_sweepwholelist visits of a chain, and what it leaves of it.
visited(c) ==
  IF \E i \in 1 .. Len(c) : stopsAt(c[i])
    THEN SubSeq(c, 1, SelectInSeq(c, stopsAt) - 1)
    ELSE c
\* The objects of list c that are in S, in the order they have in c.
among(c, S) ==
  LET upto[i \in 0 .. Len(c)] ==
        IF i = 0 THEN <<>> ELSE IF c[i] \in S THEN Append(upto[i - 1], c[i]) ELSE upto[i - 1]
  IN  upto[Len(c)]
survivors == {s \in Sym : ~isdead(s)}
\* a slip: what was not visited is lost
sweptPrefix(c) == among(visited(c), survivors)
swept(c) == among(visited(c), survivors) \o SubSeq(c, Len(visited(c)) + 1, Len(c))

SweepSymbols ==
  LET upto  == IF sweepsymgc + SweepMax < nbrAvail THEN sweepsymgc + SweepMax ELSE nbrAvail
      slots == sweepsymgc + 1 .. upto
  IN  /\ collects
      /\ gcstate = "sweepsymbol"
      /\ sweepobjs({s \in Sym : \E i \in slots : s \in ToSet(visited(symArray[i]))})
      /\ symArray' = [i \in 1 .. nbrAvail |-> IF i \in slots THEN swept(symArray[i]) ELSE symArray[i]]
      /\ IF upto >= nbrAvail
           THEN gcstate' = "sweepthread" /\ sweepgc' = 0
           ELSE UNCHANGED <<gcstate, sweepgc>>
      /\ sweepsymgc' = upto
  /\ UNCHANGED <<lists, gray, gcmode, gcnextmode, gcbarrieron, currentwhite,
                 progVars>>

\* One element of the thread list or of the object list.
SweepElement ==
  LET o == lists[gcstate][sweepgc + 1]
  IN  /\ collects
      /\ gcstate \in ListStates /\ sweepgc # NULL
      /\ sweepgc < Len(lists[gcstate])
      /\ ~stopsAt(o)
      /\ sweepobjs({o})
      /\ IF isdead(o)
           THEN /\ lists' = [lists EXCEPT ![gcstate] = RemoveAt(@, sweepgc + 1)]
                /\ UNCHANGED sweepgc
           ELSE /\ sweepgc' = sweepgc + 1
                /\ UNCHANGED lists
  /\ UNCHANGED <<symArray, gray, gcstate, gcmode, gcnextmode, gcbarrieron, currentwhite,
                 sweepsymgc, progVars>>

\* The end of the list, or its first old survivor.
SweepListEnd ==
  /\ collects
  /\ gcstate \in ListStates /\ sweepgc # NULL
  /\ \/ sweepgc = Len(lists[gcstate])
     \/ sweepgc < Len(lists[gcstate]) /\ stopsAt(lists[gcstate][sweepgc + 1])
  /\ sweepgc' = NULL
  /\ UNCHANGED <<heapVars, markVars, cycleVars, sweepsymgc, progVars, doomed>>

ThreadsSwept ==
  /\ collects
  /\ gcstate = "sweepthread" /\ sweepgc = NULL
  /\ gcstate' = "sweep" /\ sweepgc' = 0
  /\ UNCHANGED <<heapVars, markVars, gcmode, gcnextmode, gcbarrieron, gcnbrold, currentwhite,
                 sweepsymgc, progVars, doomed>>

\* sym_resize_tbl: symbols move to other chains, each to the head of its new one.
\* They are no longer in age order, so none may stop a sweep (the MOVE OLD rule).
slot(s, size) == (Hash[s] % size) + 1
ofSlot(i, size) == {s \in Sym : slot(s, size) = i}
\* a slip: without the MOVE OLD rule
sym_resize_tblOld(newsize) ==
  /\ symArray' = [i \in 1 .. newsize |-> Reverse(among(FlattenSeq(symArray), ofSlot(i, newsize)))]
  /\ UNCHANGED old
sym_resize_tbl(newsize) ==
  /\ symArray' = [i \in 1 .. newsize |-> Reverse(among(FlattenSeq(symArray), ofSlot(i, newsize)))]
  /\ old' = [x \in Obj |-> old[x] /\ x \notin alloc \cap Sym]

nextRequest == [request EXCEPT !.stage = IF @ = 0 THEN 0 ELSE @ - 1]

\* The cycle ends: the symbol table may shrink, the modes move up, and a
\* mem_gcfull in progress goes on to its next cycle.
SweepEnd ==
  /\ collects
  /\ gcstate = "sweep" /\ sweepgc = NULL
  /\ gcstate' = "begin"
  /\ IF gcmode # GC_EMERGENCY /\ nbrUsed < nbrAvail \div 2
       THEN sym_resize_tbl(nbrAvail \div 2)
       ELSE UNCHANGED <<symArray, old>>
  /\ gcmode' = gcnextmode
  /\ gcnextmode' = IF request.stage = 3 THEN request.mode ELSE 0
  /\ request' = nextRequest
  /\ doomed' = {}
  /\ UNCHANGED <<alloc, refs, lists, color, gray, gcbarrieron, gcnbrold, currentwhite,
                 sweepVars, building, stale>>
-----------------------------------------------------------------------------
(***************************************************************************)
(* The program, between two collector steps. It has only the pointers it   *)
(* can load: a running thread t finds the global table, itself, what its   *)
(* stack holds, and the elements of the collections among these.           *)
(***************************************************************************)
Runs(t) ==
  /\ request.stage = 0 /\ building = {} /\ gcstate \notin InAtomic
  /\ t = Main \/ (t \in alloc /\ t \in Reachable)
held(t) ==
  LET loaded == {Global} \cup ({t} \cap LoadContext) \cup refs[t]
  IN  loaded \cup UNION {refs[p] : p \in loaded \cap Node}
stackRoom(t, v) == Cardinality(refs[t] \cup {v}) <= MaxStack

\* pushValue, setLocal: a value goes on the running thread's stack, with a
\* barrier check for which the thread is the parent.
pushValue(t, v) ==
  /\ v \in held(t) /\ stackRoom(t, v)
  /\ Runs(t)
  /\ refs' = [refs EXCEPT ![t] = @ \cup {v}]
  /\ markobj(color, gray, markChk(t, v))
  /\ UNCHANGED <<alloc, lists, symArray, old, cycleVars, sweepVars, progVars, doomed>>

\* Every other write to a stack has no barrier: registers, return values, what is
\* passed to or yielded by another thread u, and u's yieldTo, which is then t.
copyToStack(t, u, v) ==
  /\ u \in {t} \cup (refs[t] \cap Threads)
  /\ v \in held(t) \/ (v = t /\ u # t)
  /\ stackRoom(u, v)
  /\ Runs(t)
  /\ refs' = [refs EXCEPT ![u] = @ \cup {v}]
  /\ UNCHANGED <<alloc, lists, symArray, markVars, cycleVars, sweepVars, progVars, doomed>>

\* stk_top moves down and the slot keeps its value.
popValue(t, v) ==
  /\ v \in refs[t]
  /\ Runs(t)
  /\ refs' = [refs EXCEPT ![t] = @ \ {v}]
  /\ stale' = IF StaleRegisters THEN [stale EXCEPT ![t] = @ \cup {v}] ELSE stale
  /\ UNCHANGED <<alloc, lists, symArray, markVars, cycleVars, sweepVars, request, building, doomed>>

\* callMorCPrep: stk_top moves above all the registers of a byte-code method.
\* Only its parameters were written, the others hold what was left there.
callMorCPrep(t) ==
  /\ Runs(t)
  /\ \E left \in SUBSET stale[t] :
       /\ Cardinality(refs[t] \cup left) <= MaxStack
       /\ refs' = [refs EXCEPT ![t] = @ \cup left]
  /\ UNCHANGED <<alloc, lists, symArray, markVars, cycleVars, sweepVars, progVars, doomed>>

\* arrSet, tblSet and the like: v goes into collection p, perhaps over another value.
setElement(t, p, v) ==
  /\ p \in held(t) \cap Node /\ v \in held(t)
  /\ Runs(t)
  /\ \E over \in {{}} \cup {{w} : w \in refs[p]} :
       /\ Cardinality((refs[p] \ over) \cup {v}) <= MaxRefs
       /\ refs' = [refs EXCEPT ![p] = (@ \ over) \cup {v}]
  /\ markobj(color, gray, markChk(p, v))
  /\ UNCHANGED <<alloc, lists, symArray, old, cycleVars, sweepVars, progVars, doomed>>

\* arrDel, tblRemove
removeElement(t, p, v) ==
  /\ p \in held(t) \cap Node /\ v \in refs[p]
  /\ Runs(t)
  /\ refs' = [refs EXCEPT ![p] = @ \ {v}]
  /\ UNCHANGED <<alloc, lists, symArray, markVars, cycleVars, sweepVars, progVars, doomed>>

\* a slip: new objects at the end
linkedLast(k, o) == Append(lists[k], o)
linked(k, o) == <<o>> \o lists[k]
\* a slip: whatever is being swept
shiftedAlways(k) == sweepgc + 1
\* A list grows at its head: a sweep that has left the head is one further in.
shifted(k) == IF gcstate = k /\ sweepgc > 0 THEN sweepgc + 1 ELSE sweepgc

\* mem_new, with the new object anchored on the stack of its creator.
mem_new(t, o) ==
  /\ o \notin alloc /\ stackRoom(t, o)
  /\ Runs(t)
  /\ alloc' = alloc \cup {o}
  /\ lists' = [lists EXCEPT !["sweep"] = linked("sweep", o)]
  /\ refs' = [refs EXCEPT ![t] = @ \cup {o}]
  /\ color' = [color EXCEPT ![o] = currentwhite]
  /\ sweepgc' = shifted("sweep")
  /\ UNCHANGED <<symArray, old, gray, cycleVars, sweepsymgc, progVars, doomed>>

\* a slip: the dead stay dead
mem_keepaliveNever(s) == color
\* A dead symbol that was not swept yet is found again: it changes its white.
mem_keepalive(s) == [color EXCEPT ![s] = IF isdead(s) THEN currentwhite ELSE @]

newSymFound(t, s) ==
  /\ s \in alloc /\ stackRoom(t, s)
  /\ Runs(t)
  /\ color' = mem_keepalive(s)
  /\ refs' = [refs EXCEPT ![t] = @ \cup {s}]
  /\ UNCHANGED <<alloc, lists, symArray, old, gray, cycleVars, sweepVars, progVars, doomed>>

\* newSym finds the table full: it doubles, then the collector may run, then
\* (newSymAdded) the symbol is created.
newSymGrows(t, s) ==
  /\ s \notin alloc /\ stackRoom(t, s)
  /\ Runs(t)
  /\ nbrUsed >= nbrAvail
  /\ sym_resize_tbl(2 * nbrAvail)
  /\ building' = {<<t, s>>}
  /\ UNCHANGED <<alloc, refs, lists, color, gray, cycleVars, sweepVars, request, stale, doomed>>

newSymAdded(t, s) ==
  /\ building = {<<t, s>>} \/ (Runs(t) /\ nbrUsed < nbrAvail)
  /\ gcstate \notin InAtomic
  /\ s \notin alloc /\ stackRoom(t, s)
  /\ alloc' = alloc \cup {s}
  /\ refs' = [refs EXCEPT ![t] = @ \cup {s}]
  /\ color' = [color EXCEPT ![s] = currentwhite]
  /\ building' = {}
  /\ symArray' = [symArray EXCEPT ![slot(s, nbrAvail)] = <<s>> \o @]
  /\ UNCHANGED <<lists, old, gray, cycleVars, sweepVars, request, stale, doomed>>

\* newThread links the thread and then calls thrInit. The slot it was told to
\* store the thread in lies above stk_top, so nothing anchors it yet.
newThread(t, n) ==
  /\ n \notin alloc /\ stackRoom(t, n)
  /\ Runs(t)
  /\ alloc' = alloc \cup {n}
  /\ lists' = [lists EXCEPT !["sweepthread"] = linked("sweepthread", n)]
  /\ color' = [color EXCEPT ![n] = currentwhite]
  /\ sweepgc' = shifted("sweepthread")
  /\ building' = {<<t, n>>}
  /\ UNCHANGED <<refs, symArray, old, gray, cycleVars, sweepsymgc, request, stale, doomed>>

\* The rest of thrInit and of callMorCPrep: the parameters are copied to the
\* new thread's stack, and the thread to that of its creator.
thrInit(t, n) ==
  /\ building = {<<t, n>>} /\ gcstate \notin InAtomic
  /\ n \in alloc
  /\ \E parms \in SUBSET refs[t] :
       /\ Cardinality(parms) <= MaxStack
       /\ refs' = [refs EXCEPT ![n] = parms, ![t] = @ \cup {n}]
  /\ building' = {}
  /\ UNCHANGED <<alloc, lists, symArray, markVars, cycleVars, sweepVars, request, stale, doomed>>

\* mem_gcfull: finish a cycle whose successor is already decided (stage 3),
\* run a cycle in the current mode (2), then one in the mode asked for (1).
mem_gcfull(mode) ==
  /\ Runs(Main)
  /\ IF gcstate \in {"atomic"} \cup SweepStates
       THEN request' = [stage |-> 3, mode |-> mode] /\ UNCHANGED gcnextmode
       ELSE request' = [stage |-> 2, mode |-> mode] /\ gcnextmode' = mode
  /\ UNCHANGED <<heapVars, markVars, gcstate, gcmode, gcbarrieron, gcnbrold, currentwhite,
                 sweepVars, building, stale, doomed>>
-----------------------------------------------------------------------------
Init ==
  /\ alloc = {Global}
  /\ refs = [x \in Obj |-> IF x = Vm THEN {Main, Global} ELSE {}]
  /\ color = [x \in Obj |-> IF x = Vm THEN "black" ELSE "white0"]
  /\ old = [x \in Obj |-> FALSE]
  /\ lists = [k \in ListStates |-> IF k = "sweep" THEN <<Global>> ELSE <<>>]
  /\ symArray = [i \in 1 .. SymTblSize |-> <<>>]
  /\ gray = {}
  /\ currentwhite = "white0"
  /\ gcstate = "begin" /\ gcmode = GC_FULLMODE /\ gcnextmode = 0
  /\ gcbarrieron = FALSE /\ gcnbrold = 0
  /\ sweepsymgc = 0 /\ sweepgc = NULL
  /\ request = [stage |-> 0, mode |-> GC_FULLMODE]
  /\ building = {} /\ stale = [t \in Threads |-> {}] /\ doomed = {}

GCStep ==
  \/ GCBegin \/ MarkTopGray \/ MarkDone
  \/ AtomicBegin \/ MarkThreads \/ AtomicEnd
  \/ SweepSymbols \/ SweepElement \/ SweepListEnd \/ ThreadsSwept \/ SweepEnd

Mutator ==
  \/ \E t \in Threads, v \in Obj :
       \/ pushValue(t, v)
       \/ popValue(t, v)
       \/ \E u \in Threads : copyToStack(t, u, v)
       \/ \E p \in Node : setElement(t, p, v) \/ removeElement(t, p, v)
  \/ \E t \in Threads :
       \/ callMorCPrep(t)
       \/ \E o \in Node : mem_new(t, o)
       \/ \E s \in Sym : newSymFound(t, s) \/ newSymGrows(t, s) \/ newSymAdded(t, s)
       \/ \E n \in Thr : newThread(t, n) \/ thrInit(t, n)
  \/ \E mode \in FullRequests : mem_gcfull(mode)

Next == GCStep \/ Mutator

Spec == Init /\ [][Next]_vars

\* The program keeps allocating, and past the trigger every allocation runs at
\* least one step; inside mem_gcfull the steps run in a loop. An allocation that
\* is under way goes on.
FairSpec == Spec /\ WF_vars(GCStep) /\ WF_vars(building # {} /\ Mutator)
-----------------------------------------------------------------------------
(***************************************************************************)
(* What has to hold.                                                       *)
(***************************************************************************)
\* Every variable keeps its type, a sweep position stays inside its list, and
\* only a list that is being swept has one.
TypeOK ==
  /\ alloc \subseteq Obj \ {Vm, Main}
  /\ refs \in [Obj -> SUBSET Obj]
  /\ color \in [Obj -> Colors] /\ old \in [Obj -> BOOLEAN]
  /\ lists["sweep"] \in Seq(Node) /\ lists["sweepthread"] \in Seq(Thr)
  /\ symArray \in Seq(Seq(Sym)) /\ nbrAvail >= 1
  /\ gray \subseteq Obj
  /\ currentwhite \in White /\ gcstate \in States /\ gcbarrieron \in BOOLEAN
  /\ {gcmode, gcnextmode} \subseteq {GC_FULLMODE, GC_EMERGENCY, GC_GENMODE}
  /\ gcnbrold \in 0 .. OldTrigger
  /\ sweepsymgc \in Nat /\ (gcstate = "sweepsymbol" => sweepsymgc < nbrAvail)
  /\ sweepgc \in {NULL} \cup Nat
  /\ sweepgc # NULL => gcstate \in ListStates /\ sweepgc <= Len(lists[gcstate])
  /\ request \in [stage : 0 .. 3, mode : FullRequests \cup {GC_FULLMODE}]
  /\ building \subseteq Threads \X (Sym \cup Thr)
  /\ stale \in [Threads -> SUBSET Obj]
  /\ doomed \subseteq Obj

\* No pointer the program can follow leads to freed memory, however its stores
\* fall between the collector's steps.
NoDangling == H!NoDangling

\* "no black value should ever point to a white value" (mem_markChk): while the
\* barrier is on, a reachable object that was scanned holds no unmarked one.
\* Threads are the exception, they are scanned again with the program stopped.
TriColour ==
  gcbarrieron => \A p \in Reachable \ Threads :
                   color[p] = "black" => \A c \in refs[p] : color[c] \notin White

\* The gray list holds gray objects whose memory is still allocated (the assert
\* of mem_marktopgray), and misses no reachable one that still has to be scanned.
GrayListSound ==
  /\ \A o \in gray : o \in alloc \cup {Main} /\ color[o] = "gray"
  /\ gcbarrieron => \A o \in Reachable \ Threads : color[o] = "gray" => o \in gray

\* "stop when hitting an old object, as all objects after that one will be old
\* too" (mem_sweeplist): what lies behind an old object of a chain, beyond the
\* sweep position, is old.
oldSuffix(c, from) ==
  \A i, j \in from + 1 .. Len(c) : i < j /\ old[c[i]] => old[c[j]]
OldSuffix ==
  /\ \A k \in ListStates : oldSuffix(lists[k], IF gcstate = k /\ sweepgc # NULL THEN sweepgc ELSE 0)
  /\ \A i \in 1 .. nbrAvail : oldSuffix(symArray[i], 0)

\* Every allocated object is in exactly one chain, once: newSym finds what
\* exists, and nothing is freed twice or never.
ChainsHoldHeap ==
  LET chains == {lists[k] : k \in ListStates} \cup ToSet(symArray)
  IN  /\ alloc = UNION {ToSet(c) : c \in chains}
      /\ \A c \in chains : IsInjective(c)
      /\ \A i \in 1 .. nbrAvail : \A s \in ToSet(symArray[i]) : slot(s, nbrAvail) = i

\* A cycle that marked from the root frees, by its end, all that was unreachable
\* when it began: neither the barrier nor an old object keeps any of it.
FullCycleCollects == gcstate = "sweep" /\ sweepgc = NULL => doomed = {}

\* The collector keeps the promise of module Heap.
MemorySafety == H!Spec

\* Whatever the program does in between, a cycle that has begun ends.
CycleCompletes == gcstate # "begin" ~> gcstate = "begin"
-----------------------------------------------------------------------------
(***************************************************************************)
(* What the source says of itself and does not keep.                       *)
(***************************************************************************)
\* assert(!iswhite(mainthread)) in mem_markatomic: marking has reached the main
\* thread before its stack is scanned. An emergency cycle marks no root.
MainMarked == gcstate = "markatomic" /\ gray = {} => MainNotWhite

\* "Never sweep thread we are using" (thrFree): the thread newThread is setting
\* up is still there when thrInit goes on.
NewThreadKept == \A b \in building : b[2] \in Thr => b[2] \in alloc

\* "unknown object type (deleted?)" (mem_markobjraw): what the stacks hold when
\* they are scanned is allocated. A register that was never written may not be.
StacksMarkable == gcstate = "markatomic" =>
                    \A t \in scanned : refs[t] \subseteq alloc \cup {Main}
=============================================================================
