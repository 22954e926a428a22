------------------------------ MODULE GCFullInv -----------------------------
(***************************************************************************)
(* Why a full cycle frees all that was unreachable when it began, why an   *)
(* incremental sweep may stop at an old object, and why the gray list only *)
(* ever names allocated objects.  GCInv says what a sweep may not free and *)
(* speaks of live objects only; what is here speaks of the garbage too.    *)
(* Symbols have chains of their own, swept one by one while the program    *)
(* adds to them and the table is resized: Symbols and Counts are theirs.   *)
(* GCProofs proves all of it invariant, on top of GCInv!IInv.              *)
(***************************************************************************)
EXTENDS GCInv

\* Each list holds the allocated objects of its kind, each once, and the sweep
\* position lies inside the list that is being swept.
Listed ==
  /\ lists["sweep"] \in Seq(Node) /\ lists["sweepthread"] \in Seq(Thr)
  /\ ToSet(lists["sweep"]) = alloc \cap Node
  /\ ToSet(lists["sweepthread"]) = alloc \cap Thr
  /\ \A k \in ListStates : IsInjective(lists[k])
  /\ sweepgc # NULL => gcstate \in ListStates /\ sweepgc <= Len(lists[gcstate])

\* How much of list k the sweep has passed.
position(k) == IF gcstate = k /\ sweepgc # NULL THEN sweepgc ELSE 0

\* Behind an old object all are old, among those the sweep has passed and among
\* those it has not; it leaves none old when it prepares for a full cycle.
Olds ==
  /\ \A x \in Obj \ (alloc \cup Sym \cup {Main}) : ~old[x]
  /\ \A k \in ListStates : oldSuffix(lists[k], position(k))
  /\ \A k \in ListStates : \A i \in 1 .. position(k) : old[lists[k][i]] =>
       gcnextmode = GC_GENMODE /\ \A j \in i .. position(k) : old[lists[k][j]]

\* A full cycle finds everything but the symbols white and young, because the
\* sweep before it left it so.
fresh(x) == color[x] = currentwhite /\ ~old[x]
Fresh ==
  /\ gcstate = "begin" /\ gcmode = GC_FULLMODE => \A x \in alloc \ Sym : fresh(x)
  /\ gcstate \in SweepStates /\ gcnextmode = GC_FULLMODE =>
       \A x \in alloc \ Sym : x \in unswept \/ fresh(x)

\* R holds whatever marking may come to: it starts from the VM, from the gray
\* list and from the stacks of all threads, unreachable ones included.
Markable(R) ==
  /\ {Vm} \cup gray \cup (Threads \cap (alloc \cup {Main})) \subseteq R
  /\ \A x \in R : refs[x] \subseteq R /\ \A y \in refs[x] : ~isdead(y)
  /\ gcbarrieron => \A p \in R \ Threads :
       /\ color[p] = "black" => \A y \in refs[p] : color[y] \notin White
       /\ color[p] = "gray" => p \in gray

\* All of it is allocated.  The gray list outlives a cycle only if the next one is
\* generational, and symbols are never on it.
Grays ==
  /\ \A o \in gray : color[o] = "gray"
  /\ gcbarrieron \/ gray = {}
  /\ \A s \in Sym : color[s] # "gray"
  /\ \E R \in SUBSET (alloc \cup {Vm, Main}) : Markable(R)

\* What was unreachable when a full cycle began stays unreachable, unmarked and
\* young, and is ahead of the sweep until it is freed.
Doomed ==
  /\ doomed \subseteq alloc \ Sym
  /\ \A x \in Obj : x \notin doomed \/ x \in Threads => refs[x] \cap doomed = {}
  /\ gcstate = "begin" => doomed = {}
  /\ \A b \in building : b[2] \notin doomed
  /\ \A x \in doomed :
       /\ ~old[x]
       /\ IF gcstate \in SweepStates THEN isdead(x) /\ x \in unswept
                                     ELSE color[x] = currentwhite

\* Each chain of the symbol table holds the allocated symbols of its slot, each
\* once, and behind an old one all are old; only an allocated symbol is old.
Symbols ==
  /\ symArray \in Seq(Seq(Sym)) /\ nbrAvail >= 1
  /\ \A i \in 1 .. nbrAvail : /\ IsInjective(symArray[i])
                             /\ ToSet(symArray[i]) = alloc \cap ofSlot(i, nbrAvail)
                             /\ oldSuffix(symArray[i], 0)
  /\ \A s \in Sym \ alloc : ~old[s]

\* The count of old objects stays within its bound, and the sweep of the symbol
\* table inside the table, which may double between two of its steps.
Counts ==
  /\ gcnbrold \in 0 .. OldTrigger
  /\ sweepsymgc \in Nat /\ (gcstate = "sweepsymbol" => sweepsymgc < nbrAvail)

FInv == Listed /\ Olds /\ Fresh /\ Grays /\ Doomed
SInv == Symbols /\ Counts
=============================================================================
