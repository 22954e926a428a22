------------------------------- MODULE Loader -------------------------------
(***************************************************************************)
(* Loading, linking and running resources (typ_resource.cpp, the linker of *)
(* acn_main.cpp and the file scheme): a resource is fetched and decoded;   *)
(* if that makes a method, the method is linked to the values of the       *)
(* resources it refers to, which are loaded for it, and run; its result is *)
(* the value of the resource.  Methods that cannot be linked yet wait in   *)
(* the table of loaders, and every new value lets them try again.          *)
(*                                                                         *)
(* These functions call each other; stack holds their activations.         *)
(***************************************************************************)
EXTENDS Naturals, SequencesExt

CONSTANTS
  Res,       \* resources, by the url without fragment
  Remote,    \* those whose scheme calls back later; the others' does before Get returns (file)
  None,      \* null
  MaxExterns, \* bound: resources one method refers to
  ScanLoads  \* whether a method that setvalue runs may load what no other has asked for

ASSUME RemoteIsRes == Remote \subseteq Res /\ None \notin Res
ASSUME MaxExternsIsNat == MaxExterns \in Nat
ASSUME ScanLoadsIsBool == ScanLoads \in BOOLEAN

VARIABLES
  externs,  \* externs[r]: the resources that the method made of r refers to, as in lits
  values,   \* the keys of Resource.values; the value may be null
  loaders,  \* the keys of Resource.loaders
  linking,  \* the loaders that have a 'value': their method waits to be linked
  asked,    \* what a scheme was asked for and has not called back with
  stack,    \* activations; the last one executes
  fetches,  \* history: how often a resource was asked for
  runs      \* history: how often its method was run

vars == <<externs, values, loaders, linking, asked, stack, fetches, runs>>

-----------------------------------------------------------------------------
(***************************************************************************)
(* Activations.  pc is also where a called function leaves what came of it.*)
(***************************************************************************)
deserialize(r) == [fn |-> "deserialize", res |-> r, pc |-> "new"]
acn_linker(r)  == [fn |-> "link", res |-> r, pc |-> "resolve", next |-> 1, counter |-> 0]
method(r)      == [fn |-> "run", res |-> r, pc |-> "begin"]

\* resource_setvalue, in its loop over the loaders: those it has been at, the last of these.
scanLoaders == [fn |-> "setvalue", res |-> None, pc |-> "next", scanned |-> {}, scanAgain |-> FALSE]

top == Last(stack)
In(fn, pc) == stack # <<>> /\ top.fn = fn /\ top.pc = pc
With(field, v) == [stack EXCEPT ![Len(stack)] = [top EXCEPT ![field] = v]]
At(pc) == With("pc", pc)
Called(pc, f) == Append(At(pc), f)

\* The function returns, and the one that called it goes on at pc.
ReturnTo(pc) == LET s == Front(stack) IN [s EXCEPT ![Len(s)].pc = pc]

Known(r) == r \in values \/ r \in loaders
Scanning == \E i \in DOMAIN stack : stack[i].fn = "setvalue"

-----------------------------------------------------------------------------
(***************************************************************************)
(* Loading                                                                 *)
(***************************************************************************)
\* A slip (Load): that the value is on its way is not asked.
LoadUnlessValued(r, s) ==
  IF r \in values THEN stack' = s /\ UNCHANGED <<loaders, asked, fetches>>
  ELSE /\ loaders' = loaders \cup {r}
       /\ fetches' = [fetches EXCEPT ![r] = @ + 1]
       /\ IF r \in Remote THEN stack' = s /\ asked' = asked \cup {r}
          ELSE stack' = Append(s, deserialize(r)) /\ UNCHANGED asked

\* resource_inst_load, after which s is the stack: Get is called unless the value is there or on its
\* way.  The file scheme calls back from Get.
Load(r, s) ==
  IF Known(r) THEN stack' = s /\ UNCHANGED <<loaders, asked, fetches>>
  ELSE /\ loaders' = loaders \cup {r}
       /\ fetches' = [fetches EXCEPT ![r] = @ + 1]
       /\ IF r \in Remote THEN stack' = s /\ asked' = asked \cup {r}
          ELSE stack' = Append(s, deserialize(r)) /\ UNCHANGED asked

\* The value of r is known: it is stored, and the loader of r given up.
SetValue(r) ==
  /\ values' = values \cup {r}
  /\ loaders' = loaders \ {r}
  /\ linking' = linking \ {r}

\* The program loads a resource.
HostLoad(r) ==
  /\ stack = <<>>
  /\ Load(r, <<>>)
  /\ UNCHANGED <<externs, values, linking, runs>>

\* A scheme calls back.
GetCallback(r) ==
  /\ stack = <<>> /\ r \in asked
  /\ asked' = asked \ {r}
  /\ stack' = <<deserialize(r)>>
  /\ UNCHANGED <<externs, values, loaders, linking, fetches, runs>>

-----------------------------------------------------------------------------
(***************************************************************************)
(* resource_deserialize, the end of which is resource_setvalue             *)
(***************************************************************************)
\* There was no stream (its value is null then), or it is decoded to something that is no method.
DecodePlain ==
  /\ In("deserialize", "new")
  /\ SetValue(top.res)
  /\ stack' = Append(Front(stack), scanLoaders)
  /\ UNCHANGED <<externs, asked, fetches, runs>>

DecodeMethod ==
  /\ In("deserialize", "new")
  /\ stack' = Called("linking", acn_linker(top.res))
  /\ UNCHANGED <<externs, values, loaders, linking, asked, fetches, runs>>

\* Also for a method that setvalue has linked.
RunLinked ==
  /\ In("deserialize", "linked") \/ In("setvalue", "linked")
  /\ stack' = Called("running", method(top.res))
  /\ runs' = [runs EXCEPT ![top.res] = @ + 1]
  /\ UNCHANGED <<externs, values, loaders, linking, asked, fetches>>

KeepResult ==
  /\ In("deserialize", "ran")
  /\ SetValue(top.res)
  /\ stack' = Append(Front(stack), scanLoaders)
  /\ UNCHANGED <<externs, asked, fetches, runs>>

\* A slip (WaitForLink): the method is not kept.
WaitForLinkNot ==
  /\ In("deserialize", "unlinked")
  /\ stack' = Front(stack)
  /\ UNCHANGED <<externs, values, loaders, linking, asked, fetches, runs>>

\* The method is stored in its loader, to be linked when a value has come.
WaitForLink ==
  /\ In("deserialize", "unlinked")
  /\ linking' = linking \cup {top.res}
  /\ stack' = Front(stack)
  /\ UNCHANGED <<externs, values, loaders, asked, fetches, runs>>

-----------------------------------------------------------------------------
(***************************************************************************)
(* acn_linker and resource_resolve.  The externs of methods enclosed in    *)
(* the method, which are linked with it, are among its externs here.       *)
(***************************************************************************)
extern == externs[top.res][top.next]

\* The linker goes on behind an extern, after adding n to what has no value.
Resolved(n) ==
  stack' = [stack EXCEPT ![Len(stack)] =
              [top EXCEPT !.pc = "resolve", !.next = @ + 1, !.counter = @ + n]]

\* A slip (unresolved): one that is being loaded by somebody else is not counted.
unresolvedLoading == IF Known(extern) THEN 0 ELSE 1

unresolved == IF extern \in values THEN 0 ELSE 1

ResolveKnown ==
  /\ In("link", "resolve") /\ top.next <= Len(externs[top.res])
  /\ Known(extern)
  /\ Resolved(unresolved)
  /\ UNCHANGED <<externs, values, loaders, linking, asked, fetches, runs>>

ResolveLoads ==
  /\ In("link", "resolve") /\ top.next <= Len(externs[top.res])
  /\ ~Known(extern)
  /\ Load(extern, At("loading"))
  /\ UNCHANGED <<externs, values, linking, runs>>

ResolveLoaded ==
  /\ In("link", "loading")
  /\ Resolved(unresolved)
  /\ UNCHANGED <<externs, values, loaders, linking, asked, fetches, runs>>

LinkDone ==
  /\ In("link", "resolve") /\ top.next > Len(externs[top.res])
  /\ stack' = ReturnTo(IF top.counter = 0 THEN "linked" ELSE "unlinked")
  /\ UNCHANGED <<externs, values, loaders, linking, asked, fetches, runs>>

-----------------------------------------------------------------------------
(***************************************************************************)
(* The method of a resource runs; it may load a resource (@ and an         *)
(* expression), without waiting for its value.                             *)
(***************************************************************************)
MethodLoads(r) ==
  /\ In("run", "begin")
  /\ ScanLoads \/ ~Scanning \/ Known(r) \/ r \in Remote
  /\ Load(r, At("loaded"))
  /\ UNCHANGED <<externs, values, linking, runs>>

MethodReturns ==
  /\ In("run", "begin") \/ In("run", "loaded")
  /\ stack' = ReturnTo("ran")
  /\ UNCHANGED <<externs, values, loaders, linking, asked, fetches, runs>>

-----------------------------------------------------------------------------
(***************************************************************************)
(* resource_setvalue, after the value was stored.  Loaders without a       *)
(* method are passed over.  The scan comes by all others in any order; it  *)
(* ends early when the loader it is at is gone (tblNext).                  *)
(***************************************************************************)
Unscanned == IF top.res \in loaders \cup {None} THEN linking \ top.scanned ELSE {}

ScanNext(r) ==
  /\ In("setvalue", "next") \/ In("setvalue", "unlinked")
  /\ r \in Unscanned
  /\ stack' = Append([stack EXCEPT ![Len(stack)] =
                       [top EXCEPT !.res = r, !.pc = "linking", !.scanned = @ \cup {r}]],
                     acn_linker(r))
  /\ UNCHANGED <<externs, values, loaders, linking, asked, fetches, runs>>

\* A slip (ScanResult): no other scan follows.
ScanResultLast ==
  /\ In("setvalue", "ran")
  /\ SetValue(top.res)
  /\ stack' = At("next")
  /\ UNCHANGED <<externs, asked, fetches, runs>>

\* The method has been run: its value may be what a loader was waiting for that was scanned before.
ScanResult ==
  /\ In("setvalue", "ran")
  /\ SetValue(top.res)
  /\ stack' = [stack EXCEPT ![Len(stack)] = [top EXCEPT !.pc = "next", !.scanAgain = TRUE]]
  /\ UNCHANGED <<externs, asked, fetches, runs>>

ScanEnd ==
  /\ In("setvalue", "next") \/ In("setvalue", "unlinked")
  /\ Unscanned = {}
  /\ stack' = IF top.scanAgain THEN Append(Front(stack), scanLoaders) ELSE Front(stack)
  /\ UNCHANGED <<externs, values, loaders, linking, asked, fetches, runs>>

-----------------------------------------------------------------------------
\* Any resources may refer to any, also to themselves.  A method has one extern for each.
ExternLists == {s \in SeqOf(Res, MaxExterns) : IsInjective(s)}

Init ==
  /\ externs \in [Res -> ExternLists]
  /\ values = {} /\ loaders = {} /\ linking = {} /\ asked = {}
  /\ stack = <<>>
  /\ fetches = [r \in Res |-> 0]
  /\ runs = [r \in Res |-> 0]

Step ==
  \/ DecodePlain \/ DecodeMethod \/ RunLinked \/ KeepResult \/ WaitForLink
  \/ ResolveKnown \/ ResolveLoads \/ ResolveLoaded \/ LinkDone
  \/ MethodReturns \/ ScanResult \/ ScanEnd
  \/ \E r \in Res : MethodLoads(r) \/ ScanNext(r)

Next ==
  \/ Step
  \/ \E r \in Res : HostLoad(r) \/ GetCallback(r)

Spec == Init /\ [][Next]_vars

\* What is called comes to its end, and every scheme calls back some time.
FairSpec == Spec /\ WF_vars(Step) /\ \A r \in Res : WF_vars(GetCallback(r))

-----------------------------------------------------------------------------
(***************************************************************************)
(* Properties                                                              *)
(***************************************************************************)
Frame ==
  [fn : {"deserialize"}, res : Res, pc : {"new", "linking", "linked", "unlinked", "running", "ran"}]
  \cup [fn : {"link"}, res : Res, pc : {"resolve", "loading"}, next : 1..MaxExterns + 1,
        counter : 0..MaxExterns]
  \cup [fn : {"run"}, res : Res, pc : {"begin", "loaded"}]
  \cup [fn : {"setvalue"}, res : Res \cup {None}, scanned : SUBSET Res, scanAgain : BOOLEAN,
        pc : {"next", "linking", "linked", "unlinked", "running", "ran"}]

\* Everything is of its kind, and what waits is being loaded.
TypeOK ==
  /\ externs \in [Res -> ExternLists]
  /\ values \subseteq Res /\ loaders \subseteq Res /\ linking \subseteq loaders
  /\ asked \subseteq loaders \cap Remote
  /\ \A i \in DOMAIN stack : stack[i] \in Frame
  /\ fetches \in [Res -> Nat] /\ runs \in [Res -> Nat]

\* However often it is referred to, by whom and when, a resource is fetched and its method run once.
OnlyOnce == \A r \in Res : fetches[r] <= 1 /\ runs[r] <= 1

\* While a method runs, all resources it refers to have their values, and its own has none yet: what
\* was counted as resolved one after the other still is, and nobody has run it in between.
RunsComplete ==
  /\ TypeOK
  /\ \A i \in DOMAIN stack :
       stack[i].fn = "run" => ToSet(externs[stack[i].res]) \subseteq values /\ stack[i].res \notin values

\* When everything has come to rest, a resource that is still being loaded waits for a scheme, or for
\* a resource that is being loaded too: no method was left waiting although all it needs is there.
\* Without schemes that owe an answer, only circles of references can leave anything unloaded.
NoneForgotten ==
  stack = <<>> =>
    \A r \in loaders : r \in asked \/ (r \in linking /\ ToSet(externs[r]) \cap loaders # {})

needs(S) == S \cup UNION {ToSet(externs[r]) : r \in S}
Needed(r) == LET n[k \in 0..Cardinality(Res)] == IF k = 0 THEN ToSet(externs[r]) ELSE needs(n[k - 1])
             IN  n[Cardinality(Res)]

\* Every load returns, also when resources refer to each other in circles; and what is loaded gets its value in the
\* end, unless references lead from it into a circle.
LoadingEnds ==
  /\ stack # <<>> ~> stack = <<>>
  /\ \A r \in Res : r \in loaders ~> (r \in values \/ \E c \in Needed(r) \cup {r} : c \in Needed(c))
=============================================================================
