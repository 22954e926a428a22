-------------------------------- MODULE Stacks --------------------------------
(***************************************************************************)
(* The data stack of a thread (avm_stack.cpp) and what calls do with it    *)
(* (avm_method.cpp): one array of slots, in which the area of a called     *)
(* method begins among the values that its caller pushed. Parameters are   *)
(* padded and moved, results copied down, the array grown, all through     *)
(* positions: stk_top, and begin, end, methodbase and retTo of each frame. *)
(* The promise is module Frames.                                           *)
(*                                                                         *)
(* Slots are numbered from th(th)->stack, so that moving the array changes *)
(* nothing here (module Calls has the pointers). One thread: yielders are  *)
(* created, but run on stacks of their own. A slot that nothing reads any  *)
(* more holds Junk, whatever was left in it; of a byte-code frame that is  *)
(* every register from 'used' on, for the generator hands registers out    *)
(* and takes them back in order (genNextReg).                              *)
(***************************************************************************)
EXTENDS Integers, SequencesExt

CONSTANTS
  STACK_MINSIZE,    \* room that a C method is given
  STACK_EXTRA,      \* slots behind the last one that may be used
  STACK_NEWSIZE,    \* size of a new stack
  STACK_MAXSIZE, STACK_ERRORSIZE,
  BCVARRET,         \* wanting every value there is
  MaxStack, NParms, \* maxstacksize and nbrparms of the byte-code methods
  Value,            \* what is stored, apart from null and what can be called
  Properties,       \* what a looked up property may be
  Junk,
  Irregular,        \* what the code lets happen and gets wrong: "short", "rest", "full", "low", "set" (see README.md)
  MaxFrames,        \* bound: methods that wait for each other
  MaxLive,          \* bound: slots in use
  MaxWant           \* bound: values wanted

ASSUME SizesFit ==
  /\ {STACK_MINSIZE, STACK_EXTRA, STACK_NEWSIZE, STACK_MAXSIZE, MaxStack, NParms} \subseteq Nat \ {0}
  /\ NParms <= MaxStack /\ 1 + STACK_MINSIZE + STACK_EXTRA <= STACK_NEWSIZE
  /\ STACK_NEWSIZE <= STACK_MAXSIZE /\ STACK_MAXSIZE < STACK_ERRORSIZE /\ STACK_ERRORSIZE \in Nat
ASSUME WantsFit == /\ MaxFrames \in Nat \ {0} /\ {MaxLive, MaxWant, BCVARRET} \subseteq Nat
                   /\ MaxWant # BCVARRET /\ BCVARRET > 1

VARIABLES
  th,   \* the thread: its slots (allocated or not), stk_top, how many slots are allocated, and its CallInfos
  did   \* the last operation, with its operands and what it put into a new closure or yielder

vars == <<th, did>>

Null == "null"
Slot == 0 .. STACK_ERRORSIZE + MaxStack
Callable == {"c", "b", "v", "y", "yv", "closure", "getter"}   \* canCall
ASSUME PropertiesFit == Properties \subseteq Value \cup Callable \cup {Null}
isClosure(v) == v \in {"closure", "getter"}
isVarParm(m) == m \in {"v", "yv"}
\* The method that callMorCPrep takes from what is called.
realmethod(v, set) ==
  IF v \notin Callable THEN "none"
  ELSE IF ~isClosure(v) THEN v ELSE IF ~set THEN "b" ELSE IF v = "closure" THEN "c" ELSE "none"

lesser(a, b)  == IF a < b THEN a ELSE b
greater(a, b) == IF a < b THEN b ELSE a
nulls(n) == [i \in 1 .. greater(n, 0) |-> Null]

slots(t, from, to) == [i \in 1 .. to - from |-> t.stack[from + i - 1]]
put(t, from, values) ==
  [t EXCEPT !.stack = [s \in Slot |-> IF s - from \in 0 .. Len(values) - 1 THEN values[s - from + 1] ELSE @[s]]]
pushed(t, values) == [put(t, t.top, values) EXCEPT !.top = @ + Len(values)]
popped(t, n)      == [t EXCEPT !.top = @ - n]

ci(t)     == Last(t.calls)
begin(t)  == ci(t).begin
isByte(c) == c.run \in {"b", "v"}
inBC      == isByte(ci(th))
size(t)   == IF isByte(ci(t)) THEN ci(t).used ELSE t.top - begin(t)   \* stkSz
stkAt(i)  == th.stack[begin(th) + i]
current(t, c) == [t EXCEPT !.calls[Len(t.calls)] = c]

\* t is what the operation leaves.
Becomes(t) ==
  LET n == begin(t) + size(t) IN
  /\ n <= MaxLive /\ Len(t.calls) <= MaxFrames
  /\ th' = [t EXCEPT !.stack = [s \in Slot |-> IF s < n THEN @[s] ELSE Junk]]

Init ==
  /\ th = [stack |-> [s \in Slot |-> IF s = 0 THEN Null ELSE Junk], top |-> 1, size |-> STACK_NEWSIZE,
           calls |-> <<[run |-> "host", begin |-> 1, end |-> 1 + STACK_MINSIZE, base |-> 0, retTo |-> 0,
                        want |-> 0, used |-> 0]>>]
  /\ did = <<"start">>

(***************************************************************************)
(* Room.                                                                   *)
(***************************************************************************)
\* A slip: twice the size, however much that is.
stkGrowUncapped(t, extra) ==
  LET newsize == greater(2 * t.size, t.top + extra + STACK_EXTRA)
  IN [t EXCEPT !.size = IF newsize > STACK_MAXSIZE THEN STACK_ERRORSIZE ELSE newsize]
stkGrow(t, extra) ==
  LET newsize == greater(lesser(2 * t.size, STACK_MAXSIZE), t.top + extra + STACK_EXTRA)
  IN IF t.size > STACK_MAXSIZE THEN t
     ELSE [t EXCEPT !.size = IF newsize > STACK_MAXSIZE THEN STACK_ERRORSIZE ELSE newsize]

isFull(t, n) == t.top > STACK_MAXSIZE - n - STACK_EXTRA
\* Room for n values above stk_top. The difference is taken as unsigned: above stk_last there is room too.
needMoreLocal(t, n) ==
  LET room   == t.size - STACK_EXTRA - t.top
      enough == room < 0 \/ room > n + STACK_EXTRA
      raised(u) == current(u, [ci(u) EXCEPT !.end = greater(@, u.top + n)])
  IN IF enough THEN raised(t)
     ELSE IF isFull(t, n) THEN t
     ELSE raised(stkGrow(t, n))

(***************************************************************************)
(* Calls: the method or closure is in slot mv, its parameters behind it.   *)
(***************************************************************************)
\* The caller goes on.
back(t) == IF isByte(ci(t)) THEN current(t, [ci(t) EXCEPT !.used = t.top - begin(t)]) ELSE t

invalidCall(t, mv, want) ==
  LET n == IF want = BCVARRET THEN 1 ELSE want IN back([put(t, mv, nulls(n)) EXCEPT !.top = mv + n])

\* The frame of byte code: missing parameters, and variable ones out of the way of the fixed ones.
\* A slip: the parameters are taken for as many as the method declares.
frameOfAll(t, nparms) ==
  LET room == needMoreLocal(t, MaxStack)
  IN current([room EXCEPT !.top = ci(room).end], [ci(room) EXCEPT !.used = NParms])
frameOf(t, nparms) ==
  LET room   == needMoreLocal(t, MaxStack)
      padded == pushed(room, nulls(NParms - nparms))
      moved  == put(pushed(padded, slots(padded, begin(t), begin(t) + NParms)), begin(t), nulls(NParms))
      tidy   == IF isVarParm(ci(t).run) THEN current(moved, [ci(moved) EXCEPT !.begin = padded.top]) ELSE padded
  IN current([tidy EXCEPT !.top = ci(tidy).end], [ci(tidy) EXCEPT !.used = NParms])

\* A new yielder's fixed parameters and variable ones, of which none are copied to its stack.
yielderFrame(t, mv) ==
  LET given == lesser(t.top - mv - 1, NParms)
  IN <<slots(t, mv + 1, mv + 1 + given) \o nulls(NParms - given), <<>> >>

newFrame(run, mv, to, want) ==
  [run |-> run, begin |-> mv + 1, end |-> mv + 1, base |-> mv, retTo |-> to, want |-> want, used |-> 0]

\* flags: whether a closure's set method is meant, and by how much the results are displaced.
callMorCPrep(t, mv, want, set, displaced) ==
  LET run    == realmethod(t.stack[mv], set)
      to     == mv + displaced
      called == [t EXCEPT !.calls = Append(@, newFrame(run, mv, to, want))]
  IN CASE run = "none" -> invalidCall(t, mv, want)
       [] run \in {"y", "yv"} -> back([put(t, to, SubSeq(<<"yielder">> \o nulls(want), 1, want)) EXCEPT !.top = to + want])
       [] run = "c"    -> needMoreLocal(called, STACK_MINSIZE)
       [] OTHER        -> frameOf(called, t.top - mv - 1)

\* The caller has room for the results that it wants: registers, or what it asked for.
RoomFor(from, want) == from + want <= IF inBC THEN begin(th) + MaxStack ELSE ci(th).end
\* A call of v with n parameters, stk_top above them, that the code gets right.
isRegular(v, n, to, want, set) ==
  LET run == realmethod(v, set) IN
  /\ run = "v" /\ n < NParms => "short" \in Irregular
  /\ run = "yv" /\ n > NParms => "rest" \in Irregular
  /\ run \in {"y", "yv"} => want # BCVARRET
  /\ to > STACK_MAXSIZE - greater(MaxStack, STACK_MINSIZE) - STACK_EXTRA => "full" \in Irregular

(***************************************************************************)
(* Returns.                                                                *)
(***************************************************************************)
\* The values from slot 'from' on are copied to where the caller wants them.
returned(t, from, have) ==
  LET f    == ci(t)
      want == IF f.want = BCVARRET THEN have ELSE f.want
      vals == [i \in 1 .. want |-> IF i <= have THEN t.stack[from + i - 1] ELSE Null]
  IN back([put(t, f.retTo, vals) EXCEPT !.top = f.retTo + want, !.calls = Front(@)])
\* Of byte code. For a caller in byte code stk_top goes above the registers again, if the number of values is known.
OpReturnTo(t, from, have) ==
  LET u == returned(t, from, have)
  IN IF isByte(ci(u)) /\ ci(t).want # BCVARRET THEN [u EXCEPT !.top = ci(u).end] ELSE u
returnNulls(t) ==
  LET want == IF ci(t).want = BCVARRET THEN 1 ELSE ci(t).want
      u == back([put(t, ci(t).retTo, nulls(want)) EXCEPT !.top = ci(t).retTo + want, !.calls = Front(@)])
  IN IF isByte(ci(u)) THEN [u EXCEPT !.top = ci(u).end] ELSE u

\* The frame of the method becomes that of the one in slot mv.
tailcallMorCPrep(t, mv) ==
  LET n     == t.top - mv
      run   == realmethod(t.stack[mv], FALSE)
      base  == ci(t).base
      moved == [put(t, base, slots(t, mv, t.top)) EXCEPT !.top = base + n]
      frame == current(moved, newFrame(run, base, base, ci(t).want))
  IN IF run = "c" THEN needMoreLocal(frame, STACK_MINSIZE) ELSE frameOf(frame, n - 1)

(***************************************************************************)
(* What a C method can do.                                                 *)
(***************************************************************************)
inC       == ~isByte(ci(th))
Index     == 0 .. size(th) - 1
CanIncTop == th.top + 1 <= ci(th).end
\* The symbol that stands for a name while it is looked up.
Sym == Null

pushValue(v) == inC /\ CanIncTop /\ did' = <<"push", v>> /\ Becomes(pushed(th, <<v>>))
pushLocal(i) == inC /\ CanIncTop /\ did' = <<"push local", i>> /\ Becomes(pushed(th, <<stkAt(i)>>))
setLocal(i, v)  == inC /\ did' = <<"set", i, v>> /\ Becomes(put(th, begin(th) + i, <<v>>))
copyLocal(i, j) == inC /\ did' = <<"copy", i, j>> /\ Becomes(put(th, begin(th) + i, <<stkAt(j)>>))
deleteLocal(i) ==
  LET p == begin(th) + i IN
  inC /\ did' = <<"delete", i>> /\ Becomes(popped(put(th, p, slots(th, p + 1, th.top)), 1))
insertLocal(i) ==
  LET p == begin(th) + i
  IN inC /\ did' = <<"insert", i>> /\ Becomes(put(th, p, <<th.stack[th.top - 1]>> \o slots(th, p, th.top - 1)))
popValue == inC /\ size(th) > 0 /\ did' = <<"pop", th.stack[th.top - 1]>> /\ Becomes(popped(th, 1))
\* Popped into a variable or property, whose name is pushed for the while.
popGloVar ==
  LET t == pushed(th, <<Sym>>)
  IN inC /\ size(th) > 0 /\ CanIncTop /\ did' = <<"pop", t.stack[t.top - 2]>> /\ Becomes(popped(t, 2))
popLocal(i) ==
  /\ inC /\ i < size(th) - 1
  /\ did' = <<"pop to", i>> /\ Becomes(popped(put(th, begin(th) + i, <<th.stack[th.top - 1]>>), 1))
setTop(n) ==
  /\ inC /\ begin(th) + n <= th.size - STACK_EXTRA
  /\ did' = <<"resize", n>>
  /\ Becomes([pushed(th, nulls(n - size(th))) EXCEPT !.top = begin(th) + n])
dropTop(n) == inC /\ did' = <<"resize", size(th) - n>> /\ Becomes(popped(th, n))
pushClosure(n) ==
  LET from == th.top - n IN
  /\ inC /\ CanIncTop /\ n \in 2 .. size(th)
  /\ did' = <<"closure", slots(th, from, th.top)>> /\ Becomes(popped(put(th, from, <<"closure">>), n - 1))
NeedMoreLocal ==
  inC /\ th.top < MaxLive /\ did' = <<"resize", size(th)>> /\ Becomes(needMoreLocal(th, MaxLive - th.top))

(***************************************************************************)
(* Calls. Byte code sets stk_top to the end of the parameters (or has it   *)
(* there already, if their number is not known): 'live' is where it is.    *)
(***************************************************************************)
live      == [th EXCEPT !.top = begin(th) + size(th)]
\* What is called is looked up in its first parameter, unless what is in its place can be called: here no yielder,
\* which would run on its own stack (see Calls).
CanLook(mv, n) == th.stack[mv] # "yielder" /\ (n = 0 => th.stack[mv] \in Callable)
looked(t, mv, m) == IF t.stack[mv] \in Callable THEN t ELSE put(t, mv, <<m>>)
\* What the method that is called with n parameters may be.
found(n)  == IF stkAt(size(th) - n - 1) \in Callable THEN {stkAt(size(th) - n - 1)} ELSE Properties
Wants     == {0, MaxWant} \cup (IF inC THEN {BCVARRET} ELSE {})

\* getCall, OpGetCall; and setCall, OpSetCall, which want a closure. The n parameters are above what is called.
Call(m, n, want, set) ==
  LET mv  == live.top - n - 1
      t   == looked(live, mv, m)
      run == realmethod(t.stack[mv], set)
  IN /\ n < size(th) /\ CanLook(mv, n) /\ isRegular(t.stack[mv], n, live.top, want, set)
     /\ want # BCVARRET => RoomFor(mv, want)
     /\ did' = <<"call", t.stack[mv], n, want, set, IF run \in {"y", "yv"} /\ ~set THEN yielderFrame(t, mv) ELSE <<>> >>
     /\ Becomes(IF set /\ ~isClosure(t.stack[mv]) THEN invalidCall(t, mv, want) ELSE callMorCPrep(t, mv, want, set, 0))

\* The results go behind the register with the iterator, which is called again.
OpEachCall(n, want) ==
  LET mv == live.top - n - 1 IN
  /\ inBC /\ n < size(th) /\ th.stack[mv] \in Callable
  /\ isRegular(th.stack[mv], n, live.top, want, FALSE) /\ RoomFor(mv + 1, want)
  /\ did' = <<"each", th.stack[mv], n, want>> /\ Becomes(callMorCPrep(live, mv, want, FALSE, 1))

\* The property of the value at i is called with it and the top value, by the method that gets it, if it can be called;
\* otherwise it is given that value, if the one at i is a type.
popSetActProp(m, i) ==
  LET value == th.stack[th.top - 1]
      t == pushed(put(pushed(th, <<Sym>>), th.top - 1, <<m, stkAt(i)>>), <<value>>)
  IN /\ inC /\ size(th) > 0 /\ CanIncTop
     /\ m \in Callable => /\ "set" \in Irregular
                          /\ th.top + 2 <= ci(th).end /\ isRegular(m, 2, t.top, 1, FALSE)
     /\ did' = <<"set property", m, i>>
     /\ Becomes(IF m \in Callable THEN callMorCPrep(t, t.top - 3, 1, FALSE, 0) ELSE popped(th, 1))

\* A method returns n values, from its i-th on: of a C method the last ones.
Return(i, n) ==
  /\ Len(th.calls) > 1 /\ i + n <= size(th)
  /\ did' = <<"return", i, n>>
  /\ \/ inC /\ i + n = size(th) /\ Becomes(returned(th, th.top - n, n))
     \/ inBC /\ Becomes(OpReturnTo(th, begin(th) + i, n))

\* A C method must have a caller with a method (:244), and an iterator is forgotten (see Calls).
OpTailCall(m, n) ==
  LET mv  == live.top - n - 1
      t   == looked(live, mv, m)
      run == realmethod(t.stack[mv], FALSE)
  IN /\ inBC /\ n < size(th) /\ CanLook(mv, n) /\ ci(th).retTo = ci(th).base /\ run \notin {"y", "yv"}
     /\ run = "c" => th.calls[Len(th.calls) - 1].run # "host"
     /\ isRegular(t.stack[mv], n, ci(t).base + n + 1, 0, FALSE)
     /\ did' = <<"tail", t.stack[mv], n>>
     /\ Becomes(IF run = "none" THEN returnNulls(t) ELSE tailcallMorCPrep(t, mv))

(***************************************************************************)
(* What else byte code does with registers.                                *)
(***************************************************************************)
Grown(t, n) == current(t, [ci(t) EXCEPT !.used = @ + n])
Load(v) ==
  /\ inBC /\ size(th) < MaxStack
  /\ did' = <<"push", v>> /\ Becomes(Grown(put(th, begin(th) + size(th), <<v>>), 1))
OpLoadReg(i, j) == inBC /\ did' = <<"copy", i, j>> /\ Becomes(put(th, begin(th) + i, <<stkAt(j)>>))
OpLoadVararg(n) ==
  LET nbrvar == begin(th) - ci(th).base - NParms - 1
      rega   == begin(th) + size(th)
      others == slots(th, begin(th) - nbrvar, begin(th))
      all    == [needMoreLocal(th, nbrvar) EXCEPT !.top = rega + nbrvar]
      some   == [i \in 1 .. n |-> IF i <= nbrvar THEN others[i] ELSE Null]
  IN /\ inBC /\ isVarParm(ci(th).run) /\ did' = <<"rest", n>>
     /\ IF n = BCVARRET
        THEN /\ th.top < rega => "low" \in Irregular
             /\ ~isFull(th, nbrvar)
             /\ Becomes(Grown(put(all, rega, others), nbrvar))
        ELSE size(th) + n <= MaxStack /\ Becomes(Grown(put(th, rega, some), n))

Next ==
  \/ \E v \in Value : pushValue(v) \/ Load(v) \/ \E i \in Index : setLocal(i, v)
  \/ \E i \in Index : pushLocal(i) \/ deleteLocal(i) \/ insertLocal(i) \/ popLocal(i) \/ pushClosure(i + 1) \/ dropTop(i + 1)
  \/ \E i, j \in Index : copyLocal(i, j) \/ OpLoadReg(i, j)
  \/ popValue \/ popGloVar \/ NeedMoreLocal \/ \E n \in 0 .. MaxLive : setTop(n)
  \/ \E n \in Index : \E m \in found(n) : \/ \E want \in Wants : Call(m, n, want, FALSE) \/ Call(m, n, want, TRUE)
                                          \/ OpTailCall(m, n)
  \/ \E m \in Properties, i \in Index : popSetActProp(m, i)
  \/ \E n \in Index, want \in Wants : OpEachCall(n, want)
  \/ \E i, n \in 0 .. size(th) : Return(i, n)
  \/ \E n \in Wants \cup {BCVARRET} : OpLoadVararg(n)

Spec == Init /\ [][Next]_vars
------------------------------------------------------------------------------
TypeOK ==
  /\ th.stack \in [Slot -> Value \cup Callable \cup {Null, Junk, "yielder"}]
  /\ th.top \in Slot /\ th.size \in Nat /\ Len(th.calls) \in 1 .. MaxFrames
  /\ \A i \in DOMAIN th.calls : LET c == th.calls[i] IN
       c.base < c.begin /\ c.used \in 0 .. MaxStack + MaxLive

\* Nothing is kept beyond the slots that were allocated for use: not the values of a C method, nor the registers
\* of byte code, although both are only asked for before parameters are padded and moved (callMorCPrep). And the
\* size that stkGrow has for a stack that asks for too much is never asked for, because needMoreLocal refuses before.
WithinStack ==
  /\ TypeOK
  /\ th.size <= STACK_MAXSIZE /\ th.top <= th.size - STACK_EXTRA
  /\ \A i \in DOMAIN th.calls : LET c == th.calls[i] IN
       /\ c.end <= th.size - STACK_EXTRA
       /\ isByte(c) => c.begin + MaxStack <= th.size - STACK_EXTRA

\* The values of each frame: up to where the results of the call it waits for go.
upTo(t, i) == IF i = Len(t.calls) THEN begin(t) + size(t) ELSE t.calls[i + 1].retTo
frameOfCall(t, i) ==
  LET c == t.calls[i]
  IN [method |-> t.stack[c.base], want |-> c.want, locals |-> slots(t, c.begin, upTo(t, i)),
      rest |-> IF c.run = "v" THEN slots(t, c.base + 1 + NParms, c.begin) ELSE <<>>]
framesOf(t) == [i \in 1 .. Len(t.calls) |-> frameOfCall(t, i)]
\* (SubSeq makes the function a tuple for TLC.)
Promise == INSTANCE Frames WITH All <- BCVARRET, Most <- greater(MaxLive, MaxWant),
                                frames <- SubSeq(framesOf(th), 1, Len(th.calls))
ImplementsFrames == Promise!Spec
==============================================================================
