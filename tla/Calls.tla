-------------------------------- MODULE Calls --------------------------------
(***************************************************************************)
(* Calls, returns, yields and tail calls of the Acorn VM (avm_method.cpp,  *)
(* avm_stack.cpp, typ_thread.cpp): the call stack of every thread, the     *)
(* pointers a frame keeps into data stacks that move when they grow, and   *)
(* the native stack of the process, on which the byte-code interpreter and *)
(* the methods written in C call each other.                               *)
(*                                                                         *)
(* A pointer into a data stack is the thread, which of its addresses the   *)
(* stack had when the pointer was taken, the frame whose registers it      *)
(* points to, and a slot: how far behind the called value it points.       *)
(* Values, parameters and their number are left out.                       *)
(***************************************************************************)
EXTENDS Naturals, FiniteSets, SequencesExt

CONSTANTS
  Yielder,   \* the threads that a yield method may be given
  Main,      \* the thread of the VM
  None,      \* null
  Irregular, \* what the code accepts although it goes wrong, see Section "Irregular" below
  MaxChain,  \* bound: frames that wait for each other, and the one that runs
  MaxMoves   \* bound: how often one data stack moves

ASSUME MainIsNoYielder == Main \notin Yielder /\ None \notin Yielder \cup {Main}
ASSUME YieldersAreFinite == IsFiniteSet(Yielder)
ASSUME MovesAreNumbers == MaxMoves \in Nat

Thread == Yielder \cup {Main}
Slots  == {0, 1}  \* flags >> 1

VARIABLES
  frames,   \* frames[t]: the call stack from entrymethod to curmethod; empty before newThread
  base,     \* base[t]: the current address of the data stack
  yieldTo,  \* yieldTo[t]: the thread that t was resumed by
  done,     \* the yielders marked ThreadDone
  native    \* the activations of methodRunBC and of C methods, the one executing last

vars == <<frames, base, yieldTo, done, native>>

(***************************************************************************)
(* Irregular names what this model switches on to show that it goes wrong: *)
(*   "moves"    the stacks of yielders move too (else: only the main one)  *)
(*   "tail"     every kind of tail call (else: those that work)            *)
(*   "reenter"  a yielder is resumed that is in the middle of a call       *)
(*   "reset"    a yielder is reset that waits for another thread           *)
(***************************************************************************)
Regular == Irregular = {}

-----------------------------------------------------------------------------
(***************************************************************************)
(* Frames and pointers                                                     *)
(***************************************************************************)
top(t) == Len(frames[t])
curmethod(t) == Last(frames[t])
running == Last(native)
th == running.th  \* the thread that runs

ptr(t, i, s) == [th |-> t, base |-> base[t], frame |-> i, slot |-> s]
wild == [th |-> Main, base |-> MaxMoves + 1, frame |-> 1, slot |-> 0]
here(s) == ptr(th, top(th), s)
frame(method, retTo) == [method |-> method, retTo |-> retTo]

isCMethod(m) == m \in {"start", "C"}  \* no byte code: also the entry of the main thread

\* A slip (isEntry): any frame of a yielder.
isEntryAny(t) == t \in Yielder

\* t runs, or would run, in its first frame (ci == &entrymethod), and is a yielder.
isEntry(t) == t \in Yielder /\ top(t) = 1

\* The pointer after its frame's data stack was moved by the same distance.
shift(t, p) ==
  IF p.th = t /\ p.base = base[t] THEN [p EXCEPT !.base = base[t] + 1] ELSE wild

\* A slip (shifted): retTo is not corrected.
shiftedNot(t, fs) == fs

shifted(t, fs) == [i \in DOMAIN fs |-> [fs[i] EXCEPT !.retTo = shift(t, fs[i].retTo)]]

\* The call stack of t becomes fs, and then its data stack may move.
Grown(t, fs, moved) ==
  /\ frames' = [frames EXCEPT ![t] = IF moved THEN shifted(t, fs) ELSE fs]
  /\ base' = IF moved THEN [base EXCEPT ![t] = @ + 1] ELSE base

\* The stack of t may move, whoever keeps an address in it.
MayMove(t, moved) == moved => base[t] < MaxMoves /\ (t = Main \/ "moves" \in Irregular)

-----------------------------------------------------------------------------
(***************************************************************************)
(* Activations on the native stack                                         *)
(***************************************************************************)
\* methodRunBC, working for thread t with the address its registers have now; after says what it
\* does when the call it made itself comes back: go on, return, or go on where that call returned to.
loop(t, b)    == [run |-> "BC", th |-> t, base |-> b, after |-> "next"]
cMethod(t)    == [run |-> "C", th |-> t, base |-> 0, after |-> "next"]
waiting(then) == [native EXCEPT ![Len(native)].after = then]

\* assert(stkbeg == ci->begin) at the head of the interpreter's loop (methodRunBC): the loop that
\* runs knows where the registers of its thread's frame are.
StkbegCurrent == running.run = "BC" /\ running.after = "next" => running.base = base[th]

\* A loop whose assertion fails ends the process.
Runs == running.after = "next" /\ StkbegCurrent
Byte == Runs /\ running.run = "BC"

\* Byte code of thread t is run: by the loop that called, or by a new one when C called (getCall).
RunBC(t, b) ==
  IF running.run = "BC" THEN Append(Front(native), loop(t, b)) ELSE Append(native, loop(t, b))

\* A slip (Continue): the loop goes on although a C method made it.
ContinueAlways(nat, t, m, b) == Append(Front(nat), loop(t, b))

\* The last loop of nat has returned into method m of thread t: if that is in C, it made the loop.
Continue(nat, t, m, b) ==
  IF isCMethod(m) THEN Front(nat) ELSE Append(Front(nat), loop(t, b))

\* The threads that wait for t, from the main one, and t: those that resumed each other.
waitingFor(t) ==
  LET up[n \in 0..Cardinality(Thread)] == [u \in Thread \cup {None} |->
        IF u = None \/ n = 0 THEN <<>> ELSE Append(up[n - 1][yieldTo[u]], u)]
  IN  up[Cardinality(Thread)][t]

links(t) == [i \in 1..top(t) |-> [th |-> t, depth |-> i, slot |-> frames[t][i].retTo.slot]]

\* Every frame of the running thread and of those that wait for it, in the order of the waiting.
chain == FlattenSeq([i \in DOMAIN waitingFor(th) |-> links(waitingFor(th)[i])])

MayNest == Len(chain) < MaxChain

IsWaiting(t) == \E i \in DOMAIN waitingFor(th) : waitingFor(th)[i] = t

-----------------------------------------------------------------------------
(***************************************************************************)
(* Calls                                                                   *)
(***************************************************************************)
Init ==
  /\ frames = [t \in Thread |-> IF t = Main
       THEN <<frame("start", [th |-> Main, base |-> 0, frame |-> 1, slot |-> 0])>> ELSE <<>>]
  /\ base = [t \in Thread |-> 0]
  /\ yieldTo = [t \in Thread |-> None]
  /\ done = {}
  /\ native = <<cMethod(Main)>>

\* callMorCPrep for byte code.  Only 'each' asks for results behind the called value.
CallBytecode(s, moved) ==
  /\ Runs /\ MayNest /\ (s = 1 => Byte)
  /\ MayMove(th, moved)
  /\ Grown(th, Append(frames[th], frame("BC", here(s))), moved)
  /\ native' = RunBC(th, base'[th])
  /\ UNCHANGED <<yieldTo, done>>

\* callMorCPrep for a method written in C: it runs before callMorCPrep returns.
CallC(s, moved) ==
  /\ Runs /\ MayNest /\ (s = 1 => Byte)
  /\ MayMove(th, moved)
  /\ Grown(th, Append(frames[th], frame("C", here(s))), moved)
  /\ native' = Append(native, cMethod(th))
  /\ UNCHANGED <<yieldTo, done>>

newYielder(y) == [frames EXCEPT ![y] = <<frame("Y", ptr(y, 1, 0))>>]

\* callMorCPrep for a yield method: nothing runs, its result is a new yielder.
CallYieldMethod(y, s) ==
  /\ Runs /\ (s = 1 => Byte)
  /\ frames[y] = <<>>
  /\ frames' = newYielder(y)
  /\ UNCHANGED <<base, yieldTo, done, native>>

\* callYielderPrep, and the switch to the yielder.  A tail call does not switch unless it is the
\* one of a yielder's own method, which is made by a new loop.
CallYielder(y, s, tail) ==
  /\ Runs /\ (s = 1 => Byte) /\ (tail => Byte /\ "tail" \in Irregular)
  /\ frames[y] # <<>> /\ y \notin done /\ MayNest
  /\ IsWaiting(y) => "reenter" \in Irregular
  /\ frames' = [frames EXCEPT ![y][top(y)].retTo = here(s)]
  /\ yieldTo' = [yieldTo EXCEPT ![y] = th]
  /\ native' = IF ~tail THEN RunBC(y, base[y])
               ELSE IF isEntry(th) THEN Append(waiting("return"), loop(y, base[y]))
               ELSE native
  /\ UNCHANGED <<base, done>>

-----------------------------------------------------------------------------
(***************************************************************************)
(* Returns                                                                 *)
(***************************************************************************)
\* A slip (SwitchBack): back to the main thread, whoever resumed this one.
SwitchBackMain == native' = Continue(native, Main, curmethod(Main).method, base[Main])

\* Back to the thread that resumed this one.
SwitchBack ==
  LET u == yieldTo[th]
  IN  u # None /\ native' = Continue(native, u, curmethod(u).method, base[u])

\* The results are written to retTo; the yielder ends, or its frame does.
Leave(ends) ==
  /\ IF ends
     THEN SwitchBack /\ done' = done \cup {th} /\ UNCHANGED frames
     ELSE /\ frames' = [frames EXCEPT ![th] = Front(@)]
          /\ native' = Continue(native, th, frames[th][top(th) - 1].method, base[th])
          /\ UNCHANGED done

\* Also what a tail call of something that cannot be called comes to (returnNulls).
OpReturn ==
  /\ Byte
  /\ Leave(isEntry(th))
  /\ UNCHANGED <<base, yieldTo>>

\* The compiler takes a yield anywhere; here only the methods that may yield do.
OpYield ==
  /\ Byte
  /\ curmethod(th).method = "Y"
  /\ SwitchBack
  /\ UNCHANGED <<frames, base, yieldTo, done>>

\* methodRunC after the method.  A loop that called it in its last instruction goes on where it returned.
CReturn ==
  /\ running.run = "C" /\ Len(native) > 1
  /\ frames' = [frames EXCEPT ![th] = Front(@)]
  /\ native' = LET under == Front(native)
               IN  IF Last(under).after = "goto"
                   THEN Continue(under, th, frames[th][top(th) - 1].method, base[th])
                   ELSE under
  /\ UNCHANGED <<base, yieldTo, done>>

-----------------------------------------------------------------------------
(***************************************************************************)
(* Tail calls                                                              *)
(***************************************************************************)
\* tailcallMorCPrep: the frame becomes the called method's, and its results go where the called
\* value lay, whatever slot was asked for.  Returning into the main thread's entry from C would
\* read the flags of a null method.
TailCall(m, moved) ==
  /\ Byte /\ ~isEntry(th)
  /\ (m = "Y" \/ curmethod(th).retTo.slot # 0) => "tail" \in Irregular
  /\ m = "C" => frames[th][top(th) - 1].method # "start"
  /\ MayMove(th, moved)
  /\ Grown(th, Append(Front(frames[th]), frame(m, ptr(th, top(th) - 1, 0))), moved)
  /\ native' = IF m = "C" THEN Append(waiting("goto"), cMethod(th)) ELSE RunBC(th, base'[th])
  /\ UNCHANGED <<yieldTo, done>>

\* In a yielder's own method: an ordinary call made by getCall, and a return afterwards.
CallThenReturn(m) ==
  /\ Byte /\ isEntry(th) /\ MayNest
  /\ m = "BC" => "tail" \in Irregular
  /\ frames' = [frames EXCEPT ![th] = Append(@, frame(m, here(0)))]
  /\ native' = Append(waiting("return"), IF m = "C" THEN cMethod(th) ELSE loop(th, base[th]))
  /\ UNCHANGED <<base, yieldTo, done>>

\* The same for a yield method, in every method: the new yielder is returned.
MakeThenReturn(y) ==
  /\ Byte
  /\ th = Main \/ isEntry(th) \/ "tail" \in Irregular
  /\ frames[y] = <<>>
  /\ frames' = newYielder(y)
  /\ native' = waiting("return")
  /\ UNCHANGED <<base, yieldTo, done>>

\* What these calls are followed by: in a yielder it is taken for the end of the yielder.
ThenReturn ==
  /\ running.after = "return"
  /\ Leave(th \in Yielder)
  /\ UNCHANGED <<base, yieldTo>>

-----------------------------------------------------------------------------
(***************************************************************************)
(* Growing the stack by hand, and starting a yielder again                 *)
(***************************************************************************)
\* needMoreLocal, called by a C method or for the variable parameters of OpLoadVararg.
NeedMoreLocal ==
  /\ Runs
  /\ MayMove(th, TRUE)
  /\ Grown(th, frames[th], TRUE)
  /\ UNCHANGED <<yieldTo, done, native>>

\* context_reset, a C method: the yielder's first instruction is the next, in its first frame.  A
\* yielder that resets itself has that undone in part when the method returns, and is left out.
Reset(y) ==
  /\ running.run = "C"
  /\ frames[y] # <<>>
  /\ y # th /\ (IsWaiting(y) => "reset" \in Irregular)
  /\ frames' = [frames EXCEPT ![y] = <<Head(@)>>]
  /\ yieldTo' = [yieldTo EXCEPT ![y] = None]
  /\ done' = done \ {y}
  /\ UNCHANGED <<base, native>>

\* The process has ended.
AssertFails == ~StkbegCurrent /\ UNCHANGED vars

Next ==
  \/ \E moved \in BOOLEAN : \/ \E s \in Slots : CallBytecode(s, moved) \/ CallC(s, moved)
                            \/ \E m \in {"BC", "C", "Y"} : TailCall(m, moved)
  \/ \E y \in Yielder : \/ \E s \in Slots : \/ CallYieldMethod(y, s)
                                            \/ \E tail \in BOOLEAN : CallYielder(y, s, tail)
                        \/ MakeThenReturn(y) \/ Reset(y)
  \/ \E m \in {"BC", "C"} : CallThenReturn(m)
  \/ OpReturn \/ OpYield \/ CReturn \/ ThenReturn \/ NeedMoreLocal \/ AssertFails

Spec == Init /\ [][Next]_vars

-----------------------------------------------------------------------------
(***************************************************************************)
(* Properties                                                              *)
(***************************************************************************)
Pointer == [th : Thread, base : 0..MaxMoves + 1, frame : Nat \ {0}, slot : Slots]

\* Every frame, pointer and activation is of its kind.
TypeOK ==
  /\ frames \in [Thread -> Seq([method : {"start", "BC", "C", "Y"}, retTo : Pointer])]
  /\ base \in [Thread -> 0..MaxMoves]
  /\ yieldTo \in [Thread -> Thread \cup {None}]
  /\ done \subseteq {y \in Yielder : frames[y] # <<>>}
  /\ native \in Seq([run : {"BC", "C"}, th : Thread, base : 0..MaxMoves,
                     after : {"next", "return", "goto"}])
  /\ native # <<>> /\ frames[th] # <<>>

\* Whatever was called, resumed, moved and returned in between, the retTo of every frame that
\* somebody waits for points to a register of the very frame that waits, at its current address.
RetToCaller ==
  \A i \in 2..Len(chain) :
    frames[chain[i].th][chain[i].depth].retTo
      = ptr(chain[i - 1].th, chain[i - 1].depth, chain[i].slot)

active  == {j \in DOMAIN native : native[j].run = "C"}
cFrames == {i \in DOMAIN chain : isCMethod(frames[chain[i].th][chain[i].depth].method)}

\* The methods written in C that are active on the native stack are the C frames of the chain, in
\* the same order, and the last activation runs the last frame: no loop has returned to, or gone on
\* for, another C method than the one that made it, however often the threads were switched.
NativeMatches ==
  /\ TypeOK
  /\ \E of \in [active -> cFrames] :
       /\ \A j \in active : chain[of[j]].th = native[j].th
       /\ \A i, j \in active : i < j => of[i] < of[j]
       /\ \A i \in cFrames : \E j \in active : of[j] = i
  /\ isCMethod(curmethod(th).method) <=> running.run = "C"

\* A method that yields runs as the first frame of a yielder and nowhere else, and that is the only
\* frame of a yielder nobody waits for: it can be resumed, and reset, without losing a call.
YieldersAsleep ==
  /\ \A t \in Thread : \A i \in DOMAIN frames[t] :
       frames[t][i].method = "Y" <=> t \in Yielder /\ i = 1
  /\ \A y \in Yielder : ~IsWaiting(y) => top(y) <= 1

\* Calls, yields and tail calls are those of one chain of frames, in which every result arrives
\* in the frame that asked for it, where it asked for it, and a yielder that ended stays out.
Abstract == INSTANCE Coroutines WITH finished <- done
ImplementsCoroutines == Abstract!Spec
=============================================================================
