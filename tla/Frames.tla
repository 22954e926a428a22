-------------------------------- MODULE Frames --------------------------------
(***************************************************************************)
(* What the methods of one thread may rely on when they call each other:   *)
(* each has values of its own, numbered from 0 (self), which nobody else   *)
(* touches. A call takes the last of them, a method and its parameters;    *)
(* the called method finds the fixed parameters it declares, missing ones  *)
(* null, and the others apart, if it takes any number. What it returns,    *)
(* as many values as the caller wants, the caller finds in place of what   *)
(* the call took.                                                          *)
(*                                                                         *)
(* There are no slots, no pointers and no sizes here; compare Stacks.      *)
(***************************************************************************)
EXTENDS Integers, SequencesExt

CONSTANTS
  Value,    \* what is stored, apart from null and what can be called
  NParms,   \* the fixed parameters of a byte-code method, self included
  All,      \* wanting every value there is
  Most      \* bound: values wanted, or kept

VARIABLES
  frames,   \* the methods that wait for each other, as [method, rest, locals, want]
  did       \* the last operation, with its operands and what it put into a new closure or yielder

vars == <<frames, did>>

Null == "null"
\* A method in C, in byte code, in byte code with variable parameters, or one that makes yielders (without, with).
Methods  == {"c", "b", "v", "y", "yv"}
\* A closure with a method in byte code to get and one in C to set, and one without the latter.
Closures == {"closure", "getter"}
Callable == Methods \cup Closures
\* The method that runs when m is called.
Method(m, set) ==
  CASE m \in Closures /\ ~set        -> "b"
    [] m = "closure" /\ set          -> "c"
    [] m \in Methods /\ ~set         -> m
    [] OTHER                         -> "none"

Padded(s, n) == [i \in 1 .. n |-> IF i <= Len(s) THEN s[i] ELSE Null]
Wanted(s, want) == IF want = All THEN s ELSE Padded(s, want)
Final(s, n)  == SubSeq(s, Len(s) - n + 1, Len(s))
Without(s, n) == SubSeq(s, 1, Len(s) - n)

Locals == Last(frames).locals
At(i)  == Locals[i + 1]
Index  == 0 .. Len(Locals) - 1
Now(locals) == [frames EXCEPT ![Len(frames)].locals = locals]

Frame(m, run, args, want) ==
  [method |-> m, want |-> want,
   rest   |-> IF run \in {"v", "yv"} THEN SubSeq(args, NParms + 1, Len(args)) ELSE <<>>,
   locals |-> IF run = "c" THEN args ELSE Padded(args, NParms)]

Init == frames = <<[method |-> Null, rest |-> <<>>, locals |-> <<>>, want |-> 0]>> /\ did = <<"start">>

(***************************************************************************)
(* The running method changes its own values.                              *)
(***************************************************************************)
Push(v)    == did' = <<"push", v>> /\ frames' = Now(Append(Locals, v))
PushLocal(i) == did' = <<"push local", i>> /\ frames' = Now(Append(Locals, At(i)))
Pop        == did' = <<"pop", Last(Locals)>> /\ frames' = Now(Front(Locals))
Set(i, v)  == did' = <<"set", i, v>> /\ frames' = Now(ReplaceAt(Locals, i + 1, v))
Copy(i, j) == did' = <<"copy", i, j>> /\ frames' = Now(ReplaceAt(Locals, i + 1, At(j)))
Delete(i)  == did' = <<"delete", i>> /\ frames' = Now(RemoveAt(Locals, i + 1))
Insert(i)  == did' = <<"insert", i>> /\ frames' = Now(InsertAt(Front(Locals), i + 1, Last(Locals)))
PopTo(i)   == did' = <<"pop to", i>> /\ frames' = Now(ReplaceAt(Front(Locals), i + 1, Last(Locals)))
Resize(n)  == did' = <<"resize", n>> /\ frames' = Now(Padded(Locals, n))
\* The variable parameters, or the first n of them.
Rest(n)    == did' = <<"rest", n>> /\ frames' = Now(Locals \o Wanted(Last(frames).rest, n))
Closure(n) == did' = <<"closure", Final(Locals, n)>> /\ frames' = Now(Append(Without(Locals, n), "closure"))

(***************************************************************************)
(* Calls: m is called with args by a method that keeps the rest of its     *)
(* values. It runs, or gives a yielder, or nulls, at once.                 *)
(***************************************************************************)
Calls(m, args, kept, want, set) ==
  LET run == Method(m, set)
      answer(s) == frames' = Now(kept \o s)
  IN CASE run = "none" -> answer(Wanted(<<Null>>, want))
       [] run \in {"y", "yv"} -> answer(Padded(<<"yielder">>, want))
       [] OTHER        -> frames' = Append(Now(kept), Frame(m, run, args, want))

\* What a new yielder starts with.
Yielder(m, args) == LET f == Frame(m, m, args, 0) IN <<f.locals, f.rest>>

\* A call takes the property or method and its n parameters off.
Call(m, n, want, set) ==
  /\ did' = <<"call", m, n, want, set, IF Method(m, set) \in {"y", "yv"} THEN Yielder(m, Final(Locals, n)) ELSE <<>> >>
  /\ Calls(m, Final(Locals, n), Without(Locals, n + 1), want, set)
\* What is iterated over stays.
EachCall(m, n, want) == did' = <<"each", m, n, want>> /\ Calls(m, Final(Locals, n), Without(Locals, n), want, FALSE)
\* The last value is given to a property of another one: to the method that sets it, if it is a closure with such a
\* method, whose answer is left; otherwise it is stored.
SetProp(m, i) ==
  /\ did' = <<"set property", m, i>>
  /\ IF m \in Closures /\ Method(m, TRUE) # "none"
     THEN Calls(m, <<At(i), Last(Locals)>>, Front(Locals), 1, TRUE) ELSE frames' = Now(Front(Locals))

\* The caller goes on with what it wants of the n returned values, from the i-th on.
Returned(s) == frames' = [Front(frames) EXCEPT ![Len(frames) - 1].locals = @ \o Wanted(s, Last(frames).want)]
Return(i, n) == did' = <<"return", i, n>> /\ Returned(SubSeq(Locals, i + 1, i + n))

\* The running method is replaced by the one it calls.
TailCall(m, n) ==
  /\ did' = <<"tail", m, n>>
  /\ IF Method(m, FALSE) = "none" THEN Returned(<<Null>>)
     ELSE frames' = Append(Front(frames), Frame(m, Method(m, FALSE), Final(Locals, n), Last(frames).want))

Some == 0 .. Most
Called == Value \cup Callable \cup {Null}
\* (What was done is asked for first, because TLC tries every operand.)
Next ==
  \/ did'[1] = "push" /\ \E v \in Called : Push(v)
  \/ did'[1] = "set" /\ \E i \in Index, v \in Called : Set(i, v)
  \/ did'[1] = "copy" /\ \E i, j \in Index : Copy(i, j)
  \/ did'[1] \in {"push local", "delete", "insert", "closure"} /\ \E i \in Index :
       PushLocal(i) \/ Delete(i) \/ Insert(i) \/ Closure(i + 1)
  \/ did'[1] = "pop" /\ Locals # <<>> /\ Pop
  \/ did'[1] = "pop to" /\ \E i \in 0 .. Len(Locals) - 2 : PopTo(i)
  \/ did'[1] = "resize" /\ \E n \in Some : Resize(n)
  \/ did'[1] = "rest" /\ \E n \in Some \cup {All} : Rest(n)
  \/ did'[1] = "call" /\ \E m \in Called, n \in Index, want \in Some \cup {All}, set \in BOOLEAN : Call(m, n, want, set)
  \/ did'[1] = "each" /\ \E m \in Called, n \in Index, want \in Some \cup {All} : EachCall(m, n, want)
  \/ did'[1] = "set property" /\ \E m \in Called, i \in Index : SetProp(m, i)
  \/ did'[1] = "return" /\ Len(frames) > 1 /\ \E i, j \in 0 .. Len(Locals) : i <= j /\ Return(i, j - i)
  \/ did'[1] = "tail" /\ Len(frames) > 1 /\ \E m \in Called, i \in Index : TailCall(m, i)

Spec == Init /\ [][Next]_vars
==============================================================================
