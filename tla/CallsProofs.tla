---------------------------- MODULE CallsProofs ----------------------------
(***************************************************************************)
(* However calls, returns, yields and tail calls of any number of yielders *)
(* follow each other, without a bound on their nesting and while nothing   *)
(* that Irregular names happens: every result arrives in the frame that    *)
(* waits for it, the main stack moving at any call, and Calls implements   *)
(* Coroutines, until the assertion of the interpreter's loop fails.        *)
(***************************************************************************)
EXTENDS CallsInv, SeqProofs, FiniteSetTheorems

-----------------------------------------------------------------------------
LEMMA Pushed ==
  ASSUME NEW S, NEW s \in Seq(S), s # <<>>, NEW a \in S
  PROVE  LET t == Append(s, a) IN
         /\ t \in Seq(S) /\ t # <<>> /\ t[1] = s[1] /\ Len(t) = Len(s) + 1 /\ t[Len(s) + 1] = a
         /\ \A i \in 1 .. Len(s) : t[i] = s[i]
BY AppendProperties, EmptySeq, LenProperties

LEMMA Popped ==
  ASSUME NEW S, NEW s \in Seq(S), Len(s) > 1
  PROVE  LET t == Front(s) IN
         /\ t \in Seq(S) /\ t # <<>> /\ t[1] = s[1] /\ Len(t) = Len(s) - 1
         /\ \A i \in 1 .. Len(s) - 1 : t[i] = s[i]
<1> DEFINE n == Len(s) - 1
<1>1. n \in Nat /\ n >= 1 /\ Len(s) = n + 1 /\ \A i \in 1 .. n : s[i] \in S
  BY LenProperties, ElementOfSeq
<1> HIDE DEF n
<1>2. /\ SubSeq(s, 1, n) \in Seq(S)
      /\ Len(SubSeq(s, 1, n)) = IF 1 <= n THEN n - 1 + 1 ELSE 0
      /\ \A i \in 1 .. n - 1 + 1 : SubSeq(s, 1, n)[i] = s[1 + i - 1]
  BY <1>1, SubSeqProperties
<1>3. Len(SubSeq(s, 1, n)) = n /\ \A i \in 1 .. n : SubSeq(s, 1, n)[i] = s[i]
  BY <1>1, <1>2
<1>4. SubSeq(s, 1, n) # <<>>
  BY <1>1, <1>2, <1>3, EmptySeq
<1> QED
  BY <1>1, <1>2, <1>3, <1>4 DEF Front, n

\* What happens to the activations: some are popped, and one or none is pushed.
Good(s) ==
  /\ s \in Seq(Activation) /\ s # <<>> /\ s[1].run = "C"
  /\ \A i \in 1 .. Len(s) : ActivationOK(s[i])

LEMMA GoodPushed ==
  ASSUME NEW s, Good(s), NEW a \in Activation, ActivationOK(a)
  PROVE  Good(Append(s, a))
<1>1. s \in Seq(Activation) /\ s # <<>>
  BY DEF Good
<1>2. PICK t : t = Append(s, a)
  OBVIOUS
<1>3. /\ t \in Seq(Activation) /\ t # <<>> /\ t[1] = s[1] /\ Len(t) = Len(s) + 1 /\ t[Len(s) + 1] = a
      /\ \A i \in 1 .. Len(s) : t[i] = s[i]
  BY <1>1, <1>2, Pushed
<1>4. \A i \in 1 .. Len(t) : i \in 1 .. Len(s) \/ i = Len(s) + 1
  BY <1>1, <1>3, LenProperties
<1> QED
  BY <1>2, <1>3, <1>4 DEF Good

LEMMA GoodPopped ==
  ASSUME NEW s, Good(s), Len(s) > 1
  PROVE  Good(Front(s))
<1>1. s \in Seq(Activation) /\ Len(s) \in Nat
  BY LenProperties DEF Good
<1>2. PICK t : t = Front(s)
  OBVIOUS
<1>3. /\ t \in Seq(Activation) /\ t # <<>> /\ t[1] = s[1] /\ Len(t) = Len(s) - 1
      /\ \A i \in 1 .. Len(s) - 1 : t[i] = s[i]
  BY <1>1, <1>2, Popped
<1>4. \A i \in 1 .. Len(t) : i \in 1 .. Len(s) - 1 /\ i \in 1 .. Len(s)
  BY <1>1, <1>3
<1> QED
  BY <1>2, <1>3, <1>4 DEF Good

\* A loop is never the first activation.
LEMMA LoopAbove ==
  ASSUME NEW s, Good(s), Last(s).run # "C"
  PROVE  Len(s) > 1
<1>1. Len(s) \in Nat \ {0}
  BY EmptySeq, LenProperties DEF Good
<1> QED
  BY <1>1 DEF Good, Last

LEMMA GoodTop ==
  ASSUME NativeInv
  PROVE  /\ Good(native) /\ running \in Activation /\ th \in Thread /\ running = native[Len(native)]
         /\ ActivationOK(running) /\ running.run \in {"BC", "C"}
<1>1. Len(native) \in Nat \ {0}
  BY EmptySeq, LenProperties DEF NativeInv
<1>2. Good(native)
  BY DEF NativeInv, Good
<1>3. running = native[Len(native)] /\ Len(native) \in 1 .. Len(native)
  BY <1>1 DEF running, Last
<1>4. running \in Activation /\ ActivationOK(running)
  BY <1>3, ElementOfSeq DEF NativeInv
<1> QED
  BY <1>2, <1>3, <1>4 DEF Activation, th

\* New activations.
LEMMA Loops ==
  ASSUME NEW t \in Thread, NEW b \in [Thread -> Nat]
  PROVE  /\ loop(t, b[t]) \in Activation /\ ActivationOK(loop(t, b[t]))
         /\ cMethod(t) \in Activation /\ ActivationOK(cMethod(t))
BY DEF loop, cMethod, Activation, ActivationOK

LEMMA Continued ==
  ASSUME NEW b \in [Thread -> Nat], NEW s, Good(s), Last(s).run # "C", NEW t \in Thread, NEW m
  PROVE  Good(Continue(s, t, m, b[t]))
BY GoodPopped, GoodPushed, LoopAbove, Loops DEF Continue

LEMMA ByteCode ==
  ASSUME NativeInv, NEW b \in [Thread -> Nat], NEW t \in Thread,
         running.run = "BC" => Good(Front(native)), running.run # "BC" => Good(native)
  PROVE  Good(RunBC(t, b[t]))
BY GoodPushed, Loops DEF RunBC

LEMMA LoopWaits ==
  ASSUME NativeInv, running.run = "BC", Good(Front(native)), NEW then \in {"return", "goto"}
  PROVE  Good(waiting(then))
<1>1. PICK n : n = Len(native)
  OBVIOUS
<1>2. n \in Nat \ {0} /\ running = native[n] /\ running \in Activation /\ n > 1
  <2>1. Last(native).run # "C" /\ Good(native)
    BY GoodTop DEF running
  <2> QED
    BY <1>1, <2>1, GoodTop, EmptySeq, LenProperties, LoopAbove DEF NativeInv
<1>3. PICK a : a = [running EXCEPT !.after = then]
  OBVIOUS
<1>4. a \in Activation /\ a.run = "BC" /\ a.after = then
  BY <1>2, <1>3 DEF Activation
<1>5. PICK s : s = [native EXCEPT ![n] = a]
  OBVIOUS
<1>6. s = waiting(then)
  BY <1>1, <1>2, <1>3, <1>5 DEF waiting
<1>7. s \in Seq(Activation) /\ Len(s) = n /\ s[n] = a /\ \A i \in 1 .. n - 1 : s[i] = native[i]
  BY <1>1, <1>2, <1>4, <1>5, ExceptSeq DEF NativeInv
<1>8. /\ Len(Front(native)) = n - 1 /\ \A i \in 1 .. n - 1 : Front(native)[i] = native[i]
  BY <1>1, <1>2, Popped DEF NativeInv
<1>9. \A i \in 1 .. n - 1 : ActivationOK(s[i])
  BY <1>7, <1>8 DEF Good
<1>10. ActivationOK(a)
  BY <1>4 DEF ActivationOK
<1>11. s # <<>> /\ s[1].run = "C" /\ \A i \in 1 .. n : i = n \/ i \in 1 .. n - 1
  BY <1>2, <1>7, EmptySeq DEF NativeInv
<1> QED
  BY <1>6, <1>7, <1>9, <1>10, <1>11 DEF Good

-----------------------------------------------------------------------------
(***************************************************************************)
(* The steps.                                                              *)
(***************************************************************************)
LEMMA Moves ==
  ASSUME NativeInv, NEW fs, NEW moved \in BOOLEAN, Grown(th, fs, moved)
  PROVE  base' \in [Thread -> Nat]
<1>1. th \in Thread
  BY GoodTop
<1>2. CASE ~moved
  BY <1>2 DEF Grown, NativeInv
<1>3. CASE moved
  <2>1. base' = [base EXCEPT ![th] = @ + 1]
    BY <1>3 DEF Grown
  <2> QED
    BY <1>1, <2>1 DEF NativeInv
<1> QED
  BY <1>2, <1>3

LEMMA SwitchedBack ==
  ASSUME NativeInv, running.run = "BC", SwitchBack
  PROVE  Good(native')
<1>1. yieldTo[th] \in Thread
  BY GoodTop DEF SwitchBack, NativeInv
<1>2. Last(native).run # "C"
  BY DEF running
<1> QED
  BY <1>1, <1>2, GoodTop, Continued DEF SwitchBack, NativeInv

LEMMA Left ==
  ASSUME NativeInv, running.run = "BC", NEW ends, Leave(ends)
  PROVE  Good(native')
<1>1. Last(native).run # "C" /\ Good(native) /\ th \in Thread /\ base \in [Thread -> Nat]
  BY GoodTop DEF running, NativeInv
<1>2. CASE ends
  BY <1>2, SwitchedBack DEF Leave
<1>3. CASE ~ends
  <2>1. PICK m : native' = Continue(native, th, m, base[th])
    BY <1>3 DEF Leave
  <2> QED
    BY <1>1, <2>1, Continued
<1> QED
  BY <1>2, <1>3

LEMMA KeptOfLoop ==
  ASSUME NativeInv
  PROVE  running.run = "BC" => Good(Front(native))
<1> SUFFICES ASSUME running.run = "BC" PROVE Good(Front(native))
  OBVIOUS
<1>1. Last(native).run # "C" /\ Good(native)
  BY GoodTop DEF running
<1> QED
  BY <1>1, LoopAbove, GoodPopped

\* The stack moves before byte code is run by the loop that called, or by a new one.
LEMMA RunsByteCode ==
  ASSUME NativeInv, NEW fs, NEW moved \in BOOLEAN, Grown(th, fs, moved), native' = RunBC(th, base'[th])
  PROVE  base' \in [Thread -> Nat] /\ Good(native')
<1>1. PICK b : b = base'
  OBVIOUS
<1>2. th \in Thread /\ Good(native) /\ b \in [Thread -> Nat]
  BY <1>1, GoodTop, Moves
<1>3. Good(RunBC(th, b[th]))
  BY <1>2, ByteCode, KeptOfLoop
<1> QED
  BY <1>1, <1>2, <1>3

LEMMA Initially == Init => NativeInv
<1> SUFFICES ASSUME Init PROVE NativeInv
  OBVIOUS
<1>1. cMethod(Main) \in Activation /\ cMethod(Main).after = "next" /\ cMethod(Main).run = "C"
  BY DEF cMethod, Activation, Thread
<1>2. PICK s : s = <<cMethod(Main)>>
  OBVIOUS
<1>3. s \in Seq(Activation) /\ s # <<>> /\ Len(s) = 1 /\ s[1] = cMethod(Main)
  BY <1>1, <1>2
<1>4. \A i \in 1 .. Len(s) : ActivationOK(s[i])
  BY <1>1, <1>3 DEF ActivationOK
<1> QED
  BY <1>1, <1>2, <1>3, <1>4 DEF Init, NativeInv

LEMMA Kept ==
  ASSUME base' \in [Thread -> Nat], Good(native'), yieldTo' \in [Thread -> Thread \cup {None}]
  PROVE  NativeInv'
BY DEF NativeInv, Good

LEMMA CReturned ==
  ASSUME NativeInv, CReturn
  PROVE  Good(native')
<1>1. PICK under : under = Front(native)
  OBVIOUS
<1>2. Good(under) /\ Len(native) > 1
  BY <1>1, GoodTop, GoodPopped DEF CReturn
<1>3. CASE Last(under).after = "goto"
  <2>1. Last(under).run # "C"
    <3>1. Len(under) \in Nat \ {0}
      BY <1>2, EmptySeq, LenProperties DEF Good
    <3>2. ActivationOK(Last(under))
      BY <1>2, <3>1 DEF Good, Last
    <3> QED
      BY <1>3, <3>2 DEF ActivationOK
  <2>2. th \in Thread /\ base \in [Thread -> Nat]
    BY GoodTop DEF NativeInv
  <2>3. native' = Continue(under, th, frames[th][top(th) - 1].method, base[th])
    BY <1>1, <1>3 DEF CReturn
  <2> QED
    BY <1>2, <2>1, <2>2, <2>3, Continued
<1>4. CASE Last(under).after # "goto"
  BY <1>1, <1>2, <1>4 DEF CReturn
<1> QED
  BY <1>3, <1>4

LEMMA Inductive ==
  ASSUME Regular, NativeInv, [Next]_vars
  PROVE  NativeInv'
<1>1. /\ base \in [Thread -> Nat] /\ yieldTo \in [Thread -> Thread \cup {None}] /\ th \in Thread
      /\ Good(native) /\ (Byte => running.run = "BC") /\ (running.after # "next" => running.run = "BC")
  BY GoodTop DEF NativeInv, Byte, ActivationOK
<1>2. ASSUME NEW s \in Slots, NEW moved \in BOOLEAN, CallBytecode(s, moved) PROVE NativeInv'
  BY <1>1, <1>2, RunsByteCode, Kept DEF CallBytecode
<1>3. ASSUME NEW s \in Slots, NEW moved \in BOOLEAN, CallC(s, moved) PROVE NativeInv'
  <2>1. PICK b : b = base'
    OBVIOUS
  <2>2. b \in [Thread -> Nat] /\ Good(native)
    BY <1>1, <1>3, <2>1, Moves DEF CallC
  <2>3. Good(Append(native, cMethod(th)))
    BY <1>1, <2>2, GoodPushed, Loops
  <2> QED
    BY <1>1, <1>3, <2>1, <2>2, <2>3, Kept DEF CallC
<1>4. ASSUME NEW m \in {"BC", "C", "Y"}, NEW moved \in BOOLEAN, TailCall(m, moved) PROVE NativeInv'
  <2>1. running.run = "BC"
    BY <1>1, <1>4 DEF TailCall
  <2>2. CASE m # "C"
    BY <1>1, <1>4, <2>2, RunsByteCode, Kept DEF TailCall
  <2>3. CASE m = "C"
    <3>1. PICK b : b = base'
      OBVIOUS
    <3>2. b \in [Thread -> Nat] /\ Good(Front(native))
      BY <1>1, <1>4, <2>1, <3>1, Moves, KeptOfLoop DEF TailCall
    <3>3. Good(waiting("goto"))
      BY <2>1, <3>2, LoopWaits
    <3>4. Good(Append(waiting("goto"), cMethod(th)))
      BY <1>1, <3>2, <3>3, GoodPushed, Loops
    <3> QED
      BY <1>1, <1>4, <2>3, <3>1, <3>2, <3>4, Kept DEF TailCall
  <2> QED
    BY <2>2, <2>3
<1>5. ASSUME NEW y \in Yielder, NEW s \in Slots, CallYieldMethod(y, s) PROVE NativeInv'
  BY <1>1, <1>5, Kept DEF CallYieldMethod
<1>6. ASSUME NEW y \in Yielder, NEW s \in Slots, NEW tail \in BOOLEAN, CallYielder(y, s, tail) PROVE NativeInv'
  <2>1. y \in Thread /\ ~tail
    BY <1>6 DEF CallYielder, Thread, Regular
  <2>2. native' = RunBC(y, base[y]) /\ base' = base /\ yieldTo' = [yieldTo EXCEPT ![y] = th]
    BY <1>6, <2>1 DEF CallYielder
  <2>3. Good(RunBC(y, base[y]))
    BY <1>1, <2>1, ByteCode, KeptOfLoop
  <2> QED
    BY <1>1, <2>1, <2>2, <2>3, Kept
<1>7. ASSUME NEW y \in Yielder, MakeThenReturn(y) PROVE NativeInv'
  <2>1. Good(waiting("return"))
    BY <1>1, <1>7, LoopWaits, KeptOfLoop DEF MakeThenReturn
  <2> QED
    BY <1>1, <1>7, <2>1, Kept DEF MakeThenReturn
<1>8. ASSUME NEW y \in Yielder, Reset(y) PROVE NativeInv'
  <2>1. yieldTo' \in [Thread -> Thread \cup {None}]
    BY <1>1, <1>8 DEF Reset
  <2> QED
    BY <1>1, <1>8, <2>1, Kept DEF Reset
<1>9. ASSUME NEW m \in {"BC", "C"}, CallThenReturn(m) PROVE NativeInv'
  <2>1. m = "C" /\ running.run = "BC"
    BY <1>1, <1>9 DEF CallThenReturn, Regular
  <2>2. Good(waiting("return"))
    BY <1>1, <2>1, LoopWaits, KeptOfLoop
  <2>3. Good(Append(waiting("return"), cMethod(th)))
    BY <1>1, <2>2, GoodPushed, Loops
  <2> QED
    BY <1>1, <1>9, <2>1, <2>3, Kept DEF CallThenReturn
<1>10. ASSUME OpReturn \/ ThenReturn PROVE NativeInv'
  <2>1. running.run = "BC" /\ UNCHANGED <<base, yieldTo>>
    BY <1>1, <1>10 DEF OpReturn, ThenReturn
  <2>2. Good(native')
    BY <1>10, <2>1, Left DEF OpReturn, ThenReturn
  <2> QED
    BY <1>1, <2>1, <2>2, Kept
<1>11. ASSUME OpYield PROVE NativeInv'
  BY <1>1, <1>11, SwitchedBack, Kept DEF OpYield
<1>12. ASSUME CReturn PROVE NativeInv'
  BY <1>1, <1>12, CReturned, Kept DEF CReturn
<1>13. ASSUME NeedMoreLocal PROVE NativeInv'
  <2>1. PICK b : b = base'
    OBVIOUS
  <2>2. b \in [Thread -> Nat] /\ Good(native)
    BY <1>1, <1>13, <2>1, Moves DEF NeedMoreLocal
  <2> QED
    BY <1>1, <1>13, <2>1, <2>2, Kept DEF NeedMoreLocal
<1>14. ASSUME UNCHANGED vars \/ AssertFails PROVE NativeInv'
  BY <1>1, <1>14, Kept DEF vars, AssertFails
<1> QED
  BY <1>2, <1>3, <1>4, <1>5, <1>6, <1>7, <1>8, <1>9, <1>10, <1>11, <1>12, <1>13, <1>14 DEF Next

-----------------------------------------------------------------------------
(***************************************************************************)
(* The chain of waiting frames, which the specification computes by        *)
(* following yieldTo from the running thread and by flattening: the thread *)
(* it starts from can be found (waitingFor is the path of CInv), and the   *)
(* frames of the path, put behind each other, give their results from each *)
(* to the one before.                                                      *)
(***************************************************************************)
linksOf(t, f) == [i \in 1 .. Len(f[t]) |-> [th |-> t, depth |-> i, slot |-> f[t][i].retTo.slot]]
ChainOf(w, f) == FlattenSeq([i \in DOMAIN w |-> linksOf(w[i], f)])
Link          == [th : Thread, depth : Nat, slot : Slots]
Stacks        == [Thread -> Seq(Frame)]

LEMMA LinksTyped ==
  ASSUME NEW t \in Thread, NEW f \in Stacks
  PROVE  /\ linksOf(t, f) \in Seq(Link) /\ Len(linksOf(t, f)) = Len(f[t])
         /\ \A i \in 1 .. Len(f[t]) : linksOf(t, f)[i] = [th |-> t, depth |-> i, slot |-> f[t][i].retTo.slot]
<1> PICK s : s = f[t]
  OBVIOUS
<1> PICK L : L = linksOf(t, f)
  OBVIOUS
<1>1. s \in Seq(Frame) /\ Len(s) \in Nat
  BY LenProperties DEF Stacks
<1>2. L = [i \in 1 .. Len(s) |-> [th |-> t, depth |-> i, slot |-> s[i].retTo.slot]]
  BY DEF linksOf
<1>3. ASSUME NEW i \in 1 .. Len(s) PROVE [th |-> t, depth |-> i, slot |-> s[i].retTo.slot] \in Link
  <2>1. s[i] \in Frame
    BY <1>1, ElementOfSeq
  <2>2. s[i].retTo.slot \in Slots /\ i \in Nat
    BY <2>1 DEF Frame, Target
  <2> QED
    BY <2>2 DEF Link
<1>4. L \in Seq(Link) /\ Len(L) = Len(s)
  <2>1. L \in [1 .. Len(s) -> Link]
    BY <1>2, <1>3
  <2> QED
    BY <1>1, <2>1
<1> QED
  BY <1>2, <1>4

LEMMA ChainTyped ==
  ASSUME NEW w \in Seq(Thread), NEW f \in Stacks
  PROVE  /\ [i \in DOMAIN w |-> linksOf(w[i], f)] \in Seq(Seq(Link)) /\ ChainOf(w, f) \in Seq(Link)
         /\ Len([i \in DOMAIN w |-> linksOf(w[i], f)]) = Len(w) /\ (w = <<>> => ChainOf(w, f) = <<>>)
<1> PICK s : s = [i \in DOMAIN w |-> linksOf(w[i], f)]
  OBVIOUS
<1>1. Len(w) \in Nat /\ DOMAIN w = 1 .. Len(w)
  BY LenProperties
<1>2. \A i \in 1 .. Len(w) : linksOf(w[i], f) \in Seq(Link)
  BY ElementOfSeq, LinksTyped
<1>3. s \in Seq(Seq(Link)) /\ Len(s) = Len(w)
  <2>1. s \in [1 .. Len(w) -> Seq(Link)]
    BY <1>1, <1>2
  <2> QED
    BY <1>1, <2>1
<1>4. FlattenSeq(s) \in Seq(Link) /\ (s = <<>> => FlattenSeq(s) = <<>>)
  BY <1>3, FlatTyped
<1>5. w = <<>> => s = <<>>
  <2> SUFFICES ASSUME w = <<>> PROVE s = <<>>
    OBVIOUS
  <2>1. Len(s) = 0
    BY <1>3, EmptySeq
  <2> QED
    BY <1>3, <2>1, EmptySeq
<1> QED
  BY <1>3, <1>4, <1>5 DEF ChainOf

LEMMA ChainAppend ==
  ASSUME NEW w \in Seq(Thread), NEW t \in Thread, NEW f \in Stacks
  PROVE  ChainOf(Append(w, t), f) = ChainOf(w, f) \o linksOf(t, f)
<1> PICK v : v = Append(w, t)
  OBVIOUS
<1> PICK s : s = [i \in DOMAIN w |-> linksOf(w[i], f)]
  OBVIOUS
<1> PICK r : r = [i \in DOMAIN v |-> linksOf(v[i], f)]
  OBVIOUS
<1> PICK e : e = linksOf(t, f)
  OBVIOUS
<1> PICK a : a = Append(s, e)
  OBVIOUS
<1> PICK n \in Nat : n = Len(w)
  BY LenProperties
<1>1. v \in Seq(Thread) /\ Len(v) = n + 1 /\ v[n + 1] = t /\ \A i \in 1 .. n : v[i] = w[i]
  BY AppendProperties
<1>2. /\ s \in Seq(Seq(Link)) /\ Len(s) = n /\ r \in Seq(Seq(Link)) /\ Len(r) = n + 1
      /\ e \in Seq(Link)
  BY <1>1, ChainTyped, LinksTyped
<1>3. DOMAIN w = 1 .. n /\ DOMAIN v = 1 .. n + 1
  BY <1>1, LenProperties
<1>4. a \in Seq(Seq(Link)) /\ Len(a) = n + 1 /\ a[n + 1] = e /\ \A i \in 1 .. n : a[i] = s[i]
  <2> PICK Q : Q = Seq(Link)
    OBVIOUS
  <2>1. s \in Seq(Q) /\ e \in Q
    BY <1>2
  <2>2. a \in Seq(Q) /\ Len(a) = Len(s) + 1 /\ a[Len(s) + 1] = e /\ \A i \in 1 .. Len(s) : a[i] = s[i]
    BY <2>1, AppendProperties
  <2> QED
    BY <1>2, <2>2
<1>5. r = a
  <2>1. ASSUME NEW i \in 1 .. n + 1 PROVE r[i] = a[i]
    <3>1. CASE i = n + 1
      BY <1>1, <1>3, <1>4, <3>1
    <3>2. CASE i \in 1 .. n
      BY <1>1, <1>3, <1>4, <3>2
    <3> QED
      BY <3>1, <3>2
  <2> QED
    BY <1>2, <1>4, <2>1, SeqEqual
<1> QED
  BY <1>2, <1>5, FlatAppend DEF ChainOf

LEMMA ChainSame ==
  ASSUME NEW w \in Seq(Thread), NEW f \in Stacks, NEW g \in Stacks,
         \A i \in 1 .. Len(w) : f[w[i]] = g[w[i]]
  PROVE  ChainOf(w, f) = ChainOf(w, g)
<1>1. DOMAIN w = 1 .. Len(w)
  BY LenProperties
<1>2. \A i \in DOMAIN w : linksOf(w[i], f) = linksOf(w[i], g)
  BY <1>1 DEF linksOf
<1>3. [i \in DOMAIN w |-> linksOf(w[i], f)] = [i \in DOMAIN w |-> linksOf(w[i], g)]
  BY <1>2
<1> QED
  BY <1>3 DEF ChainOf

-----------------------------------------------------------------------------
(***************************************************************************)
(* What the chain of the threads in v is made of: frames of those threads, *)
(* the last of thread t last, and each gives its results to the one before *)
(* it.                                                                     *)
(***************************************************************************)
Ends(C, t, f)  == Len(C) >= 1 /\ C[Len(C)].th = t /\ C[Len(C)].depth = Len(f[t])
Covers(C, v)   ==
  /\ \A i \in 1 .. Len(C) : \E k \in 1 .. Len(v) : C[i].th = v[k]
  /\ \A k \in 1 .. Len(v) : \E i \in 1 .. Len(C) : C[i].th = v[k]
Gives(p, c, x, b)  == p = target(c.th, b[c.th], c.depth, x.slot)
GivesBack(C, f, b) == \A i \in 2 .. Len(C) : Gives(f[C[i].th][C[i].depth].retTo, C[i - 1], C[i], b)
Shape(v, f, b)     ==
  /\ Ends(ChainOf(v, f), v[Len(v)], f) /\ Covers(ChainOf(v, f), v)
  /\ GivesBack(ChainOf(v, f), f, b)

\* The frames of t give their results to each other, and the first one to the last frame of u.
Inside(t, f, b)      == \A d \in 1 .. Len(f[t]) : d > 1 => f[t][d].retTo = target(t, b[t], d - 1, f[t][d].retTo.slot)
ReturnsTo(t, u, f, b) ==
  Inside(t, f, b) /\ f[t][1].retTo = target(u, b[u], Len(f[u]), f[t][1].retTo.slot)

LEMMA ChainFirst ==
  ASSUME NEW t \in Thread, NEW f \in Stacks
  PROVE  ChainOf(<<t>>, f) = linksOf(t, f)
<1>1. <<>> \in Seq(Thread) /\ Append(<<>>, t) = <<t>>
  OBVIOUS
<1>2. linksOf(t, f) \in Seq(Link)
  BY LinksTyped
<1>3. ChainOf(<<>>, f) = <<>>
  BY <1>1, ChainTyped
<1>4. ChainOf(Append(<<>>, t), f) = ChainOf(<<>>, f) \o linksOf(t, f)
  BY <1>1, ChainAppend
<1> QED
  BY <1>1, <1>2, <1>3, <1>4, ConcatEmptySeq

LEMMA ShapeFirst ==
  ASSUME NEW t \in Thread, NEW f \in Stacks, NEW b, Len(f[t]) >= 1, Inside(t, f, b)
  PROVE  Shape(<<t>>, f, b)
<1> PICK C : C = ChainOf(<<t>>, f)
  OBVIOUS
<1> PICK n : n = Len(f[t])
  OBVIOUS
<1>1. n \in Nat /\ n >= 1
  BY LenProperties DEF Stacks
<1>2. Len(C) = n /\ \A i \in 1 .. n : C[i] = [th |-> t, depth |-> i, slot |-> f[t][i].retTo.slot]
  BY ChainFirst, LinksTyped
<1>3. \A i \in 1 .. n : C[i].th = t /\ C[i].depth = i /\ C[i].slot = f[t][i].retTo.slot
  BY ONLY <1>2
<1>4. Ends(C, t, f)
  BY <1>1, <1>2, <1>3 DEF Ends
<1>5. Covers(C, <<t>>)
  <2>1. Len(<<t>>) = 1 /\ <<t>>[1] = t /\ 1 \in 1 .. n
    BY <1>1
  <2> QED
    BY <1>2, <1>3, <2>1 DEF Covers
<1>6. GivesBack(C, f, b)
  <2> SUFFICES ASSUME NEW i \in 2 .. n PROVE Gives(f[C[i].th][C[i].depth].retTo, C[i - 1], C[i], b)
    BY <1>2 DEF GivesBack
  <2>1. i \in 1 .. n /\ i - 1 \in 1 .. n /\ i > 1
    BY <1>1
  <2>2. f[t][i].retTo = target(t, b[t], i - 1, f[t][i].retTo.slot)
    BY <2>1 DEF Inside
  <2> QED
    BY <1>3, <2>1, <2>2 DEF Gives
<1>7. <<t>>[Len(<<t>>)] = t
  OBVIOUS
<1> QED
  BY <1>4, <1>5, <1>6, <1>7 DEF Shape

LEMMA ShapeNext ==
  ASSUME NEW v \in Seq(Thread), Len(v) >= 1, NEW t \in Thread, NEW f \in Stacks, NEW b, Len(f[t]) >= 1,
         Shape(v, f, b), ReturnsTo(t, v[Len(v)], f, b)
  PROVE  Shape(Append(v, t), f, b)
<1> PICK w : w = Append(v, t)
  OBVIOUS
<1> PICK B : B = ChainOf(v, f)
  OBVIOUS
<1> PICK L : L = linksOf(t, f)
  OBVIOUS
<1> PICK C : C = ChainOf(w, f)
  OBVIOUS
<1> PICK n : n = Len(f[t])
  OBVIOUS
<1> PICK m : m = Len(B)
  OBVIOUS
<1>1. n \in Nat /\ n >= 1 /\ Len(v) \in Nat
  BY LenProperties DEF Stacks
<1>2. L \in Seq(Link) /\ Len(L) = n /\ \A i \in 1 .. n : L[i] = [th |-> t, depth |-> i, slot |-> f[t][i].retTo.slot]
  BY LinksTyped
<1>3. B \in Seq(Link) /\ m \in Nat /\ m >= 1
  BY ChainTyped, LenProperties DEF Shape, Ends
<1>4. C = B \o L
  BY ChainAppend
<1>5. Len(C) = m + n /\ \A i \in 1 .. m + n : C[i] = IF i <= m THEN B[i] ELSE L[i - m]
  <2>1. Len(B \o L) = Len(B) + Len(L) /\ \A i \in 1 .. Len(B) + Len(L) : (B \o L)[i] = IF i <= Len(B) THEN B[i] ELSE L[i - Len(B)]
    <3>1. B \in Seq(Link) /\ L \in Seq(Link)
      BY <1>2, <1>3
    <3> QED
      BY ONLY <3>1, ConcatProperties
  <2> QED
    BY ONLY <2>1, <1>2, <1>4, m = Len(B)
<1>6. \A i \in 1 .. n : L[i].th = t /\ L[i].depth = i /\ L[i].slot = f[t][i].retTo.slot
  BY ONLY <1>2
<1>7. \A i \in 1 .. m : C[i] = B[i]
  BY <1>1, <1>3, <1>5
<1>8. \A i \in m + 1 .. m + n : i - m \in 1 .. n /\ C[i] = L[i - m]
  BY <1>1, <1>3, <1>5
<1>9. w \in Seq(Thread) /\ Len(w) = Len(v) + 1 /\ w[Len(w)] = t /\ \A i \in 1 .. Len(v) : w[i] = v[i]
  BY AppendProperties
<1>10. Ends(C, t, f)
  <2>1. m + n \in m + 1 .. m + n /\ m + n - m = n /\ n \in 1 .. n /\ m + n >= 1
    BY ONLY <1>1, <1>3
  <2>2. C[m + n] = L[n]
    BY ONLY <1>1, <1>3, <1>8, <2>1
  <2> QED
    BY <1>5, <1>6, <2>1, <2>2 DEF Ends
<1>11. Covers(C, w)
  <2>1. Covers(B, v)
    BY DEF Shape
  <2>2. ASSUME NEW i \in 1 .. Len(C) PROVE \E k \in 1 .. Len(w) : C[i].th = w[k]
    <3>1. CASE i \in 1 .. m
      <4>1. PICK k \in 1 .. Len(v) : B[i].th = v[k]
        BY <2>1, <3>1 DEF Covers
      <4>2. k \in 1 .. Len(w)
        BY <1>1, <1>9
      <4> QED
        BY <1>7, <1>9, <3>1, <4>1, <4>2
    <3>2. CASE i \in m + 1 .. m + n
      <4>1. Len(w) \in 1 .. Len(w)
        BY <1>1, <1>9
      <4> QED
        BY ONLY <1>6, <1>8, <1>9, <3>2, <4>1, SMTT(30)
    <3> QED
      BY <1>1, <1>3, <1>5, <3>1, <3>2
  <2>3. ASSUME NEW k \in 1 .. Len(w) PROVE \E i \in 1 .. Len(C) : C[i].th = w[k]
    <3>1. CASE k \in 1 .. Len(v)
      <4>1. PICK i \in 1 .. m : B[i].th = v[k]
        BY <2>1, <3>1 DEF Covers
      <4>2. i \in 1 .. Len(C)
        BY <1>1, <1>3, <1>5
      <4> QED
        BY <1>7, <1>9, <3>1, <4>1, <4>2
    <3>2. CASE k = Len(w)
      <4>1. m + n \in 1 .. Len(C)
        BY <1>1, <1>3, <1>5
      <4> QED
        BY <1>5, <1>9, <1>10, <3>2, <4>1 DEF Ends
    <3> QED
      BY <1>1, <1>9, <3>1, <3>2
  <2> QED
    BY <2>2, <2>3 DEF Covers
<1>12. GivesBack(C, f, b)
  <2> SUFFICES ASSUME NEW i \in 2 .. m + n PROVE Gives(f[C[i].th][C[i].depth].retTo, C[i - 1], C[i], b)
    BY <1>5 DEF GivesBack
  <2>1. CASE i \in 2 .. m
    <3>1. i \in 1 .. m /\ i - 1 \in 1 .. m
      BY <1>3, <2>1
    <3>2. Gives(f[B[i].th][B[i].depth].retTo, B[i - 1], B[i], b)
      BY <2>1 DEF Shape, GivesBack
    <3> QED
      BY <1>7, <3>1, <3>2
  <2>2. CASE i = m + 1
    <3>1. i - m = 1 /\ i - 1 = m /\ m \in 1 .. m /\ 1 \in 1 .. n /\ i \in m + 1 .. m + n
      BY ONLY <1>1, <1>3, <2>2
    <3>2. C[i] = L[1] /\ C[i - 1] = B[m]
      BY <1>7, <1>8, <3>1
    <3>3. B[m].th = v[Len(v)] /\ B[m].depth = Len(f[v[Len(v)]])
      BY DEF Shape, Ends
    <3>4. f[t][1].retTo = target(v[Len(v)], b[v[Len(v)]], Len(f[v[Len(v)]]), f[t][1].retTo.slot)
      BY <3>1 DEF ReturnsTo, Inside
    <3> QED
      BY <1>6, <3>1, <3>2, <3>3, <3>4 DEF Gives
  <2>3. CASE i \in m + 2 .. m + n
    <3> PICK j : j = i - m
      OBVIOUS
    <3>1. /\ j \in 1 .. n /\ j > 1 /\ j - 1 \in 1 .. n /\ i \in m + 1 .. m + n /\ i - 1 \in m + 1 .. m + n
          /\ i - m = j /\ i - 1 - m = j - 1
      BY ONLY <1>1, <1>3, <2>3, j = i - m
    <3>2. C[i] = L[j] /\ C[i - 1] = L[j - 1]
      BY ONLY <1>8, <3>1
    <3>3. f[t][j].retTo = target(t, b[t], j - 1, f[t][j].retTo.slot)
      BY <3>1 DEF ReturnsTo, Inside
    <3>4. C[i].th = t /\ C[i].depth = j /\ C[i].slot = f[t][j].retTo.slot /\ C[i - 1].th = t /\ C[i - 1].depth = j - 1
      BY <1>6, <3>1, <3>2
    <3> QED
      BY ONLY <3>3, <3>4 DEF Gives
  <2> QED
    BY <1>1, <1>3, <2>1, <2>2, <2>3
<1> QED
  BY <1>9, <1>10, <1>11, <1>12 DEF Shape

LEMMA Prefix ==
  ASSUME NEW w \in Seq(Thread), NEW k \in Nat, k + 1 <= Len(w)
  PROVE  /\ SubSeq(w, 1, k + 1) = Append(SubSeq(w, 1, k), w[k + 1]) /\ w[k + 1] \in Thread
         /\ SubSeq(w, 1, k) \in Seq(Thread) /\ Len(SubSeq(w, 1, k)) = k
         /\ (k >= 1 => SubSeq(w, 1, k)[k] = w[k])
<1> PICK v : v = SubSeq(w, 1, k)
  OBVIOUS
<1>1. \A i \in 1 .. k : w[i] \in Thread
  BY ElementOfSeq
<1>2. v \in Seq(Thread) /\ Len(v) = IF 1 <= k THEN k - 1 + 1 ELSE 0
  BY <1>1, SubSeqProperties
<1>3. Len(v) = k
  BY <1>2
<1>4. ASSUME k >= 1 PROVE v[k] = w[k]
  <2>1. k \in 1 .. k - 1 + 1 /\ 1 + k - 1 = k
    BY <1>4
  <2> QED
    BY <1>1, <2>1, SubSeqProperties
<1>5. w[k + 1] \in Thread
  <2>1. k + 1 \in 1 .. Len(w)
    BY LenProperties
  <2> QED
    BY <2>1, ElementOfSeq
<1>6. SubSeq(w, 1, k + 1) = v \o <<w[k + 1]>>
  <2>1. Len(w) \in Nat /\ k + 1 - 1 = k
    BY LenProperties
  <2>2. 1 \in 1 .. Len(w) /\ k + 1 \in 1 .. Len(w)
    BY <2>1
  <2> QED
    BY <2>1, <2>2, SubSeqRecursiveSecond
<1> QED
  BY <1>2, <1>3, <1>4, <1>5, <1>6, AppendIsConcat

LEMMA ShapeOfChain ==
  ASSUME NEW w, NEW yt, NEW f, NEW b, Path(w, yt), Stacked(w, f), Returns(w, f, b)
  PROVE  Shape(w, f, b)
<1> PICK n : n = Len(w)
  OBVIOUS
<1>1. w \in Seq(Thread) /\ n \in Nat /\ n >= 1 /\ w[1] = Main /\ f \in Stacks
  BY LenProperties DEF Path, Stacked, Stacks
<1>2. \A i \in 1 .. n : Len(f[w[i]]) >= 1
  BY DEF Stacked
<1>3. ASSUME NEW i \in 2 .. n PROVE ReturnsTo(w[i], w[i - 1], f, b)
  <2>1. i \in 1 .. n /\ i > 1 /\ ~(1 > 1) /\ 1 \in 1 .. Len(f[w[i]])
    BY <1>1, <1>2, ElementOfSeq, LenProperties DEF Stacks
  <2>2. f[w[i]][1].retTo = target(w[i - 1], b[w[i - 1]], Len(f[w[i - 1]]), f[w[i]][1].retTo.slot)
    BY <2>1 DEF Returns
  <2>3. Inside(w[i], f, b)
    BY <2>1 DEF Returns, Inside
  <2> QED
    BY <2>2, <2>3 DEF ReturnsTo
<1> DEFINE T == {k \in Nat : k + 1 <= n => Shape(SubSeq(w, 1, k + 1), f, b)}
<1>4. 0 \in T
  <2>1. SubSeq(w, 1, 0) = <<>> /\ SubSeq(w, 1, 0 + 1) = Append(SubSeq(w, 1, 0), w[0 + 1]) /\ 0 + 1 = 1
    <3>1. 0 \in Int /\ 1 \in Int /\ 0 < 1 /\ 0 \in Nat /\ 0 + 1 = 1 /\ 0 + 1 <= Len(w)
      BY <1>1
    <3>2. SubSeq(w, 1, 0) = <<>>
      BY ONLY <3>1, SubSeqEmpty
    <3> QED
      BY <1>1, <3>1, <3>2, Prefix
  <2>2. SubSeq(w, 1, 0 + 1) = <<Main>> /\ Main \in Thread
    <3>1. SubSeq(w, 1, 0 + 1) = Append(<<>>, Main)
      BY ONLY <1>1, <2>1
    <3>2. Main \in Thread
      BY DEF Thread
    <3> QED
      BY ONLY <3>1, <3>2
  <2>3. 1 \in 1 .. n /\ ~(1 > 1)
    BY <1>1
  <2>4. Len(f[Main]) >= 1
    BY <1>1, <1>2, <2>3
  <2>5. Shape(<<Main>>, f, b)
    <3>1. Inside(Main, f, b)
      BY <1>1, <2>3 DEF Returns, Inside
    <3> QED
      BY <1>1, <2>2, <2>4, <3>1, ShapeFirst
  <2> QED
    BY <2>2, <2>5
<1>5. ASSUME NEW k \in Nat, k \in T PROVE k + 1 \in T
  <2> SUFFICES ASSUME k + 1 + 1 <= n PROVE Shape(SubSeq(w, 1, k + 1 + 1), f, b)
    OBVIOUS
  <2> PICK j \in Nat : j = k + 1
    OBVIOUS
  <2> PICK v : v = SubSeq(w, 1, j)
    OBVIOUS
  <2> PICK t : t = w[j + 1]
    OBVIOUS
  <2>1. /\ SubSeq(w, 1, j + 1) = Append(v, t) /\ t \in Thread /\ v \in Seq(Thread) /\ Len(v) = j /\ j >= 1
        /\ v[j] = w[j]
    BY <1>1, Prefix
  <2>2. Shape(v, f, b)
    BY <1>5
  <2>3. j + 1 \in 2 .. n /\ j + 1 \in 1 .. n /\ j + 1 - 1 = j
    BY <1>1
  <2>4. ReturnsTo(t, v[Len(v)], f, b) /\ Len(f[t]) >= 1
    BY <1>2, <1>3, <2>1, <2>3
  <2>5. Shape(Append(v, t), f, b)
    BY <1>1, <2>1, <2>2, <2>4, ShapeNext
  <2> QED
    BY <2>1, <2>5
<1> HIDE DEF T
<1>6. Nat \subseteq T
  BY <1>4, <1>5, Induct
<1>7. n - 1 \in T /\ n - 1 + 1 = n
  <2>1. n - 1 \in Nat /\ n - 1 + 1 = n
    BY ONLY <1>1
  <2> QED
    BY <1>6, <2>1
<1>8. SubSeq(w, 1, n) = w
  BY <1>1, SubSeqFull
<1>9. PICK k \in T : k + 1 = n
  BY <1>7
<1>10. Shape(SubSeq(w, 1, k + 1), f, b)
  <2>1. k + 1 <= n
    BY <1>1, <1>9
  <2> QED
    BY <2>1 DEF T
<1> QED
  BY <1>8, <1>9, <1>10

-----------------------------------------------------------------------------
(***************************************************************************)
(* The threads that wait for the one that runs are the path to it.         *)
(***************************************************************************)
LEMMA PathFits ==
  ASSUME NEW w, NEW yt, Path(w, yt)
  PROVE  Cardinality(Thread) \in Nat /\ Len(w) <= Cardinality(Thread)
<1> PICK n \in Nat : n = Len(w)
  BY LenProperties DEF Path
<1>1. IsFiniteSet(Thread) /\ Cardinality(Thread) \in Nat
  BY YieldersAreFinite, FS_AddElement, FS_CardinalityType DEF Thread
<1>2. w \in [1 .. n -> Thread]
  BY LenProperties DEF Path
<1>3. w \in Injection(1 .. n, Thread)
  <2>1. \A i, j \in 1 .. n : w[i] = w[j] => i = j
    BY DEF Path
  <2> QED
    BY <1>2, <2>1 DEF Injection, IsInjective
<1>4. Cardinality(1 .. n) = n /\ n >= 1
  <2>1. n >= 1
    BY DEF Path
  <2>2. Cardinality(1 .. n) = IF 1 > n THEN 0 ELSE n - 1 + 1
    <3>1. 1 \in Int /\ n \in Int
      OBVIOUS
    <3> QED
      BY ONLY <3>1, FS_Interval
  <2> QED
    BY <2>1, <2>2
<1>5. Cardinality(1 .. n) <= Cardinality(Thread)
  BY <1>1, <1>3, FS_Injection
<1> QED
  BY <1>1, <1>4, <1>5

\* The definition of waitingFor.
Climbs(up, yt, N) ==
  up = [n \in 0 .. N |-> [u \in Thread \cup {None} |->
         IF u = None \/ n = 0 THEN <<>> ELSE Append(up[n - 1][yt[u]], u)]]
LEMMA ClimbExists ==
  ASSUME NEW yt \in [Thread -> Thread \cup {None}], NEW N \in Nat
  PROVE  \E up : Climbs(up, yt, N)
<1> PICK U : U = Thread \cup {None}
  OBVIOUS
<1> PICK Q : Q = Seq(Thread)
  OBVIOUS
<1> PICK S : S = [U -> Q]
  OBVIOUS
<1> DEFINE next(n, v) == [u \in U |-> IF u = None \/ n = 0 THEN <<>> ELSE Append(v[yt[u]], u)]
<1>1. ASSUME NEW n \in Nat, NEW v \in S PROVE next(n, v) \in S
  <2>1. ASSUME NEW u \in U, u # None PROVE Append(v[yt[u]], u) \in Q
    <3>1. u \in Thread /\ yt[u] \in U
      BY <2>1
    <3>2. v[yt[u]] \in Q
      BY <3>1
    <3> QED
      BY <3>1, <3>2, AppendProperties
  <2>2. <<>> \in Q
    BY EmptySeq
  <2> QED
    BY <2>1, <2>2
<1> HIDE DEF next
<1> PICK G : G = [p \in Nat \X S |-> next(p[1], p[2])]
  OBVIOUS
<1>2. G \in [Nat \X S -> S]
  BY <1>1
<1>3. PICK a : a = [u \in U |-> <<>>]
  OBVIOUS
<1>4. a \in S
  <2>1. <<>> \in Q
    BY EmptySeq
  <2> QED
    BY <1>3, <2>1
<1>5. PICK g : g \in [0 .. N -> S] /\ g[0] = a /\ \A n \in 1 .. N : g[n] = G[<<n, g[n - 1]>>]
  <2>1. Iterates(S, a, G, N)
    BY <1>2, <1>4 DEF Iterates
  <2>2. PICK g : Iteration(g, S, a, G, N)
    BY <2>1, Iterated
  <2> QED
    BY <2>2 DEF Iteration
<1>6. ASSUME NEW n \in 1 .. N PROVE g[n] = next(n, g[n - 1])
  <2>1. n \in Nat /\ n - 1 \in 0 .. N
    OBVIOUS
  <2>2. <<n, g[n - 1]>> \in Nat \X S
    BY <1>5, <2>1
  <2> QED
    BY <1>5, <2>2
<1>7. ASSUME NEW n \in 0 .. N PROVE g[n] = next(n, g[n - 1])
  <2>1. CASE n = 0
    BY <1>3, <1>5, <2>1 DEF next
  <2>2. CASE n \in 1 .. N
    BY <1>6, <2>2
  <2> QED
    BY <2>1, <2>2
<1>8. g = [n \in 0 .. N |-> next(n, g[n - 1])]
  <2>1. DOMAIN g = 0 .. N /\ g = [n \in DOMAIN g |-> g[n]]
    BY <1>5
  <2>2. [n \in 0 .. N |-> g[n]] = [n \in 0 .. N |-> next(n, g[n - 1])]
    BY <1>7
  <2> QED
    BY ONLY <2>1, <2>2
<1> QED
  BY <1>8 DEF next, Climbs

LEMMA WaitingForIsPath ==
  ASSUME NEW w, Path(w, yieldTo), yieldTo \in [Thread -> Thread \cup {None}]
  PROVE  waitingFor(w[Len(w)]) = w
<1> PICK yt : yt = yieldTo
  OBVIOUS
<1> PICK N : N = Cardinality(Thread)
  OBVIOUS
<1> PICK n : n = Len(w)
  OBVIOUS
<1>1. N \in Nat /\ n \in Nat /\ n >= 1 /\ n <= N /\ w \in Seq(Thread) /\ w[1] = Main /\ yt[Main] = None
  BY PathFits, LenProperties DEF Path
<1> PICK up : up = CHOOSE x : Climbs(x, yt, N)
  OBVIOUS
<1>2. \A t : waitingFor(t) = up[N][t]
  BY DEF waitingFor, Climbs
<1>3. Climbs(up, yt, N)
  BY <1>1, ClimbExists
<1>4. ASSUME NEW m \in 1 .. N PROVE up[m - 1][None] = <<>> /\ \A t \in Thread : up[m][t] = Append(up[m - 1][yt[t]], t)
  <2>1. None \notin Thread
    BY MainIsNoYielder DEF Thread
  <2>2. m - 1 \in 0 .. N /\ m \in 0 .. N /\ m # 0
    BY <1>1
  <2>3. \A i \in 0 .. N : up[i] = [u \in Thread \cup {None} |->
           IF u = None \/ i = 0 THEN <<>> ELSE Append(up[i - 1][yt[u]], u)]
    BY ONLY <1>3 DEF Climbs
  <2>4. up[m - 1][None] = <<>>
    BY ONLY <2>2, <2>3
  <2>5. \A t \in Thread : t \in Thread \cup {None} /\ t # None
    BY <2>1
  <2>6. \A t \in Thread : up[m][t] = Append(up[m - 1][yt[t]], t)
    BY ONLY <2>2, <2>3, <2>5
  <2> QED
    BY <2>4, <2>6
<1> DEFINE T == {k \in Nat : k + 1 <= n => \A m \in k + 1 .. N : up[m][w[k + 1]] = SubSeq(w, 1, k + 1)}
<1>5. 0 \in T
  <2>1. SubSeq(w, 1, 0) = <<>> /\ SubSeq(w, 1, 0 + 1) = Append(SubSeq(w, 1, 0), w[0 + 1]) /\ 0 + 1 = 1
    <3>1. 0 \in Int /\ 1 \in Int /\ 0 < 1 /\ 0 \in Nat /\ 0 + 1 = 1 /\ 0 + 1 <= Len(w)
      BY <1>1
    <3>2. SubSeq(w, 1, 0) = <<>>
      BY ONLY <3>1, SubSeqEmpty
    <3> QED
      BY <1>1, <3>1, <3>2, Prefix
  <2>2. SubSeq(w, 1, 0 + 1) = Append(<<>>, Main) /\ w[0 + 1] = Main /\ Main \in Thread
    BY <1>1, <2>1 DEF Thread
  <2>3. ASSUME NEW m \in 0 + 1 .. N PROVE up[m][Main] = Append(<<>>, Main)
    <3>1. m \in 1 .. N
      OBVIOUS
    <3>2. up[m - 1][None] = <<>> /\ \A t \in Thread : up[m][t] = Append(up[m - 1][yt[t]], t)
      BY <1>4, <3>1
    <3>3. up[m][Main] = Append(up[m - 1][yt[Main]], Main)
      BY ONLY <2>2, <3>2
    <3> QED
      BY ONLY <1>1, <3>2, <3>3
  <2> QED
    BY <2>2, <2>3
<1>6. ASSUME NEW k \in Nat, k \in T PROVE k + 1 \in T
  <2> SUFFICES ASSUME k + 1 + 1 <= n, NEW m \in k + 1 + 1 .. N
               PROVE up[m][w[k + 1 + 1]] = SubSeq(w, 1, k + 1 + 1)
    OBVIOUS
  <2> PICK j \in Nat : j = k + 1
    OBVIOUS
  <2>1. SubSeq(w, 1, j + 1) = Append(SubSeq(w, 1, j), w[j + 1]) /\ w[j + 1] \in Thread
    BY <1>1, Prefix
  <2>2. j <= n /\ m - 1 \in j .. N /\ m \in 1 .. N /\ j \in 1 .. n - 1
    BY <1>1
  <2>3. up[m - 1][w[j]] = SubSeq(w, 1, j)
    BY <1>6, <2>2
  <2>4. yt[w[j + 1]] = w[j]
    BY <2>2 DEF Path
  <2>5. up[m][w[j + 1]] = Append(up[m - 1][yt[w[j + 1]]], w[j + 1])
    BY <1>4, <2>1, <2>2
  <2> QED
    BY <2>1, <2>3, <2>4, <2>5
<1> HIDE DEF T
<1>7. Nat \subseteq T
  BY <1>5, <1>6, Induct
<1>8. PICK k \in T : k + 1 = n /\ k \in Nat
  <2>1. n - 1 \in Nat /\ n - 1 + 1 = n
    BY ONLY <1>1
  <2> QED
    BY <1>7, <2>1
<1>9. up[N][w[n]] = SubSeq(w, 1, n)
  <2>1. k + 1 <= n /\ N \in k + 1 .. N
    BY <1>1, <1>8
  <2> QED
    BY <1>8, <2>1 DEF T
<1>10. SubSeq(w, 1, n) = w
  BY <1>1, SubSeqFull
<1> QED
  BY <1>2, <1>9, <1>10
-----------------------------------------------------------------------------
(***************************************************************************)
(* The frames: what the steps do to them.                                  *)
(***************************************************************************)
Woven(w, f, b, yt) == Path(w, yt) /\ Stacked(w, f) /\ Returns(w, f, b)

LEMMA WovenTypes ==
  ASSUME NEW w, NEW f, NEW b, NEW yt, Woven(w, f, b, yt)
  PROVE  /\ w \in Seq(Thread) /\ Len(w) \in Nat /\ Len(w) >= 1 /\ w[1] = Main /\ f \in Stacks
         /\ \A i \in 1 .. Len(w) : w[i] \in Thread /\ Len(f[w[i]]) >= 1
         /\ \A i, j \in 1 .. Len(w) : w[i] = w[j] => i = j
<1>1. w \in Seq(Thread) /\ Len(w) >= 1 /\ w[1] = Main /\ f \in Stacks
  BY DEF Woven, Path, Stacked, Stacks
<1>2. \A i, j \in 1 .. Len(w) : w[i] = w[j] => i = j
  BY DEF Woven, Path
<1>3. \A i \in 1 .. Len(w) : Len(f[w[i]]) >= 1
  BY DEF Woven, Stacked
<1> QED
  BY <1>1, <1>2, <1>3, LenProperties, ElementOfSeq

LEMMA StackTypes ==
  ASSUME NEW f \in Stacks, NEW t \in Thread
  PROVE  f[t] \in Seq(Frame) /\ Len(f[t]) \in Nat /\ \A d \in 1 .. Len(f[t]) : f[t][d] \in Frame
<1>1. f[t] \in Seq(Frame)
  BY DEF Stacks
<1> QED
  BY <1>1, LenProperties, ElementOfSeq

\* x is frame d of thread t, and was called by the frame below.
CallOf(x, t, b, d) == x.method \in {"BC", "C"} /\ x.retTo = target(t, b[t], d - 1, x.retTo.slot)
\* The call stack of t becomes that of g: frames are called, end or are replaced.
Changed(f, g, t, b) ==
  /\ f \in Stacks /\ g \in Stacks /\ Len(g[t]) >= 1
  /\ \A u \in Thread : u # t => g[u] = f[u]
  /\ \A d \in 1 .. Len(g[t]) : (d <= Len(f[t]) /\ g[t][d] = f[t][d]) \/ (d > 1 /\ CallOf(g[t][d], t, b, d))

LEMMA Rewoven ==
  ASSUME NEW w, NEW f, NEW g, NEW b, NEW yt, Woven(w, f, b, yt), Changed(f, g, w[Len(w)], b)
  PROVE  Woven(w, g, b, yt)
<1> PICK n : n = Len(w)
  OBVIOUS
<1> PICK t : t = w[n]
  OBVIOUS
<1>1. /\ n \in Nat /\ n >= 1 /\ n \in 1 .. n /\ f \in Stacks /\ g \in Stacks /\ t \in Thread
      /\ \A i \in 1 .. n : w[i] \in Thread /\ Len(f[w[i]]) >= 1
      /\ \A i, j \in 1 .. n : w[i] = w[j] => i = j
  BY WovenTypes DEF Changed
<1>2. Len(g[t]) >= 1 /\ \A u \in Thread : u # t => g[u] = f[u]
  BY DEF Changed
<1>3. \A d \in 1 .. Len(g[t]) : (d <= Len(f[t]) /\ g[t][d] = f[t][d]) \/ (d > 1 /\ CallOf(g[t][d], t, b, d))
  BY DEF Changed
<1>4. Len(f[t]) \in Nat /\ Len(g[t]) \in Nat
  BY <1>1, StackTypes
<1>5. \A i \in 1 .. n : i # n => g[w[i]] = f[w[i]]
  BY <1>1, <1>2
<1>6. Stacked(w, g)
  <2>1. ASSUME NEW u \in Thread, NEW d \in 1 .. Len(g[u])
        PROVE  g[u][d].method \in IF d > 1 THEN {"BC", "C"} ELSE IF u = Main THEN {"start"} ELSE {"Y"}
    <3>1. CASE u # t
      <4>1. g[u] = f[u]
        BY <1>2, <3>1
      <4> QED
        BY <4>1 DEF Woven, Stacked
    <3>2. CASE u = t /\ d <= Len(f[t]) /\ g[t][d] = f[t][d]
      <4>1. d \in 1 .. Len(f[t])
        BY <1>4, <3>2
      <4> QED
        BY <1>1, <3>2, <4>1 DEF Woven, Stacked
    <3>3. CASE u = t /\ d > 1 /\ CallOf(g[t][d], t, b, d)
      BY <3>3 DEF CallOf
    <3> QED
      BY <1>3, <3>1, <3>2, <3>3
  <2>2. \A i \in 1 .. n : Len(g[w[i]]) >= 1
    BY <1>1, <1>2, <1>5
  <2>3. ASSUME NEW u \in Thread PROVE Len(g[u]) <= 1 \/ \E i \in 1 .. n : w[i] = u
    <3>1. CASE u = t
      BY <1>1, <3>1
    <3>2. CASE u # t
      <4>1. g[u] = f[u]
        BY <1>2, <3>2
      <4> QED
        BY <4>1 DEF Woven, Stacked
    <3> QED
      BY <3>1, <3>2
  <2> QED
    BY <1>1, <2>1, <2>2, <2>3 DEF Stacked, Stacks
<1>7. ASSUME NEW i \in 1 .. n, NEW d \in 1 .. Len(g[w[i]])
      PROVE  g[w[i]][d].retTo = IF d > 1 THEN target(w[i], b[w[i]], d - 1, g[w[i]][d].retTo.slot)
                                ELSE IF i > 1 THEN target(w[i - 1], b[w[i - 1]], Len(g[w[i - 1]]), g[w[i]][d].retTo.slot)
                                ELSE target(Main, b[Main], 1, 0)
  <2>1. i > 1 => i - 1 \in 1 .. n /\ i - 1 # n
    BY <1>1
  <2>2. i > 1 => g[w[i - 1]] = f[w[i - 1]]
    BY <1>5, <2>1
  <2>3. CASE d \in 1 .. Len(f[w[i]]) /\ g[w[i]][d] = f[w[i]][d]
    <3>1. f[w[i]][d].retTo = IF d > 1 THEN target(w[i], b[w[i]], d - 1, f[w[i]][d].retTo.slot)
                                ELSE IF i > 1 THEN target(w[i - 1], b[w[i - 1]], Len(f[w[i - 1]]), f[w[i]][d].retTo.slot)
                                ELSE target(Main, b[Main], 1, 0)
      BY <2>3 DEF Woven, Returns
    <3> QED
      BY ONLY <2>2, <2>3, <3>1
  <2>4. CASE w[i] = t /\ d > 1 /\ CallOf(g[t][d], t, b, d)
    BY <2>4 DEF CallOf
  <2>5. CASE i # n
    BY <1>5, <2>3, <2>5
  <2>6. CASE i = n
    <3>1. d <= Len(f[t]) => d \in 1 .. Len(f[t])
      BY <1>4, <2>6
    <3> QED
      BY <1>3, <2>3, <2>4, <2>6, <3>1
  <2> QED
    BY <2>5, <2>6
<1>8. Returns(w, g, b)
  BY <1>7 DEF Returns
<1> QED
  BY <1>6, <1>8 DEF Woven

\* The last frame is the last of the frames of C methods, if it is one.
LEMMA Positions ==
  ASSUME NEW w, NEW f, NEW b, NEW yt, Woven(w, f, b, yt)
  PROVE  LET e == endOf(w, f)  t == w[Len(w)] IN
         /\ e = <<Len(w), Len(f[t])>> /\ e[1] = Len(w) /\ e[2] = Len(f[t]) /\ e \in Nat \X Nat
         /\ InC(w, f) \subseteq Nat \X Nat
         /\ \A p \in InC(w, f) : p = e \/ before(p, e)
         /\ e \in InC(w, f) <=> isCMethod(f[t][Len(f[t])].method)
<1> PICK n : n = Len(w)
  OBVIOUS
<1> PICK t : t = w[n]
  OBVIOUS
<1> PICK m : m = Len(f[t])
  OBVIOUS
<1> PICK e : e = endOf(w, f)
  OBVIOUS
<1>1. n \in Nat /\ n >= 1 /\ n \in 1 .. n /\ f \in Stacks /\ t \in Thread /\ m >= 1
  BY WovenTypes
<1>2. m \in Nat /\ m \in 1 .. m
  BY <1>1, StackTypes
<1>3. e = <<n, m>> /\ e[1] = n /\ e[2] = m /\ e \in Nat \X Nat
  BY <1>1, <1>2 DEF endOf
<1>4. ASSUME NEW p \in InC(w, f) PROVE p \in Nat \X Nat /\ (p = e \/ before(p, e))
  <2>1. p \in Nat \X Nat /\ p[1] \in 1 .. n /\ p[2] \in 1 .. Len(f[w[p[1]]])
    BY DEF InC
  <2>2. p = <<p[1], p[2]>> /\ p[2] \in Nat
    BY <2>1
  <2>3. CASE p[1] = n
    BY <1>2, <1>3, <2>1, <2>2, <2>3 DEF before
  <2>4. CASE p[1] # n
    BY <1>1, <1>3, <2>1, <2>4 DEF before
  <2> QED
    BY <2>1, <2>3, <2>4
<1>5. e \in InC(w, f) <=> isCMethod(f[t][m].method)
  BY <1>1, <1>2, <1>3 DEF InC
<1> QED
  BY <1>3, <1>4, <1>5

\* All frames of t in g but the last are those of f.
SameBelow(f, g, t) == \A d \in 1 .. Len(g[t]) - 1 : d <= Len(f[t]) /\ g[t][d] = f[t][d]

LEMMA InCChanged ==
  ASSUME NEW w, NEW f, NEW g, NEW b, NEW yt, Woven(w, f, b, yt), Changed(f, g, w[Len(w)], b),
         SameBelow(f, g, w[Len(w)])
  PROVE  InC(w, g) = {p \in InC(w, f) : before(p, endOf(w, g))} \cup {p \in {endOf(w, g)} : p \in InC(w, g)}
<1> PICK n : n = Len(w)
  OBVIOUS
<1> PICK t : t = w[n]
  OBVIOUS
<1> PICK e : e = endOf(w, g)
  OBVIOUS
<1>1. Woven(w, g, b, yt)
  BY Rewoven
<1>2. /\ n \in Nat /\ n >= 1 /\ n \in 1 .. n /\ f \in Stacks /\ g \in Stacks /\ t \in Thread
      /\ \A i \in 1 .. n : w[i] \in Thread
      /\ \A i, j \in 1 .. n : w[i] = w[j] => i = j
  BY <1>1, WovenTypes
<1>3. Len(f[t]) \in Nat /\ Len(g[t]) \in Nat
  BY <1>2, StackTypes
<1>4. e[1] = n /\ e[2] = Len(g[t]) /\ \A p \in InC(w, g) : p = e \/ before(p, e)
  BY <1>1, Positions
<1>5. \A i \in 1 .. n : i # n => g[w[i]] = f[w[i]]
  BY <1>2 DEF Changed
<1>6. \A d \in 1 .. Len(g[t]) - 1 : d <= Len(f[t]) /\ g[t][d] = f[t][d]
  BY DEF SameBelow
<1>7. ASSUME NEW p \in Nat \X Nat, before(p, e) PROVE p \in InC(w, g) <=> p \in InC(w, f)
  <2>1. CASE p[1] # n
    BY <1>5, <2>1 DEF InC
  <2>2. CASE p[1] = n
    <3>1. p[2] < Len(g[t]) /\ p[2] \in Nat
      BY <1>2, <1>4, <1>7, <2>2 DEF before
    <3>2. CASE p[2] = 0
      BY <3>2 DEF InC
    <3>3. CASE p[2] >= 1
      <4>1. p[2] \in 1 .. Len(g[t]) - 1 /\ p[2] \in 1 .. Len(g[t])
        BY <1>3, <3>1, <3>3
      <4>2. p[2] \in 1 .. Len(f[t]) /\ g[t][p[2]] = f[t][p[2]]
        BY <1>3, <1>6, <4>1
      <4> QED
        BY <2>2, <4>1, <4>2 DEF InC
    <3> QED
      BY <3>1, <3>2, <3>3
  <2> QED
    BY <2>1, <2>2
<1>8. InC(w, g) \subseteq Nat \X Nat /\ InC(w, f) \subseteq Nat \X Nat
  BY DEF InC
<1> QED
  BY <1>4, <1>7, <1>8

LEMMA JustBefore ==
  ASSUME NEW i \in Nat, NEW j \in Nat, j >= 1, NEW p \in Nat \X Nat
  PROVE  /\ before(p, <<i, j>>) <=> p = <<i, j - 1>> \/ before(p, <<i, j - 1>>)
         /\ p = <<i, j>> => ~before(p, <<i, j>>)
<1>1. p[1] \in Nat /\ p[2] \in Nat /\ p = <<p[1], p[2]>>
  OBVIOUS
<1>2. /\ before(p, <<i, j>>) <=> p[1] < i \/ (p[1] = i /\ p[2] < j)
      /\ before(p, <<i, j - 1>>) <=> p[1] < i \/ (p[1] = i /\ p[2] < j - 1)
  BY DEF before
<1>3. p[1] = i /\ p[2] = j - 1 => p = <<i, j - 1>>
  BY <1>1
<1>4. p = <<i, j - 1>> => p[1] = i /\ p[2] = j - 1
  OBVIOUS
<1>5. p = <<i, j>> => p[1] = i /\ p[2] = j
  OBVIOUS
<1> QED
  BY ONLY <1>1, <1>2, <1>3, <1>4, <1>5, i \in Nat, j \in Nat, j >= 1

\* A method is called.
Pushes(w, f, g, b, yt, t, m, s) ==
  /\ Woven(w, f, b, yt) /\ m \in {"BC", "C"} /\ s \in Slots /\ b \in [Thread -> Nat] /\ t = w[Len(w)]
  /\ g = [f EXCEPT ![t] = Append(f[t], frame(m, target(t, b[t], Len(f[t]), s)))]
HasPushed(w, f, g, b, yt, t, m, s) ==
  /\ Woven(w, g, b, yt) /\ endOf(w, g) = <<endOf(w, f)[1], endOf(w, f)[2] + 1>>
  /\ InC(w, g) = InC(w, f) \cup {p \in {endOf(w, g)} : m = "C"}
  /\ g[t] = Append(f[t], frame(m, target(t, b[t], Len(f[t]), s)))
LEMMA PushedFrame ==
  ASSUME NEW w, NEW f, NEW g, NEW b, NEW yt, NEW t, NEW m, NEW s, Pushes(w, f, g, b, yt, t, m, s)
  PROVE  HasPushed(w, f, g, b, yt, t, m, s)
<1> USE DEF Pushes, HasPushed
<1> PICK n : n = Len(f[t])
  OBVIOUS
<1> PICK x : x = frame(m, target(t, b[t], n, s))
  OBVIOUS
<1> PICK a : a = Append(f[t], x)
  OBVIOUS
<1>1. t \in Thread /\ f \in Stacks /\ Len(w) \in Nat /\ Len(w) >= 1
  BY WovenTypes
<1>2. f[t] \in Seq(Frame) /\ n \in Nat
  BY <1>1, StackTypes
<1>3. x \in Frame /\ x.method = m /\ x.retTo = target(t, b[t], n, x.retTo.slot)
  <2>1. b[t] \in Nat
    BY <1>1
  <2>2. target(t, b[t], n, s) \in Target /\ target(t, b[t], n, s).slot = s
    BY <1>1, <1>2, <2>1 DEF target, Target
  <2> QED
    BY <2>2 DEF frame, Frame, Methods
<1>4. a \in Seq(Frame) /\ Len(a) = n + 1 /\ a[n + 1] = x /\ \A d \in 1 .. n : a[d] = f[t][d]
  BY <1>2, <1>3, AppendProperties
<1>5. g = [f EXCEPT ![t] = a]
  OBVIOUS
<1>6. g \in Stacks /\ g[t] = a /\ \A u \in Thread : u # t => g[u] = f[u]
  BY <1>1, <1>4, <1>5 DEF Stacks
<1>7. n >= 1
  BY <1>1, WovenTypes
<1>8. Changed(f, g, t, b)
  <2>1. ASSUME NEW d \in 1 .. n + 1 PROVE (d <= n /\ a[d] = f[t][d]) \/ (d > 1 /\ CallOf(a[d], t, b, d))
    <3>1. CASE d \in 1 .. n
      BY <1>4, <3>1
    <3>2. CASE d = n + 1
      <4>1. d - 1 = n /\ d > 1
        BY <1>2, <1>7, <3>2
      <4> QED
        BY <1>3, <1>4, <3>2, <4>1 DEF CallOf
    <3> QED
      BY <1>2, <3>1, <3>2
  <2> QED
    <3>1. n + 1 = Len(g[t])
      BY <1>4, <1>6
    <3>2. \A d \in 1 .. Len(g[t]) : (d <= Len(f[t]) /\ g[t][d] = f[t][d]) \/ (d > 1 /\ CallOf(g[t][d], t, b, d))
      BY ONLY <1>6, <2>1, <3>1, n = Len(f[t]), SMTT(30)
    <3>3. Len(g[t]) >= 1
      BY ONLY <1>2, <3>1
    <3> QED
      BY ONLY <1>1, <1>6, <3>2, <3>3 DEF Changed
<1>9. Woven(w, g, b, yt)
  BY <1>8, Rewoven
<1>10. endOf(w, g) = <<Len(w), n + 1>> /\ endOf(w, f) = <<Len(w), n>>
  BY <1>4, <1>6 DEF endOf
<1>11. SameBelow(f, g, t)
  BY <1>2, <1>4, <1>6 DEF SameBelow
<1>12. InC(w, g) = {p \in InC(w, f) : before(p, endOf(w, g))} \cup {p \in {endOf(w, g)} : p \in InC(w, g)}
  BY <1>8, <1>11, InCChanged
<1>13. endOf(w, g) \in InC(w, g) <=> m = "C"
  <2>1. endOf(w, g) \in InC(w, g) <=> isCMethod(g[t][Len(g[t])].method)
    BY <1>9, Positions
  <2> QED
    BY <1>3, <1>4, <1>6, <2>1 DEF isCMethod
<1>14. \A p \in InC(w, f) : before(p, endOf(w, g))
  <2>1. InC(w, f) \subseteq Nat \X Nat /\ \A p \in InC(w, f) : p = <<Len(w), n>> \/ before(p, <<Len(w), n>>)
    BY <1>10, Positions
  <2> TAKE p \in InC(w, f)
  <2>2. p[1] \in Nat /\ p[2] \in Nat
    BY <2>1
  <2>3. (p[1] = Len(w) /\ p[2] = n) \/ p[1] < Len(w) \/ (p[1] = Len(w) /\ p[2] < n)
    BY <2>1 DEF before
  <2> QED
    BY <1>1, <1>2, <1>10, <2>2, <2>3 DEF before
<1>15. InC(w, g) = InC(w, f) \cup {p \in {endOf(w, g)} : m = "C"}
  BY ONLY <1>12, <1>13, <1>14
<1>16. endOf(w, g) = <<endOf(w, f)[1], endOf(w, f)[2] + 1>>
  BY ONLY <1>10
<1> QED
  BY <1>6, <1>9, <1>15, <1>16

\* The last frame of a thread ends.
Pops(w, f, g, b, yt, t) ==
  /\ Woven(w, f, b, yt) /\ t = w[Len(w)] /\ Len(f[t]) >= 2
  /\ g = [f EXCEPT ![t] = Front(f[t])]
HasPopped(w, f, g, b, yt, t) ==
  /\ Woven(w, g, b, yt) /\ endOf(w, g) = <<endOf(w, f)[1], endOf(w, f)[2] - 1>>
  /\ InC(w, g) = InC(w, f) \ {endOf(w, f)}
  /\ f[t] = Append(g[t], f[t][Len(f[t])])
LEMMA PoppedFrame ==
  ASSUME NEW w, NEW f, NEW g, NEW b, NEW yt, NEW t, Pops(w, f, g, b, yt, t)
  PROVE  HasPopped(w, f, g, b, yt, t)
<1> USE DEF Pops, HasPopped
<1> PICK n : n = Len(f[t])
  OBVIOUS
<1> PICK a : a = Front(f[t])
  OBVIOUS
<1> PICK e : e = endOf(w, f)
  OBVIOUS
<1> PICK c : c = endOf(w, g)
  OBVIOUS
<1>1. t \in Thread /\ f \in Stacks /\ Len(w) \in Nat /\ Len(w) >= 1
  BY WovenTypes
<1>2. f[t] \in Seq(Frame) /\ n \in Nat /\ n >= 2
  BY <1>1, StackTypes
<1>3. a \in Seq(Frame) /\ Len(a) = n - 1 /\ \A d \in 1 .. n - 1 : a[d] = f[t][d]
  BY <1>2, Popped
<1>4. g \in Stacks /\ g[t] = a /\ \A u \in Thread : u # t => g[u] = f[u]
  BY <1>1, <1>3 DEF Stacks, Pops
<1>5. Changed(f, g, t, b)
  BY <1>1, <1>2, <1>3, <1>4 DEF Changed
<1>6. Woven(w, g, b, yt)
  BY <1>5, Rewoven
<1>7. SameBelow(f, g, t)
  BY <1>2, <1>3, <1>4 DEF SameBelow
<1>8. InC(w, g) = {p \in InC(w, f) : before(p, c)} \cup {p \in {c} : p \in InC(w, g)}
  BY <1>5, <1>7, InCChanged
<1>9. c = <<Len(w), n - 1>> /\ e = <<Len(w), n>>
  BY <1>3, <1>4 DEF endOf
<1>10. c \in InC(w, g) <=> c \in InC(w, f)
  <2>1. c \in InC(w, g) <=> isCMethod(g[t][Len(g[t])].method)
    BY <1>6, Positions
  <2>2. n - 1 \in 1 .. n - 1 /\ n - 1 \in 1 .. n /\ n - 1 \in Nat /\ Len(w) \in 1 .. Len(w)
    BY <1>1, <1>2
  <2>3. g[t][Len(g[t])] = f[t][n - 1]
    BY <1>3, <1>4, <2>2
  <2>4. c \in InC(w, f) <=> isCMethod(f[t][n - 1].method)
    <3>1. c \in Nat \X Nat /\ c[1] = Len(w) /\ c[2] = n - 1
      BY ONLY <1>1, <1>9, <2>2
    <3>2. c \in InC(w, f) <=> /\ c \in Nat \X Nat /\ c[1] \in 1 .. Len(w) /\ c[2] \in 1 .. Len(f[w[c[1]]])
                             /\ isCMethod(f[w[c[1]]][c[2]].method)
      BY DEF InC
    <3>3. w[c[1]] = t
      BY <3>1
    <3> QED
      BY <2>2, <3>1, <3>2, <3>3
  <2> QED
    BY <2>1, <2>3, <2>4
<1>11. \A p \in InC(w, f) : p # e <=> p = c \/ before(p, c)
  <2>1. InC(w, f) \subseteq Nat \X Nat /\ \A p \in InC(w, f) : p = e \/ before(p, e)
    BY Positions
  <2> TAKE p \in InC(w, f)
  <2>2. p \in Nat \X Nat /\ (p = e \/ before(p, e))
    BY <2>1
  <2>3. (before(p, e) <=> p = c \/ before(p, c)) /\ (p = e => ~before(p, e))
    <3>1. Len(w) \in Nat /\ n \in Nat /\ n >= 1
      BY <1>1, <1>2
    <3>2. /\ before(p, <<Len(w), n>>) <=> p = <<Len(w), n - 1>> \/ before(p, <<Len(w), n - 1>>)
          /\ p = <<Len(w), n>> => ~before(p, <<Len(w), n>>)
      BY ONLY <2>2, <3>1, JustBefore
    <3> QED
      BY ONLY <1>9, <3>2
  <2> QED
    BY ONLY <2>2, <2>3
<1>12. InC(w, g) = InC(w, f) \ {e}
  BY ONLY <1>8, <1>10, <1>11
<1>13. c = <<e[1], e[2] - 1>>
  BY ONLY <1>9
<1>14. f[t] = Append(g[t], f[t][n])
  <2> PICK x : x = f[t][n]
    OBVIOUS
  <2> PICK r : r = Append(a, x)
    OBVIOUS
  <2>1. x \in Frame /\ n - 1 + 1 = n /\ n - 1 \in Nat
    BY <1>1, <1>2, StackTypes
  <2>2. r \in Seq(Frame) /\ Len(r) = n /\ r[n] = x /\ \A d \in 1 .. n - 1 : r[d] = a[d]
    BY <1>3, <2>1, AppendProperties
  <2>3. \A d \in 1 .. n : d = n \/ d \in 1 .. n - 1
    BY <1>2
  <2>4. \A d \in 1 .. n : r[d] = f[t][d]
    BY <1>3, <2>2, <2>3
  <2>5. r = f[t]
    <3>1. f[t] \in Seq(Frame) /\ Len(f[t]) = n
      BY <1>2
    <3> QED
      BY ONLY <2>2, <2>4, <3>1, SeqEqual, SMTT(30)
  <2> QED
    BY <1>4, <2>5
<1> QED
  BY <1>6, <1>12, <1>13, <1>14

\* A tail call replaces the last frame of a thread.
Replaces(w, f, g, b, yt, t, m) ==
  /\ Woven(w, f, b, yt) /\ m \in {"BC", "C"} /\ b \in [Thread -> Nat] /\ t = w[Len(w)]
  /\ Len(f[t]) >= 2 /\ f[t][Len(f[t])].retTo.slot = 0 /\ endOf(w, f) \notin InC(w, f)
  /\ g = [f EXCEPT ![t] = Append(Front(f[t]), frame(m, target(t, b[t], Len(f[t]) - 1, 0)))]
HasReplaced(w, f, g, b, yt, t, m) ==
  /\ Woven(w, g, b, yt) /\ endOf(w, g) = endOf(w, f)
  /\ InC(w, g) = InC(w, f) \cup {p \in {endOf(w, f)} : m = "C"}
  /\ linksOf(t, g) = linksOf(t, f)
LEMMA ReplacedFrame ==
  ASSUME NEW w, NEW f, NEW g, NEW b, NEW yt, NEW t, NEW m, Replaces(w, f, g, b, yt, t, m)
  PROVE  HasReplaced(w, f, g, b, yt, t, m)
<1> USE DEF Replaces, HasReplaced
<1> PICK h : h = [f EXCEPT ![t] = Front(f[t])]
  OBVIOUS
<1> PICK e : e = endOf(w, f)
  OBVIOUS
<1>1. t \in Thread /\ f \in Stacks /\ Len(w) \in Nat /\ Len(w) >= 1
  BY WovenTypes
<1>2. f[t] \in Seq(Frame) /\ Len(f[t]) \in Nat
  BY <1>1, StackTypes
<1>3. Woven(w, h, b, yt) /\ endOf(w, h) = <<e[1], e[2] - 1>> /\ InC(w, h) = InC(w, f) \ {e}
  <2>1. Pops(w, f, h, b, yt, t)
    BY DEF Pops
  <2>2. HasPopped(w, f, h, b, yt, t)
    BY <2>1, PoppedFrame
  <2> QED
    BY <2>2 DEF HasPopped
<1>4. h[t] = Front(f[t]) /\ Len(h[t]) = Len(f[t]) - 1 /\ \A u \in Thread : u # t => h[u] = f[u]
  BY <1>1, <1>2, Popped DEF Stacks
<1>5. g = [h EXCEPT ![t] = Append(h[t], frame(m, target(t, b[t], Len(h[t]), 0)))]
  BY <1>1, <1>4 DEF Stacks
<1>6. 0 \in Slots
  BY DEF Slots
<1>7. HasPushed(w, h, g, b, yt, t, m, 0)
  <2>1. Pushes(w, h, g, b, yt, t, m, 0)
    BY <1>3, <1>5, <1>6 DEF Pushes
  <2> QED
    BY <2>1, PushedFrame
<1>8. endOf(w, g) = e
  <2>1. e[1] \in Nat /\ e[2] \in Nat /\ e = <<e[1], e[2]>>
    BY Positions
  <2> QED
    BY ONLY <1>3, <1>7, <2>1 DEF HasPushed
<1>9. linksOf(t, g) = linksOf(t, f)
  <2> PICK n : n = Len(f[t])
    OBVIOUS
  <2>1. n \in Nat /\ n >= 2 /\ Len(h[t]) = n - 1 /\ h[t] \in Seq(Frame)
    BY <1>2, <1>3, <1>4, WovenTypes, StackTypes, <1>1
  <2> PICK x : x = frame(m, target(t, b[t], Len(h[t]), 0))
    OBVIOUS
  <2>2. x.retTo.slot = 0 /\ x \in Frame
    <3>1. b[t] \in Nat
      BY <1>1
    <3>2. target(t, b[t], Len(h[t]), 0) \in Target /\ target(t, b[t], Len(h[t]), 0).slot = 0
      BY <1>1, <1>6, <2>1, <3>1 DEF target, Target
    <3> QED
      BY <3>2 DEF frame, Frame, Methods
  <2>3. Len(g[t]) = n /\ g[t][n] = x /\ \A d \in 1 .. n - 1 : g[t][d] = h[t][d]
    <3>1. g[t] = Append(h[t], x)
      BY <1>7 DEF HasPushed
    <3>2. PICK k : k = h[t]
      OBVIOUS
    <3>3. k \in Seq(Frame) /\ Len(k) = n - 1 /\ g[t] = Append(k, x)
      BY ONLY <2>1, <3>1, <3>2
    <3>4. Len(Append(k, x)) = Len(k) + 1 /\ Append(k, x)[Len(k) + 1] = x /\ \A d \in 1 .. Len(k) : Append(k, x)[d] = k[d]
      BY ONLY <2>2, <3>3, AppendProperties
    <3> QED
      BY ONLY <2>1, <3>2, <3>3, <3>4
  <2>4. \A d \in 1 .. n - 1 : f[t][d] = h[t][d]
    <3>1. f[t] \in Seq(Frame) /\ Len(f[t]) > 1
      BY <1>2, <2>1
    <3>2. \A d \in 1 .. Len(f[t]) - 1 : Front(f[t])[d] = f[t][d]
      BY ONLY <3>1, Popped
    <3> QED
      BY ONLY <1>4, <3>2, n = Len(f[t])
  <2>5. \A d \in 1 .. n : d = n \/ d \in 1 .. n - 1
    BY <2>1
  <2>6. \A d \in 1 .. n : g[t][d].retTo.slot = f[t][d].retTo.slot
    <3>1. f[t][n].retTo.slot = 0
      BY <1>3
    <3>2. \A d \in 1 .. n - 1 : g[t][d] = f[t][d]
      BY ONLY <2>3, <2>4
    <3>3. g[t][n].retTo.slot = f[t][n].retTo.slot
      BY ONLY <2>2, <2>3, <3>1
    <3>4. \A d \in 1 .. n - 1 : g[t][d].retTo.slot = f[t][d].retTo.slot
      BY ONLY <3>2
    <3> QED
      BY ONLY <2>5, <3>3, <3>4
  <2> QED
    BY <2>3, <2>6 DEF linksOf
<1>10. InC(w, g) = InC(w, f) \cup {p \in {e} : m = "C"}
  <2>1. InC(w, g) = (InC(w, f) \ {e}) \cup {p \in {e} : m = "C"} /\ e \notin InC(w, f)
    BY <1>3, <1>7, <1>8 DEF HasPushed
  <2> QED
    BY ONLY <2>1
<1> QED
  BY <1>7, <1>8, <1>9, <1>10 DEF HasPushed

\* The data stack of the main thread moves while no other thread is resumed.
Shifts(w, f, g, b, c, yt) ==
  /\ Woven(w, f, b, yt) /\ w[Len(w)] = Main /\ b = base /\ b \in [Thread -> Nat]
  /\ g = [f EXCEPT ![Main] = shifted(Main, f[Main])] /\ c = [b EXCEPT ![Main] = b[Main] + 1]
HasShifted(w, f, g, c, yt) ==
  /\ Woven(w, g, c, yt) /\ endOf(w, g) = endOf(w, f) /\ InC(w, g) = InC(w, f)
  /\ linksOf(Main, g) = linksOf(Main, f) /\ \A u \in Thread : u # Main => g[u] = f[u]
LEMMA ShiftedFrames ==
  ASSUME NEW w, NEW f, NEW g, NEW b, NEW c, NEW yt, Shifts(w, f, g, b, c, yt)
  PROVE  HasShifted(w, f, g, c, yt)
<1> USE DEF Shifts, HasShifted
<1> PICK n : n = Len(f[Main])
  OBVIOUS
<1> PICK a : a = g[Main]
  OBVIOUS
<1>1. Main \in Thread /\ f \in Stacks /\ Len(w) = 1 /\ w[1] = Main /\ w \in Seq(Thread)
  <2>1. /\ Len(w) \in Nat /\ Len(w) >= 1 /\ 1 \in 1 .. Len(w) /\ Len(w) \in 1 .. Len(w) /\ w[1] = Main
        /\ w \in Seq(Thread) /\ f \in Stacks
    BY WovenTypes
  <2>2. \A i, j \in 1 .. Len(w) : w[i] = w[j] => i = j
    BY WovenTypes
  <2> QED
    BY <2>1, <2>2 DEF Thread
<1>2. f[Main] \in Seq(Frame) /\ n \in Nat /\ DOMAIN f[Main] = 1 .. n
  BY <1>1, StackTypes, LenProperties
<1>3. c \in [Thread -> Nat] /\ c[Main] = b[Main] + 1 /\ b[Main] \in Nat
  BY <1>1
<1>4. a = [d \in 1 .. n |-> [f[Main][d] EXCEPT !.retTo = shift(Main, f[Main][d].retTo)]]
  <2>1. a = shifted(Main, f[Main])
    BY <1>1 DEF Stacks
  <2> QED
    BY <1>2, <2>1 DEF shifted
<1>5. ASSUME NEW d \in 1 .. n
      PROVE  LET p == f[Main][d].retTo IN
             /\ a[d] \in Frame /\ a[d].method = f[Main][d].method /\ a[d].retTo.slot = p.slot
             /\ a[d].retTo = IF d > 1 THEN target(Main, c[Main], d - 1, p.slot) ELSE target(Main, c[Main], 1, 0)
  <2> PICK x : x = f[Main][d]
    OBVIOUS
  <2> PICK k : k = IF d > 1 THEN d - 1 ELSE 1
    OBVIOUS
  <2>1. x \in Frame
    BY <1>1, StackTypes
  <2>2. x.method \in Methods /\ x.retTo \in Target /\ x.retTo.slot \in Slots
    BY <2>1 DEF Frame, Target
  <2>3. x.retTo = target(Main, b[Main], k, x.retTo.slot) /\ (d <= 1 => x.retTo.slot = 0)
    <3>1. x.retTo = IF d > 1 THEN target(Main, b[Main], d - 1, x.retTo.slot) ELSE target(Main, b[Main], 1, 0)
      BY <1>1 DEF Woven, Returns
    <3>2. d > 1 \/ d = 1
      BY <1>2
    <3>3. d = 1 => x.retTo.slot = 0
      BY <3>1 DEF target
    <3> QED
      BY <3>1, <3>2, <3>3
  <2> PICK r : r = target(Main, c[Main], k, x.retTo.slot)
    OBVIOUS
  <2>4. shift(Main, x.retTo) = r
    <3> PICK s \in Slots : s = x.retTo.slot
      BY <2>2
    <3>1. x.retTo = [th |-> Main, base |-> b[Main], frame |-> k, slot |-> s]
      BY <2>3 DEF target
    <3>2. x.retTo.th = Main /\ x.retTo.base = base[Main]
      BY <3>1
    <3>3. shift(Main, x.retTo) = [x.retTo EXCEPT !.base = base[Main] + 1]
      BY <3>2 DEF shift
    <3>4. [x.retTo EXCEPT !.base = base[Main] + 1] = [th |-> Main, base |-> c[Main], frame |-> k, slot |-> s]
      BY <1>3, <3>1
    <3> QED
      BY <3>3, <3>4 DEF target
  <2>5. r \in Target /\ r.slot = x.retTo.slot
    <3>1. k \in Nat
      BY <1>2
    <3> QED
      BY <1>1, <1>3, <2>2, <3>1 DEF target, Target
  <2>6. a[d] = [x EXCEPT !.retTo = r]
    <3>1. a[d] = [f[Main][d] EXCEPT !.retTo = shift(Main, f[Main][d].retTo)]
      BY ONLY <1>4, d \in 1 .. n
    <3> QED
      BY ONLY <2>4, <3>1, x = f[Main][d]
  <2>7. a[d] \in Frame /\ a[d].method = x.method /\ a[d].retTo = r
    BY <2>1, <2>2, <2>5, <2>6 DEF Frame
  <2> QED
    BY <1>2, <2>3, <2>5, <2>7
<1>6. a \in Seq(Frame) /\ Len(a) = n
  <2>1. a \in [1 .. n -> Frame]
    BY <1>4, <1>5
  <2> QED
    BY <1>2, <2>1
<1>7. g \in Stacks /\ g[Main] = a /\ \A u \in Thread : u # Main => g[u] = f[u]
  BY <1>1, <1>6 DEF Stacks
<1>8. Stacked(w, g)
  <2>1. ASSUME NEW u \in Thread, NEW d \in 1 .. Len(g[u])
        PROVE  g[u][d].method \in IF d > 1 THEN {"BC", "C"} ELSE IF u = Main THEN {"start"} ELSE {"Y"}
    <3>1. d \in 1 .. Len(f[u]) /\ g[u][d].method = f[u][d].method
      BY <1>5, <1>6, <1>7
    <3> QED
      BY <3>1 DEF Woven, Stacked
  <2>2. \A u \in Thread : Len(g[u]) = Len(f[u])
    BY <1>6, <1>7
  <2>3. \A i \in 1 .. Len(w) : w[i] \in Thread /\ Len(f[w[i]]) >= 1
    BY WovenTypes
  <2>4. \A u \in Thread : Len(f[u]) <= 1 \/ \E i \in 1 .. Len(w) : w[i] = u
    BY DEF Woven, Stacked
  <2> QED
    BY <1>7, <2>1, <2>2, <2>3, <2>4 DEF Stacked, Stacks
<1>9. Returns(w, g, c)
  BY <1>1, <1>5, <1>6, <1>7 DEF Returns
<1>10. Woven(w, g, c, yt)
  BY <1>8, <1>9 DEF Woven
<1>11. endOf(w, g) = endOf(w, f)
  BY <1>1, <1>6, <1>7 DEF endOf
<1>12. InC(w, g) = InC(w, f)
  <2>1. \A i \in 1 .. Len(w) : w[i] = Main
    BY <1>1
  <2>2. ASSUME NEW p \in Nat \X Nat PROVE p \in InC(w, g) <=> p \in InC(w, f)
    <3>1. p[2] \in 1 .. n => g[Main][p[2]].method = f[Main][p[2]].method
      BY <1>5, <1>7
    <3>2. p \in InC(w, g) <=> /\ p[1] \in 1 .. Len(w) /\ p[2] \in 1 .. Len(g[w[p[1]]])
                            /\ isCMethod(g[w[p[1]]][p[2]].method)
      BY DEF InC
    <3>3. p \in InC(w, f) <=> /\ p[1] \in 1 .. Len(w) /\ p[2] \in 1 .. Len(f[w[p[1]]])
                            /\ isCMethod(f[w[p[1]]][p[2]].method)
      BY DEF InC
    <3> QED
      BY <1>6, <1>7, <2>1, <3>1, <3>2, <3>3
  <2> QED
    BY <2>2 DEF InC
<1>13. linksOf(Main, g) = linksOf(Main, f)
  BY <1>5, <1>6, <1>7 DEF linksOf
<1> QED
  BY <1>7, <1>10, <1>11, <1>12, <1>13

\* A yielder that nobody waits for is resumed.
Asleep(w, y) == \A i \in 1 .. Len(w) : w[i] # y
Resumes(w, f, g, b, yt, y, s) ==
  /\ Woven(w, f, b, yt) /\ Asleep(w, y) /\ y \in Yielder /\ Len(f[y]) >= 1 /\ s \in Slots
  /\ b \in [Thread -> Nat] /\ yt \in [Thread -> Thread \cup {None}]
  /\ g = [f EXCEPT ![y][Len(f[y])].retTo = target(w[Len(w)], b[w[Len(w)]], Len(f[w[Len(w)]]), s)]
HasResumed(w, f, g, b, yt, y, s) ==
  /\ Woven(Append(w, y), g, b, [yt EXCEPT ![y] = w[Len(w)]])
  /\ endOf(Append(w, y), g) = <<Len(w) + 1, 1>> /\ InC(Append(w, y), g) = InC(w, f)
  /\ linksOf(y, g) = <<[th |-> y, depth |-> 1, slot |-> s]>> /\ \A u \in Thread : u # y => g[u] = f[u]
LEMMA ResumedFrames ==
  ASSUME NEW w, NEW f, NEW g, NEW b, NEW yt, NEW y, NEW s, Resumes(w, f, g, b, yt, y, s)
  PROVE  HasResumed(w, f, g, b, yt, y, s)
<1> PICK n : n = Len(w)
  OBVIOUS
<1> PICK t : t = w[n]
  OBVIOUS
<1> PICK v : v = Append(w, y)
  OBVIOUS
<1> PICK z : z = [yt EXCEPT ![y] = t]
  OBVIOUS
<1>0. /\ Woven(w, f, b, yt) /\ Asleep(w, y) /\ y \in Yielder /\ Len(f[y]) >= 1 /\ s \in Slots
      /\ b \in [Thread -> Nat] /\ yt \in [Thread -> Thread \cup {None}]
  BY DEF Resumes
<1>1. /\ n \in Nat /\ n >= 1 /\ n \in 1 .. n /\ w \in Seq(Thread) /\ w[1] = Main /\ f \in Stacks /\ t \in Thread
      /\ \A i \in 1 .. n : w[i] \in Thread /\ Len(f[w[i]]) >= 1
      /\ \A i, j \in 1 .. n : w[i] = w[j] => i = j
  BY <1>0, WovenTypes
<1>2. y \in Thread /\ y # Main /\ y # t /\ \A i \in 1 .. n : w[i] # y
  BY <1>0, <1>1, MainIsNoYielder DEF Thread, Asleep
<1>3. v \in Seq(Thread) /\ Len(v) = n + 1 /\ v[n + 1] = y /\ \A i \in 1 .. n : v[i] = w[i]
  BY <1>1, <1>2, AppendProperties
<1>4. f[y] \in Seq(Frame) /\ Len(f[y]) = 1 /\ f[y][1] \in Frame
  <2>1. f[y] \in Seq(Frame) /\ Len(f[y]) \in Nat /\ \A d \in 1 .. Len(f[y]) : f[y][d] \in Frame
    BY <1>1, <1>2, StackTypes
  <2>2. Len(f[y]) <= 1
    BY <1>0, <1>2 DEF Woven, Stacked
  <2>3. Len(f[y]) = 1
    <3>1. PICK k \in Nat : k = Len(f[y])
      BY <2>1
    <3>2. k >= 1 /\ k <= 1
      BY <1>0, <2>2, <3>1
    <3>3. k = 1
      BY ONLY <3>2, k \in Nat
    <3> QED
      BY <3>1, <3>3
  <2> QED
    BY <2>1, <2>3
<1>5. PICK p : p = target(t, b[t], Len(f[t]), s)
  OBVIOUS
<1>6. p \in Target /\ p.slot = s
  <2>1. b[t] \in Nat /\ Len(f[t]) \in Nat
    BY <1>0, <1>1, StackTypes
  <2> QED
    BY <1>0, <1>1, <1>5, <2>1 DEF target, Target
<1>7. PICK x : x = [f[y][1] EXCEPT !.retTo = p]
  OBVIOUS
<1>8. x \in Frame /\ x.method = f[y][1].method /\ x.retTo = p
  BY <1>4, <1>6, <1>7 DEF Frame
<1>9. PICK a : a = [f[y] EXCEPT ![1] = x]
  OBVIOUS
<1>10. a \in Seq(Frame) /\ Len(a) = 1 /\ a[1] = x
  <2>1. 1 \in 1 .. Len(f[y])
    BY <1>4
  <2> QED
    BY <1>4, <1>8, <1>9, <2>1, ExceptSeq
<1>11. g = [f EXCEPT ![y] = a]
  BY <1>4, <1>5, <1>7, <1>9 DEF Resumes
<1>11a. Len(g[y]) = 1 /\ g[y] = a /\ Len(a) >= 1 /\ 1 \in 1 .. Len(g[y]) /\ \A d \in 1 .. Len(g[y]) : d = 1
  <2>1. g[y] = a
    BY <1>1, <1>2, <1>10, <1>11 DEF Stacks
  <2>2. Len(a) = 1
    BY <1>10
  <2> QED
    BY ONLY <2>1, <2>2
<1>12. g \in Stacks /\ g[y] = a /\ \A u \in Thread : u # y => g[u] = f[u]
  BY <1>1, <1>2, <1>10, <1>11 DEF Stacks
<1>13. z[y] = t /\ \A u \in Thread : u # y => z[u] = yt[u]
  BY <1>0, <1>2
<1>14. Path(v, z)
  <2>1. z[Main] = None
    BY <1>0, <1>2, <1>13 DEF Woven, Path, Thread
  <2>2. ASSUME NEW i \in 1 .. n + 1, NEW j \in 1 .. n + 1, v[i] = v[j] PROVE i = j
    <3>1. CASE i = n + 1 /\ j = n + 1
      BY <3>1
    <3>2. CASE i = n + 1 /\ j \in 1 .. n
      BY <1>2, <1>3, <2>2, <3>2
    <3>3. CASE i \in 1 .. n /\ j = n + 1
      BY <1>2, <1>3, <2>2, <3>3
    <3>4. CASE i \in 1 .. n /\ j \in 1 .. n
      BY <1>1, <1>3, <2>2, <3>4
    <3> QED
      BY <1>1, <3>1, <3>2, <3>3, <3>4
  <2>3. ASSUME NEW i \in 1 .. n PROVE z[v[i + 1]] = v[i]
    <3>1. CASE i = n
      BY <1>3, <1>13, <3>1
    <3>2. CASE i # n
      <4>1. i \in 1 .. n - 1 /\ i + 1 \in 1 .. n
        BY <1>1, <3>2
      <4>2. yt[w[i + 1]] = w[i]
        BY <1>0, <4>1 DEF Woven, Path
      <4>3. z[w[i + 1]] = w[i]
        BY <1>1, <1>2, <1>13, <4>1, <4>2
      <4> QED
        BY <1>3, <4>1, <4>3
    <3> QED
      BY <3>1, <3>2
  <2>4. v[1] = Main /\ Len(v) >= 1 /\ Len(v) - 1 = n
    BY <1>1, <1>3
  <2> QED
    BY <1>3, <2>1, <2>2, <2>3, <2>4 DEF Path
<1>15. Stacked(v, g)
  <2>1. ASSUME NEW u \in Thread, NEW d \in 1 .. Len(g[u])
        PROVE  g[u][d].method \in IF d > 1 THEN {"BC", "C"} ELSE IF u = Main THEN {"start"} ELSE {"Y"}
    <3>1. d \in 1 .. Len(f[u]) /\ g[u][d].method = f[u][d].method
      <4>1. CASE u = y
        BY <1>4, <1>8, <1>10, <1>12, <4>1
      <4>2. CASE u # y
        BY <1>12, <4>2
      <4> QED
        BY <4>1, <4>2
    <3> QED
      BY <1>0, <3>1 DEF Woven, Stacked
  <2>2. \A i \in 1 .. n + 1 : Len(g[v[i]]) >= 1
    <3> TAKE i \in 1 .. n + 1
    <3>1. CASE i = n + 1
      BY ONLY <1>3, <1>11a, <3>1
    <3>2. CASE i \in 1 .. n
      BY <1>1, <1>2, <1>3, <1>12, <3>2
    <3> QED
      BY <1>1, <3>1, <3>2
  <2>3. ASSUME NEW u \in Thread PROVE Len(g[u]) <= 1 \/ \E i \in 1 .. n + 1 : v[i] = u
    <3>1. CASE u = y
      BY <1>10, <1>12, <3>1
    <3>2. CASE u # y
      <4>1. g[u] = f[u] /\ (Len(f[u]) <= 1 \/ \E i \in 1 .. n : w[i] = u)
        BY <1>0, <1>12, <3>2 DEF Woven, Stacked
      <4>2. \A i \in 1 .. n : i \in 1 .. n + 1
        BY <1>1
      <4> QED
        BY <1>3, <4>1, <4>2
    <3> QED
      BY <3>1, <3>2
  <2> QED
    BY <1>3, <1>12, <2>1, <2>2, <2>3 DEF Stacked, Stacks
<1>16. ASSUME NEW i \in 1 .. n + 1, NEW d \in 1 .. Len(g[v[i]])
       PROVE  g[v[i]][d].retTo = IF d > 1 THEN target(v[i], b[v[i]], d - 1, g[v[i]][d].retTo.slot)
                                 ELSE IF i > 1 THEN target(v[i - 1], b[v[i - 1]], Len(g[v[i - 1]]), g[v[i]][d].retTo.slot)
                                 ELSE target(Main, b[Main], 1, 0)
  <2>1. CASE i = n + 1
    <3>1. i - 1 = n /\ i > 1 /\ d = 1
      <4>1. i - 1 = n /\ i > 1
        BY ONLY <1>1, <2>1
      <4>2. d \in 1 .. Len(g[y])
        BY <1>3, <2>1
      <4> QED
        BY ONLY <4>1, <4>2, <1>11a
    <3>2. v[i] = y /\ v[i - 1] = t /\ g[t] = f[t] /\ g[y][1].retTo = p
      BY <1>1, <1>2, <1>3, <1>8, <1>10, <1>12, <2>1, <3>1
    <3> QED
      BY <1>5, <1>6, <3>1, <3>2
  <2>2. CASE i \in 1 .. n
    <3>1. v[i] = w[i] /\ g[w[i]] = f[w[i]]
      BY <1>1, <1>2, <1>3, <1>12, <2>2
    <3>2. i > 1 => i - 1 \in 1 .. n
      BY <1>1, <2>2
    <3>3. i > 1 => v[i - 1] = w[i - 1] /\ g[w[i - 1]] = f[w[i - 1]]
      BY <1>1, <1>2, <1>3, <1>12, <3>2
    <3>4. f[w[i]][d].retTo = IF d > 1 THEN target(w[i], b[w[i]], d - 1, f[w[i]][d].retTo.slot)
                             ELSE IF i > 1 THEN target(w[i - 1], b[w[i - 1]], Len(f[w[i - 1]]), f[w[i]][d].retTo.slot)
                             ELSE target(Main, b[Main], 1, 0)
      BY <1>0, <2>2, <3>1 DEF Woven, Returns
    <3> QED
      BY ONLY <3>1, <3>3, <3>4
  <2>3. i = n + 1 \/ i \in 1 .. n
    BY <1>1
  <2> QED
    BY ONLY <2>1, <2>2, <2>3
<1>17. Woven(v, g, b, z)
  BY <1>3, <1>14, <1>15, <1>16 DEF Woven, Returns
<1>18. endOf(v, g) = <<n + 1, 1>>
  BY <1>3, <1>10, <1>12 DEF endOf
<1>19. InC(v, g) = InC(w, f)
  <2>1. ASSUME NEW q \in Nat \X Nat PROVE q \in InC(v, g) <=> q \in InC(w, f)
    <3>1. q \in InC(v, g) <=> q[1] \in 1 .. n + 1 /\ q[2] \in 1 .. Len(g[v[q[1]]]) /\ isCMethod(g[v[q[1]]][q[2]].method)
      BY <1>3 DEF InC
    <3>2. q \in InC(w, f) <=> q[1] \in 1 .. n /\ q[2] \in 1 .. Len(f[w[q[1]]]) /\ isCMethod(f[w[q[1]]][q[2]].method)
      BY DEF InC
    <3>3. CASE q[1] \in 1 .. n
      BY <1>1, <1>2, <1>3, <1>12, <3>1, <3>2, <3>3
    <3>4. CASE q[1] = n + 1
      <4>1. f[y][1].method = "Y"
        <5>1. 1 \in 1 .. Len(f[y]) /\ ~(1 > 1)
          BY <1>4
        <5>2. f[y][1].method \in {"Y"}
          BY <1>0, <1>2, <5>1 DEF Woven, Stacked
        <5> QED
          BY <5>2
      <4>2. \A d \in 1 .. 1 : d = 1
        OBVIOUS
      <4>3. q \notin InC(v, g)
        BY <1>3, <1>8, <1>10, <1>12, <3>1, <3>4, <4>1, <4>2 DEF isCMethod
      <4>4. q \notin InC(w, f)
        BY <1>1, <3>2, <3>4
      <4> QED
        BY <4>3, <4>4
    <3>5. q[1] \in 1 .. n + 1 => q[1] \in 1 .. n \/ q[1] = n + 1
      BY <1>1
    <3>6. q[1] \in 1 .. n => q[1] \in 1 .. n + 1
      BY <1>1
    <3> QED
      BY <3>1, <3>2, <3>3, <3>4, <3>5, <3>6
  <2> QED
    BY <2>1 DEF InC
<1>20. linksOf(y, g) = <<[th |-> y, depth |-> 1, slot |-> s]>>
  <2>1. linksOf(y, g) \in Seq(Link) /\ Len(linksOf(y, g)) = 1 /\ linksOf(y, g)[1] = [th |-> y, depth |-> 1, slot |-> s]
    <3>1. y \in Thread /\ g \in Stacks /\ Len(g[y]) = 1 /\ g[y][1].retTo.slot = s /\ 1 \in 1 .. Len(g[y])
      BY ONLY <1>2, <1>6, <1>8, <1>10, <1>12, <1>11a
    <3>2. linksOf(y, g) \in Seq(Link) /\ Len(linksOf(y, g)) = Len(g[y])
          /\ linksOf(y, g)[1] = [th |-> y, depth |-> 1, slot |-> g[y][1].retTo.slot]
      BY ONLY <3>1, LinksTyped
    <3> QED
      BY ONLY <3>1, <3>2
  <2> QED
    BY <2>1
<1> QED
  BY <1>12, <1>17, <1>18, <1>19, <1>20 DEF HasResumed

\* A yielder in its first frame returns or yields.
Leaves(w, f, b, yt)  == Woven(w, f, b, yt) /\ Len(w) >= 2 /\ Len(f[w[Len(w)]]) = 1
HasLeft(w, f, b, yt) ==
  /\ Woven(Front(w), f, b, yt) /\ endOf(Front(w), f) = <<Len(w) - 1, Len(f[w[Len(w) - 1]])>>
  /\ InC(Front(w), f) = InC(w, f) /\ w = Append(Front(w), w[Len(w)]) /\ Len(Front(w)) = Len(w) - 1
  /\ Front(w)[Len(w) - 1] = w[Len(w) - 1] /\ yt[w[Len(w)]] = w[Len(w) - 1]
LEMMA LeftFrames ==
  ASSUME NEW w, NEW f, NEW b, NEW yt, Leaves(w, f, b, yt)
  PROVE  HasLeft(w, f, b, yt)
<1> PICK n : n = Len(w)
  OBVIOUS
<1> PICK t : t = w[n]
  OBVIOUS
<1> PICK v : v = Front(w)
  OBVIOUS
<1>1. Woven(w, f, b, yt) /\ n >= 2 /\ Len(f[t]) = 1
  BY DEF Leaves
<1>2. /\ n \in Nat /\ n \in 1 .. n /\ n - 1 \in 1 .. n /\ w \in Seq(Thread) /\ w[1] = Main /\ f \in Stacks /\ t \in Thread
      /\ \A i \in 1 .. n : w[i] \in Thread /\ Len(f[w[i]]) >= 1
      /\ \A i, j \in 1 .. n : w[i] = w[j] => i = j
  BY <1>1, WovenTypes
<1>3. v \in Seq(Thread) /\ Len(v) = n - 1 /\ v[1] = w[1] /\ \A i \in 1 .. n - 1 : v[i] = w[i]
  BY <1>1, <1>2, Popped
<1>4. n - 1 \in 1 .. n - 1 /\ \A i \in 1 .. n - 1 : i \in 1 .. n
  BY <1>1, <1>2
<1>5. t # Main
  BY <1>1, <1>2
<1>6. yt[w[n]] = w[n - 1]
  <2> PICK k : k = n - 1
    OBVIOUS
  <2>1. k + 1 = n /\ k \in 1 .. n - 1
    BY ONLY <1>1, <1>2, k = n - 1
  <2>2. yt[w[k + 1]] = w[k]
    BY <1>1, <2>1 DEF Woven, Path
  <2> QED
    BY <2>1, <2>2
<1>7. Path(v, yt)
  <2>1. v[1] = Main /\ Len(v) >= 1 /\ yt[Main] = None
    BY <1>1, <1>2, <1>3 DEF Woven, Path
  <2>2. \A i, j \in 1 .. n - 1 : v[i] = v[j] => i = j
    BY <1>2, <1>3, <1>4
  <2>3. ASSUME NEW i \in 1 .. n - 1 - 1 PROVE yt[v[i + 1]] = v[i]
    <3>1. i \in 1 .. n - 1 /\ i + 1 \in 1 .. n - 1
      BY <1>2
    <3>2. yt[w[i + 1]] = w[i]
      BY <1>1, <3>1 DEF Woven, Path
    <3> QED
      BY <1>3, <3>1, <3>2
  <2> QED
    BY <1>3, <2>1, <2>2, <2>3 DEF Path
<1>8. Stacked(v, f)
  <2>1. \A i \in 1 .. n - 1 : Len(f[v[i]]) >= 1
    BY <1>2, <1>3, <1>4
  <2>2. ASSUME NEW u \in Thread PROVE Len(f[u]) <= 1 \/ \E i \in 1 .. n - 1 : v[i] = u
    <3>1. CASE u = t
      <4>1. 1 <= 1
        OBVIOUS
      <4> QED
        BY ONLY <1>1, <3>1, <4>1
    <3>2. CASE u # t
      <4>1. Len(f[u]) <= 1 \/ \E i \in 1 .. n : w[i] = u
        BY <1>1 DEF Woven, Stacked
      <4>2. \A i \in 1 .. n : w[i] = u => i \in 1 .. n - 1
        BY <1>2, <3>2
      <4> QED
        BY <1>3, <4>1, <4>2
    <3> QED
      BY <3>1, <3>2
  <2> QED
    BY <1>1, <1>3, <2>1, <2>2 DEF Woven, Stacked
<1>9. Returns(v, f, b)
  <2> SUFFICES ASSUME NEW i \in 1 .. n - 1, NEW d \in 1 .. Len(f[v[i]])
               PROVE  f[v[i]][d].retTo = IF d > 1 THEN target(v[i], b[v[i]], d - 1, f[v[i]][d].retTo.slot)
                        ELSE IF i > 1 THEN target(v[i - 1], b[v[i - 1]], Len(f[v[i - 1]]), f[v[i]][d].retTo.slot)
                        ELSE target(Main, b[Main], 1, 0)
    BY <1>3 DEF Returns
  <2>1. i \in 1 .. n /\ v[i] = w[i] /\ (i > 1 => i - 1 \in 1 .. n - 1)
    BY <1>2, <1>3, <1>4
  <2>2. i > 1 => v[i - 1] = w[i - 1]
    BY <1>3, <2>1
  <2>3. f[w[i]][d].retTo = IF d > 1 THEN target(w[i], b[w[i]], d - 1, f[w[i]][d].retTo.slot)
                           ELSE IF i > 1 THEN target(w[i - 1], b[w[i - 1]], Len(f[w[i - 1]]), f[w[i]][d].retTo.slot)
                           ELSE target(Main, b[Main], 1, 0)
    BY <1>1, <2>1 DEF Woven, Returns
  <2> QED
    BY ONLY <2>1, <2>2, <2>3
<1>10. InC(v, f) = InC(w, f)
  <2>1. ASSUME NEW q \in Nat \X Nat PROVE q \in InC(v, f) <=> q \in InC(w, f)
    <3>1. q \in InC(v, f) <=> q[1] \in 1 .. n - 1 /\ q[2] \in 1 .. Len(f[v[q[1]]]) /\ isCMethod(f[v[q[1]]][q[2]].method)
      BY <1>3 DEF InC
    <3>2. q \in InC(w, f) <=> q[1] \in 1 .. n /\ q[2] \in 1 .. Len(f[w[q[1]]]) /\ isCMethod(f[w[q[1]]][q[2]].method)
      BY DEF InC
    <3>3. CASE q[1] \in 1 .. n - 1
      BY <1>3, <1>4, <3>1, <3>2, <3>3
    <3>4. CASE q[1] = n
      <4>1. ~isCMethod(f[t][1].method)
        <5>1. 1 \in 1 .. Len(f[t]) /\ ~(1 > 1)
          BY <1>1
        <5>2. f[t][1].method \in {"Y"}
          BY <1>1, <1>2, <1>5, <5>1 DEF Woven, Stacked
        <5> QED
          BY <5>2 DEF isCMethod
      <4>2. \A d \in 1 .. Len(f[t]) : d = 1
        BY <1>1
      <4>3. q \notin InC(w, f)
        BY <3>2, <3>4, <4>1, <4>2
      <4>4. q[1] \notin 1 .. n - 1
        BY <1>2, <3>4
      <4> QED
        BY <3>1, <4>3, <4>4
    <3>5. q[1] \in 1 .. n <=> q[1] \in 1 .. n - 1 \/ q[1] = n
      BY <1>1, <1>2
    <3> QED
      BY <3>1, <3>2, <3>3, <3>4, <3>5
  <2> QED
    BY <2>1 DEF InC
<1>11. w = Append(v, t)
  <2> PICK r : r = Append(v, t)
    OBVIOUS
  <2>1. r \in Seq(Thread) /\ Len(r) = n - 1 + 1 /\ r[n - 1 + 1] = t /\ \A i \in 1 .. n - 1 : r[i] = v[i]
    BY <1>2, <1>3, AppendProperties
  <2>2. n - 1 + 1 = n /\ \A i \in 1 .. n : i = n \/ i \in 1 .. n - 1
    BY <1>1, <1>2
  <2>3. \A i \in 1 .. n : r[i] = w[i]
    BY <1>3, <2>1, <2>2
  <2>4. r = w
    BY <1>2, <2>1, <2>2, <2>3, SeqEqual
  <2> QED
    BY <2>4
<1>12. endOf(v, f) = <<n - 1, Len(f[w[n - 1]])>>
  BY <1>3, <1>4 DEF endOf
<1>13. Woven(v, f, b, yt)
  BY <1>7, <1>8, <1>9 DEF Woven
<1>14. v[n - 1] = w[n - 1]
  BY <1>3, <1>4
<1> QED
  BY <1>3, <1>6, <1>10, <1>11, <1>12, <1>13, <1>14 DEF HasLeft

\* A yield method is called: a new yielder.
Makes(w, f, g, b, yt, y) ==
  /\ Woven(w, f, b, yt) /\ y \in Yielder /\ f[y] = <<>> /\ b \in [Thread -> Nat]
  /\ g = [f EXCEPT ![y] = <<frame("Y", target(y, b[y], 1, 0))>>]
HasMade(w, f, g, b, yt) ==
  /\ Woven(w, g, b, yt) /\ endOf(w, g) = endOf(w, f) /\ InC(w, g) = InC(w, f)
  /\ \A i \in 1 .. Len(w) : g[w[i]] = f[w[i]]
LEMMA MadeFrames ==
  ASSUME NEW w, NEW f, NEW g, NEW b, NEW yt, NEW y, Makes(w, f, g, b, yt, y)
  PROVE  HasMade(w, f, g, b, yt)
<1> PICK n : n = Len(w)
  OBVIOUS
<1> PICK x : x = frame("Y", target(y, b[y], 1, 0))
  OBVIOUS
<1> PICK a : a = <<x>>
  OBVIOUS
<1>1. Woven(w, f, b, yt) /\ y \in Yielder /\ f[y] = <<>> /\ b \in [Thread -> Nat] /\ g = [f EXCEPT ![y] = a]
  BY DEF Makes
<1>2. /\ n \in Nat /\ n >= 1 /\ n \in 1 .. n /\ w \in Seq(Thread) /\ f \in Stacks
      /\ \A i \in 1 .. n : w[i] \in Thread /\ Len(f[w[i]]) >= 1
  BY <1>1, WovenTypes
<1>3. y \in Thread /\ y # Main
  BY <1>1, MainIsNoYielder DEF Thread
<1>4. x \in Frame /\ x.method = "Y"
  <2>1. target(y, b[y], 1, 0) \in Target
    BY <1>1, <1>3 DEF target, Target, Slots
  <2> QED
    BY <2>1 DEF frame, Frame, Methods
<1>5. a \in Seq(Frame) /\ Len(a) = 1 /\ a[1] = x /\ Len(a) <= 1 /\ \A d \in 1 .. Len(a) : d = 1 /\ ~(d > 1)
  BY <1>4
<1>6. g \in Stacks /\ g[y] = a /\ \A u \in Thread : u # y => g[u] = f[u]
  BY <1>1, <1>2, <1>3, <1>5 DEF Stacks
<1>7. \A i \in 1 .. n : w[i] # y
  <2>1. Len(f[y]) = 0
    BY <1>1
  <2> QED
    BY <1>2, <2>1
<1>8. \A i \in 1 .. n : g[w[i]] = f[w[i]]
  BY <1>2, <1>6, <1>7
<1>9. Stacked(w, g)
  <2>1. ASSUME NEW u \in Thread, NEW d \in 1 .. Len(g[u])
        PROVE  g[u][d].method \in IF d > 1 THEN {"BC", "C"} ELSE IF u = Main THEN {"start"} ELSE {"Y"}
    <3>1. CASE u = y
      <4>1. d = 1 /\ ~(d > 1)
        BY ONLY <1>5, <1>6, <3>1, d \in 1 .. Len(g[u])
      <4> QED
        BY <1>3, <1>4, <1>5, <1>6, <3>1, <4>1
    <3>2. CASE u # y
      <4>1. g[u] = f[u]
        BY <1>6, <3>2
      <4> QED
        BY <1>1, <4>1 DEF Woven, Stacked
    <3> QED
      BY <3>1, <3>2
  <2>2. ASSUME NEW u \in Thread PROVE Len(g[u]) <= 1 \/ \E i \in 1 .. n : w[i] = u
    <3>1. CASE u = y
      BY ONLY <1>5, <1>6, <3>1
    <3>2. CASE u # y
      <4>1. g[u] = f[u]
        BY <1>6, <3>2
      <4> QED
        BY <1>1, <4>1 DEF Woven, Stacked
    <3> QED
      BY <3>1, <3>2
  <2> QED
    BY <1>2, <1>6, <1>8, <2>1, <2>2 DEF Stacked, Stacks
<1>10. Returns(w, g, b)
  <2> SUFFICES ASSUME NEW i \in 1 .. n, NEW d \in 1 .. Len(g[w[i]])
               PROVE  g[w[i]][d].retTo = IF d > 1 THEN target(w[i], b[w[i]], d - 1, g[w[i]][d].retTo.slot)
                        ELSE IF i > 1 THEN target(w[i - 1], b[w[i - 1]], Len(g[w[i - 1]]), g[w[i]][d].retTo.slot)
                        ELSE target(Main, b[Main], 1, 0)
    BY DEF Returns
  <2>1. i > 1 => i - 1 \in 1 .. n
    BY <1>2
  <2>2. g[w[i]] = f[w[i]] /\ (i > 1 => g[w[i - 1]] = f[w[i - 1]])
    BY <1>8, <2>1
  <2>3. f[w[i]][d].retTo = IF d > 1 THEN target(w[i], b[w[i]], d - 1, f[w[i]][d].retTo.slot)
                           ELSE IF i > 1 THEN target(w[i - 1], b[w[i - 1]], Len(f[w[i - 1]]), f[w[i]][d].retTo.slot)
                           ELSE target(Main, b[Main], 1, 0)
    BY <1>1, <2>2 DEF Woven, Returns
  <2> QED
    BY ONLY <2>2, <2>3
<1>11. Woven(w, g, b, yt)
  BY <1>1, <1>9, <1>10 DEF Woven
<1>12. endOf(w, g) = endOf(w, f)
  BY <1>2, <1>8 DEF endOf
<1>13. InC(w, g) = InC(w, f)
  BY <1>8 DEF InC
<1> QED
  BY <1>8, <1>11, <1>12, <1>13 DEF HasMade

\* A yielder that nobody waits for is reset: its call stack is already what it becomes.
LEMMA ResetFrames ==
  ASSUME NEW w, NEW f, NEW b, NEW yt, Woven(w, f, b, yt), NEW y \in Yielder, Asleep(w, y), f[y] # <<>>,
         yt \in [Thread -> Thread \cup {None}]
  PROVE  [f EXCEPT ![y] = <<Head(f[y])>>] = f /\ Woven(w, f, b, [yt EXCEPT ![y] = None])
<1> PICK n : n = Len(w)
  OBVIOUS
<1> PICK z : z = [yt EXCEPT ![y] = None]
  OBVIOUS
<1>1. n \in Nat /\ n >= 1 /\ w \in Seq(Thread) /\ f \in Stacks /\ y \in Thread
  BY WovenTypes DEF Thread
<1>2. f[y] \in Seq(Frame) /\ Len(f[y]) \in Nat /\ \A i \in 1 .. n : w[i] # y
  BY <1>1, StackTypes DEF Asleep
<1>3. <<Head(f[y])>> = f[y]
  <2> PICK s \in Seq(Frame) : s = f[y]
    BY <1>2
  <2>1. PICK k \in Nat : k = Len(s)
    BY LenProperties
  <2>2. k # 0 /\ k <= 1
    <3>1. k # 0
      BY <2>1, EmptySeq
    <3>2. Len(f[y]) <= 1
      BY <1>1, <1>2 DEF Woven, Stacked
    <3> QED
      BY <2>1, <3>1, <3>2
  <2>3. k = 1
    BY ONLY <2>2, k \in Nat
  <2> PICK x \in Frame : x = s[1]
    BY <2>1, <2>3, ElementOfSeq
  <2>4. <<x>> \in Seq(Frame) /\ Len(<<x>>) = 1 /\ <<x>>[1] = x
    OBVIOUS
  <2>5. <<x>> = s
    <3> PICK r : r = <<x>>
      OBVIOUS
    <3>1. r \in Seq(Frame) /\ Len(r) = 1 /\ r[1] = x /\ s \in Seq(Frame) /\ Len(s) = 1 /\ s[1] = x
      BY <2>1, <2>3, <2>4
    <3>2. Len(r) = Len(s) /\ \A d \in 1 .. Len(r) : r[d] = s[d]
      <4>1. \A d \in 1 .. 1 : d = 1
        OBVIOUS
      <4> QED
        BY ONLY <3>1, <4>1
    <3>3. r = s
      BY ONLY <3>1, <3>2, SeqEqual
    <3> QED
      BY <3>3
  <2>6. Head(s) = x
    BY <2>1, <2>3
  <2> QED
    BY <2>5, <2>6
<1>4. [f EXCEPT ![y] = <<Head(f[y])>>] = f
  BY <1>1, <1>3 DEF Stacks
<1>5. \A u : u # y => z[u] = yt[u] \/ u \notin Thread
  OBVIOUS
<1>6. Path(w, z)
  <2>1. z[Main] = None
    BY MainIsNoYielder DEF Thread, Woven, Path
  <2>2. ASSUME NEW i \in 1 .. n - 1 PROVE z[w[i + 1]] = w[i]
    <3>1. i + 1 \in 1 .. n
      BY <1>1
    <3>2. w[i + 1] \in Thread /\ w[i + 1] # y /\ yt[w[i + 1]] = w[i]
      BY <1>1, <1>2, <3>1, ElementOfSeq DEF Woven, Path
    <3> QED
      BY <3>2
  <2> QED
    BY <2>1, <2>2 DEF Woven, Path
<1> QED
  BY <1>4, <1>6 DEF Woven

-----------------------------------------------------------------------------
(***************************************************************************)
(* The native stack: what the steps do to it.                              *)
(***************************************************************************)
OnlyLoopsEnd(nat) == \A j \in 1 .. Len(nat) : nat[j].after # "next" => ~isC(nat[j])
Paired(nat, q, w, cs) ==
  /\ nat \in Seq(Activation) /\ Len(nat) >= 1 /\ isC(nat[1]) /\ OnlyLoopsEnd(nat)
  /\ cs \subseteq Nat \X Nat /\ Matched(nat, q, w, cs)

LEMMA PairedParts ==
  ASSUME NEW nat, NEW q, NEW w, NEW cs, Paired(nat, q, w, cs)
  PROVE  /\ nat \in Seq(Activation) /\ Len(nat) \in Nat /\ Len(nat) >= 1 /\ isC(nat[1])
         /\ q \in [Nat -> Nat \X Nat] /\ cs \subseteq Nat \X Nat
         /\ \A j \in 1 .. Len(nat) : nat[j] \in Activation /\ (nat[j].after # "next" => ~isC(nat[j]))
         /\ \A j \in 1 .. Len(nat) : isC(nat[j]) => q[j] \in cs /\ w[q[j][1]] = nat[j].th
         /\ \A i, j \in 1 .. Len(nat) : i < j /\ isC(nat[i]) /\ isC(nat[j]) => before(q[i], q[j])
         /\ \A p \in cs : \E j \in 1 .. Len(nat) : isC(nat[j]) /\ q[j] = p
         /\ \A j \in 1 .. Len(nat) - 1 : ~isC(nat[j]) => isC(nat[j + 1])
         /\ \A j \in 1 .. Len(nat) - 1 : isC(nat[j + 1]) => Called(nat, q, w, cs, j)
<1>1. nat \in Seq(Activation) /\ Len(nat) >= 1 /\ isC(nat[1]) /\ OnlyLoopsEnd(nat) /\ cs \subseteq Nat \X Nat
  BY DEF Paired
<1>2. Len(nat) \in Nat /\ \A j \in 1 .. Len(nat) : nat[j] \in Activation
  BY <1>1, LenProperties, ElementOfSeq
<1>3. Matched(nat, q, w, cs)
  BY DEF Paired
<1>4. q \in [Nat -> Nat \X Nat]
  BY <1>3 DEF Matched
<1>5. \A j \in 1 .. Len(nat) : isC(nat[j]) => q[j] \in cs /\ w[q[j][1]] = nat[j].th
  BY <1>3 DEF Matched
<1>6. \A i, j \in 1 .. Len(nat) : i < j /\ isC(nat[i]) /\ isC(nat[j]) => before(q[i], q[j])
  BY <1>3 DEF Matched
<1>7. \A p \in cs : \E j \in 1 .. Len(nat) : isC(nat[j]) /\ q[j] = p
  BY <1>3 DEF Matched
<1>8. \A j \in 1 .. Len(nat) - 1 : ~isC(nat[j]) => isC(nat[j + 1])
  BY <1>3 DEF Matched
<1>9. \A j \in 1 .. Len(nat) - 1 : isC(nat[j + 1]) => Called(nat, q, w, cs, j)
  BY <1>3 DEF Matched
<1>10. \A j \in 1 .. Len(nat) : nat[j].after # "next" => ~isC(nat[j])
  BY <1>1 DEF OnlyLoopsEnd
<1> QED
  BY ONLY <1>1, <1>2, <1>4, <1>5, <1>6, <1>7, <1>8, <1>9, <1>10

LEMMA BeforeOrder ==
  ASSUME NEW p \in Nat \X Nat, NEW r \in Nat \X Nat, before(p, r)
  PROVE  ~before(r, p) /\ p # r
<1>1. p[1] \in Nat /\ p[2] \in Nat /\ r[1] \in Nat /\ r[2] \in Nat
  OBVIOUS
<1>2. ~before(r, p)
  BY <1>1 DEF before
<1>3. ~before(r, r)
  BY <1>1 DEF before
<1> QED
  BY <1>2, <1>3

\* The last C method is the one of the last position.
Latest(cs, e) == e \in cs /\ \A p \in cs : p = e \/ before(p, e)
LEMMA LastC ==
  ASSUME NEW nat, NEW q, NEW w, NEW cs, Paired(nat, q, w, cs), NEW e, Latest(cs, e), isC(nat[Len(nat)])
  PROVE  q[Len(nat)] = e
<1> PICK n : n = Len(nat)
  OBVIOUS
<1>1. n \in Nat /\ n >= 1 /\ n \in 1 .. n /\ e \in cs /\ cs \subseteq Nat \X Nat
  BY PairedParts DEF Latest
<1>2. q[n] \in cs
  BY <1>1, PairedParts
<1>6. \A p \in cs : \E j \in 1 .. Len(nat) : isC(nat[j]) /\ q[j] = p
  BY DEF Paired, Matched
<1>3. PICK j \in 1 .. n : isC(nat[j]) /\ q[j] = e
  BY ONLY <1>1, <1>6, n = Len(nat)
<1>4. CASE j = n
  BY <1>3, <1>4
<1>5. CASE j # n
  <2>1. j < n
    BY <1>1, <1>5
  <2>2. before(e, q[n])
    BY <1>1, <1>3, <2>1, PairedParts
  <2>3. q[n] = e \/ before(q[n], e)
    BY <1>2 DEF Latest
  <2>4. e \in Nat \X Nat /\ q[n] \in Nat \X Nat
    BY <1>1, <1>2
  <2> QED
    BY <2>2, <2>3, <2>4, BeforeOrder
<1> QED
  BY <1>4, <1>5

\* The threads of the positions are all that matters of w.
LEMMA OtherPath ==
  ASSUME NEW nat, NEW q, NEW w, NEW v, NEW cs, Paired(nat, q, w, cs), \A p \in cs : v[p[1]] = w[p[1]]
  PROVE  Paired(nat, q, v, cs)
<1> PICK n : n = Len(nat)
  OBVIOUS
<1>1. n \in Nat /\ n >= 1
  BY PairedParts
<1>4. \A j \in 1 .. Len(nat) : isC(nat[j]) => q[j] \in cs /\ w[q[j][1]] = nat[j].th
  BY DEF Paired, Matched
<1>2. ASSUME NEW j \in 1 .. n, isC(nat[j]) PROVE q[j] \in cs /\ v[q[j][1]] = nat[j].th
  <2>1. q[j] \in cs /\ w[q[j][1]] = nat[j].th
    BY ONLY <1>4, <1>2, n = Len(nat)
  <2> QED
    BY <2>1
<1>3. ASSUME NEW j \in 1 .. n - 1, isC(nat[j + 1]) PROVE Called(nat, q, v, cs, j)
  <2>1. j + 1 \in 1 .. n
    BY <1>1
  <2>2. q[j + 1] \in cs
    BY <1>2, <1>3, <2>1
  <2>3. v[q[j + 1][1]] = w[q[j + 1][1]]
    BY <2>2
  <2>4. Called(nat, q, w, cs, j)
    BY <1>3, PairedParts
  <2> QED
    BY <2>3, <2>4 DEF Called
<1> QED
  BY <1>2, <1>3 DEF Paired, Matched

PushedOn(nat, m, a) ==
  /\ m \in Seq(Activation) /\ Len(m) = Len(nat) + 1 /\ m[Len(nat) + 1] = a
  /\ \A i \in 1 .. Len(nat) : m[i] = nat[i]
LEMMA PushedNative ==
  ASSUME NEW nat, NEW q, NEW w, NEW cs, Paired(nat, q, w, cs), NEW a \in Activation
  PROVE  PushedOn(nat, Append(nat, a), a)
<1>1. nat \in Seq(Activation) /\ Len(nat) >= 1
  BY DEF Paired
<1>2. nat # <<>>
  BY <1>1, EmptySeq
<1> QED
  BY <1>1, <1>2, Pushed DEF PushedOn

PoppedOff(nat, m) ==
  /\ m \in Seq(Activation) /\ Len(m) = Len(nat) - 1
  /\ \A i \in 1 .. Len(nat) - 1 : m[i] = nat[i]
LEMMA PoppedNative ==
  ASSUME NEW nat, NEW q, NEW w, NEW cs, Paired(nat, q, w, cs), Len(nat) > 1
  PROVE  PoppedOff(nat, Front(nat))
<1>1. nat \in Seq(Activation)
  BY DEF Paired
<1> QED
  BY <1>1, Popped DEF PoppedOff

\* C calls byte code.
LEMMA PushLoop ==
  ASSUME NEW nat, NEW q, NEW w, NEW cs, Paired(nat, q, w, cs), isC(nat[Len(nat)]),
         NEW a \in Activation, ~isC(a)
  PROVE  Paired(Append(nat, a), q, w, cs)
<1> PICK n \in Nat : n = Len(nat)
  BY LenProperties DEF Paired
<1> PICK m : m = Append(nat, a)
  OBVIOUS
<1> PICK k \in Nat : k = n + 1
  OBVIOUS
<1>13. PushedOn(nat, m, a)
  BY PushedNative
<1>1. m \in Seq(Activation) /\ Len(m) = k /\ m[k] = a /\ \A i \in 1 .. n : m[i] = nat[i]
  BY <1>13 DEF PushedOn
<1>2. n >= 1 /\ isC(nat[1]) /\ cs \subseteq Nat \X Nat /\ q \in [Nat -> Nat \X Nat]
  BY DEF Paired, Matched
<1>3. 1 \in 1 .. n /\ (\A j \in 1 .. k : j \in 1 .. n \/ j = k) /\ \A j \in 1 .. n : j \in 1 .. k
  BY ONLY <1>2, n \in Nat, k = n + 1
<1>4. \A j \in 1 .. k : m[j].after # "next" => ~isC(m[j])
  <2>1. \A j \in 1 .. n : nat[j].after # "next" => ~isC(nat[j])
    BY DEF Paired, OnlyLoopsEnd
  <2> QED
    BY <1>1, <1>3, <2>1
<1>5. isC(m[1])
  BY <1>1, <1>3, <1>2
<1>6. \A j \in 1 .. k : isC(m[j]) => j \in 1 .. n /\ isC(nat[j])
  BY <1>1, <1>3
<1>7. \A j \in 1 .. k : isC(m[j]) => q[j] \in cs /\ w[q[j][1]] = m[j].th
  <2>1. \A j \in 1 .. n : isC(nat[j]) => q[j] \in cs /\ w[q[j][1]] = nat[j].th
    BY DEF Paired, Matched
  <2> QED
    BY ONLY <1>1, <1>6, <2>1
<1>8. \A i, j \in 1 .. k : i < j /\ isC(m[i]) /\ isC(m[j]) => before(q[i], q[j])
  <2>1. \A i, j \in 1 .. n : i < j /\ isC(nat[i]) /\ isC(nat[j]) => before(q[i], q[j])
    BY DEF Paired, Matched
  <2> QED
    BY ONLY <1>6, <2>1
<1>9. \A p \in cs : \E j \in 1 .. k : isC(m[j]) /\ q[j] = p
  <2>1. \A p \in cs : \E j \in 1 .. n : isC(nat[j]) /\ q[j] = p
    BY DEF Paired, Matched
  <2> QED
    BY ONLY <1>1, <1>3, <2>1
<1>10. ASSUME NEW j \in 1 .. k - 1, ~isC(m[j]) PROVE isC(m[j + 1])
  <2>1. j \in 1 .. n
    OBVIOUS
  <2>2. j # n
    BY <1>1, <1>10, <2>1
  <2>3. j \in 1 .. n - 1 /\ j + 1 \in 1 .. n
    BY <2>1, <2>2
  <2>4. isC(nat[j + 1])
    BY <1>1, <1>10, <2>1, <2>3 DEF Paired, Matched
  <2> QED
    BY <1>1, <2>3, <2>4
<1>11. ASSUME NEW j \in 1 .. k - 1, isC(m[j + 1]) PROVE Called(m, q, w, cs, j)
  <2>1. j + 1 # k
    BY <1>1, <1>11
  <2>5. j \in 1 .. n - 1 /\ j \in 1 .. n /\ j + 1 \in 1 .. n
    BY <2>1
  <2>2. m[j] = nat[j] /\ isC(nat[j + 1])
    BY <1>1, <1>11, <2>5
  <2>3. Called(nat, q, w, cs, j)
    BY <2>5, <2>2 DEF Paired, Matched
  <2> QED
    BY <2>2, <2>3 DEF Called
<1>12. Matched(m, q, w, cs)
  BY ONLY <1>1, <1>2, <1>7, <1>8, <1>9, <1>10, <1>11 DEF Matched
<1>14. OnlyLoopsEnd(m)
  BY ONLY <1>1, <1>4 DEF OnlyLoopsEnd
<1>16. k >= 1
  BY ONLY <1>2, n \in Nat, k = n + 1
<1>15. Paired(m, q, w, cs)
  BY ONLY <1>1, <1>2, <1>5, <1>12, <1>14, <1>16 DEF Paired
<1> QED
  BY <1>15

\* A loop returns into what called it.
LEMMA PopLoop ==
  ASSUME NEW nat, NEW q, NEW w, NEW cs, Paired(nat, q, w, cs), ~isC(nat[Len(nat)])
  PROVE  Len(nat) > 1 /\ Paired(Front(nat), q, w, cs) /\ isC(Front(nat)[Len(nat) - 1])
<1> PICK n \in Nat : n = Len(nat)
  BY LenProperties DEF Paired
<1> PICK m : m = Front(nat)
  OBVIOUS
<1>2. n >= 1 /\ isC(nat[1]) /\ cs \subseteq Nat \X Nat /\ q \in [Nat -> Nat \X Nat]
  BY DEF Paired, Matched
<1>3. n # 1
  BY <1>2
<1> PICK k \in Nat : n = k + 1
  BY ONLY <1>2, n \in Nat
<1>18. Len(nat) > 1 /\ Len(nat) - 1 = k
  BY ONLY <1>2, <1>3, n \in Nat, n = Len(nat), k \in Nat, n = k + 1
<1>17. PoppedOff(nat, m)
  BY <1>18, PoppedNative
<1>1. m \in Seq(Activation) /\ Len(m) = k /\ \A i \in 1 .. k : m[i] = nat[i]
  BY ONLY <1>17, <1>18 DEF PoppedOff
<1>13. k >= 1 /\ k = n - 1 /\ 1 \in 1 .. k /\ (\A j \in 1 .. n : j \in 1 .. k \/ j = n) /\ \A j \in 1 .. k : j \in 1 .. n
  BY <1>2, <1>3
<1>4. \A j \in 1 .. k : m[j].after # "next" => ~isC(m[j])
  <2>1. \A j \in 1 .. n : nat[j].after # "next" => ~isC(nat[j])
    BY DEF Paired, OnlyLoopsEnd
  <2> QED
    BY <1>1, <1>13, <2>1
<1>5. isC(m[1])
  BY <1>1, <1>2, <1>13
<1>6. \A j \in 1 .. k : isC(m[j]) <=> isC(nat[j])
  BY <1>1
<1>7. \A j \in 1 .. k : isC(m[j]) => q[j] \in cs /\ w[q[j][1]] = m[j].th
  <2>1. \A j \in 1 .. n : isC(nat[j]) => q[j] \in cs /\ w[q[j][1]] = nat[j].th
    BY DEF Paired, Matched
  <2> QED
    BY ONLY <1>1, <1>6, <1>13, <2>1
<1>8. \A i, j \in 1 .. k : i < j /\ isC(m[i]) /\ isC(m[j]) => before(q[i], q[j])
  <2>1. \A i, j \in 1 .. n : i < j /\ isC(nat[i]) /\ isC(nat[j]) => before(q[i], q[j])
    BY DEF Paired, Matched
  <2> QED
    BY ONLY <1>6, <1>13, <2>1
<1>9. \A p \in cs : \E j \in 1 .. k : isC(m[j]) /\ q[j] = p
  <2>1. \A p \in cs : \E j \in 1 .. n : isC(nat[j]) /\ q[j] = p
    BY DEF Paired, Matched
  <2>2. ~isC(nat[n])
    OBVIOUS
  <2> QED
    BY ONLY <1>6, <1>13, <2>1, <2>2
<1>10. ASSUME NEW j \in 1 .. k - 1, ~isC(m[j]) PROVE isC(m[j + 1])
  <2>1. j \in 1 .. k /\ j + 1 \in 1 .. k /\ j \in 1 .. n - 1
    BY <1>13
  <2>2. isC(nat[j + 1])
    BY <1>6, <1>10, <2>1 DEF Paired, Matched
  <2> QED
    BY <1>6, <2>1, <2>2
<1>11. ASSUME NEW j \in 1 .. k - 1, isC(m[j + 1]) PROVE Called(m, q, w, cs, j)
  <2>1. j \in 1 .. k /\ j + 1 \in 1 .. k /\ j \in 1 .. n - 1
    BY <1>13
  <2>2. m[j] = nat[j] /\ isC(nat[j + 1])
    BY <1>1, <1>6, <1>11, <2>1
  <2>3. Called(nat, q, w, cs, j)
    BY <2>1, <2>2 DEF Paired, Matched
  <2> QED
    BY <2>2, <2>3 DEF Called
<1>12. Matched(m, q, w, cs)
  BY ONLY <1>1, <1>2, <1>7, <1>8, <1>9, <1>10, <1>11 DEF Matched
<1>15. isC(m[k])
  <2>1. CASE isC(nat[k])
    BY <1>1, <1>13, <2>1
  <2>2. CASE ~isC(nat[k])
    <3>1. k \in 1 .. n - 1 /\ k + 1 = n
      BY <1>13
    <3>2. isC(nat[k + 1])
      BY <2>2, <3>1 DEF Paired, Matched
    <3> QED
      BY <3>1, <3>2
  <2> QED
    BY <2>1, <2>2
<1>14. OnlyLoopsEnd(m)
  BY ONLY <1>1, <1>4 DEF OnlyLoopsEnd
<1>16. Paired(m, q, w, cs)
  BY <1>1, <1>2, <1>5, <1>12, <1>13, <1>14 DEF Paired
<1> QED
  BY <1>13, <1>15, <1>16

\* A method in C returns: its frame was at position e.
LEMMA PopCall ==
  ASSUME NEW nat, NEW q, NEW w, NEW cs, Paired(nat, q, w, cs), isC(nat[Len(nat)]), Len(nat) > 1, NEW e, e = q[Len(nat)]
  PROVE  Paired(Front(nat), q, w, cs \ {e}) /\ Called(nat, q, w, cs, Len(nat) - 1)
<1> PICK n \in Nat : n = Len(nat)
  BY LenProperties DEF Paired
<1> PICK m : m = Front(nat)
  OBVIOUS
<1> PICK ds : ds = cs \ {e}
  OBVIOUS
<1>2. n > 1 /\ isC(nat[1]) /\ cs \subseteq Nat \X Nat /\ q \in [Nat -> Nat \X Nat] /\ e = q[n] /\ isC(nat[n])
  BY DEF Paired, Matched
<1> PICK k \in Nat : n = k + 1
  BY ONLY <1>2, n \in Nat
<1>18. Len(nat) > 1 /\ Len(nat) - 1 = k
  BY ONLY <1>2, n \in Nat, n = Len(nat), k \in Nat, n = k + 1
<1>17. PoppedOff(nat, m)
  BY <1>18, PoppedNative
<1>1. m \in Seq(Activation) /\ Len(m) = k /\ \A i \in 1 .. k : m[i] = nat[i]
  BY ONLY <1>17, <1>18 DEF PoppedOff
<1>13. k >= 1 /\ k = n - 1 /\ 1 \in 1 .. k /\ n \in 1 .. n /\ (\A j \in 1 .. n : j \in 1 .. k \/ j = n) /\ \A j \in 1 .. k : j \in 1 .. n /\ j < n
  BY ONLY <1>2, n \in Nat, k \in Nat, n = k + 1
<1>4. \A j \in 1 .. k : m[j].after # "next" => ~isC(m[j])
  <2>1. \A j \in 1 .. n : nat[j].after # "next" => ~isC(nat[j])
    BY DEF Paired, OnlyLoopsEnd
  <2> QED
    BY <1>1, <1>13, <2>1
<1>5. isC(m[1])
  BY <1>1, <1>2, <1>13
<1>6. \A j \in 1 .. k : isC(m[j]) <=> isC(nat[j])
  BY <1>1
<1>8. \A i, j \in 1 .. n : i < j /\ isC(nat[i]) /\ isC(nat[j]) => before(q[i], q[j])
  BY DEF Paired, Matched
<1>7. ASSUME NEW j \in 1 .. k, isC(m[j]) PROVE q[j] \in ds /\ w[q[j][1]] = m[j].th
  <2>1. \A i \in 1 .. n : isC(nat[i]) => q[i] \in cs /\ w[q[i][1]] = nat[i].th
    BY DEF Paired, Matched
  <2>2. j \in 1 .. n /\ j < n /\ isC(nat[j]) /\ m[j] = nat[j]
    BY <1>1, <1>6, <1>7, <1>13
  <2>3. q[j] \in cs /\ q[n] \in cs /\ w[q[j][1]] = m[j].th
    BY ONLY <1>2, <1>13, <2>1, <2>2
  <2>4. before(q[j], q[n])
    BY ONLY <1>2, <1>8, <1>13, <2>2
  <2>5. q[j] \in Nat \X Nat /\ q[n] \in Nat \X Nat
    BY <1>2, <2>3
  <2> QED
    BY <1>2, <2>3, <2>4, <2>5, BeforeOrder
<1>19. \A i, j \in 1 .. k : i < j /\ isC(m[i]) /\ isC(m[j]) => before(q[i], q[j])
  BY ONLY <1>6, <1>8, <1>13
<1>9. \A p \in ds : \E j \in 1 .. k : isC(m[j]) /\ q[j] = p
  <2>1. \A p \in cs : \E j \in 1 .. n : isC(nat[j]) /\ q[j] = p
    BY DEF Paired, Matched
  <2> QED
    BY ONLY <1>2, <1>6, <1>13, <2>1, ds = cs \ {e}
<1>10. ASSUME NEW j \in 1 .. k - 1, ~isC(m[j]) PROVE isC(m[j + 1])
  <2>1. j \in 1 .. k /\ j + 1 \in 1 .. k /\ j \in 1 .. n - 1
    BY <1>13
  <2>2. isC(nat[j + 1])
    BY <1>6, <1>10, <2>1 DEF Paired, Matched
  <2> QED
    BY <1>6, <2>1, <2>2
<1>11. ASSUME NEW j \in 1 .. k - 1, isC(m[j + 1]) PROVE Called(m, q, w, ds, j)
  <2>1. j \in 1 .. k /\ j + 1 \in 1 .. k /\ j \in 1 .. n - 1
    BY <1>13
  <2>2. m[j] = nat[j] /\ isC(nat[j + 1])
    BY <1>1, <1>6, <1>11, <2>1
  <2>3. Called(nat, q, w, cs, j)
    BY <2>1, <2>2 DEF Paired, Matched
  <2> QED
    BY <2>2, <2>3 DEF Called
<1>12. Matched(m, q, w, ds)
  BY ONLY <1>1, <1>2, <1>7, <1>19, <1>9, <1>10, <1>11, <1>13 DEF Matched
<1>14. OnlyLoopsEnd(m)
  BY ONLY <1>1, <1>4 DEF OnlyLoopsEnd
<1>20. ds \subseteq Nat \X Nat
  BY <1>2
<1>16. Paired(m, q, w, ds)
  BY ONLY <1>1, <1>20, <1>5, <1>12, <1>13, <1>14 DEF Paired
<1>21. Called(nat, q, w, cs, k)
  <2>1. k \in 1 .. n - 1 /\ k + 1 = n
    BY <1>13
  <2> QED
    BY <1>2, <2>1 DEF Paired, Matched
<1> QED
  BY <1>16, <1>18, <1>21

\* A method in C is called: its frame is the new last one, at position e.
CallsFrom(a, x, w, cs, e) ==
  IF isC(a) THEN x = <<e[1], e[2] - 1>>
  ELSE a.after # "goto" =>
         /\ e[2] > 1 /\ <<e[1], e[2] - 1>> \notin cs /\ a.th = w[e[1]]
         /\ a.after = "return" => e[2] = 2 /\ a.th \in Yielder
LEMMA PushCall ==
  ASSUME NEW nat, NEW q, NEW w, NEW cs, Paired(nat, q, w, cs),
         NEW e \in Nat \X Nat, \A p \in cs : before(p, e), CallsFrom(nat[Len(nat)], q[Len(nat)], w, cs, e),
         NEW a \in Activation, isC(a), a.th = w[e[1]], a.after = "next"
  PROVE  Paired(Append(nat, a), [q EXCEPT ![Len(nat) + 1] = e], w, cs \cup {e})
<1> PICK n \in Nat : n = Len(nat)
  BY LenProperties DEF Paired
<1> PICK m : m = Append(nat, a)
  OBVIOUS
<1> PICK k \in Nat : k = n + 1
  OBVIOUS
<1> PICK r : r = [q EXCEPT ![k] = e]
  OBVIOUS
<1> PICK ds : ds = cs \cup {e}
  OBVIOUS
<1>13. PushedOn(nat, m, a)
  BY PushedNative
<1>1. m \in Seq(Activation) /\ Len(m) = k /\ m[k] = a /\ \A i \in 1 .. n : m[i] = nat[i]
  BY <1>13 DEF PushedOn
<1>2. n >= 1 /\ isC(nat[1]) /\ cs \subseteq Nat \X Nat /\ q \in [Nat -> Nat \X Nat]
  BY DEF Paired, Matched
<1>3. /\ 1 \in 1 .. n /\ (\A j \in 1 .. k : j \in 1 .. n \/ j = k) /\ k >= 1 /\ ~(k < k)
      /\ \A j \in 1 .. n : j \in 1 .. k /\ j # k /\ j \in Nat /\ ~(k < j)
  BY ONLY <1>2, n \in Nat, k = n + 1
<1>17. r \in [Nat -> Nat \X Nat] /\ r[k] = e /\ \A j \in 1 .. n : r[j] = q[j]
  BY <1>2, <1>3
<1>4. \A j \in 1 .. k : m[j].after # "next" => ~isC(m[j])
  <2>1. \A j \in 1 .. n : nat[j].after # "next" => ~isC(nat[j])
    BY DEF Paired, OnlyLoopsEnd
  <2> QED
    BY <1>1, <1>3, <2>1
<1>5. isC(m[1])
  BY <1>1, <1>3, <1>2
<1>6. \A j \in 1 .. n : (isC(m[j]) <=> isC(nat[j])) /\ m[j] = nat[j]
  BY <1>1
<1>18. \A j \in 1 .. n : isC(nat[j]) => q[j] \in cs /\ w[q[j][1]] = nat[j].th
  BY DEF Paired, Matched
<1>7. \A j \in 1 .. k : isC(m[j]) => r[j] \in ds /\ w[r[j][1]] = m[j].th
  BY ONLY <1>1, <1>3, <1>6, <1>17, <1>18, ds = cs \cup {e}, a.th = w[e[1]]
<1>8. \A i, j \in 1 .. k : i < j /\ isC(m[i]) /\ isC(m[j]) => before(r[i], r[j])
  <2>1. \A i, j \in 1 .. n : i < j /\ isC(nat[i]) /\ isC(nat[j]) => before(q[i], q[j])
    BY DEF Paired, Matched
  <2>2. \A i \in 1 .. n : isC(nat[i]) => before(q[i], e)
    BY <1>18
  <2> QED
    <3> SUFFICES ASSUME NEW i \in 1 .. k, NEW j \in 1 .. k, i < j, isC(m[i]), isC(m[j]) PROVE before(r[i], r[j])
      OBVIOUS
    <3>1. i \in 1 .. n /\ (j \in 1 .. n \/ j = k)
      BY <1>1
    <3>2. CASE j \in 1 .. n
      BY <1>6, <1>17, <2>1, <3>1, <3>2
    <3>3. CASE j = k
      <4>1. isC(nat[i]) /\ r[i] = q[i]
        BY <1>6, <1>17, <3>1
      <4>2. before(q[i], e)
        BY ONLY <2>2, <3>1, <4>1
      <4>3. r[j] = e
        BY ONLY <1>17, <3>3
      <4> QED
        BY ONLY <4>1, <4>2, <4>3
    <3> QED
      BY <3>1, <3>2, <3>3
<1>9. \A p \in ds : \E j \in 1 .. k : isC(m[j]) /\ r[j] = p
  <2>1. \A p \in cs : \E j \in 1 .. n : isC(nat[j]) /\ q[j] = p
    BY DEF Paired, Matched
  <2>2. k \in 1 .. k
    BY <1>3
  <2> QED
    BY ONLY <1>1, <1>3, <1>6, <1>17, <2>1, <2>2, ds = cs \cup {e}, isC(a)
<1>10. ASSUME NEW j \in 1 .. k - 1, ~isC(m[j]) PROVE isC(m[j + 1])
  <2>1. j \in 1 .. n
    OBVIOUS
  <2>2. CASE j = n
    BY <1>1, <2>2
  <2>3. CASE j # n
    <3>1. j \in 1 .. n - 1 /\ j + 1 \in 1 .. n
      BY <2>1, <2>3
    <3>2. isC(nat[j + 1])
      BY <1>6, <1>10, <2>1, <3>1 DEF Paired, Matched
    <3> QED
      BY <1>6, <3>1, <3>2
  <2> QED
    BY <2>2, <2>3
<1>11. ASSUME NEW j \in 1 .. k - 1, isC(m[j + 1]) PROVE Called(m, r, w, ds, j)
  <2>1. j \in 1 .. n
    OBVIOUS
  <2>2. CASE j = n
    <3>1. r[j + 1] = e /\ m[j] = nat[n] /\ r[j] = q[n]
      BY <1>1, <1>3, <1>17, <2>1, <2>2
    <3>2. CallsFrom(nat[n], q[n], w, cs, e)
      OBVIOUS
    <3>3. <<e[1], e[2] - 1>> # e
      <4>1. e[2] \in Nat
        OBVIOUS
      <4> QED
        BY <4>1
    <3>4. <<e[1], e[2] - 1>> \notin cs => <<e[1], e[2] - 1>> \notin ds
      BY <3>3
    <3> QED
      BY ONLY <3>1, <3>2, <3>4 DEF Called, CallsFrom
  <2>3. CASE j # n
    <3>1. j \in 1 .. n - 1 /\ j \in 1 .. n /\ j + 1 \in 1 .. n
      BY <2>1, <2>3
    <3>2. m[j] = nat[j] /\ isC(nat[j + 1]) /\ r[j] = q[j] /\ r[j + 1] = q[j + 1]
      BY <1>6, <1>11, <1>17, <3>1
    <3>3. Called(nat, q, w, cs, j)
      BY <3>1, <3>2 DEF Paired, Matched
    <3>4. PICK p : p = q[j + 1]
      OBVIOUS
    <3>5. <<p[1], p[2] - 1>> # e
      <4>1. p \in cs /\ before(p, e) /\ p \in Nat \X Nat
        BY <1>2, <1>18, <3>1, <3>2, <3>4
      <4>2. p[1] \in Nat /\ p[2] \in Nat /\ e[1] \in Nat /\ e[2] \in Nat
        BY <4>1
      <4>3. p[1] < e[1] \/ (p[1] = e[1] /\ p[2] < e[2])
        BY <4>1 DEF before
      <4>4. e = <<p[1], p[2] - 1>> => e[1] = p[1] /\ e[2] = p[2] - 1
        OBVIOUS
      <4> QED
        BY ONLY <4>2, <4>3, <4>4
    <3>6. <<p[1], p[2] - 1>> \notin cs => <<p[1], p[2] - 1>> \notin ds
      BY <3>5
    <3> QED
      BY ONLY <3>2, <3>3, <3>4, <3>6 DEF Called
  <2> QED
    BY <2>2, <2>3
<1>12. Matched(m, r, w, ds)
  BY ONLY <1>1, <1>17, <1>7, <1>8, <1>9, <1>10, <1>11 DEF Matched
<1>14. OnlyLoopsEnd(m)
  BY ONLY <1>1, <1>4 DEF OnlyLoopsEnd
<1>19. ds \subseteq Nat \X Nat
  BY <1>2
<1>15. Paired(m, r, w, ds)
  BY ONLY <1>1, <1>19, <1>3, <1>5, <1>12, <1>14 DEF Paired
<1> QED
  BY <1>15

\* Every activation is known, and the last one executes the frame at position e, the last of all.
Tops(nat, q, w, cs, e) ==
  /\ Paired(nat, q, w, cs) /\ AtTop(nat[Len(nat)], w, cs, e)
  /\ e \in Nat \X Nat /\ \A p \in cs : p = e \/ before(p, e)

LEMMA LoopTops ==
  ASSUME NEW nat, NEW q, NEW w, NEW cs, Paired(nat, q, w, cs), isC(nat[Len(nat)]),
         NEW t \in Thread, NEW x \in Nat, NEW e \in Nat \X Nat, t = w[e[1]], \A p \in cs : before(p, e)
  PROVE  Tops(Append(nat, loop(t, x)), q, w, cs, e)
<1> PICK a : a = loop(t, x)
  OBVIOUS
<1> PICK m : m = Append(nat, a)
  OBVIOUS
<1>1. a \in Activation /\ ~isC(a) /\ a.th = t /\ a.after = "next"
  BY DEF loop, Activation, isC
<1>2. Paired(m, q, w, cs)
  BY <1>1, PushLoop
<1>3. PushedOn(nat, m, a)
  BY <1>1, PushedNative
<1>4. m[Len(m)] = a
  BY <1>3 DEF PushedOn
<1>5. e \notin cs
  BY BeforeOrder
<1>6. AtTop(m[Len(m)], w, cs, e)
  BY ONLY <1>1, <1>4, <1>5, t = w[e[1]] DEF AtTop
<1> QED
  BY <1>2, <1>6 DEF Tops

\* Byte code is run in the frame at position e, the new last one.
LEMMA RunTops ==
  ASSUME NEW q, NEW w, NEW v, NEW cs, Paired(native, q, w, cs), \A p \in cs : v[p[1]] = w[p[1]],
         NEW t \in Thread, NEW x \in Nat, NEW e \in Nat \X Nat, t = v[e[1]], \A p \in cs : before(p, e)
  PROVE  Tops(RunBC(t, x), q, v, cs, e)
<1> PICK nat : nat = native
  OBVIOUS
<1>1. Paired(nat, q, v, cs)
  BY OtherPath
<1>2. CASE isC(nat[Len(nat)])
  <2>1. RunBC(t, x) = Append(nat, loop(t, x))
    BY <1>2 DEF RunBC, running, Last, isC
  <2> QED
    BY <1>1, <1>2, <2>1, LoopTops
<1>3. CASE ~isC(nat[Len(nat)])
  <2>1. RunBC(t, x) = Append(Front(nat), loop(t, x))
    <3>1. nat[Len(nat)] \in Activation
      <4>1. nat \in Seq(Activation) /\ Len(nat) >= 1
        BY <1>1 DEF Paired
      <4>2. Len(nat) \in Nat
        BY <4>1, LenProperties
      <4>3. Len(nat) \in 1 .. Len(nat)
        BY <4>1, <4>2
      <4> QED
        BY <4>1, <4>3, ElementOfSeq
    <3>2. nat[Len(nat)].run = "BC"
      BY <1>3, <3>1 DEF Activation, isC
    <3> QED
      BY <3>2 DEF RunBC, running, Last
  <2>2. PICK m : m = Front(nat)
    OBVIOUS
  <2>3. Paired(m, q, v, cs) /\ isC(m[Len(nat) - 1]) /\ Len(nat) > 1
    BY <1>1, <1>3, <2>2, PopLoop
  <2>4. PoppedOff(nat, m)
    BY <1>1, <2>2, <2>3, PoppedNative
  <2>5. isC(m[Len(m)])
    BY <2>3, <2>4 DEF PoppedOff
  <2> QED
    BY <2>1, <2>2, <2>3, <2>5, LoopTops
<1> QED
  BY <1>2, <1>3

\* A loop has returned into the frame at position e, that of method x of thread t.
LEMMA ContinueTops ==
  ASSUME NEW nat, NEW q, NEW w, NEW v, NEW cs, Paired(nat, q, w, cs), \A p \in cs : v[p[1]] = w[p[1]],
         ~isC(nat[Len(nat)]), NEW t \in Thread, NEW x \in Nat, NEW e \in Nat \X Nat, t = v[e[1]],
         \A p \in cs : p = e \/ before(p, e), NEW meth, e \in cs <=> isCMethod(meth)
  PROVE  Tops(Continue(nat, t, meth, x), q, v, cs, e)
<1> PICK m : m = Front(nat)
  OBVIOUS
<1>1. Paired(nat, q, v, cs)
  BY OtherPath
<1>2. Paired(m, q, v, cs) /\ isC(m[Len(nat) - 1]) /\ Len(nat) > 1
  BY <1>1, PopLoop
<1>3. PoppedOff(nat, m)
  BY <1>1, <1>2, PoppedNative
<1>4. isC(m[Len(m)])
  BY <1>2, <1>3 DEF PoppedOff
<1>5. CASE isCMethod(meth)
  <2>1. Continue(nat, t, meth, x) = m
    BY <1>5 DEF Continue
  <2>2. Latest(cs, e)
    BY <1>5 DEF Latest
  <2>3. q[Len(m)] = e
    BY <1>2, <1>4, <2>2, LastC
  <2>4. PICK k \in Nat : k = Len(m)
    BY <1>2, LenProperties DEF Paired
  <2>5. k \in 1 .. k
    BY <1>2, <2>4 DEF Paired
  <2>6. v[q[k][1]] = m[k].th
    BY <1>2, <1>4, <2>4, <2>5 DEF Paired, Matched
  <2>7. m[k].after = "next"
    BY <1>2, <1>4, <2>4, <2>5 DEF Paired, OnlyLoopsEnd
  <2>8. AtTop(m[k], v, cs, e)
    BY <1>4, <1>5, <2>3, <2>4, <2>6, <2>7 DEF AtTop
  <2> QED
    BY <1>2, <2>1, <2>4, <2>8 DEF Tops
<1>6. CASE ~isCMethod(meth)
  <2>1. Continue(nat, t, meth, x) = Append(m, loop(t, x))
    BY <1>6 DEF Continue
  <2>2. \A p \in cs : before(p, e)
    BY <1>6
  <2> QED
    BY <1>2, <1>4, <2>1, <2>2, LoopTops
<1> QED
  BY <1>5, <1>6

LEMMA CallTops ==
  ASSUME NEW nat, NEW q, NEW w, NEW cs, Paired(nat, q, w, cs), NEW t \in Thread,
         NEW e \in Nat \X Nat, t = w[e[1]], \A p \in cs : before(p, e), CallsFrom(nat[Len(nat)], q[Len(nat)], w, cs, e)
  PROVE  Tops(Append(nat, cMethod(t)), [q EXCEPT ![Len(nat) + 1] = e], w, cs \cup {e}, e)
<1> PICK a : a = cMethod(t)
  OBVIOUS
<1> PICK m : m = Append(nat, a)
  OBVIOUS
<1> PICK ds : ds = cs \cup {e}
  OBVIOUS
<1>1. a \in Activation /\ isC(a) /\ a.th = t /\ a.after = "next"
  BY DEF cMethod, Activation, isC
<1>2. Paired(m, [q EXCEPT ![Len(nat) + 1] = e], w, ds)
  BY <1>1, PushCall
<1>3. PushedOn(nat, m, a)
  BY <1>1, PushedNative
<1>4. m[Len(m)] = a
  BY <1>3 DEF PushedOn
<1>5. AtTop(m[Len(m)], w, ds, e)
  BY ONLY <1>1, <1>4, t = w[e[1]], ds = cs \cup {e} DEF AtTop
<1> QED
  BY <1>2, <1>5 DEF Tops

\* A loop calls what it ends with.
Pending(nat, m, a) ==
  /\ m \in Seq(Activation) /\ Len(m) = Len(nat) /\ m[Len(nat)] = a
  /\ \A i \in 1 .. Len(nat) - 1 : m[i] = nat[i]
LEMMA PendingPaired ==
  ASSUME NEW nat, NEW q, NEW w, NEW cs, Paired(nat, q, w, cs), NEW m, NEW a \in Activation, ~isC(a),
         ~isC(nat[Len(nat)]), Pending(nat, m, a)
  PROVE  Paired(m, q, w, cs)
<1> PICK n \in Nat : n = Len(nat)
  BY LenProperties DEF Paired
<1>1. m \in Seq(Activation) /\ Len(m) = n /\ m[n] = a /\ \A i \in 1 .. n - 1 : m[i] = nat[i]
  BY DEF Pending
<1>2. n >= 1 /\ isC(nat[1]) /\ cs \subseteq Nat \X Nat /\ q \in [Nat -> Nat \X Nat] /\ ~isC(nat[n])
  BY DEF Paired, Matched
<1>3. n # 1
  BY <1>2
<1>4. (\A j \in 1 .. n : j \in 1 .. n - 1 \/ j = n) /\ 1 \in 1 .. n - 1 /\ \A j \in 1 .. n - 1 : j \in 1 .. n /\ j + 1 \in 1 .. n
  BY ONLY <1>2, <1>3, n \in Nat
<1>5. \A j \in 1 .. n : (isC(m[j]) <=> isC(nat[j])) /\ (isC(nat[j]) => m[j] = nat[j])
  BY <1>1, <1>2, <1>4
<1>6. \A j \in 1 .. n : m[j].after # "next" => ~isC(m[j])
  <2>1. \A j \in 1 .. n : nat[j].after # "next" => ~isC(nat[j])
    BY DEF Paired, OnlyLoopsEnd
  <2> QED
    BY <1>5, <2>1
<1>7. OnlyLoopsEnd(m)
  BY ONLY <1>1, <1>6 DEF OnlyLoopsEnd
<1>8. isC(m[1])
  BY <1>2, <1>4, <1>5
<1>9. \A j \in 1 .. n : isC(m[j]) => q[j] \in cs /\ w[q[j][1]] = m[j].th
  <2>1. \A j \in 1 .. n : isC(nat[j]) => q[j] \in cs /\ w[q[j][1]] = nat[j].th
    BY DEF Paired, Matched
  <2> QED
    BY ONLY <1>5, <2>1
<1>10. \A i, j \in 1 .. n : i < j /\ isC(m[i]) /\ isC(m[j]) => before(q[i], q[j])
  <2>1. \A i, j \in 1 .. n : i < j /\ isC(nat[i]) /\ isC(nat[j]) => before(q[i], q[j])
    BY DEF Paired, Matched
  <2> QED
    BY ONLY <1>5, <2>1
<1>11. \A p \in cs : \E j \in 1 .. n : isC(m[j]) /\ q[j] = p
  <2>1. \A p \in cs : \E j \in 1 .. n : isC(nat[j]) /\ q[j] = p
    BY DEF Paired, Matched
  <2> QED
    BY ONLY <1>5, <2>1
<1>12. \A j \in 1 .. n - 1 : ~isC(m[j]) => isC(m[j + 1])
  <2>1. \A j \in 1 .. n - 1 : ~isC(nat[j]) => isC(nat[j + 1])
    BY DEF Paired, Matched
  <2> QED
    BY ONLY <1>4, <1>5, <2>1
<1>13. ASSUME NEW j \in 1 .. n - 1, isC(m[j + 1]) PROVE Called(m, q, w, cs, j)
  <2>1. isC(nat[j + 1]) /\ m[j] = nat[j]
    BY <1>1, <1>4, <1>5, <1>13
  <2>2. Called(nat, q, w, cs, j)
    BY <2>1 DEF Paired, Matched
  <2> QED
    BY <2>1, <2>2 DEF Called
<1>14. Matched(m, q, w, cs)
  BY ONLY <1>1, <1>2, <1>9, <1>10, <1>11, <1>12, <1>13 DEF Matched
<1> QED
  BY ONLY <1>1, <1>2, <1>7, <1>8, <1>14 DEF Paired

LEMMA WaitingPaired ==
  ASSUME NEW q, NEW w, NEW cs, Paired(native, q, w, cs), ~isC(native[Len(native)]), NEW then \in {"next", "return", "goto"}
  PROVE  /\ Paired(waiting(then), q, w, cs)
         /\ Len(waiting(then)) = Len(native)
         /\ waiting(then)[Len(native)] = [running EXCEPT !.after = then]
         /\ [running EXCEPT !.after = then].th = th /\ [running EXCEPT !.after = then].after = then
         /\ ~isC([running EXCEPT !.after = then])
<1> PICK n \in Nat : n = Len(native)
  BY LenProperties DEF Paired
<1> PICK a : a = [running EXCEPT !.after = then]
  OBVIOUS
<1> PICK r : r = running
  OBVIOUS
<1>1. native \in Seq(Activation) /\ n >= 1
  BY DEF Paired
<1>2. n \in 1 .. n /\ r = native[n]
  BY <1>1 DEF running, Last
<1>3. r \in Activation /\ r.run # "C"
  BY <1>1, <1>2, ElementOfSeq DEF isC
<1>4. a \in Activation /\ ~isC(a) /\ a.th = r.th /\ a.after = then
  BY <1>3 DEF Activation, isC
<1> PICK s : s = [native EXCEPT ![n] = a]
  OBVIOUS
<1>5. s = waiting(then)
  BY <1>1, <1>2 DEF waiting
<1>6. s \in Seq(Activation) /\ Len(s) = n /\ s[n] = a /\ \A i \in 1 .. n - 1 : s[i] = native[i]
  BY <1>1, <1>2, <1>4, ExceptSeq
<1>7. Pending(native, s, a)
  BY <1>6 DEF Pending
<1>8. Paired(s, q, w, cs)
  BY <1>4, <1>7, PendingPaired
<1> QED
  BY <1>4, <1>5, <1>6, <1>8 DEF th

-----------------------------------------------------------------------------
(***************************************************************************)
(* The chain: what the steps do to it.                                     *)
(***************************************************************************)
Distinct(w)       == w \in Seq(Thread) /\ Len(w) >= 1 /\ \A i, j \in 1 .. Len(w) : w[i] = w[j] => i = j
Others(f, g, t)   == f \in Stacks /\ g \in Stacks /\ \A u \in Thread : u # t => g[u] = f[u]
Split(w, f, C, t) == C \in Seq(Link) /\ ChainOf(w, f) = C \o linksOf(t, f)

LEMMA LastLinks ==
  ASSUME NEW w, NEW f, NEW g, Distinct(w), Others(f, g, w[Len(w)])
  PROVE  \E C : Split(w, f, C, w[Len(w)]) /\ Split(w, g, C, w[Len(w)])
<1> PICK n : n = Len(w)
  OBVIOUS
<1> PICK t : t = w[n]
  OBVIOUS
<1>1. /\ w \in Seq(Thread) /\ n \in Nat /\ n >= 1 /\ f \in Stacks /\ g \in Stacks
      /\ \A i, j \in 1 .. n : w[i] = w[j] => i = j
  BY LenProperties DEF Distinct, Others
<1>2. \A u \in Thread : u # t => g[u] = f[u]
  BY DEF Others
<1>3. w # <<>>
  BY <1>1, EmptySeq
<1>4. PICK v \in Seq(Thread), u \in Thread : w = Append(v, u)
  BY <1>1, <1>3, SequenceEmptyOrAppend
<1>5. /\ Len(v) \in Nat /\ n = Len(v) + 1 /\ w[n] = u /\ \A i \in 1 .. Len(v) : w[i] = v[i]
  BY <1>4, AppendProperties, LenProperties
<1> PICK k \in Nat : k = Len(v)
  BY <1>5
<1>6. ASSUME NEW i \in 1 .. k PROVE f[v[i]] = g[v[i]]
  <2>1. i \in 1 .. n /\ n \in 1 .. n /\ i # n
    BY <1>5
  <2>2. w[i] # w[n] /\ w[i] = v[i]
    BY <1>1, <1>5, <2>1
  <2>3. v[i] \in Thread
    BY ElementOfSeq
  <2> QED
    BY <1>2, <2>2, <2>3
<1>7. ChainOf(v, f) = ChainOf(v, g) /\ ChainOf(v, f) \in Seq(Link)
  BY <1>1, <1>6, ChainSame, ChainTyped
<1>8. ChainOf(w, f) = ChainOf(v, f) \o linksOf(u, f) /\ ChainOf(w, g) = ChainOf(v, g) \o linksOf(u, g)
  BY <1>1, <1>4, ChainAppend
<1> QED
  BY <1>5, <1>7, <1>8 DEF Split

\* One link more.
linkOf(t, d, s) == [th |-> t, depth |-> d, slot |-> s]
Longer(c, c2, t, d) == c \in Seq(Link) /\ \E s \in Slots : c2 = Append(c, linkOf(t, d, s))

LEMMA LinksAppend ==
  ASSUME NEW t \in Thread, NEW f \in Stacks, NEW g \in Stacks, NEW x \in Frame, g[t] = Append(f[t], x)
  PROVE  linksOf(t, g) = Append(linksOf(t, f), linkOf(t, Len(f[t]) + 1, x.retTo.slot))
<1> PICK a \in Seq(Frame) : a = f[t]
  BY DEF Stacks
<1> PICK n \in Nat : n = Len(a)
  BY LenProperties
<1> PICK k \in Nat : k = n + 1
  OBVIOUS
<1>1. Len(g[t]) = k /\ g[t][k] = x /\ \A i \in 1 .. n : g[t][i] = a[i]
  BY AppendProperties
<1> PICK L : L = linksOf(t, f)
  OBVIOUS
<1> PICK M : M = linksOf(t, g)
  OBVIOUS
<1> PICK l : l = linkOf(t, k, x.retTo.slot)
  OBVIOUS
<1>2. L \in Seq(Link) /\ Len(L) = n /\ \A i \in 1 .. n : L[i] = [th |-> t, depth |-> i, slot |-> a[i].retTo.slot]
  BY LinksTyped
<1>3. M \in Seq(Link) /\ Len(M) = k /\ \A i \in 1 .. k : M[i] = [th |-> t, depth |-> i, slot |-> g[t][i].retTo.slot]
  BY <1>1, LinksTyped
<1>4. l \in Link
  BY DEF linkOf, Link, Frame, Target
<1> PICK P : P = Append(L, l)
  OBVIOUS
<1>5. P \in Seq(Link) /\ Len(P) = k /\ P[k] = l /\ \A i \in 1 .. n : P[i] = L[i]
  BY <1>2, <1>4, AppendProperties
<1>6. \A i \in 1 .. k : (i \in 1 .. n \/ i = k) /\ k \in 1 .. k
  BY ONLY k = n + 1, n \in Nat
<1>7. \A i \in 1 .. k : P[i] = M[i]
  <2>1. M[k] = l
    BY ONLY <1>1, <1>3, <1>6, l = linkOf(t, k, x.retTo.slot), k \in 1 .. k DEF linkOf
  <2> QED
    BY <1>1, <1>2, <1>3, <1>5, <1>6, <2>1
<1>8. P = M
  BY <1>3, <1>5, <1>7, SeqEqual
<1> QED
  BY <1>8

LEMMA ConcatOfAppend ==
  ASSUME NEW S, NEW s \in Seq(S), NEW t \in Seq(S), NEW x \in S
  PROVE  s \o Append(t, x) = Append(s \o t, x) /\ s \o t \in Seq(S)
<1>1. Append(t, x) = t \o <<x>> /\ <<x>> \in Seq(S) /\ s \o t \in Seq(S)
  BY AppendIsConcat, ConcatProperties
<1>2. (s \o t) \o <<x>> = s \o (t \o <<x>>)
  BY ONLY <1>1, s \in Seq(S), t \in Seq(S), ConcatAssociative
<1>3. Append(s \o t, x) = (s \o t) \o <<x>>
  BY ONLY <1>1, x \in S, AppendIsConcat
<1> QED
  BY <1>1, <1>2, <1>3

\* A frame more on the thread that runs.
Deeper(w, f, g, t, x) == Distinct(w) /\ Others(f, g, t) /\ t = w[Len(w)] /\ x \in Frame /\ g[t] = Append(f[t], x)
LEMMA DeeperChain ==
  ASSUME NEW w, NEW f, NEW g, NEW t, NEW x, Deeper(w, f, g, t, x)
  PROVE  Longer(ChainOf(w, f), ChainOf(w, g), t, Len(f[t]) + 1)
<1>1. Distinct(w) /\ Others(f, g, t) /\ t = w[Len(w)] /\ x \in Frame /\ g[t] = Append(f[t], x)
  BY DEF Deeper
<1>2. PICK C : Split(w, f, C, t) /\ Split(w, g, C, t)
  BY <1>1, LastLinks
<1>3. t \in Thread /\ f \in Stacks /\ g \in Stacks
  <2>1. w \in Seq(Thread) /\ Len(w) \in Nat /\ Len(w) >= 1
    BY <1>1, LenProperties DEF Distinct
  <2>2. Len(w) \in 1 .. Len(w)
    BY <2>1
  <2> QED
    BY <1>1, <2>1, <2>2, ElementOfSeq DEF Others
<1>4. PICK L : L = linksOf(t, f)
  OBVIOUS
<1>5. PICK l : l = linkOf(t, Len(f[t]) + 1, x.retTo.slot)
  OBVIOUS
<1>6. linksOf(t, g) = Append(L, l)
  BY <1>1, <1>3, <1>4, <1>5, LinksAppend
<1>7. L \in Seq(Link) /\ C \in Seq(Link) /\ ChainOf(w, f) = C \o L /\ ChainOf(w, g) = C \o Append(L, l)
  BY <1>2, <1>3, <1>4, <1>6, LinksTyped DEF Split
<1>8. x.retTo.slot \in Slots /\ Len(f[t]) + 1 \in Nat
  BY <1>1, <1>3, StackTypes DEF Frame, Target
<1>9. l \in Link
  BY <1>3, <1>5, <1>8 DEF linkOf, Link
<1>10. ChainOf(w, g) = Append(C \o L, l) /\ C \o L \in Seq(Link)
  BY <1>7, <1>9, ConcatOfAppend
<1> QED
  BY <1>5, <1>7, <1>8, <1>10 DEF Longer

\* The same links of the thread that runs.
LEMMA SameChain ==
  ASSUME NEW w, NEW f, NEW g, Distinct(w), Others(f, g, w[Len(w)]), linksOf(w[Len(w)], g) = linksOf(w[Len(w)], f)
  PROVE  ChainOf(w, g) = ChainOf(w, f)
<1>1. PICK C : Split(w, f, C, w[Len(w)]) /\ Split(w, g, C, w[Len(w)])
  BY LastLinks
<1> QED
  BY <1>1 DEF Split

\* A thread more, in its first frame.
Wider(v, w, f, g, t) ==
  /\ w \in Seq(Thread) /\ v = Append(w, t) /\ t \in Thread /\ f \in Stacks /\ g \in Stacks
  /\ (\A i \in 1 .. Len(w) : f[w[i]] = g[w[i]]) /\ Len(g[t]) = 1
LEMMA WiderChain ==
  ASSUME NEW v, NEW w, NEW f, NEW g, NEW t, Wider(v, w, f, g, t)
  PROVE  Longer(ChainOf(w, f), ChainOf(v, g), t, 1)
<1>1. /\ w \in Seq(Thread) /\ v = Append(w, t) /\ t \in Thread /\ f \in Stacks /\ g \in Stacks
      /\ (\A i \in 1 .. Len(w) : f[w[i]] = g[w[i]]) /\ Len(g[t]) = 1
  BY DEF Wider
<1>2. ChainOf(w, f) = ChainOf(w, g) /\ ChainOf(w, f) \in Seq(Link)
  BY <1>1, ChainSame, ChainTyped
<1>3. ChainOf(v, g) = ChainOf(w, g) \o linksOf(t, g)
  BY <1>1, ChainAppend
<1>4. PICK s : s = g[t][1].retTo.slot
  OBVIOUS
<1>5. PICK L : L = linksOf(t, g)
  OBVIOUS
<1>6. 1 \in 1 .. 1
  OBVIOUS
<1>7. s \in Slots
  BY <1>1, <1>4, <1>6, StackTypes DEF Frame, Target
<1>8. L \in Seq(Link) /\ Len(L) = 1 /\ L[1] = linkOf(t, 1, s)
  BY ONLY <1>1, <1>4, <1>5, <1>6, LinksTyped DEF linkOf
<1>9. L = <<linkOf(t, 1, s)>>
  BY <1>8
<1>10. linkOf(t, 1, s) \in Link
  BY <1>1, <1>7 DEF linkOf, Link
<1>11. ChainOf(v, g) = Append(ChainOf(w, f), linkOf(t, 1, s))
  BY <1>2, <1>3, <1>5, <1>9, <1>10, AppendIsConcat
<1> QED
  BY <1>2, <1>7, <1>11 DEF Longer

-----------------------------------------------------------------------------
(***************************************************************************)
(* The steps. All of CInv, for one w and one q, of given frames, addresses,*)
(* resumed threads and activations.                                        *)
(***************************************************************************)
Holds(w, q, f, b, yt, nat) == Woven(w, f, b, yt) /\ Tops(nat, q, w, InC(w, f), endOf(w, f))

\* From frames f and threads w that wait for each other to frames g and threads v, while the
\* yielders that have ended were d and become d2: what Coroutines does to the chain.
Arrives(w, f, v, g, d, d2) ==
  LET t == w[Len(w)]  c == ChainOf(w, f)  c2 == ChainOf(v, g) IN
  \/ d2 = d /\ c2 = c
  \/ d2 = d /\ Longer(c, c2, t, Len(f[t]) + 1)
  \/ \E y \in Yielder : Asleep(w, y) /\ (\/ d2 = d /\ y \notin d /\ Longer(c, c2, y, 1)
                                         \/ d2 = d \ {y} /\ c2 = c)
  \/ Longer(c2, c, t, Len(f[t])) /\ (d2 = d \/ (Len(f[t]) = 1 /\ d2 = d \cup {t}))
Goes(w, f, d, g, b, yt, nat, d2) ==
  \E v, q : Holds(v, q, g, b, yt, nat) /\ Arrives(w, f, v, g, d, d2)

LEMMA LinkedHolds ==
  ASSUME NativeInv, NEW w, NEW q, Linked(w, q)
  PROVE  Holds(w, q, frames, base, yieldTo, native)
<1>1. Woven(w, frames, base, yieldTo)
  BY DEF Linked, Woven
<1>2. OnlyLoopsEnd(native)
  BY DEF NativeInv, ActivationOK, OnlyLoopsEnd, isC
<1>3. native \in Seq(Activation) /\ Len(native) >= 1 /\ isC(native[1])
  BY EmptySeq, LenProperties DEF NativeInv, isC
<1>4. InC(w, frames) \subseteq Nat \X Nat
  BY DEF InC
<1>5. Paired(native, q, w, InC(w, frames))
  BY <1>2, <1>3, <1>4 DEF Paired, Linked
<1>6. endOf(w, frames) \in Nat \X Nat /\ \A p \in InC(w, frames) : p = endOf(w, frames) \/ before(p, endOf(w, frames))
  BY <1>1, Positions
<1> QED
  BY <1>1, <1>5, <1>6 DEF Holds, Tops, Linked

LEMMA HoldsLinked ==
  ASSUME NEW w, NEW q, Holds(w, q, frames, base, yieldTo, native)
  PROVE  Linked(w, q) /\ w \in Seq(Thread) /\ q \in [Nat -> Nat \X Nat]
<1>1. Path(w, yieldTo) /\ Stacked(w, frames) /\ Returns(w, frames, base)
  BY DEF Holds, Woven
<1>2. Matched(native, q, w, InC(w, frames)) /\ AtTop(native[Len(native)], w, InC(w, frames), endOf(w, frames))
  BY DEF Holds, Tops, Paired
<1> QED
  BY <1>1, <1>2 DEF Linked, Path, Matched

\* What is known of the state and of its last frame.
Now(w, q) ==
  /\ Holds(w, q, frames, base, yieldTo, native) /\ w[Len(w)] = th /\ th \in Thread
  /\ base \in [Thread -> Nat] /\ yieldTo \in [Thread -> Thread \cup {None}]
  /\ waitingFor(th) = w /\ Distinct(w) /\ frames \in Stacks
Here(w, q, e) ==
  /\ e = endOf(w, frames) /\ e \in Nat \X Nat /\ e = <<Len(w), top(th)>> /\ e[1] = Len(w) /\ e[2] = top(th)
  /\ top(th) \in Nat /\ top(th) >= 1 /\ (\A p \in InC(w, frames) : p = e \/ before(p, e))
  /\ (isC(running) <=> e \in InC(w, frames)) /\ (e \in InC(w, frames) <=> isCMethod(curmethod(th).method))
  /\ running.after # "goto" /\ (running.after = "return" /\ th \in Yielder => top(th) = 1)
  /\ running \in Activation /\ running = native[Len(native)] /\ curmethod(th) = frames[th][top(th)]

LEMMA NowHere ==
  ASSUME NativeInv, NEW w, NEW q, Linked(w, q)
  PROVE  Now(w, q) /\ Here(w, q, endOf(w, frames))
<1> PICK e : e = endOf(w, frames)
  OBVIOUS
<1>1. Holds(w, q, frames, base, yieldTo, native)
  BY LinkedHolds
<1>2. Woven(w, frames, base, yieldTo) /\ Tops(native, q, w, InC(w, frames), e)
  BY <1>1 DEF Holds
<1>3. AtTop(native[Len(native)], w, InC(w, frames), e)
  BY <1>2 DEF Tops
<1>4. running = native[Len(native)] /\ th = native[Len(native)].th
  BY DEF running, th, Last
<1>5. running \in Activation /\ th \in Thread /\ base \in [Thread -> Nat] /\ yieldTo \in [Thread -> Thread \cup {None}]
  BY GoodTop DEF NativeInv
<1>6. /\ e = <<Len(w), Len(frames[w[Len(w)]])>> /\ e[1] = Len(w) /\ e[2] = Len(frames[w[Len(w)]]) /\ e \in Nat \X Nat
      /\ \A p \in InC(w, frames) : p = e \/ before(p, e)
      /\ e \in InC(w, frames) <=> isCMethod(frames[w[Len(w)]][Len(frames[w[Len(w)]])].method)
  BY <1>2, Positions
<1>7. th = w[Len(w)]
  BY ONLY <1>3, <1>4, <1>6 DEF AtTop
<1>8. Path(w, yieldTo)
  BY <1>2 DEF Woven
<1>9. waitingFor(th) = w
  BY <1>5, <1>7, <1>8, WaitingForIsPath
<1>10. Distinct(w) /\ frames \in Stacks
  BY <1>2, WovenTypes DEF Distinct
<1>11. Len(w) \in 1 .. Len(w) /\ Len(frames[th]) \in Nat
  BY <1>2, <1>5, <1>10, WovenTypes, StackTypes
<1>12. Len(frames[th]) >= 1
  BY <1>2, <1>7, <1>11, WovenTypes
<1>13. Now(w, q)
  BY <1>1, <1>5, <1>7, <1>9, <1>10 DEF Now
<1>14. /\ (isC(running) <=> e \in InC(w, frames)) /\ running.after # "goto"
       /\ (running.after = "return" /\ th \in Yielder => Len(frames[th]) = 1)
  BY ONLY <1>3, <1>4, <1>6, <1>7, running.th = th DEF AtTop
<1>15. Here(w, q, e)
  BY ONLY e = endOf(w, frames), <1>4, <1>5, <1>6, <1>7, <1>11, <1>12, <1>14 DEF Here, top, curmethod, Last
<1> QED
  BY <1>13, <1>15

LEMMA Waits ==
  ASSUME NEW w, NEW q, Now(w, q), NEW y
  PROVE  IsWaiting(y) <=> ~Asleep(w, y)
<1>1. waitingFor(th) = w /\ w \in Seq(Thread)
  BY DEF Now, Distinct
<1>2. DOMAIN w = 1 .. Len(w)
  BY <1>1, LenProperties
<1> QED
  BY <1>1, <1>2 DEF IsWaiting, Asleep

\* The call stack of the running thread has become that of h, and then its data stack may move.
Grew(w, h, g, b) ==
  /\ Woven(w, g, b, yieldTo) /\ endOf(w, g) = endOf(w, h) /\ InC(w, g) = InC(w, h)
  /\ ChainOf(w, g) = ChainOf(w, h) /\ b \in [Thread -> Nat]
LEMMA GrownFrames ==
  ASSUME Regular, NEW w, NEW q, Now(w, q), NEW fs, NEW h, h = [frames EXCEPT ![th] = fs], Woven(w, h, base, yieldTo),
         NEW moved \in BOOLEAN, MayMove(th, moved), Grown(th, fs, moved)
  PROVE  Grew(w, h, frames', base')
<1> PICK t : t = th
  OBVIOUS
<1>1. /\ t \in Thread /\ w[Len(w)] = t /\ base \in [Thread -> Nat] /\ frames \in Stacks /\ Distinct(w)
  BY DEF Now
<1>2. h[t] = fs
  BY <1>1 DEF Stacks
<1>3. CASE ~moved
  <2>1. frames' = h /\ base' = base
    BY <1>3 DEF Grown
  <2> QED
    BY <1>1, <2>1 DEF Grew
<1>4. CASE moved
  <2>1. t = Main
    BY <1>4 DEF MayMove, Regular
  <2>2. PICK g : g = frames'
    OBVIOUS
  <2>3. PICK b : b = base'
    OBVIOUS
  <2>4. g = [frames EXCEPT ![Main] = shifted(Main, fs)]
    BY <1>4, <2>1, <2>2 DEF Grown
  <2>5. g = [h EXCEPT ![Main] = shifted(Main, h[Main])]
    BY ONLY <1>2, <2>1, <2>4, h = [frames EXCEPT ![th] = fs], t = th
  <2>6. b = [base EXCEPT ![Main] = base[Main] + 1]
    BY <1>4, <2>1, <2>3 DEF Grown
  <2>7. Shifts(w, h, g, base, b, yieldTo)
    BY <1>1, <2>1, <2>5, <2>6 DEF Shifts
  <2>8. HasShifted(w, h, g, b, yieldTo)
    BY <2>7, ShiftedFrames
  <2>9. Woven(w, g, b, yieldTo) /\ linksOf(Main, g) = linksOf(Main, h) /\ \A u \in Thread : u # Main => g[u] = h[u]
    BY <2>8 DEF HasShifted
  <2>10. g \in Stacks /\ h \in Stacks
    BY <2>9, WovenTypes
  <2>11. Others(h, g, Main)
    BY <2>9, <2>10 DEF Others
  <2>12. ChainOf(w, g) = ChainOf(w, h)
    BY <1>1, <2>1, <2>9, <2>11, SameChain
  <2>13. b \in [Thread -> Nat]
    <3>1. Main \in Thread /\ base[Main] + 1 \in Nat
      BY <1>1, <2>1
    <3> QED
      BY <1>1, <2>6, <3>1
  <2> QED
    BY <2>2, <2>3, <2>8, <2>12, <2>13 DEF Grew, HasShifted
<1> QED
  BY <1>3, <1>4

\* The running frame calls a method.
Entered(w, h, m, s) ==
  /\ h = [frames EXCEPT ![th] = Append(frames[th], frame(m, here(s)))]
  /\ HasPushed(w, frames, h, base, yieldTo, th, m, s)
  /\ Longer(ChainOf(w, frames), ChainOf(w, h), th, top(th) + 1)
LEMMA CalledFrame ==
  ASSUME NEW w, NEW q, Now(w, q), NEW m \in {"BC", "C"}, NEW s \in Slots
  PROVE  \E h : Entered(w, h, m, s)
<1> PICK t : t = th
  OBVIOUS
<1> PICK x : x = frame(m, target(t, base[t], Len(frames[t]), s))
  OBVIOUS
<1> PICK h : h = [frames EXCEPT ![t] = Append(frames[t], x)]
  OBVIOUS
<1>1. /\ t \in Thread /\ w[Len(w)] = t /\ base \in [Thread -> Nat] /\ frames \in Stacks /\ Distinct(w)
      /\ Woven(w, frames, base, yieldTo)
  BY DEF Now, Holds
<1>2. here(s) = target(t, base[t], Len(frames[t]), s)
  BY DEF here, ptr, target, top
<1>3. Pushes(w, frames, h, base, yieldTo, t, m, s)
  BY <1>1 DEF Pushes
<1>4. HasPushed(w, frames, h, base, yieldTo, t, m, s)
  BY <1>3, PushedFrame
<1>5. h[t] = Append(frames[t], x) /\ Woven(w, h, base, yieldTo)
  BY <1>4 DEF HasPushed
<1>6. h \in Stacks
  BY <1>5, WovenTypes
<1>7. Others(frames, h, t)
  BY <1>1, <1>6 DEF Others, Stacks
<1>8. x \in Frame
  <2>1. Len(frames[t]) \in Nat /\ base[t] \in Nat
    BY <1>1, StackTypes
  <2>2. target(t, base[t], Len(frames[t]), s) \in Target
    BY <1>1, <2>1 DEF target, Target
  <2> QED
    BY <2>2 DEF frame, Frame, Methods
<1>9. Deeper(w, frames, h, t, x)
  BY <1>1, <1>5, <1>7, <1>8 DEF Deeper
<1>10. Longer(ChainOf(w, frames), ChainOf(w, h), t, Len(frames[t]) + 1)
  BY <1>9, DeeperChain
<1> QED
  BY <1>2, <1>4, <1>10 DEF Entered, top

LEMMA Above ==
  ASSUME NEW w, NEW q, NEW e, Here(w, q, e), NEW p \in InC(w, frames)
  PROVE  before(p, <<e[1], e[2] + 1>>)
<1>1. e[1] \in Nat /\ e[2] \in Nat /\ (p = e \/ before(p, e)) /\ e \in Nat \X Nat
  BY DEF Here
<1>2. p \in Nat \X Nat
  BY DEF InC
<1>3. p[1] \in Nat /\ p[2] \in Nat /\ (p = e => p[1] = e[1] /\ p[2] = e[2])
  BY <1>2
<1>4. before(p, e) => p[1] < e[1] \/ (p[1] = e[1] /\ p[2] < e[2])
  BY DEF before
<1>5. p[1] < e[1] \/ (p[1] = e[1] /\ p[2] < e[2] + 1)
  BY ONLY <1>1, <1>3, <1>4
<1> QED
  BY ONLY <1>5 DEF before

\* What is to be shown of a step.
Step(w) == Goes(w, frames, done, frames', base', yieldTo', native', done')
LEMMA Stepped ==
  ASSUME NEW w, NEW v, NEW q, Woven(v, frames', base', yieldTo'), NEW cs, cs = InC(v, frames'), NEW e, e = endOf(v, frames'),
         Tops(native', q, v, cs, e), Arrives(w, frames, v, frames', done, done')
  PROVE  Step(w)
BY DEF Step, Goes, Holds

LEMMA StepCallBytecode ==
  ASSUME Regular, NEW w, NEW q, NEW e, Now(w, q), Here(w, q, e),
         NEW s \in Slots, NEW moved \in BOOLEAN, CallBytecode(s, moved)
  PROVE  Step(w)
<1>1. /\ MayMove(th, moved) /\ Grown(th, Append(frames[th], frame("BC", here(s))), moved)
      /\ native' = RunBC(th, base'[th]) /\ yieldTo' = yieldTo /\ done' = done
  BY DEF CallBytecode
<1>2. PICK h : Entered(w, h, "BC", s)
  BY CalledFrame
<1>3. /\ h = [frames EXCEPT ![th] = Append(frames[th], frame("BC", here(s)))] /\ Woven(w, h, base, yieldTo)
      /\ endOf(w, h) = <<endOf(w, frames)[1], endOf(w, frames)[2] + 1>>
      /\ InC(w, h) = InC(w, frames) \cup {p \in {endOf(w, h)} : "BC" = "C"}
      /\ Longer(ChainOf(w, frames), ChainOf(w, h), th, top(th) + 1)
  BY <1>2 DEF Entered, HasPushed
<1>4. Grew(w, h, frames', base')
  BY <1>1, <1>3, GrownFrames
<1>5. PICK r : r = <<e[1], e[2] + 1>>
  OBVIOUS
<1>6. /\ endOf(w, frames') = r /\ InC(w, frames') = InC(w, frames) /\ Woven(w, frames', base', yieldTo')
      /\ ChainOf(w, frames') = ChainOf(w, h) /\ base' \in [Thread -> Nat]
  BY <1>1, <1>3, <1>4, <1>5 DEF Grew, Here
<1>7. r \in Nat \X Nat /\ th = w[r[1]] /\ th \in Thread /\ w[Len(w)] = th
  BY <1>5 DEF Here, Now
<1>8. \A p \in InC(w, frames) : before(p, r)
  BY <1>5, Above
<1>9. Paired(native, q, w, InC(w, frames))
  BY DEF Now, Holds, Tops
<1>10. base'[th] \in Nat
  BY <1>6, <1>7
<1>11. Tops(native', q, w, InC(w, frames), r)
  BY <1>1, <1>7, <1>8, <1>9, <1>10, RunTops
<1>12. Arrives(w, frames, w, frames', done, done')
  BY ONLY <1>1, <1>3, <1>6, <1>7 DEF Arrives, top
<1> QED
  BY <1>6, <1>11, <1>12, Stepped

LEMMA StepCallC ==
  ASSUME Regular, NEW w, NEW q, NEW e, Now(w, q), Here(w, q, e),
         NEW s \in Slots, NEW moved \in BOOLEAN, CallC(s, moved)
  PROVE  Step(w)
<1>1. /\ MayMove(th, moved) /\ Grown(th, Append(frames[th], frame("C", here(s))), moved)
      /\ native' = Append(native, cMethod(th)) /\ yieldTo' = yieldTo /\ done' = done /\ running.after = "next"
  BY DEF CallC, Runs
<1>2. PICK h : Entered(w, h, "C", s)
  BY CalledFrame
<1>3. /\ h = [frames EXCEPT ![th] = Append(frames[th], frame("C", here(s)))] /\ Woven(w, h, base, yieldTo)
      /\ endOf(w, h) = <<endOf(w, frames)[1], endOf(w, frames)[2] + 1>>
      /\ InC(w, h) = InC(w, frames) \cup {p \in {endOf(w, h)} : "C" = "C"}
      /\ Longer(ChainOf(w, frames), ChainOf(w, h), th, top(th) + 1)
  BY <1>2 DEF Entered, HasPushed
<1>4. Grew(w, h, frames', base')
  BY <1>1, <1>3, GrownFrames
<1>5. PICK r : r = <<e[1], e[2] + 1>>
  OBVIOUS
<1>6. /\ endOf(w, frames') = r /\ InC(w, frames') = InC(w, frames) \cup {r} /\ Woven(w, frames', base', yieldTo')
      /\ ChainOf(w, frames') = ChainOf(w, h)
  BY <1>1, <1>3, <1>4, <1>5 DEF Grew, Here
<1>7. /\ r \in Nat \X Nat /\ th = w[r[1]] /\ th \in Thread /\ w[Len(w)] = th /\ r[1] = e[1] /\ r[2] = e[2] + 1
      /\ e = <<r[1], r[2] - 1>> /\ r[2] > 1
  <2>1. e[1] \in Nat /\ e[2] \in Nat /\ e[2] >= 1 /\ e[1] = Len(w) /\ e = <<e[1], e[2]>>
    BY DEF Here
  <2>2. r[1] = e[1] /\ r[2] = e[2] + 1 /\ r \in Nat \X Nat
    BY <1>5, <2>1
  <2>3. r[2] - 1 = e[2] /\ r[2] > 1
    BY ONLY <2>1, <2>2
  <2> QED
    BY ONLY <2>1, <2>2, <2>3, Now(w, q) DEF Now
<1>8. \A p \in InC(w, frames) : before(p, r)
  BY <1>5, Above
<1>9. Paired(native, q, w, InC(w, frames))
  BY DEF Now, Holds, Tops
<1>10. CallsFrom(native[Len(native)], q[Len(native)], w, InC(w, frames), r)
  <2>1. running = native[Len(native)] /\ (isC(running) <=> e \in InC(w, frames))
    BY DEF Here
  <2>2. CASE isC(running)
    <3>1. Latest(InC(w, frames), e)
      BY <2>1, <2>2 DEF Latest, Here
    <3>2. q[Len(native)] = e
      BY <1>9, <2>1, <2>2, <3>1, LastC
    <3> QED
      BY <1>7, <2>1, <2>2, <3>2 DEF CallsFrom
  <2>3. CASE ~isC(running)
    <3>1. running.after # "return" /\ running.th = th
      BY <1>1 DEF th
    <3> QED
      BY ONLY <1>7, <2>1, <2>3, <3>1 DEF CallsFrom
  <2> QED
    BY <2>2, <2>3
<1>11. Tops(native', [q EXCEPT ![Len(native) + 1] = r], w, InC(w, frames) \cup {r}, r)
  BY <1>1, <1>7, <1>8, <1>9, <1>10, CallTops
<1>12. Arrives(w, frames, w, frames', done, done')
  BY ONLY <1>1, <1>3, <1>6, <1>7 DEF Arrives, top
<1> QED
  BY <1>6, <1>11, <1>12, Stepped

\* A frame that is not the first of its yielder, and not in C, is not the first of the main thread.
LEMMA Deep ==
  ASSUME NEW w, NEW q, NEW e, Now(w, q), Here(w, q, e), running.run = "BC", ~isEntry(th)
  PROVE  top(th) >= 2
<1>1. top(th) \in Nat /\ top(th) >= 1 /\ ~isCMethod(curmethod(th).method) /\ curmethod(th) = frames[th][top(th)]
  BY DEF Here, isC
<1>2. ASSUME top(th) = 1 PROVE FALSE
  <2>1. th = Main
    BY <1>2 DEF isEntry, Now, Thread
  <2>2. Stacked(w, frames)
    BY DEF Now, Holds, Woven
  <2>5. 1 \in 1 .. 1 /\ ~(1 > 1)
    OBVIOUS
  <2>3. 1 \in 1 .. Len(frames[Main]) /\ ~(1 > 1) /\ Main \in Thread
    BY <1>2, <2>1, <2>5 DEF top, Thread
  <2>4. frames[Main][1].method \in {"start"}
    BY <2>2, <2>3 DEF Stacked
  <2> QED
    BY <1>1, <1>2, <2>1, <2>4 DEF isCMethod
<1> QED
  BY <1>1, <1>2

\* The first frame of the thread that runs byte code is that of a yielder.
LEMMA First ==
  ASSUME NEW w, NEW q, NEW e, Now(w, q), Here(w, q, e), running.run = "BC", top(th) = 1
  PROVE  th \in Yielder /\ Leaves(w, frames, base, yieldTo)
<1>1. th \in Yielder
  BY Deep DEF isEntry
<1>2. Woven(w, frames, base, yieldTo) /\ w[Len(w)] = th
  BY DEF Now, Holds
<1>3. Len(w) \in Nat /\ Len(w) >= 1 /\ w[1] = Main
  BY <1>2, WovenTypes
<1>4. Len(w) # 1
  BY <1>1, <1>2, <1>3, MainIsNoYielder
<1>5. Len(w) >= 2
  <2>1. PICK n \in Nat : n = Len(w)
    BY <1>3
  <2>2. n >= 1 /\ n # 1
    BY <1>3, <1>4, <2>1
  <2>3. n >= 2
    BY ONLY <2>2
  <2> QED
    BY <2>1, <2>3
<1> QED
  BY <1>1, <1>2, <1>5 DEF Leaves, top

LEMMA StepTailCall ==
  ASSUME Regular, NEW w, NEW q, NEW e, Now(w, q), Here(w, q, e),
         NEW m \in {"BC", "C", "Y"}, NEW moved \in BOOLEAN, TailCall(m, moved)
  PROVE  Step(w)
<1> PICK t : t = th
  OBVIOUS
<1>1. /\ MayMove(th, moved)
      /\ Grown(th, Append(Front(frames[th]), frame(m, ptr(th, top(th) - 1, 0))), moved)
      /\ native' = (IF m = "C" THEN Append(waiting("goto"), cMethod(th)) ELSE RunBC(th, base'[th]))
      /\ yieldTo' = yieldTo /\ done' = done /\ running.run = "BC" /\ ~isEntry(th)
      /\ m \in {"BC", "C"} /\ curmethod(th).retTo.slot = 0
  BY DEF TailCall, Byte, Regular
<1>2. PICK x : x = frame(m, target(t, base[t], Len(frames[t]) - 1, 0))
  OBVIOUS
<1>3. PICK h : h = [frames EXCEPT ![t] = Append(Front(frames[t]), x)]
  OBVIOUS
<1>4. ptr(th, top(th) - 1, 0) = target(t, base[t], Len(frames[t]) - 1, 0)
  BY DEF ptr, target, top
<1>5. /\ Woven(w, frames, base, yieldTo) /\ w[Len(w)] = t /\ t \in Thread /\ base \in [Thread -> Nat] /\ frames \in Stacks
      /\ Distinct(w) /\ Paired(native, q, w, InC(w, frames))
  BY DEF Now, Holds, Tops
<1>6. /\ e = endOf(w, frames) /\ e \notin InC(w, frames) /\ ~isC(native[Len(native)]) /\ e \in Nat \X Nat /\ t = w[e[1]]
      /\ \A p \in InC(w, frames) : before(p, e)
  BY <1>1, <1>5 DEF Here, isC
<1>7. Len(frames[t]) >= 2 /\ frames[t][Len(frames[t])].retTo.slot = 0
  BY <1>1, Deep DEF top, Here
<1>8. Replaces(w, frames, h, base, yieldTo, t, m)
  BY <1>1, <1>2, <1>3, <1>5, <1>6, <1>7 DEF Replaces
<1>9. HasReplaced(w, frames, h, base, yieldTo, t, m)
  BY <1>8, ReplacedFrame
<1>10. /\ Woven(w, h, base, yieldTo) /\ endOf(w, h) = e
       /\ InC(w, h) = InC(w, frames) \cup {p \in {e} : m = "C"} /\ linksOf(t, h) = linksOf(t, frames)
  BY <1>6, <1>9 DEF HasReplaced
<1>11. Grew(w, h, frames', base')
  BY <1>1, <1>2, <1>3, <1>4, <1>10, GrownFrames
<1>12. ChainOf(w, h) = ChainOf(w, frames)
  <2>1. h \in Stacks
    BY <1>10, WovenTypes
  <2>2. Others(frames, h, t)
    BY <1>3, <1>5, <2>1 DEF Others, Stacks
  <2> QED
    BY <1>5, <1>10, <2>2, SameChain
<1>13. /\ endOf(w, frames') = e /\ InC(w, frames') = InC(w, frames) \cup {p \in {e} : m = "C"}
       /\ Woven(w, frames', base', yieldTo') /\ ChainOf(w, frames') = ChainOf(w, frames) /\ base' \in [Thread -> Nat]
  BY <1>1, <1>10, <1>11, <1>12 DEF Grew
<1>14. Arrives(w, frames, w, frames', done, done')
  BY <1>1, <1>13 DEF Arrives
<1>15. CASE m = "BC"
  <2>1. base'[th] \in Nat
    BY <1>5, <1>13
  <2>2. Tops(RunBC(th, base'[th]), q, w, InC(w, frames), e)
    BY <1>5, <1>6, <2>1, RunTops
  <2>3. InC(w, frames') = InC(w, frames)
    BY <1>13, <1>15
  <2> QED
    BY <1>1, <1>13, <1>14, <1>15, <2>2, <2>3, Stepped
<1>16. CASE m = "C"
  <2>1. PICK nat : nat = waiting("goto")
    OBVIOUS
  <2>2. Paired(nat, q, w, InC(w, frames)) /\ Len(nat) = Len(native) /\ nat[Len(nat)].after = "goto" /\ ~isC(nat[Len(nat)])
    <3>1. Paired(native, q, w, InC(w, frames)) /\ ~isC(native[Len(native)])
      BY ONLY <1>5, <1>6
    <3>2. /\ Paired(waiting("goto"), q, w, InC(w, frames)) /\ Len(waiting("goto")) = Len(native)
          /\ waiting("goto")[Len(native)] = [running EXCEPT !.after = "goto"]
          /\ [running EXCEPT !.after = "goto"].after = "goto" /\ ~isC([running EXCEPT !.after = "goto"])
      BY ONLY <3>1, WaitingPaired
    <3> QED
      BY ONLY <2>1, <3>2
  <2>3. CallsFrom(nat[Len(nat)], q[Len(nat)], w, InC(w, frames), e)
    BY <2>2 DEF CallsFrom
  <2>4. Tops(Append(nat, cMethod(t)), [q EXCEPT ![Len(nat) + 1] = e], w, InC(w, frames) \cup {e}, e)
    BY <1>5, <1>6, <2>2, <2>3, CallTops
  <2>5. InC(w, frames') = InC(w, frames) \cup {e}
    BY <1>13, <1>16
  <2> QED
    BY <1>1, <1>13, <1>14, <1>16, <2>1, <2>4, <2>5, Stepped
<1> QED
  BY <1>1, <1>15, <1>16

\* A new yielder is not one of those that wait.
Born(w, g) ==
  /\ Woven(w, g, base, yieldTo) /\ endOf(w, g) = endOf(w, frames) /\ InC(w, g) = InC(w, frames)
  /\ ChainOf(w, g) = ChainOf(w, frames)
LEMMA NewYielder ==
  ASSUME NEW w, NEW q, Now(w, q), NEW y \in Yielder, frames[y] = <<>>
  PROVE  Born(w, newYielder(y))
<1> PICK g : g = newYielder(y)
  OBVIOUS
<1>1. Woven(w, frames, base, yieldTo) /\ base \in [Thread -> Nat] /\ Distinct(w) /\ frames \in Stacks
  BY DEF Now, Holds
<1>2. Makes(w, frames, g, base, yieldTo, y)
  BY <1>1 DEF Makes, newYielder, ptr, target
<1>3. HasMade(w, frames, g, base, yieldTo)
  BY <1>2, MadeFrames
<1>4. Woven(w, g, base, yieldTo) /\ \A i \in 1 .. Len(w) : g[w[i]] = frames[w[i]]
  BY <1>3 DEF HasMade
<1>5. g \in Stacks /\ w \in Seq(Thread)
  BY <1>4, WovenTypes
<1>6. ChainOf(w, g) = ChainOf(w, frames)
  BY <1>1, <1>4, <1>5, ChainSame
<1> QED
  BY <1>3, <1>6 DEF Born, HasMade

LEMMA StepCallYieldMethod ==
  ASSUME NEW w, NEW q, NEW e, Now(w, q), Here(w, q, e),
         NEW y \in Yielder, NEW s \in Slots, CallYieldMethod(y, s)
  PROVE  Step(w)
<1>1. frames' = newYielder(y) /\ base' = base /\ yieldTo' = yieldTo /\ done' = done /\ native' = native /\ frames[y] = <<>>
  BY DEF CallYieldMethod
<1>2. Born(w, frames')
  BY <1>1, NewYielder
<1>3. /\ Woven(w, frames', base', yieldTo') /\ endOf(w, frames') = endOf(w, frames) /\ InC(w, frames') = InC(w, frames)
      /\ ChainOf(w, frames') = ChainOf(w, frames)
  BY <1>1, <1>2 DEF Born
<1>4. Tops(native', q, w, InC(w, frames'), endOf(w, frames'))
  BY <1>1, <1>3 DEF Now, Holds
<1>5. Arrives(w, frames, w, frames', done, done')
  BY <1>1, <1>3 DEF Arrives
<1> QED
  BY <1>3, <1>4, <1>5, Stepped

LEMMA StepMakeThenReturn ==
  ASSUME Regular, NEW w, NEW q, NEW e, Now(w, q), Here(w, q, e), NEW y \in Yielder, MakeThenReturn(y)
  PROVE  Step(w)
<1>1. /\ frames' = newYielder(y) /\ base' = base /\ yieldTo' = yieldTo /\ done' = done /\ native' = waiting("return")
      /\ frames[y] = <<>> /\ running.run = "BC" /\ (th \in Yielder => top(th) = 1)
  BY MainIsNoYielder DEF MakeThenReturn, Byte, isEntry, Regular
<1>2. Born(w, frames')
  BY <1>1, NewYielder
<1>3. /\ Woven(w, frames', base', yieldTo') /\ endOf(w, frames') = e /\ InC(w, frames') = InC(w, frames)
      /\ ChainOf(w, frames') = ChainOf(w, frames)
  BY <1>1, <1>2 DEF Born, Here
<1>4. /\ Paired(native, q, w, InC(w, frames)) /\ ~isC(native[Len(native)]) /\ e \notin InC(w, frames) /\ e \in Nat \X Nat
      /\ th = w[e[1]] /\ e[2] = top(th) /\ \A p \in InC(w, frames) : p = e \/ before(p, e)
  BY <1>1 DEF Now, Holds, Tops, Here, isC
<1>5. PICK nat : nat = waiting("return")
  OBVIOUS
<1>6. /\ Paired(nat, q, w, InC(w, frames)) /\ Len(nat) = Len(native) /\ nat[Len(nat)].after = "return"
      /\ ~isC(nat[Len(nat)]) /\ nat[Len(nat)].th = th
  <2>1. Paired(native, q, w, InC(w, frames)) /\ ~isC(native[Len(native)])
    BY ONLY <1>4
  <2>2. /\ Paired(waiting("return"), q, w, InC(w, frames)) /\ Len(waiting("return")) = Len(native)
        /\ waiting("return")[Len(native)] = [running EXCEPT !.after = "return"]
        /\ [running EXCEPT !.after = "return"].th = th /\ [running EXCEPT !.after = "return"].after = "return"
        /\ ~isC([running EXCEPT !.after = "return"])
    BY ONLY <2>1, WaitingPaired
  <2> QED
    BY ONLY <1>5, <2>2
<1>7. AtTop(nat[Len(nat)], w, InC(w, frames), e)
  BY <1>1, <1>4, <1>6 DEF AtTop
<1>8. Tops(native', q, w, InC(w, frames'), endOf(w, frames'))
  BY <1>1, <1>3, <1>4, <1>5, <1>6, <1>7 DEF Tops
<1>9. Arrives(w, frames, w, frames', done, done')
  BY <1>1, <1>3 DEF Arrives
<1> QED
  BY <1>3, <1>8, <1>9, Stepped

LEMMA StepReset ==
  ASSUME Regular, NEW w, NEW q, NEW e, Now(w, q), Here(w, q, e), NEW y \in Yielder, Reset(y)
  PROVE  Step(w)
<1>1. /\ frames' = [frames EXCEPT ![y] = <<Head(frames[y])>>] /\ yieldTo' = [yieldTo EXCEPT ![y] = None]
      /\ done' = done \ {y} /\ base' = base /\ native' = native /\ frames[y] # <<>> /\ ~IsWaiting(y)
  BY DEF Reset, Regular
<1>2. Asleep(w, y)
  BY <1>1, Waits
<1>3. Woven(w, frames, base, yieldTo) /\ yieldTo \in [Thread -> Thread \cup {None}]
  BY DEF Now, Holds
<1>4. [frames EXCEPT ![y] = <<Head(frames[y])>>] = frames /\ Woven(w, frames, base, [yieldTo EXCEPT ![y] = None])
  BY <1>1, <1>2, <1>3, ResetFrames
<1>5. frames' = frames /\ Woven(w, frames', base', yieldTo')
  BY <1>1, <1>4
<1>6. Tops(native', q, w, InC(w, frames'), endOf(w, frames'))
  BY <1>1, <1>5 DEF Now, Holds
<1>7. Arrives(w, frames, w, frames', done, done')
  BY <1>1, <1>2, <1>5 DEF Arrives
<1> QED
  BY <1>5, <1>6, <1>7, Stepped

LEMMA StepCallYielder ==
  ASSUME Regular, NEW w, NEW q, NEW e, Now(w, q), Here(w, q, e),
         NEW y \in Yielder, NEW s \in Slots, NEW tail \in BOOLEAN, CallYielder(y, s, tail)
  PROVE  Step(w)
<1> PICK n \in Nat : n = Len(w)
  BY LenProperties DEF Now, Distinct
<1> PICK t : t = th
  OBVIOUS
<1> PICK v : v = Append(w, y)
  OBVIOUS
<1> PICK g : g = frames'
  OBVIOUS
<1>1. /\ g = [frames EXCEPT ![y][Len(frames[y])].retTo = here(s)] /\ yieldTo' = [yieldTo EXCEPT ![y] = t]
      /\ native' = RunBC(y, base[y]) /\ base' = base /\ done' = done /\ frames[y] # <<>> /\ y \notin done /\ ~IsWaiting(y)
  BY DEF CallYielder, Regular, top
<1>2. Asleep(w, y)
  BY <1>1, Waits
<1>3. /\ Woven(w, frames, base, yieldTo) /\ yieldTo \in [Thread -> Thread \cup {None}] /\ base \in [Thread -> Nat]
      /\ w[Len(w)] = t /\ frames \in Stacks /\ w \in Seq(Thread) /\ y \in Thread
      /\ Paired(native, q, w, InC(w, frames))
  BY DEF Now, Holds, Tops, Distinct, Thread
<1>4. here(s) = target(w[Len(w)], base[w[Len(w)]], Len(frames[w[Len(w)]]), s)
  BY <1>3 DEF here, ptr, target, top
<1>5. Len(frames[y]) >= 1
  <2>1. frames[y] \in Seq(Frame)
    BY <1>3, StackTypes
  <2> QED
    BY <1>1, <2>1, EmptySeq, LenProperties
<1>6. Resumes(w, frames, g, base, yieldTo, y, s)
  BY <1>1, <1>2, <1>3, <1>4, <1>5 DEF Resumes
<1>7. HasResumed(w, frames, g, base, yieldTo, y, s)
  BY <1>6, ResumedFrames
<1>8. PICK r : r = <<n + 1, 1>>
  OBVIOUS
<1>9. /\ Woven(v, g, base', yieldTo') /\ endOf(v, g) = r /\ InC(v, g) = InC(w, frames)
      /\ linksOf(y, g) = <<[th |-> y, depth |-> 1, slot |-> s]>> /\ \A u \in Thread : u # y => g[u] = frames[u]
  BY ONLY <1>1, <1>3, <1>7, <1>8, v = Append(w, y), n = Len(w) DEF HasResumed
<1>10. v[n + 1] = y /\ \A i \in 1 .. n : v[i] = w[i]
  BY <1>3, AppendProperties
<1>11. r \in Nat \X Nat /\ r[1] = n + 1 /\ y = v[r[1]]
  BY <1>8, <1>10
<1>12. ASSUME NEW p \in InC(w, frames) PROVE v[p[1]] = w[p[1]] /\ before(p, r)
  <2>1. p[1] \in 1 .. n
    BY DEF InC
  <2> QED
    BY <1>10, <1>11, <2>1 DEF before
<1>13. base[y] \in Nat
  BY <1>3
<1>14. Tops(RunBC(y, base[y]), q, v, InC(w, frames), r)
  BY <1>3, <1>11, <1>12, <1>13, RunTops
<1>15. Longer(ChainOf(w, frames), ChainOf(v, g), y, 1)
  <2>1. g \in Stacks
    BY <1>9, WovenTypes
  <2>2. Len(g[y]) = 1
    <3>1. Len(linksOf(y, g)) = Len(g[y])
      BY <1>3, <2>1, LinksTyped
    <3> QED
      BY <1>9, <3>1
  <2>3. \A i \in 1 .. Len(w) : frames[w[i]] = g[w[i]]
    BY <1>2, <1>3, <1>9, ElementOfSeq DEF Asleep
  <2>4. Wider(v, w, frames, g, y)
    BY <1>3, <2>1, <2>2, <2>3 DEF Wider
  <2> QED
    BY <2>4, WiderChain
<1>16. Arrives(w, frames, v, g, done, done')
  BY <1>1, <1>2, <1>15 DEF Arrives
<1> QED
  BY <1>1, <1>9, <1>14, <1>16, Stepped

LEMMA StepCallThenReturn ==
  ASSUME Regular, NEW w, NEW q, NEW e, Now(w, q), Here(w, q, e), NEW m \in {"BC", "C"}, CallThenReturn(m)
  PROVE  Step(w)
<1>1. /\ frames' = [frames EXCEPT ![th] = Append(frames[th], frame("C", here(0)))] /\ running.run = "BC"
      /\ native' = Append(waiting("return"), cMethod(th)) /\ base' = base /\ yieldTo' = yieldTo /\ done' = done
      /\ th \in Yielder /\ top(th) = 1
  BY DEF CallThenReturn, Byte, isEntry, Regular
<1>2. PICK h : Entered(w, h, "C", 0)
  BY CalledFrame DEF Slots
<1>5. PICK r : r = <<e[1], e[2] + 1>>
  OBVIOUS
<1>6. /\ Woven(w, frames', base', yieldTo') /\ endOf(w, frames') = r /\ InC(w, frames') = InC(w, frames) \cup {r}
      /\ Longer(ChainOf(w, frames), ChainOf(w, frames'), th, top(th) + 1)
  BY <1>1, <1>2, <1>5 DEF Entered, HasPushed, Here
<1>7. /\ r[1] = e[1] /\ r[2] = 2 /\ r \in Nat \X Nat /\ th = w[r[1]] /\ th \in Thread /\ w[Len(w)] = th
      /\ e = <<r[1], r[2] - 1>> /\ r[2] > 1
  BY <1>1, <1>5 DEF Here, Now
<1>8. \A p \in InC(w, frames) : before(p, r)
  BY <1>5, Above
<1>9. Paired(native, q, w, InC(w, frames)) /\ ~isC(native[Len(native)]) /\ e \notin InC(w, frames)
  BY <1>1 DEF Now, Holds, Tops, Here, isC
<1>10. PICK nat : nat = waiting("return")
  OBVIOUS
<1>11. /\ Paired(nat, q, w, InC(w, frames)) /\ Len(nat) = Len(native) /\ nat[Len(nat)].after = "return"
       /\ ~isC(nat[Len(nat)]) /\ nat[Len(nat)].th = th
  BY <1>9, <1>10, WaitingPaired
<1>12. CallsFrom(nat[Len(nat)], q[Len(nat)], w, InC(w, frames), r)
  BY <1>1, <1>7, <1>9, <1>11 DEF CallsFrom
<1>13. Tops(Append(nat, cMethod(th)), [q EXCEPT ![Len(nat) + 1] = r], w, InC(w, frames) \cup {r}, r)
  BY <1>7, <1>8, <1>11, <1>12, CallTops
<1>14. Arrives(w, frames, w, frames', done, done')
  BY ONLY <1>1, <1>6, <1>7 DEF Arrives, top
<1> QED
  BY <1>1, <1>6, <1>10, <1>13, <1>14, Stepped

\* Back to the thread that resumed this one.
Switched(w, q) ==
  /\ Holds(Front(w), q, frames, base, yieldTo, native')
  /\ Longer(ChainOf(Front(w), frames), ChainOf(w, frames), th, top(th))
LEMMA SwitchesBack ==
  ASSUME NEW w, NEW q, NEW e, Now(w, q), Here(w, q, e), running.run = "BC", top(th) = 1, SwitchBack
  PROVE  Switched(w, q)
<1> PICK n \in Nat : n = Len(w)
  BY LenProperties DEF Now, Distinct
<1> PICK t : t = th
  OBVIOUS
<1> PICK v : v = Front(w)
  OBVIOUS
<1> PICK u : u = yieldTo[t]
  OBVIOUS
<1>1. native' = Continue(native, u, curmethod(u).method, base[u])
  BY DEF SwitchBack
<1>2. Leaves(w, frames, base, yieldTo)
  BY First
<1>3. HasLeft(w, frames, base, yieldTo)
  BY <1>2, LeftFrames
<1>4. /\ w[n] = t /\ t \in Thread /\ frames \in Stacks /\ base \in [Thread -> Nat] /\ n >= 2 /\ Len(frames[t]) = 1
  BY <1>2 DEF Now, Leaves
<1>5. /\ Woven(v, frames, base, yieldTo) /\ endOf(v, frames) = <<n - 1, Len(frames[w[n - 1]])>>
      /\ InC(v, frames) = InC(w, frames) /\ w = Append(v, t) /\ Len(v) = n - 1 /\ v[n - 1] = w[n - 1] /\ u = w[n - 1]
  BY ONLY <1>3, <1>4, n = Len(w), v = Front(w), u = yieldTo[t] DEF HasLeft
<1>6. v \in Seq(Thread) /\ v[Len(v)] = u /\ u \in Thread
  <2>1. n - 1 \in 1 .. n - 1
    BY <1>4
  <2>2. v \in Seq(Thread) /\ \A i \in 1 .. n - 1 : v[i] \in Thread
    BY <1>5, WovenTypes
  <2>3. v[n - 1] \in Thread
    BY <2>1, <2>2
  <2> QED
    BY ONLY <1>5, <2>2, <2>3
<1>7. PICK r : r = endOf(v, frames)
  OBVIOUS
<1>8. /\ r \in Nat \X Nat /\ r[1] = n - 1
      /\ (\A p \in InC(w, frames) : p = r \/ before(p, r))
      /\ (r \in InC(w, frames) <=> isCMethod(curmethod(u).method))
  BY <1>5, <1>6, <1>7, Positions DEF curmethod, Last
<1>9. ASSUME NEW p \in InC(w, frames) PROVE v[p[1]] = w[p[1]]
  <2>1. p \in InC(v, frames)
    BY <1>5
  <2>2. p[1] \in 1 .. Len(v)
    BY <2>1 DEF InC
  <2> QED
    BY <1>4, <1>5, <1>6, <2>2, AppendProperties
<1>10. Paired(native, q, w, InC(w, frames)) /\ ~isC(native[Len(native)])
  BY DEF Now, Holds, Tops, Here, isC
<1>11. u = v[r[1]] /\ base[u] \in Nat
  BY <1>4, <1>5, <1>6, <1>8
<1>12. Tops(native', q, v, InC(v, frames), r)
  <2>1. PICK meth, x, cs : meth = curmethod(u).method /\ x = base[u] /\ cs = InC(w, frames)
    OBVIOUS
  <2>2. x \in Nat /\ u \in Thread /\ (\A p \in cs : v[p[1]] = w[p[1]]) /\ r \in Nat \X Nat /\ u = v[r[1]]
    BY <1>6, <1>8, <1>9, <1>11, <2>1
  <2>3. /\ Paired(native, q, w, cs) /\ ~isC(native[Len(native)])
        /\ (\A p \in cs : p = r \/ before(p, r)) /\ (r \in cs <=> isCMethod(meth))
    BY ONLY <1>8, <1>10, <2>1
  <2>4. Tops(Continue(native, u, meth, x), q, v, cs, r)
    BY ONLY <2>2, <2>3, ContinueTops, SMTT(30)
  <2> QED
    BY ONLY <1>1, <1>5, <2>1, <2>4
<1>13. Wider(w, v, frames, frames, t)
  BY <1>4, <1>5, <1>6 DEF Wider
<1>14. Longer(ChainOf(v, frames), ChainOf(w, frames), t, 1)
  BY <1>13, WiderChain
<1> QED
  BY <1>5, <1>7, <1>12, <1>14 DEF Switched, Holds

\* The last frame ends, and its results go to the one below in the same thread.
Ended(w, g) ==
  /\ Woven(w, g, base, yieldTo) /\ endOf(w, g) = <<endOf(w, frames)[1], endOf(w, frames)[2] - 1>>
  /\ InC(w, g) = InC(w, frames) \ {endOf(w, frames)}
  /\ g[th][Len(g[th])].method = frames[th][top(th) - 1].method
  /\ Longer(ChainOf(w, g), ChainOf(w, frames), th, top(th))
LEMMA EndedFrame ==
  ASSUME NEW w, NEW q, NEW e, Now(w, q), Here(w, q, e), top(th) >= 2,
         NEW g, g = [frames EXCEPT ![th] = Front(frames[th])]
  PROVE  Ended(w, g)
<1> PICK t : t = th
  OBVIOUS
<1> PICK n \in Nat : n = Len(frames[t])
  BY DEF Here, top
<1>1. Woven(w, frames, base, yieldTo) /\ w[Len(w)] = t /\ t \in Thread /\ frames \in Stacks /\ Distinct(w) /\ n >= 2
  BY DEF Now, Holds, top
<1>2. Pops(w, frames, g, base, yieldTo, t)
  BY <1>1 DEF Pops
<1>3. HasPopped(w, frames, g, base, yieldTo, t)
  BY <1>2, PoppedFrame
<1>4. /\ Woven(w, g, base, yieldTo) /\ endOf(w, g) = <<endOf(w, frames)[1], endOf(w, frames)[2] - 1>>
      /\ InC(w, g) = InC(w, frames) \ {endOf(w, frames)} /\ frames[t] = Append(g[t], frames[t][n])
  BY <1>3 DEF HasPopped
<1>5. g \in Stacks
  BY <1>4, WovenTypes
<1>6. PICK x : x = frames[t][n]
  OBVIOUS
<1>7. x \in Frame
  <2>1. n \in 1 .. n
    BY <1>1
  <2> QED
    BY <1>1, <1>6, <2>1, StackTypes
<1> PICK k \in Nat : k = Len(g[t])
  BY <1>1, <1>5, StackTypes
<1>8. n = k + 1 /\ \A i \in 1 .. k : frames[t][i] = g[t][i]
  BY <1>1, <1>4, <1>5, <1>6, <1>7, AppendProperties DEF Stacks
<1>9. k \in 1 .. k /\ n - 1 = k
  BY ONLY <1>1, <1>8, n \in Nat, k \in Nat
<1>10. g[t][k] = frames[t][n - 1]
  BY <1>8, <1>9
<1>11. Others(g, frames, t)
  BY <1>1, <1>5 DEF Others, Stacks
<1>12. Deeper(w, g, frames, t, x)
  BY <1>1, <1>4, <1>6, <1>7, <1>11 DEF Deeper
<1>13. Longer(ChainOf(w, g), ChainOf(w, frames), t, Len(g[t]) + 1)
  BY <1>12, DeeperChain
<1>14. Longer(ChainOf(w, g), ChainOf(w, frames), t, n)
  BY <1>8, <1>13
<1> QED
  BY <1>4, <1>10, <1>14 DEF Ended, top

\* A loop has ended the last frame.
LEMMA LeavesFrame ==
  ASSUME NEW w, NEW q, NEW e, Now(w, q), Here(w, q, e), running.run = "BC", top(th) >= 2, ~isEntry(th),
         Leave(FALSE), UNCHANGED <<base, yieldTo>>
  PROVE  Step(w)
<1>1. /\ frames' = [frames EXCEPT ![th] = Front(frames[th])] /\ done' = done /\ base' = base /\ yieldTo' = yieldTo
      /\ native' = Continue(native, th, frames[th][top(th) - 1].method, base[th])
  BY DEF Leave
<1>2. PICK g : g = frames'
  OBVIOUS
<1>3. Ended(w, g)
  BY <1>1, <1>2, EndedFrame
<1>4. PICK r : r = endOf(w, g)
  OBVIOUS
<1>5. e = endOf(w, frames) /\ e \notin InC(w, frames)
  BY DEF Here, isC
<1>6. /\ Woven(w, g, base, yieldTo) /\ InC(w, g) = InC(w, frames) /\ r = <<e[1], e[2] - 1>>
      /\ g[th][Len(g[th])].method = frames[th][top(th) - 1].method
      /\ Longer(ChainOf(w, g), ChainOf(w, frames), th, top(th))
  BY <1>3, <1>4, <1>5 DEF Ended
<1>7. /\ Paired(native, q, w, InC(w, frames)) /\ ~isC(native[Len(native)]) /\ w[Len(w)] = th /\ th \in Thread
      /\ base[th] \in Nat
  BY DEF Now, Holds, Tops, Here, isC
<1>8. /\ r \in Nat \X Nat /\ r[1] = Len(w) /\ \A p \in InC(w, frames) : p = r \/ before(p, r)
      /\ r \in InC(w, frames) <=> isCMethod(frames[th][top(th) - 1].method)
  <2>3. Woven(w, g, base, yieldTo)
    BY <1>6
  <2>4. endOf(w, g)[1] = Len(w) /\ endOf(w, g) \in Nat \X Nat
    BY ONLY <2>3, Positions
  <2>5. \A p \in InC(w, g) : p = endOf(w, g) \/ before(p, endOf(w, g))
    BY ONLY <2>3, Positions
  <2>1. r \in Nat \X Nat /\ r[1] = Len(w) /\ \A p \in InC(w, g) : p = r \/ before(p, r)
    BY ONLY <1>4, <2>4, <2>5
  <2>2. r \in InC(w, g) <=> isCMethod(g[th][Len(g[th])].method)
    BY <1>4, <1>6, <1>7, Positions
  <2> QED
    BY ONLY <1>6, <2>1, <2>2
<1>9. Tops(native', q, w, InC(w, frames), r)
  BY <1>1, <1>7, <1>8, ContinueTops
<1>10. Arrives(w, frames, w, g, done, done')
  BY ONLY <1>1, <1>6, <1>7 DEF Arrives, top
<1> QED
  BY <1>1, <1>2, <1>4, <1>6, <1>9, <1>10, Stepped

\* A yielder gives its results back, and has ended or not.
LEMMA GivesUp ==
  ASSUME NEW w, NEW q, NEW e, Now(w, q), Here(w, q, e), running.run = "BC", top(th) = 1, SwitchBack,
         UNCHANGED <<frames, base, yieldTo>>, done' = done \/ done' = done \cup {th}
  PROVE  Step(w)
<1>1. frames' = frames /\ base' = base /\ yieldTo' = yieldTo
  OBVIOUS
<1>2. Switched(w, q)
  BY SwitchesBack
<1>3. PICK v : v = Front(w)
  OBVIOUS
<1>4. PICK r : r = endOf(v, frames)
  OBVIOUS
<1>5. /\ Woven(v, frames', base', yieldTo') /\ Tops(native', q, v, InC(v, frames'), r) /\ r = endOf(v, frames')
      /\ Longer(ChainOf(v, frames'), ChainOf(w, frames), th, top(th))
  BY <1>1, <1>2, <1>3, <1>4 DEF Switched, Holds
<1>6. w[Len(w)] = th
  BY DEF Now
<1>7. Arrives(w, frames, v, frames', done, done')
  BY <1>5, <1>6 DEF Arrives, top
<1> QED
  BY <1>5, <1>7, Stepped

LEMMA StepOpReturn ==
  ASSUME NEW w, NEW q, NEW e, Now(w, q), Here(w, q, e), OpReturn
  PROVE  Step(w)
<1>1. running.run = "BC" /\ Leave(isEntry(th)) /\ UNCHANGED <<base, yieldTo>>
  BY DEF OpReturn, Byte
<1>2. CASE isEntry(th)
  <2>1. top(th) = 1 /\ SwitchBack /\ done' = done \cup {th} /\ frames' = frames
    BY <1>1, <1>2 DEF Leave, isEntry
  <2> QED
    BY <1>1, <2>1, GivesUp
<1>3. CASE ~isEntry(th)
  <2>1. top(th) >= 2
    BY <1>1, <1>3, Deep
  <2>2. Leave(FALSE)
    BY <1>1, <1>3 DEF Leave
  <2> QED
    BY <1>1, <1>3, <2>1, <2>2, LeavesFrame
<1> QED
  BY <1>2, <1>3

LEMMA StepThenReturn ==
  ASSUME NativeInv, NEW w, NEW q, NEW e, Now(w, q), Here(w, q, e), ThenReturn
  PROVE  Step(w)
<1>1. running.after = "return" /\ Leave(th \in Yielder) /\ UNCHANGED <<base, yieldTo>>
  BY DEF ThenReturn
<1>2. running.run = "BC"
  BY <1>1, GoodTop DEF ActivationOK
<1>3. CASE th \in Yielder
  <2>1. top(th) = 1 /\ SwitchBack /\ done' = done \cup {th} /\ frames' = frames
    BY <1>1, <1>3 DEF Leave, Here
  <2> QED
    BY <1>1, <1>2, <2>1, GivesUp
<1>4. CASE th \notin Yielder
  <2>1. ~isEntry(th)
    BY <1>4 DEF isEntry
  <2>2. top(th) >= 2
    BY <1>2, <2>1, Deep
  <2>3. Leave(FALSE)
    BY <1>1, <1>4 DEF Leave
  <2> QED
    BY <1>1, <1>2, <2>1, <2>2, <2>3, LeavesFrame
<1> QED
  BY <1>3, <1>4

LEMMA StepOpYield ==
  ASSUME NEW w, NEW q, NEW e, Now(w, q), Here(w, q, e), OpYield
  PROVE  Step(w)
<1>1. running.run = "BC" /\ curmethod(th).method = "Y" /\ SwitchBack /\ UNCHANGED <<frames, base, yieldTo, done>>
  BY DEF OpYield, Byte
<1>2. top(th) = 1
  <2>1. Stacked(w, frames) /\ th \in Thread
    BY DEF Now, Holds, Woven
  <2>2. PICK n \in Nat : n = Len(frames[th])
    BY DEF Here, top
  <2>3. n >= 1 /\ frames[th][n].method = "Y"
    BY <1>1, <2>2 DEF Here, top
  <2>4. n \in 1 .. n
    BY <2>3
  <2>5. n > 1 => frames[th][n].method \in {"BC", "C"}
    BY <2>1, <2>2, <2>4 DEF Stacked
  <2>6. ~(n > 1)
    BY <2>3, <2>5
  <2>7. n = 1
    BY ONLY <2>3, <2>6, n \in Nat
  <2> QED
    BY <2>2, <2>7 DEF top
<1> QED
  BY <1>1, <1>2, GivesUp

LEMMA StepNeedMoreLocal ==
  ASSUME Regular, NEW w, NEW q, NEW e, Now(w, q), Here(w, q, e), NeedMoreLocal
  PROVE  Step(w)
<1>1. MayMove(th, TRUE) /\ Grown(th, frames[th], TRUE) /\ yieldTo' = yieldTo /\ done' = done /\ native' = native
  BY DEF NeedMoreLocal
<1>2. frames = [frames EXCEPT ![th] = frames[th]] /\ Woven(w, frames, base, yieldTo)
  BY DEF Now, Holds, Stacks
<1>3. Grew(w, frames, frames', base')
  BY <1>1, <1>2, GrownFrames
<1>4. /\ endOf(w, frames') = e /\ InC(w, frames') = InC(w, frames) /\ Woven(w, frames', base', yieldTo')
      /\ ChainOf(w, frames') = ChainOf(w, frames)
  BY <1>1, <1>3 DEF Grew, Here
<1>5. Tops(native', q, w, InC(w, frames'), e)
  BY <1>1, <1>4 DEF Now, Holds, Here
<1>6. Arrives(w, frames, w, frames', done, done')
  BY <1>1, <1>4 DEF Arrives
<1> QED
  BY <1>4, <1>5, <1>6, Stepped

LEMMA StepNone ==
  ASSUME NEW w, NEW q, Now(w, q), UNCHANGED vars
  PROVE  Step(w)
<1>1. frames' = frames /\ base' = base /\ yieldTo' = yieldTo /\ native' = native /\ done' = done
  BY DEF vars
<1>2. Woven(w, frames', base', yieldTo') /\ Tops(native', q, w, InC(w, frames'), endOf(w, frames'))
  BY <1>1 DEF Now, Holds
<1>3. Arrives(w, frames, w, frames', done, done')
  BY <1>1 DEF Arrives
<1> QED
  BY <1>2, <1>3, Stepped

\* The first activation is the host's, of the first frame.
LEMMA CDeep ==
  ASSUME NativeInv, NEW w, NEW q, NEW e, Now(w, q), Here(w, q, e), running.run = "C", Len(native) > 1
  PROVE  top(th) >= 2 /\ q[Len(native)] = e /\ e \in InC(w, frames)
<1> PICK n \in Nat : n = Len(native)
  BY LenProperties DEF NativeInv
<1>1. /\ Paired(native, q, w, InC(w, frames)) /\ isC(native[n]) /\ e \in InC(w, frames) /\ isC(native[1]) /\ n > 1
      /\ e = <<Len(w), top(th)>> /\ e[1] = Len(w) /\ e[2] = top(th) /\ e \in Nat \X Nat /\ w[Len(w)] = th
  BY DEF Now, Holds, Tops, Here, isC, NativeInv
<1>2. Latest(InC(w, frames), e)
  BY <1>1 DEF Latest, Here
<1>3. q[n] = e
  BY <1>1, <1>2, LastC
<1>4. 1 \in 1 .. n /\ n \in 1 .. n /\ 1 < n
  BY <1>1
<1>5. before(q[1], e) /\ q[1] \in InC(w, frames)
  BY <1>1, <1>3, <1>4 DEF Paired, Matched
<1>6. PICK p : p = q[1]
  OBVIOUS
<1>7. p \in Nat \X Nat /\ p[1] \in 1 .. Len(w) /\ p[2] \in 1 .. Len(frames[w[p[1]]]) /\ isCMethod(frames[w[p[1]]][p[2]].method)
  BY <1>5, <1>6 DEF InC
<1>8. ASSUME top(th) = 1 PROVE FALSE
  <2>1. Woven(w, frames, base, yieldTo) /\ Stacked(w, frames) /\ th \in Thread
    BY DEF Now, Holds, Woven
  <2>2. 1 \in 1 .. Len(frames[th]) /\ ~(1 > 1)
    <3>1. 1 \in 1 .. 1 /\ ~(1 > 1)
      OBVIOUS
    <3> QED
      BY <1>8, <3>1 DEF top
  <2>3. isCMethod(frames[th][1].method)
    BY <1>1, <1>8 DEF Here
  <2>4. frames[th][1].method \in (IF th = Main THEN {"start"} ELSE {"Y"})
    BY <2>1, <2>2 DEF Stacked
  <2>5. th = Main
    BY <2>3, <2>4 DEF isCMethod
  <2>6. Len(w) \in Nat /\ Len(w) >= 1 /\ w[1] = Main /\ \A i, j \in 1 .. Len(w) : w[i] = w[j] => i = j
    BY <2>1, WovenTypes
  <2>7. Len(w) \in 1 .. Len(w) /\ 1 \in 1 .. Len(w)
    BY <2>6
  <2>8. Len(w) = 1
    BY <1>1, <2>5, <2>6, <2>7
  <2>9. p[1] < 1 \/ (p[1] = 1 /\ p[2] < 1)
    BY <1>1, <1>5, <1>6, <1>8, <2>8 DEF before
  <2>10. p[1] >= 1 /\ p[2] >= 1
    <3>1. p[1] \in Nat /\ p[2] \in Nat
      BY <1>7
    <3> QED
      BY <1>7
  <2> QED
    BY ONLY <1>7, <2>9, <2>10
<1>9. top(th) >= 2
  <2>1. top(th) \in Nat /\ top(th) >= 1
    BY DEF Here
  <2>2. top(th) # 1
    BY <1>8
  <2> QED
    BY ONLY <2>1, <2>2
<1> QED
  BY <1>1, <1>3, <1>9

\* What called a method in C goes on in the frame below, at position r.
LEMMA UnderTops ==
  ASSUME NEW nat, NEW q, NEW w, NEW cs, NEW ds, Paired(nat, q, w, ds), NEW r \in Nat \X Nat, ds \subseteq cs,
         NEW e \in Nat \X Nat, r = <<e[1], e[2] - 1>>, w[r[1]] \in Thread, \A p \in ds : p = r \/ before(p, r),
         nat[Len(nat)].after # "goto", CallsFrom(nat[Len(nat)], q[Len(nat)], w, cs, e)
  PROVE  Tops(nat, q, w, ds, r)
<1> PICK n \in Nat : n = Len(nat)
  BY LenProperties DEF Paired
<1> PICK a : a = nat[n]
  OBVIOUS
<1>1. n >= 1 /\ n \in 1 .. n /\ a \in Activation
  <2>1. n >= 1 /\ nat \in Seq(Activation)
    BY DEF Paired
  <2>2. n \in 1 .. n
    BY <2>1
  <2> QED
    BY <2>1, <2>2, ElementOfSeq
<1>2. r[1] = e[1] /\ r[2] = e[2] - 1
  OBVIOUS
<1>3. CASE isC(a)
  <2>1. q[n] = r
    BY <1>3 DEF CallsFrom
  <2>2. r \in ds /\ w[r[1]] = a.th
    BY <1>1, <1>3, <2>1 DEF Paired, Matched
  <2>3. a.after = "next"
    BY <1>1, <1>3 DEF Paired, OnlyLoopsEnd
  <2>4. AtTop(a, w, ds, r)
    BY <1>3, <2>2, <2>3 DEF AtTop
  <2> QED
    BY <2>4 DEF Tops
<1>4. CASE ~isC(a)
  <2>1. r \notin cs /\ a.th = w[e[1]] /\ (a.after = "return" => e[2] = 2)
    BY <1>4 DEF CallsFrom
  <2>2. r \notin ds /\ a.th = w[r[1]] /\ (a.after = "return" => r[2] = 1)
    BY <1>2, <2>1
  <2>3. AtTop(a, w, ds, r)
    BY <1>4, <2>2 DEF AtTop
  <2> QED
    BY <2>3 DEF Tops
<1> QED
  BY <1>3, <1>4

LEMMA StepCReturn ==
  ASSUME NativeInv, NEW w, NEW q, NEW e, Now(w, q), Here(w, q, e), CReturn
  PROVE  Step(w)
<1> PICK n \in Nat : n = Len(native)
  BY LenProperties DEF NativeInv
<1> PICK under : under = Front(native)
  OBVIOUS
<1> PICK cs : cs = InC(w, frames)
  OBVIOUS
<1>1. /\ running.run = "C" /\ n > 1 /\ frames' = [frames EXCEPT ![th] = Front(frames[th])]
      /\ native' = (IF Last(under).after = "goto"
                    THEN Continue(under, th, frames[th][top(th) - 1].method, base[th]) ELSE under)
      /\ base' = base /\ yieldTo' = yieldTo /\ done' = done
  BY DEF CReturn
<1>2. top(th) >= 2 /\ q[n] = e /\ e \in cs
  BY <1>1, CDeep
<1>3. PICK g : g = frames'
  OBVIOUS
<1>4. Ended(w, g)
  BY <1>1, <1>2, <1>3, EndedFrame
<1>5. PICK r : r = endOf(w, g)
  OBVIOUS
<1>6. PICK ds : ds = cs \ {e}
  OBVIOUS
<1>7. e = endOf(w, frames) /\ e \in Nat \X Nat
  BY DEF Here
<1>8. /\ Woven(w, g, base, yieldTo) /\ InC(w, g) = ds /\ r = <<e[1], e[2] - 1>>
      /\ g[th][Len(g[th])].method = frames[th][top(th) - 1].method
      /\ Longer(ChainOf(w, g), ChainOf(w, frames), th, top(th))
  BY <1>4, <1>5, <1>6, <1>7 DEF Ended
<1>9. /\ Paired(native, q, w, cs) /\ isC(native[n]) /\ w[Len(w)] = th /\ th \in Thread /\ base[th] \in Nat
  BY <1>1 DEF Now, Holds, Tops, Here, isC
<1>10. /\ r \in Nat \X Nat /\ r[1] = Len(w) /\ \A p \in ds : p = r \/ before(p, r)
       /\ r \in ds <=> isCMethod(frames[th][top(th) - 1].method)
  <2>3. Woven(w, g, base, yieldTo)
    BY <1>8
  <2>4. endOf(w, g)[1] = Len(w) /\ endOf(w, g) \in Nat \X Nat
    BY ONLY <2>3, Positions
  <2>5. \A p \in InC(w, g) : p = endOf(w, g) \/ before(p, endOf(w, g))
    BY ONLY <2>3, Positions
  <2>6. endOf(w, g) \in InC(w, g) <=> isCMethod(g[w[Len(w)]][Len(g[w[Len(w)]])].method)
    BY ONLY <2>3, Positions
  <2> QED
    BY ONLY <1>5, <1>8, <1>9, <2>4, <2>5, <2>6
<1>11. Paired(under, q, w, ds) /\ Called(native, q, w, cs, n - 1)
  BY <1>1, <1>2, <1>6, <1>9, PopCall
<1>12. PoppedOff(native, under)
  BY <1>1, <1>9, PoppedNative
<1>13. PICK k \in Nat : n = k + 1
  BY ONLY <1>1, n \in Nat
<1>14. n - 1 = k /\ k \in 1 .. k
  BY ONLY <1>1, <1>13, n \in Nat, k \in Nat
<1>15. Len(under) = k /\ under[k] = native[k] /\ Last(under) = under[k]
  BY <1>12, <1>14 DEF PoppedOff, Last
<1>16. CallsFrom(under[k], q[k], w, cs, e)
  <2>1. q[k + 1] = e
    BY <1>2, <1>13
  <2>2. Called(native, q, w, cs, k)
    BY <1>11, <1>14
  <2> QED
    BY ONLY <1>15, <2>1, <2>2 DEF Called, CallsFrom
<1>17. Arrives(w, frames, w, g, done, done')
  BY ONLY <1>1, <1>8, <1>9 DEF Arrives, top
<1>18. CASE under[k].after = "goto"
  <2>1. native' = Continue(under, th, frames[th][top(th) - 1].method, base[th])
    BY <1>1, <1>15, <1>18
  <2>2. ~isC(under[k])
    BY <1>11, <1>14, <1>15, <1>18 DEF Paired, OnlyLoopsEnd
  <2>3. Tops(native', q, w, ds, r)
    BY <1>9, <1>10, <1>11, <1>15, <2>1, <2>2, ContinueTops
  <2> QED
    BY <1>1, <1>3, <1>5, <1>8, <1>17, <2>3, Stepped
<1>19. CASE under[k].after # "goto"
  <2>1. native' = under
    BY <1>1, <1>15, <1>19
  <2>2. Tops(under, q, w, ds, r)
    BY <1>6, <1>7, <1>8, <1>9, <1>10, <1>11, <1>15, <1>16, <1>19, UnderTops
  <2> QED
    BY <1>1, <1>3, <1>5, <1>8, <1>17, <2>1, <2>2, Stepped
<1> QED
  BY <1>18, <1>19

-----------------------------------------------------------------------------
(***************************************************************************)
(* The invariant, and what follows from it.                                *)
(***************************************************************************)
LEMMA EveryStep ==
  ASSUME Regular, NativeInv, NEW w, NEW q, Linked(w, q), [Next]_vars
  PROVE  Step(w)
<1>1. PICK e : Now(w, q) /\ Here(w, q, e)
  BY NowHere
<1>2. ASSUME NEW s \in Slots, NEW moved \in BOOLEAN, CallBytecode(s, moved) PROVE Step(w)
  BY <1>1, <1>2, StepCallBytecode
<1>3. ASSUME NEW s \in Slots, NEW moved \in BOOLEAN, CallC(s, moved) PROVE Step(w)
  BY <1>1, <1>3, StepCallC
<1>4. ASSUME NEW m \in {"BC", "C", "Y"}, NEW moved \in BOOLEAN, TailCall(m, moved) PROVE Step(w)
  BY <1>1, <1>4, StepTailCall
<1>5. ASSUME NEW y \in Yielder, NEW s \in Slots, CallYieldMethod(y, s) PROVE Step(w)
  BY <1>1, <1>5, StepCallYieldMethod
<1>6. ASSUME NEW y \in Yielder, NEW s \in Slots, NEW tail \in BOOLEAN, CallYielder(y, s, tail) PROVE Step(w)
  BY <1>1, <1>6, StepCallYielder
<1>7. ASSUME NEW y \in Yielder, MakeThenReturn(y) PROVE Step(w)
  BY <1>1, <1>7, StepMakeThenReturn
<1>8. ASSUME NEW y \in Yielder, Reset(y) PROVE Step(w)
  BY <1>1, <1>8, StepReset
<1>9. ASSUME NEW m \in {"BC", "C"}, CallThenReturn(m) PROVE Step(w)
  BY <1>1, <1>9, StepCallThenReturn
<1>10. ASSUME OpReturn PROVE Step(w)
  BY <1>1, <1>10, StepOpReturn
<1>11. ASSUME OpYield PROVE Step(w)
  BY <1>1, <1>11, StepOpYield
<1>12. ASSUME CReturn PROVE Step(w)
  BY <1>1, <1>12, StepCReturn
<1>13. ASSUME ThenReturn PROVE Step(w)
  BY <1>1, <1>13, StepThenReturn
<1>14. ASSUME NeedMoreLocal PROVE Step(w)
  BY <1>1, <1>14, StepNeedMoreLocal
<1>15. ASSUME UNCHANGED vars \/ AssertFails PROVE Step(w)
  BY <1>1, <1>15, StepNone DEF AssertFails
<1> QED
  BY <1>2, <1>3, <1>4, <1>5, <1>6, <1>7, <1>8, <1>9, <1>10, <1>11, <1>12, <1>13, <1>14, <1>15 DEF Next

LEMMA LinkedStays == ASSUME Regular, CInv, [Next]_vars PROVE CInv'
<1>1. NativeInv /\ NativeInv'
  BY Inductive DEF CInv
<1>2. PICK w, q : Linked(w, q)
  BY DEF CInv
<1>3. Step(w)
  BY <1>1, <1>2, EveryStep
<1>4. PICK v, r : Holds(v, r, frames', base', yieldTo', native')
  BY <1>3 DEF Step, Goes
<1>5. Path(v, yieldTo') /\ Stacked(v, frames') /\ Returns(v, frames', base')
  BY <1>4 DEF Holds, Woven
<1>6. /\ Matched(native', r, v, InC(v, frames'))
      /\ AtTop(native'[Len(native')], v, InC(v, frames'), endOf(v, frames'))
  BY <1>4 DEF Holds, Tops, Paired
<1>7. Linked(v, r)'
  BY <1>5, <1>6 DEF Linked
<1>8. v \in Seq(Thread) /\ r \in [Nat -> Nat \X Nat]
  BY <1>5, <1>6 DEF Path, Matched
<1> QED
  BY <1>1, <1>7, <1>8 DEF CInv

LEMMA LinkedFirst == Init => CInv
<1> SUFFICES ASSUME Init PROVE CInv
  OBVIOUS
<1> PICK w : w = <<Main>>
  OBVIOUS
<1> PICK e : e = <<1, 1>>
  OBVIOUS
<1> PICK q : q = [i \in Nat |-> e]
  OBVIOUS
<1> PICK x : x = frame("start", target(Main, 0, 1, 0))
  OBVIOUS
<1> PICK nat : nat = <<cMethod(Main)>>
  OBVIOUS
<1>1. /\ frames = [t \in Thread |-> IF t = Main THEN <<x>> ELSE <<>>] /\ base = [t \in Thread |-> 0]
      /\ yieldTo = [t \in Thread |-> None] /\ native = nat
  BY DEF Init, target
<1>2. w \in Seq(Thread) /\ Len(w) = 1 /\ w[1] = Main /\ Main \in Thread /\ e \in Nat \X Nat /\ e[1] = 1 /\ e[2] = 1
  BY DEF Thread
<1>3. \A i \in 1 .. 1 : i = 1
  OBVIOUS
<1>4. x \in Frame /\ x.method = "start" /\ x.retTo = target(Main, 0, 1, 0)
  BY <1>2 DEF frame, Frame, Methods, target, Target, Slots
<1>5. Path(w, yieldTo)
  BY <1>1, <1>2, <1>3 DEF Path
<1>6. frames[Main] = <<x>> /\ \A t \in Thread : t # Main => frames[t] = <<>>
  BY <1>1, <1>2
<1>7. Len(frames[Main]) = 1 /\ frames[Main][1] = x /\ base[Main] = 0 /\ \A t \in Thread : t # Main => Len(frames[t]) = 0
  BY <1>1, <1>2, <1>6
<1>8. Stacked(w, frames)
  <2>1. frames \in [Thread -> Seq(Frame)]
    BY <1>1, <1>4
  <2>2. ASSUME NEW t \in Thread, NEW i \in 1 .. Len(frames[t])
        PROVE  frames[t][i].method \in IF i > 1 THEN {"BC", "C"} ELSE IF t = Main THEN {"start"} ELSE {"Y"}
    <3>2. ~\E j : j \in 1 .. 0
      OBVIOUS
    <3>1. t = Main /\ i = 1
      BY <1>3, <1>7, <3>2
    <3> QED
      BY <1>4, <1>7, <3>1
  <2>3. \A i \in 1 .. Len(w) : Len(frames[w[i]]) >= 1
    BY <1>2, <1>3, <1>7
  <2>4. \A t \in Thread : Len(frames[t]) <= 1
    BY <1>7
  <2> QED
    BY <2>1, <2>2, <2>3, <2>4 DEF Stacked
<1>9. Returns(w, frames, base)
  BY <1>2, <1>3, <1>4, <1>7 DEF Returns
<1>10. endOf(w, frames) = e
  BY <1>2, <1>7 DEF endOf
<1>11. InC(w, frames) = {e}
  <2>1. e \in InC(w, frames)
    BY <1>2, <1>4, <1>7 DEF InC, isCMethod
  <2>2. ASSUME NEW p \in InC(w, frames) PROVE p = e
    <3>1. p \in Nat \X Nat /\ p[1] \in 1 .. 1 /\ p[2] \in 1 .. Len(frames[w[p[1]]])
      BY <1>2 DEF InC
    <3>2. p[1] = 1 /\ p[2] = 1
      BY <1>2, <1>3, <1>7, <3>1
    <3> QED
      BY <3>1, <3>2
  <2> QED
    BY <2>1, <2>2
<1>12. Len(nat) = 1 /\ nat[1].run = "C" /\ nat[1].th = Main /\ nat[1].after = "next"
  BY DEF cMethod
<1>13. q \in [Nat -> Nat \X Nat] /\ q[1] = e
  BY <1>2
<1>14. Matched(nat, q, w, {e})
  <2>1. \A i, j \in 1 .. 1 : ~(i < j)
    OBVIOUS
  <2>2. ~\E j : j \in 1 .. 1 - 1
    OBVIOUS
  <2>3. 1 \in 1 .. 1 /\ w[q[1][1]] = Main
    BY <1>2, <1>13
  <2> QED
    BY ONLY <1>3, <1>12, <1>13, <2>1, <2>2, <2>3 DEF Matched, isC
<1>15. AtTop(nat[1], w, {e}, e)
  BY <1>2, <1>12 DEF AtTop, isC
<1>16. Linked(w, q)
  BY <1>1, <1>5, <1>8, <1>9, <1>10, <1>11, <1>12, <1>14, <1>15 DEF Linked
<1> QED
  BY <1>2, <1>13, <1>16, Initially DEF CInv

\* chain is that of the threads that wait for each other.
IsChain == \A w, q : Linked(w, q) => chain = ChainOf(w, frames)
LEMMA ChainOfNow == NativeInv => IsChain
<1> SUFFICES ASSUME NativeInv, NEW w, NEW q, Linked(w, q) PROVE chain = ChainOf(w, frames)
  BY DEF IsChain
<1>1. waitingFor(th) = w
  BY NowHere DEF Now
<1>2. \A t : links(t) = linksOf(t, frames)
  BY DEF links, linksOf, top
<1>3. [i \in DOMAIN w |-> links(w[i])] = [i \in DOMAIN w |-> linksOf(w[i], frames)]
  BY <1>2
<1> QED
  BY <1>1, <1>3 DEF chain, ChainOf

\* Whatever was called, resumed, moved and returned in between, a frame that is waited for gives its
\* results to the frame that waits, at its present address (retTo, methodReturn).
THEOREM ResultsArrive == ASSUME Regular PROVE Spec => []RetToCaller
<1>1. CInv => RetToCaller
  <2> SUFFICES ASSUME CInv PROVE RetToCaller
    OBVIOUS
  <2>1. PICK w, q : Linked(w, q) /\ NativeInv
    BY DEF CInv
  <2>2. PICK c : c = chain
    OBVIOUS
  <2>3. c = ChainOf(w, frames)
    BY <2>1, <2>2, ChainOfNow DEF IsChain
  <2>4. Shape(w, frames, base)
    BY <2>1, ShapeOfChain DEF Linked
  <2>5. \A i \in 2 .. Len(c) : Gives(frames[c[i].th][c[i].depth].retTo, c[i - 1], c[i], base)
    BY <2>3, <2>4 DEF Shape, GivesBack
  <2> QED
    BY <2>2, <2>5 DEF RetToCaller, Gives, ptr, target
<1>2. CInv /\ [Next]_vars => CInv'
  BY LinkedStays
<1> QED
  BY <1>1, <1>2, LinkedFirst, PTL DEF Spec

\* A yielder that nobody waits for has one frame, and methods that yield have no other (OpYield).
THEOREM SleepersHaveOneFrame == ASSUME Regular PROVE Spec => []YieldersAsleep
<1>1. CInv => YieldersAsleep
  <2> SUFFICES ASSUME CInv PROVE YieldersAsleep
    OBVIOUS
  <2>1. PICK w, q : Linked(w, q) /\ NativeInv
    BY DEF CInv
  <2>2. Now(w, q) /\ Stacked(w, frames) /\ frames \in Stacks
    BY <2>1, NowHere DEF Linked, Now
  <2>3. ASSUME NEW t \in Thread, NEW i \in DOMAIN frames[t]
        PROVE  frames[t][i].method = "Y" <=> t \in Yielder /\ i = 1
    <3>1. DOMAIN frames[t] = 1 .. Len(frames[t]) /\ Len(frames[t]) \in Nat
      BY <2>2, StackTypes, LenProperties
    <3>2. i \in 1 .. Len(frames[t]) /\ i \in Nat /\ i >= 1
      BY <3>1
    <3>3. frames[t][i].method \in IF i > 1 THEN {"BC", "C"} ELSE IF t = Main THEN {"start"} ELSE {"Y"}
      BY <2>2, <3>2 DEF Stacked
    <3>4. t \in Yielder <=> t # Main
      BY MainIsNoYielder DEF Thread
    <3>5. i > 1 <=> i # 1
      BY ONLY <3>2
    <3> QED
      BY <3>3, <3>4, <3>5
  <2>4. ASSUME NEW y \in Yielder, ~IsWaiting(y) PROVE top(y) <= 1
    <3>1. Asleep(w, y)
      BY <2>2, <2>4, Waits
    <3>2. y \in Thread
      BY DEF Thread
    <3> QED
      BY <2>2, <3>1, <3>2 DEF Stacked, Asleep, top
  <2> QED
    BY <2>3, <2>4 DEF YieldersAsleep
<1>2. CInv /\ [Next]_vars => CInv'
  BY LinkedStays
<1> QED
  BY <1>1, <1>2, LinkedFirst, PTL DEF Spec

-----------------------------------------------------------------------------
(***************************************************************************)
(* Calls implements Coroutines.                                            *)
(***************************************************************************)
LEMMA WithoutLast ==
  ASSUME NEW S, NEW s \in Seq(S), NEW x \in S, Len(s) >= 1, NEW t, t = Append(s, x)
  PROVE  Len(t) > 1 /\ SubSeq(t, 1, Len(t) - 1) = s /\ t[Len(t)] = x
<1> PICK n \in Nat : n = Len(s)
  BY LenProperties
<1>1. t \in Seq(S) /\ Len(t) = n + 1 /\ t[n + 1] = x /\ \A i \in 1 .. n : t[i] = s[i]
  BY AppendProperties
<1>2. PICK k \in Nat : k = Len(t)
  BY <1>1
<1>3. k > 1 /\ k - 1 = n
  BY ONLY <1>1, <1>2, n \in Nat, n = Len(s), Len(s) >= 1
<1>4. PICK f : f = Front(t)
  OBVIOUS
<1>5. f \in Seq(S) /\ Len(f) = k - 1 /\ \A i \in 1 .. k - 1 : f[i] = t[i]
  BY <1>1, <1>2, <1>3, <1>4, Popped
<1>6. f = s
  BY <1>1, <1>3, <1>5, SeqEqual
<1>7. SubSeq(t, 1, Len(t) - 1) = s
  BY <1>4, <1>6 DEF Front
<1> QED
  BY <1>1, <1>2, <1>3, <1>7

\* The last of a chain, and the threads in it.
Chained(c, w, f) ==
  /\ c = ChainOf(w, f) /\ c \in Seq(Link) /\ Len(c) >= 1 /\ c[Len(c)].th = w[Len(w)] /\ c[Len(c)].depth = Len(f[w[Len(w)]])
  /\ \A i \in DOMAIN c : \E k \in 1 .. Len(w) : c[i].th = w[k]
LEMMA ChainedOf ==
  ASSUME NEW w, NEW f, NEW b, NEW yt, Woven(w, f, b, yt)
  PROVE  Chained(ChainOf(w, f), w, f)
<1> PICK c : c = ChainOf(w, f)
  OBVIOUS
<1>1. Shape(w, f, b)
  BY ShapeOfChain DEF Woven
<1>2. Len(c) >= 1 /\ c[Len(c)].th = w[Len(w)] /\ c[Len(c)].depth = Len(f[w[Len(w)]])
  BY <1>1 DEF Shape, Ends
<1>3. \A i \in 1 .. Len(c) : \E k \in 1 .. Len(w) : c[i].th = w[k]
  BY <1>1 DEF Shape, Covers
<1>4. c \in Seq(Link)
  BY WovenTypes, ChainTyped
<1>5. DOMAIN c = 1 .. Len(c)
  BY <1>4, LenProperties
<1> QED
  BY <1>2, <1>3, <1>4, <1>5 DEF Chained

LEMMA ChainStep ==
  ASSUME Regular, CInv, CInv', IsChain, IsChain', [Next]_vars
  PROVE  [Abstract!Next]_(Abstract!vars)
<1> PICK c : c = chain
  OBVIOUS
<1> PICK c2 : c2 = chain'
  OBVIOUS
<1>1. PICK w, q : Linked(w, q) /\ NativeInv
  BY DEF CInv
<1>2. Step(w) /\ Now(w, q)
  BY <1>1, EveryStep, NowHere
<1>3. PICK v, r : Holds(v, r, frames', base', yieldTo', native') /\ Arrives(w, frames, v, frames', done, done')
  BY <1>2 DEF Step, Goes
<1>4. Linked(v, r)'
  <2>1. Path(v, yieldTo') /\ Stacked(v, frames') /\ Returns(v, frames', base')
    BY <1>3 DEF Holds, Woven
  <2>2. /\ Matched(native', r, v, InC(v, frames'))
        /\ AtTop(native'[Len(native')], v, InC(v, frames'), endOf(v, frames'))
    BY <1>3 DEF Holds, Tops, Paired
  <2> QED
    BY <2>1, <2>2 DEF Linked
<1>5. c = ChainOf(w, frames) /\ c2 = ChainOf(v, frames')
  BY <1>1, <1>4 DEF IsChain
<1>6. Chained(c, w, frames) /\ Chained(c2, v, frames')
  BY <1>2, <1>3, <1>5, ChainedOf DEF Now, Holds
<1> PICK t : t = w[Len(w)]
  OBVIOUS
<1> PICK n : n = Len(frames[t])
  OBVIOUS
<1> PICK l : l = c[Len(c)]
  OBVIOUS
<1>7. /\ l.th = t /\ l.depth = n /\ t \in Thread /\ n \in Nat /\ n >= 1 /\ c \in Seq(Link) /\ c2 \in Seq(Link)
      /\ Len(c2) >= 1 /\ Abstract!Running = l
  <2>1. t \in Thread /\ frames \in Stacks /\ Woven(w, frames, base, yieldTo)
    BY <1>2 DEF Now, Holds
  <2>2. n \in Nat
    BY <2>1, StackTypes
  <2>3. Len(w) \in 1 .. Len(w)
    BY <2>1, WovenTypes
  <2>4. n >= 1
    BY <2>1, <2>3, WovenTypes
  <2>5. Abstract!Running = l
    BY DEF Abstract!Running
  <2> QED
    BY <1>6, <2>1, <2>2, <2>4, <2>5 DEF Chained
<1>8. \A y \in Yielder : Asleep(w, y) => ~Abstract!InChain(y)
  BY <1>6 DEF Asleep, Abstract!InChain, Chained
<1>9. CASE done' = done /\ c2 = c
  BY <1>9 DEF Abstract!vars
<1>10. CASE done' = done /\ Longer(c, c2, t, n + 1)
  <2>1. PICK s \in Slots : c2 = Append(c, linkOf(t, n + 1, s))
    BY <1>10 DEF Longer
  <2>2. Abstract!Call
    BY <1>7, <1>10, <2>1 DEF Abstract!Call, Abstract!link, linkOf
  <2> QED
    BY <2>2 DEF Abstract!Next
<1>11. ASSUME NEW y \in Yielder, Asleep(w, y), done' = done, y \notin done, Longer(c, c2, y, 1) PROVE Abstract!Next
  <2>1. PICK s \in Slots : c2 = Append(c, linkOf(y, 1, s))
    BY <1>11 DEF Longer
  <2>2. Abstract!Resume(y)
    BY <1>8, <1>11, <2>1 DEF Abstract!Resume, Abstract!link, linkOf
  <2> QED
    BY <2>2 DEF Abstract!Next
<1>12. ASSUME NEW y \in Yielder, Asleep(w, y), done' = done \ {y}, c2 = c PROVE Abstract!Next
  <2>1. Abstract!Reset(y)
    BY <1>8, <1>12 DEF Abstract!Reset
  <2> QED
    BY <2>1 DEF Abstract!Next
<1>13. CASE Longer(c2, c, t, n) /\ (done' = done \/ (n = 1 /\ done' = done \cup {t}))
  <2>1. PICK s \in Slots : c = Append(c2, linkOf(t, n, s))
    BY <1>13 DEF Longer
  <2>2. linkOf(t, n, s) \in Link
    BY <1>7 DEF linkOf, Link
  <2>3. Len(c) > 1 /\ SubSeq(c, 1, Len(c) - 1) = c2
    BY <1>7, <2>1, <2>2, WithoutLast
  <2>4. Abstract!GiveBack
    BY <2>3 DEF Abstract!GiveBack
  <2>5. CASE n > 1
    <3>1. n \in Nat
      BY <1>7
    <3>2. n # 1
      BY ONLY <2>5, <3>1
    <3>3. done' = done
      BY ONLY <1>13, <3>2
    <3>4. Abstract!Return
      BY <1>7, <2>4, <2>5, <3>3 DEF Abstract!Return
    <3> QED
      BY <3>4 DEF Abstract!Next
  <2>6. CASE n = 1 /\ done' = done
    <3>1. Abstract!Yield
      BY <1>7, <2>4, <2>6 DEF Abstract!Yield
    <3> QED
      BY <3>1 DEF Abstract!Next
  <2>7. CASE n = 1 /\ done' = done \cup {t}
    <3>1. Abstract!Finish
      BY <1>7, <2>4, <2>7 DEF Abstract!Finish
    <3> QED
      BY <3>1 DEF Abstract!Next
  <2>8. n > 1 \/ n = 1
    <3>1. n \in Nat /\ n >= 1
      BY <1>7
    <3> QED
      BY ONLY <3>1
  <2> QED
    BY <1>13, <2>5, <2>6, <2>7, <2>8
<1>14. \/ done' = done /\ c2 = c
       \/ done' = done /\ Longer(c, c2, t, n + 1)
       \/ \E y \in Yielder : Asleep(w, y) /\ (\/ done' = done /\ y \notin done /\ Longer(c, c2, y, 1)
                                              \/ done' = done \ {y} /\ c2 = c)
       \/ Longer(c2, c, t, n) /\ (done' = done \/ (n = 1 /\ done' = done \cup {t}))
  BY ONLY <1>3, <1>5, t = w[Len(w)], n = Len(frames[t]) DEF Arrives
<1> QED
  BY <1>9, <1>10, <1>11, <1>12, <1>13, <1>14

\* Calls, yields and tail calls are those of one chain of frames, in which every result arrives in
\* the frame that asked for it, and a yielder that ended stays out.
THEOREM CallsAreCoroutines == ASSUME Regular PROVE Spec => ImplementsCoroutines
<1>1. Init => Abstract!Init
  <2> SUFFICES ASSUME Init PROVE Abstract!Init
    OBVIOUS
  <2>1. CInv
    BY LinkedFirst
  <2>2. PICK w, q : Linked(w, q) /\ NativeInv
    BY <2>1 DEF CInv
  <2>3. chain = ChainOf(w, frames)
    BY <2>2, ChainOfNow DEF IsChain
  <2>4. Now(w, q)
    BY <2>2, NowHere
  <2>5. th = Main
    BY DEF Init, th, running, Last, cMethod
  <2> PICK n \in Nat : n = Len(w)
    BY <2>4, LenProperties DEF Now, Distinct
  <2>6. w \in Seq(Thread) /\ n >= 1 /\ w[n] = Main /\ w[1] = Main /\ \A i, j \in 1 .. n : w[i] = w[j] => i = j
    BY <2>4, <2>5 DEF Now, Distinct, Holds, Woven, Path
  <2>7. n \in 1 .. n /\ 1 \in 1 .. n
    BY <2>6
  <2>8. n = 1
    BY <2>6, <2>7
  <2>9. w = <<Main>>
    <3>1. w \in Seq(Thread) /\ Len(w) = 1 /\ w[1] = Main
      BY <2>6, <2>8
    <3> QED
      BY ONLY <3>1
  <2>10. PICK f \in Stacks : f = frames
    BY <2>4 DEF Now
  <2>11. Main \in Thread
    BY DEF Thread
  <2>12. chain = linksOf(Main, f)
    BY <2>3, <2>9, <2>10, <2>11, ChainFirst
  <2>13. PICK x : x = frame("start", [th |-> Main, base |-> 0, frame |-> 1, slot |-> 0])
    OBVIOUS
  <2>14. f[Main] = <<x>>
    BY <2>10, <2>11, <2>13 DEF Init
  <2>15. Len(f[Main]) = 1 /\ f[Main][1].retTo.slot = 0
    BY <2>13, <2>14 DEF frame
  <2>16. PICK L : L = linksOf(Main, f)
    OBVIOUS
  <2>17. L \in Seq(Link) /\ Len(L) = 1 /\ L[1] = [th |-> Main, depth |-> 1, slot |-> f[Main][1].retTo.slot]
    <3>1. 1 \in 1 .. 1
      OBVIOUS
    <3> QED
      BY ONLY <2>11, <2>15, <2>16, <3>1, f \in Stacks, LinksTyped
  <2>18. L = <<[th |-> Main, depth |-> 1, slot |-> 0]>>
    BY <2>15, <2>17
  <2> QED
    BY <2>12, <2>16, <2>18 DEF Init, Abstract!Init, Abstract!link
<1>2. CInv /\ [Next]_vars => CInv'
  BY LinkedStays
<1>3. CInv => IsChain
  BY ChainOfNow DEF CInv
<1>4. CInv /\ CInv' /\ IsChain /\ IsChain' /\ [Next]_vars => [Abstract!Next]_(Abstract!vars)
  BY ChainStep
<1> QED
  BY <1>1, <1>2, <1>3, <1>4, LinkedFirst, PTL DEF Spec, ImplementsCoroutines, Abstract!Spec

-----------------------------------------------------------------------------
(***************************************************************************)
(* The two stacks agree: the methods in C that are active on the native    *)
(* stack are those whose frames wait, in the same order, whatever threads  *)
(* were switched to in between; and everything is of its type, which needs *)
(* the bound on the moves of a stack.                                      *)
(***************************************************************************)
-----------------------------------------------------------------------------
(***************************************************************************)
(* The chain, frame by frame: each frame of the path is in it once, in the *)
(* order of the positions.                                                 *)
(***************************************************************************)
\* The frames of the path w, one after the other, are those of the chain C.
Spots(w, f) == {p \in Nat \X Nat : p[1] \in 1 .. Len(w) /\ p[2] \in 1 .. Len(f[w[p[1]]])}
Indexes(x, C, w, f) ==
  /\ x \in [1 .. Len(C) -> Spots(w, f)]
  /\ \A i \in 1 .. Len(C) : C[i].th = w[x[i][1]] /\ C[i].depth = x[i][2]
  /\ \A i, j \in 1 .. Len(C) : i < j => before(x[i], x[j])
  /\ \A p \in Spots(w, f) : \E i \in 1 .. Len(C) : x[i] = p
Indexed(w, f) == \E x : Indexes(x, ChainOf(w, f), w, f)

LEMMA IndexedFirst == ASSUME NEW f \in Stacks PROVE Indexed(<<>>, f)
<1> PICK w : w = <<>>
  OBVIOUS
<1>1. w \in Seq(Thread) /\ Len(w) = 0
  OBVIOUS
<1>2. ChainOf(w, f) = <<>>
  BY <1>1, ChainTyped
<1>3. Len(ChainOf(w, f)) = 0
  BY <1>2
<1>4. ~\E i : i \in 1 .. 0
  OBVIOUS
<1>5. PICK x : x = [i \in 1 .. 0 |-> <<1, 1>>]
  OBVIOUS
<1>6. Indexes(x, ChainOf(w, f), w, f)
  BY <1>1, <1>3, <1>4, <1>5 DEF Indexes, Spots
<1> QED
  BY <1>6 DEF Indexed

LEMMA IndexedNext ==
  ASSUME NEW v \in Seq(Thread), NEW t \in Thread, NEW f \in Stacks, Indexed(v, f)
  PROVE  Indexed(Append(v, t), f)
<1> PICK w : w = Append(v, t)
  OBVIOUS
<1> PICK k : k = Len(v)
  OBVIOUS
<1> PICK B : B = ChainOf(v, f)
  OBVIOUS
<1> PICK L : L = linksOf(t, f)
  OBVIOUS
<1> PICK C : C = ChainOf(w, f)
  OBVIOUS
<1> PICK n : n = Len(f[t])
  OBVIOUS
<1> PICK m : m = Len(B)
  OBVIOUS
<1> PICK x : Indexes(x, B, v, f)
  BY DEF Indexed
<1>1. n \in Nat /\ k \in Nat
  BY LenProperties DEF Stacks
<1>2. L \in Seq(Link) /\ Len(L) = n /\ \A i \in 1 .. n : L[i] = [th |-> t, depth |-> i, slot |-> f[t][i].retTo.slot]
  BY LinksTyped
<1>3. B \in Seq(Link) /\ m \in Nat
  BY ChainTyped, LenProperties
<1>4. C = B \o L
  BY ChainAppend
<1>5. Len(C) = m + n /\ \A i \in 1 .. m + n : C[i] = IF i <= m THEN B[i] ELSE L[i - m]
  <2>1. Len(B \o L) = Len(B) + Len(L) /\ \A i \in 1 .. Len(B) + Len(L) : (B \o L)[i] = IF i <= Len(B) THEN B[i] ELSE L[i - Len(B)]
    BY ONLY <1>2, <1>3, ConcatProperties
  <2> QED
    BY ONLY <2>1, <1>2, <1>4, m = Len(B)
<1>6. w \in Seq(Thread) /\ Len(w) = k + 1 /\ w[k + 1] = t /\ \A i \in 1 .. k : w[i] = v[i]
  BY AppendProperties
<1>7. PICK y : y = [i \in 1 .. m + n |-> IF i <= m THEN x[i] ELSE <<k + 1, i - m>>]
  OBVIOUS
<1>8. ASSUME NEW i \in 1 .. m + n
      PROVE  \/ i \in 1 .. m /\ y[i] = x[i] /\ C[i] = B[i]
             \/ i > m /\ i - m \in 1 .. n /\ y[i] = <<k + 1, i - m>> /\ C[i].th = t /\ C[i].depth = i - m
  <2>1. CASE i \in 1 .. m
    BY <1>5, <1>7, <2>1
  <2>2. CASE ~(i \in 1 .. m)
    <3>1. i > m /\ ~(i <= m) /\ i - m \in 1 .. n
      BY ONLY <1>1, <1>3, <2>2, i \in 1 .. m + n
    <3>2. C[i] = L[i - m] /\ y[i] = <<k + 1, i - m>>
      BY <1>5, <1>7, <3>1
    <3>3. PICK j : j = i - m
      OBVIOUS
    <3>4. L[j].th = t /\ L[j].depth = j
      BY ONLY <1>2, <3>1, <3>3
    <3> QED
      BY <3>1, <3>2, <3>3, <3>4
  <2> QED
    BY <2>1, <2>2
<1>9. ASSUME NEW p \in Spots(v, f)
      PROVE  p \in Spots(w, f) /\ w[p[1]] = v[p[1]] /\ p[1] \in Nat /\ p[1] < k + 1
  <2>1. p \in Nat \X Nat /\ p[1] \in 1 .. k /\ p[2] \in 1 .. Len(f[v[p[1]]])
    BY DEF Spots
  <2>2. w[p[1]] = v[p[1]] /\ p[1] \in 1 .. k + 1 /\ p[1] \in Nat /\ p[1] < k + 1
    BY <1>1, <1>6, <2>1
  <2> QED
    BY <1>6, <2>1, <2>2 DEF Spots
<1>10. ASSUME NEW d \in 1 .. n PROVE <<k + 1, d>> \in Spots(w, f)
  <2>1. k + 1 \in Nat /\ k + 1 \in 1 .. k + 1 /\ d \in Nat
    BY <1>1
  <2>2. f[w[k + 1]] = f[t]
    BY <1>6
  <2> QED
    BY <1>6, <2>1, <2>2 DEF Spots
<1>11. \A i \in 1 .. m : x[i] \in Spots(v, f) /\ B[i].th = v[x[i][1]] /\ B[i].depth = x[i][2]
  BY DEF Indexes
<1>12. ASSUME NEW i \in 1 .. m + n
       PROVE  y[i] \in Spots(w, f) /\ C[i].th = w[y[i][1]] /\ C[i].depth = y[i][2]
  <2>1. CASE i \in 1 .. m /\ y[i] = x[i] /\ C[i] = B[i]
    BY <1>9, <1>11, <2>1
  <2>2. CASE i > m /\ i - m \in 1 .. n /\ y[i] = <<k + 1, i - m>> /\ C[i].th = t /\ C[i].depth = i - m
    <3>1. y[i][1] = k + 1 /\ y[i][2] = i - m
      BY <2>2
    <3> QED
      BY <1>6, <1>10, <2>2, <3>1
  <2> QED
    BY <1>8, <2>1, <2>2
<1>13. ASSUME NEW i \in 1 .. m + n, NEW j \in 1 .. m + n, i < j PROVE before(y[i], y[j])
  <2>1. CASE i \in 1 .. m /\ j \in 1 .. m
    <3>1. y[i] = x[i] /\ y[j] = x[j]
      BY <1>3, <1>8, <2>1
    <3>2. before(x[i], x[j])
      BY <1>13, <2>1 DEF Indexes
    <3> QED
      BY <3>1, <3>2
  <2>2. CASE i \in 1 .. m /\ ~(j \in 1 .. m)
    <3>1. y[i] = x[i] /\ y[j] = <<k + 1, j - m>>
      <4>1. ~(i > m)
        BY <1>3, <2>2
      <4>2. y[i] = x[i]
        BY ONLY <1>8, <4>1, i \in 1 .. m + n
      <4>3. y[j] = <<k + 1, j - m>>
        BY ONLY <1>8, <2>2, j \in 1 .. m + n
      <4> QED
        BY ONLY <4>2, <4>3
    <3>2. x[i][1] < k + 1
      BY <1>9, <1>11, <2>2
    <3>3. y[j][1] = k + 1
      BY <3>1
    <3> QED
      BY <3>1, <3>2, <3>3 DEF before
  <2>3. CASE ~(i \in 1 .. m)
    <3>1. ~(j \in 1 .. m) /\ i - m < j - m
      BY <1>1, <1>3, <1>13, <2>3
    <3>2. y[i] = <<k + 1, i - m>> /\ y[j] = <<k + 1, j - m>>
      BY <1>8, <2>3, <3>1
    <3>3. y[i][1] = k + 1 /\ y[i][2] = i - m /\ y[j][1] = k + 1 /\ y[j][2] = j - m
      BY <3>2
    <3> QED
      BY ONLY <3>1, <3>3 DEF before
  <2> QED
    BY <2>1, <2>2, <2>3
<1>14. ASSUME NEW p \in Spots(w, f) PROVE \E i \in 1 .. m + n : y[i] = p
  <2>1. p \in Nat \X Nat /\ p[1] \in 1 .. k + 1 /\ p[2] \in 1 .. Len(f[w[p[1]]])
    BY <1>6 DEF Spots
  <2>2. CASE p[1] = k + 1
    <3> PICK d : d = p[2]
      OBVIOUS
    <3>1. d \in 1 .. n
      BY <1>6, <2>1, <2>2
    <3>2. PICK i : i = m + d
      OBVIOUS
    <3>3. i \in 1 .. m + n /\ ~(i \in 1 .. m) /\ i - m = d
      BY ONLY <1>1, <1>3, <3>1, <3>2
    <3>5. y[i] = <<k + 1, d>>
      BY <1>8, <3>3
    <3>4. p = <<k + 1, d>>
      BY <2>1, <2>2
    <3> QED
      BY <3>3, <3>4, <3>5
  <2>3. CASE p[1] # k + 1
    <3>1. p[1] \in 1 .. k
      BY <1>1, <2>1, <2>3
    <3>2. p \in Spots(v, f)
      BY <1>6, <2>1, <3>1 DEF Spots
    <3>3. PICK i \in 1 .. m : x[i] = p
      BY <3>2 DEF Indexes
    <3>4. i \in 1 .. m + n /\ i <= m
      BY <1>1, <1>3
    <3>5. y[i] = x[i]
      BY <1>7, <3>4
    <3> QED
      BY <3>3, <3>4, <3>5
  <2> QED
    BY <2>2, <2>3
<1>15. Indexes(y, C, w, f)
  <2>1. y \in [1 .. m + n -> Spots(w, f)]
    BY <1>7, <1>12
  <2> QED
    <3>1. Len(C) = m + n
      BY <1>5
    <3> QED
      BY ONLY <1>12, <1>13, <1>14, <2>1, <3>1, SMTT(30) DEF Indexes
<1> QED
  BY <1>15 DEF Indexed

LEMMA IndexedPath ==
  ASSUME NEW w \in Seq(Thread), NEW f \in Stacks
  PROVE  Indexed(w, f)
<1> PICK n \in Nat : n = Len(w)
  BY LenProperties
<1> DEFINE T == {k \in Nat : k <= n => Indexed(SubSeq(w, 1, k), f)}
<1>1. 0 \in T
  <2>1. SubSeq(w, 1, 0) = <<>>
    <3>1. 0 \in Int /\ 1 \in Int /\ 0 < 1
      OBVIOUS
    <3> QED
      BY ONLY <3>1, SubSeqEmpty
  <2> QED
    BY <2>1, IndexedFirst
<1>2. ASSUME NEW k \in Nat, k \in T PROVE k + 1 \in T
  <2> SUFFICES ASSUME k + 1 <= n PROVE Indexed(SubSeq(w, 1, k + 1), f)
    OBVIOUS
  <2> PICK v : v = SubSeq(w, 1, k)
    OBVIOUS
  <2>1. SubSeq(w, 1, k + 1) = Append(v, w[k + 1]) /\ w[k + 1] \in Thread /\ v \in Seq(Thread)
    BY Prefix
  <2>2. Indexed(v, f)
    BY <1>2
  <2>3. Indexed(Append(v, w[k + 1]), f)
    BY <2>1, <2>2, IndexedNext
  <2> QED
    BY <2>1, <2>3
<1> HIDE DEF T
<1>3. Nat \subseteq T
  BY <1>1, <1>2, Induct
<1>4. Indexed(SubSeq(w, 1, n), f)
  BY <1>3 DEF T
<1>5. SubSeq(w, 1, n) = w
  <2>1. \A i \in 1 .. n : w[i] \in Thread
    BY ElementOfSeq
  <2>2. SubSeq(w, 1, n) \in Seq(Thread) /\ Len(SubSeq(w, 1, n)) = n /\ \A i \in 1 .. n : SubSeq(w, 1, n)[i] = w[i]
    <3>1. CASE n = 0
      <4>1. w = <<>> /\ SubSeq(w, 1, 0) = <<>>
        <5>1. 0 \in Int /\ 1 \in Int /\ 0 < 1
          OBVIOUS
        <5>2. w = <<>>
          BY <3>1, EmptySeq
        <5> QED
          BY ONLY <5>1, <5>2, SubSeqEmpty
      <4> QED
        BY <3>1, <4>1
    <3>2. CASE n >= 1
      <4>1. /\ SubSeq(w, 1, n) \in Seq(Thread) /\ Len(SubSeq(w, 1, n)) = IF 1 <= n THEN n - 1 + 1 ELSE 0
            /\ \A i \in 1 .. n - 1 + 1 : SubSeq(w, 1, n)[i] = w[1 + i - 1]
        BY <2>1, SubSeqProperties
      <4> QED
        BY ONLY <3>2, <4>1, n \in Nat
    <3> QED
      BY <3>1, <3>2
  <2> QED
    BY <2>2, SeqEqual
<1> QED
  BY <1>4, <1>5

-----------------------------------------------------------------------------
\* Every active method in C has its frame, in the same order: what Matched says of positions.
Pairs(of) ==
  /\ of \in [active -> cFrames]
  /\ \A j \in active : chain[of[j]].th = native[j].th
  /\ \A i, j \in active : i < j => of[i] < of[j]
  /\ \A i \in cFrames : \E j \in active : of[j] = i
LEMMA PairsUp ==
  ASSUME NativeInv, NEW w, NEW q, Linked(w, q)
  PROVE  \E of : Pairs(of)
<1> PICK c : c = chain
  OBVIOUS
<1>19. c = ChainOf(w, frames)
  BY ChainOfNow DEF IsChain
<1> PICK cs : cs = InC(w, frames)
  OBVIOUS
<1>1. w \in Seq(Thread) /\ frames \in Stacks /\ c \in Seq(Link)
  <2>1. Now(w, q)
    BY NowHere
  <2>2. w \in Seq(Thread) /\ frames \in Stacks
    BY <2>1 DEF Now, Distinct
  <2> QED
    BY <1>19, <2>2, ChainTyped
<1>2. DOMAIN c = 1 .. Len(c) /\ DOMAIN native = 1 .. Len(native) /\ Len(c) \in Nat /\ Len(native) \in Nat
  BY <1>1, LenProperties DEF NativeInv
<1>3. PICK x : Indexes(x, c, w, frames)
  BY <1>1, <1>19, IndexedPath DEF Indexed
<1>4. /\ x \in [1 .. Len(c) -> Spots(w, frames)]
      /\ \A i \in 1 .. Len(c) : c[i].th = w[x[i][1]] /\ c[i].depth = x[i][2]
      /\ \A i, j \in 1 .. Len(c) : i < j => before(x[i], x[j])
      /\ \A p \in Spots(w, frames) : \E i \in 1 .. Len(c) : x[i] = p
  BY ONLY <1>3 DEF Indexes
<1>5. /\ \A j \in 1 .. Len(native) : isC(native[j]) => q[j] \in cs /\ w[q[j][1]] = native[j].th
      /\ \A i, j \in 1 .. Len(native) : i < j /\ isC(native[i]) /\ isC(native[j]) => before(q[i], q[j])
      /\ \A p \in cs : \E j \in 1 .. Len(native) : isC(native[j]) /\ q[j] = p
  BY DEF Linked, Matched
<1>6. \A p \in Spots(w, frames) : p \in cs <=> isCMethod(frames[w[p[1]]][p[2]].method)
  BY DEF Spots, InC
<1>7. cs \subseteq Spots(w, frames)
  BY DEF Spots, InC
<1>8. \A p \in Spots(w, frames) : p[1] \in Nat /\ p[2] \in Nat
  BY DEF Spots
<1>9. \A j : j \in active <=> j \in 1 .. Len(native) /\ isC(native[j])
  BY <1>2 DEF active, isC
<1>10. \A i : i \in cFrames <=> i \in 1 .. Len(c) /\ x[i] \in cs
  <2>1. ASSUME NEW i \in 1 .. Len(c) PROVE x[i] \in cs <=> isCMethod(frames[c[i].th][c[i].depth].method)
    BY <1>4, <1>6
  <2> QED
    BY <1>2, <2>1 DEF cFrames
<1>11. \A i, j \in 1 .. Len(c) : before(x[i], x[j]) => i < j
  <2> SUFFICES ASSUME NEW i \in 1 .. Len(c), NEW j \in 1 .. Len(c), before(x[i], x[j]), ~(i < j) PROVE FALSE
    OBVIOUS
  <2>1. x[i][1] \in Nat /\ x[i][2] \in Nat /\ x[j][1] \in Nat /\ x[j][2] \in Nat
    BY <1>4, <1>8
  <2>2. j < i \/ j = i
    OBVIOUS
  <2>3. x[j] = x[i] \/ before(x[j], x[i])
    BY <1>4, <2>2
  <2> QED
    BY ONLY <2>1, <2>3, before(x[i], x[j]) DEF before
<1>12. PICK of : of = [j \in active |-> CHOOSE i \in 1 .. Len(c) : x[i] = q[j]]
  OBVIOUS
<1>13. ASSUME NEW j \in active PROVE of[j] \in 1 .. Len(c) /\ x[of[j]] = q[j] /\ q[j] \in cs
  <2>1. q[j] \in cs /\ q[j] \in Spots(w, frames)
    BY <1>5, <1>7, <1>9
  <2>2. \E i \in 1 .. Len(c) : x[i] = q[j]
    BY <1>4, <2>1
  <2> QED
    BY <1>12, <2>1, <2>2
<1>14. of \in [active -> cFrames]
  BY <1>10, <1>12, <1>13
<1>15. ASSUME NEW j \in active PROVE c[of[j]].th = native[j].th
  <2>1. c[of[j]].th = w[x[of[j]][1]]
    BY <1>4, <1>13
  <2> QED
    BY <1>5, <1>9, <1>13, <2>1
<1>16. ASSUME NEW i \in active, NEW j \in active, i < j PROVE of[i] < of[j]
  <2>1. before(q[i], q[j])
    BY <1>5, <1>9, <1>16
  <2> QED
    BY <1>11, <1>13, <2>1
<1>17. ASSUME NEW i \in cFrames PROVE \E j \in active : of[j] = i
  <2>1. i \in 1 .. Len(c) /\ x[i] \in cs
    BY <1>10
  <2>2. PICK j \in active : q[j] = x[i]
    BY <1>5, <1>9, <2>1
  <2>3. x[of[j]] = x[i] /\ of[j] \in 1 .. Len(c)
    BY <1>13, <2>2
  <2>4. ~(of[j] < i) /\ ~(i < of[j])
    <3>1. x[i][1] \in Nat /\ x[i][2] \in Nat
      BY <1>4, <1>8, <2>1
    <3>2. ~before(x[i], x[i])
      BY ONLY <3>1 DEF before
    <3> QED
      BY ONLY <1>4, <2>1, <2>3, <3>2
  <2> QED
    BY <2>1, <2>3, <2>4
<1>18. Pairs(of)
  BY <1>14, <1>15, <1>16, <1>17 DEF Pairs
<1> QED
  BY <1>18

-----------------------------------------------------------------------------
(***************************************************************************)
(* Types, with the bound on the moves of a stack.                          *)
(***************************************************************************)
TFrame == [method : Methods, retTo : Pointer]
TAct   == [run : {"BC", "C"}, th : Thread, base : 0 .. MaxMoves, after : {"next", "return", "goto"}]
TypeInv ==
  /\ frames \in [Thread -> Seq(TFrame)] /\ base \in [Thread -> 0 .. MaxMoves]
  /\ done \subseteq {y \in Yielder : frames[y] # <<>>}
  /\ native \in Seq(TAct)
Keeps(g) == g \in [Thread -> Seq(TFrame)] /\ \A u \in Thread : frames[u] # <<>> => g[u] # <<>>

LEMMA TypesStay ==
  ASSUME TypeInv, Keeps(frames'), base' \in [Thread -> 0 .. MaxMoves], native' \in Seq(TAct),
         done' \subseteq {y \in Yielder : frames[y] # <<>>}
  PROVE  TypeInv'
<1>1. \A y \in Yielder : frames[y] # <<>> => frames'[y] # <<>>
  BY DEF Keeps, Thread
<1> QED
  BY <1>1 DEF TypeInv, Keeps, TFrame, TAct, Pointer

LEMMA PutFrames ==
  ASSUME TypeInv, NEW t \in Thread, NEW s \in Seq(TFrame), s # <<>>
  PROVE  Keeps([frames EXCEPT ![t] = s])
BY DEF TypeInv, Keeps

LEMMA KeepFrames == ASSUME TypeInv PROVE Keeps(frames)
BY DEF TypeInv, Keeps

LEMMA Pointers ==
  ASSUME TypeInv, NEW t \in Thread, NEW i \in Nat, i >= 1, NEW s \in Slots, NEW m \in Methods
  PROVE  ptr(t, i, s) \in Pointer /\ frame(m, ptr(t, i, s)) \in TFrame
<1>1. base[t] \in 0 .. MaxMoves + 1
  BY MovesAreNumbers DEF TypeInv
<1>2. ptr(t, i, s) \in Pointer
  BY <1>1 DEF ptr, Pointer
<1> QED
  BY <1>2 DEF frame, TFrame

\* A stack that moves below the bound leaves pointers: corrected ones, or wild ones.
LEMMA ShiftTypes ==
  ASSUME TypeInv, NEW t \in Thread, base[t] < MaxMoves, NEW p \in Pointer
  PROVE  shift(t, p) \in Pointer
<1>1. base[t] + 1 \in 0 .. MaxMoves + 1 /\ MaxMoves + 1 \in 0 .. MaxMoves + 1
  BY MovesAreNumbers DEF TypeInv
<1>2. wild \in Pointer
  <2>1. Main \in Thread /\ 0 \in Slots /\ 1 \in Nat \ {0}
    BY DEF Thread, Slots
  <2> QED
    BY <1>1, <2>1 DEF wild, Pointer
<1>3. [p EXCEPT !.base = base[t] + 1] \in Pointer
  BY <1>1 DEF Pointer
<1> QED
  BY <1>2, <1>3 DEF shift

LEMMA GrownTypes ==
  ASSUME TypeInv, NEW t \in Thread, NEW s \in Seq(TFrame), s # <<>>, NEW moved \in BOOLEAN,
         MayMove(t, moved), Grown(t, s, moved)
  PROVE  Keeps(frames') /\ base' \in [Thread -> 0 .. MaxMoves]
<1> PICK n \in Nat : n = Len(s)
  BY LenProperties
<1>1. CASE ~moved
  <2>1. frames' = [frames EXCEPT ![t] = s] /\ base' = base
    BY <1>1 DEF Grown
  <2> QED
    BY <2>1, PutFrames DEF TypeInv
<1>2. CASE moved
  <2>1. frames' = [frames EXCEPT ![t] = shifted(t, s)] /\ base' = [base EXCEPT ![t] = @ + 1] /\ base[t] < MaxMoves
    BY <1>2 DEF Grown, MayMove
  <2>2. PICK r : r = shifted(t, s)
    OBVIOUS
  <2>3. r = [i \in 1 .. n |-> [s[i] EXCEPT !.retTo = shift(t, s[i].retTo)]]
    <3>1. DOMAIN s = 1 .. n
      BY LenProperties
    <3> QED
      BY ONLY <2>2, <3>1 DEF shifted
  <2>4. ASSUME NEW i \in 1 .. n PROVE [s[i] EXCEPT !.retTo = shift(t, s[i].retTo)] \in TFrame
    <3> PICK x : x = s[i]
      OBVIOUS
    <3>1. x \in TFrame
      BY ElementOfSeq
    <3>2. x.retTo \in Pointer
      BY <3>1 DEF TFrame
    <3>3. PICK p : p = shift(t, x.retTo)
      OBVIOUS
    <3>4. p \in Pointer
      BY <2>1, <3>2, <3>3, ShiftTypes
    <3>5. [x EXCEPT !.retTo = p] \in TFrame
      BY ONLY <3>1, <3>4 DEF TFrame
    <3> QED
      BY ONLY <3>3, <3>5, x = s[i]
  <2>5. r \in Seq(TFrame) /\ r # <<>>
    <3>1. r \in [1 .. n -> TFrame]
      BY <2>3, <2>4
    <3>2. r \in Seq(TFrame) /\ Len(r) = n /\ n # 0
      BY <3>1, EmptySeq
    <3> QED
      BY <3>2, EmptySeq
  <2>6. base' \in [Thread -> 0 .. MaxMoves]
    <3>1. base[t] + 1 \in 0 .. MaxMoves
      BY <2>1, MovesAreNumbers DEF TypeInv
    <3> QED
      BY <2>1, <3>1 DEF TypeInv
  <2> QED
    BY <2>1, <2>2, <2>5, <2>6, PutFrames
<1> QED
  BY <1>1, <1>2

\* The native stack.
LEMMA LoopTypes ==
  ASSUME NEW t \in Thread, NEW b \in 0 .. MaxMoves
  PROVE  loop(t, b) \in TAct /\ cMethod(t) \in TAct
BY MovesAreNumbers DEF loop, cMethod, TAct

LEMMA ContinueTypes ==
  ASSUME NEW s \in Seq(TAct), Len(s) > 1, NEW t \in Thread, NEW b \in 0 .. MaxMoves, NEW m
  PROVE  Continue(s, t, m, b) \in Seq(TAct)
<1>1. Front(s) \in Seq(TAct)
  BY Popped
<1>2. Append(Front(s), loop(t, b)) \in Seq(TAct)
  BY <1>1, LoopTypes, AppendProperties
<1> QED
  BY <1>1, <1>2 DEF Continue

LEMMA NativeTypes ==
  ASSUME TypeInv, NativeInv
  PROVE  /\ native \in Seq(TAct) /\ Len(native) \in Nat /\ Len(native) >= 1 /\ running \in TAct
         /\ running.run \in {"BC", "C"} /\ (running.run = "BC" => Len(native) > 1)
         /\ (running.after # "next" => running.run = "BC")
<1>1. native \in Seq(TAct) /\ native # <<>>
  BY DEF TypeInv, NativeInv
<1>2. PICK n \in Nat : n = Len(native)
  BY <1>1, LenProperties
<1>3. n # 0
  BY <1>1, <1>2, EmptySeq
<1>4. n \in 1 .. n
  BY ONLY <1>3, n \in Nat
<1>5. running = native[n] /\ running.run \in {"BC", "C"} /\ Good(native) /\ ActivationOK(running)
  BY <1>2, GoodTop
<1>6. running \in TAct
  BY <1>1, <1>2, <1>4, <1>5, ElementOfSeq
<1>7. running.run = "BC" => n > 1
  BY <1>2, <1>5, LoopAbove DEF running
<1> QED
  BY <1>1, <1>2, <1>4, <1>5, <1>6, <1>7 DEF ActivationOK

LEMMA RunTypes ==
  ASSUME TypeInv, NativeInv, NEW t \in Thread, NEW b \in 0 .. MaxMoves
  PROVE  RunBC(t, b) \in Seq(TAct)
<1>1. native \in Seq(TAct) /\ (running.run = "BC" => Front(native) \in Seq(TAct)) /\ loop(t, b) \in TAct
  BY NativeTypes, Popped, LoopTypes
<1> QED
  BY <1>1, AppendProperties DEF RunBC

LEMMA WaitTypes ==
  ASSUME TypeInv, NativeInv, NEW then \in {"return", "goto"}
  PROVE  waiting(then) \in Seq(TAct)
<1>1. PICK n \in Nat : n = Len(native)
  BY NativeTypes
<1>2. n \in 1 .. n /\ native \in Seq(TAct) /\ running = native[n] /\ running \in TAct
  BY <1>1, NativeTypes, GoodTop
<1>3. PICK a : a = [running EXCEPT !.after = then]
  OBVIOUS
<1>4. a \in TAct
  BY <1>2, <1>3 DEF TAct
<1>5. [native EXCEPT ![n] = a] \in Seq(TAct)
  BY <1>1, <1>2, <1>4, ExceptSeq
<1> QED
  BY <1>1, <1>2, <1>3, <1>5 DEF waiting

\* The frame that is pushed, and what is below the frame that is popped.
LEMMA FrameTypes ==
  ASSUME TypeInv, NEW w, NEW q, NEW e, Now(w, q), Here(w, q, e)
  PROVE  /\ th \in Thread /\ frames[th] \in Seq(TFrame) /\ base[th] \in 0 .. MaxMoves
         /\ top(th) \in Nat /\ top(th) >= 1 /\ Len(frames[th]) = top(th)
         /\ (\A s \in Slots, m \in Methods :
               Append(frames[th], frame(m, here(s))) \in Seq(TFrame) /\ Append(frames[th], frame(m, here(s))) # <<>>)
         /\ (top(th) >= 2 => Front(frames[th]) \in Seq(TFrame) /\ Front(frames[th]) # <<>>)
<1> PICK f : f = frames[th]
  OBVIOUS
<1>1. th \in Thread /\ top(th) \in Nat /\ top(th) >= 1 /\ Len(f) = top(th)
  BY DEF Now, Here, top
<1>2. f \in Seq(TFrame) /\ base[th] \in 0 .. MaxMoves
  BY <1>1 DEF TypeInv
<1>3. f # <<>>
  BY <1>1, <1>2, EmptySeq
<1>4. ASSUME NEW s \in Slots, NEW m \in Methods
      PROVE  Append(f, frame(m, here(s))) \in Seq(TFrame) /\ Append(f, frame(m, here(s))) # <<>>
  <2>1. frame(m, here(s)) \in TFrame
    BY <1>1, Pointers DEF here
  <2> QED
    BY <1>2, <1>3, <2>1, Pushed
<1>5. top(th) >= 2 => Front(f) \in Seq(TFrame) /\ Front(f) # <<>>
  BY <1>1, <1>2, Popped
<1> QED
  BY <1>1, <1>2, <1>4, <1>5

LEMMA BackTypes ==
  ASSUME TypeInv, NativeInv, running.run = "BC", SwitchBack
  PROVE  native' \in Seq(TAct)
<1>1. PICK u, m : u = yieldTo[th] /\ m = curmethod(u).method
  OBVIOUS
<1>2. u \in Thread
  BY <1>1, GoodTop DEF SwitchBack, NativeInv
<1>3. base[u] \in 0 .. MaxMoves
  BY <1>2 DEF TypeInv
<1>4. native' = Continue(native, u, m, base[u])
  BY <1>1 DEF SwitchBack
<1> QED
  BY <1>2, <1>3, <1>4, NativeTypes, ContinueTypes

LEMMA LeaveTypes ==
  ASSUME TypeInv, NativeInv, NEW w, NEW q, NEW e, Now(w, q), Here(w, q, e), running.run = "BC",
         NEW ends, Leave(ends), ends => th \in Yielder, ~ends => top(th) >= 2, base' = base
  PROVE  TypeInv'
<1>1. frames[th] # <<>> /\ th \in Thread /\ base[th] \in 0 .. MaxMoves
  BY FrameTypes, EmptySeq
<1>2. CASE ends
  <2>1. native' \in Seq(TAct) /\ done' = done \cup {th} /\ frames' = frames /\ th \in Yielder
    BY <1>2, BackTypes DEF Leave
  <2>2. done' \subseteq {y \in Yielder : frames[y] # <<>>}
    BY <1>1, <2>1 DEF TypeInv
  <2> QED
    BY <2>1, <2>2, KeepFrames, TypesStay DEF TypeInv
<1>3. CASE ~ends
  <2>1. PICK m : m = frames[th][top(th) - 1].method
    OBVIOUS
  <2>2. /\ frames' = [frames EXCEPT ![th] = Front(frames[th])] /\ done' = done
        /\ native' = Continue(native, th, m, base[th])
    BY <1>3, <2>1 DEF Leave
  <2>3. native' \in Seq(TAct)
    BY <1>1, <2>2, NativeTypes, ContinueTypes
  <2>4. Front(frames[th]) \in Seq(TFrame) /\ Front(frames[th]) # <<>>
    BY <1>3, FrameTypes
  <2>5. Keeps(frames')
    BY <1>1, <2>2, <2>4, PutFrames
  <2> QED
    BY <2>2, <2>3, <2>5, TypesStay DEF TypeInv
<1> QED
  BY <1>2, <1>3

LEMMA TypesStep ==
  ASSUME Regular, TypeInv, NativeInv, NEW w, NEW q, NEW e, Now(w, q), Here(w, q, e), [Next]_vars
  PROVE  TypeInv'
<1>1. /\ th \in Thread /\ frames[th] \in Seq(TFrame) /\ base[th] \in 0 .. MaxMoves
      /\ native \in Seq(TAct) /\ base \in [Thread -> 0 .. MaxMoves] /\ done \subseteq {y \in Yielder : frames[y] # <<>>}
      /\ {"BC", "C", "Y"} \subseteq Methods /\ Yielder \subseteq Thread /\ Slots = {0, 1}
      /\ (Byte => running.run = "BC") /\ (running.after # "next" => running.run = "BC")
      /\ Keeps(frames)
  BY FrameTypes, NativeTypes, KeepFrames DEF Methods, Thread, Slots, Byte, TypeInv
<1>2. ASSUME NEW s \in Slots, NEW moved \in BOOLEAN, CallBytecode(s, moved) PROVE TypeInv'
  <2>1. PICK a : a = Append(frames[th], frame("BC", here(s)))
    OBVIOUS
  <2>2. a \in Seq(TFrame) /\ a # <<>>
    BY <1>1, <2>1, FrameTypes
  <2>3. PICK b : b = base'
    OBVIOUS
  <2>4. Keeps(frames') /\ b \in [Thread -> 0 .. MaxMoves]
    BY <1>1, <1>2, <2>1, <2>2, <2>3, GrownTypes DEF CallBytecode
  <2>5. RunBC(th, b[th]) \in Seq(TAct)
    BY <1>1, <2>4, RunTypes
  <2> QED
    BY <1>1, <1>2, <2>3, <2>4, <2>5, TypesStay DEF CallBytecode
<1>3. ASSUME NEW s \in Slots, NEW moved \in BOOLEAN, CallC(s, moved) PROVE TypeInv'
  <2>1. PICK a : a = Append(frames[th], frame("C", here(s)))
    OBVIOUS
  <2>2. a \in Seq(TFrame) /\ a # <<>>
    BY <1>1, <2>1, FrameTypes
  <2>3. Keeps(frames') /\ base' \in [Thread -> 0 .. MaxMoves]
    BY <1>1, <1>3, <2>1, <2>2, GrownTypes DEF CallC
  <2>4. Append(native, cMethod(th)) \in Seq(TAct)
    BY <1>1, LoopTypes, AppendProperties
  <2> QED
    BY <1>1, <1>3, <2>3, <2>4, TypesStay DEF CallC
<1>4. ASSUME NEW m \in {"BC", "C", "Y"}, NEW moved \in BOOLEAN, TailCall(m, moved) PROVE TypeInv'
  <2>1. running.run = "BC" /\ ~isEntry(th)
    BY <1>1, <1>4 DEF TailCall
  <2>2. top(th) >= 2
    BY <2>1, Deep
  <2>3. PICK f, a, x : f = Front(frames[th]) /\ x = frame(m, ptr(th, top(th) - 1, 0)) /\ a = Append(f, x)
    OBVIOUS
  <2>4. f \in Seq(TFrame) /\ f # <<>>
    BY <2>2, <2>3, FrameTypes
  <2>5. x \in TFrame
    <3>1. top(th) - 1 \in Nat /\ top(th) - 1 >= 1
      BY <2>2, FrameTypes
    <3> QED
      BY <1>1, <2>3, <3>1, Pointers
  <2>6. a \in Seq(TFrame) /\ a # <<>>
    BY <2>3, <2>4, <2>5, Pushed
  <2>7. PICK b : b = base'
    OBVIOUS
  <2>8. Keeps(frames') /\ b \in [Thread -> 0 .. MaxMoves]
    BY <1>1, <1>4, <2>3, <2>6, <2>7, GrownTypes DEF TailCall
  <2>9. RunBC(th, b[th]) \in Seq(TAct) /\ waiting("goto") \in Seq(TAct)
    BY <1>1, <2>8, RunTypes, WaitTypes
  <2>10. Append(waiting("goto"), cMethod(th)) \in Seq(TAct)
    BY <1>1, <2>9, LoopTypes, AppendProperties
  <2> QED
    BY <1>1, <1>4, <2>7, <2>8, <2>9, <2>10, TypesStay DEF TailCall
<1>5. ASSUME NEW y \in Yielder PROVE Keeps(newYielder(y))
  <2>1. PICK x : x = frame("Y", ptr(y, 1, 0))
    OBVIOUS
  <2>2. x \in TFrame
    BY <1>1, <2>1, Pointers
  <2>3. <<x>> \in Seq(TFrame) /\ <<x>> # <<>>
    BY <2>2
  <2> QED
    BY <1>1, <2>1, <2>3, PutFrames DEF newYielder
<1>6. ASSUME NEW y \in Yielder, NEW s \in Slots, CallYieldMethod(y, s) PROVE TypeInv'
  BY <1>1, <1>5, <1>6, TypesStay DEF CallYieldMethod
<1>7. ASSUME NEW y \in Yielder, MakeThenReturn(y) PROVE TypeInv'
  BY <1>1, <1>5, <1>7, WaitTypes, TypesStay DEF MakeThenReturn
<1>8. ASSUME NEW y \in Yielder, NEW s \in Slots, NEW tail \in BOOLEAN, CallYielder(y, s, tail) PROVE TypeInv'
  <2>1. ~tail /\ frames[y] # <<>> /\ y \in Thread
    BY <1>1, <1>8 DEF CallYielder, Regular
  <2>2. PICK f, n, a : f = frames[y] /\ n = top(y) /\ a = [f EXCEPT ![n].retTo = here(s)]
    OBVIOUS
  <2>3. f \in Seq(TFrame) /\ n = Len(f) /\ f # <<>>
    BY <2>1, <2>2 DEF TypeInv, top
  <2>4. n \in 1 .. n
    <3>1. n \in Nat /\ n # 0
      BY <2>3, EmptySeq, LenProperties
    <3> QED
      BY ONLY <3>1
  <2>5. PICK z : z = [f[n] EXCEPT !.retTo = here(s)]
    OBVIOUS
  <2>6. z \in TFrame
    <3>1. here(s) \in Pointer
      BY <1>1, FrameTypes, Pointers DEF here
    <3>2. f[n] \in TFrame
      BY <2>3, <2>4, ElementOfSeq
    <3> QED
      BY ONLY <2>5, <3>1, <3>2 DEF TFrame
  <2>7. a = [f EXCEPT ![n] = z]
    BY <2>2, <2>5
  <2>8. a \in Seq(TFrame) /\ a # <<>>
    <3>1. a \in Seq(TFrame) /\ Len(a) = n
      BY <2>3, <2>4, <2>6, <2>7, ExceptSeq
    <3> QED
      BY <2>4, <3>1, EmptySeq
  <2>9. frames' = [frames EXCEPT ![y] = a]
    BY <1>8, <2>2 DEF CallYielder
  <2>10. Keeps(frames')
    BY <2>1, <2>8, <2>9, PutFrames
  <2>11. base[y] \in 0 .. MaxMoves
    BY <1>1, <2>1
  <2>12. native' = RunBC(y, base[y])
    BY <1>8, <2>1 DEF CallYielder
  <2>13. native' \in Seq(TAct)
    BY <2>1, <2>11, <2>12, RunTypes
  <2> QED
    BY <1>1, <1>8, <2>10, <2>13, TypesStay DEF CallYielder
<1>9. ASSUME NEW m \in {"BC", "C"}, CallThenReturn(m) PROVE TypeInv'
  <2>1. m = "C"
    BY <1>9 DEF CallThenReturn, Regular
  <2>2. PICK a : a = Append(frames[th], frame(m, here(0)))
    OBVIOUS
  <2>3. a \in Seq(TFrame) /\ a # <<>>
    BY <1>1, <2>2, FrameTypes
  <2>4. frames' = [frames EXCEPT ![th] = a] /\ native' = Append(waiting("return"), cMethod(th))
    BY <1>9, <2>1, <2>2 DEF CallThenReturn
  <2>5. Keeps(frames')
    BY <1>1, <2>3, <2>4, PutFrames
  <2>6. native' \in Seq(TAct)
    <3>1. waiting("return") \in Seq(TAct) /\ cMethod(th) \in TAct
      BY <1>1, WaitTypes, LoopTypes
    <3> QED
      BY <2>4, <3>1, AppendProperties
  <2> QED
    BY <1>1, <1>9, <2>5, <2>6, TypesStay DEF CallThenReturn
<1>10. ASSUME OpReturn PROVE TypeInv'
  <2>1. running.run = "BC" /\ Leave(isEntry(th)) /\ base' = base
    BY <1>1, <1>10 DEF OpReturn
  <2>2. (isEntry(th) => th \in Yielder) /\ (~isEntry(th) => top(th) >= 2)
    BY <2>1, Deep DEF isEntry
  <2> QED
    BY <2>1, <2>2, LeaveTypes
<1>11. ASSUME ThenReturn PROVE TypeInv'
  <2>1. running.run = "BC" /\ Leave(th \in Yielder) /\ base' = base
    BY <1>1, <1>11 DEF ThenReturn
  <2>2. th \notin Yielder => top(th) >= 2
    BY <2>1, Deep DEF isEntry
  <2> QED
    BY <2>1, <2>2, LeaveTypes
<1>12. ASSUME OpYield PROVE TypeInv'
  <2>1. native' \in Seq(TAct)
    BY <1>1, <1>12, BackTypes DEF OpYield
  <2> QED
    BY <1>1, <1>12, <2>1, TypesStay DEF OpYield
<1>13. ASSUME CReturn PROVE TypeInv'
  <2>1. top(th) >= 2 /\ running.run = "C" /\ Len(native) > 1
    BY <1>13, CDeep DEF CReturn
  <2>2. Front(frames[th]) \in Seq(TFrame) /\ Front(frames[th]) # <<>> /\ frames' = [frames EXCEPT ![th] = Front(frames[th])]
    BY <1>13, <2>1, FrameTypes DEF CReturn
  <2>3. Keeps(frames')
    BY <1>1, <2>2, PutFrames
  <2>4. PICK under, m : under = Front(native) /\ m = frames[th][top(th) - 1].method
    OBVIOUS
  <2>5. under \in Seq(TAct) /\ Good(under)
    BY <1>1, <2>1, <2>4, Popped, GoodPopped, GoodTop
  <2>6. native' = IF Last(under).after = "goto" THEN Continue(under, th, m, base[th]) ELSE under
    BY <1>13, <2>4 DEF CReturn
  <2>7. ASSUME Last(under).after = "goto" PROVE Len(under) > 1
    <3>1. Len(under) \in Nat \ {0}
      BY <2>5, EmptySeq, LenProperties DEF Good
    <3>2. ActivationOK(Last(under))
      BY <2>5, <3>1 DEF Good, Last
    <3>3. Last(under).run # "C"
      BY <2>7, <3>2 DEF ActivationOK
    <3> QED
      BY <2>5, <3>3, LoopAbove
  <2>8. native' \in Seq(TAct)
    BY <1>1, <2>5, <2>6, <2>7, ContinueTypes
  <2> QED
    BY <1>1, <1>13, <2>3, <2>8, TypesStay DEF CReturn
<1>14. ASSUME NeedMoreLocal PROVE TypeInv'
  <2>1. frames[th] # <<>>
    BY FrameTypes, EmptySeq
  <2>2. Keeps(frames') /\ base' \in [Thread -> 0 .. MaxMoves]
    BY <1>1, <1>14, <2>1, GrownTypes DEF NeedMoreLocal
  <2> QED
    BY <1>1, <1>14, <2>2, TypesStay DEF NeedMoreLocal
<1>15. ASSUME NEW y \in Yielder, Reset(y) PROVE TypeInv'
  <2>1. PICK f : f = frames[y]
    OBVIOUS
  <2>2. f \in Seq(TFrame) /\ f # <<>> /\ y \in Thread
    BY <1>1, <1>15, <2>1 DEF Reset, TypeInv
  <2>3. Head(f) \in TFrame
    BY ONLY <2>2, HeadTailProperties
  <2>4. PICK x : x = Head(f)
    OBVIOUS
  <2>5. <<x>> \in Seq(TFrame) /\ <<x>> # <<>>
    BY <2>3, <2>4
  <2>6. frames' = [frames EXCEPT ![y] = <<x>>]
    BY <1>15, <2>1, <2>4 DEF Reset
  <2>7. Keeps(frames')
    BY <2>2, <2>5, <2>6, PutFrames
  <2>8. done' \subseteq done /\ base' = base /\ native' = native
    BY <1>15 DEF Reset
  <2> QED
    BY <1>1, <2>7, <2>8, TypesStay
<1>16. ASSUME UNCHANGED vars \/ AssertFails PROVE TypeInv'
  BY <1>1, <1>16, TypesStay DEF vars, AssertFails
<1> QED
  BY <1>2, <1>3, <1>4, <1>6, <1>7, <1>8, <1>9, <1>10, <1>11, <1>12, <1>13, <1>14, <1>15, <1>16 DEF Next

LEMMA TypesFirst == Init => TypeInv
<1> SUFFICES ASSUME Init PROVE TypeInv
  OBVIOUS
<1> PICK x : x = frame("start", [th |-> Main, base |-> 0, frame |-> 1, slot |-> 0])
  OBVIOUS
<1>1. Main \in Thread /\ 0 \in 0 .. MaxMoves /\ 0 \in 0 .. MaxMoves + 1 /\ 0 \in Slots /\ 1 \in Nat \ {0}
  BY MovesAreNumbers DEF Thread, Slots
<1>2. x \in TFrame
  BY <1>1 DEF frame, TFrame, Methods, Pointer
<1>3. <<x>> \in Seq(TFrame)
  BY <1>2
<1>4. frames \in [Thread -> Seq(TFrame)]
  BY <1>3 DEF Init
<1>5. PICK a : a = cMethod(Main)
  OBVIOUS
<1>6. a \in TAct
  BY <1>1, <1>5, LoopTypes
<1>7. native \in Seq(TAct)
  BY <1>5, <1>6 DEF Init
<1> QED
  BY <1>1, <1>4, <1>7 DEF Init, TypeInv

\* The methods in C that are active on the native stack are those of the C frames that wait, in the
\* same order: a loop returns to the C method that made it (getCall, methodRunC).
THEOREM NativeFollowsFrames == ASSUME Regular PROVE Spec => []NativeMatches
<1>1. CInv /\ TypeInv => NativeMatches
  <2> SUFFICES ASSUME CInv, TypeInv PROVE NativeMatches
    OBVIOUS
  <2>1. PICK w, q : Linked(w, q) /\ NativeInv
    BY DEF CInv
  <2>2. PICK e : Now(w, q) /\ Here(w, q, e)
    BY <2>1, NowHere
  <2>3. frames[th] # <<>>
    BY <2>2, FrameTypes, EmptySeq
  <2>4. TypeOK
    BY <2>1, <2>3 DEF TypeOK, TypeInv, NativeInv, TFrame, TAct, Methods
  <2>5. PICK of : Pairs(of)
    BY <2>1, PairsUp
  <2>6. isCMethod(curmethod(th).method) <=> running.run = "C"
    BY <2>2 DEF Here, isC
  <2> QED
    BY ONLY <2>4, <2>5, <2>6 DEF NativeMatches, Pairs
<1>2. CInv /\ TypeInv /\ [Next]_vars => CInv' /\ TypeInv'
  <2> SUFFICES ASSUME CInv, TypeInv, [Next]_vars PROVE CInv' /\ TypeInv'
    OBVIOUS
  <2>1. PICK w, q : Linked(w, q) /\ NativeInv
    BY DEF CInv
  <2>2. PICK e : Now(w, q) /\ Here(w, q, e)
    BY <2>1, NowHere
  <2> QED
    BY <2>1, <2>2, LinkedStays, TypesStep
<1> QED
  BY <1>1, <1>2, LinkedFirst, TypesFirst, PTL DEF Spec
=============================================================================
