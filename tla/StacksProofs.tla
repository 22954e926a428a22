---------------------------- MODULE StacksProofs ----------------------------
(***************************************************************************)
(* Nothing is kept beyond the slots of a data stack that may be used, and  *)
(* a C method finds the room it was promised, however calls, returns, tail *)
(* calls and the operations of avm_stack.cpp follow each other.            *)
(***************************************************************************)
EXTENDS StacksInv, SequenceTheorems, TLAPS

------------------------------------------------------------------------------
(***************************************************************************)
(* Sequences of values and of frames.                                      *)
(***************************************************************************)
LEMMA Sizes ==
  /\ STACK_MINSIZE \in Nat \ {0} /\ STACK_EXTRA \in Nat \ {0} /\ STACK_NEWSIZE \in Nat /\ STACK_MAXSIZE \in Nat
  /\ STACK_ERRORSIZE \in Nat /\ MaxStack \in Nat \ {0} /\ NParms \in Nat \ {0}
  /\ NParms <= MaxStack /\ 1 + STACK_MINSIZE + STACK_EXTRA <= STACK_NEWSIZE
  /\ STACK_NEWSIZE <= STACK_MAXSIZE /\ STACK_MAXSIZE < STACK_ERRORSIZE
  /\ MaxFrames \in Nat \ {0} /\ MaxLive \in Nat /\ MaxWant \in Nat /\ BCVARRET \in Nat
  /\ MaxWant # BCVARRET /\ BCVARRET > 1
BY SizesFit, WantsFit

LEMMA FunctionIsSeq ==
  ASSUME NEW S, NEW n \in Nat, NEW f \in [1 .. n -> S]
  PROVE  f \in Seq(S) /\ Len(f) = n
<1>1. f \in Seq(S)
  BY SeqDef
<1> QED
  BY <1>1, LenProperties

LEMMA nullsOK ==
  ASSUME NEW n \in Int
  PROVE  nulls(n) \in Seq(Stored) /\ Len(nulls(n)) = greater(n, 0)
<1>1. greater(n, 0) \in Nat
  BY DEF greater
<1>2. nulls(n) \in [1 .. greater(n, 0) -> Stored]
  BY DEF nulls, Stored
<1> QED
  BY <1>1, <1>2, FunctionIsSeq

LEMMA slotsOK ==
  ASSUME NEW t \in Thread, NEW from \in Nat, NEW to \in Nat, from <= to, to <= STACK_ERRORSIZE
  PROVE  slots(t, from, to) \in Seq(Stored) /\ Len(slots(t, from, to)) = to - from
<1>1. \A i \in 1 .. to - from : from + i - 1 \in Slot
  BY SizesFit DEF Slot
<1>2. t.stack \in [Slot -> Stored]
  BY DEF Thread
<1>3. \A i \in 1 .. to - from : t.stack[from + i - 1] \in Stored
  BY <1>1, <1>2
<1>4. slots(t, from, to) \in [1 .. to - from -> Stored]
  BY <1>3 DEF slots
<1>5. to - from \in Nat
  OBVIOUS
<1> QED
  BY <1>4, <1>5, FunctionIsSeq

LEMMA putOK ==
  ASSUME NEW t \in Thread, NEW from \in Int, NEW values \in Seq(Stored)
  PROVE  LET u == put(t, from, values) IN
         u \in Thread /\ u.top = t.top /\ u.size = t.size /\ u.calls = t.calls
<1> DEFINE s == [x \in Slot |-> IF x - from \in 0 .. Len(values) - 1 THEN values[x - from + 1] ELSE t.stack[x]]
<1>1. put(t, from, values) = [t EXCEPT !.stack = s]
  BY DEF put
<1>2. s \in [Slot -> Stored]
  <2> SUFFICES ASSUME NEW x \in Slot
               PROVE  s[x] \in Stored
    OBVIOUS
  <2>1. CASE x - from \in 0 .. Len(values) - 1
    <3>1. x - from + 1 \in 1 .. Len(values)
      BY <2>1, SizesFit DEF Slot
    <3> QED
      BY <2>1, <3>1, ElementOfSeq
  <2> QED
    BY <2>1 DEF Thread
<1> HIDE DEF s
<1> QED
  BY <1>1, <1>2 DEF Thread

LEMMA pushedOK ==
  ASSUME NEW t \in Thread, NEW values \in Seq(Stored)
  PROVE  LET u == pushed(t, values) IN
         u \in Thread /\ u.top = t.top + Len(values) /\ u.size = t.size /\ u.calls = t.calls
<1> PICK p : p = put(t, t.top, values)
  OBVIOUS
<1>1. p \in Thread /\ p.top = t.top /\ p.size = t.size /\ p.calls = t.calls
  BY putOK DEF Thread
<1>2. pushed(t, values) = [p EXCEPT !.top = p.top + Len(values)]
  BY DEF pushed
<1>3. Len(values) \in Nat
  BY LenProperties
<1> QED
  BY <1>1, <1>2, <1>3, SMTT(30) DEF Thread

\* The frames of a thread but the last, and the last.
LEMMA callsOK ==
  ASSUME NEW t \in Thread
  PROVE  /\ Len(t.calls) \in Nat /\ \A i \in 1 .. Len(t.calls) : t.calls[i] \in CallInfo
         /\ Len(t.calls) >= 1 => ci(t) \in CallInfo /\ ci(t) = t.calls[Len(t.calls)]
<1>1. t.calls \in Seq(CallInfo)
  BY DEF Thread
<1> QED
  BY <1>1, LenProperties, ElementOfSeq DEF ci, Last

LEMMA currentOK ==
  ASSUME NEW t \in Thread, Len(t.calls) >= 1, NEW c \in CallInfo
  PROVE  LET u == current(t, c) IN
         /\ u \in Thread /\ u.stack = t.stack /\ u.top = t.top /\ u.size = t.size
         /\ Len(u.calls) = Len(t.calls) /\ ci(u) = c
         /\ \A i \in 1 .. Len(t.calls) - 1 : u.calls[i] = t.calls[i]
<1>1. t.calls \in Seq(CallInfo) /\ Len(t.calls) \in Nat /\ Len(t.calls) \in 1 .. Len(t.calls)
  BY callsOK DEF Thread
<1> PICK s : s = [t.calls EXCEPT ![Len(t.calls)] = c]
  OBVIOUS
<1>2. /\ s \in Seq(CallInfo) /\ Len(s) = Len(t.calls)
      /\ \A j \in 1 .. Len(t.calls) : s[j] = IF j = Len(t.calls) THEN c ELSE t.calls[j]
  BY <1>1, ExceptSeq
<1>3. current(t, c) = [t EXCEPT !.calls = s]
  BY DEF current
<1>4. s[Len(t.calls)] = c /\ \A i \in 1 .. Len(t.calls) - 1 : s[i] = t.calls[i]
  BY <1>1, <1>2
<1> QED
  BY <1>2, <1>3, <1>4 DEF Thread, ci, Last

LEMMA appendedOK ==
  ASSUME NEW t \in Thread, NEW c \in CallInfo
  PROVE  LET u == [t EXCEPT !.calls = Append(@, c)] IN
         /\ u \in Thread /\ u.stack = t.stack /\ u.top = t.top /\ u.size = t.size
         /\ Len(u.calls) = Len(t.calls) + 1 /\ ci(u) = c
         /\ \A i \in 1 .. Len(t.calls) : u.calls[i] = t.calls[i]
<1>1. t.calls \in Seq(CallInfo) /\ Len(t.calls) \in Nat
  BY callsOK DEF Thread
<1> PICK s : s = Append(t.calls, c)
  OBVIOUS
<1>2. /\ s \in Seq(CallInfo) /\ Len(s) = Len(t.calls) + 1 /\ s[Len(t.calls) + 1] = c
      /\ \A j \in 1 .. Len(t.calls) : s[j] = t.calls[j]
  BY <1>1, AppendProperties
<1> QED
  BY <1>2 DEF Thread, ci, Last

LEMMA frontOK ==
  ASSUME NEW t \in Thread, Len(t.calls) > 1
  PROVE  LET s == Front(t.calls) IN
         /\ s \in Seq(CallInfo) /\ Len(s) = Len(t.calls) - 1
         /\ \A i \in 1 .. Len(t.calls) - 1 : s[i] = t.calls[i]
<1>1. t.calls \in Seq(CallInfo)
  BY DEF Thread
<1>0. Len(t.calls) \in Nat
  BY callsOK
<1> PICK n \in Nat : n = Len(t.calls) - 1
  BY <1>0
<1>2. n >= 1 /\ Len(t.calls) = n + 1 /\ \A i \in 1 .. n : t.calls[i] \in CallInfo
  BY callsOK
<1>3. /\ SubSeq(t.calls, 1, n) \in Seq(CallInfo)
      /\ Len(SubSeq(t.calls, 1, n)) = IF 1 <= n THEN n - 1 + 1 ELSE 0
      /\ \A i \in 1 .. n - 1 + 1 : SubSeq(t.calls, 1, n)[i] = t.calls[1 + i - 1]
  BY <1>1, <1>2, SubSeqProperties
<1>4. Len(SubSeq(t.calls, 1, n)) = n /\ \A i \in 1 .. n : SubSeq(t.calls, 1, n)[i] = t.calls[i]
  BY <1>2, <1>3
<1> QED
  BY <1>2, <1>3, <1>4 DEF Front

------------------------------------------------------------------------------
(***************************************************************************)
(* Threads that fit. An operation builds a thread from one that fits: with *)
(* the same frames but the last, with one more, or with one less.          *)
(***************************************************************************)
LEMMA FrameKept ==
  ASSUME NEW t \in Thread, NEW u \in Thread, t.size <= u.size, NEW c \in CallInfo, FrameOK(t, c)
  PROVE  FrameOK(u, c)
<1>1. /\ t.size \in Nat /\ u.size \in Nat /\ c.begin \in Nat /\ c.used \in Nat /\ c.end \in Nat
      /\ c.retTo \in Nat /\ c.want \in Nat
  BY DEF Thread, CallInfo
<1>2. limit(t) \in Int /\ limit(u) \in Int /\ limit(t) <= limit(u)
  BY <1>1, Sizes DEF limit
<1>3. c.end <= limit(u)
  BY <1>1, <1>2 DEF FrameOK
<1>4. c.want # BCVARRET => c.retTo + c.want <= limit(u)
  BY <1>1, <1>2 DEF FrameOK
<1>5. isByte(c) => c.begin + MaxStack <= limit(u) /\ c.begin + c.used <= limit(u)
  BY <1>1, <1>2, Sizes DEF FrameOK
<1> QED
  BY <1>3, <1>4, <1>5 DEF FrameOK

LEMMA Reframed ==
  ASSUME NEW t, Fits(t), NEW u \in Thread,
         t.size <= u.size, u.size <= STACK_MAXSIZE, u.top <= limit(u),
         Len(u.calls) = Len(t.calls), \A i \in 1 .. Len(t.calls) - 1 : u.calls[i] = t.calls[i],
         FrameOK(u, ci(u)), ci(t).base <= ci(u).base, ci(u).want = ci(t).want, ci(u).retTo = ci(t).retTo,
         ci(t).run = "host" => ci(u).run = "host",
         ~isByte(ci(u)) => begin(u) <= u.top
  PROVE  Fits(u)
<1>1. t \in Thread /\ Len(t.calls) >= 1 /\ t.calls[1].run = "host"
      /\ (\A i \in 1 .. Len(t.calls) : FrameOK(t, t.calls[i]))
      /\ \A i \in 1 .. Len(t.calls) - 1 : Nested(t.calls[i], t.calls[i + 1])
  BY DEF Fits
<1> PICK n \in Nat : n = Len(t.calls)
  BY <1>1, callsOK
<1>2. /\ \A i \in 1 .. n : t.calls[i] \in CallInfo /\ u.calls[i] \in CallInfo
      /\ ci(t) = t.calls[n] /\ ci(u) = u.calls[n]
  BY <1>1, callsOK
<1>3. \A i \in 1 .. n : FrameOK(u, u.calls[i])
  <2> TAKE i \in 1 .. n
  <2>1. CASE i = n
    BY <1>2, <2>1
  <2>2. CASE i < n
    <3>1. u.calls[i] = t.calls[i] /\ FrameOK(t, t.calls[i]) /\ t.calls[i] \in CallInfo
      BY <1>1, <1>2, <2>2
    <3> QED
      BY <1>1, <3>1, FrameKept
  <2> QED
    BY <2>1, <2>2
<1>4. \A i \in 1 .. n - 1 : Nested(u.calls[i], u.calls[i + 1])
  <2> TAKE i \in 1 .. n - 1
  <2>1. u.calls[i] = t.calls[i] /\ Nested(t.calls[i], t.calls[i + 1]) /\ i + 1 \in 1 .. n /\ i \in 1 .. n
    BY <1>1
  <2>2. CASE i + 1 < n
    <3>1. i + 1 \in 1 .. Len(t.calls) - 1
      BY <2>2
    <3> QED
      BY <2>1, <3>1
  <2>3. CASE i + 1 = n
    <3>1. /\ t.calls[i + 1].base <= u.calls[i + 1].base /\ u.calls[i + 1].want = t.calls[i + 1].want
          /\ u.calls[i + 1].retTo = t.calls[i + 1].retTo
      BY <1>2, <2>3
    <3>2. /\ t.calls[i].begin \in Nat /\ t.calls[i + 1].base \in Nat /\ u.calls[i + 1].base \in Nat
      BY <1>2, <2>1 DEF CallInfo
    <3> QED
      BY <2>1, <3>1, <3>2 DEF Nested
  <2> QED
    BY <2>1, <2>2, <2>3
<1>5. u.calls[1].run = "host"
  BY <1>1, <1>2
<1> QED
  BY <1>1, <1>3, <1>4, <1>5 DEF Fits

LEMMA Entered ==
  ASSUME NEW t, Fits(t), NEW u \in Thread,
         t.size <= u.size, u.size <= STACK_MAXSIZE, u.top <= limit(u),
         Len(u.calls) = Len(t.calls) + 1, \A i \in 1 .. Len(t.calls) : u.calls[i] = t.calls[i],
         FrameOK(u, ci(u)), Nested(ci(t), ci(u)),
         ~isByte(ci(u)) => begin(u) <= u.top
  PROVE  Fits(u)
<1>1. t \in Thread /\ Len(t.calls) >= 1 /\ t.calls[1].run = "host"
      /\ (\A i \in 1 .. Len(t.calls) : FrameOK(t, t.calls[i]))
      /\ \A i \in 1 .. Len(t.calls) - 1 : Nested(t.calls[i], t.calls[i + 1])
  BY DEF Fits
<1> PICK n \in Nat : n = Len(t.calls)
  BY <1>1, callsOK
<1>2. /\ \A i \in 1 .. n : t.calls[i] \in CallInfo
      /\ ci(t) = t.calls[n] /\ ci(u) = u.calls[n + 1]
  BY <1>1, callsOK
<1>3. \A i \in 1 .. n + 1 : FrameOK(u, u.calls[i])
  <2> TAKE i \in 1 .. n + 1
  <2>1. CASE i = n + 1
    BY <1>2, <2>1
  <2>2. CASE i <= n
    <3>1. u.calls[i] = t.calls[i] /\ FrameOK(t, t.calls[i]) /\ t.calls[i] \in CallInfo
      BY <1>1, <1>2, <2>2
    <3> QED
      BY <1>1, <3>1, FrameKept
  <2> QED
    BY <2>1, <2>2
<1>4. \A i \in 1 .. n : Nested(u.calls[i], u.calls[i + 1])
  <2> TAKE i \in 1 .. n
  <2>1. CASE i = n
    BY <1>1, <1>2, <2>1
  <2>2. CASE i < n
    <3>1. i \in 1 .. n - 1 /\ i + 1 \in 1 .. n
      BY <2>2
    <3> QED
      BY <1>1, <3>1
  <2> QED
    BY <2>1, <2>2
<1> QED
  BY <1>1, <1>3, <1>4 DEF Fits

LEMMA Left ==
  ASSUME NEW t, Fits(t), Len(t.calls) > 1, NEW u \in Thread,
         t.size = u.size, u.top <= limit(u),
         Len(u.calls) = Len(t.calls) - 1, \A i \in 1 .. Len(t.calls) - 2 : u.calls[i] = t.calls[i],
         FrameOK(u, ci(u)), ci(u).base = t.calls[Len(t.calls) - 1].base,
         ci(u).retTo = t.calls[Len(t.calls) - 1].retTo, ci(u).want = t.calls[Len(t.calls) - 1].want,
         ci(u).run = t.calls[Len(t.calls) - 1].run,
         ~isByte(ci(u)) => begin(u) <= u.top
  PROVE  Fits(u)
<1>1. t \in Thread /\ t.calls[1].run = "host" /\ t.size <= STACK_MAXSIZE
      /\ (\A i \in 1 .. Len(t.calls) : FrameOK(t, t.calls[i]))
      /\ \A i \in 1 .. Len(t.calls) - 1 : Nested(t.calls[i], t.calls[i + 1])
  BY DEF Fits
<1> PICK n \in Nat : n = Len(t.calls) - 1
  BY <1>1, callsOK
<1>2. /\ \A i \in 1 .. n : t.calls[i] \in CallInfo /\ u.calls[i] \in CallInfo
      /\ n >= 1 /\ ci(u) = u.calls[n] /\ Len(t.calls) = n + 1 /\ Len(u.calls) = n
      /\ \A i \in 1 .. n - 1 : u.calls[i] = t.calls[i]
  BY <1>1, callsOK
<1>3. \A i \in 1 .. n : FrameOK(u, u.calls[i])
  <2> TAKE i \in 1 .. n
  <2>1. CASE i = n
    BY <1>2, <2>1
  <2>2. CASE i < n
    <3>1. u.calls[i] = t.calls[i] /\ FrameOK(t, t.calls[i]) /\ t.calls[i] \in CallInfo
      BY <1>1, <1>2, <2>2
    <3>2. t.size <= u.size
      BY <1>1 DEF Thread
    <3> QED
      BY <1>1, <3>1, <3>2, FrameKept
  <2> QED
    BY <2>1, <2>2
<1>4. \A i \in 1 .. n - 1 : Nested(u.calls[i], u.calls[i + 1])
  <2> TAKE i \in 1 .. n - 1
  <2>1. u.calls[i] = t.calls[i] /\ Nested(t.calls[i], t.calls[i + 1]) /\ i + 1 \in 1 .. n
    BY <1>1, <1>2
  <2>2. CASE i + 1 < n
    BY <1>2, <2>1, <2>2
  <2>3. CASE i + 1 = n
    BY <1>2, <2>1, <2>3 DEF Nested
  <2> QED
    BY <2>1, <2>2, <2>3
<1>5. u.calls[1].run = "host"
  BY <1>1, <1>2, SMTT(30)
<1> QED
  BY <1>1, <1>2, <1>3, <1>4, <1>5 DEF Fits

------------------------------------------------------------------------------
(***************************************************************************)
(* Room. Unless the stack is full needMoreLocal makes it, and with it the  *)
(* end of the running frame moves up; neither ever moves beyond the limit. *)
(***************************************************************************)
\* d is c, laid out from b to e.
Laid(c, d, b, e) ==
  d = [run |-> c.run, begin |-> b, end |-> e, base |-> c.base, retTo |-> c.retTo, want |-> c.want, used |-> c.used]

LEMMA stkGrowOK ==
  ASSUME NEW t \in Thread, t.size <= STACK_MAXSIZE, NEW n \in Nat, ~isFull(t, n)
  PROVE  \E z \in Nat : /\ stkGrow(t, n) = [t EXCEPT !.size = z]
                        /\ t.size <= z /\ z <= STACK_MAXSIZE /\ t.top + n + STACK_EXTRA <= z
<1> DEFINE z == greater(lesser(2 * t.size, STACK_MAXSIZE), t.top + n + STACK_EXTRA)
<1>1. t.size \in Nat /\ t.top \in Nat
  BY DEF Thread
<1>2. t.top + n + STACK_EXTRA <= STACK_MAXSIZE
  BY <1>1, Sizes DEF isFull
<1>3. z \in Nat /\ t.size <= z /\ z <= STACK_MAXSIZE /\ t.top + n + STACK_EXTRA <= z
  BY <1>1, <1>2, Sizes DEF greater, lesser
<1>4. stkGrow(t, n) = [t EXCEPT !.size = z]
  BY <1>1, <1>3, Sizes DEF stkGrow
<1> QED
  BY <1>3, <1>4

LEMMA needMoreLocalOK ==
  ASSUME NEW t \in Thread, Len(t.calls) >= 1, t.size <= STACK_MAXSIZE, t.top <= limit(t),
         ci(t).end <= limit(t), NEW n \in Nat, NEW u, u = needMoreLocal(t, n)
  PROVE  /\ u \in Thread /\ u.stack = t.stack /\ u.top = t.top /\ t.size <= u.size /\ u.size <= STACK_MAXSIZE
         /\ Len(u.calls) = Len(t.calls) /\ \A i \in 1 .. Len(t.calls) - 1 : u.calls[i] = t.calls[i]
         /\ \E e \in Nat : /\ Laid(ci(t), ci(u), begin(t), e) /\ ci(t).end <= e /\ e <= limit(u)
                           /\ ~isFull(t, n) => t.top + n <= e
<1> DEFINE room      == t.size - STACK_EXTRA - t.top
           enough    == room < 0 \/ room > n + STACK_EXTRA
           raised(x) == current(x, [ci(x) EXCEPT !.end = greater(@, x.top + n)])
<1>1. t.size \in Nat /\ t.top \in Nat /\ ci(t) \in CallInfo /\ ci(t).end \in Nat
  BY callsOK DEF Thread, CallInfo
<1>2. ASSUME NEW x \in Thread, x.stack = t.stack, x.top = t.top, x.calls = t.calls,
             t.size <= x.size, x.size <= STACK_MAXSIZE, t.top + n <= limit(x), u = raised(x)
      PROVE  /\ u \in Thread /\ u.stack = t.stack /\ u.top = t.top /\ t.size <= u.size /\ u.size <= STACK_MAXSIZE
             /\ Len(u.calls) = Len(t.calls) /\ \A i \in 1 .. Len(t.calls) - 1 : u.calls[i] = t.calls[i]
             /\ \E e \in Nat : /\ Laid(ci(t), ci(u), begin(t), e) /\ ci(t).end <= e /\ e <= limit(u)
                               /\ ~isFull(t, n) => t.top + n <= e
    <2> PICK c \in CallInfo : c = ci(t)
      BY <1>1
    <2> PICK e \in Nat : e = greater(ci(t).end, t.top + n)
      BY <1>1 DEF greater
    <2>1. x.size \in Nat /\ ci(x) = ci(t)
      BY <1>2 DEF Thread, ci
    <2>2. ci(t).end <= e /\ t.top + n <= e /\ e <= limit(x)
      <3>1. limit(t) \in Int /\ limit(x) \in Int /\ limit(t) <= limit(x)
        <4> PICK a \in Nat, b \in Nat, z \in Nat : a = t.size /\ b = x.size /\ z = STACK_EXTRA
          BY <1>1, <2>1, Sizes
        <4>1. a <= b
          BY <1>2
        <4>2. limit(t) = a - z /\ limit(x) = b - z
          BY DEF limit
        <4> QED
          BY SMTT(30), <4>1, <4>2
      <3>2. ci(t).end <= limit(x)
        BY <1>1, <3>1
      <3> QED
        BY <1>1, <1>2, <3>1, <3>2 DEF greater
    <2> PICK d \in CallInfo : d = [c EXCEPT !.end = e]
      BY <1>1 DEF CallInfo
    <2>5. Laid(c, d, c.begin, e)
      BY DEF Laid, CallInfo
    <2>6. begin(t) = c.begin
      BY DEF begin
    <2>3. u = current(x, d)
      BY <1>2, <2>1
    <2>4. /\ u \in Thread /\ u.stack = x.stack /\ u.top = x.top /\ u.size = x.size
          /\ Len(u.calls) = Len(x.calls) /\ ci(u) = d
          /\ \A i \in 1 .. Len(x.calls) - 1 : u.calls[i] = x.calls[i]
      <3>1. Len(x.calls) >= 1
        BY <1>2
      <3>2. x \in Thread
        BY <1>2
      <3> QED
        BY ONLY <2>3, <3>1, <3>2, d \in CallInfo, currentOK
    <2> QED
      BY <1>2, <2>2, <2>4, <2>5, <2>6 DEF limit
<1>3. u = IF enough THEN raised(t) ELSE IF isFull(t, n) THEN t ELSE raised(stkGrow(t, n))
  BY DEF needMoreLocal
<1>4. CASE enough
  <2>1. t.top + n <= limit(t)
    BY <1>1, <1>4, Sizes DEF limit
  <2>2. u = raised(t)
    BY <1>3, <1>4
  <2> HIDE DEF raised
  <2> QED
    BY <1>1, <1>2, <2>1, <2>2
<1>5. CASE ~enough /\ isFull(t, n)
  <2>1. u = t
    BY <1>3, <1>5
  <2>2. Laid(ci(t), ci(t), begin(t), ci(t).end)
    BY <1>1 DEF CallInfo, Laid, begin
  <2> QED
    BY <1>1, <1>5, <2>1, <2>2
<1>6. CASE ~enough /\ ~isFull(t, n)
  <2>1. PICK z \in Nat : /\ stkGrow(t, n) = [t EXCEPT !.size = z]
                         /\ t.size <= z /\ z <= STACK_MAXSIZE /\ t.top + n + STACK_EXTRA <= z
    BY <1>6, stkGrowOK
  <2> PICK x : x = stkGrow(t, n)
    OBVIOUS
  <2>2. x \in Thread /\ x.stack = t.stack /\ x.top = t.top /\ x.calls = t.calls /\ x.size = z
    BY <2>1 DEF Thread
  <2>3. t.top + n <= limit(x)
    <3>1. limit(x) = z - STACK_EXTRA
      BY <2>2 DEF limit
    <3>2. t.top \in Nat /\ t.top + n + STACK_EXTRA <= z /\ z \in Nat /\ n \in Nat
      BY <1>1, <2>1
    <3> QED
      BY ONLY <3>1, <3>2, Sizes
  <2>4. u = raised(x)
    BY <1>3, <1>6
  <2> HIDE DEF raised
  <2> QED
    BY <1>2, <2>1, <2>2, <2>3, <2>4
<1> QED
  BY <1>4, <1>5, <1>6

------------------------------------------------------------------------------
(***************************************************************************)
(* Calls. The area of byte code begins where stk_top was at the latest, so *)
(* that the room asked for above stk_top is enough for its registers.      *)
(***************************************************************************)
LEMMA Framed ==
  ASSUME NEW u, limit(u) \in Int, NEW c \in CallInfo, NEW d, NEW b \in Nat, NEW e \in Nat,
         c.base < c.begin, c.retTo \in c.base .. c.begin, isByte(c), e <= limit(u),
         c.want # BCVARRET => c.retTo + c.want <= limit(u),
         c.begin <= b, b + MaxStack <= e, c.run = "v" => b >= c.begin + NParms,
         d.run = c.run, d.base = c.base, d.retTo = c.retTo, d.want = c.want,
         d.end = e, d.begin = b, d.used = NParms
  PROVE  FrameOK(u, d)
<1>1. {c.begin, c.base, c.retTo, c.want} \subseteq Nat
  BY DEF CallInfo
<1>2. d.base < d.begin /\ d.retTo \in d.base .. d.begin
  BY <1>1
<1>3. isByte(d)
  BY DEF isByte
<1>4. d.begin + MaxStack <= limit(u) /\ d.begin + d.used <= limit(u)
  BY Sizes
<1>5. d.run = "v" => d.begin > d.base + NParms
  BY <1>1, Sizes
<1> QED
  BY <1>2, <1>3, <1>4, <1>5 DEF FrameOK

LEMMA frameOfOK ==
  ASSUME NEW t \in Thread, Len(t.calls) >= 1, t.size <= STACK_MAXSIZE, t.top <= limit(t),
         ci(t).end <= limit(t), ~isFull(t, MaxStack), isByte(ci(t)), ci(t).base < begin(t), begin(t) <= t.top,
         ci(t).retTo \in ci(t).base .. begin(t), ci(t).want # BCVARRET => ci(t).retTo + ci(t).want <= limit(t),
         ci(t).run = "v" => begin(t) + NParms <= t.top, NEW n \in Nat, n = t.top - begin(t),
         NEW u, u = frameOf(t, n)
  PROVE  /\ u \in Thread /\ t.size <= u.size /\ u.size <= STACK_MAXSIZE /\ u.top <= limit(u)
         /\ Len(u.calls) = Len(t.calls) /\ \A i \in 1 .. Len(t.calls) - 1 : u.calls[i] = t.calls[i]
         /\ ci(u).run = ci(t).run /\ ci(u).base = ci(t).base /\ ci(u).retTo = ci(t).retTo
         /\ ci(u).want = ci(t).want /\ FrameOK(u, ci(u))
<1> PICK c \in CallInfo : c = ci(t)
  BY callsOK
<1> PICK room : room = needMoreLocal(t, MaxStack)
  OBVIOUS
<1>1. MaxStack \in Nat
  BY Sizes
<1>2. /\ room \in Thread /\ room.stack = t.stack /\ room.top = t.top /\ t.size <= room.size
      /\ room.size <= STACK_MAXSIZE
      /\ Len(room.calls) = Len(t.calls) /\ \A i \in 1 .. Len(t.calls) - 1 : room.calls[i] = t.calls[i]
      /\ \E e \in Nat : /\ Laid(ci(t), ci(room), begin(t), e) /\ ci(t).end <= e /\ e <= limit(room)
                        /\ ~isFull(t, MaxStack) => t.top + MaxStack <= e
  <2>1. /\ t \in Thread /\ Len(t.calls) >= 1 /\ t.size <= STACK_MAXSIZE /\ t.top <= limit(t)
        /\ ci(t).end <= limit(t) /\ room = needMoreLocal(t, MaxStack)
    OBVIOUS
  <2> QED
    BY ONLY <1>1, <2>1, needMoreLocalOK
<1> PICK e \in Nat : Laid(c, ci(room), begin(t), e) /\ e <= limit(room) /\ t.top + MaxStack <= e
  BY <1>2
<1> PICK padded : padded = pushed(room, nulls(NParms - n))
  OBVIOUS
<1>3. nulls(NParms - n) \in Seq(Stored) /\ Len(nulls(NParms - n)) = greater(NParms - n, 0)
  <2>1. NParms - n \in Int
    BY ONLY Sizes, n \in Nat
  <2> QED
    BY ONLY <2>1, nullsOK
<1>4. /\ padded \in Thread /\ padded.top = t.top + greater(NParms - n, 0) /\ padded.size = room.size
      /\ padded.calls = room.calls /\ ci(padded) = ci(room)
  BY <1>2, <1>3, pushedOK DEF ci
<1> PICK moved : moved = put(pushed(padded, slots(padded, begin(t), begin(t) + NParms)), begin(t), nulls(NParms))
  OBVIOUS
<1> PICK tidy : tidy = IF isVarParm(ci(t).run) THEN current(moved, [ci(moved) EXCEPT !.begin = padded.top]) ELSE padded
  OBVIOUS
<1>5. /\ begin(t) = c.begin /\ c.begin \in Nat /\ t.top \in Nat /\ room.size \in Nat /\ t.size \in Nat
      /\ c.base \in Nat /\ c.retTo \in Nat /\ c.want \in Nat /\ c.run \in {"b", "v"}
  BY <1>2 DEF begin, Thread, CallInfo, isByte
<1>0. u = current([tidy EXCEPT !.top = ci(tidy).end], [ci(tidy) EXCEPT !.used = NParms])
  BY <1>2, <1>5 DEF frameOf, begin
<1>6. \E b \in Nat : /\ tidy \in Thread /\ tidy.size = room.size /\ Len(tidy.calls) = Len(t.calls)
                     /\ (\A i \in 1 .. Len(t.calls) - 1 : tidy.calls[i] = t.calls[i])
                     /\ Laid(c, ci(tidy), b, e)
                     /\ c.begin <= b /\ b + MaxStack <= e /\ (c.run = "v" => b >= c.begin + NParms)
  <2>1. CASE c.run = "b"
    <3>1. tidy = padded
      BY <2>1 DEF isVarParm
    <3>2. Laid(c, ci(tidy), c.begin, e)
      BY <1>4, <1>5, <3>1
    <3>3. c.begin + MaxStack <= e
      BY <1>1, <1>5
    <3>4. /\ tidy.size = room.size /\ Len(tidy.calls) = Len(t.calls) /\ tidy \in Thread
          /\ \A i \in 1 .. Len(t.calls) - 1 : tidy.calls[i] = t.calls[i]
      BY ONLY <1>2, <1>4, <3>1
    <3> QED
      BY ONLY <1>5, <2>1, <3>2, <3>3, <3>4
  <2>2. CASE c.run = "v"
    <3>1. c.begin + NParms <= t.top
      BY <1>5, <2>2
    <3>2. padded.top = t.top
      <4>1. n = t.top - c.begin
        BY <1>5
      <4> QED
        BY ONLY <1>4, <1>5, <3>1, <4>1, Sizes DEF greater
    <3>3. /\ slots(padded, c.begin, c.begin + NParms) \in Seq(Stored)
      <4>1. c.begin + NParms \in Nat /\ c.begin <= c.begin + NParms
        BY ONLY <1>5, Sizes
      <4>2. c.begin + NParms <= STACK_ERRORSIZE
        <5>1. t.top <= limit(t) /\ t.size <= STACK_MAXSIZE
          OBVIOUS
        <5>2. t.top <= t.size
          BY ONLY <1>5, <5>1, Sizes DEF limit
        <5> QED
          BY ONLY <1>5, <3>1, <5>1, <5>2, <4>1, Sizes
      <4> QED
        BY <1>4, <1>5, <4>1, <4>2, slotsOK
    <3> PICK p : p = pushed(padded, slots(padded, c.begin, c.begin + NParms))
      OBVIOUS
    <3>4. p \in Thread /\ p.size = padded.size /\ p.calls = padded.calls
      BY <1>4, <3>3, pushedOK
    <3>5. nulls(NParms) \in Seq(Stored)
      BY nullsOK, Sizes
    <3>6. moved = put(p, c.begin, nulls(NParms))
      BY <1>5
    <3>7. moved \in Thread /\ moved.size = p.size /\ moved.calls = p.calls
      <4>1. c.begin \in Int
        BY <1>5
      <4> QED
        BY ONLY <3>4, <3>5, <3>6, <4>1, putOK
    <3>8. ci(moved) = ci(room) /\ Len(moved.calls) >= 1
      BY <1>2, <1>4, <3>4, <3>7 DEF ci
    <3> PICK d \in CallInfo : Laid(c, d, t.top, e)
      BY <1>5 DEF CallInfo, Laid
    <3>9. [ci(moved) EXCEPT !.begin = padded.top] = d
      BY <3>2, <3>8 DEF Laid
    <3>10. tidy = current(moved, d)
      BY <2>2, <3>9 DEF isVarParm
    <3>11. /\ tidy \in Thread /\ tidy.size = moved.size /\ Len(tidy.calls) = Len(moved.calls) /\ ci(tidy) = d
           /\ \A i \in 1 .. Len(moved.calls) - 1 : tidy.calls[i] = moved.calls[i]
      BY ONLY <3>7, <3>8, d \in CallInfo, <3>10, currentOK
    <3>12. c.begin <= t.top /\ t.top + MaxStack <= e
      BY <1>5
    <3>13. /\ tidy.size = room.size /\ Len(tidy.calls) = Len(t.calls)
           /\ \A i \in 1 .. Len(t.calls) - 1 : tidy.calls[i] = t.calls[i]
      BY ONLY <1>2, <1>4, <3>4, <3>7, <3>11
    <3>14. Laid(c, ci(tidy), t.top, e)
      BY <3>11
    <3> QED
      BY ONLY <1>5, <3>1, <3>11, <3>12, <3>13, <3>14
  <2>3. c.run \in {"b", "v"}
    BY <1>5
  <2> QED
    BY ONLY <2>1, <2>2, <2>3
<1> PICK b \in Nat : /\ tidy \in Thread /\ tidy.size = room.size /\ Len(tidy.calls) = Len(t.calls)
                     /\ (\A i \in 1 .. Len(t.calls) - 1 : tidy.calls[i] = t.calls[i])
                     /\ Laid(c, ci(tidy), b, e)
                     /\ c.begin <= b /\ b + MaxStack <= e /\ (c.run = "v" => b >= c.begin + NParms)
  BY <1>6
<1> PICK x : x = [tidy EXCEPT !.top = e]
  OBVIOUS
<1>7. x \in Thread /\ x.top = e /\ x.size = room.size /\ x.calls = tidy.calls
  <2>1. tidy \in Thread /\ tidy.size = room.size /\ x = [tidy EXCEPT !.top = e] /\ e \in Nat
    OBVIOUS
  <2> QED
    BY ONLY <2>1 DEF Thread
<1> PICK d \in CallInfo : d = [run |-> c.run, begin |-> b, end |-> e, base |-> c.base, retTo |-> c.retTo,
                                want |-> c.want, used |-> NParms]
  BY Sizes DEF CallInfo
<1>8. ci(tidy).end = e /\ [ci(tidy) EXCEPT !.used = NParms] = d
  <2> PICK y : y = ci(tidy)
    OBVIOUS
  <2>1. y = [run |-> c.run, begin |-> b, end |-> e, base |-> c.base, retTo |-> c.retTo,
             want |-> c.want, used |-> c.used]
    BY DEF Laid
  <2>2. d = [run |-> c.run, begin |-> b, end |-> e, base |-> c.base, retTo |-> c.retTo,
             want |-> c.want, used |-> NParms]
    OBVIOUS
  <2>3. y.end = e /\ [y EXCEPT !.used = NParms] = d
    BY ONLY <2>1, <2>2
  <2> QED
    BY <2>3
<1>9. u = current(x, d) /\ Len(x.calls) >= 1
  BY <1>0, <1>7, <1>8
<1>10. /\ u \in Thread /\ u.top = x.top /\ u.size = x.size /\ Len(u.calls) = Len(x.calls) /\ ci(u) = d
       /\ \A i \in 1 .. Len(x.calls) - 1 : u.calls[i] = x.calls[i]
  BY ONLY <1>7, <1>9, d \in CallInfo, currentOK
<1>11. /\ d.run = c.run /\ d.base = c.base /\ d.retTo = c.retTo /\ d.want = c.want
       /\ d.end = e /\ d.begin = b /\ d.used = NParms
  BY DEF CallInfo
<1>12. limit(u) = limit(room) /\ limit(u) \in Int /\ limit(t) \in Int /\ limit(t) <= limit(u)
  <2> PICK z \in Nat : z = STACK_EXTRA
    BY Sizes
  <2>1. limit(u) = room.size - z /\ limit(room) = room.size - z /\ limit(t) = t.size - z
    BY <1>7, <1>10 DEF limit
  <2>2. t.size <= room.size
    BY <1>2
  <2> QED
    BY ONLY <1>5, <2>1, <2>2, z \in Nat
<1>13. FrameOK(u, d)
  <2>1. /\ c.base < c.begin /\ c.retTo \in c.base .. c.begin /\ isByte(c) /\ e <= limit(u)
        /\ (c.want # BCVARRET => c.retTo + c.want <= limit(u))
    <3>1. c.want # BCVARRET => c.retTo + c.want <= limit(t)
      OBVIOUS
    <3>2. c.base < c.begin /\ c.retTo \in c.base .. c.begin /\ isByte(c) /\ e <= limit(room)
      BY <1>5
    <3> QED
      BY ONLY <1>5, <1>12, <3>1, <3>2
  <2>2. c.begin <= b /\ b + MaxStack <= e /\ (c.run = "v" => b >= c.begin + NParms)
    OBVIOUS
  <2> QED
    BY ONLY <1>11, <1>12, <2>1, <2>2, c \in CallInfo, b \in Nat, e \in Nat, Framed
<1>14. /\ Len(tidy.calls) = Len(t.calls) /\ (\A i \in 1 .. Len(t.calls) - 1 : tidy.calls[i] = t.calls[i])
       /\ c = ci(t) /\ e <= limit(room)
  OBVIOUS
<1> QED
  BY ONLY <1>2, <1>7, <1>10, <1>11, <1>12, <1>13, <1>14

\* The types of what proofs about a thread that fits add up.
LEMMA FitsTypes ==
  ASSUME NEW t, Fits(t)
  PROVE  /\ t \in Thread /\ t.size \in Nat /\ t.top \in Nat /\ limit(t) \in Int /\ limit(t) < STACK_MAXSIZE
         /\ t.top <= limit(t) /\ t.size <= STACK_MAXSIZE
         /\ Len(t.calls) \in Nat /\ Len(t.calls) >= 1 /\ ci(t) = t.calls[Len(t.calls)]
         /\ ci(t) \in CallInfo /\ begin(t) = ci(t).begin /\ FrameOK(t, ci(t))
         /\ {begin(t), ci(t).begin, ci(t).end, ci(t).base, ci(t).retTo, ci(t).want, ci(t).used} \subseteq Nat
<1>1. t \in Thread /\ Len(t.calls) >= 1 /\ t.top <= limit(t) /\ t.size <= STACK_MAXSIZE
      /\ \A i \in 1 .. Len(t.calls) : FrameOK(t, t.calls[i])
  BY DEF Fits
<1>2. t.size \in Nat /\ t.top \in Nat
  BY <1>1 DEF Thread
<1>3. Len(t.calls) \in Nat /\ ci(t) \in CallInfo /\ ci(t) = t.calls[Len(t.calls)]
  BY <1>1, callsOK
<1>4. limit(t) \in Int /\ limit(t) < STACK_MAXSIZE
  BY ONLY <1>1, <1>2, Sizes DEF limit
<1>5. FrameOK(t, ci(t))
  BY <1>1, <1>3
<1>6. {begin(t), ci(t).begin, ci(t).end, ci(t).base, ci(t).retTo, ci(t).want, ci(t).used} \subseteq Nat
  BY <1>3 DEF CallInfo, begin
<1> QED
  BY <1>1, <1>2, <1>3, <1>4, <1>5, <1>6 DEF begin

\* An operation that leaves the frames as they are.
LEMMA Moved ==
  ASSUME NEW t, Fits(t), NEW x \in Thread, x.calls = t.calls, x.size = t.size, x.top <= limit(t),
         ~isByte(ci(t)) => begin(t) <= x.top
  PROVE  Fits(x)
<1>1. limit(x) = limit(t) /\ ci(x) = ci(t) /\ begin(x) = begin(t)
  BY DEF limit, ci, begin
<1>2. \A c : FrameOK(t, c) => FrameOK(x, c)
  BY <1>1 DEF FrameOK
<1> QED
  BY <1>1, <1>2 DEF Fits

LEMMA backOK ==
  ASSUME NEW t, Fits(t), NEW x \in Thread, x.calls = t.calls, x.size = t.size, x.top <= limit(t), begin(t) <= x.top
  PROVE  Fits(back(x)) /\ Len(back(x).calls) = Len(t.calls) /\ (~isByte(ci(t)) => back(x) = x)
<1>1. Fits(x) /\ limit(x) = limit(t) /\ ci(x) = ci(t) /\ begin(x) = begin(t)
  BY Moved DEF limit, ci, begin
<1>2. CASE ~isByte(ci(x))
  BY <1>1, <1>2 DEF back
<1>3. CASE isByte(ci(x))
  <2> PICK c \in CallInfo : c = ci(x)
    BY <1>1, FitsTypes
  <2> PICK n \in Nat : n = x.top - begin(x)
    BY <1>1, FitsTypes
  <2> PICK d \in CallInfo : d = [c EXCEPT !.used = n]
    BY DEF CallInfo
  <2> PICK u : u = current(x, d)
    OBVIOUS
  <2>1. back(x) = u
    BY <1>3 DEF back
  <2>2. /\ u \in Thread /\ u.top = x.top /\ u.size = x.size /\ Len(u.calls) = Len(x.calls) /\ ci(u) = d
        /\ \A i \in 1 .. Len(x.calls) - 1 : u.calls[i] = x.calls[i]
    BY <1>1, FitsTypes, currentOK
  <2>3. /\ d.run = c.run /\ d.begin = c.begin /\ d.end = c.end /\ d.base = c.base /\ d.retTo = c.retTo
        /\ d.want = c.want /\ d.used = n
    BY DEF CallInfo
  <2>4. FrameOK(x, c) /\ isByte(c) /\ begin(x) = c.begin /\ x.top <= limit(x) /\ x.top \in Nat /\ c.begin \in Nat
    BY <1>1, <1>3, FitsTypes
  <2>5. limit(u) = limit(x)
    BY <2>2 DEF limit
  <2>6. d.begin + d.used <= limit(x)
    BY <2>3, <2>4
  <2>7. isByte(d)
    BY <2>3, <2>4 DEF isByte
  <2>8. FrameOK(u, d)
    BY ONLY <2>3, <2>4, <2>5, <2>6, <2>7 DEF FrameOK
  <2>9. /\ x.size <= u.size /\ u.size <= STACK_MAXSIZE /\ u.top <= limit(u) /\ c.base <= d.base
        /\ Len(x.calls) = Len(t.calls)
    BY <1>1, <2>2, <2>3, <2>5, FitsTypes
  <2>10. /\ ci(x).base <= ci(u).base /\ ci(u).want = ci(x).want /\ ci(u).retTo = ci(x).retTo
         /\ (ci(x).run = "host" => ci(u).run = "host") /\ FrameOK(u, ci(u)) /\ isByte(ci(u))
    BY <2>2, <2>3, <2>7, <2>8, <2>9
  <2>11. Fits(u)
    BY ONLY <1>1, <2>2, <2>9, <2>10, Reframed
  <2> QED
    BY <1>1, <1>3, <2>1, <2>2, <2>9, <2>11
<1> QED
  BY <1>2, <1>3

LEMMA invalidCallOK ==
  ASSUME NEW t, Fits(t), NEW mv \in Nat, begin(t) <= mv, mv < t.top, NEW want \in Nat,
         want # BCVARRET => mv + want <= limit(t)
  PROVE  Fits(invalidCall(t, mv, want)) /\ Len(invalidCall(t, mv, want).calls) = Len(t.calls)
<1> PICK n : n = IF want = BCVARRET THEN 1 ELSE want
  OBVIOUS
<1>1. n \in Nat /\ mv + n <= limit(t)
  BY FitsTypes
<1>2. nulls(n) \in Seq(Stored)
  BY ONLY <1>1, nullsOK
<1> PICK p : p = put(t, mv, nulls(n))
  OBVIOUS
<1>3. p \in Thread /\ p.size = t.size /\ p.calls = t.calls
  BY <1>2, FitsTypes, putOK
<1> PICK x : x = [p EXCEPT !.top = mv + n]
  OBVIOUS
<1>4. x \in Thread /\ x.size = t.size /\ x.calls = t.calls /\ x.top = mv + n
  BY <1>1, <1>3 DEF Thread
<1>5. begin(t) <= mv + n
  BY <1>1, FitsTypes
<1>6. invalidCall(t, mv, want) = back(x)
  BY DEF invalidCall
<1> QED
  BY <1>1, <1>4, <1>5, <1>6, backOK, ZenonT(60)

\* The stack is not full for a frame that begins where a regular call has it.
LEMMA NotFull ==
  ASSUME Regular, NEW t, t.top \in Nat, NEW v, NEW n, NEW want, NEW set,
         isRegular(v, n, t.top, want, set)
  PROVE  ~isFull(t, MaxStack) /\ ~isFull(t, STACK_MINSIZE)
<1>1. t.top <= STACK_MAXSIZE - greater(MaxStack, STACK_MINSIZE) - STACK_EXTRA
  <2>1. "full" \notin Irregular
    BY DEF Regular
  <2>2. greater(MaxStack, STACK_MINSIZE) \in Nat
    BY Sizes DEF greater
  <2>3. ~(t.top > STACK_MAXSIZE - greater(MaxStack, STACK_MINSIZE) - STACK_EXTRA)
    BY <2>1 DEF isRegular
  <2> QED
    BY <2>2, <2>3, Sizes
<1>2. MaxStack <= greater(MaxStack, STACK_MINSIZE) /\ STACK_MINSIZE <= greater(MaxStack, STACK_MINSIZE)
      /\ greater(MaxStack, STACK_MINSIZE) \in Nat
  BY Sizes DEF greater
<1> QED
  BY <1>1, <1>2, Sizes DEF isFull

FrameAt(run, mv, displaced, want) == newFrame(run, mv, mv + displaced, want)
Entering(t, c) == [t EXCEPT !.calls = Append(@, c)]

\* What has to be so for the area behind slot mv to be made into that of a C method or byte code, t being the thread
\* with the frame that is begun.
CanLayOut(t, run, mv, displaced, want) ==
  /\ t \in Thread /\ Len(t.calls) >= 1 /\ t.size <= STACK_MAXSIZE /\ t.top <= limit(t)
  /\ ci(t) = FrameAt(run, mv, displaced, want) /\ mv \in Nat /\ mv < t.top
  /\ want \in Nat /\ displaced \in {0, 1} /\ (want # BCVARRET => mv + displaced + want <= limit(t))
  /\ ~isFull(t, MaxStack) /\ ~isFull(t, STACK_MINSIZE) /\ run \in {"c", "b", "v"}
  /\ run = "v" => NParms <= t.top - mv - 1
LaidOut(t, run, mv) == IF run = "c" THEN needMoreLocal(t, STACK_MINSIZE) ELSE frameOf(t, t.top - mv - 1)

LEMMA LaidOutOK ==
  ASSUME NEW t, NEW run, NEW mv, NEW displaced, NEW want, CanLayOut(t, run, mv, displaced, want),
         NEW u, u = LaidOut(t, run, mv)
  PROVE  /\ u \in Thread /\ t.size <= u.size /\ u.size <= STACK_MAXSIZE /\ u.top <= limit(u)
         /\ Len(u.calls) = Len(t.calls) /\ \A i \in 1 .. Len(t.calls) - 1 : u.calls[i] = t.calls[i]
         /\ ci(u).run = run /\ ci(u).base = mv /\ ci(u).retTo = mv + displaced /\ ci(u).want = want
         /\ FrameOK(u, ci(u)) /\ (~isByte(ci(u)) => begin(u) <= u.top)
         /\ run = "c" => ci(u).end - u.top >= STACK_MINSIZE
<1> USE DEF CanLayOut
<1> PICK f : f = ci(t)
  OBVIOUS
<1>1. /\ f.run = run /\ f.begin = mv + 1 /\ f.end = mv + 1 /\ f.base = mv /\ f.retTo = mv + displaced
      /\ f.want = want /\ f.used = 0
  BY DEF FrameAt, newFrame
<1>2. t \in Thread /\ t.top \in Nat /\ t.size \in Nat /\ t.top <= limit(t) /\ t.size <= STACK_MAXSIZE
      /\ Len(t.calls) \in Nat /\ Len(t.calls) >= 1 /\ ci(t) = f /\ mv < t.top /\ mv \in Nat
      /\ displaced \in {0, 1} /\ want \in Nat
  BY callsOK DEF Thread
<1>3. limit(t) \in Int /\ mv + 1 <= limit(t) /\ begin(t) = mv + 1
  <2>1. limit(t) \in Int
    BY ONLY <1>2, Sizes DEF limit
  <2> QED
    BY ONLY <1>1, <1>2, <2>1 DEF begin
<1>4. ~isFull(t, MaxStack) /\ ~isFull(t, STACK_MINSIZE)
      /\ (want # BCVARRET => mv + displaced + want <= limit(t)) /\ (run = "v" => NParms <= t.top - mv - 1)
  OBVIOUS
<1>5. CASE run = "c"
  <2>1. u = needMoreLocal(t, STACK_MINSIZE)
    BY <1>5 DEF LaidOut
  <2>2. ci(t).end <= limit(t) /\ STACK_MINSIZE \in Nat
    BY ONLY <1>1, <1>2, <1>3, Sizes
  <2>3. /\ u \in Thread /\ u.top = t.top /\ t.size <= u.size /\ u.size <= STACK_MAXSIZE
        /\ Len(u.calls) = Len(t.calls) /\ \A i \in 1 .. Len(t.calls) - 1 : u.calls[i] = t.calls[i]
    BY ONLY <1>2, <2>1, <2>2, needMoreLocalOK, SMTT(30)
  <2>4. \E e \in Nat : /\ Laid(ci(t), ci(u), begin(t), e) /\ ci(t).end <= e /\ e <= limit(u)
                       /\ ~isFull(t, STACK_MINSIZE) => t.top + STACK_MINSIZE <= e
    BY ONLY <1>2, <2>1, <2>2, needMoreLocalOK
  <2> PICK e \in Nat : Laid(f, ci(u), mv + 1, e) /\ e <= limit(u) /\ t.top + STACK_MINSIZE <= e
    BY ONLY <1>2, <1>3, <1>4, <2>4
  <2> PICK d : d = ci(u)
    OBVIOUS
  <2>5. d = [run |-> "c", begin |-> mv + 1, end |-> e, base |-> mv, retTo |-> mv + displaced,
             want |-> want, used |-> 0]
    BY <1>1, <1>5 DEF Laid
  <2>6. /\ d.run = "c" /\ d.begin = mv + 1 /\ d.end = e /\ d.base = mv /\ d.retTo = mv + displaced
        /\ d.want = want /\ d.used = 0
    BY ONLY <2>5
  <2>7. u.size \in Nat /\ limit(u) \in Int /\ limit(t) <= limit(u)
    <3>1. u.size \in Nat
      BY ONLY <2>3 DEF Thread
    <3> QED
      BY ONLY <1>2, <2>3, <3>1, Sizes DEF limit
  <2>8. ~isByte(d)
    BY ONLY <2>6 DEF isByte
  <2>9. FrameOK(u, d)
    <3>1. e <= limit(u)
      OBVIOUS
    <3>2. d.retTo \in d.base .. d.begin /\ d.base < d.begin
      BY ONLY <1>2, <2>6
    <3>3. want # BCVARRET => mv + displaced + want <= limit(u)
      BY ONLY <1>2, <1>3, <1>4, <2>7
    <3> QED
      BY ONLY <2>6, <2>8, <3>1, <3>2, <3>3 DEF FrameOK
  <2>10. begin(u) <= u.top /\ u.top <= limit(u)
    <3>1. begin(u) = mv + 1
      BY <2>6 DEF begin
    <3> QED
      BY ONLY <1>2, <1>3, <2>3, <2>7, <3>1
  <2>11. ci(u).end - u.top >= STACK_MINSIZE
    <3>1. t.top + STACK_MINSIZE <= e /\ e \in Nat /\ d = ci(u)
      OBVIOUS
    <3> QED
      BY ONLY <1>2, <2>3, <2>6, <3>1, Sizes
  <2>12. d = ci(u)
    OBVIOUS
  <2> QED
    BY ONLY <1>5, <2>3, <2>6, <2>9, <2>10, <2>11, <2>12
<1>6. CASE run \in {"b", "v"}
  <2> PICK n : n = t.top - mv - 1
    OBVIOUS
  <2>1. u = frameOf(t, n) /\ n \in Nat /\ n = t.top - begin(t)
    <3>1. n \in Nat /\ n = t.top - begin(t)
      BY <1>2, <1>3
    <3> QED
      BY <1>6, <3>1 DEF LaidOut
  <2>2. ci(t).end <= limit(t) /\ isByte(ci(t)) /\ ci(t).base < begin(t) /\ begin(t) <= t.top
    BY ONLY <1>1, <1>2, <1>3, <1>6 DEF isByte
  <2>3. ci(t).retTo \in ci(t).base .. begin(t)
    BY ONLY <1>1, <1>2, <1>3
  <2>4. ci(t).want # BCVARRET => ci(t).retTo + ci(t).want <= limit(t)
    BY ONLY <1>1, <1>2, <1>4
  <2>5. ci(t).run = "v" => begin(t) + NParms <= t.top
    BY ONLY <1>1, <1>2, <1>3, <1>4, Sizes
  <2>6. /\ u \in Thread /\ t.size <= u.size /\ u.size <= STACK_MAXSIZE /\ u.top <= limit(u)
        /\ Len(u.calls) = Len(t.calls) /\ \A i \in 1 .. Len(t.calls) - 1 : u.calls[i] = t.calls[i]
        /\ ci(u).run = ci(t).run /\ ci(u).base = ci(t).base /\ ci(u).retTo = ci(t).retTo
        /\ ci(u).want = ci(t).want /\ FrameOK(u, ci(u))
    BY ONLY <1>2, <1>4, <2>1, <2>2, <2>3, <2>4, <2>5, frameOfOK, SMTT(30)
  <2>7. isByte(ci(u)) /\ run # "c"
    BY ONLY <1>1, <1>2, <1>6, <2>6 DEF isByte
  <2> QED
    BY ONLY <1>1, <1>2, <2>6, <2>7
<1> QED
  BY <1>5, <1>6

\* A new frame that begins behind slot mv, above all that the caller has.
CanEnter(t, run, mv, displaced, want) ==
  /\ Fits(t) /\ ci(t).used <= MaxLive /\ mv \in Nat /\ begin(t) <= mv /\ mv < t.top /\ want \in Nat
  /\ displaced \in {0, 1} /\ (want # BCVARRET => mv + displaced + want <= limit(t))
  /\ isByte(ci(t)) => want # BCVARRET /\ mv + displaced + want <= begin(t) + MaxStack
  /\ ~isFull(t, MaxStack) /\ ~isFull(t, STACK_MINSIZE) /\ run \in {"c", "b", "v"}
  /\ run = "v" => NParms <= t.top - mv - 1

LEMMA EnteredOK ==
  ASSUME NEW t, NEW run, NEW mv, NEW displaced, NEW want, CanEnter(t, run, mv, displaced, want),
         NEW u, u = LaidOut(Entering(t, FrameAt(run, mv, displaced, want)), run, mv)
  PROVE  /\ Fits(u) /\ Len(u.calls) = Len(t.calls) + 1
         /\ ci(u).run = "c" => ci(u).end - u.top >= STACK_MINSIZE
<1> PICK f : f = FrameAt(run, mv, displaced, want)
  OBVIOUS
<1> PICK called : called = Entering(t, f)
  OBVIOUS
<1> USE DEF CanEnter
<1>1. f \in CallInfo
  BY DEF CallInfo, FrameAt, newFrame
<1>2. t \in Thread /\ limit(t) \in Int /\ t.top <= limit(t) /\ t.size <= STACK_MAXSIZE
      /\ Len(t.calls) \in Nat /\ Len(t.calls) >= 1 /\ ci(t) \in CallInfo /\ begin(t) = ci(t).begin
  BY FitsTypes
<1>3. /\ called \in Thread /\ called.top = t.top /\ called.size = t.size
      /\ Len(called.calls) = Len(t.calls) + 1 /\ ci(called) = f
      /\ \A i \in 1 .. Len(t.calls) : called.calls[i] = t.calls[i]
  BY <1>1, <1>2, appendedOK DEF Entering
<1>4. CanLayOut(called, run, mv, displaced, want)
  <2>1. limit(called) = limit(t)
    BY <1>3 DEF limit
  <2>2. ~isFull(called, MaxStack) /\ ~isFull(called, STACK_MINSIZE)
    BY <1>3 DEF isFull
  <2>3. Len(called.calls) >= 1
    BY <1>2, <1>3
  <2> QED
    BY <1>2, <1>3, <2>1, <2>2, <2>3 DEF CanLayOut
<1>5. u = LaidOut(called, run, mv)
  OBVIOUS
<1>6. /\ u \in Thread /\ called.size <= u.size /\ u.size <= STACK_MAXSIZE /\ u.top <= limit(u)
      /\ Len(u.calls) = Len(called.calls) /\ \A i \in 1 .. Len(called.calls) - 1 : u.calls[i] = called.calls[i]
      /\ ci(u).run = run /\ ci(u).base = mv /\ ci(u).retTo = mv + displaced /\ ci(u).want = want
      /\ FrameOK(u, ci(u)) /\ (~isByte(ci(u)) => begin(u) <= u.top)
      /\ run = "c" => ci(u).end - u.top >= STACK_MINSIZE
  BY ONLY <1>4, <1>5, LaidOutOK
<1>7. Nested(ci(t), ci(u))
  BY <1>2, <1>6 DEF Nested
<1>8. Len(called.calls) - 1 = Len(t.calls)
  BY ONLY <1>2, <1>3
<1>9. /\ t.size <= u.size /\ Len(u.calls) = Len(t.calls) + 1
      /\ \A i \in 1 .. Len(t.calls) : u.calls[i] = t.calls[i]
  BY ONLY <1>3, <1>6, <1>8
<1>10. Fits(t)
  OBVIOUS
<1>11. Fits(u)
  BY ONLY <1>6, <1>7, <1>9, <1>10, Entered
<1> QED
  BY <1>6, <1>9, <1>11

LEMMA callMorCPrepOK ==
  ASSUME Regular, NEW t, Fits(t), ci(t).used <= MaxLive, NEW mv \in Nat, begin(t) <= mv, mv < t.top,
         NEW want \in Nat, NEW displaced \in {0, 1}, want # BCVARRET => mv + displaced + want <= limit(t),
         isByte(ci(t)) => want # BCVARRET /\ mv + displaced + want <= begin(t) + MaxStack, NEW set \in BOOLEAN,
         isRegular(t.stack[mv], t.top - mv - 1, t.top, want, set),
         NEW u, u = callMorCPrep(t, mv, want, set, displaced)
  PROVE  /\ Fits(u)
         /\ Len(u.calls) > Len(t.calls) /\ ci(u).run = "c" => ci(u).end - u.top >= STACK_MINSIZE
<1> PICK run : run = realmethod(t.stack[mv], set)
  OBVIOUS
<1> PICK f : f = FrameAt(run, mv, displaced, want)
  OBVIOUS
<1> PICK called : called = Entering(t, f)
  OBVIOUS
<1>1. run \in {"none", "y", "yv", "c", "b", "v"}
  BY DEF realmethod, Callable, isClosure
<1>2. u = CASE run = "none" -> invalidCall(t, mv, want)
            [] run \in {"y", "yv"} -> back([put(t, mv + displaced, SubSeq(<<"yielder">> \o nulls(want), 1, want))
                                            EXCEPT !.top = mv + displaced + want])
            [] run = "c" -> needMoreLocal(called, STACK_MINSIZE)
            [] OTHER     -> frameOf(called, t.top - mv - 1)
  BY DEF callMorCPrep, FrameAt, Entering
<1>3. /\ t \in Thread /\ t.top \in Nat /\ t.size \in Nat /\ limit(t) \in Int /\ t.top <= limit(t)
      /\ Len(t.calls) \in Nat /\ begin(t) \in Nat
  BY FitsTypes
<1>4. CASE run = "none"
  <2>1. u = invalidCall(t, mv, want)
    BY <1>2, <1>4
  <2>2. want # BCVARRET => mv + want <= limit(t)
    BY <1>3
  <2>3. Fits(t) /\ mv \in Nat /\ begin(t) <= mv /\ mv < t.top /\ want \in Nat
    OBVIOUS
  <2>4. Fits(u) /\ Len(u.calls) = Len(t.calls)
    BY ONLY <2>1, <2>2, <2>3, invalidCallOK
  <2> QED
    BY <1>3, <2>4
<1>5. CASE run \in {"y", "yv"}
  <2> PICK values : values = SubSeq(<<"yielder">> \o nulls(want), 1, want)
    OBVIOUS
  <2> PICK to \in Nat : to = mv + displaced
    OBVIOUS
  <2> PICK p : p = put(t, to, values)
    OBVIOUS
  <2> PICK x : x = [p EXCEPT !.top = to + want]
    OBVIOUS
  <2>1. u = back(x)
    BY <1>2, <1>5
  <2>2. want # BCVARRET
    BY <1>5 DEF isRegular
  <2>3. values \in Seq(Stored)
    <3>1. nulls(want) \in Seq(Stored) /\ Len(nulls(want)) = want
      <4>1. want \in Int /\ greater(want, 0) = want
        BY DEF greater
      <4> QED
        BY <4>1, nullsOK
    <3>2. <<"yielder">> \in Seq(Stored) /\ Len(<<"yielder">>) = 1
      BY DEF Stored
    <3> PICK all : all = <<"yielder">> \o nulls(want)
      OBVIOUS
    <3>3. all \in Seq(Stored) /\ Len(all) = 1 + want
      BY <3>1, <3>2, ConcatProperties
    <3>4. \A i \in 1 .. want : all[i] \in Stored
      <4> TAKE i \in 1 .. want
      <4>1. i \in 1 .. Len(all)
        BY <3>3
      <4> QED
        BY <3>3, <4>1, ElementOfSeq
    <3>5. values = SubSeq(all, 1, want)
      OBVIOUS
    <3>6. want \in Int
      OBVIOUS
    <3> QED
      BY ONLY <3>3, <3>4, <3>5, <3>6, SubSeqProperties
  <2>4. p \in Thread /\ p.size = t.size /\ p.calls = t.calls
    <3>1. p = put(t, to, values) /\ to \in Int
      OBVIOUS
    <3> QED
      BY ONLY <1>3, <2>3, <3>1, putOK
  <2>5. x \in Thread /\ x.size = t.size /\ x.calls = t.calls /\ x.top = to + want
    <3>1. x = [p EXCEPT !.top = to + want] /\ to + want \in Nat
      OBVIOUS
    <3> QED
      BY ONLY <2>4, <3>1 DEF Thread
  <2>6. x.top <= limit(t) /\ begin(t) <= x.top
    BY <1>3, <2>2, <2>5
  <2>7. Fits(u) /\ Len(u.calls) = Len(t.calls)
    BY <2>1, <2>5, <2>6, backOK
  <2> QED
    BY <1>3, <2>7
<1>6. CASE run \in {"c", "b", "v"}
  <2>1. u = LaidOut(called, run, mv)
    <3>1. called.top = t.top
      BY <1>3 DEF Entering, Thread
    <3> QED
      BY <1>2, <1>6, <3>1 DEF LaidOut
  <2>2. ~isFull(t, MaxStack) /\ ~isFull(t, STACK_MINSIZE)
    BY <1>3, NotFull
  <2>3. run = "v" => NParms <= t.top - mv - 1
    <3>1. run = "v" /\ t.top - mv - 1 < NParms => "short" \in Irregular
      BY DEF isRegular
    <3>2. "short" \notin Irregular
      BY DEF Regular
    <3>3. mv \in Nat
      OBVIOUS
    <3> QED
      BY ONLY <1>3, <3>1, <3>2, <3>3, Sizes
  <2>4. CanEnter(t, run, mv, displaced, want)
    BY <1>6, <2>2, <2>3 DEF CanEnter
  <2>5. /\ Fits(u) /\ Len(u.calls) = Len(t.calls) + 1
        /\ ci(u).run = "c" => ci(u).end - u.top >= STACK_MINSIZE
    <3>1. called = Entering(t, FrameAt(run, mv, displaced, want))
      OBVIOUS
    <3> QED
      BY ONLY <2>1, <2>4, <3>1, EnteredOK
  <2> QED
    BY <2>5
<1> QED
  BY <1>1, <1>4, <1>5, <1>6

------------------------------------------------------------------------------
(***************************************************************************)
(* Returns and tail calls. The results go to where the method's own area   *)
(* began, or to where its caller knew that there is room for as many.      *)
(***************************************************************************)
AsReturned(t, want, values) ==
  [put(t, ci(t).retTo, values) EXCEPT !.top = ci(t).retTo + want, !.calls = Front(@)]

LEMMA AsReturnedOK ==
  ASSUME NEW t, Fits(t), Len(t.calls) > 1, NEW want \in Nat, ci(t).retTo + want <= limit(t),
         NEW values \in Seq(Stored), NEW x, x = AsReturned(t, want, values)
  PROVE  /\ Fits(x) /\ x \in Thread /\ x.size = t.size /\ Len(x.calls) = Len(t.calls) - 1
         /\ \A i \in 1 .. Len(t.calls) - 1 : x.calls[i] = t.calls[i]
         /\ ci(x) = t.calls[Len(t.calls) - 1] /\ x.stack = put(t, ci(t).retTo, values).stack
         /\ x.top = ci(t).retTo + want /\ x.top <= limit(x) /\ begin(x) <= x.top
<1>1. /\ t \in Thread /\ t.top \in Nat /\ t.size \in Nat /\ limit(t) \in Int
      /\ Len(t.calls) \in Nat /\ ci(t) \in CallInfo /\ ci(t) = t.calls[Len(t.calls)]
      /\ FrameOK(t, ci(t)) /\ ci(t).retTo \in Nat /\ ci(t).base \in Nat /\ ci(t).begin \in Nat
  BY FitsTypes
<1> PICK n \in Nat : n = Len(t.calls) - 1
  <2>1. Len(t.calls) - 1 \in Nat
    BY <1>1
  <2> QED
    BY ONLY <2>1
<1> PICK c : c = t.calls[n]
  OBVIOUS
<1>2. n >= 1 /\ c \in CallInfo /\ Nested(c, ci(t)) /\ FrameOK(t, c)
  <2>1. n \in 1 .. Len(t.calls) - 1 /\ n \in 1 .. Len(t.calls)
    OBVIOUS
  <2>2. c \in CallInfo
    BY <1>1, <2>1, callsOK
  <2>3. Nested(t.calls[n], t.calls[n + 1])
    BY <2>1 DEF Fits
  <2>4. FrameOK(t, c)
    BY <2>1 DEF Fits
  <2>5. n + 1 = Len(t.calls) /\ n >= 1
    BY <1>1
  <2> QED
    BY <1>1, <2>2, <2>3, <2>4, <2>5
<1> PICK p : p = put(t, ci(t).retTo, values)
  OBVIOUS
<1>3. p \in Thread /\ p.size = t.size /\ p.calls = t.calls
  BY <1>1, putOK
<1> PICK s : s = Front(t.calls)
  OBVIOUS
<1>4. s \in Seq(CallInfo) /\ Len(s) = n /\ \A i \in 1 .. n : s[i] = t.calls[i]
  <2>1. Len(t.calls) > 1 /\ s = Front(t.calls) /\ n = Len(t.calls) - 1
    OBVIOUS
  <2> QED
    BY ONLY <1>1, <2>1, frontOK
<1>5. x \in Thread /\ x.top = ci(t).retTo + want /\ x.size = t.size /\ x.calls = s /\ x.stack = p.stack
  <2>1. x = [p EXCEPT !.top = ci(t).retTo + want, !.calls = Front(p.calls)]
    BY DEF AsReturned
  <2>2. x = [p EXCEPT !.top = ci(t).retTo + want, !.calls = s]
    BY <1>3, <2>1
  <2>3. ci(t).retTo + want \in Nat
    BY <1>1
  <2> QED
    BY ONLY <1>3, <1>4, <2>2, <2>3 DEF Thread
<1>6. ci(x) = c /\ Len(x.calls) = n
  BY <1>2, <1>4, <1>5 DEF ci, Last
<1>7. limit(x) = limit(t)
  BY <1>5 DEF limit
<1>8. begin(x) <= x.top
  <2>1. begin(x) = c.begin /\ c.begin <= ci(t).base /\ ci(t).base <= ci(t).retTo /\ c.begin \in Nat
    <3>1. begin(x) = c.begin
      BY ONLY <1>6 DEF begin
    <3>2. c.begin \in Nat
      BY ONLY <1>2 DEF CallInfo
    <3>3. c.begin <= ci(t).base
      BY ONLY <1>2 DEF Nested
    <3>4. ci(t).base <= ci(t).retTo
      BY ONLY <1>1 DEF FrameOK
    <3> QED
      BY ONLY <3>1, <3>2, <3>3, <3>4
  <2>2. want \in Nat
    OBVIOUS
  <2>3. x.top = ci(t).retTo + want /\ ci(t).retTo \in Nat /\ ci(t).base \in Nat
    BY ONLY <1>1, <1>5
  <2> QED
    BY ONLY <2>1, <2>2, <2>3
<1>9. Fits(x)
  <2>1. FrameOK(x, ci(x))
    <3>1. t.size <= x.size
      BY ONLY <1>1, <1>5
    <3> QED
      BY <1>1, <1>2, <1>5, <1>6, <3>1, FrameKept
  <2>2. t.size = x.size /\ x.top <= limit(x) /\ Len(x.calls) = Len(t.calls) - 1
    BY <1>5, <1>6, <1>7
  <2>3. \A i \in 1 .. Len(t.calls) - 2 : x.calls[i] = t.calls[i]
    BY <1>4, <1>5
  <2>4. ci(x) = t.calls[Len(t.calls) - 1]
    BY <1>6
  <2>5. Fits(t) /\ Len(t.calls) > 1
    OBVIOUS
  <2> QED
    BY ONLY <1>5, <1>8, <2>1, <2>2, <2>3, <2>4, <2>5, Left
<1>10. x.top <= limit(x)
  BY <1>5, <1>7
<1>11. \A i \in 1 .. Len(t.calls) - 1 : x.calls[i] = t.calls[i]
  BY <1>4, <1>5
<1> QED
  BY <1>5, <1>6, <1>8, <1>9, <1>10, <1>11

LEMMA LeavingOK ==
  ASSUME NEW t, Fits(t), Len(t.calls) > 1, NEW want \in Nat, ci(t).retTo + want <= limit(t),
         NEW values \in Seq(Stored), NEW u, u = back(AsReturned(t, want, values))
  PROVE  Fits(u) /\ Len(u.calls) = Len(t.calls) - 1
<1> PICK x : x = AsReturned(t, want, values)
  OBVIOUS
<1>1. /\ Fits(x) /\ x \in Thread /\ Len(x.calls) = Len(t.calls) - 1
      /\ x.top <= limit(x) /\ begin(x) <= x.top
  BY AsReturnedOK
<1>2. Fits(back(x)) /\ Len(back(x).calls) = Len(x.calls)
  BY ONLY <1>1, backOK
<1> QED
  BY <1>1, <1>2

ToEnd(u) == [u EXCEPT !.top = ci(u).end]

LEMMA AtEnd ==
  ASSUME NEW u, Fits(u), isByte(ci(u))
  PROVE  Fits(ToEnd(u)) /\ Len(ToEnd(u).calls) = Len(u.calls)
<1> PICK x : x = [u EXCEPT !.top = ci(u).end]
  OBVIOUS
<1>1. u \in Thread /\ ci(u).end \in Nat /\ ci(u).end <= limit(u)
  BY FitsTypes DEF FrameOK
<1>2. x \in Thread /\ x.top = ci(u).end /\ x.size = u.size /\ x.calls = u.calls
  BY <1>1 DEF Thread
<1> QED
  BY <1>1, <1>2, Moved DEF ToEnd

LEMMA returnedOK ==
  ASSUME NEW t, Fits(t), Len(t.calls) > 1, NEW from \in Nat, NEW have \in Nat, begin(t) <= from,
         from + have <= limit(t)
  PROVE  /\ Fits(returned(t, from, have)) /\ Len(returned(t, from, have).calls) < Len(t.calls)
         /\ Fits(OpReturnTo(t, from, have)) /\ Len(OpReturnTo(t, from, have).calls) < Len(t.calls)
<1> PICK want : want = IF ci(t).want = BCVARRET THEN have ELSE ci(t).want
  OBVIOUS
<1> PICK values : values = [i \in 1 .. want |-> IF i <= have THEN t.stack[from + i - 1] ELSE Null]
  OBVIOUS
<1>1. /\ t \in Thread /\ limit(t) \in Int /\ limit(t) < STACK_MAXSIZE /\ FrameOK(t, ci(t))
      /\ begin(t) = ci(t).begin /\ ci(t).begin \in Nat /\ ci(t).retTo \in Nat /\ ci(t).base \in Nat
      /\ ci(t).want \in Nat
  BY FitsTypes
<1>2. want \in Nat
  BY <1>1
<1>3. ci(t).retTo + want <= limit(t)
  <2>1. CASE ci(t).want = BCVARRET
    <3>1. want = have /\ have \in Nat /\ from \in Nat /\ from + have <= limit(t) /\ begin(t) <= from
      BY <2>1
    <3>2. ci(t).retTo <= ci(t).begin
      BY <1>1 DEF FrameOK
    <3> QED
      BY ONLY <1>1, <3>1, <3>2
  <2>2. CASE ci(t).want # BCVARRET
    BY <1>1, <2>2 DEF FrameOK
  <2> QED
    BY <2>1, <2>2
<1>4. values \in Seq(Stored)
  <2>1. \A i \in 1 .. want : (IF i <= have THEN t.stack[from + i - 1] ELSE Null) \in Stored
    <3> TAKE i \in 1 .. want
    <3>1. CASE i <= have
      <4>1. from + i - 1 \in Slot
        BY <1>1, <1>2, <3>1, Sizes DEF Slot
      <4>2. t.stack[from + i - 1] \in Stored
        BY <1>1, <4>1 DEF Thread
      <4> QED
        BY <3>1, <4>2
    <3>2. CASE ~(i <= have)
      BY <3>2 DEF Stored
    <3> QED
      BY <3>1, <3>2
  <2>2. values \in [1 .. want -> Stored]
    BY <2>1
  <2> QED
    BY <1>2, <2>2, FunctionIsSeq
<1> PICK u : u = returned(t, from, have)
  OBVIOUS
<1>5. u = back(AsReturned(t, want, values))
  BY DEF returned, AsReturned
<1>6. Fits(u) /\ Len(u.calls) = Len(t.calls) - 1
  <2>1. Fits(t) /\ Len(t.calls) > 1
    OBVIOUS
  <2> QED
    BY ONLY <1>2, <1>3, <1>4, <1>5, <2>1, LeavingOK
<1>7. \/ OpReturnTo(t, from, have) = u
      \/ isByte(ci(u)) /\ OpReturnTo(t, from, have) = ToEnd(u)
  BY DEF OpReturnTo, ToEnd
<1>8. Len(t.calls) \in Nat /\ u = returned(t, from, have)
  BY FitsTypes
<1> QED
  BY ONLY <1>6, <1>7, <1>8, AtEnd

LEMMA returnNullsOK ==
  ASSUME NEW t, Fits(t), Len(t.calls) > 1, isByte(ci(t))
  PROVE  Fits(returnNulls(t)) /\ Len(returnNulls(t).calls) < Len(t.calls)
<1> PICK want : want = IF ci(t).want = BCVARRET THEN 1 ELSE ci(t).want
  OBVIOUS
<1>1. /\ limit(t) \in Int /\ FrameOK(t, ci(t)) /\ ci(t).begin \in Nat /\ ci(t).retTo \in Nat
      /\ ci(t).base \in Nat /\ ci(t).want \in Nat
  BY FitsTypes
<1>2. want \in Nat
  BY <1>1
<1>3. ci(t).retTo + want <= limit(t)
  <2>1. CASE ci(t).want = BCVARRET
    <3>1. want = 1 /\ ci(t).retTo <= ci(t).begin /\ ci(t).begin + MaxStack <= limit(t)
      BY <1>1, <2>1 DEF FrameOK
    <3> QED
      BY ONLY <1>1, <3>1, Sizes
  <2>2. CASE ci(t).want # BCVARRET
    BY <1>1, <2>2 DEF FrameOK
  <2> QED
    BY <2>1, <2>2
<1>4. nulls(want) \in Seq(Stored)
  BY <1>2, nullsOK
<1> PICK u : u = back(AsReturned(t, want, nulls(want)))
  OBVIOUS
<1>5. Fits(u) /\ Len(u.calls) = Len(t.calls) - 1
  <2>1. Fits(t) /\ Len(t.calls) > 1 /\ u = back(AsReturned(t, want, nulls(want)))
    OBVIOUS
  <2> QED
    BY ONLY <1>2, <1>3, <1>4, <2>1, LeavingOK
<1>6. returnNulls(t) = IF isByte(ci(u)) THEN ToEnd(u) ELSE u
  BY DEF returnNulls, AsReturned, ToEnd
<1>7. Len(t.calls) \in Nat
  BY FitsTypes
<1> QED
  BY ONLY <1>5, <1>6, <1>7, AtEnd

\* The frame of a method that calls another one in its place can be given to the latter.
CanTail(t, mv, run) ==
  /\ Regular /\ Fits(t) /\ isByte(ci(t)) /\ mv \in Nat /\ begin(t) <= mv /\ mv < t.top /\ ci(t).retTo = ci(t).base
  /\ run = realmethod(t.stack[mv], FALSE) /\ run \notin {"none", "y", "yv"}
  /\ isRegular(t.stack[mv], t.top - mv - 1, ci(t).base + (t.top - mv), 0, FALSE)
TailFrame(t, mv, run) ==
  current([put(t, ci(t).base, slots(t, mv, t.top)) EXCEPT !.top = ci(t).base + (t.top - mv)],
          newFrame(run, ci(t).base, ci(t).base, ci(t).want))

LEMMA TailLaidOut ==
  ASSUME NEW t, NEW mv, NEW run, CanTail(t, mv, run), NEW frame, frame = TailFrame(t, mv, run)
  PROVE  /\ frame \in Thread /\ frame.top = ci(t).base + (t.top - mv) /\ frame.size = t.size /\ Len(frame.calls) = Len(t.calls)
         /\ \A i \in 1 .. Len(t.calls) - 1 : frame.calls[i] = t.calls[i]
         /\ frame.stack = put(t, ci(t).base, slots(t, mv, t.top)).stack
         /\ CanLayOut(frame, run, ci(t).base, 0, ci(t).want)
         /\ tailcallMorCPrep(t, mv) = LaidOut(frame, run, ci(t).base)
<1>0. /\ Regular /\ Fits(t) /\ isByte(ci(t)) /\ mv \in Nat /\ begin(t) <= mv /\ mv < t.top /\ ci(t).retTo = ci(t).base
      /\ run = realmethod(t.stack[mv], FALSE) /\ run \notin {"none", "y", "yv"}
      /\ isRegular(t.stack[mv], t.top - mv - 1, ci(t).base + (t.top - mv), 0, FALSE)
  BY DEF CanTail
<1> PICK u : u = tailcallMorCPrep(t, mv)
  OBVIOUS
<1> PICK c : c = ci(t)
  OBVIOUS
<1> PICK n : n = t.top - mv
  OBVIOUS
<1>1. /\ t \in Thread /\ t.top \in Nat /\ t.size \in Nat /\ limit(t) \in Int /\ limit(t) < STACK_MAXSIZE
      /\ t.top <= limit(t) /\ t.size <= STACK_MAXSIZE /\ Len(t.calls) \in Nat /\ Len(t.calls) >= 1
      /\ c \in CallInfo /\ begin(t) = c.begin /\ FrameOK(t, c) /\ c.base \in Nat /\ c.begin \in Nat
      /\ c.want \in Nat
  BY <1>0, FitsTypes
<1>2. c.base < c.begin /\ c.begin <= mv /\ mv \in Nat /\ mv < t.top /\ n = t.top - mv /\ c.retTo = c.base
  BY <1>0, <1>1 DEF FrameOK
<1>3. run \in {"c", "b", "v"}
  BY <1>0 DEF realmethod, Callable, isClosure
<1>4. n \in Nat /\ n >= 1 /\ c.base + n <= limit(t) /\ c.base + n \in Nat /\ c.base < c.base + n
  BY ONLY <1>1, <1>2, SMTT(30)
<1> PICK p : p = put(t, c.base, slots(t, mv, t.top))
  OBVIOUS
<1>5. p \in Thread /\ p.size = t.size /\ p.calls = t.calls
  <2>1. t.top <= STACK_ERRORSIZE /\ mv <= t.top /\ c.base \in Int
    BY ONLY <1>1, <1>2, Sizes
  <2>2. slots(t, mv, t.top) \in Seq(Stored)
    BY ONLY <1>1, <1>2, <2>1, slotsOK
  <2>3. p = put(t, c.base, slots(t, mv, t.top))
    OBVIOUS
  <2> QED
    BY ONLY <1>1, <2>1, <2>2, <2>3, putOK
<1> PICK x : x = [p EXCEPT !.top = c.base + n]
  OBVIOUS
<1>6. x \in Thread /\ x.top = c.base + n /\ x.size = t.size /\ x.calls = t.calls /\ x.stack = p.stack
  <2>1. x = [p EXCEPT !.top = c.base + n]
    OBVIOUS
  <2> QED
    BY ONLY <1>4, <1>5, <2>1 DEF Thread
<1> PICK f : f = FrameAt(run, c.base, 0, c.want)
  OBVIOUS
<1>7. f \in CallInfo /\ f = newFrame(run, c.base, c.base, c.want)
  <2>1. c.base + 0 = c.base
    BY <1>1
  <2>2. run \in {"host", "c", "b", "v"} /\ c.base + 1 \in Nat
    BY ONLY <1>1, <1>3
  <2>3. f = newFrame(run, c.base, c.base, c.want)
    BY <2>1 DEF FrameAt
  <2> QED
    BY ONLY <1>1, <2>2, <2>3 DEF CallInfo, newFrame
<1>8. /\ frame \in Thread /\ frame.top = c.base + n /\ frame.size = t.size /\ Len(frame.calls) = Len(t.calls)
      /\ ci(frame) = f /\ frame.stack = p.stack /\ \A i \in 1 .. Len(t.calls) - 1 : frame.calls[i] = t.calls[i]
  <2>1. frame = current(x, f) /\ Len(x.calls) >= 1
    BY <1>1, <1>6, <1>7 DEF TailFrame
  <2> QED
    BY ONLY <1>6, <1>7, <2>1, currentOK
<1>9. u = LaidOut(frame, run, c.base)
  <2>1. u = IF run = "c" THEN needMoreLocal(frame, STACK_MINSIZE) ELSE frameOf(frame, n - 1)
    BY <1>0 DEF tailcallMorCPrep, TailFrame
  <2>2. frame.top - c.base - 1 = n - 1
    BY ONLY <1>1, <1>4, <1>8
  <2> QED
    BY <2>1, <2>2 DEF LaidOut
<1>10. limit(frame) = limit(t)
  BY <1>8 DEF limit
<1>11. ~isFull(frame, MaxStack) /\ ~isFull(frame, STACK_MINSIZE)
  <2>1. isRegular(t.stack[mv], n - 1, frame.top, 0, FALSE) /\ Regular
    BY <1>0, <1>8
  <2> QED
    BY <1>4, <1>8, <2>1, NotFull
<1>12. run = "v" => NParms <= n - 1
  <2>1. run = "v" /\ n - 1 < NParms => "short" \in Irregular
    BY <1>0 DEF isRegular
  <2>2. "short" \notin Irregular
    BY <1>0 DEF Regular
  <2> QED
    BY ONLY <1>4, <2>1, <2>2, Sizes
<1>13. CanLayOut(frame, run, c.base, 0, c.want)
  <2>1. c.want # BCVARRET => c.base + 0 + c.want <= limit(t)
    BY <1>1, <1>2 DEF FrameOK
  <2>2. run = "v" => NParms <= frame.top - c.base - 1
    BY ONLY <1>1, <1>4, <1>8, <1>12, Sizes
  <2>3. frame.top <= limit(frame) /\ c.base < frame.top /\ Len(frame.calls) >= 1 /\ frame.size <= STACK_MAXSIZE
    BY ONLY <1>1, <1>4, <1>8, <1>10
  <2>4. ci(frame) = FrameAt(run, c.base, 0, c.want)
    BY <1>8
  <2> QED
    BY ONLY <1>1, <1>3, <1>8, <1>10, <1>11, <2>1, <2>2, <2>3, <2>4 DEF CanLayOut
<1> QED
  BY <1>8, <1>9, <1>13

LEMMA tailcallMorCPrepOK ==
  ASSUME NEW t, NEW mv, NEW run, CanTail(t, mv, run), NEW u, u = tailcallMorCPrep(t, mv)
  PROVE  /\ Fits(u) /\ Len(u.calls) = Len(t.calls) /\ ci(u).retTo = ci(t).retTo
         /\ \A i \in 1 .. Len(t.calls) - 1 : u.calls[i] = t.calls[i]
<1> PICK c : c = ci(t)
  OBVIOUS
<1> PICK frame : frame = TailFrame(t, mv, run)
  OBVIOUS
<1>1. /\ Fits(t) /\ Len(t.calls) \in Nat /\ c.base \in Nat /\ t.size \in Nat /\ c.retTo = c.base /\ isByte(c)
  BY FitsTypes DEF CanTail
<1>2. /\ frame \in Thread /\ frame.size = t.size /\ Len(frame.calls) = Len(t.calls)
      /\ \A i \in 1 .. Len(t.calls) - 1 : frame.calls[i] = t.calls[i]
      /\ CanLayOut(frame, run, c.base, 0, c.want) /\ u = LaidOut(frame, run, c.base)
  BY TailLaidOut
<1>3. /\ u \in Thread /\ frame.size <= u.size /\ u.size <= STACK_MAXSIZE /\ u.top <= limit(u)
      /\ Len(u.calls) = Len(frame.calls) /\ \A i \in 1 .. Len(frame.calls) - 1 : u.calls[i] = frame.calls[i]
      /\ ci(u).run = run /\ ci(u).base = c.base /\ ci(u).retTo = c.base + 0 /\ ci(u).want = c.want
      /\ FrameOK(u, ci(u)) /\ (~isByte(ci(u)) => begin(u) <= u.top)
  BY ONLY <1>2, LaidOutOK
<1>4. /\ t.size <= u.size /\ Len(u.calls) = Len(t.calls)
      /\ \A i \in 1 .. Len(t.calls) - 1 : u.calls[i] = t.calls[i]
  BY ONLY <1>2, <1>3
<1>5. Fits(t) /\ c = ci(t) /\ ci(t).run # "host"
  BY <1>1 DEF isByte
<1>6. ci(t).base <= ci(u).base /\ ci(u).want = ci(t).want /\ ci(u).retTo = ci(t).retTo
  BY ONLY <1>1, <1>3, <1>5
<1>7. Fits(u)
  BY ONLY <1>3, <1>4, <1>5, <1>6, Reframed
<1> QED
  BY ONLY <1>4, <1>6, <1>7

------------------------------------------------------------------------------
(***************************************************************************)
(* The steps of the program.                                               *)
(***************************************************************************)
LEMMA BecomesOK ==
  ASSUME NEW t, Fits(t), Becomes(t)
  PROVE  SInv' /\ th'.calls = t.calls /\ th'.top = t.top
<1>1. /\ t \in Thread /\ t.top \in Nat /\ ci(t) \in CallInfo /\ begin(t) \in Nat /\ ci(t).used \in Nat
      /\ FrameOK(t, ci(t)) /\ (~isByte(ci(t)) => begin(t) <= t.top)
  BY FitsTypes DEF Fits
<1> PICK n : n = begin(t) + size(t)
  OBVIOUS
<1> PICK s : s = [x \in Slot |-> IF x < n THEN t.stack[x] ELSE Junk]
  OBVIOUS
<1>2. n <= MaxLive /\ Len(t.calls) <= MaxFrames /\ th' = [t EXCEPT !.stack = s]
  BY DEF Becomes
<1>3. s \in [Slot -> Stored]
  BY <1>1 DEF Thread, Stored
<1> PICK u : u = [t EXCEPT !.stack = s]
  OBVIOUS
<1>4. u \in Thread /\ u.top = t.top /\ u.size = t.size /\ u.calls = t.calls
  BY <1>1, <1>3 DEF Thread
<1>5. Fits(u)
  BY <1>1, <1>4, FitsTypes, Moved
<1>6. ci(u).used <= MaxLive
  <2>1. ci(u) = ci(t)
    BY <1>4 DEF ci
  <2>2. CASE isByte(ci(t))
    <3>1. size(t) = ci(t).used
      BY <2>2 DEF size
    <3> QED
      BY <1>1, <1>2, <2>1, <3>1, Sizes, SMTT(30)
  <2>3. CASE ~isByte(ci(t))
    BY <1>1, <2>1, <2>3, Sizes DEF FrameOK
  <2> QED
    BY <2>2, <2>3
<1>7. th' = u
  BY <1>2
<1> QED
  BY <1>2, <1>4, <1>5, <1>6, <1>7 DEF SInv, Fits, FrameOK, Nested, limit, ci, begin

\* What the steps have in common: th fits, and what it stores can be stored elsewhere.
LEMMA Now ==
  ASSUME SInv
  PROVE  /\ Fits(th) /\ th \in Thread /\ th.top \in Nat /\ th.size \in Nat /\ limit(th) \in Int
         /\ limit(th) < STACK_MAXSIZE /\ th.top <= limit(th) /\ ci(th) \in CallInfo /\ begin(th) = ci(th).begin
         /\ Len(th.calls) \in Nat /\ Len(th.calls) >= 1
         /\ begin(th) \in Nat /\ ci(th).end \in Nat /\ ci(th).end <= limit(th) /\ FrameOK(th, ci(th))
         /\ (inC => begin(th) <= th.top /\ size(th) = th.top - begin(th))
         /\ (inBC => size(th) = ci(th).used) /\ ci(th).used \in Nat /\ ci(th).used <= MaxLive
         /\ size(th) \in Nat /\ begin(th) + size(th) <= limit(th)
         /\ \A s \in Nat : s < STACK_MAXSIZE => th.stack[s] \in Stored
<1>1. Fits(th) /\ ci(th).used <= MaxLive
  BY DEF SInv
<1>2. /\ th \in Thread /\ th.top \in Nat /\ th.size \in Nat /\ limit(th) \in Int /\ limit(th) < STACK_MAXSIZE
      /\ th.top <= limit(th) /\ ci(th) \in CallInfo /\ begin(th) = ci(th).begin
      /\ Len(th.calls) \in Nat /\ Len(th.calls) >= 1 /\ ci(th).used \in Nat
      /\ begin(th) \in Nat /\ ci(th).end \in Nat /\ ci(th).end <= limit(th) /\ FrameOK(th, ci(th))
  BY <1>1, FitsTypes DEF FrameOK
<1>3. (inC => begin(th) <= th.top /\ size(th) = th.top - begin(th)) /\ (inBC => size(th) = ci(th).used)
  BY <1>1 DEF Fits, inC, inBC, size
<1>4. size(th) \in Nat /\ begin(th) + size(th) <= limit(th)
  <2>1. CASE inC
    BY ONLY <1>2, <1>3, <2>1
  <2>2. CASE inBC
    BY <1>2, <1>3, <2>2 DEF FrameOK, inBC
  <2> QED
    BY <2>1, <2>2 DEF inC, inBC
<1>5. \A s \in Nat : s < STACK_MAXSIZE => th.stack[s] \in Stored
  <2>1. \A s \in Nat : s < STACK_MAXSIZE => s \in Slot
    BY Sizes DEF Slot
  <2> QED
    BY <1>2, <2>1 DEF Thread
<1> QED
  BY <1>1, <1>2, <1>3, <1>4, <1>5

\* Each slot of the running method's area, and what is above it, is a slot whose value can be stored.
LEMMA Local ==
  ASSUME SInv, NEW i \in Nat, i <= size(th)
  PROVE  /\ stkAt(i) \in Stored /\ begin(th) + i \in Nat /\ begin(th) + i <= begin(th) + size(th)
         /\ begin(th) + i <= limit(th)
<1>1. begin(th) + i \in Nat /\ begin(th) + i <= begin(th) + size(th) /\ begin(th) + i <= limit(th)
      /\ begin(th) + i < STACK_MAXSIZE
  BY Now, Sizes, SMTT(30)
<1> QED
  BY <1>1, Now DEF stkAt

\* The operations of a C method store values, move them and move stk_top, below its end or what may be used.
LEMMA Stores ==
  ASSUME SInv, NEW from \in Nat, NEW values \in Seq(Stored)
  PROVE  Fits(put(th, from, values))
<1>1. Fits(th) /\ (~isByte(ci(th)) => begin(th) <= th.top)
  BY Now DEF inC
<1> PICK p : p = put(th, from, values)
  OBVIOUS
<1>2. p \in Thread /\ p.top = th.top /\ p.size = th.size /\ p.calls = th.calls
  BY Now, putOK
<1>3. p.top <= limit(th)
  BY <1>2, Now
<1> QED
  BY <1>1, <1>2, <1>3, Moved

LEMMA Moves ==
  ASSUME SInv, NEW x, Fits(x), x.calls = th.calls, x.size = th.size, NEW top \in Nat, top <= limit(th),
         inC => begin(th) <= top
  PROVE  Fits([x EXCEPT !.top = top])
<1> PICK u : u = [x EXCEPT !.top = top]
  OBVIOUS
<1>1. x \in Thread
  BY DEF Fits
<1>2. u \in Thread /\ u.top = top /\ u.size = x.size /\ u.calls = x.calls
  BY <1>1 DEF Thread
<1>3. limit(x) = limit(th) /\ begin(x) = begin(th) /\ ci(x) = ci(th)
  BY DEF limit, begin, ci
<1>4. ~isByte(ci(x)) => begin(x) <= u.top
  BY <1>2, <1>3 DEF inC
<1>5. Fits(x) /\ u.top <= limit(x)
  BY <1>2, <1>3
<1>6. Fits(u)
  BY ONLY <1>2, <1>4, <1>5, Moved
<1> QED
  BY <1>6

LEMMA Pushes ==
  ASSUME SInv, NEW values \in Seq(Stored), th.top + Len(values) <= limit(th), NEW x, x = pushed(th, values)
  PROVE  Fits(x) /\ x.calls = th.calls /\ x.size = th.size /\ x.top = th.top + Len(values)
<1>1. /\ x \in Thread /\ x.top = th.top + Len(values) /\ x.size = th.size /\ x.calls = th.calls
  BY Now, pushedOK
<1>2. ~isByte(ci(th)) => begin(th) <= x.top
  BY <1>1, Now, LenProperties DEF inC
<1> QED
  BY <1>1, <1>2, Now, Moved

LEMMA Pops ==
  ASSUME SInv, NEW x, Fits(x), x.calls = th.calls, x.size = th.size, NEW n \in Nat, n <= x.top,
         inC => begin(th) + n <= x.top
  PROVE  Fits(popped(x, n)) /\ popped(x, n).calls = th.calls
<1>1. x \in Thread /\ x.top \in Nat /\ x.top <= limit(x)
  BY FitsTypes
<1>2. limit(x) = limit(th)
  BY DEF limit
<1> PICK top \in Nat : top = x.top - n
  BY <1>1
<1>3. top <= limit(th) /\ (inC => begin(th) <= top)
  BY <1>1, <1>2, Now
<1>4. popped(x, n) = [x EXCEPT !.top = top]
  BY DEF popped
<1>5. popped(x, n).calls = th.calls
  BY <1>1, <1>4 DEF Thread
<1> QED
  BY <1>3, <1>4, <1>5, Moves

\* An operation leaves a thread that fits.
LEMMA Done ==
  ASSUME NEW u, Fits(u), Becomes(u)
  PROVE  SInv'
BY BecomesOK

LEMMA needMoreLocalFits ==
  ASSUME NEW t, Fits(t), NEW n \in Nat, NEW u, u = needMoreLocal(t, n)
  PROVE  /\ Fits(u) /\ Len(u.calls) = Len(t.calls) /\ begin(u) = begin(t) /\ ci(u).used = ci(t).used
         /\ ci(u).run = ci(t).run /\ u.size >= t.size /\ (~isFull(t, n) => t.top + n <= limit(u))
<1>1. /\ t \in Thread /\ Len(t.calls) >= 1 /\ t.size <= STACK_MAXSIZE /\ t.top <= limit(t) /\ ci(t).end <= limit(t)
      /\ t.top \in Nat /\ t.size \in Nat /\ limit(t) \in Int /\ FrameOK(t, ci(t)) /\ ci(t) \in CallInfo
      /\ begin(t) = ci(t).begin
  BY FitsTypes DEF FrameOK
<1>2. /\ u \in Thread /\ u.top = t.top /\ t.size <= u.size /\ u.size <= STACK_MAXSIZE
      /\ Len(u.calls) = Len(t.calls) /\ \A i \in 1 .. Len(t.calls) - 1 : u.calls[i] = t.calls[i]
  BY ONLY <1>1, n \in Nat, u = needMoreLocal(t, n), needMoreLocalOK, ZenonT(60)
<1>3. \E e \in Nat : /\ Laid(ci(t), ci(u), begin(t), e) /\ ci(t).end <= e /\ e <= limit(u)
                     /\ ~isFull(t, n) => t.top + n <= e
  BY ONLY <1>1, n \in Nat, u = needMoreLocal(t, n), needMoreLocalOK
<1> PICK e \in Nat : /\ Laid(ci(t), ci(u), begin(t), e) /\ e <= limit(u)
                     /\ ~isFull(t, n) => t.top + n <= e
  BY <1>3
<1> PICK c, d : c = ci(t) /\ d = ci(u)
  OBVIOUS
<1>4. /\ d.run = c.run /\ d.begin = c.begin /\ d.end = e /\ d.base = c.base /\ d.retTo = c.retTo
      /\ d.want = c.want /\ d.used = c.used
  <2>1. d = [run |-> c.run, begin |-> c.begin, end |-> e, base |-> c.base, retTo |-> c.retTo,
             want |-> c.want, used |-> c.used]
    BY <1>1 DEF Laid
  <2> QED
    BY ONLY <2>1
<1>5. u.size \in Nat /\ limit(u) \in Int /\ limit(t) <= limit(u)
  <2>1. u.size \in Nat
    BY <1>2 DEF Thread
  <2> QED
    BY ONLY <1>1, <1>2, <2>1, Sizes DEF limit
<1>6. FrameOK(u, d)
  <2>1. FrameOK(u, c)
    BY <1>1, <1>2, FrameKept
  <2>2. e <= limit(u)
    OBVIOUS
  <2> QED
    BY ONLY <1>4, <2>1, <2>2 DEF FrameOK, isByte
<1>7. ~isByte(d) => begin(u) <= u.top
  <2>1. ~isByte(c) => begin(t) <= t.top
    BY DEF Fits
  <2> QED
    BY <1>1, <1>2, <1>4, <2>1 DEF isByte, begin
<1>8. u.top <= limit(u) /\ c.base <= d.base /\ (~isFull(t, n) => t.top + n <= limit(u)) /\ c = ci(t) /\ d = ci(u)
  <2>1. c.base \in Nat
    BY <1>1 DEF CallInfo
  <2> QED
    BY <1>1, <1>2, <1>4, <1>5, <2>1
<1>9. Fits(t) /\ (c.run = "host" => d.run = "host")
  BY <1>4
<1>10. Fits(u)
  BY ONLY <1>2, <1>4, <1>6, <1>7, <1>8, <1>9, Reframed
<1> QED
  BY ONLY <1>1, <1>2, <1>4, <1>8, <1>10 DEF begin

LEMMA GrownOK ==
  ASSUME NEW x, Fits(x), isByte(ci(x)), NEW n \in Nat, begin(x) + ci(x).used + n <= limit(x)
  PROVE  Fits(Grown(x, n)) /\ Len(Grown(x, n).calls) = Len(x.calls)
<1> PICK c \in CallInfo : c = ci(x)
  BY FitsTypes
<1>1. /\ x \in Thread /\ x.top \in Nat /\ x.top <= limit(x) /\ x.size <= STACK_MAXSIZE /\ x.size \in Nat
      /\ Len(x.calls) >= 1 /\ FrameOK(x, c) /\ begin(x) = c.begin /\ c.used \in Nat /\ c.begin \in Nat
      /\ c.base \in Nat
  BY FitsTypes
<1> PICK m \in Nat : m = c.used + n
  BY <1>1
<1> PICK d \in CallInfo : d = [c EXCEPT !.used = m]
  BY DEF CallInfo
<1>2. /\ d.run = c.run /\ d.begin = c.begin /\ d.end = c.end /\ d.base = c.base /\ d.retTo = c.retTo
      /\ d.want = c.want /\ d.used = c.used + n
  BY DEF CallInfo
<1> PICK u : u = current(x, d)
  OBVIOUS
<1>3. Grown(x, n) = u
  BY DEF Grown
<1>4. /\ u \in Thread /\ u.top = x.top /\ u.size = x.size /\ Len(u.calls) = Len(x.calls) /\ ci(u) = d
      /\ \A i \in 1 .. Len(x.calls) - 1 : u.calls[i] = x.calls[i]
  BY ONLY <1>1, d \in CallInfo, u = current(x, d), currentOK
<1>5. limit(u) = limit(x)
  BY <1>4 DEF limit
<1>6. isByte(d) /\ d.begin + d.used <= limit(x) /\ c = ci(x)
  <2>1. d.begin + d.used = begin(x) + ci(x).used + n
    BY <1>1, <1>2
  <2> QED
    BY <1>2, <2>1 DEF isByte
<1>7. FrameOK(u, d)
  BY ONLY <1>1, <1>2, <1>5, <1>6 DEF FrameOK, isByte
<1>8. x.size <= u.size /\ u.size <= STACK_MAXSIZE /\ u.top <= limit(u) /\ c.base <= d.base
  BY ONLY <1>1, <1>2, <1>4, <1>5
<1>9. Fits(x) /\ (c.run = "host" => d.run = "host")
  BY <1>2
<1>10. Fits(u)
  BY ONLY <1>2, <1>4, <1>6, <1>7, <1>8, <1>9, Reframed
<1> QED
  BY <1>3, <1>4, <1>10

\* One value is a sequence of them.
LEMMA OneValue ==
  ASSUME NEW v \in Stored
  PROVE  <<v>> \in Seq(Stored) /\ Len(<<v>>) = 1
OBVIOUS

\* Room for one more value, which a C method makes sure of.
LEMMA TopFits ==
  ASSUME SInv, inC, CanIncTop, NEW v \in Stored
  PROVE  LET x == pushed(th, <<v>>) IN
         Fits(x) /\ x.calls = th.calls /\ x.size = th.size /\ x.top = th.top + 1
<1>1. <<v>> \in Seq(Stored) /\ Len(<<v>>) = 1
  BY OneValue
<1>2. th.top + 1 <= limit(th)
  BY Now DEF CanIncTop
<1> PICK x : x = pushed(th, <<v>>)
  OBVIOUS
<1>3. Fits(x) /\ x.calls = th.calls /\ x.size = th.size /\ x.top = th.top + Len(<<v>>)
  BY <1>1, <1>2, Pushes
<1> QED
  BY <1>1, <1>3

LEMMA pushStep ==
  ASSUME SInv, NEW v \in Stored, inC, CanIncTop, Becomes(pushed(th, <<v>>))
  PROVE  SInv'
<1> PICK x : x = pushed(th, <<v>>)
  OBVIOUS
<1>1. Fits(x) /\ x.calls = th.calls
  BY TopFits
<1>2. Len(x.calls) <= Len(th.calls)
  BY <1>1, Now
<1> QED
  BY <1>1, <1>2, Done

LEMMA putStep ==
  ASSUME SInv, NEW from \in Nat, NEW values \in Seq(Stored), Becomes(put(th, from, values))
  PROVE  SInv'
<1> PICK x : x = put(th, from, values)
  OBVIOUS
<1>1. Fits(x) /\ x.calls = th.calls
  BY Stores, Now, putOK
<1>2. Len(x.calls) <= Len(th.calls)
  BY <1>1, Now
<1> QED
  BY <1>1, <1>2, Done

\* Values are stored, then the n topmost are dropped.
LEMMA popStep ==
  ASSUME SInv, inC, NEW from \in Nat, NEW values \in Seq(Stored), NEW n \in Nat, n <= size(th),
         Becomes(popped(put(th, from, values), n))
  PROVE  SInv'
<1> PICK x : x = put(th, from, values)
  OBVIOUS
<1>1. Fits(x) /\ x.calls = th.calls /\ x.size = th.size /\ x.top = th.top
  BY Stores, Now, putOK
<1>2. n <= x.top /\ begin(th) + n <= x.top
  BY <1>1, Now
<1>3. Fits(popped(x, n)) /\ popped(x, n).calls = th.calls
  BY <1>1, <1>2, Pops
<1>4. Len(popped(x, n).calls) <= Len(th.calls)
  BY <1>3, Now
<1> QED
  BY <1>3, <1>4, Done

LEMMA deleteLocalStep ==
  ASSUME SInv, NEW i \in Index, deleteLocal(i)
  PROVE  SInv'
<1> PICK p : p = begin(th) + i
  OBVIOUS
<1>1. inC /\ Becomes(popped(put(th, p, slots(th, p + 1, th.top)), 1))
  BY DEF deleteLocal
<1>2. p \in Nat /\ p + 1 \in Nat /\ p + 1 <= th.top /\ th.top <= STACK_ERRORSIZE /\ 1 <= size(th)
  <2>1. /\ begin(th) \in Nat /\ size(th) \in Nat /\ size(th) = th.top - begin(th) /\ th.top \in Nat
        /\ limit(th) \in Int /\ th.top <= limit(th) /\ limit(th) < STACK_MAXSIZE
    BY <1>1, Now
  <2>2. i \in Nat /\ i < size(th)
    BY ONLY <2>1, i \in Index DEF Index
  <2> QED
    BY ONLY <2>1, <2>2, Sizes, p = begin(th) + i
<1>3. slots(th, p + 1, th.top) \in Seq(Stored)
  BY <1>2, Now, slotsOK
<1> QED
  BY <1>1, <1>2, <1>3, popStep

LEMMA insertLocalStep ==
  ASSUME SInv, NEW i \in Index, insertLocal(i)
  PROVE  SInv'
<1> PICK p : p = begin(th) + i
  OBVIOUS
<1>1. inC /\ Becomes(put(th, p, <<th.stack[th.top - 1]>> \o slots(th, p, th.top - 1)))
  BY DEF insertLocal
<1>2. p \in Nat /\ p <= th.top - 1 /\ th.top - 1 \in Nat /\ th.top - 1 <= STACK_ERRORSIZE /\ th.top - 1 < STACK_MAXSIZE
  <2>1. /\ begin(th) \in Nat /\ size(th) \in Nat /\ size(th) = th.top - begin(th) /\ th.top \in Nat
        /\ limit(th) \in Int /\ th.top <= limit(th) /\ limit(th) < STACK_MAXSIZE
    BY <1>1, Now
  <2>2. i \in Nat /\ i < size(th)
    BY ONLY <2>1, i \in Index DEF Index
  <2> QED
    BY ONLY <2>1, <2>2, Sizes, p = begin(th) + i
<1>3. slots(th, p, th.top - 1) \in Seq(Stored) /\ <<th.stack[th.top - 1]>> \in Seq(Stored)
  BY <1>2, Now, slotsOK, OneValue
<1>4. <<th.stack[th.top - 1]>> \o slots(th, p, th.top - 1) \in Seq(Stored)
  BY <1>3, ConcatProperties
<1> QED
  BY <1>1, <1>2, <1>4, putStep

LEMMA popValueStep ==
  ASSUME SInv, popValue
  PROVE  SInv'
<1>1. inC /\ 1 <= size(th) /\ Becomes(popped(th, 1))
  BY Now DEF popValue
<1>2. Fits(th) /\ 1 <= th.top /\ begin(th) + 1 <= th.top
  BY <1>1, Now
<1>3. Fits(popped(th, 1)) /\ popped(th, 1).calls = th.calls
  BY <1>2, Pops
<1>4. Len(popped(th, 1).calls) <= Len(th.calls)
  BY <1>3, Now
<1> QED
  BY <1>1, <1>3, <1>4, Done

LEMMA popGloVarStep ==
  ASSUME SInv, popGloVar
  PROVE  SInv'
<1> PICK t : t = pushed(th, <<Sym>>)
  OBVIOUS
<1>1. inC /\ 1 <= size(th) /\ CanIncTop /\ Becomes(popped(t, 2))
  BY Now DEF popGloVar
<1>2. Sym \in Stored
  BY DEF Sym, Stored
<1>3. Fits(t) /\ t.calls = th.calls /\ t.size = th.size /\ t.top = th.top + 1
  BY <1>1, <1>2, TopFits
<1>4. 2 <= t.top /\ begin(th) + 2 <= t.top
  BY <1>1, <1>3, Now
<1>5. Fits(popped(t, 2)) /\ popped(t, 2).calls = th.calls
  BY <1>3, <1>4, Pops
<1>6. Len(popped(t, 2).calls) <= Len(th.calls)
  BY <1>5, Now
<1> QED
  BY <1>1, <1>5, <1>6, Done

LEMMA popLocalStep ==
  ASSUME SInv, NEW i \in Index, popLocal(i)
  PROVE  SInv'
<1>1. inC /\ Becomes(popped(put(th, begin(th) + i, <<th.stack[th.top - 1]>>), 1))
  BY DEF popLocal
<1>2. begin(th) + i \in Nat /\ 1 <= size(th) /\ th.top - 1 \in Nat /\ th.top - 1 < STACK_MAXSIZE
  <2>1. /\ begin(th) \in Nat /\ size(th) \in Nat /\ size(th) = th.top - begin(th) /\ th.top \in Nat
        /\ limit(th) \in Int /\ th.top <= limit(th) /\ limit(th) < STACK_MAXSIZE
    BY <1>1, Now
  <2>2. i \in Nat /\ i < size(th)
    BY ONLY <2>1, i \in Index DEF Index
  <2> QED
    BY ONLY <2>1, <2>2, Sizes
<1>3. <<th.stack[th.top - 1]>> \in Seq(Stored)
  BY <1>2, Now, OneValue
<1> QED
  BY <1>1, <1>2, <1>3, popStep

LEMMA dropTopStep ==
  ASSUME SInv, NEW n \in Nat, n <= size(th), dropTop(n)
  PROVE  SInv'
<1>1. inC /\ Becomes(popped(th, n))
  BY DEF dropTop
<1>2. Fits(th) /\ n <= th.top /\ begin(th) + n <= th.top
  BY <1>1, Now
<1>3. Fits(popped(th, n)) /\ popped(th, n).calls = th.calls
  BY <1>2, Pops
<1>4. Len(popped(th, n).calls) <= Len(th.calls)
  BY <1>3, Now
<1> QED
  BY <1>1, <1>3, <1>4, Done

LEMMA setTopStep ==
  ASSUME SInv, NEW n \in Nat, setTop(n)
  PROVE  SInv'
<1> PICK k : k = n - size(th)
  OBVIOUS
<1> PICK x : x = pushed(th, nulls(k))
  OBVIOUS
<1> PICK top : top = begin(th) + n
  OBVIOUS
<1>1. inC /\ top <= limit(th) /\ Becomes([x EXCEPT !.top = top])
  BY DEF setTop, limit
<1>2. k \in Int /\ top \in Nat /\ begin(th) <= top /\ th.top + greater(k, 0) <= limit(th)
  BY <1>1, Now, SMTT(30) DEF greater
<1>3. nulls(k) \in Seq(Stored) /\ Len(nulls(k)) = greater(k, 0)
  BY <1>2, nullsOK
<1>4. Fits(x) /\ x.calls = th.calls /\ x.size = th.size
  BY <1>2, <1>3, Pushes
<1>5. Fits([x EXCEPT !.top = top])
  BY <1>1, <1>2, <1>4, Moves
<1>6. Len([x EXCEPT !.top = top].calls) <= Len(th.calls)
  BY <1>4, Now DEF Fits, Thread
<1> QED
  BY <1>1, <1>5, <1>6, Done

LEMMA pushClosureStep ==
  ASSUME SInv, NEW n \in Nat, pushClosure(n)
  PROVE  SInv'
<1>1. inC /\ n \in 2 .. size(th) /\ Becomes(popped(put(th, th.top - n, <<"closure">>), n - 1))
  BY DEF pushClosure
<1>2. th.top - n \in Nat /\ n - 1 \in Nat /\ n - 1 <= size(th)
  BY <1>1, Now, SMTT(30)
<1>3. "closure" \in Stored
  BY DEF Stored, Callable
<1>4. <<"closure">> \in Seq(Stored)
  BY <1>3, OneValue
<1> QED
  BY <1>1, <1>2, <1>4, popStep

LEMMA NeedMoreLocalStep ==
  ASSUME SInv, NeedMoreLocal
  PROVE  SInv'
<1> PICK n : n = MaxLive - th.top
  OBVIOUS
<1> PICK u : u = needMoreLocal(th, n)
  OBVIOUS
<1>1. n \in Nat /\ Becomes(u)
  BY Now, Sizes, SMTT(30) DEF NeedMoreLocal
<1>2. Fits(u) /\ Len(u.calls) = Len(th.calls)
  BY <1>1, Now, needMoreLocalFits
<1>3. Len(u.calls) <= Len(th.calls)
  BY <1>2, Now
<1> QED
  BY <1>1, <1>2, <1>3, Done

\* What the code in byte code knows: registers, and room for all of them.
LEMMA Registers ==
  ASSUME SInv, inBC
  PROVE  /\ isByte(ci(th)) /\ size(th) = ci(th).used /\ begin(th) + MaxStack <= limit(th)
         /\ \A want \in Wants : want \in {0, MaxWant} /\ want \in Nat /\ want # BCVARRET
<1>1. isByte(ci(th)) /\ size(th) = ci(th).used /\ begin(th) + MaxStack <= limit(th)
  BY Now DEF inBC, FrameOK
<1>2. Wants = {0, MaxWant}
  BY <1>1 DEF Wants, inC
<1> QED
  BY <1>1, <1>2, Sizes

LEMMA LoadStep ==
  ASSUME SInv, NEW v \in Value, Load(v)
  PROVE  SInv'
<1> PICK x : x = put(th, begin(th) + size(th), <<v>>)
  OBVIOUS
<1>1. inBC /\ size(th) < MaxStack /\ Becomes(Grown(x, 1))
  BY DEF Load
<1>2. <<v>> \in Seq(Stored)
  BY OneValue DEF Stored
<1>3. Fits(x) /\ x.calls = th.calls /\ x.size = th.size
  <2> PICK from \in Nat : from = begin(th) + size(th)
    BY Now
  <2>1. th \in Thread
    BY Now
  <2>2. SInv /\ x = put(th, from, <<v>>)
    OBVIOUS
  <2>3. Fits(x)
    BY ONLY <1>2, <2>2, from \in Nat, Stores
  <2>4. from \in Int
    OBVIOUS
  <2>5. x.calls = th.calls /\ x.size = th.size
    BY ONLY <1>2, <2>1, <2>2, <2>4, putOK
  <2> QED
    BY ONLY <2>3, <2>5
<1>4. ci(x) = ci(th) /\ begin(x) = begin(th) /\ limit(x) = limit(th)
  BY <1>3 DEF ci, begin, limit
<1>5. begin(x) + ci(x).used + 1 <= limit(x)
  BY <1>1, <1>4, Now, Registers, Sizes
<1>6. isByte(ci(x))
  BY <1>1, <1>4, Registers
<1>7. Fits(Grown(x, 1)) /\ Len(Grown(x, 1).calls) = Len(x.calls)
  BY <1>3, <1>5, <1>6, GrownOK
<1>8. Len(Grown(x, 1).calls) <= Len(th.calls)
  BY <1>3, <1>7, Now
<1> QED
  BY <1>1, <1>7, <1>8, Done

LEMMA OpLoadVarargStep ==
  ASSUME Regular, SInv, NEW n \in Wants \cup {BCVARRET}, OpLoadVararg(n)
  PROVE  SInv'
<1> PICK nbrvar : nbrvar = begin(th) - ci(th).base - NParms - 1
  OBVIOUS
<1> PICK rega : rega = begin(th) + size(th)
  OBVIOUS
<1> PICK others : others = slots(th, begin(th) - nbrvar, begin(th))
  OBVIOUS
<1>1. inBC /\ isVarParm(ci(th).run)
  BY DEF OpLoadVararg
<1>2. /\ begin(th) \in Nat /\ th.top \in Nat /\ limit(th) \in Int /\ limit(th) < STACK_MAXSIZE /\ size(th) \in Nat
      /\ rega = begin(th) + ci(th).used /\ ci(th).used \in Nat /\ rega <= limit(th)
      /\ ci(th).base \in Nat /\ begin(th) + MaxStack <= limit(th) /\ Len(th.calls) \in Nat
      /\ size(th) = ci(th).used
  BY <1>1, Now, Registers DEF CallInfo
<1>3. begin(th) > ci(th).base + NParms
  BY <1>1, Now, Registers DEF FrameOK, isVarParm, isByte
<1>4. nbrvar \in Nat /\ nbrvar <= begin(th) /\ begin(th) <= STACK_ERRORSIZE /\ rega \in Nat
  <2>1. nbrvar = begin(th) - ci(th).base - NParms - 1
    OBVIOUS
  <2> PICK b \in Nat, m \in Nat, p \in Nat : b = begin(th) /\ m = ci(th).base /\ p = NParms
    BY <1>2, Sizes
  <2>2. nbrvar = b - m - p - 1 /\ b > m + p
    BY <1>3, <2>1
  <2>3. nbrvar \in Nat /\ nbrvar <= b
    BY ONLY <2>2, b \in Nat, m \in Nat, p \in Nat
  <2>4. begin(th) <= STACK_ERRORSIZE
    BY ONLY <1>2, Sizes
  <2>5. rega \in Nat
    BY ONLY <1>2
  <2> QED
    BY <2>3, <2>4, <2>5
<1>5. others \in Seq(Stored) /\ Len(others) = nbrvar
  <2> PICK from \in Nat : from = begin(th) - nbrvar
    BY <1>2, <1>4
  <2>1. from <= begin(th) /\ begin(th) - from = nbrvar /\ others = slots(th, from, begin(th))
    BY <1>2, <1>4
  <2>2. th \in Thread
    BY Now
  <2> QED
    BY ONLY <1>2, <1>4, <2>1, <2>2, from \in Nat, slotsOK
<1>6. CASE n = BCVARRET
  <2> PICK room : room = needMoreLocal(th, nbrvar)
    OBVIOUS
  <2> PICK all : all = [room EXCEPT !.top = rega + nbrvar]
    OBVIOUS
  <2> PICK x : x = put(all, rega, others)
    OBVIOUS
  <2>1. ~(th.top < rega) /\ ~isFull(th, nbrvar) /\ Becomes(Grown(x, nbrvar))
    BY <1>6 DEF OpLoadVararg, Regular
  <2>2. /\ Fits(room) /\ Len(room.calls) = Len(th.calls) /\ begin(room) = begin(th) /\ ci(room).used = ci(th).used
        /\ ci(room).run = ci(th).run /\ th.top + nbrvar <= limit(room)
    <3>1. Fits(th) /\ room = needMoreLocal(th, nbrvar)
      BY Now
    <3> QED
      BY ONLY <1>4, <2>1, <3>1, needMoreLocalFits
  <2>3. rega + nbrvar <= limit(room) /\ rega + nbrvar \in Nat
    <3>1. limit(room) \in Int
      BY <2>2, FitsTypes
    <3> QED
      BY ONLY <1>2, <1>4, <2>1, <2>2, <3>1, SMTT(30)
  <2>4. all \in Thread /\ all.top = rega + nbrvar /\ all.size = room.size /\ all.calls = room.calls
    <3>1. room \in Thread /\ all = [room EXCEPT !.top = rega + nbrvar]
      BY <2>2, FitsTypes
    <3> QED
      BY ONLY <2>3, <3>1 DEF Thread
  <2>5. x \in Thread /\ x.top = rega + nbrvar /\ x.size = room.size /\ x.calls = room.calls
    <3>1. x = put(all, rega, others) /\ rega \in Int
      BY <1>4
    <3> QED
      BY ONLY <1>5, <2>4, <3>1, putOK
  <2>6. ci(x) = ci(room) /\ begin(x) = begin(room) /\ limit(x) = limit(room)
    BY ONLY <2>5 DEF ci, begin, limit
  <2>7. isByte(ci(x)) /\ isByte(ci(room))
    BY <1>1, <2>2, <2>6 DEF inBC, isByte
  <2>8. Fits(x)
    BY ONLY <2>2, <2>3, <2>5, <2>7, Moved
  <2>9. begin(x) + ci(x).used + nbrvar <= limit(x)
    BY ONLY <1>2, <1>4, <2>2, <2>3, <2>6
  <2>10. Fits(Grown(x, nbrvar)) /\ Len(Grown(x, nbrvar).calls) = Len(x.calls)
    BY ONLY <1>4, <2>7, <2>8, <2>9, GrownOK
  <2>11. Len(Grown(x, nbrvar).calls) <= Len(th.calls)
    BY ONLY <1>2, <2>2, <2>5, <2>10
  <2>12. SInv
    OBVIOUS
  <2> QED
    BY ONLY <2>1, <2>10, <2>11, <2>12, Done
<1>7. CASE n # BCVARRET
  <2> PICK some : some = [i \in 1 .. n |-> IF i <= nbrvar THEN others[i] ELSE Null]
    OBVIOUS
  <2> PICK x : x = put(th, rega, some)
    OBVIOUS
  <2>1. size(th) + n <= MaxStack /\ Becomes(Grown(x, n)) /\ n \in Nat
    BY <1>1, <1>7, Registers DEF OpLoadVararg
  <2>2. some \in Seq(Stored)
    <3>1. \A i \in 1 .. n : (IF i <= nbrvar THEN others[i] ELSE Null) \in Stored
      <4> TAKE i \in 1 .. n
      <4>1. i <= nbrvar => i \in 1 .. Len(others)
        BY <1>4, <1>5, <2>1
      <4> QED
        BY <1>5, <4>1, ElementOfSeq DEF Stored
    <3>2. some \in [1 .. n -> Stored]
      BY <3>1
    <3> QED
      BY ONLY <2>1, <3>2, FunctionIsSeq
  <2>3. Fits(x) /\ x.calls = th.calls /\ x.size = th.size
    BY <1>4, <2>2, Now, Stores, putOK, SMTT(30)
  <2>4. ci(x) = ci(th) /\ begin(x) = begin(th) /\ limit(x) = limit(th)
    BY ONLY <2>3 DEF ci, begin, limit
  <2>5. begin(x) + ci(x).used + n <= limit(x)
    BY ONLY <1>2, <2>1, <2>4, Sizes
  <2>6. isByte(ci(x))
    BY <1>1, <2>4 DEF inBC
  <2>7. Fits(Grown(x, n)) /\ Len(Grown(x, n).calls) = Len(x.calls)
    BY ONLY <2>1, <2>3, <2>5, <2>6, GrownOK
  <2>8. Len(Grown(x, n).calls) <= Len(th.calls)
    BY ONLY <1>2, <2>3, <2>7
  <2>9. SInv
    OBVIOUS
  <2> QED
    BY ONLY <2>1, <2>7, <2>8, <2>9, Done
<1> QED
  BY <1>6, <1>7

\* The thread that a call starts from.
LEMMA Live ==
  ASSUME SInv
  PROVE  /\ Fits(live) /\ live \in Thread /\ live.calls = th.calls /\ live.size = th.size /\ live.stack = th.stack
         /\ live.top = begin(th) + size(th)
<1> PICK top \in Nat : top = begin(th) + size(th)
  BY Now
<1>1. th \in Thread /\ live = [th EXCEPT !.top = top]
  BY Now DEF live
<1>2. /\ live \in Thread /\ live.calls = th.calls /\ live.size = th.size /\ live.stack = th.stack
      /\ live.top = top
  BY ONLY <1>1, top \in Nat DEF Thread
<1>3. top <= limit(th) /\ (inC => begin(th) <= top)
  BY Now
<1> QED
  BY <1>1, <1>2, <1>3, Now, Moves

\* What is found to call can be called, or is something a property may be.
LEMMA FoundAre == ASSUME NEW n, NEW m \in found(n) PROVE m \in Properties \cup Callable
BY DEF found

\* The same, when what is called was looked up.
LEMMA Looked ==
  ASSUME SInv, NEW n \in Index, NEW m \in Properties \cup Callable, NEW mv, mv = live.top - n - 1, NEW t, t = looked(live, mv, m)
  PROVE  /\ Fits(t) /\ t.calls = th.calls /\ t.size = th.size /\ t.top = live.top /\ mv \in Nat
         /\ begin(th) <= mv /\ mv < t.top /\ t.top - mv - 1 = n
         /\ ci(t) = ci(th) /\ begin(t) = begin(th) /\ limit(t) = limit(th)
<1>1. /\ Fits(live) /\ live \in Thread /\ live.calls = th.calls /\ live.size = th.size
      /\ live.top = begin(th) + size(th) /\ begin(th) \in Nat /\ size(th) \in Nat
      /\ limit(th) \in Int /\ begin(th) + size(th) <= limit(th)
  BY Live, Now
<1>2. mv \in Nat /\ begin(th) <= mv /\ mv < live.top /\ live.top - mv - 1 = n
  <2>1. n \in Nat /\ n < size(th)
    BY ONLY <1>1, n \in Index DEF Index
  <2> PICK b \in Nat, z \in Nat : b = begin(th) /\ z = size(th)
    BY <1>1
  <2>2. mv = b + z - n - 1 /\ live.top = b + z /\ n < z
    BY <1>1, <2>1
  <2>3. mv \in Nat /\ b <= mv /\ mv < b + z /\ b + z - mv - 1 = n
    BY ONLY <2>1, <2>2, b \in Nat, z \in Nat
  <2> QED
    BY <2>2, <2>3
<1>3. Fits(t) /\ t.calls = live.calls /\ t.size = live.size /\ t.top = live.top
  <2>1. CASE live.stack[mv] \in Callable
    BY <1>1, <2>1 DEF looked
  <2>2. CASE live.stack[mv] \notin Callable
    <3>1. t = put(live, mv, <<m>>) /\ mv \in Int
      BY <1>2, <2>2 DEF looked
    <3>2. <<m>> \in Seq(Stored)
      BY PropertiesFit, OneValue DEF Stored
    <3>3. t \in Thread /\ t.calls = live.calls /\ t.size = live.size /\ t.top = live.top
      BY ONLY <1>1, <3>1, <3>2, putOK
    <3>4. live.top <= limit(live) /\ (~isByte(ci(live)) => begin(live) <= live.top)
      BY <1>1 DEF Fits
    <3> QED
      BY ONLY <1>1, <3>3, <3>4, Moved
  <2> QED
    BY <2>1, <2>2
<1>4. ci(t) = ci(th) /\ begin(t) = begin(th) /\ limit(t) = limit(th)
  BY <1>1, <1>3 DEF ci, begin, limit
<1> QED
  BY ONLY <1>1, <1>2, <1>3, <1>4

\* The caller asked for room.
LEMMA Asked ==
  ASSUME SInv, NEW want \in Wants, NEW from \in Nat, want # BCVARRET => RoomFor(from, want)
  PROVE  /\ want \in Nat /\ (want # BCVARRET => from + want <= limit(th))
         /\ inBC => want # BCVARRET /\ from + want <= begin(th) + MaxStack
<1>1. want \in Nat
  BY Sizes DEF Wants
<1>2. CASE inBC
  <2>1. want # BCVARRET /\ begin(th) + MaxStack <= limit(th)
    BY <1>2, Registers
  <2>2. from + want <= begin(th) + MaxStack
    BY <1>2, <2>1 DEF RoomFor
  <2>3. begin(th) \in Nat /\ limit(th) \in Int
    BY Now
  <2> QED
    BY <1>1, <2>1, <2>2, <2>3, Sizes
<1>3. CASE ~inBC
  <2>1. want # BCVARRET => from + want <= ci(th).end
    BY <1>3 DEF RoomFor
  <2>2. ci(th).end \in Nat /\ ci(th).end <= limit(th) /\ limit(th) \in Int
    BY Now
  <2> QED
    BY ONLY <1>1, <1>3, <2>1, <2>2, from \in Nat
<1> QED
  BY <1>2, <1>3

LEMMA CallStep ==
  ASSUME Regular, SInv, NEW m \in Properties \cup Callable, NEW n \in Index, NEW want \in Wants, NEW set \in BOOLEAN,
         Call(m, n, want, set)
  PROVE  SInv'
<1> PICK mv : mv = live.top - n - 1
  OBVIOUS
<1> PICK t : t = looked(live, mv, m)
  OBVIOUS
<1> PICK u : u = IF set /\ ~isClosure(t.stack[mv]) THEN invalidCall(t, mv, want)
                 ELSE callMorCPrep(t, mv, want, set, 0)
  OBVIOUS
<1>1. /\ isRegular(t.stack[mv], n, live.top, want, set) /\ (want # BCVARRET => RoomFor(mv, want)) /\ Becomes(u)
  BY DEF Call
<1>2. /\ Fits(t) /\ t.calls = th.calls /\ t.size = th.size /\ t.top = live.top /\ mv \in Nat
      /\ begin(th) <= mv /\ mv < t.top /\ t.top - mv - 1 = n
      /\ ci(t) = ci(th) /\ begin(t) = begin(th) /\ limit(t) = limit(th)
  BY Looked
<1>3. /\ want \in Nat /\ (want # BCVARRET => mv + want <= limit(th))
      /\ inBC => want # BCVARRET /\ mv + want <= begin(th) + MaxStack
  BY <1>1, <1>2, Asked
<1>4. ci(th).used <= MaxLive /\ Len(th.calls) \in Nat
  BY Now
<1>5. CASE set /\ ~isClosure(t.stack[mv])
  <2>1. u = invalidCall(t, mv, want) /\ begin(t) <= mv /\ (want # BCVARRET => mv + want <= limit(t))
    BY <1>2, <1>3, <1>5
  <2>2. Fits(u) /\ Len(u.calls) = Len(t.calls)
    BY ONLY <1>2, <1>3, <2>1, invalidCallOK
  <2>3. Len(u.calls) <= Len(th.calls)
    BY ONLY <1>2, <1>4, <2>2
  <2> QED
    BY <1>1, <2>2, <2>3, Done
<1>6. CASE ~(set /\ ~isClosure(t.stack[mv]))
  <2>1. u = callMorCPrep(t, mv, want, set, 0) /\ set \in BOOLEAN /\ Regular
    BY <1>6
  <2>2. want # BCVARRET => mv + 0 + want <= limit(t)
    BY ONLY <1>2, <1>3
  <2>3. isByte(ci(t)) => want # BCVARRET /\ mv + 0 + want <= begin(t) + MaxStack
    BY ONLY <1>2, <1>3 DEF inBC
  <2>4. isRegular(t.stack[mv], t.top - mv - 1, t.top, want, set) /\ begin(t) <= mv /\ ci(t).used <= MaxLive
    BY <1>1, <1>2, <1>4
  <2>5. 0 \in {0, 1}
    OBVIOUS
  <2>6. Fits(u)
    BY ONLY <1>2, <1>3, <2>1, <2>2, <2>3, <2>4, <2>5, callMorCPrepOK
  <2> QED
    BY <1>1, <2>6, Done
<1> QED
  BY <1>5, <1>6

LEMMA OpEachCallStep ==
  ASSUME Regular, SInv, NEW n \in Index, NEW want \in Wants, OpEachCall(n, want)
  PROVE  SInv'
<1> PICK mv : mv = live.top - n - 1
  OBVIOUS
<1> PICK u : u = callMorCPrep(live, mv, want, FALSE, 1)
  OBVIOUS
<1>1. /\ inBC /\ isRegular(live.stack[mv], n, live.top, want, FALSE) /\ RoomFor(mv + 1, want) /\ Becomes(u)
      /\ live.stack[mv] \in Callable
  BY Live DEF OpEachCall
<1>2. /\ Fits(live) /\ live.calls = th.calls /\ live.size = th.size
      /\ live.top = begin(th) + size(th) /\ begin(th) \in Nat /\ size(th) \in Nat
  BY Live, Now
<1>3. mv \in Nat /\ begin(th) <= mv /\ mv < live.top /\ live.top - mv - 1 = n
  <2>1. n \in Nat /\ n < size(th)
    BY ONLY <1>2, n \in Index DEF Index
  <2> PICK b \in Nat, z \in Nat : b = begin(th) /\ z = size(th)
    BY <1>2
  <2>2. mv = b + z - n - 1 /\ live.top = b + z /\ n < z
    BY <1>2, <2>1
  <2>3. mv \in Nat /\ b <= mv /\ mv < b + z /\ b + z - mv - 1 = n
    BY ONLY <2>1, <2>2, b \in Nat, z \in Nat
  <2> QED
    BY <2>2, <2>3
<1>4. ci(live) = ci(th) /\ begin(live) = begin(th) /\ limit(live) = limit(th)
  BY <1>2 DEF ci, begin, limit
<1>5. /\ want \in Nat /\ want # BCVARRET /\ mv + 1 + want <= begin(th) + MaxStack
      /\ mv + 1 + want <= limit(th)
  <2>1. mv + 1 \in Nat
    BY <1>3
  <2> QED
    BY <1>1, <2>1, Asked, Registers
<1>6. /\ Regular /\ Fits(live) /\ ci(live).used <= MaxLive /\ begin(live) <= mv /\ mv < live.top /\ FALSE \in BOOLEAN
      /\ (want # BCVARRET => mv + 1 + want <= limit(live)) /\ 1 \in {0, 1} /\ u = callMorCPrep(live, mv, want, FALSE, 1)
      /\ (isByte(ci(live)) => want # BCVARRET /\ mv + 1 + want <= begin(live) + MaxStack)
      /\ isRegular(live.stack[mv], live.top - mv - 1, live.top, want, FALSE)
  BY <1>1, <1>2, <1>3, <1>4, <1>5, Now
<1>7. Fits(u)
  BY ONLY <1>3, <1>5, <1>6, callMorCPrepOK
<1> QED
  BY <1>1, <1>7, Done

LEMMA popSetActPropStep ==
  ASSUME Regular, SInv, NEW m \in Properties, NEW i \in Index, popSetActProp(m, i)
  PROVE  SInv'
<1> PICK value : value = th.stack[th.top - 1]
  OBVIOUS
<1> PICK a : a = pushed(th, <<Sym>>)
  OBVIOUS
<1> PICK b : b = put(a, th.top - 1, <<m, stkAt(i)>>)
  OBVIOUS
<1> PICK t : t = pushed(b, <<value>>)
  OBVIOUS
<1>1. /\ inC /\ size(th) > 0 /\ CanIncTop
      /\ m \in Callable => th.top + 2 <= ci(th).end /\ isRegular(m, 2, t.top, 1, FALSE)
      /\ Becomes(IF m \in Callable THEN callMorCPrep(t, t.top - 3, 1, FALSE, 0) ELSE popped(th, 1))
  BY DEF popSetActProp
<1>2. /\ Fits(th) /\ th \in Thread /\ th.top \in Nat /\ begin(th) \in Nat /\ size(th) = th.top - begin(th)
      /\ limit(th) \in Int /\ th.top <= limit(th) /\ limit(th) < STACK_MAXSIZE /\ Len(th.calls) \in Nat
      /\ ci(th).used <= MaxLive /\ begin(th) <= th.top /\ ci(th).end \in Nat /\ ci(th).end <= limit(th)
  BY <1>1, Now
<1>3. CASE m \notin Callable
  <2>1. Becomes(popped(th, 1)) /\ inC /\ size(th) > 0
    BY <1>1, <1>3
  <2>2. 1 <= th.top /\ begin(th) + 1 <= th.top
    BY ONLY <1>2, <2>1
  <2>3. Fits(popped(th, 1)) /\ popped(th, 1).calls = th.calls
    BY <1>2, <2>2, Pops
  <2>4. Len(popped(th, 1).calls) <= Len(th.calls)
    BY <1>2, <2>3
  <2> QED
    BY <2>1, <2>3, <2>4, Done
<1>4. CASE m \in Callable
  <2> PICK u : u = callMorCPrep(t, t.top - 3, 1, FALSE, 0)
    OBVIOUS
  <2> PICK mv : mv = th.top - 1
    OBVIOUS
  <2>1. Becomes(u) /\ th.top + 2 <= ci(th).end /\ isRegular(m, 2, t.top, 1, FALSE)
    BY <1>1, <1>4
  <2>2. mv \in Nat /\ mv < STACK_MAXSIZE /\ begin(th) <= mv /\ mv + 1 = th.top
    <3>1. mv = th.top - 1 /\ size(th) > 0
      BY <1>1
    <3> QED
      BY ONLY <1>2, <3>1, Sizes
  <2>3. Sym \in Stored /\ value \in Stored /\ stkAt(i) \in Stored /\ m \in Stored
    <3>1. i \in Nat /\ i <= size(th)
      BY Now DEF Index
    <3>2. stkAt(i) \in Stored
      BY <3>1, Local
    <3>3. value \in Stored
      BY <2>2, Now
    <3> QED
      BY <3>2, <3>3, PropertiesFit DEF Sym, Stored
  <2>4. Fits(a) /\ a.calls = th.calls /\ a.size = th.size /\ a.top = th.top + 1
    BY <1>1, <2>3, TopFits
  <2>5. <<m, stkAt(i)>> \in Seq(Stored)
    BY <2>3
  <2>6. b \in Thread /\ b.calls = th.calls /\ b.size = th.size /\ b.top = th.top + 1
    <3>1. a \in Thread /\ b = put(a, mv, <<m, stkAt(i)>>) /\ mv \in Int
      BY <2>2, <2>4, FitsTypes
    <3> QED
      BY ONLY <2>4, <2>5, <3>1, putOK
  <2>7. t \in Thread /\ t.calls = th.calls /\ t.size = th.size /\ t.top = th.top + 2
    <3>1. <<value>> \in Seq(Stored) /\ Len(<<value>>) = 1
      BY <2>3, OneValue
    <3>2. t = pushed(b, <<value>>)
      OBVIOUS
    <3>3. t \in Thread /\ t.calls = b.calls /\ t.size = b.size /\ t.top = b.top + 1
      BY ONLY <2>6, <3>1, <3>2, pushedOK
    <3> QED
      BY ONLY <1>2, <2>6, <3>3
  <2>8. t.stack[mv] = m
    <3> PICK v : v = [x \in Slot |-> IF x - mv \in 0 .. 1 THEN <<m, stkAt(i)>>[x - mv + 1] ELSE a.stack[x]]
      OBVIOUS
    <3> PICK w : w = [x \in Slot |-> IF x - b.top \in 0 .. Len(<<value>>) - 1 THEN <<value>>[x - b.top + 1] ELSE b.stack[x]]
      OBVIOUS
    <3>1. a \in Thread
      BY <2>4, FitsTypes
    <3>2. b = [a EXCEPT !.stack = v]
      BY SMTT(30) DEF put
    <3>3. b.stack = v
      BY ONLY <3>1, <3>2 DEF Thread
    <3>4. t.stack = w
      <4> PICK c : c = put(b, b.top, <<value>>)
        OBVIOUS
      <4>1. c = [b EXCEPT !.stack = w]
        BY DEF put
      <4>2. t = [c EXCEPT !.top = c.top + 1]
        BY DEF pushed
      <4>3. c.stack = w /\ c \in Thread
        <5>1. <<value>> \in Seq(Stored) /\ b.top \in Int
          BY <1>2, <2>3, <2>6, OneValue
        <5>2. c = put(b, b.top, <<value>>)
          OBVIOUS
        <5>3. c \in Thread
          BY ONLY <2>6, <5>1, <5>2, putOK
        <5> QED
          BY <2>6, <4>1, <5>3 DEF Thread
      <4> QED
        BY ONLY <4>2, <4>3 DEF Thread
    <3>5. mv \in Slot
      BY <2>2, Sizes DEF Slot
    <3>6. mv - b.top \notin 0 .. Len(<<value>>) - 1 /\ mv - mv \in 0 .. 1 /\ mv - mv + 1 = 1
      <4>1. Len(<<value>>) = 1
        OBVIOUS
      <4> QED
        BY ONLY <1>2, <2>2, <2>6, <4>1
    <3>7. w[mv] = b.stack[mv]
      BY <3>5, <3>6
    <3>8. v[mv] = m
      BY <3>5, <3>6
    <3> QED
      BY ONLY <3>3, <3>4, <3>7, <3>8
  <2>9. t.top <= limit(t) /\ limit(t) = limit(th) /\ ci(t) = ci(th) /\ begin(t) = begin(th)
    <3>1. limit(t) = limit(th) /\ ci(t) = ci(th) /\ begin(t) = begin(th)
      BY ONLY <2>7 DEF limit, ci, begin
    <3> QED
      BY ONLY <1>2, <2>1, <2>7, <3>1
  <2>10. Fits(t) /\ ~isByte(ci(t))
    <3>1. ~isByte(ci(th)) /\ begin(th) <= t.top
      BY <1>1, <1>2, <2>7 DEF inC
    <3> QED
      BY <1>2, <2>7, <2>9, <3>1, Moved
  <2>11. t.top - 3 = mv /\ t.top - mv - 1 = 2 /\ mv < t.top /\ mv + 0 + 1 <= limit(t) /\ begin(t) <= mv
    BY ONLY <1>2, <2>2, <2>7, <2>9
  <2>12. /\ Regular /\ Fits(t) /\ ci(t).used <= MaxLive /\ mv \in Nat /\ begin(t) <= mv /\ mv < t.top /\ 1 \in Nat
         /\ 0 \in {0, 1} /\ (1 # BCVARRET => mv + 0 + 1 <= limit(t)) /\ FALSE \in BOOLEAN
         /\ (isByte(ci(t)) => 1 # BCVARRET /\ mv + 0 + 1 <= begin(t) + MaxStack)
         /\ isRegular(t.stack[mv], t.top - mv - 1, t.top, 1, FALSE) /\ u = callMorCPrep(t, mv, 1, FALSE, 0)
    BY <1>2, <2>1, <2>2, <2>8, <2>9, <2>10, <2>11
  <2>13. Fits(u)
    BY ONLY <2>12, callMorCPrepOK
  <2> QED
    BY <2>1, <2>13, Done
<1> QED
  BY <1>3, <1>4

LEMMA ReturnStep ==
  ASSUME SInv, NEW i \in 0 .. size(th), NEW n \in 0 .. size(th), Return(i, n)
  PROVE  SInv'
<1>1. /\ Len(th.calls) > 1 /\ i + n <= size(th)
      /\ \/ inC /\ i + n = size(th) /\ Becomes(returned(th, th.top - n, n))
         \/ inBC /\ Becomes(OpReturnTo(th, begin(th) + i, n))
  BY DEF Return
<1>2. /\ Fits(th) /\ th.top \in Nat /\ begin(th) \in Nat /\ size(th) \in Nat /\ Len(th.calls) \in Nat
      /\ limit(th) \in Int /\ th.top <= limit(th) /\ begin(th) + size(th) <= limit(th)
      /\ (inC => size(th) = th.top - begin(th))
  BY Now
<1>3. i \in Nat /\ n \in Nat
  BY ONLY <1>2, i \in 0 .. size(th), n \in 0 .. size(th)
<1>4. CASE inC /\ i + n = size(th) /\ Becomes(returned(th, th.top - n, n))
  <2> PICK from : from = th.top - n
    OBVIOUS
  <2>1. from = th.top - n
    OBVIOUS
  <2>2. from \in Nat /\ begin(th) <= from /\ from + n <= limit(th)
    BY ONLY <1>2, <1>3, <1>4, <2>1, SMTT(30)
  <2>3. Fits(returned(th, from, n)) /\ Len(returned(th, from, n).calls) < Len(th.calls)
    BY ONLY <1>1, <1>2, <1>3, <2>2, returnedOK
  <2>4. Len(returned(th, from, n).calls) <= Len(th.calls)
    BY <1>2, <2>3, FitsTypes
  <2> QED
    BY <1>4, <2>3, <2>4, Done
<1>5. CASE inBC /\ Becomes(OpReturnTo(th, begin(th) + i, n))
  <2> PICK from : from = begin(th) + i
    OBVIOUS
  <2>1. from = begin(th) + i
    OBVIOUS
  <2>2. from \in Nat /\ begin(th) <= from /\ from + n <= limit(th)
    BY ONLY <1>1, <1>2, <1>3, <2>1
  <2>3. Fits(OpReturnTo(th, from, n)) /\ Len(OpReturnTo(th, from, n).calls) < Len(th.calls)
    BY ONLY <1>1, <1>2, <1>3, <2>2, returnedOK
  <2>4. Len(OpReturnTo(th, from, n).calls) <= Len(th.calls)
    BY <1>2, <2>3, FitsTypes
  <2> QED
    BY <1>5, <2>3, <2>4, Done
<1> QED
  BY <1>1, <1>4, <1>5

LEMMA OpTailCallStep ==
  ASSUME Regular, SInv, NEW m \in Properties \cup Callable, NEW n \in Index, OpTailCall(m, n)
  PROVE  SInv'
<1> PICK mv : mv = live.top - n - 1
  OBVIOUS
<1> PICK t : t = looked(live, mv, m)
  OBVIOUS
<1> PICK run : run = realmethod(t.stack[mv], FALSE)
  OBVIOUS
<1> PICK u : u = IF run = "none" THEN returnNulls(t) ELSE tailcallMorCPrep(t, mv)
  OBVIOUS
<1>1. /\ inBC /\ ci(th).retTo = ci(th).base /\ run \notin {"y", "yv"}
      /\ isRegular(t.stack[mv], n, ci(t).base + n + 1, 0, FALSE) /\ Becomes(u)
  BY DEF OpTailCall
<1>2. /\ Fits(t) /\ t.calls = th.calls /\ t.size = th.size /\ t.top = live.top /\ mv \in Nat
      /\ begin(th) <= mv /\ mv < t.top /\ t.top - mv - 1 = n
      /\ ci(t) = ci(th) /\ begin(t) = begin(th) /\ limit(t) = limit(th)
  BY Looked
<1>3. isByte(ci(t)) /\ Len(th.calls) \in Nat /\ Len(th.calls) > 1
  <2>1. isByte(ci(th)) /\ Len(th.calls) \in Nat /\ Len(th.calls) >= 1 /\ ci(th) = th.calls[Len(th.calls)]
    BY <1>1, Now, FitsTypes DEF inBC
  <2>2. th.calls[1].run = "host"
    BY Now DEF Fits
  <2>3. Len(th.calls) # 1
    BY <2>1, <2>2 DEF isByte
  <2> QED
    <3> PICK k \in Nat : k = Len(th.calls)
      BY <2>1
    <3>1. k >= 1 /\ k # 1
      BY <2>1, <2>3
    <3>2. k > 1
      BY ONLY <3>1, k \in Nat
    <3>3. Len(th.calls) > 1
      BY <3>2
    <3> QED
      BY ONLY <1>2, <2>1, <3>3
<1>4. CASE run = "none"
  <2>1. u = returnNulls(t) /\ Len(t.calls) > 1
    BY <1>2, <1>3, <1>4
  <2>2. Fits(u) /\ Len(u.calls) < Len(t.calls)
    BY ONLY <1>2, <1>3, <2>1, returnNullsOK
  <2>3. Len(u.calls) <= Len(th.calls)
    <3>1. Len(u.calls) \in Nat
      BY <2>2, FitsTypes
    <3> QED
      BY ONLY <1>2, <1>3, <2>2, <3>1
  <2> QED
    BY <1>1, <2>2, <2>3, Done
<1>5. CASE run # "none"
  <2>1. /\ Regular /\ begin(t) <= mv /\ ci(t).retTo = ci(t).base /\ u = tailcallMorCPrep(t, mv)
        /\ realmethod(t.stack[mv], FALSE) \notin {"none", "y", "yv"}
    BY <1>1, <1>2, <1>5
  <2>2. isRegular(t.stack[mv], t.top - mv - 1, ci(t).base + (t.top - mv), 0, FALSE)
    <3>1. t.top \in Nat /\ ci(t).base \in Nat
      BY <1>2, FitsTypes
    <3> PICK to : to = ci(t).base + n + 1
      OBVIOUS
    <3>2. n \in Nat
      BY <1>2, Now DEF Index
    <3>3. ci(t).base + (t.top - mv) = ci(t).base + n + 1
      BY ONLY <1>2, <3>1, <3>2
    <3> QED
      BY <1>1, <1>2, <3>3
  <2>3. Fits(u) /\ Len(u.calls) = Len(t.calls)
    <3>1. CanTail(t, mv, run)
      BY <1>1, <1>2, <1>3, <1>5, <2>1, <2>2 DEF CanTail
    <3> QED
      BY ONLY <2>1, <3>1, tailcallMorCPrepOK
  <2>4. Len(u.calls) <= Len(th.calls)
    BY ONLY <1>2, <1>3, <2>3
  <2> QED
    BY <1>1, <2>3, <2>4, Done
<1> QED
  BY <1>4, <1>5

LEMMA FirstFits == Init => SInv
<1> SUFFICES ASSUME Init
             PROVE  SInv
  OBVIOUS
<1> PICK c : c = [run |-> "host", begin |-> 1, end |-> 1 + STACK_MINSIZE, base |-> 0, retTo |-> 0, want |-> 0, used |-> 0]
  OBVIOUS
<1> PICK s : s = [x \in Slot |-> IF x = 0 THEN Null ELSE Junk]
  OBVIOUS
<1>1. th = [stack |-> s, top |-> 1, size |-> STACK_NEWSIZE, calls |-> <<c>>]
  BY DEF Init
<1>2. c \in CallInfo /\ s \in [Slot -> Stored]
  BY Sizes DEF CallInfo, Stored
<1>3. <<c>> \in Seq(CallInfo) /\ Len(<<c>>) = 1 /\ <<c>>[1] = c
  BY <1>2
<1>4. th \in Thread /\ th.top = 1 /\ th.size = STACK_NEWSIZE /\ th.calls = <<c>>
  BY ONLY <1>1, <1>2, <1>3, Sizes DEF Thread
<1>5. ci(th) = c /\ begin(th) = 1
  BY <1>3, <1>4 DEF ci, begin, Last
<1>6. limit(th) = STACK_NEWSIZE - STACK_EXTRA
  BY <1>4 DEF limit
<1>7. c.run = "host" /\ c.begin = 1 /\ c.end = 1 + STACK_MINSIZE /\ c.base = 0 /\ c.retTo = 0 /\ c.want = 0 /\ c.used = 0
  OBVIOUS
<1>8. FrameOK(th, c) /\ ~isByte(c)
  BY ONLY <1>6, <1>7, Sizes DEF FrameOK, isByte
<1>9. th.top <= limit(th) /\ th.size <= STACK_MAXSIZE
  BY ONLY <1>4, <1>6, Sizes
<1>10. Fits(th)
  BY ONLY <1>3, <1>4, <1>5, <1>7, <1>8, <1>9 DEF Fits
<1> QED
  BY <1>3, <1>4, <1>5, <1>7, <1>10, Sizes DEF SInv

\* Each operation leaves a stack that fits.
LEMMA OneStep ==
  ASSUME Regular
  PROVE  SInv /\ Next => SInv'
<1> SUFFICES ASSUME SInv, Next
             PROVE  SInv'
  OBVIOUS
<1>1. \A i \in Index : i \in Nat /\ i + 1 \in Nat /\ i + 1 <= size(th) /\ i <= size(th)
  BY Now DEF Index
<1>2. \A i \in Index : begin(th) + i \in Nat /\ stkAt(i) \in Stored
  BY <1>1, Local
<1>3. \A v \in Stored : <<v>> \in Seq(Stored)
  BY OneValue
<1>4. ASSUME NEW v \in Value, pushValue(v) \/ Load(v) \/ \E i \in Index : setLocal(i, v)
      PROVE  SInv'
  <2>1. v \in Stored
    BY DEF Stored
  <2>2. CASE pushValue(v)
    BY <2>1, <2>2, pushStep DEF pushValue
  <2>3. CASE Load(v)
    BY <2>3, LoadStep
  <2>4. CASE \E i \in Index : setLocal(i, v)
    BY <1>2, <1>3, <2>1, <2>4, putStep DEF setLocal
  <2> QED
    BY <1>4, <2>2, <2>3, <2>4
<1>5. ASSUME NEW i \in Index,
             \/ pushLocal(i) \/ deleteLocal(i) \/ insertLocal(i)
             \/ popLocal(i) \/ pushClosure(i + 1) \/ dropTop(i + 1)
      PROVE  SInv'
  <2>1. CASE pushLocal(i)
    BY <1>2, <2>1, pushStep DEF pushLocal
  <2>2. CASE deleteLocal(i)
    BY <2>2, deleteLocalStep
  <2>3. CASE insertLocal(i)
    BY <2>3, insertLocalStep
  <2>4. CASE popLocal(i)
    BY <2>4, popLocalStep
  <2>5. CASE pushClosure(i + 1)
    BY <1>1, <2>5, pushClosureStep
  <2>6. CASE dropTop(i + 1)
    BY <1>1, <2>6, dropTopStep
  <2> QED
    BY <1>5, <2>1, <2>2, <2>3, <2>4, <2>5, <2>6
<1>6. ASSUME NEW i \in Index, NEW j \in Index, copyLocal(i, j) \/ OpLoadReg(i, j)
      PROVE  SInv'
  BY <1>2, <1>3, <1>6, putStep DEF copyLocal, OpLoadReg
<1>7. CASE popValue \/ popGloVar \/ NeedMoreLocal
  BY <1>7, popValueStep, popGloVarStep, NeedMoreLocalStep
<1>8. ASSUME NEW n \in 0 .. MaxLive, setTop(n)
      PROVE  SInv'
  BY <1>8, setTopStep
<1>9. ASSUME NEW n \in Index, NEW m \in found(n),
             (\E want \in Wants : Call(m, n, want, FALSE) \/ Call(m, n, want, TRUE)) \/ OpTailCall(m, n)
      PROVE  SInv'
  <2>0. m \in Properties \cup Callable
    BY FoundAre
  <2>1. ASSUME NEW want \in Wants, NEW set \in BOOLEAN, Call(m, n, want, set)
        PROVE  SInv'
    BY <2>0, <2>1, CallStep
  <2>2. CASE OpTailCall(m, n)
    BY <2>0, <2>2, OpTailCallStep
  <2> QED
    BY <1>9, <2>1, <2>2
<1>13. ASSUME NEW m \in Properties, NEW i \in Index, popSetActProp(m, i)
       PROVE  SInv'
  BY <1>13, popSetActPropStep
<1>10. ASSUME NEW n \in Index, NEW want \in Wants, OpEachCall(n, want)
       PROVE  SInv'
  BY <1>10, OpEachCallStep
<1>11. ASSUME NEW i \in 0 .. size(th), NEW n \in 0 .. size(th), Return(i, n)
       PROVE  SInv'
  BY <1>11, ReturnStep
<1>12. ASSUME NEW n \in Wants \cup {BCVARRET}, OpLoadVararg(n)
       PROVE  SInv'
  BY <1>12, OpLoadVarargStep
<1> QED
  BY ONLY Next, <1>4, <1>5, <1>6, <1>7, <1>8, <1>9, <1>10, <1>11, <1>12, <1>13 DEF Next

\* What the invariant says to a reader of the stack: the type invariant, and that nothing is beyond what may be used.
LEMMA InvSays == SInv => WithinStack
<1> SUFFICES ASSUME SInv
             PROVE  WithinStack
  OBVIOUS
<1>1. /\ th \in Thread /\ th.top \in Nat /\ th.size \in Nat /\ th.size <= STACK_MAXSIZE /\ th.top <= limit(th)
      /\ limit(th) < STACK_MAXSIZE /\ limit(th) = th.size - STACK_EXTRA
      /\ Len(th.calls) \in Nat /\ Len(th.calls) >= 1 /\ Len(th.calls) <= MaxFrames
  BY Now DEF SInv, Fits, limit
<1>2. \A i \in 1 .. Len(th.calls) : th.calls[i] \in CallInfo /\ FrameOK(th, th.calls[i])
  BY <1>1, callsOK DEF SInv, Fits
<1>3. \A i \in 1 .. Len(th.calls) : th.calls[i].used \in Nat /\ th.calls[i].used <= MaxLive
  <2> TAKE i \in 1 .. Len(th.calls)
  <2>1. CASE i = Len(th.calls)
    BY <1>1, <1>2, <2>1, callsOK DEF SInv, CallInfo
  <2>2. CASE i \in 1 .. Len(th.calls) - 1
    BY <1>2, <2>2 DEF SInv, Fits, Nested, CallInfo
  <2> QED
    BY <1>1, <2>1, <2>2
<1>4. DOMAIN th.calls = 1 .. Len(th.calls)
  BY <1>1 DEF Thread
<1>5. TypeOK
  <2>1. th.stack \in [Slot -> Value \cup Callable \cup {Null, Junk, "yielder"}]
    BY <1>1 DEF Thread, Stored
  <2>2. th.top \in Slot /\ th.size \in Nat /\ Len(th.calls) \in 1 .. MaxFrames
    BY ONLY <1>1, Sizes DEF Slot
  <2>3. ASSUME NEW i \in DOMAIN th.calls
        PROVE  th.calls[i].base < th.calls[i].begin /\ th.calls[i].used \in 0 .. MaxStack + MaxLive
    <3>1. i \in 1 .. Len(th.calls)
      BY <1>4
    <3>2. th.calls[i].used \in 0 .. MaxStack + MaxLive
      BY <1>3, <3>1, Sizes
    <3> QED
      BY <1>2, <3>1, <3>2 DEF FrameOK
  <2> QED
    BY <2>1, <2>2, <2>3 DEF TypeOK
<1>6. ASSUME NEW i \in DOMAIN th.calls
      PROVE  /\ th.calls[i].end <= th.size - STACK_EXTRA
             /\ isByte(th.calls[i]) => th.calls[i].begin + MaxStack <= th.size - STACK_EXTRA
  BY <1>1, <1>2, <1>4 DEF FrameOK
<1> QED
  BY <1>1, <1>5, <1>6 DEF WithinStack

------------------------------------------------------------------------------
\* At every moment, whatever is called with whatever parameters and results, the stack fits: of a program that is
\* regular (README.md names the calls that are not), and for all sizes that a stack can be built with.
THEOREM StackInvariant == ASSUME Regular PROVE Spec => []SInv
<1>1. SInv /\ [Next]_vars => SInv'
  <2>1. SInv /\ UNCHANGED vars => SInv'
    BY DEF vars, SInv, Fits, FrameOK, Nested, limit, ci, begin
  <2> QED
    BY <2>1, OneStep
<1> QED
  BY <1>1, FirstFits, PTL DEF Spec

\* No frame ends beyond the slots that may be used, no stk_top is there, and a method in byte code has all of its
\* registers: what stkGrow, needMoreLocal and the moves of callMorCPrep and tailcallMorCPrep are for.
THEOREM NoOverrun == ASSUME Regular PROVE Spec => []WithinStack
BY StackInvariant, InvSays, PTL
=============================================================================
