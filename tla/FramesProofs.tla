---------------------------- MODULE FramesProofs ----------------------------
(***************************************************************************)
(* What happens on the data stack of a thread (Stacks) is what Frames      *)
(* promises: each method finds its parameters, keeps its values while it   *)
(* waits, and is given the results that it wants in their place.           *)
(***************************************************************************)
EXTENDS StacksProofs, SeqProofs

------------------------------------------------------------------------------
(***************************************************************************)
(* The areas of the frames lie behind each other.                          *)
(***************************************************************************)
\* What is known of the frames of a thread that fits, one by one.
LEMMA Areas ==
  ASSUME NEW t, Fits(t)
  PROVE  /\ Len(t.calls) \in Nat /\ Len(t.calls) >= 1
         /\ \A i \in 1 .. Len(t.calls) :
              LET c == t.calls[i] IN
              /\ c \in CallInfo /\ {c.begin, c.base, c.retTo, c.used, c.want} \subseteq Nat
              /\ c.base < c.begin /\ c.base <= c.retTo /\ c.retTo <= c.begin
              /\ c.run = "v" => c.base + NParms < c.begin
         /\ \A i \in 1 .. Len(t.calls) - 1 : t.calls[i].begin <= t.calls[i + 1].base
<1>1. t \in Thread /\ Len(t.calls) \in Nat /\ Len(t.calls) >= 1
  BY FitsTypes
<1>2. ASSUME NEW i \in 1 .. Len(t.calls)
      PROVE  LET c == t.calls[i] IN
              /\ c \in CallInfo /\ {c.begin, c.base, c.retTo, c.used, c.want} \subseteq Nat
              /\ c.base < c.begin /\ c.base <= c.retTo /\ c.retTo <= c.begin
              /\ c.run = "v" => c.base + NParms < c.begin
  <2> PICK c : c = t.calls[i]
    OBVIOUS
  <2>1. c \in CallInfo
    BY <1>1, callsOK
  <2>2. FrameOK(t, c)
    BY DEF Fits
  <2>3. {c.begin, c.base, c.retTo, c.used, c.want} \subseteq Nat
    BY <2>1 DEF CallInfo
  <2>4. c.base < c.begin /\ c.base <= c.retTo /\ c.retTo <= c.begin
    BY ONLY <2>2, <2>3 DEF FrameOK
  <2>5. c.run = "v" => c.base + NParms < c.begin
    BY ONLY <2>2, <2>3, Sizes DEF FrameOK
  <2> QED
    BY <2>1, <2>3, <2>4, <2>5
<1>3. ASSUME NEW i \in 1 .. Len(t.calls) - 1
      PROVE  t.calls[i].begin <= t.calls[i + 1].base
  BY DEF Fits, Nested
<1> QED
  BY <1>1, <1>2, <1>3

LEMMA InOrder ==
  ASSUME NEW t, Fits(t)
  PROVE  \A j \in 1 .. Len(t.calls) : \A i \in 1 .. j : t.calls[i].begin <= t.calls[j].begin
<1> PICK n \in Nat : n = Len(t.calls)
  BY Areas
<1> DEFINE S == {k \in Nat : k + 1 <= n => \A i \in 1 .. k + 1 : t.calls[i].begin <= t.calls[k + 1].begin}
<1>1. /\ \A i \in 1 .. n : t.calls[i].begin \in Nat /\ t.calls[i].base \in Nat /\ t.calls[i].base < t.calls[i].begin
      /\ \A i \in 1 .. n - 1 : t.calls[i].begin <= t.calls[i + 1].base
  BY Areas
<1>2. 0 \in S
  BY <1>1
<1>3. ASSUME NEW k \in Nat, k \in S PROVE k + 1 \in S
  <2> SUFFICES ASSUME k + 2 <= n, NEW i \in 1 .. k + 2 PROVE t.calls[i].begin <= t.calls[k + 2].begin
    OBVIOUS
  <2>1. k + 1 \in 1 .. n - 1 /\ k + 1 \in 1 .. n /\ k + 2 \in 1 .. n /\ (k + 1) + 1 = k + 2
    OBVIOUS
  <2>2. t.calls[k + 1].begin <= t.calls[k + 2].base /\ t.calls[k + 2].base < t.calls[k + 2].begin
    BY ONLY <1>1, <2>1
  <2>3. CASE i = k + 2
    BY ONLY <2>3, <1>1, <2>1
  <2>4. CASE i \in 1 .. k + 1
    <3>1. t.calls[i].begin <= t.calls[k + 1].begin
      BY <1>3, <2>4
    <3>2. i \in 1 .. n
      BY <2>4
    <3> QED
      BY ONLY <1>1, <2>1, <2>2, <3>1, <3>2
  <2> QED
    BY <2>3, <2>4
<1> HIDE DEF S
<1>4. Nat \subseteq S
  BY <1>2, <1>3, Induct
<1> SUFFICES ASSUME NEW j \in 1 .. n, NEW i \in 1 .. j PROVE t.calls[i].begin <= t.calls[j].begin
  OBVIOUS
<1>5. j - 1 \in S /\ (j - 1) + 1 = j
  BY <1>4
<1> QED
  BY <1>5 DEF S

------------------------------------------------------------------------------
(***************************************************************************)
(* The frames that a method leaves alone.                                  *)
(***************************************************************************)
values(t) == slots(t, begin(t), begin(t) + size(t))
\* The slots below p hold what they held.
Same(t, u, p) == \A x \in Nat : x < p => u.stack[x] = t.stack[x]
SameCall(c, d) == d.run = c.run /\ d.base = c.base /\ d.begin = c.begin /\ d.want = c.want

LEMMA SameSlots ==
  ASSUME NEW t, NEW u, NEW from \in Nat, NEW to \in Nat, NEW p \in Nat, to <= p, Same(t, u, p)
  PROVE  slots(u, from, to) = slots(t, from, to)
<1>1. \A i \in 1 .. to - from : u.stack[from + i - 1] = t.stack[from + i - 1]
  BY DEF Same
<1> QED
  BY <1>1 DEF slots

LEMMA SameFrame ==
  ASSUME NEW t, NEW u, NEW i, NEW p \in Nat, SameCall(t.calls[i], u.calls[i]),
         t.calls[i].begin \in Nat, t.calls[i].base \in Nat, t.calls[i].base < t.calls[i].begin, t.calls[i].begin <= p,
         NEW to \in Nat, to = upTo(t, i), to = upTo(u, i), to <= p, Same(t, u, p)
  PROVE  frameOfCall(u, i) = frameOfCall(t, i)
<1> PICK c : c = t.calls[i]
  OBVIOUS
<1> PICK d : d = u.calls[i]
  OBVIOUS
<1>1. d.run = c.run /\ d.base = c.base /\ d.begin = c.begin /\ d.want = c.want
  BY DEF SameCall
<1>2. u.stack[c.base] = t.stack[c.base]
  BY DEF Same
<1>3. slots(u, c.begin, to) = slots(t, c.begin, to)
  BY SameSlots
<1>4. slots(u, c.base + 1 + NParms, c.begin) = slots(t, c.base + 1 + NParms, c.begin)
  <2>1. c.base + 1 + NParms \in Nat /\ c.begin \in Nat /\ c.begin <= p /\ Same(t, u, p)
    BY Sizes
  <2> QED
    BY ONLY <2>1, p \in Nat, SameSlots
<1>5. /\ frameOfCall(t, i) = [method |-> t.stack[c.base], want |-> c.want, locals |-> slots(t, c.begin, to),
            rest |-> IF c.run = "v" THEN slots(t, c.base + 1 + NParms, c.begin) ELSE <<>>]
      /\ frameOfCall(u, i) = [method |-> u.stack[d.base], want |-> d.want, locals |-> slots(u, d.begin, to),
            rest |-> IF d.run = "v" THEN slots(u, d.base + 1 + NParms, d.begin) ELSE <<>>]
  BY DEF frameOfCall
<1> QED
  BY ONLY <1>1, <1>2, <1>3, <1>4, <1>5

\* The frames below the k-th, when that one still gives its results where it did and nothing changed below there.
LEMMA LowerFrames ==
  ASSUME NEW t, Fits(t), NEW k \in 1 .. Len(t.calls), NEW u, Len(u.calls) \in Nat, k <= Len(u.calls),
         \A i \in 1 .. k - 1 : u.calls[i] = t.calls[i], u.calls[k].retTo = t.calls[k].retTo,
         Same(t, u, t.calls[k].retTo)
  PROVE  \A i \in 1 .. k - 1 : frameOfCall(u, i) = frameOfCall(t, i)
<1> PICK n \in Nat : n = Len(t.calls)
  BY Areas
<1> PICK p \in Nat : p = t.calls[k].retTo
  BY Areas
<1> SUFFICES ASSUME NEW i \in 1 .. k - 1 PROVE frameOfCall(u, i) = frameOfCall(t, i)
  OBVIOUS
<1> PICK c : c = t.calls[i]
  OBVIOUS
<1>1. /\ \A j \in 1 .. n : /\ t.calls[j].begin \in Nat /\ t.calls[j].base \in Nat /\ t.calls[j].retTo \in Nat
                           /\ t.calls[j].base < t.calls[j].begin /\ t.calls[j].base <= t.calls[j].retTo
                           /\ t.calls[j].retTo <= t.calls[j].begin
      /\ \A j \in 1 .. n - 1 : t.calls[j].begin <= t.calls[j + 1].base
  BY Areas
<1>2. \A j \in 1 .. n : \A l \in 1 .. j : t.calls[l].begin <= t.calls[j].begin
  BY InOrder
<1>3. i \in 1 .. n /\ i + 1 \in 1 .. n /\ k - 1 \in 1 .. n /\ k - 1 \in 1 .. n - 1 /\ i \in 1 .. k - 1 /\ k - 1 + 1 = k
      /\ k \in 1 .. n
  OBVIOUS
<1>4. c.begin \in Nat /\ c.base \in Nat /\ c.base < c.begin
  BY <1>1, <1>3
<1>5. t.calls[k - 1].begin <= p /\ t.calls[k - 1].begin \in Nat
  <2>1. t.calls[k - 1].begin <= t.calls[k].base /\ t.calls[k].base <= t.calls[k].retTo
    BY ONLY <1>1, <1>3
  <2>2. t.calls[k - 1].begin \in Nat /\ t.calls[k].base \in Nat /\ p = t.calls[k].retTo
    BY <1>1, <1>3
  <2> QED
    BY ONLY <2>1, <2>2, p \in Nat
<1>6. c.begin <= p
  <2>1. c.begin <= t.calls[k - 1].begin
    BY <1>2, <1>3
  <2> QED
    BY ONLY <1>4, <1>5, <2>1, p \in Nat
<1> PICK to \in Nat : to = t.calls[i + 1].retTo
  BY <1>1, <1>3
<1>7. to = upTo(t, i) /\ to = upTo(u, i)
  <2>1. i # Len(t.calls) /\ i # Len(u.calls)
    BY <1>3
  <2>2. u.calls[i + 1].retTo = to
    <3>1. CASE i + 1 = k
      BY <3>1
    <3>2. CASE i + 1 \in 1 .. k - 1
      BY <3>2
    <3> QED
      BY <3>1, <3>2
  <2> QED
    BY <2>1, <2>2 DEF upTo
<1>8. to <= p
  <2>1. CASE i + 1 = k
    BY <2>1
  <2>2. CASE i + 1 \in 1 .. k - 1
    <3>1. to <= t.calls[i + 1].begin /\ t.calls[i + 1].begin <= t.calls[k - 1].begin /\ t.calls[i + 1].begin \in Nat
      BY <1>1, <1>2, <1>3, <2>2
    <3>2. t.calls[k - 1].begin <= p /\ t.calls[k - 1].begin \in Nat
      BY <1>5, <1>1, <1>3
    <3> QED
      BY ONLY <3>1, <3>2, p \in Nat, to \in Nat
  <2> QED
    BY <2>1, <2>2
<1>9. SameCall(t.calls[i], u.calls[i])
  BY DEF SameCall
<1> QED
  BY <1>4, <1>6, <1>7, <1>8, <1>9, SameFrame

------------------------------------------------------------------------------
(***************************************************************************)
(* The sequence of the frames, after the running method changed its        *)
(* values, was called, ended, or was replaced.                             *)
(***************************************************************************)
LEMMA FrameSeq ==
  ASSUME NEW t, Len(t.calls) \in Nat, NEW S, \A i \in 1 .. Len(t.calls) : frameOfCall(t, i) \in S
  PROVE  /\ framesOf(t) \in Seq(S) /\ Len(framesOf(t)) = Len(t.calls)
         /\ \A i \in 1 .. Len(t.calls) : framesOf(t)[i] = frameOfCall(t, i)
<1>1. framesOf(t) \in [1 .. Len(t.calls) -> S]
  BY DEF framesOf
<1>2. \A i \in 1 .. Len(t.calls) : framesOf(t)[i] = frameOfCall(t, i)
  BY DEF framesOf
<1> QED
  BY <1>1, <1>2, FunctionIsSeq

\* All frames of t and of u.
FrameSet(t, u) == {frameOfCall(t, i) : i \in 1 .. Len(t.calls)} \cup {frameOfCall(u, i) : i \in 1 .. Len(u.calls)}

LEMMA FrameSeqs ==
  ASSUME NEW t, NEW u, Len(t.calls) \in Nat, Len(u.calls) \in Nat
  PROVE  \E S : /\ framesOf(t) \in Seq(S) /\ framesOf(u) \in Seq(S)
                /\ \A i \in 1 .. Len(t.calls) : frameOfCall(t, i) \in S
                /\ \A i \in 1 .. Len(u.calls) : frameOfCall(u, i) \in S
<1> PICK S : S = FrameSet(t, u)
  OBVIOUS
<1>1. /\ \A i \in 1 .. Len(t.calls) : frameOfCall(t, i) \in S
      /\ \A i \in 1 .. Len(u.calls) : frameOfCall(u, i) \in S
  BY DEF FrameSet
<1>2. framesOf(t) \in Seq(S) /\ framesOf(u) \in Seq(S)
  BY <1>1, FrameSeq
<1> QED
  BY <1>1, <1>2

LEMMA FrameIs ==
  ASSUME NEW t, Len(t.calls) \in Nat
  PROVE  Len(framesOf(t)) = Len(t.calls) /\ \A i \in 1 .. Len(t.calls) : framesOf(t)[i] = frameOfCall(t, i)
<1> PICK S : \A i \in 1 .. Len(t.calls) : frameOfCall(t, i) \in S
  BY FrameSeqs
<1> QED
  BY FrameSeq

\* The running method's frame.
LEMMA RunningFrame ==
  ASSUME NEW t, Fits(t)
  PROVE  frameOfCall(t, Len(t.calls)) =
           [method |-> t.stack[ci(t).base], want |-> ci(t).want, locals |-> values(t),
            rest |-> IF ci(t).run = "v" THEN slots(t, ci(t).base + 1 + NParms, begin(t)) ELSE <<>>]
<1>1. ci(t) = t.calls[Len(t.calls)] /\ begin(t) = ci(t).begin
  BY FitsTypes
<1> QED
  BY <1>1 DEF frameOfCall, upTo, values

LEMMA Within ==
  ASSUME NEW t, Fits(t), NEW u, Fits(u), Len(u.calls) = Len(t.calls),
         \A i \in 1 .. Len(t.calls) - 1 : u.calls[i] = t.calls[i],
         SameCall(ci(t), ci(u)), ci(u).retTo = ci(t).retTo, Same(t, u, begin(t))
  PROVE  framesOf(u) = [framesOf(t) EXCEPT ![Len(t.calls)].locals = values(u)]
<1> PICK n \in Nat : n = Len(t.calls) /\ n >= 1
  BY Areas
<1> PICK c : c = ci(t)
  OBVIOUS
<1> PICK d : d = ci(u)
  OBVIOUS
<1>1. /\ c = t.calls[n] /\ d = u.calls[n] /\ begin(t) = c.begin /\ begin(u) = d.begin
      /\ {c.begin, c.base, c.retTo} \subseteq Nat /\ c.base < c.begin /\ c.retTo <= c.begin /\ n \in 1 .. n
  <2>1. n \in 1 .. n
    OBVIOUS
  <2>2. /\ {c.begin, c.base, c.retTo} \subseteq Nat /\ c.base < c.begin /\ c.retTo <= c.begin
    BY <2>1, Areas, FitsTypes
  <2> QED
    BY <2>1, <2>2, FitsTypes
<1>2. Same(t, u, c.retTo)
  BY <1>1 DEF Same
<1>3. \A i \in 1 .. n - 1 : frameOfCall(u, i) = frameOfCall(t, i)
  <2>1. /\ Fits(t) /\ n \in 1 .. Len(t.calls) /\ Len(u.calls) \in Nat /\ n <= Len(u.calls)
        /\ \A i \in 1 .. n - 1 : u.calls[i] = t.calls[i]
    OBVIOUS
  <2>2. u.calls[n].retTo = t.calls[n].retTo /\ Same(t, u, t.calls[n].retTo)
    BY <1>1, <1>2
  <2> QED
    BY ONLY <2>1, <2>2, LowerFrames
<1>4. frameOfCall(u, n) = [frameOfCall(t, n) EXCEPT !.locals = values(u)]
  <2>1. d.run = c.run /\ d.base = c.base /\ d.begin = c.begin /\ d.want = c.want
    BY DEF SameCall
  <2>2. u.stack[c.base] = t.stack[c.base]
    BY <1>1 DEF Same
  <2>3. slots(u, c.base + 1 + NParms, c.begin) = slots(t, c.base + 1 + NParms, c.begin)
    <3>1. c.base + 1 + NParms \in Nat /\ c.begin \in Nat /\ c.begin <= c.begin /\ Same(t, u, c.begin)
      BY <1>1, Sizes
    <3> QED
      BY ONLY <3>1, SameSlots
  <2>4. /\ frameOfCall(t, n) = [method |-> t.stack[c.base], want |-> c.want, locals |-> values(t),
             rest |-> IF c.run = "v" THEN slots(t, c.base + 1 + NParms, c.begin) ELSE <<>>]
        /\ frameOfCall(u, n) = [method |-> u.stack[d.base], want |-> d.want, locals |-> values(u),
             rest |-> IF d.run = "v" THEN slots(u, d.base + 1 + NParms, d.begin) ELSE <<>>]
    BY <1>1, RunningFrame
  <2> QED
    BY ONLY <2>1, <2>2, <2>3, <2>4
<1>5. \A i \in 1 .. n : frameOfCall(u, i) =
        [framesOf(t) EXCEPT ![n].locals = values(u)][i]
  <2> SUFFICES ASSUME NEW i \in 1 .. n PROVE frameOfCall(u, i) = [framesOf(t) EXCEPT ![n].locals = values(u)][i]
    OBVIOUS
  <2>1. framesOf(t)[i] = frameOfCall(t, i) /\ DOMAIN framesOf(t) = 1 .. n
    BY DEF framesOf
  <2>2. CASE i = n
    BY ONLY <1>1, <1>4, <2>1, <2>2
  <2>3. CASE i # n
    <3>1. frameOfCall(u, i) = frameOfCall(t, i)
      BY <1>3, <2>3
    <3> QED
      BY ONLY <2>1, <2>3, <3>1, i \in 1 .. n
  <2> QED
    BY <2>2, <2>3
<1>6. framesOf(u) = [i \in 1 .. n |-> frameOfCall(u, i)] /\ DOMAIN framesOf(t) = 1 .. n
  BY DEF framesOf
<1>7. framesOf(u) = [framesOf(t) EXCEPT ![n].locals = values(u)]
  <2> PICK g : g = [framesOf(t) EXCEPT ![n].locals = values(u)]
    OBVIOUS
  <2>1. DOMAIN g = 1 .. n /\ g = [i \in 1 .. n |-> g[i]]
    BY <1>6
  <2> QED
    BY <1>5, <1>6, <2>1
<1> QED
  BY <1>7

LEMMA Called ==
  ASSUME NEW t, Fits(t), NEW u, Fits(u), Len(u.calls) = Len(t.calls) + 1,
         \A i \in 1 .. Len(t.calls) : u.calls[i] = t.calls[i],
         begin(t) <= ci(u).retTo, Same(t, u, begin(t)),
         NEW kept, kept = slots(u, begin(t), ci(u).retTo)
  PROVE  framesOf(u) = Append([framesOf(t) EXCEPT ![Len(t.calls)].locals = kept], frameOfCall(u, Len(t.calls) + 1))
<1> PICK n \in Nat : n = Len(t.calls) /\ n >= 1
  BY Areas
<1> PICK c : c = ci(t)
  OBVIOUS
<1>1. /\ c = t.calls[n] /\ c = u.calls[n] /\ begin(t) = c.begin /\ ci(u) = u.calls[n + 1]
      /\ {c.begin, c.base, c.retTo} \subseteq Nat /\ c.base < c.begin /\ c.retTo <= c.begin /\ n \in 1 .. n
      /\ Len(u.calls) = n + 1
  <2>1. n \in 1 .. n
    OBVIOUS
  <2>2. /\ {c.begin, c.base, c.retTo} \subseteq Nat /\ c.base < c.begin /\ c.retTo <= c.begin
    BY <2>1, Areas, FitsTypes
  <2> QED
    BY <2>1, <2>2, FitsTypes
<1>2. Same(t, u, c.retTo)
  BY SMTT(30), ZenonT(30), <1>1 DEF Same
<1>3. \A i \in 1 .. n - 1 : frameOfCall(u, i) = frameOfCall(t, i)
  <2>1. /\ Fits(t) /\ n \in 1 .. Len(t.calls) /\ Len(u.calls) \in Nat /\ n <= Len(u.calls)
        /\ \A i \in 1 .. n - 1 : u.calls[i] = t.calls[i]
    OBVIOUS
  <2>2. u.calls[n].retTo = t.calls[n].retTo /\ Same(t, u, t.calls[n].retTo)
    BY <1>1, <1>2
  <2> QED
    BY ONLY <2>1, <2>2, LowerFrames
<1>4. frameOfCall(u, n) = [frameOfCall(t, n) EXCEPT !.locals = kept]
  <2>2. u.stack[c.base] = t.stack[c.base]
    BY <1>1 DEF Same
  <2>3. slots(u, c.base + 1 + NParms, c.begin) = slots(t, c.base + 1 + NParms, c.begin)
    <3>1. c.base + 1 + NParms \in Nat /\ c.begin \in Nat /\ c.begin <= c.begin /\ Same(t, u, c.begin)
      BY <1>1, Sizes
    <3> QED
      BY ONLY <3>1, SameSlots
  <2>4. /\ frameOfCall(t, n) = [method |-> t.stack[c.base], want |-> c.want, locals |-> values(t),
             rest |-> IF c.run = "v" THEN slots(t, c.base + 1 + NParms, c.begin) ELSE <<>>]
    BY <1>1, RunningFrame
  <2>5. upTo(u, n) = ci(u).retTo
    BY <1>1 DEF upTo
  <2>6. /\ frameOfCall(u, n) = [method |-> u.stack[c.base], want |-> c.want, locals |-> kept,
             rest |-> IF c.run = "v" THEN slots(u, c.base + 1 + NParms, c.begin) ELSE <<>>]
    BY <1>1, <2>5 DEF frameOfCall
  <2> QED
    BY ONLY <2>2, <2>3, <2>4, <2>6
<1> PICK S : /\ framesOf(t) \in Seq(S) /\ framesOf(u) \in Seq(S)
             /\ \A i \in 1 .. Len(t.calls) : frameOfCall(t, i) \in S
             /\ \A i \in 1 .. Len(u.calls) : frameOfCall(u, i) \in S
  <2>1. Len(t.calls) \in Nat /\ Len(u.calls) \in Nat
    OBVIOUS
  <2> QED
    BY ONLY <2>1, FrameSeqs
<1> PICK F : F = framesOf(t)
  OBVIOUS
<1> PICK g : g = [F EXCEPT ![n].locals = kept]
  OBVIOUS
<1>5. /\ F \in Seq(S) /\ Len(F) = n /\ \A i \in 1 .. n : F[i] = frameOfCall(t, i)
      /\ Len(framesOf(u)) = n + 1 /\ \A i \in 1 .. n + 1 : framesOf(u)[i] = frameOfCall(u, i)
  BY <1>1, FrameIs
<1>6. F[n] = frameOfCall(t, n) /\ frameOfCall(u, n) \in S /\ frameOfCall(u, n + 1) \in S
  BY <1>1, <1>5
<1>7. g = [F EXCEPT ![n] = frameOfCall(u, n)]
  BY ONLY <1>4, <1>6, g = [F EXCEPT ![n].locals = kept]
<1>8. g \in Seq(S) /\ Len(g) = n /\ \A i \in 1 .. n : g[i] = IF i = n THEN frameOfCall(u, n) ELSE F[i]
  BY ONLY <1>1, <1>5, <1>6, <1>7, ExceptSeq
<1>9. \A i \in 1 .. n : g[i] = frameOfCall(u, i)
  <2> SUFFICES ASSUME NEW i \in 1 .. n PROVE g[i] = frameOfCall(u, i)
    OBVIOUS
  <2>1. CASE i = n
    BY <2>1, <1>8
  <2>2. CASE i # n
    BY <2>2, <1>3, <1>5, <1>8
  <2> QED
    BY <2>1, <2>2
<1> PICK x : x = frameOfCall(u, n + 1)
  OBVIOUS
<1> PICK a : a = Append(g, x)
  OBVIOUS
<1>10. /\ a \in Seq(S) /\ Len(a) = n + 1 /\ a[n + 1] = x
       /\ \A i \in 1 .. n : a[i] = g[i]
  BY <1>6, <1>8, a = Append(g, x), AppendProperties
<1>11. \A i \in 1 .. n + 1 : a[i] = framesOf(u)[i]
  <2> SUFFICES ASSUME NEW i \in 1 .. n + 1 PROVE a[i] = framesOf(u)[i]
    OBVIOUS
  <2>1. CASE i = n + 1
    <3>1. framesOf(u)[n + 1] = x
      BY <1>5
    <3> QED
      BY ONLY <2>1, <3>1, <1>10
  <2>2. CASE i \in 1 .. n
    BY ONLY <2>2, <1>5, <1>9, <1>10, i \in 1 .. n + 1
  <2> QED
    BY ONLY <2>1, <2>2, i \in 1 .. n + 1, n \in Nat
<1>12. framesOf(u) = a
  BY ONLY <1>5, <1>10, <1>11, framesOf(u) \in Seq(S), SeqEqual
<1> QED
  BY <1>12

LEMMA FrontProperties ==
  ASSUME NEW S, NEW s \in Seq(S), Len(s) >= 1
  PROVE  /\ Front(s) \in Seq(S) /\ Len(Front(s)) = Len(s) - 1
         /\ \A i \in 1 .. Len(s) - 1 : Front(s)[i] = s[i]
<1> PICK n \in Nat : n = Len(s) /\ n >= 1
  BY LenProperties
<1>1. \A i \in 1 .. n - 1 : s[i] \in S
  BY ElementOfSeq
<1>2. Front(s) = SubSeq(s, 1, n - 1)
  BY DEF Front
<1>3. /\ SubSeq(s, 1, n - 1) \in Seq(S)
      /\ Len(SubSeq(s, 1, n - 1)) = IF 1 <= n - 1 THEN (n - 1) - 1 + 1 ELSE 0
      /\ \A i \in 1 .. (n - 1) - 1 + 1 : SubSeq(s, 1, n - 1)[i] = s[1 + i - 1]
  <2>1. 1 \in Int /\ n - 1 \in Int
    OBVIOUS
  <2> QED
    BY ONLY <1>1, <2>1, SubSeqProperties
<1>4. Len(SubSeq(s, 1, n - 1)) = n - 1
  BY ONLY <1>3, n >= 1, n \in Nat
<1>5. \A i \in 1 .. n - 1 : SubSeq(s, 1, n - 1)[i] = s[i]
  <2>1. \A i \in 1 .. n - 1 : 1 + i - 1 = i /\ i \in 1 .. (n - 1) - 1 + 1
    OBVIOUS
  <2> QED
    BY ONLY <1>3, <2>1
<1> QED
  BY <1>2, <1>3, <1>4, <1>5

LEMMA Replaced ==
  ASSUME NEW t, Fits(t), NEW u, Fits(u), Len(u.calls) = Len(t.calls),
         \A i \in 1 .. Len(t.calls) - 1 : u.calls[i] = t.calls[i],
         ci(u).retTo = ci(t).retTo, Same(t, u, ci(t).retTo)
  PROVE  framesOf(u) = Append(Front(framesOf(t)), frameOfCall(u, Len(t.calls)))
<1> PICK n \in Nat : n = Len(t.calls) /\ n >= 1
  BY Areas
<1>1. ci(t) = t.calls[n] /\ ci(u) = u.calls[n] /\ n \in 1 .. n /\ Len(u.calls) = n
  BY FitsTypes
<1>2. \A i \in 1 .. n - 1 : frameOfCall(u, i) = frameOfCall(t, i)
  <2>1. /\ Fits(t) /\ n \in 1 .. Len(t.calls) /\ Len(u.calls) \in Nat /\ n <= Len(u.calls)
        /\ \A i \in 1 .. n - 1 : u.calls[i] = t.calls[i]
    OBVIOUS
  <2>2. u.calls[n].retTo = t.calls[n].retTo /\ Same(t, u, t.calls[n].retTo)
    BY <1>1
  <2> QED
    BY ONLY <2>1, <2>2, LowerFrames
<1> PICK S : /\ framesOf(t) \in Seq(S) /\ framesOf(u) \in Seq(S)
             /\ \A i \in 1 .. Len(t.calls) : frameOfCall(t, i) \in S
             /\ \A i \in 1 .. Len(u.calls) : frameOfCall(u, i) \in S
  <2>1. Len(t.calls) \in Nat /\ Len(u.calls) \in Nat
    OBVIOUS
  <2> QED
    BY ONLY <2>1, FrameSeqs
<1> PICK F : F = framesOf(t)
  OBVIOUS
<1>3. /\ F \in Seq(S) /\ Len(F) = n /\ \A i \in 1 .. n : F[i] = frameOfCall(t, i)
      /\ Len(framesOf(u)) = n /\ \A i \in 1 .. n : framesOf(u)[i] = frameOfCall(u, i)
  BY <1>1, FrameIs
<1> PICK g : g = Front(F)
  OBVIOUS
<1>4. g \in Seq(S) /\ Len(g) = n - 1 /\ \A i \in 1 .. n - 1 : g[i] = F[i]
  BY <1>3, FrontProperties
<1> PICK x \in S : x = frameOfCall(u, n)
  BY <1>1
<1> PICK a : a = Append(g, x)
  OBVIOUS
<1>5. /\ a \in Seq(S) /\ Len(a) = (n - 1) + 1 /\ a[(n - 1) + 1] = x
      /\ \A i \in 1 .. n - 1 : a[i] = g[i]
  BY ONLY <1>4, x \in S, a = Append(g, x), AppendProperties
<1>6. (n - 1) + 1 = n
  OBVIOUS
<1>7. \A i \in 1 .. n : a[i] = framesOf(u)[i]
  <2> SUFFICES ASSUME NEW i \in 1 .. n PROVE a[i] = framesOf(u)[i]
    OBVIOUS
  <2>1. CASE i = n
    <3>1. framesOf(u)[n] = x
      BY <1>1, <1>3
    <3> QED
      BY ONLY <2>1, <3>1, <1>5, <1>6
  <2>2. CASE i \in 1 .. n - 1
    <3>1. i \in 1 .. n
      OBVIOUS
    <3>2. frameOfCall(u, i) = frameOfCall(t, i)
      BY <1>2, <2>2
    <3> QED
      BY ONLY <2>2, <3>1, <3>2, <1>3, <1>4, <1>5
  <2> QED
    BY ONLY <2>1, <2>2, i \in 1 .. n, n \in Nat
<1>8. framesOf(u) = a
  BY ONLY <1>3, <1>5, <1>6, <1>7, framesOf(u) \in Seq(S), SeqEqual
<1> QED
  BY <1>8

LEMMA Ended ==
  ASSUME NEW t, Fits(t), Len(t.calls) > 1, NEW u, Fits(u), Len(u.calls) = Len(t.calls) - 1,
         \A i \in 1 .. Len(t.calls) - 2 : u.calls[i] = t.calls[i],
         SameCall(t.calls[Len(t.calls) - 1], ci(u)), ci(u).retTo = t.calls[Len(t.calls) - 1].retTo,
         Same(t, u, ci(t).retTo)
  PROVE  framesOf(u) = [Front(framesOf(t)) EXCEPT ![Len(t.calls) - 1].locals = values(u)]
<1> PICK n \in Nat : n = Len(t.calls) - 1 /\ n >= 1
  <2>1. Len(t.calls) \in Nat
    BY Areas
  <2> QED
    BY <2>1
<1> PICK c : c = t.calls[n]
  OBVIOUS
<1> PICK d : d = u.calls[n]
  OBVIOUS
<1>1. /\ Len(t.calls) = n + 1 /\ Len(u.calls) = n /\ n \in 1 .. Len(t.calls) /\ n \in 1 .. Len(t.calls) - 1
      /\ ci(t) = t.calls[n + 1] /\ ci(u) = d /\ n + 1 \in 1 .. Len(t.calls) /\ n \in 1 .. n
  BY SMTT(30), ZenonT(30), FitsTypes
<1>2. /\ {c.begin, c.base, c.retTo} \subseteq Nat /\ c.base < c.begin /\ c.retTo <= c.begin
      /\ ci(t).base \in Nat /\ ci(t).retTo \in Nat /\ c.begin <= ci(t).base /\ ci(t).base <= ci(t).retTo
  BY <1>1, Areas
<1>3. Same(t, u, c.retTo) /\ Same(t, u, c.begin)
  <2>1. c.retTo <= ci(t).retTo /\ c.begin <= ci(t).retTo /\ c.retTo \in Nat /\ c.begin \in Nat /\ ci(t).retTo \in Nat
    BY ONLY <1>2
  <2>2. Same(t, u, ci(t).retTo)
    OBVIOUS
  <2> QED
    BY ONLY <2>1, <2>2 DEF Same
<1>4. \A i \in 1 .. n - 1 : frameOfCall(u, i) = frameOfCall(t, i)
  <2>1. /\ Fits(t) /\ n \in 1 .. Len(t.calls) /\ Len(u.calls) \in Nat /\ n <= Len(u.calls)
        /\ \A i \in 1 .. n - 1 : u.calls[i] = t.calls[i]
    BY <1>1
  <2>2. u.calls[n].retTo = t.calls[n].retTo /\ Same(t, u, t.calls[n].retTo)
    BY <1>1, <1>3
  <2> QED
    BY ONLY <2>1, <2>2, LowerFrames
<1>5. frameOfCall(u, n) = [frameOfCall(t, n) EXCEPT !.locals = values(u)]
  <2>1. d.run = c.run /\ d.base = c.base /\ d.begin = c.begin /\ d.want = c.want
    BY <1>1 DEF SameCall
  <2>2. u.stack[c.base] = t.stack[c.base]
    BY <1>2, <1>3 DEF Same
  <2>3. slots(u, c.base + 1 + NParms, c.begin) = slots(t, c.base + 1 + NParms, c.begin)
    <3>1. c.base + 1 + NParms \in Nat /\ c.begin \in Nat /\ c.begin <= c.begin /\ Same(t, u, c.begin)
      BY <1>2, <1>3, Sizes
    <3> QED
      BY ONLY <3>1, SameSlots
  <2>4. /\ frameOfCall(u, n) = [method |-> u.stack[d.base], want |-> d.want, locals |-> values(u),
             rest |-> IF d.run = "v" THEN slots(u, d.base + 1 + NParms, d.begin) ELSE <<>>]
    <3>1. ci(u) = d /\ Len(u.calls) = n /\ begin(u) = d.begin /\ Fits(u)
      BY <1>1, FitsTypes
    <3> QED
      BY ONLY <3>1, RunningFrame
  <2>5. /\ frameOfCall(t, n) = [method |-> t.stack[c.base], want |-> c.want, locals |-> slots(t, c.begin, upTo(t, n)),
             rest |-> IF c.run = "v" THEN slots(t, c.base + 1 + NParms, c.begin) ELSE <<>>]
    BY DEF frameOfCall
  <2> QED
    BY ONLY <2>1, <2>2, <2>3, <2>4, <2>5
<1> PICK S : /\ framesOf(t) \in Seq(S) /\ framesOf(u) \in Seq(S)
             /\ \A i \in 1 .. Len(t.calls) : frameOfCall(t, i) \in S
             /\ \A i \in 1 .. Len(u.calls) : frameOfCall(u, i) \in S
  <2>1. Len(t.calls) \in Nat /\ Len(u.calls) \in Nat
    BY <1>1
  <2> QED
    BY ONLY <2>1, FrameSeqs
<1>6. /\ framesOf(t) \in Seq(S) /\ Len(framesOf(t)) = n + 1 /\ \A i \in 1 .. n + 1 : framesOf(t)[i] = frameOfCall(t, i)
      /\ Len(framesOf(u)) = n /\ \A i \in 1 .. n : framesOf(u)[i] = frameOfCall(u, i)
  BY <1>1, FrameIs
<1> PICK F : F = Front(framesOf(t))
  OBVIOUS
<1>7. F \in Seq(S) /\ Len(F) = n /\ \A i \in 1 .. n : F[i] = frameOfCall(t, i)
  <2>1. Front(framesOf(t)) \in Seq(S) /\ Len(Front(framesOf(t))) = (n + 1) - 1
        /\ \A i \in 1 .. (n + 1) - 1 : Front(framesOf(t))[i] = framesOf(t)[i]
    <3>1. Len(framesOf(t)) >= 1
      BY <1>6
    <3> QED
      BY ONLY <1>6, <3>1, FrontProperties
  <2>2. (n + 1) - 1 = n
    OBVIOUS
  <2>3. \A i \in 1 .. n : i \in 1 .. n + 1
    OBVIOUS
  <2> QED
    BY ONLY <1>6, <2>1, <2>2, <2>3, F = Front(framesOf(t))
<1> PICK g : g = [F EXCEPT ![n].locals = values(u)]
  OBVIOUS
<1>8. F[n] = frameOfCall(t, n) /\ frameOfCall(u, n) \in S
  BY <1>1, <1>7
<1>9. g = [F EXCEPT ![n] = frameOfCall(u, n)]
  BY ONLY <1>5, <1>8, g = [F EXCEPT ![n].locals = values(u)]
<1>10. g \in Seq(S) /\ Len(g) = n /\ \A i \in 1 .. n : g[i] = IF i = n THEN frameOfCall(u, n) ELSE F[i]
  BY ONLY <1>1, <1>7, <1>8, <1>9, ExceptSeq
<1>11. \A i \in 1 .. n : g[i] = framesOf(u)[i]
  <2> SUFFICES ASSUME NEW i \in 1 .. n PROVE g[i] = framesOf(u)[i]
    OBVIOUS
  <2>1. CASE i = n
    BY ONLY <2>1, <1>1, <1>6, <1>10
  <2>2. CASE i # n
    <3>1. frameOfCall(u, i) = frameOfCall(t, i)
      BY <1>4, <2>2
    <3> QED
      BY ONLY <2>2, <3>1, <1>6, <1>7, <1>10, i \in 1 .. n
  <2> QED
    BY <2>1, <2>2
<1>12. framesOf(u) = g
  BY ONLY <1>6, <1>10, <1>11, framesOf(u) \in Seq(S), SeqEqual
<1>13. Len(t.calls) - 1 = n
  OBVIOUS
<1> QED
  BY ONLY <1>12, <1>13, g = [F EXCEPT ![n].locals = values(u)], F = Front(framesOf(t))

------------------------------------------------------------------------------
(***************************************************************************)
(* What the slots hold after an operation.                                 *)
(***************************************************************************)
LEMMA putAt ==
  ASSUME NEW t \in Thread, NEW from \in Nat, NEW vals \in Seq(Stored), NEW p \in Nat, p <= STACK_MAXSIZE
  PROVE  put(t, from, vals).stack[p] = IF from <= p /\ p < from + Len(vals) THEN vals[p - from + 1] ELSE t.stack[p]
<1> PICK n \in Nat : n = Len(vals)
  BY LenProperties
<1>1. p \in Slot /\ p - from \in Int
  BY Sizes DEF Slot
<1>2. put(t, from, vals).stack[p] = IF p - from \in 0 .. n - 1 THEN vals[p - from + 1] ELSE t.stack[p]
  BY <1>1 DEF put, Thread
<1>3. p - from \in 0 .. n - 1 <=> from <= p /\ p < from + n
  BY ONLY <1>1, p \in Nat, from \in Nat, n \in Nat
<1> QED
  BY <1>2, <1>3

LEMMA pushedAt ==
  ASSUME NEW t \in Thread, NEW vals \in Seq(Stored), NEW p \in Nat, p <= STACK_MAXSIZE
  PROVE  pushed(t, vals).stack[p] = IF t.top <= p /\ p < t.top + Len(vals) THEN vals[p - t.top + 1] ELSE t.stack[p]
<1>1. t.top \in Nat
  BY DEF Thread
<1>2. pushed(t, vals).stack = put(t, t.top, vals).stack
  <2> PICK u \in Thread : u = put(t, t.top, vals)
    BY <1>1, putOK
  <2> QED
    BY DEF pushed, Thread
<1> QED
  BY <1>1, <1>2, putAt

\* The values of the running method, which are what Frames calls Locals.
LEMMA Area ==
  ASSUME NEW t, Fits(t)
  PROVE  /\ begin(t) \in Nat /\ size(t) \in Nat /\ limit(t) \in Int /\ limit(t) < STACK_MAXSIZE
         /\ begin(t) + size(t) <= limit(t)
         /\ isByte(ci(t)) => size(t) = ci(t).used
         /\ ~isByte(ci(t)) => t.top = begin(t) + size(t)
<1>1. /\ t.top \in Nat /\ limit(t) \in Int /\ limit(t) < STACK_MAXSIZE /\ t.top <= limit(t)
      /\ begin(t) = ci(t).begin /\ FrameOK(t, ci(t)) /\ ci(t).begin \in Nat /\ ci(t).used \in Nat
  BY FitsTypes
<1>2. CASE isByte(ci(t))
  BY <1>1, <1>2 DEF FrameOK, size
<1>3. CASE ~isByte(ci(t))
  <2>1. begin(t) <= t.top
    BY <1>3 DEF Fits
  <2> QED
    BY <1>1, <1>3, <2>1 DEF size
<1> QED
  BY <1>2, <1>3

LEMMA Values ==
  ASSUME NEW t, Fits(t)
  PROVE  /\ values(t) \in Seq(Stored) /\ Len(values(t)) = size(t)
         /\ \A i \in 1 .. size(t) : values(t)[i] = t.stack[begin(t) + i - 1]
<1> PICK n \in Nat : n = size(t)
  BY Area
<1> PICK b \in Nat : b = begin(t)
  BY FitsTypes
<1>1. t \in Thread /\ limit(t) \in Int /\ limit(t) < STACK_MAXSIZE /\ b + n <= limit(t)
  BY FitsTypes, Area
<1>2. b \in Nat /\ b + n \in Nat /\ b <= b + n /\ b + n <= STACK_ERRORSIZE /\ (b + n) - b = n
  BY ONLY <1>1, b \in Nat, n \in Nat, Sizes
<1>3. values(t) = slots(t, b, b + n)
  BY DEF values
<1>4. \A i \in 1 .. n : slots(t, b, b + n)[i] = t.stack[b + i - 1]
  BY <1>2 DEF slots
<1>5. slots(t, b, b + n) \in Seq(Stored) /\ Len(slots(t, b, b + n)) = (b + n) - b
  BY ONLY <1>1, <1>2, slotsOK
<1> QED
  BY <1>2, <1>3, <1>4, <1>5

LEMMA ValuesAre ==
  ASSUME NEW x, NEW S, NEW q \in Seq(S), NEW b \in Nat, b = begin(x), size(x) = Len(q),
         \A i \in 1 .. Len(q) : x.stack[b + i - 1] = q[i]
  PROVE  values(x) = q
<1> PICK n \in Nat : n = Len(q)
  BY LenProperties
<1>1. (b + n) - b = n
  BY ONLY b \in Nat, n \in Nat
<1>2. values(x) = [i \in 1 .. n |-> x.stack[b + i - 1]]
  BY <1>1 DEF values, slots
<1>3. q = [i \in 1 .. n |-> q[i]]
  BY LenProperties
<1> QED
  BY <1>2, <1>3

\* What an operation leaves, apart from what is above the running method's values.
LEMMA Became ==
  ASSUME SInv', NEW x \in Thread, Becomes(x)
  PROVE  /\ th'.calls = x.calls /\ th'.top = x.top /\ begin(th') = begin(x) /\ size(th') = size(x) /\ ci(th') = ci(x)
         /\ begin(x) \in Nat /\ size(x) \in Nat
         /\ Same(x, th', begin(x) + size(x)) /\ values(th') = values(x)
<1>1. th' = [x EXCEPT !.stack = [s \in Slot |-> IF s < begin(x) + size(x) THEN x.stack[s] ELSE Junk]]
  BY DEF Becomes, Thread
<1>2. th'.calls = x.calls /\ th'.top = x.top
      /\ th'.stack = [s \in Slot |-> IF s < begin(x) + size(x) THEN x.stack[s] ELSE Junk]
  BY <1>1 DEF Thread
<1>3. begin(th') = begin(x) /\ size(th') = size(x) /\ ci(th') = ci(x)
  BY <1>2 DEF begin, size, ci
<1>4. (begin(th) \in Nat /\ size(th) \in Nat /\ begin(th) + size(th) <= limit(th) /\ limit(th) < STACK_MAXSIZE
       /\ limit(th) \in Int)'
  <2>1. Fits(th')
    BY DEF SInv
  <2> QED
    BY <2>1, Area
<1> PICK b \in Nat : b = begin(x)
  BY <1>3, <1>4
<1> PICK n \in Nat : n = size(x)
  BY <1>3, <1>4
<1>5. b + n <= STACK_MAXSIZE
  <2> PICK l \in Int : l = limit(th')
    BY <1>4
  <2>1. b + n <= l /\ l < STACK_MAXSIZE
    BY <1>3, <1>4
  <2> QED
    BY ONLY <2>1, b \in Nat, n \in Nat, l \in Int, Sizes
<1>6. Same(x, th', b + n)
  <2> SUFFICES ASSUME NEW p \in Nat, p < b + n PROVE th'.stack[p] = x.stack[p]
    BY DEF Same
  <2>1. p \in Slot
    BY <1>5, Sizes DEF Slot
  <2> QED
    BY <1>2, <2>1
<1>7. values(th') = values(x)
  <2>1. slots(th', b, b + n) = slots(x, b, b + n)
    <3>1. b + n \in Nat /\ b + n <= b + n
      OBVIOUS
    <3> QED
      BY ONLY <1>6, <3>1, b \in Nat, SameSlots
  <2> QED
    BY <1>3, <2>1 DEF values
<1> QED
  BY <1>2, <1>3, <1>6, <1>7

------------------------------------------------------------------------------
(***************************************************************************)
(* The frames of Stacks as those of Frames.                                *)
(***************************************************************************)
LEMMA Whole ==
  ASSUME NEW t, Fits(t)
  PROVE  SubSeq(framesOf(t), 1, Len(t.calls)) = framesOf(t)
<1> PICK n \in Nat : n = Len(t.calls)
  BY Areas
<1> PICK S : framesOf(t) \in Seq(S) /\ \A i \in 1 .. n : frameOfCall(t, i) \in S
  <2>1. Len(t.calls) \in Nat
    OBVIOUS
  <2> QED
    BY ONLY <2>1, FrameSeqs, n = Len(t.calls)
<1> PICK F : F = framesOf(t)
  OBVIOUS
<1>1. F \in Seq(S) /\ Len(F) = n /\ \A i \in 1 .. n : F[i] \in S
  BY FrameIs
<1> PICK G : G = SubSeq(F, 1, n)
  OBVIOUS
<1>2. G \in Seq(S) /\ Len(G) = (IF 1 <= n THEN n - 1 + 1 ELSE 0) /\ \A i \in 1 .. n - 1 + 1 : G[i] = F[1 + i - 1]
  <2>1. 1 \in Int /\ n \in Int
    OBVIOUS
  <2> QED
    BY ONLY <1>1, <2>1, G = SubSeq(F, 1, n), SubSeqProperties
<1>3. Len(G) = n
  BY ONLY <1>2, n \in Nat
<1>4. \A i \in 1 .. n : G[i] = F[i]
  <2>1. \A i \in 1 .. n : 1 + i - 1 = i /\ i \in 1 .. n - 1 + 1
    OBVIOUS
  <2> QED
    BY ONLY <1>2, <2>1
<1>5. G = F
  BY ONLY <1>1, <1>2, <1>3, <1>4, SeqEqual
<1> QED
  BY <1>5

LEMMA Running ==
  ASSUME SInv
  PROVE  /\ SubSeq(framesOf(th), 1, Len(th.calls)) = framesOf(th) /\ Len(framesOf(th)) = Len(th.calls)
         /\ framesOf(th)[Len(th.calls)] =
              [method |-> th.stack[ci(th).base], want |-> ci(th).want, locals |-> values(th),
               rest |-> IF ci(th).run = "v" THEN slots(th, ci(th).base + 1 + NParms, begin(th)) ELSE <<>>]
<1>1. Fits(th)
  BY DEF SInv
<1>2. Len(th.calls) \in Nat /\ Len(th.calls) \in 1 .. Len(th.calls)
  BY <1>1, Areas
<1> QED
  BY <1>1, <1>2, Whole, FrameIs, RunningFrame

LEMMA MapLocals ==
  ASSUME SInv
  PROVE  /\ Promise!Locals = values(th) /\ Len(values(th)) = size(th) /\ Promise!Index = Index
         /\ values(th) \in Seq(Stored) /\ \A i \in Index : values(th)[i + 1] = stkAt(i) /\ Promise!At(i) = stkAt(i)
<1>1. Promise!Locals = values(th)
  <2> PICK F : F = framesOf(th)
    OBVIOUS
  <2>1. /\ SubSeq(framesOf(th), 1, Len(th.calls)) = F /\ Len(F) = Len(th.calls)
        /\ F[Len(th.calls)] =
              [method |-> th.stack[ci(th).base], want |-> ci(th).want, locals |-> values(th),
               rest |-> IF ci(th).run = "v" THEN slots(th, ci(th).base + 1 + NParms, begin(th)) ELSE <<>>]
    BY Running
  <2>2. Promise!Locals = F[Len(F)].locals
    BY <2>1 DEF Promise!Locals, Promise!Last
  <2> QED
    BY ONLY <2>1, <2>2
<1>2. /\ values(th) \in Seq(Stored) /\ Len(values(th)) = size(th)
      /\ \A i \in 1 .. size(th) : values(th)[i] = th.stack[begin(th) + i - 1]
  BY Values DEF SInv
<1>3. size(th) \in Nat /\ begin(th) \in Nat
  BY Area DEF SInv
<1>4. Promise!Index = Index
  BY <1>1, <1>2 DEF Promise!Index, Index
<1>5. \A i \in Index : values(th)[i + 1] = stkAt(i)
  BY <1>2, <1>3 DEF stkAt, Index
<1> QED
  BY <1>1, <1>2, <1>4, <1>5 DEF Promise!At

LEMMA MapNow ==
  ASSUME SInv, SInv', NEW q, framesOf(th') = [framesOf(th) EXCEPT ![Len(th.calls)].locals = q]
  PROVE  SubSeq(framesOf(th), 1, Len(th.calls))' = Promise!Now(q)
<1>1. SubSeq(framesOf(th), 1, Len(th.calls))' = framesOf(th')
  BY Whole DEF SInv
<1> QED
  BY <1>1, Running DEF Promise!Now

LEMMA LocalStep ==
  ASSUME SInv, SInv', NEW x \in Thread, Becomes(x), Len(x.calls) = Len(th.calls),
         \A i \in 1 .. Len(th.calls) - 1 : x.calls[i] = th.calls[i],
         SameCall(ci(th), ci(x)), ci(x).retTo = ci(th).retTo, Same(th, x, begin(th))
  PROVE  SubSeq(framesOf(th), 1, Len(th.calls))' = Promise!Now(values(x))
<1>1. /\ th'.calls = x.calls /\ begin(th') = begin(x) /\ ci(th') = ci(x) /\ begin(x) \in Nat /\ size(x) \in Nat
      /\ Same(x, th', begin(x) + size(x)) /\ values(th') = values(x)
  BY Became
<1>2. Fits(th) /\ Fits(th')
  BY DEF SInv
<1>3. begin(x) = begin(th)
  BY DEF begin, SameCall
<1>4. Same(th, th', begin(th))
  BY <1>1, <1>3 DEF Same
<1>5. framesOf(th') = [framesOf(th) EXCEPT ![Len(th.calls)].locals = values(th')]
  <2>1. /\ Len(th'.calls) = Len(th.calls) /\ \A i \in 1 .. Len(th.calls) - 1 : th'.calls[i] = th.calls[i]
        /\ SameCall(ci(th), ci(th')) /\ ci(th').retTo = ci(th).retTo
    BY <1>1
  <2> QED
    BY ONLY <1>2, <1>4, <2>1, Within
<1> QED
  BY <1>1, <1>5, MapNow

\* The same for an operation that leaves the frames as they are, of a C method.
LEMMA LocalStepC ==
  ASSUME SInv, SInv', NEW x \in Thread, Becomes(x), x.calls = th.calls, Same(th, x, begin(th)),
         NEW S, NEW q \in Seq(S), size(x) = Len(q), \A i \in 1 .. Len(q) : x.stack[begin(th) + i - 1] = q[i]
  PROVE  SubSeq(framesOf(th), 1, Len(th.calls))' = Promise!Now(q)
<1>1. ci(x) = ci(th) /\ SameCall(ci(th), ci(x)) /\ begin(x) = begin(th)
  BY DEF ci, SameCall, begin
<1>2. begin(th) \in Nat
  BY Area DEF SInv
<1>3. values(x) = q
  BY <1>1, <1>2, ValuesAre
<1> QED
  BY <1>1, <1>3, LocalStep

------------------------------------------------------------------------------
(***************************************************************************)
(* What the operators on sequences that Frames uses give.                  *)
(***************************************************************************)
LEMMA PartIs ==
  ASSUME NEW S, NEW s \in Seq(S), NEW m \in Nat, NEW n \in Nat, m >= 1, m <= n + 1, n <= Len(s)
  PROVE  /\ SubSeq(s, m, n) \in Seq(S) /\ Len(SubSeq(s, m, n)) = n - m + 1
         /\ \A j \in 1 .. n - m + 1 : SubSeq(s, m, n)[j] = s[m + j - 1]
<1>1. \A i \in m .. n : s[i] \in S
  <2>1. Len(s) \in Nat
    BY LenProperties
  <2>2. \A i \in m .. n : i \in 1 .. Len(s)
    BY <2>1
  <2> QED
    BY <2>2, ElementOfSeq
<1>2. m \in Int /\ n \in Int
  OBVIOUS
<1>3. /\ SubSeq(s, m, n) \in Seq(S) /\ Len(SubSeq(s, m, n)) = IF m <= n THEN n - m + 1 ELSE 0
      /\ \A i \in 1 .. n - m + 1 : SubSeq(s, m, n)[i] = s[m + i - 1]
  BY ONLY <1>1, <1>2, SubSeqProperties
<1>4. (IF m <= n THEN n - m + 1 ELSE 0) = n - m + 1
  BY ONLY m \in Nat, n \in Nat, m <= n + 1
<1> QED
  BY <1>3, <1>4

LEMMA RemoveAtIs ==
  ASSUME NEW S, NEW s \in Seq(S), NEW i \in 1 .. Len(s)
  PROVE  /\ RemoveAt(s, i) \in Seq(S) /\ Len(RemoveAt(s, i)) = Len(s) - 1
         /\ \A j \in 1 .. i - 1 : RemoveAt(s, i)[j] = s[j]
         /\ \A j \in i .. Len(s) - 1 : RemoveAt(s, i)[j] = s[j + 1]
<1> PICK n \in Nat : n = Len(s)
  BY LenProperties
<1> PICK a : a = SubSeq(s, 1, i - 1)
  OBVIOUS
<1> PICK b : b = SubSeq(s, i + 1, n)
  OBVIOUS
<1>1. a \in Seq(S) /\ Len(a) = i - 1 /\ \A j \in 1 .. i - 1 : a[j] = s[j]
  <2>1. 1 \in Nat /\ i - 1 \in Nat /\ 1 >= 1 /\ 1 <= (i - 1) + 1 /\ i - 1 <= Len(s) /\ (i - 1) - 1 + 1 = i - 1
        /\ \A j \in 1 .. i - 1 : 1 + j - 1 = j
    OBVIOUS
  <2>2. /\ SubSeq(s, 1, i - 1) \in Seq(S) /\ Len(SubSeq(s, 1, i - 1)) = (i - 1) - 1 + 1
        /\ \A j \in 1 .. (i - 1) - 1 + 1 : SubSeq(s, 1, i - 1)[j] = s[1 + j - 1]
    BY ONLY <2>1, s \in Seq(S), PartIs
  <2> QED
    BY ONLY <2>1, <2>2, a = SubSeq(s, 1, i - 1)
<1>2. b \in Seq(S) /\ Len(b) = n - i /\ \A j \in 1 .. n - i : b[j] = s[i + j]
  <2>1. i + 1 \in Nat /\ n \in Nat /\ i + 1 >= 1 /\ i + 1 <= n + 1 /\ n <= Len(s) /\ n - (i + 1) + 1 = n - i
        /\ \A j \in 1 .. n - i : (i + 1) + j - 1 = i + j
    OBVIOUS
  <2>2. /\ SubSeq(s, i + 1, n) \in Seq(S) /\ Len(SubSeq(s, i + 1, n)) = n - (i + 1) + 1
        /\ \A j \in 1 .. n - (i + 1) + 1 : SubSeq(s, i + 1, n)[j] = s[(i + 1) + j - 1]
    BY ONLY <2>1, s \in Seq(S), PartIs
  <2> QED
    BY ONLY <2>1, <2>2, b = SubSeq(s, i + 1, n)
<1> PICK c : c = a \o b
  OBVIOUS
<1>3. RemoveAt(s, i) = c
  BY DEF RemoveAt
<1>4. /\ c \in Seq(S) /\ Len(c) = Len(a) + Len(b)
      /\ \A j \in 1 .. Len(a) + Len(b) : c[j] = IF j <= Len(a) THEN a[j] ELSE b[j - Len(a)]
  BY ONLY <1>1, <1>2, c = a \o b, ConcatProperties
<1>5. Len(c) = n - 1
  BY ONLY <1>1, <1>2, <1>4, n \in Nat, i \in 1 .. n
<1>6. \A j \in 1 .. n - 1 : c[j] = IF j < i THEN s[j] ELSE s[j + 1]
  <2> SUFFICES ASSUME NEW j \in 1 .. n - 1 PROVE c[j] = IF j < i THEN s[j] ELSE s[j + 1]
    OBVIOUS
  <2>1. c[j] = IF j <= i - 1 THEN a[j] ELSE b[j - (i - 1)]
    BY ONLY <1>1, <1>2, <1>4, n \in Nat, i \in 1 .. n, j \in 1 .. n - 1
  <2>2. CASE j < i
    BY ONLY <2>1, <2>2, <1>1, n \in Nat, i \in 1 .. n, j \in 1 .. n - 1
  <2>3. CASE ~(j < i)
    <3>1. j - (i - 1) \in 1 .. n - i /\ i + (j - (i - 1)) = j + 1 /\ ~(j <= i - 1)
      BY ONLY <2>3, n \in Nat, i \in 1 .. n, j \in 1 .. n - 1
    <3> QED
      BY ONLY <2>1, <2>3, <3>1, <1>2
  <2> QED
    BY ONLY <2>2, <2>3
<1>7. \A j \in 1 .. i - 1 : c[j] = s[j]
  <2> SUFFICES ASSUME NEW j \in 1 .. i - 1 PROVE c[j] = s[j]
    OBVIOUS
  <2>1. j \in 1 .. n - 1 /\ j < i
    OBVIOUS
  <2> QED
    BY ONLY <1>6, <2>1
<1>8. \A j \in i .. n - 1 : c[j] = s[j + 1]
  <2> SUFFICES ASSUME NEW j \in i .. n - 1 PROVE c[j] = s[j + 1]
    OBVIOUS
  <2>1. j \in 1 .. n - 1 /\ ~(j < i)
    OBVIOUS
  <2> QED
    BY ONLY <1>6, <2>1
<1> QED
  BY ONLY <1>3, <1>4, <1>5, <1>7, <1>8, n = Len(s)

IsInsertAt(r, s, i, e) ==
  /\ Len(r) = Len(s) + 1
  /\ \A j \in 1 .. i - 1 : r[j] = s[j]
  /\ r[i] = e
  /\ \A j \in i + 1 .. Len(s) + 1 : r[j] = s[j - 1]

LEMMA InsertAtIs ==
  ASSUME NEW S, NEW s \in Seq(S), NEW i \in 1 .. Len(s) + 1, NEW e \in S
  PROVE  InsertAt(s, i, e) \in Seq(S) /\ IsInsertAt(InsertAt(s, i, e), s, i, e)
<1> PICK n \in Nat : n = Len(s)
  BY LenProperties
<1> PICK a : a = SubSeq(s, 1, i - 1)
  OBVIOUS
<1> PICK b : b = SubSeq(s, i, n)
  OBVIOUS
<1> PICK m : m = <<e>>
  OBVIOUS
<1>1. a \in Seq(S) /\ Len(a) = i - 1 /\ \A j \in 1 .. i - 1 : a[j] = s[j]
  <2>1. 1 \in Nat /\ i - 1 \in Nat /\ 1 >= 1 /\ 1 <= (i - 1) + 1 /\ i - 1 <= Len(s) /\ (i - 1) - 1 + 1 = i - 1
        /\ \A j \in 1 .. i - 1 : 1 + j - 1 = j
    OBVIOUS
  <2>2. /\ SubSeq(s, 1, i - 1) \in Seq(S) /\ Len(SubSeq(s, 1, i - 1)) = (i - 1) - 1 + 1
        /\ \A j \in 1 .. (i - 1) - 1 + 1 : SubSeq(s, 1, i - 1)[j] = s[1 + j - 1]
    BY ONLY <2>1, s \in Seq(S), PartIs
  <2> QED
    BY ONLY <2>1, <2>2, a = SubSeq(s, 1, i - 1)
<1>2. b \in Seq(S) /\ Len(b) = n - i + 1 /\ \A j \in 1 .. n - i + 1 : b[j] = s[i + j - 1]
  <2>1. i \in Nat /\ n \in Nat /\ i >= 1 /\ i <= n + 1 /\ n <= Len(s)
    OBVIOUS
  <2> QED
    BY ONLY <2>1, s \in Seq(S), b = SubSeq(s, i, n), PartIs
<1>3. m \in Seq(S) /\ Len(m) = 1 /\ m[1] = e
  BY ONLY e \in S, m = <<e>>
<1> PICK d : d = a \o m
  OBVIOUS
<1> PICK c : c = d \o b
  OBVIOUS
<1>4. InsertAt(s, i, e) = c
  BY DEF InsertAt
<1>5. /\ d \in Seq(S) /\ Len(d) = Len(a) + Len(m)
      /\ \A j \in 1 .. Len(a) + Len(m) : d[j] = IF j <= Len(a) THEN a[j] ELSE m[j - Len(a)]
  BY ONLY <1>1, <1>3, d = a \o m, ConcatProperties
<1>6. /\ c \in Seq(S) /\ Len(c) = Len(d) + Len(b)
      /\ \A j \in 1 .. Len(d) + Len(b) : c[j] = IF j <= Len(d) THEN d[j] ELSE b[j - Len(d)]
  <2>1. d \in Seq(S) /\ b \in Seq(S)
    BY <1>2, <1>5
  <2> QED
    BY ONLY <2>1, c = d \o b, ConcatProperties
<1>7. Len(d) = i /\ Len(c) = n + 1
  BY ONLY <1>1, <1>2, <1>3, <1>5, <1>6, n \in Nat, i \in 1 .. n + 1
<1>8. \A j \in 1 .. i : d[j] = IF j < i THEN s[j] ELSE e
  <2> SUFFICES ASSUME NEW j \in 1 .. i PROVE d[j] = IF j < i THEN s[j] ELSE e
    OBVIOUS
  <2>1. d[j] = IF j <= i - 1 THEN a[j] ELSE m[j - (i - 1)]
    BY ONLY <1>1, <1>3, <1>5, n \in Nat, i \in 1 .. n + 1, j \in 1 .. i
  <2>2. CASE j < i
    BY ONLY <2>1, <2>2, <1>1, n \in Nat, i \in 1 .. n + 1, j \in 1 .. i
  <2>3. CASE j = i
    <3>1. j - (i - 1) = 1 /\ ~(j <= i - 1)
      BY ONLY <2>3, n \in Nat, i \in 1 .. n + 1, j \in 1 .. i
    <3> QED
      BY ONLY <2>1, <2>3, <3>1, <1>3, i \in 1 .. n + 1
  <2> QED
    BY <2>2, <2>3
<1>9. \A j \in 1 .. n + 1 : c[j] = IF j < i THEN s[j] ELSE IF j = i THEN e ELSE s[j - 1]
  <2> SUFFICES ASSUME NEW j \in 1 .. n + 1 PROVE c[j] = IF j < i THEN s[j] ELSE IF j = i THEN e ELSE s[j - 1]
    OBVIOUS
  <2>1. c[j] = IF j <= i THEN d[j] ELSE b[j - i]
    BY ONLY <1>2, <1>6, <1>7, n \in Nat, i \in 1 .. n + 1, j \in 1 .. n + 1
  <2>2. CASE j <= i
    BY ONLY <2>1, <2>2, <1>8, n \in Nat, i \in 1 .. n + 1, j \in 1 .. n + 1
  <2>3. CASE ~(j <= i)
    <3>1. j - i \in 1 .. n - i + 1 /\ i + (j - i) - 1 = j - 1
      BY ONLY <2>3, n \in Nat, i \in 1 .. n + 1, j \in 1 .. n + 1
    <3>2. ~(j < i) /\ j # i
      BY ONLY <2>3, n \in Nat, i \in 1 .. n + 1, j \in 1 .. n + 1
    <3> QED
      BY ONLY <2>1, <2>3, <3>1, <3>2, <1>2
  <2> QED
    BY ONLY <2>2, <2>3
<1>10. \A j \in 1 .. i - 1 : c[j] = s[j]
  <2> SUFFICES ASSUME NEW j \in 1 .. i - 1 PROVE c[j] = s[j]
    OBVIOUS
  <2>1. j \in 1 .. n + 1 /\ j < i
    OBVIOUS
  <2> QED
    BY ONLY <1>9, <2>1
<1>11. c[i] = e
  <2>1. i \in 1 .. n + 1 /\ ~(i < i)
    OBVIOUS
  <2> QED
    BY ONLY <1>9, <2>1
<1>12. \A j \in i + 1 .. n + 1 : c[j] = s[j - 1]
  <2> SUFFICES ASSUME NEW j \in i + 1 .. n + 1 PROVE c[j] = s[j - 1]
    OBVIOUS
  <2>1. j \in 1 .. n + 1 /\ ~(j < i) /\ j # i
    OBVIOUS
  <2> QED
    BY ONLY <1>9, <2>1
<1> QED
  BY ONLY <1>4, <1>6, <1>7, <1>10, <1>11, <1>12, n = Len(s) DEF IsInsertAt

LEMMA PaddedIs ==
  ASSUME NEW S, NEW s \in Seq(S), Null \in S, NEW n \in Nat
  PROVE  /\ Promise!Padded(s, n) \in Seq(S) /\ Len(Promise!Padded(s, n)) = n
         /\ \A j \in 1 .. n : Promise!Padded(s, n)[j] = IF j <= Len(s) THEN s[j] ELSE Null
<1>1. \A j \in 1 .. n : j <= Len(s) => s[j] \in S
  <2>1. Len(s) \in Nat
    BY LenProperties
  <2>2. \A j \in 1 .. n : j <= Len(s) => j \in 1 .. Len(s)
    BY <2>1
  <2> QED
    BY <2>2, ElementOfSeq
<1>2. Promise!Padded(s, n) = [j \in 1 .. n |-> IF j <= Len(s) THEN s[j] ELSE Null]
  BY DEF Promise!Padded, Promise!Null, Null
<1>3. Promise!Padded(s, n) \in [1 .. n -> S]
  BY <1>1, <1>2
<1>4. \A j \in 1 .. n : Promise!Padded(s, n)[j] = IF j <= Len(s) THEN s[j] ELSE Null
  BY <1>2
<1> QED
  BY <1>3, <1>4, FunctionIsSeq

\* The last n values, and those before.
LEMMA FinalIs ==
  ASSUME NEW S, NEW s \in Seq(S), NEW k \in Nat, k = Len(s), NEW n \in 0 .. k
  PROVE  /\ Promise!Final(s, n) \in Seq(S) /\ Len(Promise!Final(s, n)) = n
         /\ \A j \in 1 .. n : Promise!Final(s, n)[j] = s[k - n + j]
<1>1. k - n + 1 \in Nat /\ k - n + 1 >= 1 /\ k - n + 1 <= k + 1 /\ k <= Len(s) /\ k - (k - n + 1) + 1 = n
      /\ \A j \in 1 .. n : (k - n + 1) + j - 1 = k - n + j
  OBVIOUS
<1>2. /\ SubSeq(s, k - n + 1, k) \in Seq(S) /\ Len(SubSeq(s, k - n + 1, k)) = k - (k - n + 1) + 1
      /\ \A j \in 1 .. k - (k - n + 1) + 1 : SubSeq(s, k - n + 1, k)[j] = s[(k - n + 1) + j - 1]
  BY ONLY <1>1, s \in Seq(S), k \in Nat, PartIs
<1>3. Promise!Final(s, n) = SubSeq(s, k - n + 1, k)
  BY DEF Promise!Final
<1> QED
  BY ONLY <1>1, <1>2, <1>3

LEMMA WithoutIs ==
  ASSUME NEW S, NEW s \in Seq(S), NEW k \in Nat, k = Len(s), NEW n \in 0 .. k
  PROVE  /\ Promise!Without(s, n) \in Seq(S) /\ Len(Promise!Without(s, n)) = k - n
         /\ \A j \in 1 .. k - n : Promise!Without(s, n)[j] = s[j]
<1>1. 1 \in Nat /\ k - n \in Nat /\ 1 >= 1 /\ 1 <= (k - n) + 1 /\ k - n <= Len(s) /\ (k - n) - 1 + 1 = k - n
      /\ \A j \in 1 .. k - n : 1 + j - 1 = j
  OBVIOUS
<1>2. /\ SubSeq(s, 1, k - n) \in Seq(S) /\ Len(SubSeq(s, 1, k - n)) = (k - n) - 1 + 1
      /\ \A j \in 1 .. (k - n) - 1 + 1 : SubSeq(s, 1, k - n)[j] = s[1 + j - 1]
  BY ONLY <1>1, s \in Seq(S), PartIs
<1>3. Promise!Without(s, n) = SubSeq(s, 1, k - n)
  BY DEF Promise!Without
<1> QED
  BY ONLY <1>1, <1>2, <1>3

------------------------------------------------------------------------------
(***************************************************************************)
(* The operations of a C method on its values.                             *)
(***************************************************************************)
\* Where they are.
LEMMA Here ==
  ASSUME SInv
  PROVE  /\ Fits(th) /\ th \in Thread /\ th.top \in Nat /\ begin(th) \in Nat /\ size(th) \in Nat
         /\ begin(th) + size(th) < STACK_MAXSIZE /\ th.top < STACK_MAXSIZE
         /\ inC => th.top = begin(th) + size(th)
         /\ begin(th) + size(th) = begin(th) + Len(values(th)) /\ values(th) \in Seq(Stored)
         /\ \A i \in 1 .. size(th) : values(th)[i] = th.stack[begin(th) + i - 1]
<1>1. Fits(th)
  BY DEF SInv
<1>2. /\ begin(th) \in Nat /\ size(th) \in Nat /\ limit(th) \in Int /\ limit(th) < STACK_MAXSIZE
      /\ begin(th) + size(th) <= limit(th)
      /\ ~isByte(ci(th)) => th.top = begin(th) + size(th)
  BY <1>1, Area
<1>3. th \in Thread /\ th.top \in Nat /\ th.top <= limit(th)
  BY <1>1, FitsTypes
<1>4. values(th) \in Seq(Stored) /\ Len(values(th)) = size(th)
         /\ \A i \in 1 .. size(th) : values(th)[i] = th.stack[begin(th) + i - 1]
  BY <1>1, Values
<1> QED
  BY <1>1, <1>2, <1>3, <1>4, Sizes DEF inC

\* The operation x puts values from slot 'from' on, none of them in another frame's area.
LEMMA Puts ==
  ASSUME SInv, NEW from \in Nat, begin(th) <= from, NEW vals \in Seq(Stored), NEW x, x = put(th, from, vals)
  PROVE  /\ x \in Thread /\ x.calls = th.calls /\ x.top = th.top /\ x.size = th.size /\ Same(th, x, begin(th))
         /\ \A p \in Nat : p <= STACK_MAXSIZE =>
              x.stack[p] = IF from <= p /\ p < from + Len(vals) THEN vals[p - from + 1] ELSE th.stack[p]
<1>1. th \in Thread /\ begin(th) \in Nat /\ begin(th) < STACK_MAXSIZE
  BY Here, Sizes
<1>2. x \in Thread /\ x.calls = th.calls /\ x.top = th.top /\ x.size = th.size
  <2>1. from \in Int
    OBVIOUS
  <2> QED
    BY <1>1, <2>1, putOK
<1>3. \A p \in Nat : p <= STACK_MAXSIZE =>
        x.stack[p] = IF from <= p /\ p < from + Len(vals) THEN vals[p - from + 1] ELSE th.stack[p]
  BY <1>1, putAt
<1>4. Same(th, x, begin(th))
  <2> SUFFICES ASSUME NEW p \in Nat, p < begin(th) PROVE x.stack[p] = th.stack[p]
    BY DEF Same
  <2>1. p <= STACK_MAXSIZE /\ ~(from <= p)
    BY ONLY <1>1, p < begin(th), p \in Nat, begin(th) <= from, from \in Nat, Sizes
  <2> QED
    BY <1>3, <2>1
<1> QED
  BY <1>2, <1>3, <1>4

LEMMA PutStep ==
  ASSUME SInv, SInv', NEW i \in Index, NEW v \in Stored, Becomes(put(th, begin(th) + i, <<v>>))
  PROVE  SubSeq(framesOf(th), 1, Len(th.calls))' = Promise!Now(Promise!ReplaceAt(values(th), i + 1, v))
<1> PICK b \in Nat : b = begin(th)
  BY Here
<1> PICK n \in Nat : n = size(th)
  BY Here
<1> PICK w : w = <<v>>
  OBVIOUS
<1> PICK x : x = put(th, b + i, w)
  OBVIOUS
<1> PICK L : L = values(th)
  OBVIOUS
<1> PICK q : q = [L EXCEPT ![i + 1] = v]
  OBVIOUS
<1>1. i \in 0 .. n - 1 /\ i + 1 \in 1 .. n
  BY DEF Index
<1>2. L \in Seq(Stored) /\ Len(L) = n /\ b + n < STACK_MAXSIZE /\ \A j \in 1 .. n : L[j] = th.stack[b + j - 1]
  BY Here
<1>3. q \in Seq(Stored) /\ Len(q) = n /\ \A j \in 1 .. n : q[j] = IF j = i + 1 THEN v ELSE L[j]
  <2>1. i + 1 \in 1 .. Len(L)
    BY <1>1, <1>2
  <2> QED
    BY ONLY <1>2, <2>1, v \in Stored, q = [L EXCEPT ![i + 1] = v], ExceptSeq
<1>4. b + i \in Nat /\ begin(th) <= b + i /\ w \in Seq(Stored) /\ Len(w) = 1 /\ w[1] = v
  BY <1>1, OneValue
<1>5. /\ x \in Thread /\ x.calls = th.calls /\ x.top = th.top /\ Same(th, x, begin(th))
      /\ \A p \in Nat : p <= STACK_MAXSIZE => x.stack[p] = IF b + i <= p /\ p < b + i + 1 THEN w[p - (b + i) + 1] ELSE th.stack[p]
  <2>1. SInv /\ x = put(th, b + i, w)
    OBVIOUS
  <2> QED
    BY ONLY <1>4, <2>1, Puts
<1>6. size(x) = n
  BY <1>5 DEF size, ci, begin
<1>7. \A j \in 1 .. n : x.stack[b + j - 1] = q[j]
  <2> SUFFICES ASSUME NEW j \in 1 .. n PROVE x.stack[b + j - 1] = q[j]
    OBVIOUS
  <2> PICK p \in Nat : p = b + j - 1
    OBVIOUS
  <2>1. p <= STACK_MAXSIZE
    BY ONLY <1>2, p = b + j - 1, p \in Nat, b \in Nat, n \in Nat, j \in 1 .. n, Sizes
  <2>2. CASE j = i + 1
    <3>1. b + i <= p /\ p < b + i + 1 /\ p - (b + i) + 1 = 1
      BY ONLY <1>1, <2>2, p = b + j - 1, b \in Nat, n \in Nat
    <3>2. x.stack[p] = v
      BY ONLY <1>4, <1>5, <2>1, <3>1, p \in Nat
    <3> QED
      BY ONLY <1>3, <2>2, <3>2, p = b + j - 1, j \in 1 .. n
  <2>3. CASE j # i + 1
    <3>1. ~(b + i <= p /\ p < b + i + 1)
      BY ONLY <1>1, <2>3, p = b + j - 1, b \in Nat, n \in Nat, j \in 1 .. n
    <3>2. x.stack[p] = th.stack[p]
      BY ONLY <1>5, <2>1, <3>1, p \in Nat
    <3> QED
      BY ONLY <1>2, <1>3, <2>3, <3>2, p = b + j - 1, j \in 1 .. n
  <2> QED
    BY <2>2, <2>3
<1>8. Becomes(x) /\ size(x) = Len(q) /\ \A j \in 1 .. Len(q) : x.stack[begin(th) + j - 1] = q[j]
  BY <1>3, <1>6, <1>7
<1>9. SubSeq(framesOf(th), 1, Len(th.calls))' = Promise!Now(q)
  <2>1. SInv /\ SInv'
    OBVIOUS
  <2> QED
    BY ONLY <2>1, <1>3, <1>5, <1>8, LocalStepC
<1>10. Promise!ReplaceAt(values(th), i + 1, v) = q
  BY DEF Promise!ReplaceAt
<1> QED
  BY <1>9, <1>10

LEMMA StepC ==
  ASSUME SInv, SInv', inC, NEW x \in Thread, x.calls = th.calls, Same(th, x, begin(th)), Becomes(x),
         NEW q \in Seq(Stored), NEW b \in Nat, b = begin(th), NEW m \in Nat, m = Len(q), x.top = b + m,
         \A j \in 1 .. m : x.stack[b + j - 1] = q[j]
  PROVE  SubSeq(framesOf(th), 1, Len(th.calls))' = Promise!Now(q)
<1>1. ci(x) = ci(th) /\ begin(x) = b
  BY DEF ci, begin
<1>2. size(x) = m
  <2>1. ~isByte(ci(x))
    BY <1>1 DEF inC
  <2>2. x.top - b = m
    OBVIOUS
  <2> QED
    BY <1>1, <2>1, <2>2 DEF size
<1>3. size(x) = Len(q) /\ \A j \in 1 .. Len(q) : x.stack[begin(th) + j - 1] = q[j]
  BY <1>2
<1> QED
  BY <1>3, LocalStepC

LEMMA poppedIs ==
  ASSUME NEW t \in Thread, NEW n \in Nat, n <= t.top, NEW u, u = popped(t, n)
  PROVE  u \in Thread /\ u.stack = t.stack /\ u.top = t.top - n /\ u.calls = t.calls /\ u.size = t.size
<1>1. t.top - n \in Nat
  BY DEF Thread
<1> QED
  BY <1>1 DEF popped, Thread

\* Values are put from slot 'from' on, and then k of them dropped.
LEMMA PutsAndPops ==
  ASSUME SInv, inC, NEW from \in Nat, begin(th) <= from, NEW vals \in Seq(Stored), NEW k \in Nat, k <= size(th),
         NEW x, x = popped(put(th, from, vals), k)
  PROVE  /\ x \in Thread /\ x.calls = th.calls /\ x.top = begin(th) + (size(th) - k) /\ Same(th, x, begin(th))
         /\ \A p \in Nat : p <= STACK_MAXSIZE =>
              x.stack[p] = IF from <= p /\ p < from + Len(vals) THEN vals[p - from + 1] ELSE th.stack[p]
<1> PICK y : y = put(th, from, vals)
  OBVIOUS
<1>1. /\ y \in Thread /\ y.calls = th.calls /\ y.top = th.top /\ Same(th, y, begin(th))
      /\ \A p \in Nat : p <= STACK_MAXSIZE =>
           y.stack[p] = IF from <= p /\ p < from + Len(vals) THEN vals[p - from + 1] ELSE th.stack[p]
  BY Puts
<1>2. th.top = begin(th) + size(th) /\ begin(th) \in Nat /\ size(th) \in Nat
  BY Here
<1>3. k <= y.top
  BY <1>1, <1>2
<1>4. x \in Thread /\ x.stack = y.stack /\ x.top = y.top - k /\ x.calls = y.calls
  BY <1>1, <1>3, poppedIs
<1>5. x.top = begin(th) + (size(th) - k)
  BY <1>1, <1>2, <1>4
<1> QED
  BY <1>1, <1>4, <1>5 DEF Same

LEMMA Dropped ==
  ASSUME SInv, inC, NEW k \in Nat, k <= size(th), NEW x, x = popped(th, k)
  PROVE  /\ x \in Thread /\ x.calls = th.calls /\ x.top = begin(th) + (size(th) - k) /\ Same(th, x, begin(th))
         /\ x.stack = th.stack
<1>1. th.top = begin(th) + size(th) /\ begin(th) \in Nat /\ size(th) \in Nat /\ th \in Thread
  BY Here
<1>2. k <= th.top
  BY <1>1
<1>3. x \in Thread /\ x.stack = th.stack /\ x.top = th.top - k /\ x.calls = th.calls
  BY <1>1, <1>2, poppedIs
<1> QED
  BY <1>1, <1>3 DEF Same

LEMMA Extended ==
  ASSUME SInv, inC, NEW vals \in Seq(Stored), NEW x, x = pushed(th, vals)
  PROVE  /\ x \in Thread /\ x.calls = th.calls /\ x.top = begin(th) + size(th) + Len(vals) /\ Same(th, x, begin(th))
         /\ \A p \in Nat : p <= STACK_MAXSIZE =>
              x.stack[p] = IF th.top <= p /\ p < th.top + Len(vals) THEN vals[p - th.top + 1] ELSE th.stack[p]
<1>1. th.top = begin(th) + size(th) /\ begin(th) \in Nat /\ size(th) \in Nat /\ th \in Thread /\ th.top < STACK_MAXSIZE
  BY Here
<1>2. x \in Thread /\ x.top = th.top + Len(vals) /\ x.calls = th.calls
  BY <1>1, pushedOK
<1>3. \A p \in Nat : p <= STACK_MAXSIZE =>
        x.stack[p] = IF th.top <= p /\ p < th.top + Len(vals) THEN vals[p - th.top + 1] ELSE th.stack[p]
  BY <1>1, pushedAt
<1>4. Same(th, x, begin(th))
  <2> SUFFICES ASSUME NEW p \in Nat, p < begin(th) PROVE x.stack[p] = th.stack[p]
    BY DEF Same
  <2>1. p <= STACK_MAXSIZE /\ ~(th.top <= p)
    BY ONLY <1>1, p < begin(th), p \in Nat, Sizes
  <2> QED
    BY <1>3, <2>1
<1> QED
  BY <1>1, <1>2, <1>3, <1>4

LEMMA AppendStep ==
  ASSUME SInv, SInv', inC, NEW v \in Stored, Becomes(pushed(th, <<v>>))
  PROVE  SubSeq(framesOf(th), 1, Len(th.calls))' = Promise!Now(Append(values(th), v))
<1> PICK b \in Nat : b = begin(th)
  BY Here
<1> PICK n \in Nat : n = size(th)
  BY Here
<1> PICK w : w = <<v>>
  OBVIOUS
<1> PICK x : x = pushed(th, w)
  OBVIOUS
<1> PICK L : L = values(th)
  OBVIOUS
<1> PICK q : q = Append(L, v)
  OBVIOUS
<1>1. L \in Seq(Stored) /\ Len(L) = n /\ b + n < STACK_MAXSIZE /\ th.top = b + n /\ \A j \in 1 .. n : L[j] = th.stack[b + j - 1]
  BY Here
<1>2. q \in Seq(Stored) /\ Len(q) = n + 1 /\ q[n + 1] = v /\ \A j \in 1 .. n : q[j] = L[j]
  BY ONLY <1>1, v \in Stored, q = Append(L, v), AppendProperties
<1>3. w \in Seq(Stored) /\ Len(w) = 1 /\ w[1] = v
  BY OneValue
<1>4. /\ x \in Thread /\ x.calls = th.calls /\ x.top = b + n + 1 /\ Same(th, x, begin(th))
      /\ \A p \in Nat : p <= STACK_MAXSIZE => x.stack[p] = IF b + n <= p /\ p < b + n + 1 THEN w[p - (b + n) + 1] ELSE th.stack[p]
  <2>1. /\ x \in Thread /\ x.calls = th.calls /\ x.top = begin(th) + size(th) + Len(w) /\ Same(th, x, begin(th))
        /\ \A p \in Nat : p <= STACK_MAXSIZE =>
             x.stack[p] = IF th.top <= p /\ p < th.top + Len(w) THEN w[p - th.top + 1] ELSE th.stack[p]
    BY <1>3, Extended
  <2> QED
    BY ONLY <1>1, <1>3, <2>1, b = begin(th), n = size(th)
<1>5. \A j \in 1 .. n + 1 : x.stack[b + j - 1] = q[j]
  <2> SUFFICES ASSUME NEW j \in 1 .. n + 1 PROVE x.stack[b + j - 1] = q[j]
    OBVIOUS
  <2> PICK p \in Nat : p = b + j - 1
    OBVIOUS
  <2>1. p <= STACK_MAXSIZE
    BY ONLY <1>1, p = b + j - 1, p \in Nat, b \in Nat, n \in Nat, j \in 1 .. n + 1, Sizes
  <2>2. CASE j = n + 1
    <3>1. b + n <= p /\ p < b + n + 1 /\ p - (b + n) + 1 = 1
      BY ONLY <2>2, p = b + j - 1, b \in Nat, n \in Nat
    <3>2. x.stack[p] = v
      BY ONLY <1>3, <1>4, <2>1, <3>1, p \in Nat
    <3> QED
      BY ONLY <1>2, <2>2, <3>2, p = b + j - 1
  <2>3. CASE j \in 1 .. n
    <3>1. ~(b + n <= p /\ p < b + n + 1)
      BY ONLY <2>3, p = b + j - 1, b \in Nat, n \in Nat
    <3>2. x.stack[p] = th.stack[p]
      BY ONLY <1>4, <2>1, <3>1, p \in Nat
    <3> QED
      BY ONLY <1>1, <1>2, <2>3, <3>2, p = b + j - 1
  <2> QED
    BY ONLY <2>2, <2>3, n \in Nat, j \in 1 .. n + 1
<1>6. Becomes(x) /\ n + 1 \in Nat /\ n + 1 = Len(q) /\ x.top = b + (n + 1)
  BY <1>2, <1>4
<1>7. SInv /\ SInv' /\ inC /\ b \in Nat /\ b = begin(th)
  OBVIOUS
<1>8. SubSeq(framesOf(th), 1, Len(th.calls))' = Promise!Now(q)
  BY ONLY <1>2, <1>4, <1>5, <1>6, <1>7, StepC
<1> QED
  BY <1>8

LEMMA pushValueMap ==
  ASSUME SInv, SInv', NEW v \in Value, pushValue(v)
  PROVE  Promise!Push(v)
<1>1. v \in Stored
  BY DEF Stored
<1>2. SubSeq(framesOf(th), 1, Len(th.calls))' = Promise!Now(Append(values(th), v))
  BY <1>1, AppendStep DEF pushValue
<1> QED
  BY <1>2, MapLocals DEF pushValue, Promise!Push

LEMMA pushLocalMap ==
  ASSUME SInv, SInv', NEW i \in Index, pushLocal(i)
  PROVE  Promise!PushLocal(i)
<1>1. stkAt(i) \in Stored
  <2>1. i \in Nat /\ i <= size(th)
    BY Here DEF Index
  <2> QED
    BY <2>1, Local
<1>2. SubSeq(framesOf(th), 1, Len(th.calls))' = Promise!Now(Append(values(th), stkAt(i)))
  BY <1>1, AppendStep DEF pushLocal
<1>3. Promise!At(i) = stkAt(i) /\ Promise!Locals = values(th)
  BY MapLocals
<1> QED
  BY <1>2, <1>3 DEF pushLocal, Promise!PushLocal

LEMMA setLocalMap ==
  ASSUME SInv, SInv', NEW i \in Index, NEW v \in Value, setLocal(i, v)
  PROVE  Promise!Set(i, v)
<1>1. v \in Stored
  BY DEF Stored
<1>2. SubSeq(framesOf(th), 1, Len(th.calls))' = Promise!Now(Promise!ReplaceAt(values(th), i + 1, v))
  BY <1>1, PutStep DEF setLocal
<1> QED
  BY <1>2, MapLocals DEF setLocal, Promise!Set

LEMMA copyMap ==
  ASSUME SInv, SInv', NEW i \in Index, NEW j \in Index, copyLocal(i, j) \/ OpLoadReg(i, j)
  PROVE  Promise!Copy(i, j)
<1>1. stkAt(j) \in Stored
  <2>1. j \in Nat /\ j <= size(th)
    BY Here DEF Index
  <2> QED
    BY <2>1, Local
<1>2. SubSeq(framesOf(th), 1, Len(th.calls))' = Promise!Now(Promise!ReplaceAt(values(th), i + 1, stkAt(j)))
  BY <1>1, PutStep DEF copyLocal, OpLoadReg
<1>3. Promise!At(j) = stkAt(j) /\ Promise!Locals = values(th)
  BY MapLocals
<1> QED
  BY <1>2, <1>3 DEF copyLocal, OpLoadReg, Promise!Copy

\* Slots as a sequence.
LEMMA SlotsAre ==
  ASSUME SInv, NEW from \in Nat, NEW to \in Nat, from <= to, to <= STACK_MAXSIZE
  PROVE  /\ slots(th, from, to) \in Seq(Stored) /\ Len(slots(th, from, to)) = to - from
         /\ \A i \in 1 .. to - from : slots(th, from, to)[i] = th.stack[from + i - 1]
<1>1. th \in Thread /\ to <= STACK_ERRORSIZE
  BY Here, Sizes
<1> QED
  BY <1>1, slotsOK DEF slots

LEMMA deleteLocalMap ==
  ASSUME SInv, SInv', NEW i \in Index, deleteLocal(i)
  PROVE  Promise!Delete(i)
<1> PICK b \in Nat : b = begin(th)
  BY Here
<1> PICK n \in Nat : n = size(th)
  BY Here
<1> PICK L : L = values(th)
  OBVIOUS
<1> PICK w : w = slots(th, b + i + 1, b + n)
  OBVIOUS
<1> PICK x : x = popped(put(th, b + i, w), 1)
  OBVIOUS
<1> PICK q : q = RemoveAt(L, i + 1)
  OBVIOUS
<1>0. i \in 0 .. n - 1 /\ i + 1 \in 1 .. n /\ n >= 1 /\ 1 <= n /\ i \in Nat
  BY DEF Index
<1>1. L \in Seq(Stored) /\ Len(L) = n /\ b + n < STACK_MAXSIZE /\ th.top = b + n /\ \A j \in 1 .. n : L[j] = th.stack[b + j - 1]
  BY Here DEF deleteLocal
<1>2. /\ q \in Seq(Stored) /\ Len(q) = n - 1
      /\ \A j \in 1 .. i : q[j] = L[j]
      /\ \A j \in i + 1 .. n - 1 : q[j] = L[j + 1]
  <2>1. i + 1 \in 1 .. Len(L) /\ (i + 1) - 1 = i
    BY <1>0, <1>1
  <2>2. /\ RemoveAt(L, i + 1) \in Seq(Stored) /\ Len(RemoveAt(L, i + 1)) = Len(L) - 1
        /\ \A j \in 1 .. (i + 1) - 1 : RemoveAt(L, i + 1)[j] = L[j]
        /\ \A j \in i + 1 .. Len(L) - 1 : RemoveAt(L, i + 1)[j] = L[j + 1]
    BY ONLY <1>1, <2>1, RemoveAtIs
  <2> QED
    BY ONLY <1>1, <2>1, <2>2, q = RemoveAt(L, i + 1)
<1>3. w \in Seq(Stored) /\ Len(w) = n - i - 1 /\ \A j \in 1 .. n - i - 1 : w[j] = th.stack[b + i + j]
  <2>1. b + i + 1 \in Nat /\ b + n \in Nat /\ b + i + 1 <= b + n /\ b + n <= STACK_MAXSIZE /\ (b + n) - (b + i + 1) = n - i - 1
        /\ \A j \in 1 .. n - i - 1 : (b + i + 1) + j - 1 = b + i + j
    <3>1. b + n < STACK_MAXSIZE
      BY <1>1
    <3> QED
      BY ONLY <1>0, <3>1, b \in Nat, n \in Nat, Sizes
  <2>2. SInv /\ w = slots(th, b + i + 1, b + n)
    OBVIOUS
  <2>3. /\ slots(th, b + i + 1, b + n) \in Seq(Stored) /\ Len(slots(th, b + i + 1, b + n)) = (b + n) - (b + i + 1)
        /\ \A j \in 1 .. (b + n) - (b + i + 1) : slots(th, b + i + 1, b + n)[j] = th.stack[(b + i + 1) + j - 1]
    BY ONLY <2>1, <2>2, SlotsAre
  <2> QED
    BY ONLY <2>1, <2>2, <2>3
<1>4. /\ x \in Thread /\ x.calls = th.calls /\ x.top = b + (n - 1) /\ Same(th, x, begin(th))
      /\ \A p \in Nat : p <= STACK_MAXSIZE =>
           x.stack[p] = IF b + i <= p /\ p < (b + i) + Len(w) THEN w[p - (b + i) + 1] ELSE th.stack[p]
  <2>1. SInv /\ inC /\ b + i \in Nat /\ begin(th) <= b + i /\ 1 \in Nat /\ 1 <= size(th) /\ x = popped(put(th, b + i, w), 1)
        /\ b = begin(th) /\ n = size(th)
    BY <1>0 DEF deleteLocal
  <2>2. /\ x \in Thread /\ x.calls = th.calls /\ x.top = begin(th) + (size(th) - 1) /\ Same(th, x, begin(th))
        /\ \A p \in Nat : p <= STACK_MAXSIZE =>
           x.stack[p] = IF b + i <= p /\ p < (b + i) + Len(w) THEN w[p - (b + i) + 1] ELSE th.stack[p]
    BY ONLY SMTT(30), ZenonT(30), <1>3, <2>1, PutsAndPops
  <2> QED
    BY ONLY <2>1, <2>2
<1>5. \A j \in 1 .. n - 1 : x.stack[b + j - 1] = q[j]
  <2> SUFFICES ASSUME NEW j \in 1 .. n - 1 PROVE x.stack[b + j - 1] = q[j]
    OBVIOUS
  <2> PICK p \in Nat : p = b + j - 1
    OBVIOUS
  <2>1. p <= STACK_MAXSIZE
    BY ONLY <1>1, p = b + j - 1, p \in Nat, b \in Nat, n \in Nat, j \in 1 .. n - 1, Sizes
  <2>2. CASE j < i + 1
    <3>1. ~(b + i <= p)
      BY ONLY <1>0, <2>2, p = b + j - 1, b \in Nat, n \in Nat, j \in 1 .. n - 1
    <3>2. x.stack[p] = th.stack[p]
      BY ONLY <1>4, <2>1, <3>1, p \in Nat
    <3>3. j \in 1 .. n /\ j \in 1 .. i
      BY ONLY <1>0, <2>2, n \in Nat, j \in 1 .. n - 1
    <3> QED
      BY ONLY <1>1, <1>2, <3>2, <3>3, p = b + j - 1
  <2>3. CASE ~(j < i + 1)
    <3>1. b + i <= p /\ p < (b + i) + (n - i - 1) /\ p - (b + i) + 1 = j - i /\ j - i \in 1 .. n - i - 1
          /\ b + i + (j - i) = b + (j + 1) - 1 /\ j + 1 \in 1 .. n /\ j \in i + 1 .. n - 1
      BY ONLY <1>0, <2>3, p = b + j - 1, b \in Nat, n \in Nat, j \in 1 .. n - 1
    <3>2. x.stack[p] = w[j - i]
      BY ONLY <1>3, <1>4, <2>1, <3>1, p \in Nat
    <3>3. w[j - i] = th.stack[b + (j + 1) - 1]
      BY ONLY <1>3, <3>1
    <3>4. L[j + 1] = th.stack[b + (j + 1) - 1]
      BY ONLY <1>1, <3>1
    <3> QED
      BY ONLY <1>2, <3>1, <3>2, <3>3, <3>4, p = b + j - 1
  <2> QED
    BY <2>2, <2>3
<1>6. Becomes(x) /\ did' = <<"delete", i>>
  <2>1. Becomes(popped(put(th, begin(th) + i, slots(th, begin(th) + i + 1, th.top)), 1)) /\ did' = <<"delete", i>>
    BY DEF deleteLocal
  <2>2. b + n = th.top /\ b = begin(th)
    BY <1>1
  <2> QED
    BY <2>1, <2>2
<1>7. SubSeq(framesOf(th), 1, Len(th.calls))' = Promise!Now(q)
  <2>1. SInv /\ SInv' /\ inC /\ b \in Nat /\ b = begin(th) /\ n - 1 \in Nat /\ n - 1 = Len(q) /\ x.top = b + (n - 1)
    BY <1>0, <1>2, <1>4 DEF deleteLocal
  <2> QED
    BY ONLY <1>2, <1>4, <1>5, <1>6, <2>1, StepC
<1>8. Promise!RemoveAt(Promise!Locals, i + 1) = q
  BY MapLocals DEF Promise!RemoveAt, RemoveAt
<1> QED
  BY <1>6, <1>7, <1>8 DEF Promise!Delete

\* Of a C method's frame: from the i-th value on k slots of x hold vals, and of q k elements; the others are as they were.
Overlaid(x, i, k, vals) ==
  /\ x \in Thread /\ x.calls = th.calls /\ Same(th, x, begin(th))
  /\ \A p \in Nat : p <= STACK_MAXSIZE =>
       x.stack[p] = IF begin(th) + i <= p /\ p < begin(th) + i + k THEN vals[p - (begin(th) + i) + 1] ELSE th.stack[p]
Overlay(q, i, k, vals) ==
  q \in Seq(Stored) /\ \A j \in 1 .. Len(q) : q[j] = IF i < j /\ j <= i + k THEN vals[j - i] ELSE th.stack[begin(th) + j - 1]

LEMMA ChangedStep ==
  ASSUME SInv, SInv', inC, NEW x, Becomes(x), NEW i \in Nat, NEW k \in Nat, NEW vals, Overlaid(x, i, k, vals),
         NEW q, Overlay(q, i, k, vals), x.top = begin(th) + Len(q)
  PROVE  SubSeq(framesOf(th), 1, Len(th.calls))' = Promise!Now(q)
<1> PICK b \in Nat : b = begin(th)
  BY Here
<1>0. q \in Seq(Stored)
  BY DEF Overlay
<1> PICK m \in Nat : m = Len(q)
  BY <1>0, LenProperties
<1> PICK from \in Nat : from = b + i
  OBVIOUS
<1>x. /\ x \in Thread /\ x.calls = th.calls /\ Same(th, x, begin(th))
      /\ \A p \in Nat : p <= STACK_MAXSIZE =>
           x.stack[p] = IF from <= p /\ p < from + k THEN vals[p - from + 1] ELSE th.stack[p]
  BY DEF Overlaid
<1>q. \A j \in 1 .. m : q[j] = IF i < j /\ j <= i + k THEN vals[j - i] ELSE th.stack[b + j - 1]
  BY DEF Overlay
<1>1. th'.top = x.top /\ Fits(th')
  <2>1. th'.top = x.top
    BY <1>x, Became
  <2>2. Fits(th')
    BY DEF SInv
  <2> QED
    BY <2>1, <2>2
<1>2. b + m <= STACK_MAXSIZE
  <2>0. x.top = b + m
    OBVIOUS
  <2>1. th'.top <= limit(th') /\ limit(th') < STACK_MAXSIZE /\ limit(th') \in Int
    BY <1>1, FitsTypes
  <2> QED
    BY <1>1, <2>0, <2>1, Sizes
<1>3. \A j \in 1 .. m : x.stack[b + j - 1] = q[j]
  <2> SUFFICES ASSUME NEW j \in 1 .. m PROVE x.stack[b + j - 1] = q[j]
    OBVIOUS
  <2> PICK p \in Nat : p = b + j - 1
    OBVIOUS
  <2>1. p <= STACK_MAXSIZE
    BY ONLY <1>2, p = b + j - 1, b \in Nat, m \in Nat, j \in 1 .. m, Sizes
  <2>2. (from <= p /\ p < from + k) <=> (i < j /\ j <= i + k)
    BY ONLY p = b + j - 1, b \in Nat, from = b + i, i \in Nat, k \in Nat, j \in 1 .. m, m \in Nat
  <2>3. p - from + 1 = j - i
    BY ONLY p = b + j - 1, b \in Nat, from = b + i, i \in Nat, j \in 1 .. m, m \in Nat
  <2>4. x.stack[p] = IF from <= p /\ p < from + k THEN vals[p - from + 1] ELSE th.stack[p]
    BY <1>x, <2>1
  <2>5. q[j] = IF i < j /\ j <= i + k THEN vals[j - i] ELSE th.stack[p]
    BY <1>q
  <2> QED
    BY ONLY <2>2, <2>3, <2>4, <2>5, p = b + j - 1
<1>4. x.top = b + m
  OBVIOUS
<1> QED
  BY <1>0, <1>3, <1>4, <1>x, StepC

LEMMA insertLocalMap ==
  ASSUME SInv, SInv', NEW i \in Index, insertLocal(i)
  PROVE  Promise!Insert(i)
<1> PICK b \in Nat : b = begin(th)
  BY Here
<1> PICK n \in Nat : n = size(th)
  BY Here
<1> PICK L : L = values(th)
  OBVIOUS
<1> PICK F : F = Front(L)
  OBVIOUS
<1> PICK e : e = L[n]
  OBVIOUS
<1> PICK u : u = slots(th, b + i, b + n - 1)
  OBVIOUS
<1> PICK o : o = <<e>>
  OBVIOUS
<1> PICK w : w = o \o u
  OBVIOUS
<1> PICK x : x = put(th, b + i, w)
  OBVIOUS
<1> PICK q : q = InsertAt(F, i + 1, e)
  OBVIOUS
<1>0. i \in Nat /\ i + 1 \in 1 .. n /\ n >= 1 /\ n \in 1 .. n /\ n - 1 \in Nat /\ i <= n - 1
  BY DEF Index
<1>1. L \in Seq(Stored) /\ Len(L) = n /\ b + n < STACK_MAXSIZE /\ th.top = b + n /\ \A j \in 1 .. n : L[j] = th.stack[b + j - 1]
  BY Here DEF insertLocal
<1>2. e \in Stored /\ e = th.stack[b + n - 1] /\ e = Last(L)
  BY <1>0, <1>1, ElementOfSeq DEF Last
<1>3. F \in Seq(Stored) /\ Len(F) = n - 1 /\ \A j \in 1 .. n - 1 : F[j] = L[j]
  BY ONLY <1>0, <1>1, F = Front(L), FrontProperties
<1>4. /\ q \in Seq(Stored) /\ Len(q) = n
      /\ \A j \in 1 .. i : q[j] = L[j]
      /\ q[i + 1] = e
      /\ \A j \in i + 2 .. n : q[j] = L[j - 1]
  <2>1. i + 1 \in 1 .. Len(F) + 1 /\ (i + 1) - 1 = i /\ Len(F) + 1 = n /\ (i + 1) + 1 = i + 2
    BY ONLY <1>0, <1>3, n \in Nat
  <2> PICK k \in 1 .. Len(F) + 1 : k = i + 1
    BY <2>1
  <2>2. InsertAt(F, k, e) \in Seq(Stored) /\ IsInsertAt(InsertAt(F, k, e), F, k, e)
    BY ONLY <1>2, <1>3, k \in 1 .. Len(F) + 1, InsertAtIs
  <2>3. /\ q \in Seq(Stored) /\ Len(q) = n /\ q[i + 1] = e
        /\ \A j \in 1 .. i : q[j] = F[j]
        /\ \A j \in i + 2 .. n : q[j] = F[j - 1]
    BY ONLY <2>1, <2>2, q = InsertAt(F, i + 1, e), k = i + 1 DEF IsInsertAt
  <2>4. (\A j \in 1 .. i : j \in 1 .. n - 1) /\ (\A j \in i + 2 .. n : j - 1 \in 1 .. n - 1)
    BY ONLY <1>0, n \in Nat
  <2> QED
    BY ONLY <1>3, <2>3, <2>4
<1>5. u \in Seq(Stored) /\ Len(u) = n - 1 - i /\ \A j \in 1 .. n - 1 - i : u[j] = th.stack[b + i + j - 1]
  <2>1. b + i \in Nat /\ b + n - 1 \in Nat /\ b + i <= b + n - 1 /\ b + n - 1 <= STACK_MAXSIZE
        /\ (b + n - 1) - (b + i) = n - 1 - i
    <3>1. b + n < STACK_MAXSIZE
      BY <1>1
    <3> QED
      BY ONLY <1>0, <3>1, b \in Nat, n \in Nat, Sizes
  <2>2. SInv /\ u = slots(th, b + i, b + n - 1)
    OBVIOUS
  <2>3. /\ slots(th, b + i, b + n - 1) \in Seq(Stored) /\ Len(slots(th, b + i, b + n - 1)) = (b + n - 1) - (b + i)
        /\ \A j \in 1 .. (b + n - 1) - (b + i) : slots(th, b + i, b + n - 1)[j] = th.stack[(b + i) + j - 1]
    BY ONLY <2>1, <2>2, SlotsAre
  <2> QED
    BY ONLY <2>1, <2>2, <2>3
<1>6. /\ w \in Seq(Stored) /\ Len(w) = n - i /\ w[1] = e
      /\ \A j \in 2 .. n - i : w[j] = u[j - 1]
  <2>1. o \in Seq(Stored) /\ Len(o) = 1 /\ o[1] = e
    BY ONLY <1>2, o = <<e>>
  <2>2. /\ w \in Seq(Stored) /\ Len(w) = Len(o) + Len(u)
        /\ \A j \in 1 .. Len(o) + Len(u) : w[j] = IF j <= Len(o) THEN o[j] ELSE u[j - Len(o)]
    BY ONLY <1>5, <2>1, w = o \o u, ConcatProperties
  <2>3. Len(w) = n - i /\ 1 \in 1 .. n - i /\ Len(o) + Len(u) = n - i
    BY ONLY <1>0, <1>5, <2>1, <2>2, n \in Nat
  <2>4. \A j \in 2 .. n - i : j \in 1 .. n - i /\ ~(j <= 1)
    OBVIOUS
  <2> QED
    BY ONLY <2>1, <2>2, <2>3, <2>4
<1>7. Becomes(x) /\ did' = <<"insert", i>> /\ inC
  <2>1. Becomes(put(th, begin(th) + i, <<th.stack[th.top - 1]>> \o slots(th, begin(th) + i, th.top - 1)))
        /\ did' = <<"insert", i>> /\ inC
    BY DEF insertLocal
  <2>2. b + n = th.top /\ b = begin(th) /\ e = th.stack[th.top - 1]
    <3>1. th.top - 1 = b + n - 1
      BY <1>1
    <3> QED
      BY <1>1, <1>2, <3>1
  <2> QED
    BY <2>1, <2>2
<1>8. /\ x \in Thread /\ x.calls = th.calls /\ x.top = b + n /\ Same(th, x, begin(th))
      /\ \A p \in Nat : p <= STACK_MAXSIZE =>
           x.stack[p] = IF b + i <= p /\ p < (b + i) + (n - i) THEN w[p - (b + i) + 1] ELSE th.stack[p]
  <2>1. SInv /\ b + i \in Nat /\ begin(th) <= b + i /\ x = put(th, b + i, w)
    BY <1>0
  <2>2. /\ x \in Thread /\ x.calls = th.calls /\ x.top = th.top /\ Same(th, x, begin(th))
        /\ \A p \in Nat : p <= STACK_MAXSIZE =>
             x.stack[p] = IF b + i <= p /\ p < (b + i) + Len(w) THEN w[p - (b + i) + 1] ELSE th.stack[p]
    BY ONLY SMTT(30), ZenonT(30), <1>6, <2>1, Puts
  <2> QED
    BY ONLY <1>1, <1>6, <2>2
<1>9. \A j \in 1 .. n : q[j] = IF i < j /\ j <= i + (n - i) THEN w[j - i] ELSE th.stack[b + j - 1]
  <2> SUFFICES ASSUME NEW j \in 1 .. n
               PROVE  q[j] = IF i < j /\ j <= i + (n - i) THEN w[j - i] ELSE th.stack[b + j - 1]
    OBVIOUS
  <2>1. CASE j \in 1 .. i
    <3>1. ~(i < j)
      BY ONLY <1>0, <2>1
    <3> QED
      BY ONLY <1>1, <1>4, <2>1, <3>1, j \in 1 .. n
  <2>2. CASE j = i + 1
    <3>1. i < j /\ j <= i + (n - i) /\ j - i = 1
      BY ONLY <1>0, <2>2, n \in Nat
    <3> QED
      BY ONLY <1>4, <1>6, <2>2, <3>1
  <2>3. CASE j \in i + 2 .. n
    <3>1. i < j /\ j <= i + (n - i) /\ j - i \in 2 .. n - i /\ j - i - 1 \in 1 .. n - 1 - i /\ j - 1 \in 1 .. n
          /\ b + i + (j - i - 1) - 1 = b + (j - 1) - 1
      BY ONLY <1>0, <2>3, n \in Nat, b \in Nat
    <3>2. w[j - i] = u[j - i - 1] /\ u[j - i - 1] = th.stack[b + i + (j - i - 1) - 1]
      BY ONLY <1>5, <1>6, <3>1
    <3>3. L[j - 1] = th.stack[b + (j - 1) - 1]
      BY ONLY <1>1, <3>1
    <3> QED
      BY ONLY <1>4, <2>3, <3>1, <3>2, <3>3
  <2> QED
    BY ONLY <1>0, <2>1, <2>2, <2>3, j \in 1 .. n, n \in Nat
<1>10. SubSeq(framesOf(th), 1, Len(th.calls))' = Promise!Now(q)
  <2>1. Overlaid(x, i, n - i, w)
    BY <1>8 DEF Overlaid
  <2>2. Overlay(q, i, n - i, w)
    BY <1>4, <1>9 DEF Overlay
  <2>3. SInv /\ SInv'
    OBVIOUS
  <2>4. n - i \in Nat
    BY ONLY <1>0, n \in Nat
  <2>5. x.top = begin(th) + Len(q)
    BY ONLY <1>4, <1>8, b = begin(th)
  <2> QED
    BY ONLY <1>0, <1>7, <2>1, <2>2, <2>3, <2>4, <2>5, ChangedStep
<1>11. Promise!InsertAt(Promise!Front(Promise!Locals), i + 1, Promise!Last(Promise!Locals)) = q
  <2>1. Promise!Locals = L
    BY MapLocals
  <2>2. Promise!Front(L) = F /\ Promise!Last(L) = e
    BY <1>2 DEF Promise!Front, Front, Promise!Last, Last
  <2> QED
    BY <2>1, <2>2 DEF Promise!InsertAt, InsertAt
<1> QED
  BY <1>7, <1>10, <1>11 DEF Promise!Insert

\* The values up to some one are kept.
LEMMA KeptStep ==
  ASSUME SInv, SInv', inC, NEW x, Becomes(x), NEW i \in Nat, NEW k \in Nat, NEW vals, Overlaid(x, i, k, vals),
         NEW q \in Seq(Stored), Len(q) <= i, Len(q) <= size(th), \A j \in 1 .. Len(q) : q[j] = values(th)[j],
         x.top = begin(th) + Len(q)
  PROVE  SubSeq(framesOf(th), 1, Len(th.calls))' = Promise!Now(q)
<1>1. Len(q) \in Nat /\ size(th) \in Nat /\ \A j \in 1 .. size(th) : values(th)[j] = th.stack[begin(th) + j - 1]
  BY Here, LenProperties
<1>2. \A j \in 1 .. Len(q) : j \in 1 .. size(th) /\ ~(i < j)
  BY <1>1
<1>3. Overlay(q, i, k, vals)
  BY <1>1, <1>2 DEF Overlay
<1> QED
  BY <1>3, ChangedStep

\* Nothing is stored.
LEMMA Unstored ==
  ASSUME SInv, NEW x \in Thread, x.calls = th.calls, x.stack = th.stack, NEW i \in Nat, NEW vals
  PROVE  Overlaid(x, i, 0, vals)
<1> PICK f \in Nat : f = begin(th) + i
  BY Here
<1>1. \A p \in Nat : ~(f <= p /\ p < f + 0)
  OBVIOUS
<1>2. Same(th, x, begin(th))
  BY DEF Same
<1>3. \A p \in Nat : p <= STACK_MAXSIZE => x.stack[p] = IF f <= p /\ p < f + 0 THEN vals[p - f + 1] ELSE th.stack[p]
  BY <1>1
<1> QED
  BY <1>2, <1>3 DEF Overlaid

LEMMA PopStep ==
  ASSUME SInv, SInv', inC, size(th) > 0, Becomes(popped(th, 1))
  PROVE  /\ SubSeq(framesOf(th), 1, Len(th.calls))' = Promise!Now(Promise!Front(values(th)))
         /\ Promise!Last(values(th)) = th.stack[th.top - 1] /\ values(th) # <<>>
<1> PICK b \in Nat : b = begin(th)
  BY Here
<1> PICK n \in Nat : n = size(th)
  BY Here
<1> PICK L : L = values(th)
  OBVIOUS
<1> PICK x : x = popped(th, 1)
  OBVIOUS
<1> PICK q : q = Front(L)
  OBVIOUS
<1>1. L \in Seq(Stored) /\ Len(L) = n /\ n >= 1 /\ th.top = b + n /\ \A j \in 1 .. n : L[j] = th.stack[b + j - 1]
  BY Here
<1>2. q \in Seq(Stored) /\ Len(q) = n - 1 /\ \A j \in 1 .. n - 1 : q[j] = L[j]
  BY ONLY <1>1, q = Front(L), FrontProperties
<1>3. th.top - 1 = b + n - 1 /\ n \in 1 .. n /\ n - 1 \in Nat /\ n - 1 <= n
  <2>1. n >= 1 /\ th.top = b + n
    BY <1>1
  <2> QED
    BY ONLY <2>1, b \in Nat, n \in Nat
<1>4. Last(L) = th.stack[th.top - 1]
  <2>1. L[n] = th.stack[b + n - 1]
    BY ONLY <1>1, <1>3
  <2> QED
    BY ONLY <1>1, <1>3, <2>1 DEF Last
<1>5. Becomes(x) /\ inC
  OBVIOUS
<1>6. /\ x \in Thread /\ x.calls = th.calls /\ x.stack = th.stack
      /\ x.top = begin(th) + (size(th) - 1)
  <2>1. 1 \in Nat /\ 1 <= size(th)
    BY <1>1
  <2> QED
    BY <1>5, <2>1, Dropped
<1>7. Overlaid(x, n, 0, <<>>)
  BY <1>6, Unstored
<1>8. SubSeq(framesOf(th), 1, Len(th.calls))' = Promise!Now(q)
  <2>1. x.top = begin(th) + Len(q) /\ Len(q) <= n /\ Len(q) <= size(th)
    BY <1>2, <1>3, <1>6
  <2>2. \A j \in 1 .. Len(q) : q[j] = values(th)[j]
    BY <1>2
  <2>3. SInv /\ SInv' /\ 0 \in Nat
    OBVIOUS
  <2> QED
    BY ONLY <1>2, <1>5, <1>7, <2>1, <2>2, <2>3, n \in Nat, KeptStep
<1>9. Promise!Front(L) = q /\ Promise!Last(L) = Last(L)
  BY DEF Promise!Front, Front, Promise!Last, Last
<1>10. L # <<>>
  BY <1>1
<1> QED
  BY <1>4, <1>8, <1>9, <1>10

LEMMA popValueMap ==
  ASSUME SInv, SInv', popValue
  PROVE  Promise!Pop /\ Promise!Locals # <<>>
<1>1. inC /\ size(th) > 0 /\ did' = <<"pop", th.stack[th.top - 1]>> /\ Becomes(popped(th, 1))
  BY DEF popValue
<1>2. /\ SubSeq(framesOf(th), 1, Len(th.calls))' = Promise!Now(Promise!Front(values(th)))
      /\ Promise!Last(values(th)) = th.stack[th.top - 1] /\ values(th) # <<>>
  BY <1>1, PopStep
<1>3. Promise!Locals = values(th)
  BY MapLocals
<1> QED
  BY <1>1, <1>2, <1>3 DEF Promise!Pop

LEMMA popGloVarMap ==
  ASSUME SInv, SInv', popGloVar
  PROVE  Promise!Pop /\ Promise!Locals # <<>>
<1> PICK b \in Nat : b = begin(th)
  BY Here
<1> PICK n \in Nat : n = size(th)
  BY Here
<1> PICK L : L = values(th)
  OBVIOUS
<1> PICK w : w = <<Sym>>
  OBVIOUS
<1> PICK t : t = pushed(th, w)
  OBVIOUS
<1> PICK x : x = popped(t, 2)
  OBVIOUS
<1> PICK q : q = Front(L)
  OBVIOUS
<1>1. L \in Seq(Stored) /\ Len(L) = n /\ n >= 1 /\ th.top = b + n /\ \A j \in 1 .. n : L[j] = th.stack[b + j - 1]
  BY Here DEF popGloVar
<1>2. q \in Seq(Stored) /\ Len(q) = n - 1 /\ \A j \in 1 .. n - 1 : q[j] = L[j]
  BY ONLY <1>1, q = Front(L), FrontProperties
<1>3. n \in 1 .. n /\ n - 1 \in Nat /\ n - 1 <= n
  BY <1>1
<1>4. w \in Seq(Stored) /\ Len(w) = 1
  <2>1. Sym \in Stored
    BY DEF Sym, Stored
  <2> QED
    BY <2>1, OneValue
<1>5. inC
  BY DEF popGloVar
<1>6. /\ t \in Thread /\ t.calls = th.calls /\ t.top = b + n + 1 /\ Same(th, t, begin(th))
      /\ \A p \in Nat : p <= STACK_MAXSIZE =>
           t.stack[p] = IF b + n <= p /\ p < b + n + 1 THEN w[p - (b + n) + 1] ELSE th.stack[p]
  <2>1. /\ t \in Thread /\ t.calls = th.calls /\ t.top = begin(th) + size(th) + Len(w) /\ Same(th, t, begin(th))
        /\ \A p \in Nat : p <= STACK_MAXSIZE =>
             t.stack[p] = IF th.top <= p /\ p < th.top + Len(w) THEN w[p - th.top + 1] ELSE th.stack[p]
    BY <1>4, <1>5, Extended
  <2> QED
    BY ONLY <1>1, <1>4, <2>1, b = begin(th), n = size(th)
<1>7. t.stack[t.top - 2] = Last(L)
  <2> PICK p \in Nat : p = b + n - 1
    BY <1>1
  <2>1. p <= STACK_MAXSIZE
    <3>1. b + n < STACK_MAXSIZE
      BY Here
    <3> QED
      BY <3>1, Sizes
  <2>2. t.top - 2 = p /\ ~(b + n <= p)
    BY <1>6
  <2>3. t.stack[p] = th.stack[p]
    BY ONLY <1>6, <2>1, <2>2, p \in Nat
  <2> QED
    BY <1>1, <1>3, <2>2, <2>3 DEF Last
<1>8. Becomes(x) /\ did' = <<"pop", Last(L)>> /\ inC
  <2>1. Becomes(popped(pushed(th, <<Sym>>), 2)) /\ did' = <<"pop", pushed(th, <<Sym>>).stack[pushed(th, <<Sym>>).top - 2]>>
    BY DEF popGloVar
  <2> QED
    BY <1>5, <1>7, <2>1
<1>9. x \in Thread /\ x.calls = th.calls /\ x.stack = t.stack /\ x.top = b + (n - 1)
  <2>1. 2 \in Nat /\ 2 <= t.top /\ t.top - 2 = b + (n - 1)
    BY <1>1, <1>6
  <2> QED
    BY <1>6, <2>1, poppedIs
<1>10. Overlaid(x, n, 1, w)
  <2>1. Same(th, x, begin(th))
    BY <1>6, <1>9 DEF Same
  <2> QED
    BY <1>6, <1>9, <2>1 DEF Overlaid
<1>11. SubSeq(framesOf(th), 1, Len(th.calls))' = Promise!Now(q)
  <2>1. x.top = begin(th) + Len(q) /\ Len(q) <= n /\ Len(q) <= size(th)
    BY <1>2, <1>3, <1>9
  <2>2. \A j \in 1 .. Len(q) : q[j] = values(th)[j]
    BY <1>2
  <2>3. SInv /\ SInv' /\ 1 \in Nat
    OBVIOUS
  <2> QED
    BY ONLY <1>2, <1>8, <1>10, <2>1, <2>2, <2>3, n \in Nat, KeptStep
<1>12. Promise!Locals = L
  BY MapLocals
<1>13. Promise!Front(L) = q /\ Promise!Last(L) = Last(L)
  BY DEF Promise!Front, Front, Promise!Last, Last
<1>14. Promise!Pop
  BY <1>8, <1>11, <1>12, <1>13 DEF Promise!Pop
<1>15. L # <<>>
  BY <1>1
<1> QED
  BY <1>12, <1>14, <1>15

\* vals are put at the i-th value, and k values dropped.
IsPut(x, i, vals, k) == x = popped(put(th, begin(th) + i, vals), k)

LEMMA Overlays ==
  ASSUME SInv, inC, NEW x, NEW i \in Nat, NEW vals \in Seq(Stored), NEW k \in Nat, k <= size(th), IsPut(x, i, vals, k)
  PROVE  Overlaid(x, i, Len(vals), vals) /\ x.top = begin(th) + (size(th) - k)
<1> PICK from : from = begin(th) + i
  OBVIOUS
<1>0. x = popped(put(th, from, vals), k)
  BY DEF IsPut
<1>1. from \in Nat /\ begin(th) <= from
  BY Here
<1>2. /\ x \in Thread /\ x.calls = th.calls /\ x.top = begin(th) + (size(th) - k) /\ Same(th, x, begin(th))
      /\ \A p \in Nat : p <= STACK_MAXSIZE =>
           x.stack[p] = IF from <= p /\ p < from + Len(vals) THEN vals[p - from + 1] ELSE th.stack[p]
  BY <1>0, <1>1, PutsAndPops
<1> QED
  BY <1>2 DEF Overlaid

LEMMA popLocalMap ==
  ASSUME SInv, SInv', NEW i \in Index, popLocal(i)
  PROVE  Promise!PopTo(i) /\ i \in 0 .. Len(Promise!Locals) - 2
<1> PICK b \in Nat : b = begin(th)
  BY Here
<1> PICK n \in Nat : n = size(th)
  BY Here
<1> PICK L : L = values(th)
  OBVIOUS
<1> PICK e : e = L[n]
  OBVIOUS
<1> PICK w : w = <<e>>
  OBVIOUS
<1> PICK x : x = popped(put(th, b + i, w), 1)
  OBVIOUS
<1> PICK F : F = Front(L)
  OBVIOUS
<1> PICK q : q = [F EXCEPT ![i + 1] = e]
  OBVIOUS
<1>0. i \in Nat /\ i + 1 \in 1 .. n - 1 /\ n >= 1 /\ n \in 1 .. n /\ n - 1 \in Nat /\ 1 <= n /\ b + i \in Nat /\ i \in 0 .. n - 2
      /\ b <= b + i
  <2>1. i \in 0 .. n - 1 /\ i < n - 1
    BY DEF Index, popLocal
  <2> QED
    BY ONLY <2>1, n \in Nat, b \in Nat
<1>c. inC
  BY DEF popLocal
<1>1. L \in Seq(Stored) /\ Len(L) = n /\ th.top = b + n /\ \A j \in 1 .. n : L[j] = th.stack[b + j - 1]
  BY <1>c, Here
<1>2. F \in Seq(Stored) /\ Len(F) = n - 1 /\ \A j \in 1 .. n - 1 : F[j] = L[j]
  BY ONLY <1>0, <1>1, F = Front(L), FrontProperties
<1>3. e \in Stored /\ e = th.stack[th.top - 1] /\ e = Last(L)
  <2>1. th.top - 1 = b + n - 1
    BY <1>1
  <2> QED
    BY <1>0, <1>1, <2>1, ElementOfSeq DEF Last
<1>4. w \in Seq(Stored) /\ Len(w) = 1 /\ w[1] = e
  BY <1>3, OneValue
<1>5. q \in Seq(Stored) /\ Len(q) = n - 1 /\ \A j \in 1 .. n - 1 : q[j] = IF j = i + 1 THEN e ELSE F[j]
  BY ONLY <1>0, <1>2, <1>3, q = [F EXCEPT ![i + 1] = e], ExceptSeq
<1>6. Becomes(x) /\ did' = <<"pop to", i>> /\ inC
  BY <1>3 DEF popLocal
<1>7. Overlaid(x, i, 1, w) /\ x.top = b + (n - 1)
  <2> PICK f : f = b + i
    OBVIOUS
  <2> PICK k \in Nat : k = 1
    OBVIOUS
  <2>1. SInv /\ b = begin(th) /\ n = size(th) /\ IsPut(x, i, w, k)
    BY DEF IsPut
  <2>2. k <= size(th)
    BY <1>0
  <2>3. Overlaid(x, i, Len(w), w) /\ x.top = begin(th) + (size(th) - k)
    <3>1. i \in Nat /\ w \in Seq(Stored) /\ inC
      BY <1>0, <1>c, <1>4
    <3> QED
      BY ONLY <3>1, <2>1, <2>2, k \in Nat, Overlays
  <2> QED
    BY ONLY <1>4, <2>1, <2>3, k = 1
<1>9. Overlay(q, i, 1, w)
  <2> SUFFICES ASSUME NEW j \in 1 .. n - 1
               PROVE  q[j] = IF i < j /\ j <= i + 1 THEN w[j - i] ELSE th.stack[b + j - 1]
    BY <1>5 DEF Overlay
  <2>1. j \in 1 .. n /\ ((i < j /\ j <= i + 1) <=> j = i + 1) /\ (j = i + 1 => j - i = 1)
    BY ONLY <1>0, n \in Nat, j \in 1 .. n - 1
  <2> QED
    BY ONLY <1>1, <1>2, <1>4, <1>5, <2>1, j \in 1 .. n - 1
<1>10. SubSeq(framesOf(th), 1, Len(th.calls))' = Promise!Now(q)
  <2>1. SInv /\ SInv' /\ 1 \in Nat
    OBVIOUS
  <2>2. x.top = begin(th) + Len(q)
    BY ONLY <1>5, <1>7, b = begin(th)
  <2> QED
    BY ONLY <1>0, <1>6, <1>7, <1>9, <2>1, <2>2, ChangedStep
<1>11. Promise!Locals = L
  BY MapLocals
<1>12. Promise!ReplaceAt(Promise!Front(L), i + 1, Promise!Last(L)) = q
  <2>1. Promise!Front(L) = F /\ Promise!Last(L) = e
    BY <1>3 DEF Promise!Front, Front, Promise!Last, Last
  <2> QED
    BY <2>1 DEF Promise!ReplaceAt
<1>13. Promise!PopTo(i)
  BY <1>6, <1>10, <1>11, <1>12 DEF Promise!PopTo
<1> QED
  BY <1>0, <1>1, <1>11, <1>13

\* What an operation leaves is in use, and no more than MaxLive.
LEMMA Lives ==
  ASSUME SInv', NEW x \in Thread, Becomes(x)
  PROVE  begin(x) + size(x) <= MaxLive /\ Len(x.calls) <= MaxFrames
BY DEF Becomes

LEMMA SomeAre == Promise!Some = 0 .. greater(MaxLive, MaxWant) /\ greater(MaxLive, MaxWant) \in Nat
                 /\ MaxLive <= greater(MaxLive, MaxWant) /\ MaxWant <= greater(MaxLive, MaxWant)
BY Sizes DEF Promise!Some, greater

\* The last values dropped, or nulls above them.
LEMMA ResizeStep ==
  ASSUME SInv, SInv', inC, NEW x, Becomes(x), NEW n \in Nat, x.top = begin(th) + n,
         Overlaid(x, size(th), greater(n - size(th), 0), nulls(n - size(th)))
  PROVE  SubSeq(framesOf(th), 1, Len(th.calls))' = Promise!Now(Promise!Padded(Promise!Locals, n))
<1> PICK m \in Nat : m = size(th)
  BY Here
<1> PICK L : L = values(th)
  OBVIOUS
<1> PICK k \in Nat : k = greater(n - m, 0)
  BY DEF greater
<1> PICK w : w = nulls(n - m)
  OBVIOUS
<1> PICK q : q = Promise!Padded(L, n)
  OBVIOUS
<1>1. L \in Seq(Stored) /\ Len(L) = m /\ \A j \in 1 .. m : L[j] = th.stack[begin(th) + j - 1]
  BY Here
<1>2. q \in Seq(Stored) /\ Len(q) = n /\ \A j \in 1 .. n : q[j] = IF j <= Len(L) THEN L[j] ELSE Null
  <2>1. Null \in Stored
    BY DEF Stored
  <2> QED
    BY ONLY <1>1, <2>1, n \in Nat, q = Promise!Padded(L, n), PaddedIs
<1>3. \A j \in 1 .. k : w[j] = Null
  BY DEF nulls
<1>4. Overlay(q, m, k, w)
  <2> SUFFICES ASSUME NEW j \in 1 .. n PROVE q[j] = IF m < j /\ j <= m + k THEN w[j - m] ELSE th.stack[begin(th) + j - 1]
    BY <1>2 DEF Overlay
  <2>1. CASE j <= m
    <3>1. ~(m < j) /\ j \in 1 .. m
      BY <2>1
    <3> QED
      BY ONLY <1>1, <1>2, <2>1, <3>1, j \in 1 .. n
  <2>2. CASE ~(j <= m)
    <3>1. m < j /\ j <= m + k /\ j - m \in 1 .. k
      BY ONLY <2>2, k = greater(n - m, 0), m \in Nat, n \in Nat, j \in 1 .. n DEF greater
    <3> QED
      BY ONLY <1>1, <1>2, <1>3, <2>2, <3>1, j \in 1 .. n
  <2> QED
    BY <2>1, <2>2
<1>5. Overlaid(x, m, k, w)
  OBVIOUS
<1>6. x.top = begin(th) + Len(q)
  BY <1>2
<1>7. SubSeq(framesOf(th), 1, Len(th.calls))' = Promise!Now(q)
  <2>1. SInv /\ SInv' /\ inC /\ Becomes(x)
    OBVIOUS
  <2> QED
    BY ONLY <1>4, <1>5, <1>6, <2>1, m \in Nat, k \in Nat, ChangedStep
<1>8. Promise!Locals = L
  BY MapLocals
<1> QED
  BY <1>7, <1>8

LEMMA setTopMap ==
  ASSUME SInv, SInv', NEW n \in 0 .. MaxLive, setTop(n)
  PROVE  Promise!Resize(n) /\ n \in Promise!Some
<1> PICK b \in Nat : b = begin(th)
  BY Here
<1> PICK m \in Nat : m = size(th)
  BY Here
<1> PICK w : w = nulls(n - m)
  OBVIOUS
<1> PICK t : t = pushed(th, w)
  OBVIOUS
<1> PICK x : x = [t EXCEPT !.top = b + n]
  OBVIOUS
<1>1. n \in Nat /\ n - m \in Int /\ b + n \in Nat
  OBVIOUS
<1>2. inC /\ Becomes(x) /\ did' = <<"resize", n>>
  BY DEF setTop
<1>3. w \in Seq(Stored) /\ Len(w) = greater(n - m, 0)
  BY <1>1, nullsOK
<1>4. /\ t \in Thread /\ t.calls = th.calls /\ Same(th, t, begin(th))
      /\ \A p \in Nat : p <= STACK_MAXSIZE =>
             t.stack[p] = IF th.top <= p /\ p < th.top + Len(w) THEN w[p - th.top + 1] ELSE th.stack[p]
  BY <1>2, <1>3, Extended
<1>5. x \in Thread /\ x.calls = th.calls /\ x.stack = t.stack /\ x.top = b + n
  BY <1>1, <1>4 DEF Thread
<1>6. Overlaid(x, m, greater(n - m, 0), w)
  <2>1. Same(th, x, begin(th))
    BY <1>4, <1>5 DEF Same
  <2>2. th.top = begin(th) + m
    BY <1>2, Here
  <2> QED
    BY <1>3, <1>4, <1>5, <2>1, <2>2 DEF Overlaid
<1>7. SubSeq(framesOf(th), 1, Len(th.calls))' = Promise!Now(Promise!Padded(Promise!Locals, n))
  BY <1>1, <1>2, <1>5, <1>6, ResizeStep
<1>8. n \in Promise!Some
  BY <1>1, SomeAre, Sizes
<1> QED
  BY <1>2, <1>7, <1>8 DEF Promise!Resize

LEMMA dropTopMap ==
  ASSUME SInv, SInv', NEW i \in Index, dropTop(i + 1)
  PROVE  \E n \in Promise!Some : Promise!Resize(n)
<1> PICK b \in Nat : b = begin(th)
  BY Here
<1> PICK m \in Nat : m = size(th)
  BY Here
<1> PICK k \in Nat : k = i + 1
  BY DEF Index
<1> PICK x : x = popped(th, k)
  OBVIOUS
<1>0. k <= m
  BY DEF Index
<1> PICK n \in Nat : n = m - k
  BY <1>0
<1>1. inC /\ Becomes(x) /\ did' = <<"resize", n>>
  BY DEF dropTop
<1>2. x \in Thread /\ x.calls = th.calls /\ x.top = begin(th) + (size(th) - k) /\ x.stack = th.stack
  BY <1>0, <1>1, Dropped
<1>3. x.top = begin(th) + n /\ greater(n - m, 0) = 0
  BY <1>2 DEF greater
<1>4. Overlaid(x, m, 0, nulls(n - m))
  BY <1>2, Unstored
<1>5. SubSeq(framesOf(th), 1, Len(th.calls))' = Promise!Now(Promise!Padded(Promise!Locals, n))
  BY <1>1, <1>2, <1>3, <1>4, ResizeStep
<1>6. n <= MaxLive
  <2>1. begin(x) + size(x) <= MaxLive
    BY <1>1, <1>2, Lives
  <2>2. begin(x) = b /\ size(x) = n
    BY <1>1, <1>2, <1>3 DEF begin, size, ci, inC
  <2> QED
    BY <2>1, <2>2, Sizes
<1>7. n \in Promise!Some
  BY <1>6, SomeAre, Sizes
<1> QED
  BY <1>1, <1>5, <1>7 DEF Promise!Resize

\* Two sequences with the same elements.
LEMMA SeqsEqual ==
  ASSUME NEW S, NEW s \in Seq(S), NEW T, NEW r \in Seq(T), Len(r) = Len(s), \A j \in 1 .. Len(s) : r[j] = s[j]
  PROVE  r = s
<1>1. s = [j \in 1 .. Len(s) |-> s[j]] /\ r = [j \in 1 .. Len(r) |-> r[j]]
  OBVIOUS
<1> QED
  BY <1>1

\* Room makes no difference to what there is.
LEMMA MoreLocal ==
  ASSUME NEW t \in Thread, Len(t.calls) >= 1, t.size <= STACK_MAXSIZE, t.top <= limit(t), ci(t).end <= limit(t),
         NEW n \in Nat, NEW u, u = needMoreLocal(t, n)
  PROVE  /\ u \in Thread /\ u.stack = t.stack /\ u.top = t.top
         /\ Len(u.calls) = Len(t.calls) /\ \A i \in 1 .. Len(t.calls) - 1 : u.calls[i] = t.calls[i]
         /\ SameCall(ci(t), ci(u)) /\ ci(u).retTo = ci(t).retTo /\ ci(u).used = ci(t).used /\ begin(u) = begin(t)
<1>1. /\ u \in Thread /\ u.stack = t.stack /\ u.top = t.top
      /\ Len(u.calls) = Len(t.calls) /\ \A i \in 1 .. Len(t.calls) - 1 : u.calls[i] = t.calls[i]
      /\ \E e \in Nat : Laid(ci(t), ci(u), begin(t), e)
  BY needMoreLocalOK
<1>2. PICK e \in Nat : Laid(ci(t), ci(u), begin(t), e)
  BY <1>1
<1>3. SameCall(ci(t), ci(u)) /\ ci(u).retTo = ci(t).retTo /\ ci(u).used = ci(t).used /\ begin(u) = begin(t)
  BY <1>2 DEF Laid, SameCall, begin
<1> QED
  BY <1>1, <1>3

LEMMA NeedMoreLocalMap ==
  ASSUME SInv, SInv', NeedMoreLocal
  PROVE  \E n \in Promise!Some : Promise!Resize(n)
<1> PICK b \in Nat : b = begin(th)
  BY Here
<1> PICK n \in Nat : n = size(th)
  BY Here
<1> PICK L : L = values(th)
  OBVIOUS
<1> PICK k : k = MaxLive - th.top
  OBVIOUS
<1> PICK x : x = needMoreLocal(th, k)
  OBVIOUS
<1>1. inC /\ th.top < MaxLive /\ did' = <<"resize", n>> /\ Becomes(x)
  BY DEF NeedMoreLocal
<1>2. th.top = b + n /\ L \in Seq(Stored) /\ Len(L) = n
  BY <1>1, Here
<1>3. k \in Nat /\ n <= MaxLive
  BY <1>1, <1>2, Sizes
<1>4. /\ x \in Thread /\ x.stack = th.stack /\ x.top = th.top
      /\ Len(x.calls) = Len(th.calls) /\ \A i \in 1 .. Len(th.calls) - 1 : x.calls[i] = th.calls[i]
      /\ SameCall(ci(th), ci(x)) /\ ci(x).retTo = ci(th).retTo /\ ci(x).used = ci(th).used /\ begin(x) = begin(th)
  <2>1. th \in Thread /\ Len(th.calls) >= 1 /\ th.size <= STACK_MAXSIZE /\ th.top <= limit(th) /\ ci(th).end <= limit(th)
    <3>1. Fits(th)
      BY Here
    <3> QED
      BY <3>1, FitsTypes, Now
  <2> QED
    BY <1>3, <2>1, MoreLocal
<1>5. values(x) = L
  <2>1. size(x) = n
    BY <1>1, <1>4 DEF size, isByte, SameCall, inC
  <2> QED
    BY <1>4, <2>1 DEF values, slots
<1>6. SubSeq(framesOf(th), 1, Len(th.calls))' = Promise!Now(L)
  <2>1. Same(th, x, begin(th))
    BY <1>4 DEF Same
  <2> QED
    BY <1>1, <1>4, <1>5, <2>1, LocalStep
<1>7. Promise!Padded(L, n) = L
  <2> PICK q : q = Promise!Padded(L, n)
    OBVIOUS
  <2>1. Null \in Stored
    BY DEF Stored
  <2>2. q \in Seq(Stored) /\ Len(q) = n /\ \A j \in 1 .. n : q[j] = IF j <= Len(L) THEN L[j] ELSE Null
    BY ONLY <1>2, <2>1, n \in Nat, q = Promise!Padded(L, n), PaddedIs
  <2>3. \A j \in 1 .. Len(L) : q[j] = L[j]
    BY <1>2, <2>2
  <2>4. Len(q) = Len(L)
    BY <1>2, <2>2
  <2> QED
    BY ONLY <1>2, <2>2, <2>3, <2>4, q = Promise!Padded(L, n), SeqsEqual
<1>8. Promise!Locals = L
  BY MapLocals
<1>9. n \in Promise!Some
  BY <1>3, SomeAre, Sizes
<1> QED
  BY <1>1, <1>6, <1>7, <1>8, <1>9 DEF Promise!Resize

\* The last k values, as slots.
LEMMA FinalSlots ==
  ASSUME SInv, NEW k \in Nat, k <= size(th), NEW to, to = begin(th) + size(th), NEW from, from = to - k
  PROVE  slots(th, from, to) = Promise!Final(values(th), k)
<1> PICK b \in Nat : b = begin(th)
  BY Here
<1> PICK n \in Nat : n = size(th)
  BY Here
<1> PICK L : L = values(th)
  OBVIOUS
<1> PICK s : s = slots(th, from, to)
  OBVIOUS
<1> PICK q : q = Promise!Final(L, k)
  OBVIOUS
<1>1. L \in Seq(Stored) /\ Len(L) = n /\ b + n < STACK_MAXSIZE /\ \A j \in 1 .. n : L[j] = th.stack[b + j - 1]
  BY Here
<1>2. from \in Nat /\ to \in Nat /\ from <= to /\ to <= STACK_MAXSIZE /\ to - from = k /\ to = b + n /\ from = b + n - k /\ k <= n
  <2>1. b + n < STACK_MAXSIZE /\ to = b + n /\ from = to - k /\ k <= n
    BY <1>1
  <2> QED
    BY ONLY <2>1, b \in Nat, n \in Nat, k \in Nat, Sizes
<1>3. s \in Seq(Stored) /\ Len(s) = k /\ \A j \in 1 .. k : s[j] = th.stack[from + j - 1]
  <2>1. /\ slots(th, from, to) \in Seq(Stored) /\ Len(slots(th, from, to)) = to - from
        /\ \A j \in 1 .. to - from : slots(th, from, to)[j] = th.stack[from + j - 1]
    BY <1>2, SlotsAre
  <2> QED
    BY <1>2, <2>1
<1>4. q \in Seq(Stored) /\ Len(q) = k /\ \A j \in 1 .. k : q[j] = L[n - k + j]
  <2>1. k \in 0 .. n /\ n = Len(L)
    BY <1>1
  <2> QED
    BY ONLY SMTT(30), ZenonT(30), <1>1, <2>1, n \in Nat, q = Promise!Final(L, k), FinalIs
<1>5. \A j \in 1 .. Len(s) : q[j] = s[j]
  <2> SUFFICES ASSUME NEW j \in 1 .. k PROVE q[j] = s[j]
    BY <1>3
  <2>1. n - k + j \in 1 .. n /\ b + (n - k + j) - 1 = from + j - 1
    BY ONLY <1>2, k \in Nat, n \in Nat, b \in Nat, j \in 1 .. k
  <2> QED
    BY ONLY <1>1, <1>3, <1>4, <2>1, j \in 1 .. k
<1>6. Len(q) = Len(s)
  BY <1>3, <1>4
<1> QED
  BY ONLY <1>3, <1>4, <1>5, <1>6, s = slots(th, from, to), q = Promise!Final(L, k), L = values(th), SeqsEqual

LEMMA pushClosureMap ==
  ASSUME SInv, SInv', NEW i \in Index, pushClosure(i + 1)
  PROVE  Promise!Closure(i + 1)
<1> PICK b \in Nat : b = begin(th)
  BY Here
<1> PICK n \in Nat : n = size(th)
  BY Here
<1> PICK L : L = values(th)
  OBVIOUS
<1> PICK k \in Nat : k = i + 1
  BY DEF Index
<1> PICK d : d = n - k
  OBVIOUS
<1> PICK from : from = th.top - k
  OBVIOUS
<1> PICK w : w = <<"closure">>
  OBVIOUS
<1> PICK x : x = popped(put(th, from, w), k - 1)
  OBVIOUS
<1> PICK r : r = Promise!Without(L, k)
  OBVIOUS
<1> PICK q : q = Append(r, "closure")
  OBVIOUS
<1>1. inC /\ k \in 2 .. n /\ did' = <<"closure", slots(th, from, th.top)>> /\ Becomes(x)
  BY DEF pushClosure
<1>2. th.top = b + n /\ L \in Seq(Stored) /\ Len(L) = n /\ \A j \in 1 .. n : L[j] = th.stack[b + j - 1]
  <2>1. th.top = b + n
    BY <1>1, Here
  <2>2. L \in Seq(Stored) /\ Len(L) = n /\ \A j \in 1 .. n : L[j] = th.stack[b + j - 1]
    <3>1. SInv /\ L = values(th) /\ n = size(th) /\ b = begin(th)
      OBVIOUS
    <3>2. Len(L) = n
      BY ONLY <3>1, n \in Nat, b \in Nat, MapLocals
    <3> QED
      BY ONLY <3>1, <3>2, Here
  <2> QED
    BY <2>1, <2>2
<1>3. d \in Nat /\ from = b + d /\ k - 1 \in Nat /\ k - 1 <= n /\ k <= n /\ k \in 0 .. n /\ n - (k - 1) = d + 1
  BY ONLY <1>1, <1>2, d = n - k, from = th.top - k, b \in Nat, n \in Nat, k \in Nat
<1>4. "closure" \in Stored
  BY DEF Stored, Callable
<1>5. w \in Seq(Stored) /\ Len(w) = 1 /\ w[1] = "closure"
  BY <1>4, OneValue
<1>6. r \in Seq(Stored) /\ Len(r) = d /\ \A j \in 1 .. d : r[j] = L[j]
  <2>1. n = Len(L)
    BY <1>2
  <2> QED
    <3>1. /\ Promise!Without(L, k) \in Seq(Stored) /\ Len(Promise!Without(L, k)) = n - k
          /\ \A j \in 1 .. n - k : Promise!Without(L, k)[j] = L[j]
      BY ONLY <1>2, <1>3, <2>1, n \in Nat, WithoutIs
    <3> QED
      BY ONLY <3>1, d = n - k, r = Promise!Without(L, k)
<1>7. q \in Seq(Stored) /\ Len(q) = d + 1 /\ q[d + 1] = "closure" /\ \A j \in 1 .. d : q[j] = r[j]
  BY ONLY <1>3, <1>4, <1>6, q = Append(r, "closure"), AppendProperties
<1>8. Overlaid(x, d, 1, w) /\ x.top = begin(th) + Len(q)
  <2> PICK z \in Nat : z = k - 1
    BY <1>3
  <2>1. IsPut(x, d, w, z)
    BY <1>3 DEF IsPut
  <2>2. SInv /\ inC /\ z <= size(th)
    BY <1>1, <1>3
  <2>3. Overlaid(x, d, Len(w), w) /\ x.top = begin(th) + (size(th) - z)
    BY ONLY <1>3, <1>5, <2>1, <2>2, z \in Nat, Overlays
  <2> QED
    BY ONLY <1>3, <1>5, <1>7, <2>3, z = k - 1, n = size(th)
<1>9. Overlay(q, d, 1, w)
  <2> SUFFICES ASSUME NEW j \in 1 .. d + 1 PROVE q[j] = IF d < j /\ j <= d + 1 THEN w[j - d] ELSE th.stack[b + j - 1]
    BY <1>7 DEF Overlay
  <2>1. CASE j = d + 1
    <3>1. d < j /\ j <= d + 1 /\ j - d = 1
      BY ONLY <1>3, <2>1
    <3> QED
      BY ONLY <1>5, <1>7, <2>1, <3>1
  <2>2. CASE j \in 1 .. d
    <3>1. ~(d < j) /\ j \in 1 .. n
      BY ONLY <1>3, <2>2, n \in Nat, k \in Nat, d = n - k
    <3> QED
      BY ONLY <1>2, <1>6, <1>7, <2>2, <3>1
  <2> QED
    BY ONLY <1>3, <2>1, <2>2, j \in 1 .. d + 1
<1>10. SubSeq(framesOf(th), 1, Len(th.calls))' = Promise!Now(q)
  <2>1. SInv /\ SInv' /\ 1 \in Nat
    OBVIOUS
  <2> QED
    BY ONLY <1>1, <1>3, <1>8, <1>9, <2>1, ChangedStep
<1>11. Promise!Locals = L
  BY MapLocals
<1>12. slots(th, from, th.top) = Promise!Final(L, k)
  <2>1. th.top = begin(th) + size(th)
    BY <1>2
  <2> QED
    BY <1>3, <2>1, FinalSlots
<1> QED
  BY <1>1, <1>10, <1>11, <1>12 DEF Promise!Closure

\* Byte code takes values into the registers behind those in use. z is the thread, perhaps with more room.
GrownBy(x, z, vals) == x = Grown(put(z, begin(th) + size(th), vals), Len(vals))
LikeNow(z) ==
  /\ z \in Thread /\ z.stack = th.stack /\ Len(z.calls) = Len(th.calls)
  /\ \A i \in 1 .. Len(th.calls) - 1 : z.calls[i] = th.calls[i]
  /\ SameCall(ci(th), ci(z)) /\ ci(z).retTo = ci(th).retTo /\ ci(z).used = ci(th).used

LEMMA GrownStep ==
  ASSUME SInv, SInv', inBC, NEW z, LikeNow(z), NEW vals \in Seq(Stored), NEW x, GrownBy(x, z, vals), Becomes(x)
  PROVE  SubSeq(framesOf(th), 1, Len(th.calls))' = Promise!Now(values(th) \o vals)
<1> PICK b \in Nat : b = begin(th)
  BY Here
<1> PICK n \in Nat : n = size(th)
  BY Here
<1> PICK k \in Nat : k = Len(vals)
  BY LenProperties
<1> PICK f \in Nat : f = b + n
  OBVIOUS
<1> PICK L : L = values(th)
  OBVIOUS
<1> PICK y : y = put(z, f, vals)
  OBVIOUS
<1> PICK q : q = L \o vals
  OBVIOUS
<1>1. /\ z \in Thread /\ z.stack = th.stack /\ Len(z.calls) = Len(th.calls)
      /\ \A i \in 1 .. Len(th.calls) - 1 : z.calls[i] = th.calls[i]
      /\ SameCall(ci(th), ci(z)) /\ ci(z).retTo = ci(th).retTo /\ ci(z).used = ci(th).used
  BY DEF LikeNow
<1>2. L \in Seq(Stored) /\ Len(L) = n /\ \A j \in 1 .. n : L[j] = th.stack[b + j - 1]
  <2>1. SInv /\ L = values(th) /\ n = size(th) /\ b = begin(th)
    OBVIOUS
  <2>2. Len(L) = n
    BY ONLY <2>1, n \in Nat, b \in Nat, MapLocals
  <2> QED
    BY ONLY <2>1, <2>2, Here
<1>3. /\ q \in Seq(Stored) /\ Len(q) = n + k
      /\ \A j \in 1 .. n + k : q[j] = IF j <= n THEN L[j] ELSE vals[j - n]
  BY ONLY <1>2, vals \in Seq(Stored), k = Len(vals), q = L \o vals, ConcatProperties
<1>4. /\ y \in Thread /\ y.calls = z.calls
      /\ \A p \in Nat : p <= STACK_MAXSIZE =>
              y.stack[p] = IF f <= p /\ p < f + k THEN vals[p - f + 1] ELSE th.stack[p]
  <2>1. y \in Thread /\ y.calls = z.calls
    BY <1>1, putOK
  <2>2. \A p \in Nat : p <= STACK_MAXSIZE =>
              y.stack[p] = IF f <= p /\ p < f + k THEN vals[p - f + 1] ELSE z.stack[p]
    <3> SUFFICES ASSUME NEW p \in Nat, p <= STACK_MAXSIZE
                 PROVE  y.stack[p] = IF f <= p /\ p < f + k THEN vals[p - f + 1] ELSE z.stack[p]
      OBVIOUS
    <3>1. put(z, f, vals).stack[p] = IF f <= p /\ p < f + Len(vals) THEN vals[p - f + 1] ELSE z.stack[p]
      BY ONLY <1>1, f \in Nat, vals \in Seq(Stored), p \in Nat, p <= STACK_MAXSIZE, putAt
    <3> QED
      BY ONLY <3>1, y = put(z, f, vals), k = Len(vals)
  <2> QED
    BY <1>1, <2>1, <2>2
<1>5. Len(y.calls) \in Nat /\ Len(y.calls) >= 1 /\ Len(y.calls) = Len(th.calls) /\ ci(y) = ci(z) /\ ci(y) \in CallInfo
  <2>1. Len(th.calls) >= 1
    BY Now
  <2>2. Len(y.calls) \in Nat /\ Len(y.calls) = Len(th.calls)
    BY <1>1, <1>4, callsOK
  <2> QED
    BY <1>4, <2>1, <2>2, callsOK DEF ci
<1> PICK c \in CallInfo : c = ci(y)
  BY <1>5
<1>6. c.used = n /\ n \in Nat
  <2>1. size(th) = ci(th).used
    BY Now
  <2> QED
    BY <1>1, <1>5, <2>1
<1> PICK m \in Nat : m = n + k
  OBVIOUS
<1> PICK d \in CallInfo : d = [c EXCEPT !.used = m]
  BY DEF CallInfo
<1>7. SameCall(c, d) /\ d.retTo = c.retTo /\ d.used = m /\ d.begin = c.begin /\ d.run = c.run
  BY DEF CallInfo, SameCall
<1>8. x = current(y, d)
  <2>1. x = Grown(y, k)
    BY DEF GrownBy
  <2>2. Grown(y, k) = current(y, [c EXCEPT !.used = c.used + k])
    BY DEF Grown
  <2> QED
    BY <1>6, <2>1, <2>2
<1>9. /\ x \in Thread /\ x.stack = y.stack /\ Len(x.calls) = Len(y.calls) /\ ci(x) = d
      /\ \A i \in 1 .. Len(y.calls) - 1 : x.calls[i] = y.calls[i]
  BY ONLY <1>4, <1>5, <1>8, d \in CallInfo, currentOK
<1>10. SameCall(ci(th), ci(x)) /\ ci(x).retTo = ci(th).retTo /\ begin(x) = b /\ size(x) = m
  <2>1. SameCall(ci(th), d) /\ d.retTo = ci(th).retTo
    BY <1>1, <1>5, <1>7 DEF SameCall
  <2>2. begin(x) = b
    BY <1>9, <2>1 DEF begin, SameCall
  <2>3. isByte(d)
    BY <2>1 DEF SameCall, isByte, inBC
  <2> QED
    BY <1>7, <1>9, <2>1, <2>2, <2>3 DEF size
<1>11. f + k <= STACK_MAXSIZE
  <2>1. begin(th') = begin(x) /\ size(th') = size(x)
    BY <1>9, Became
  <2>2. Fits(th')
    BY DEF SInv
  <2>3. begin(th') + size(th') <= limit(th') /\ limit(th') < STACK_MAXSIZE /\ limit(th') \in Int
    BY <2>2, Area
  <2>4. b + m = f + k
    OBVIOUS
  <2>5. begin(th') + size(th') = f + k
    BY <1>10, <2>1, <2>4
  <2>6. f + k \in Nat
    OBVIOUS
  <2> QED
    BY ONLY <2>3, <2>5, <2>6, Sizes
<1>12. \A j \in 1 .. m : x.stack[b + j - 1] = q[j]
  <2> SUFFICES ASSUME NEW j \in 1 .. m PROVE x.stack[b + j - 1] = q[j]
    OBVIOUS
  <2> PICK p \in Nat : p = b + j - 1
    OBVIOUS
  <2>0. j \in 1 .. n + k
    OBVIOUS
  <2>1. p <= STACK_MAXSIZE
    BY ONLY <1>11, p = b + j - 1, p \in Nat, f = b + n, b \in Nat, n \in Nat, k \in Nat, <2>0, Sizes
  <2>2. CASE j <= n
    <3>1. ~(f <= p) /\ j \in 1 .. n
      BY ONLY <2>0, <2>2, p = b + j - 1, f = b + n, b \in Nat, n \in Nat, k \in Nat
    <3>2. y.stack[p] = th.stack[p]
      BY ONLY <1>4, <2>1, <3>1, p \in Nat
    <3> QED
      BY ONLY <1>2, <1>3, <1>9, <2>0, <2>2, <3>1, <3>2, p = b + j - 1
  <2>3. CASE ~(j <= n)
    <3>1. f <= p /\ p < f + k /\ p - f + 1 = j - n
      BY ONLY <2>0, <2>3, p = b + j - 1, f = b + n, b \in Nat, n \in Nat, k \in Nat
    <3>2. y.stack[p] = vals[j - n]
      BY ONLY <1>4, <2>1, <3>1, p \in Nat
    <3> QED
      BY ONLY <1>3, <1>9, <2>0, <2>3, <3>2, p = b + j - 1
  <2> QED
    BY <2>2, <2>3
<1>13. values(x) = q
  <2>1. b = begin(x) /\ size(x) = Len(q) /\ \A j \in 1 .. Len(q) : x.stack[b + j - 1] = q[j]
    BY <1>3, <1>10, <1>12
  <2> QED
    BY ONLY <1>3, <2>1, b \in Nat, ValuesAre
<1>14. Same(th, x, begin(th))
  <2> SUFFICES ASSUME NEW p \in Nat, p < b PROVE x.stack[p] = th.stack[p]
    BY DEF Same
  <2>1. p <= STACK_MAXSIZE /\ ~(f <= p)
    BY ONLY <1>11, p \in Nat, p < b, f = b + n, b \in Nat, n \in Nat, k \in Nat, Sizes
  <2> QED
    BY <1>4, <1>9, <2>1
<1>15. SubSeq(framesOf(th), 1, Len(th.calls))' = Promise!Now(values(x))
  <2>1. Len(x.calls) = Len(th.calls) /\ \A i \in 1 .. Len(th.calls) - 1 : x.calls[i] = th.calls[i]
    BY ONLY <1>1, <1>4, <1>5, <1>9
  <2>2. SInv /\ SInv' /\ Becomes(x)
    OBVIOUS
  <2> QED
    BY ONLY <1>9, <1>10, <1>14, <2>1, <2>2, LocalStep
<1> QED
  BY <1>13, <1>15

LEMMA LikeItself == SInv => LikeNow(th)
<1> SUFFICES ASSUME SInv PROVE LikeNow(th)
  OBVIOUS
<1>1. th \in Thread
  BY Here
<1> QED
  BY <1>1 DEF LikeNow, SameCall

LEMMA LoadMap ==
  ASSUME SInv, SInv', NEW v \in Value, Load(v)
  PROVE  Promise!Push(v)
<1> PICK w : w = <<v>>
  OBVIOUS
<1> PICK x : x = Grown(put(th, begin(th) + size(th), w), 1)
  OBVIOUS
<1> PICK L : L = values(th)
  OBVIOUS
<1>1. inBC /\ did' = <<"push", v>> /\ Becomes(x)
  BY DEF Load
<1>2. v \in Stored
  BY DEF Stored
<1>3. w \in Seq(Stored) /\ Len(w) = 1 /\ w[1] = v
  BY <1>2, OneValue
<1>4. GrownBy(x, th, w)
  BY <1>3 DEF GrownBy
<1>5. SubSeq(framesOf(th), 1, Len(th.calls))' = Promise!Now(L \o w)
  BY <1>1, <1>3, <1>4, LikeItself, GrownStep
<1>6. L \o w = Append(L, v)
  <2>1. L \in Seq(Stored)
    BY Here
  <2> PICK q : q = L \o w
    OBVIOUS
  <2> PICK r : r = Append(L, v)
    OBVIOUS
  <2> PICK n \in Nat : n = Len(L)
    BY <2>1, LenProperties
  <2>2. q \in Seq(Stored) /\ Len(q) = n + 1 /\ \A j \in 1 .. n + 1 : q[j] = IF j <= n THEN L[j] ELSE w[j - n]
    BY ONLY SMTT(30), ZenonT(30), <1>3, <2>1, n = Len(L), q = L \o w, ConcatProperties
  <2>3. r \in Seq(Stored) /\ Len(r) = n + 1 /\ r[n + 1] = v /\ \A j \in 1 .. n : r[j] = L[j]
    BY ONLY <1>2, <2>1, n = Len(L), r = Append(L, v), AppendProperties
  <2>4. \A j \in 1 .. Len(q) : r[j] = q[j]
    <3> SUFFICES ASSUME NEW j \in 1 .. n + 1 PROVE r[j] = q[j]
      BY <2>2
    <3>1. CASE j = n + 1
      <4>1. ~(j <= n) /\ j - n = 1
        BY ONLY <3>1, n \in Nat
      <4> QED
        BY ONLY <1>3, <2>2, <2>3, <3>1, <4>1, j \in 1 .. n + 1
    <3>2. CASE j \in 1 .. n
      <4>1. j <= n
        BY <3>2
      <4> QED
        BY ONLY <2>2, <2>3, <3>2, <4>1, j \in 1 .. n + 1
    <3> QED
      BY ONLY <3>1, <3>2, n \in Nat, j \in 1 .. n + 1
  <2>5. Len(r) = Len(q)
    BY ONLY <2>2, <2>3
  <2>6. r = q
    BY ONLY <2>2, <2>3, <2>4, <2>5, SeqsEqual
  <2> QED
    BY <2>6
<1>7. Promise!Locals = L
  BY MapLocals
<1> QED
  BY <1>1, <1>5, <1>6, <1>7 DEF Promise!Push

\* Byte code with variable parameters has them below its values.
LEMMA OthersAre ==
  ASSUME SInv, inBC, isVarParm(ci(th).run), NEW nbrvar, nbrvar = begin(th) - ci(th).base - NParms - 1
  PROVE  /\ nbrvar \in Nat /\ Promise!Last(SubSeq(framesOf(th), 1, Len(th.calls))).rest = slots(th, begin(th) - nbrvar, begin(th))
         /\ slots(th, begin(th) - nbrvar, begin(th)) \in Seq(Stored)
         /\ Len(slots(th, begin(th) - nbrvar, begin(th))) = nbrvar
<1> PICK b \in Nat : b = begin(th)
  BY Here
<1>1. ci(th).run = "v" /\ ci(th).base \in Nat /\ b > ci(th).base + NParms
  <2>1. ci(th).run = "v"
    BY DEF inBC, isVarParm, isByte
  <2>2. Len(th.calls) \in Nat /\ Len(th.calls) >= 1 /\ ci(th) \in CallInfo /\ begin(th) = ci(th).begin /\ FrameOK(th, ci(th))
    BY Now
  <2> QED
    BY <2>1, <2>2 DEF FrameOK, CallInfo, isByte
<1> PICK a \in Nat : a = ci(th).base
  BY <1>1
<1> PICK from : from = b - nbrvar
  OBVIOUS
<1>2. nbrvar \in Nat /\ from \in Nat /\ from <= b /\ b - from = nbrvar /\ from = a + 1 + NParms
  <2>1. nbrvar = b - a - NParms - 1 /\ b > a + NParms
    BY <1>1
  <2> QED
    BY ONLY <2>1, from = b - nbrvar, a \in Nat, b \in Nat, Sizes
<1>3. slots(th, from, b) \in Seq(Stored) /\ Len(slots(th, from, b)) = nbrvar
  <2>1. b <= STACK_MAXSIZE
    <3>1. b + size(th) < STACK_MAXSIZE /\ size(th) \in Nat
      BY Here
    <3> QED
      BY ONLY <3>1, b \in Nat, Sizes
  <2> QED
    BY <1>2, <2>1, SlotsAre
<1>4. Promise!Last(SubSeq(framesOf(th), 1, Len(th.calls))).rest = slots(th, from, b)
  <2>1. Promise!Last(SubSeq(framesOf(th), 1, Len(th.calls))) = framesOf(th)[Len(th.calls)]
    BY Running DEF Promise!Last
  <2>2. framesOf(th)[Len(th.calls)].rest = slots(th, a + 1 + NParms, b)
    BY <1>1, Running
  <2> QED
    BY <1>2, <2>1, <2>2
<1> QED
  BY <1>2, <1>3, <1>4

LEMMA OpLoadVarargMap ==
  ASSUME SInv, SInv', NEW n \in Wants \cup {BCVARRET}, OpLoadVararg(n)
  PROVE  Promise!Rest(n) /\ n \in Promise!Some \cup {BCVARRET}
<1> PICK nbrvar : nbrvar = begin(th) - ci(th).base - NParms - 1
  OBVIOUS
<1> PICK others : others = slots(th, begin(th) - nbrvar, begin(th))
  OBVIOUS
<1> PICK rega : rega = begin(th) + size(th)
  OBVIOUS
<1> PICK L : L = values(th)
  OBVIOUS
<1> PICK R : R = Promise!Last(SubSeq(framesOf(th), 1, Len(th.calls))).rest
  OBVIOUS
<1>1. inBC /\ isVarParm(ci(th).run) /\ did' = <<"rest", n>>
  BY DEF OpLoadVararg
<1>2. nbrvar \in Nat /\ R = others /\ others \in Seq(Stored) /\ Len(others) = nbrvar
  BY <1>1, OthersAre
<1>3. Promise!Locals = L
  BY MapLocals
<1>4. n \in Nat /\ n \in Promise!Some \cup {BCVARRET}
  <2>1. n \in {0, MaxWant, BCVARRET}
    BY <1>1 DEF Wants, inC, inBC
  <2> QED
    BY <2>1, SomeAre, Sizes
<1>5. CASE n = BCVARRET
  <2> PICK room : room = needMoreLocal(th, nbrvar)
    OBVIOUS
  <2> PICK z : z = [room EXCEPT !.top = rega + nbrvar]
    OBVIOUS
  <2> PICK x : x = Grown(put(z, rega, others), nbrvar)
    OBVIOUS
  <2>1. Becomes(x)
    BY <1>5 DEF OpLoadVararg
  <2>2. /\ room \in Thread /\ room.stack = th.stack
        /\ Len(room.calls) = Len(th.calls) /\ \A i \in 1 .. Len(th.calls) - 1 : room.calls[i] = th.calls[i]
        /\ SameCall(ci(th), ci(room)) /\ ci(room).retTo = ci(th).retTo /\ ci(room).used = ci(th).used
    <3>1. th \in Thread /\ Len(th.calls) >= 1 /\ th.size <= STACK_MAXSIZE /\ th.top <= limit(th) /\ ci(th).end <= limit(th)
      <4>1. Fits(th)
        BY Here
      <4> QED
        BY <4>1, FitsTypes, Now
    <3> QED
      BY ONLY <1>2, <3>1, room = needMoreLocal(th, nbrvar), MoreLocal
  <2>3. rega + nbrvar \in Nat
    BY <1>2, Here
  <2>4. LikeNow(z)
    <3>1. z \in Thread /\ z.stack = room.stack /\ z.calls = room.calls
      BY ONLY <2>2, <2>3, z = [room EXCEPT !.top = rega + nbrvar] DEF Thread
    <3>2. ci(z) = ci(room)
      BY <3>1 DEF ci
    <3> QED
      BY ONLY <2>2, <3>1, <3>2 DEF LikeNow
  <2>5. GrownBy(x, z, others)
    BY <1>2 DEF GrownBy
  <2>6. SubSeq(framesOf(th), 1, Len(th.calls))' = Promise!Now(values(th) \o others)
    <3>1. SInv /\ SInv'
      OBVIOUS
    <3> QED
      BY ONLY <1>1, <1>2, <2>1, <2>4, <2>5, <3>1, GrownStep
  <2>7. Promise!Wanted(R, n) = others
    BY <1>2, <1>5 DEF Promise!Wanted
  <2> QED
    BY <1>1, <1>3, <1>4, <2>6, <2>7 DEF Promise!Rest
<1>6. CASE n # BCVARRET
  <2> PICK some : some = [i \in 1 .. n |-> IF i <= nbrvar THEN others[i] ELSE Null]
    OBVIOUS
  <2> PICK x : x = Grown(put(th, rega, some), n)
    OBVIOUS
  <2>1. Becomes(x)
    BY <1>6 DEF OpLoadVararg
  <2>2. Promise!Wanted(R, n) = some
    BY <1>2, <1>6 DEF Promise!Wanted, Promise!Padded, Promise!Null, Null
  <2>3. some \in Seq(Stored) /\ Len(some) = n
    <3>1. Null \in Stored
      BY DEF Stored
    <3>2. some = Promise!Padded(others, n)
      BY <1>2 DEF Promise!Padded, Promise!Null, Null
    <3> QED
      BY ONLY <1>2, <1>4, <3>1, <3>2, PaddedIs
  <2>4. GrownBy(x, th, some)
    BY <2>3 DEF GrownBy
  <2>5. SubSeq(framesOf(th), 1, Len(th.calls))' = Promise!Now(values(th) \o some)
    <3>1. SInv /\ SInv' /\ LikeNow(th)
      BY LikeItself
    <3> QED
      BY ONLY <1>1, <2>1, <2>3, <2>4, <3>1, GrownStep
  <2> QED
    BY <1>1, <1>3, <1>4, <2>2, <2>5 DEF Promise!Rest
<1> QED
  BY <1>5, <1>6

------------------------------------------------------------------------------
(***************************************************************************)
(* Calls: what a called method finds.                                      *)
(***************************************************************************)
\* A frame in byte code can be laid out for n parameters.
CanLayByte(t, b, n) ==
  /\ t \in Thread /\ Len(t.calls) >= 1 /\ t.size <= STACK_MAXSIZE /\ t.top <= limit(t) /\ ci(t).end <= limit(t)
  /\ ~isFull(t, MaxStack) /\ b \in Nat /\ b = begin(t) /\ n \in Nat /\ t.top = b + n
  /\ ci(t).run \in {"b", "v"} /\ (ci(t).run = "v" => NParms <= n)

\* Missing parameters are null, and the fixed ones of a method with variable parameters are moved behind the others.
LEMMA FrameOfSlots ==
  ASSUME NEW t, NEW b, NEW n, CanLayByte(t, b, n), NEW u, u = frameOf(t, n)
  PROVE  /\ begin(u) = (IF ci(t).run = "v" THEN t.top ELSE b) /\ ci(u).used = NParms /\ t.top + NParms <= STACK_MAXSIZE
         /\ ci(t).run = "b" => \A p \in Nat : p <= STACK_MAXSIZE =>
              u.stack[p] = IF t.top <= p /\ p < t.top + greater(NParms - n, 0) THEN Null ELSE t.stack[p]
         /\ ci(t).run = "v" => \A p \in Nat : p <= STACK_MAXSIZE =>
              u.stack[p] = IF b <= p /\ p < b + NParms THEN Null
                           ELSE IF t.top <= p /\ p < t.top + NParms THEN t.stack[b + (p - t.top)] ELSE t.stack[p]
<1>0. /\ t \in Thread /\ Len(t.calls) >= 1 /\ t.size <= STACK_MAXSIZE /\ t.top <= limit(t) /\ ci(t).end <= limit(t)
      /\ ~isFull(t, MaxStack) /\ b \in Nat /\ b = begin(t) /\ n \in Nat /\ t.top = b + n
      /\ ci(t).run \in {"b", "v"} /\ (ci(t).run = "v" => NParms <= n)
  BY DEF CanLayByte
<1> PICK k \in Nat : k = NParms
  BY Sizes
<1> PICK top \in Nat : top = t.top
  BY <1>0 DEF Thread
<1>1. top + k <= STACK_MAXSIZE
  <2>1. t.top <= STACK_MAXSIZE - MaxStack - STACK_EXTRA
    BY <1>0, Sizes DEF isFull
  <2> QED
    BY ONLY <2>1, top = t.top, k = NParms, top \in Nat, k \in Nat, Sizes
<1> PICK room : room = needMoreLocal(t, MaxStack)
  OBVIOUS
<1>2. /\ room \in Thread /\ room.stack = t.stack /\ room.top = top
      /\ Len(room.calls) = Len(t.calls) /\ SameCall(ci(t), ci(room)) /\ begin(room) = b
  <2>1. MaxStack \in Nat
    BY Sizes
  <2>2. /\ room \in Thread /\ room.stack = t.stack /\ room.top = t.top
        /\ Len(room.calls) = Len(t.calls) /\ SameCall(ci(t), ci(room)) /\ begin(room) = begin(t)
    BY ONLY <1>0, <2>1, room = needMoreLocal(t, MaxStack), MoreLocal
  <2> QED
    BY <1>0, <2>2
<1> PICK gap \in Nat : gap = greater(k - n, 0)
  <2>1. n \in Nat
    BY <1>0
  <2>2. greater(k - n, 0) \in Nat
    BY ONLY <2>1, k \in Nat DEF greater
  <2> QED
    BY <2>2
<1> PICK none : none = nulls(k - n)
  OBVIOUS
<1>3. none \in Seq(Stored) /\ Len(none) = gap /\ \A j \in 1 .. gap : none[j] = Null
  <2>1. k - n \in Int
    BY <1>0
  <2>2. none \in Seq(Stored) /\ Len(none) = gap
    BY ONLY <2>1, none = nulls(k - n), gap = greater(k - n, 0), nullsOK
  <2> QED
    BY <2>2 DEF nulls
<1> PICK padded : padded = pushed(room, none)
  OBVIOUS
<1>4. /\ padded \in Thread /\ padded.top = top + gap /\ padded.calls = room.calls
      /\ \A p \in Nat : p <= STACK_MAXSIZE =>
           padded.stack[p] = IF top <= p /\ p < top + gap THEN Null ELSE t.stack[p]
  <2>1. padded \in Thread /\ padded.top = top + gap /\ padded.calls = room.calls
    BY <1>2, <1>3, pushedOK
  <2>2. ASSUME NEW p \in Nat, p <= STACK_MAXSIZE
        PROVE  padded.stack[p] = IF top <= p /\ p < top + gap THEN Null ELSE t.stack[p]
    <3>1. pushed(room, none).stack[p] = IF room.top <= p /\ p < room.top + Len(none) THEN none[p - room.top + 1] ELSE room.stack[p]
      BY ONLY <1>2, <1>3, p \in Nat, p <= STACK_MAXSIZE, pushedAt
    <3>2. top <= p /\ p < top + gap => p - top + 1 \in 1 .. gap
      OBVIOUS
    <3> QED
      BY ONLY <1>2, <1>3, <3>1, <3>2, padded = pushed(room, none)
  <2> QED
    BY <2>1, <2>2
<1> PICK tidy : tidy = IF isVarParm(ci(t).run)
                       THEN current(put(pushed(padded, slots(padded, b, b + k)), b, nulls(k)),
                              [ci(put(pushed(padded, slots(padded, b, b + k)), b, nulls(k))) EXCEPT !.begin = padded.top])
                       ELSE padded
  OBVIOUS
<1>5. u = current([tidy EXCEPT !.top = ci(tidy).end], [ci(tidy) EXCEPT !.used = NParms])
  BY <1>0, <1>2 DEF frameOf, SameCall
<1>6. ASSUME tidy \in Thread, Len(tidy.calls) = Len(t.calls)
      PROVE  u.stack = tidy.stack /\ begin(u) = begin(tidy) /\ ci(u).used = NParms
  <2> PICK c : c = ci(tidy)
    OBVIOUS
  <2> PICK x : x = [tidy EXCEPT !.top = c.end]
    OBVIOUS
  <2>1. c \in CallInfo /\ c = tidy.calls[Len(tidy.calls)]
    BY <1>0, <1>6, callsOK
  <2>2. x \in Thread /\ x.stack = tidy.stack /\ x.calls = tidy.calls
    BY SMTT(30), ZenonT(30), <1>6, <2>1 DEF Thread, CallInfo
  <2> PICK d : d = [c EXCEPT !.used = NParms]
    OBVIOUS
  <2>3. d \in CallInfo /\ d.begin = c.begin /\ d.used = NParms
    BY <2>1, Sizes DEF CallInfo
  <2>4. Len(x.calls) >= 1 /\ u = current(x, d)
    BY SMTT(30), ZenonT(30), <1>0, <1>5, <1>6, <2>2
  <2>5. u.stack = x.stack /\ ci(u) = d
    BY ONLY <2>2, <2>3, <2>4, currentOK
  <2> QED
    BY <2>2, <2>3, <2>5 DEF begin
<1>7. CASE ci(t).run = "b"
  <2>1. tidy = padded
    BY <1>7 DEF isVarParm
  <2>2. tidy \in Thread /\ Len(tidy.calls) = Len(t.calls) /\ begin(tidy) = b
    BY <1>2, <1>4, <2>1 DEF begin, ci
  <2>3. u.stack = padded.stack /\ begin(u) = b /\ ci(u).used = NParms
    BY <1>6, <2>1, <2>2
  <2> QED
    BY ONLY <1>1, <1>4, <1>7, <2>3, top = t.top, k = NParms, gap = greater(k - n, 0)
<1>8. CASE ci(t).run = "v"
  <2>0. gap = 0 /\ k <= n /\ padded.top = top /\ b + k <= top /\ top = b + n /\ n \in Nat
    <3>1. k <= n /\ n \in Nat /\ top = b + n
      BY <1>0, <1>8
    <3>2. gap = 0
      BY ONLY <3>1, k \in Nat, gap = greater(k - n, 0) DEF greater
    <3> QED
      BY <1>0, <1>4, <3>1, <3>2
  <2>1. \A p \in Nat : p <= STACK_MAXSIZE => padded.stack[p] = t.stack[p]
    BY <1>4, <2>0
  <2> PICK fix : fix = slots(padded, b, b + k)
    OBVIOUS
  <2>2. fix \in Seq(Stored) /\ Len(fix) = k /\ \A j \in 1 .. k : fix[j] = t.stack[b + j - 1]
    <3>1. b \in Nat /\ b + k \in Nat /\ b <= b + k /\ b + k <= STACK_ERRORSIZE /\ (b + k) - b = k
      BY ONLY SMTT(30), ZenonT(30), <1>0, <1>1, <2>0, k \in Nat, top \in Nat, Sizes
    <3>2. fix \in Seq(Stored) /\ Len(fix) = k
      BY <1>4, <3>1, slotsOK
    <3>3. \A j \in 1 .. k : fix[j] = padded.stack[b + j - 1]
      BY <3>1 DEF slots
    <3>4. \A j \in 1 .. k : b + j - 1 \in Nat /\ b + j - 1 <= STACK_MAXSIZE
      BY ONLY SMTT(30), ZenonT(30), <1>0, <1>1, <2>0, k \in Nat, top \in Nat, Sizes
    <3> QED
      BY ONLY <2>1, <3>2, <3>3, <3>4
  <2> PICK more : more = pushed(padded, fix)
    OBVIOUS
  <2>3. /\ more \in Thread /\ more.calls = room.calls
        /\ \A p \in Nat : p <= STACK_MAXSIZE =>
             more.stack[p] = IF top <= p /\ p < top + k THEN t.stack[b + (p - top)] ELSE t.stack[p]
    <3>1. more \in Thread /\ more.calls = room.calls
      BY <1>4, <2>2, pushedOK
    <3>2. ASSUME NEW p \in Nat, p <= STACK_MAXSIZE
          PROVE  more.stack[p] = IF top <= p /\ p < top + k THEN t.stack[b + (p - top)] ELSE t.stack[p]
      <4>1. pushed(padded, fix).stack[p] = IF padded.top <= p /\ p < padded.top + Len(fix) THEN fix[p - padded.top + 1] ELSE padded.stack[p]
        BY ONLY <1>4, <2>2, p \in Nat, p <= STACK_MAXSIZE, pushedAt
      <4>2. top <= p /\ p < top + k => p - top + 1 \in 1 .. k /\ b + (p - top + 1) - 1 = b + (p - top)
        BY ONLY <1>0, p \in Nat, k \in Nat, top \in Nat
      <4> QED
        BY ONLY <2>0, <2>1, <2>2, <4>1, <4>2, more = pushed(padded, fix), p \in Nat, p <= STACK_MAXSIZE
    <3> QED
      BY <3>1, <3>2
  <2> PICK empty : empty = nulls(k)
    OBVIOUS
  <2>4. empty \in Seq(Stored) /\ Len(empty) = k /\ \A j \in 1 .. k : empty[j] = Null
    <3>1. k \in Int /\ greater(k, 0) = k
      BY DEF greater
    <3>2. empty \in Seq(Stored) /\ Len(empty) = k
      BY <3>1, nullsOK
    <3> QED
      BY <3>1, <3>2 DEF nulls
  <2> PICK moved : moved = put(more, b, empty)
    OBVIOUS
  <2>5. /\ moved \in Thread /\ moved.calls = room.calls
        /\ \A p \in Nat : p <= STACK_MAXSIZE =>
             moved.stack[p] = IF b <= p /\ p < b + k THEN Null
                              ELSE IF top <= p /\ p < top + k THEN t.stack[b + (p - top)] ELSE t.stack[p]
    <3>1. moved \in Thread /\ moved.calls = room.calls
      <4>1. b \in Int
        BY <1>0
      <4> QED
        BY <2>3, <2>4, <4>1, putOK
    <3>2. ASSUME NEW p \in Nat, p <= STACK_MAXSIZE
          PROVE  moved.stack[p] = IF b <= p /\ p < b + k THEN Null
                                  ELSE IF top <= p /\ p < top + k THEN t.stack[b + (p - top)] ELSE t.stack[p]
      <4>1. put(more, b, empty).stack[p] = IF b <= p /\ p < b + Len(empty) THEN empty[p - b + 1] ELSE more.stack[p]
        BY ONLY SMTT(30), ZenonT(30), <1>0, <2>3, <2>4, p \in Nat, p <= STACK_MAXSIZE, putAt
      <4>2. b <= p /\ p < b + k => p - b + 1 \in 1 .. k
        BY ONLY <1>0, p \in Nat, k \in Nat
      <4> QED
        BY ONLY <2>3, <2>4, <4>1, <4>2, moved = put(more, b, empty), p \in Nat, p <= STACK_MAXSIZE
    <3> QED
      BY <3>1, <3>2
  <2> PICK c : c = ci(moved)
    OBVIOUS
  <2>6. c = ci(room) /\ c \in CallInfo /\ Len(moved.calls) = Len(t.calls)
    BY <1>0, <1>2, <2>5, callsOK DEF ci
  <2> PICK d : d = [c EXCEPT !.begin = top]
    OBVIOUS
  <2>7. d \in CallInfo /\ d.begin = top
    BY <2>6 DEF CallInfo
  <2>8. tidy = current(moved, d)
    BY <1>8, <2>0 DEF isVarParm
  <2>9. tidy \in Thread /\ tidy.stack = moved.stack /\ Len(tidy.calls) = Len(t.calls) /\ ci(tidy) = d
    <3>1. Len(moved.calls) >= 1
      BY <1>0, <2>6
    <3> QED
      BY ONLY <2>5, <2>6, <2>7, <2>8, <3>1, currentOK
  <2>10. u.stack = moved.stack /\ begin(u) = top /\ ci(u).used = NParms
    <3>1. begin(tidy) = top
      BY <2>7, <2>9 DEF begin
    <3>2. u.stack = tidy.stack /\ begin(u) = begin(tidy) /\ ci(u).used = NParms
      BY <1>6, <2>9
    <3> QED
      BY <2>9, <3>1, <3>2
  <2> QED
    BY ONLY <1>1, <1>8, <2>5, <2>10, top = t.top, k = NParms
<1> QED
  BY ONLY <1>0, <1>7, <1>8

\* So it finds what it declares, and apart from that what it was given besides.
LEMMA FrameOfIs ==
  ASSUME NEW t, NEW b, NEW n, CanLayByte(t, b, n), NEW u, u = frameOf(t, n), ci(u).run = ci(t).run,
         NEW args, args = slots(t, b, t.top)
  PROVE  /\ args \in Seq(Stored) /\ Len(args) = n /\ Same(t, u, b)
         /\ values(u) = Promise!Padded(args, NParms)
         /\ ci(t).run = "v" => slots(u, b + NParms, begin(u)) = SubSeq(args, NParms + 1, Len(args))
<1>0. /\ t \in Thread /\ b \in Nat /\ n \in Nat /\ t.top = b + n
      /\ ci(t).run \in {"b", "v"} /\ (ci(t).run = "v" => NParms <= n)
  BY DEF CanLayByte
<1> PICK k \in Nat : k = NParms
  BY Sizes
<1> PICK top \in Nat : top = t.top
  BY <1>0 DEF Thread
<1>1. /\ begin(u) = (IF ci(t).run = "v" THEN t.top ELSE b) /\ ci(u).used = NParms /\ t.top + NParms <= STACK_MAXSIZE
      /\ ci(t).run = "b" => \A p \in Nat : p <= STACK_MAXSIZE =>
           u.stack[p] = IF t.top <= p /\ p < t.top + greater(NParms - n, 0) THEN Null ELSE t.stack[p]
      /\ ci(t).run = "v" => \A p \in Nat : p <= STACK_MAXSIZE =>
           u.stack[p] = IF b <= p /\ p < b + NParms THEN Null
                        ELSE IF t.top <= p /\ p < t.top + NParms THEN t.stack[b + (p - t.top)] ELSE t.stack[p]
  BY FrameOfSlots
<1>2. args \in Seq(Stored) /\ Len(args) = n /\ \A j \in 1 .. n : args[j] = t.stack[b + j - 1]
  <2>1. b <= top /\ top <= STACK_ERRORSIZE /\ top - b = n /\ args = slots(t, b, top)
    BY <1>0, <1>1, Sizes
  <2>2. args \in Seq(Stored) /\ Len(args) = n
    BY <1>0, <2>1, slotsOK
  <2> QED
    BY <2>1, <2>2 DEF slots
<1> PICK q : q = Promise!Padded(args, k)
  OBVIOUS
<1>3. q \in Seq(Stored) /\ Len(q) = k /\ \A j \in 1 .. k : q[j] = IF j <= n THEN args[j] ELSE Null
  <2>1. Null \in Stored
    BY DEF Stored
  <2>2. q \in Seq(Stored) /\ Len(q) = k /\ \A j \in 1 .. k : q[j] = IF j <= Len(args) THEN args[j] ELSE Null
    BY ONLY <1>2, <2>1, k \in Nat, q = Promise!Padded(args, k), PaddedIs
  <2> QED
    BY ONLY <1>2, <2>2
<1>4. top + k <= STACK_MAXSIZE /\ top = b + n
  BY <1>0, <1>1
<1>5. size(u) = k
  <2>1. isByte(ci(u))
    BY <1>0 DEF isByte
  <2> QED
    BY <1>1, <2>1 DEF size
<1>6. Same(t, u, b)
  <2> SUFFICES ASSUME NEW p \in Nat, p < b PROVE u.stack[p] = t.stack[p]
    BY DEF Same
  <2>1. p <= STACK_MAXSIZE /\ ~(top <= p) /\ ~(b <= p)
    BY ONLY <1>0, <1>4, p \in Nat, p < b, top \in Nat, k \in Nat, Sizes
  <2> QED
    BY <1>0, <1>1, <2>1
<1>7. CASE ci(t).run = "b"
  <2>1. begin(u) = b
    BY <1>1, <1>7
  <2>2. \A j \in 1 .. k : u.stack[b + j - 1] = q[j]
    <3> SUFFICES ASSUME NEW j \in 1 .. k PROVE u.stack[b + j - 1] = q[j]
      OBVIOUS
    <3> PICK p \in Nat : p = b + j - 1
      BY <1>0
    <3>1. p <= STACK_MAXSIZE
      BY ONLY <1>0, <1>4, p = b + j - 1, k \in Nat, top \in Nat, j \in 1 .. k, Sizes
    <3>2. u.stack[p] = IF top <= p /\ p < top + greater(k - n, 0) THEN Null ELSE t.stack[p]
      BY <1>1, <1>7, <3>1
    <3>3. CASE j <= n
      <4>1. ~(top <= p) /\ j \in 1 .. n
        BY ONLY <1>0, <1>4, <3>3, p = b + j - 1, j \in 1 .. k, k \in Nat
      <4> QED
        BY ONLY <1>2, <1>3, <3>2, <3>3, <4>1, p = b + j - 1, j \in 1 .. k
    <3>4. CASE ~(j <= n)
      <4>1. top <= p /\ p < top + greater(k - n, 0)
        BY ONLY <1>0, <1>4, <3>4, p = b + j - 1, j \in 1 .. k, k \in Nat DEF greater
      <4> QED
        BY ONLY <1>3, <3>2, <3>4, <4>1, p = b + j - 1, j \in 1 .. k
    <3> QED
      BY <3>3, <3>4
  <2>3. values(u) = q
    <3>1. b \in Nat /\ b = begin(u) /\ size(u) = Len(q) /\ \A j \in 1 .. Len(q) : u.stack[b + j - 1] = q[j]
      BY <1>0, <1>3, <1>5, <2>1, <2>2
    <3> QED
      BY ONLY <1>3, <3>1, ValuesAre
  <2> QED
    BY <1>2, <1>6, <1>7, <2>3
<1>8. CASE ci(t).run = "v"
  <2>1. begin(u) = top
    BY <1>1, <1>8
  <2>2. k <= n
    BY <1>0, <1>8
  <2>3. \A p \in Nat : p <= STACK_MAXSIZE =>
          u.stack[p] = IF b <= p /\ p < b + k THEN Null
                       ELSE IF top <= p /\ p < top + k THEN t.stack[b + (p - top)] ELSE t.stack[p]
    BY <1>1, <1>8
  <2>4. \A j \in 1 .. k : u.stack[top + j - 1] = q[j]
    <3> SUFFICES ASSUME NEW j \in 1 .. k PROVE u.stack[top + j - 1] = q[j]
      OBVIOUS
    <3> PICK p \in Nat : p = top + j - 1
      OBVIOUS
    <3>1. p <= STACK_MAXSIZE /\ ~(b <= p /\ p < b + k) /\ top <= p /\ p < top + k /\ b + (p - top) = b + j - 1 /\ j \in 1 .. n /\ j <= n
      BY ONLY <1>0, <1>4, <2>2, p = top + j - 1, k \in Nat, top \in Nat, j \in 1 .. k, Sizes
    <3>2. u.stack[p] = t.stack[b + j - 1]
      BY ONLY <2>3, <3>1, p \in Nat
    <3> QED
      BY ONLY <1>2, <1>3, <3>1, <3>2, p = top + j - 1, j \in 1 .. k
  <2>5. values(u) = q
    <3>1. top = begin(u) /\ size(u) = Len(q) /\ \A j \in 1 .. Len(q) : u.stack[top + j - 1] = q[j]
      BY <1>3, <1>5, <2>1, <2>4
    <3> QED
      BY ONLY <1>3, <3>1, top \in Nat, ValuesAre
  <2>6. slots(u, b + k, top) = SubSeq(args, k + 1, n)
    <3> PICK s : s = SubSeq(args, k + 1, n)
      OBVIOUS
    <3> PICK r : r = slots(u, b + k, top)
      OBVIOUS
    <3>1. k + 1 \in Nat /\ k + 1 >= 1 /\ k + 1 <= n + 1 /\ n <= Len(args) /\ n - (k + 1) + 1 = n - k
          /\ \A j \in 1 .. n - k : (k + 1) + j - 1 = k + j
      BY ONLY <1>0, <1>2, <2>2, k \in Nat
    <3>2. s \in Seq(Stored) /\ Len(s) = n - k /\ \A j \in 1 .. n - k : s[j] = args[k + j]
      <4>1. /\ SubSeq(args, k + 1, n) \in Seq(Stored) /\ Len(SubSeq(args, k + 1, n)) = n - (k + 1) + 1
            /\ \A j \in 1 .. n - (k + 1) + 1 : SubSeq(args, k + 1, n)[j] = args[(k + 1) + j - 1]
        BY ONLY <1>0, <1>2, <3>1, PartIs
      <4> QED
        BY ONLY <3>1, <4>1, s = SubSeq(args, k + 1, n)
    <3>3. top - (b + k) = n - k /\ n - k \in Nat
      BY ONLY <1>0, <1>4, <2>2, k \in Nat
    <3>4. r = [j \in 1 .. n - k |-> u.stack[b + k + j - 1]]
      BY <3>3 DEF slots
    <3>5. \A j \in 1 .. n - k : u.stack[b + k + j - 1] = s[j]
      <4> SUFFICES ASSUME NEW j \in 1 .. n - k PROVE u.stack[b + k + j - 1] = s[j]
        OBVIOUS
      <4> PICK p \in Nat : p = b + k + j - 1
        BY <1>0, <3>3
      <4>1. p <= STACK_MAXSIZE /\ ~(b <= p /\ p < b + k) /\ ~(top <= p) /\ k + j \in 1 .. n /\ b + (k + j) - 1 = p
        BY ONLY <1>0, <1>4, <2>2, p = b + k + j - 1, k \in Nat, top \in Nat, j \in 1 .. n - k, Sizes
      <4>2. u.stack[p] = t.stack[p]
        BY ONLY <2>3, <4>1, p \in Nat
      <4>3. args[k + j] = t.stack[b + (k + j) - 1]
        BY ONLY <1>2, <4>1
      <4> QED
        BY ONLY <3>2, <4>1, <4>2, <4>3, p = b + k + j - 1, j \in 1 .. n - k
    <3>6. s = [j \in 1 .. n - k |-> s[j]]
      BY ONLY <3>2, <3>3
    <3>7. r = s
      BY ONLY <3>4, <3>5, <3>6
    <3> QED
      BY <3>7
  <2> QED
    BY <1>2, <1>6, <1>8, <2>1, <2>5, <2>6
<1> QED
  BY <1>0, <1>7, <1>8

LEMMA LaidOutIs ==
  ASSUME NEW t, NEW run, NEW mv, NEW displaced, NEW want, CanLayOut(t, run, mv, displaced, want),
         NEW u, u = LaidOut(t, run, mv), Fits(u), NEW args, args = slots(t, mv + 1, t.top)
  PROVE  /\ Same(t, u, mv + 1) /\ args \in Seq(Stored) /\ Len(args) = t.top - mv - 1
         /\ frameOfCall(u, Len(u.calls)) = Promise!Frame(t.stack[mv], run, args, want)
<1> PICK f : f = ci(t)
  OBVIOUS
<1>1. /\ t \in Thread /\ t.top \in Nat /\ t.size \in Nat /\ t.top <= limit(t) /\ t.size <= STACK_MAXSIZE
      /\ Len(t.calls) \in Nat /\ Len(t.calls) >= 1 /\ mv < t.top /\ mv \in Nat /\ run \in {"c", "b", "v"}
      /\ ~isFull(t, MaxStack) /\ (run = "v" => NParms <= t.top - mv - 1)
  BY callsOK DEF CanLayOut, Thread
<1>2. f.run = run /\ f.begin = mv + 1 /\ f.end = mv + 1 /\ f.used = 0
  BY DEF CanLayOut, FrameAt, newFrame
<1> PICK b \in Nat : b = mv + 1
  BY <1>1
<1> PICK n : n = t.top - mv - 1
  OBVIOUS
<1>3. n \in Nat /\ t.top = b + n /\ b = begin(t)
  <2>1. b = begin(t)
    BY <1>2 DEF begin
  <2> QED
    BY SMTT(30), ZenonT(30), <1>1, <2>1
<1>4. f.end <= limit(t)
  <2>1. limit(t) \in Int
    BY <1>1, Sizes DEF limit
  <2> QED
    BY <1>1, <1>2, <2>1
<1>5. /\ ci(u).run = run /\ ci(u).base = mv /\ ci(u).want = want
  BY LaidOutOK
<1>6. frameOfCall(u, Len(u.calls)) =
        [method |-> u.stack[mv], want |-> want, locals |-> values(u),
         rest |-> IF run = "v" THEN slots(u, mv + 1 + NParms, begin(u)) ELSE <<>>]
  BY <1>5, RunningFrame
<1>7. CASE run = "c"
  <2>1. u = needMoreLocal(t, STACK_MINSIZE)
    BY <1>7 DEF LaidOut
  <2>2. STACK_MINSIZE \in Nat /\ ci(t).end <= limit(t)
    BY <1>4, Sizes
  <2>3. u.stack = t.stack /\ u.top = t.top /\ begin(u) = begin(t)
    BY ONLY <1>1, <2>1, <2>2, MoreLocal
  <2>4. Same(t, u, mv + 1)
    BY <2>3 DEF Same
  <2>5. size(u) = n
    <3>1. ~isByte(ci(u))
      BY <1>5, <1>7 DEF isByte
    <3>2. u.top - begin(u) = n
      BY <1>3, <2>3
    <3> QED
      BY <3>1, <3>2 DEF size
  <2>6. values(u) = args
    <3>1. values(u) = slots(u, b, t.top)
      BY <1>3, <2>3, <2>5 DEF values
    <3> QED
      BY <2>3, <3>1 DEF slots
  <2>7. args \in Seq(Stored) /\ Len(args) = n
    <3>1. b <= t.top /\ t.top - b = n /\ t.top \in Nat
      BY ONLY <1>1, <1>3, b \in Nat
    <3>0. args = slots(t, b, t.top)
      OBVIOUS
    <3>2. t.top <= STACK_ERRORSIZE
      BY SMTT(30), ZenonT(30), <1>1, Sizes DEF limit
    <3> QED
      BY ONLY <1>1, <3>0, <3>1, <3>2, b \in Nat, slotsOK
  <2>8. Promise!Frame(t.stack[mv], run, args, want) = [method |-> t.stack[mv], want |-> want, rest |-> <<>>, locals |-> args]
    BY <1>7 DEF Promise!Frame
  <2> QED
    BY <1>6, <1>7, <2>3, <2>4, <2>6, <2>7, <2>8
<1>8. CASE run \in {"b", "v"}
  <2>1. u = frameOf(t, n)
    BY <1>8 DEF LaidOut
  <2>2. CanLayByte(t, b, n)
    BY <1>1, <1>2, <1>3, <1>4, <1>8 DEF CanLayByte
  <2>3. ci(u).run = ci(t).run /\ ci(t).run = run
    BY <1>2, <1>5
  <2>4. /\ args \in Seq(Stored) /\ Len(args) = n /\ Same(t, u, b)
        /\ values(u) = Promise!Padded(args, NParms)
        /\ run = "v" => slots(u, b + NParms, begin(u)) = SubSeq(args, NParms + 1, Len(args))
    <3>1. args = slots(t, b, t.top)
      OBVIOUS
    <3> QED
      BY ONLY <2>1, <2>2, <2>3, <3>1, FrameOfIs
  <2>5. u.stack[mv] = t.stack[mv]
    BY <1>1, <2>4 DEF Same
  <2>6. Promise!Frame(t.stack[mv], run, args, want) =
          [method |-> t.stack[mv], want |-> want,
           rest |-> IF run = "v" THEN SubSeq(args, NParms + 1, Len(args)) ELSE <<>>, locals |-> Promise!Padded(args, NParms)]
    BY <1>8 DEF Promise!Frame
  <2> QED
    BY <1>6, <2>4, <2>5, <2>6
<1> QED
  BY <1>1, <1>7, <1>8

\* The frame that runs is the same after what nothing reads any more was dropped.
LEMMA BecameFrame ==
  ASSUME SInv', NEW x, Fits(x), Becomes(x)
  PROVE  frameOfCall(th', Len(th'.calls)) = frameOfCall(x, Len(x.calls))
<1>1. x \in Thread
  BY FitsTypes
<1>2. /\ th'.calls = x.calls /\ begin(th') = begin(x) /\ ci(th') = ci(x)
      /\ begin(x) \in Nat /\ size(x) \in Nat
      /\ Same(x, th', begin(x) + size(x)) /\ values(th') = values(x)
  BY <1>1, Became
<1>3. Fits(th')
  BY DEF SInv
<1>4. /\ frameOfCall(x, Len(x.calls)) = [method |-> x.stack[ci(x).base], want |-> ci(x).want, locals |-> values(x),
            rest |-> IF ci(x).run = "v" THEN slots(x, ci(x).base + 1 + NParms, begin(x)) ELSE <<>>]
      /\ frameOfCall(th', Len(th'.calls)) = [method |-> th'.stack[ci(th').base], want |-> ci(th').want, locals |-> values(th'),
            rest |-> IF ci(th').run = "v" THEN slots(th', ci(th').base + 1 + NParms, begin(th')) ELSE <<>>]
  <2> ASSUME NEW t, Fits(t)
      PROVE  frameOfCall(t, Len(t.calls)) = [method |-> t.stack[ci(t).base], want |-> ci(t).want, locals |-> values(t),
            rest |-> IF ci(t).run = "v" THEN slots(t, ci(t).base + 1 + NParms, begin(t)) ELSE <<>>]
    BY RunningFrame
  <2> QED
    BY <1>3
<1>5. ci(x).base \in Nat /\ ci(x).base < begin(x)
  BY FitsTypes DEF FrameOK
<1>6. th'.stack[ci(x).base] = x.stack[ci(x).base]
  <2>1. ci(x).base < begin(x) + size(x)
    BY <1>2, <1>5
  <2> QED
    BY <1>2, <1>5, <2>1 DEF Same
<1>7. slots(th', ci(x).base + 1 + NParms, begin(x)) = slots(x, ci(x).base + 1 + NParms, begin(x))
  <2> PICK from \in Nat : from = ci(x).base + 1 + NParms
    BY <1>5, Sizes
  <2> PICK to \in Nat : to = begin(x)
    BY <1>2
  <2> PICK p \in Nat : p = begin(x) + size(x)
    BY <1>2
  <2> PICK v : v = th'
    OBVIOUS
  <2>1. to <= p /\ Same(x, v, p)
    BY <1>2
  <2> QED
    BY <2>1, SameSlots
<1> QED
  BY <1>2, <1>4, <1>6, <1>7

\* A new frame, above one with the values that are kept.
LEMMA EnterMap ==
  ASSUME SInv, SInv', NEW t, NEW run, NEW mv, NEW displaced, NEW want, CanEnter(t, run, mv, displaced, want),
         t.calls = th.calls, Same(th, t, mv + displaced),
         NEW u, u = LaidOut(Entering(t, FrameAt(run, mv, displaced, want)), run, mv), Becomes(u),
         NEW kept, kept = slots(th, begin(th), mv + displaced), NEW args, args = slots(t, mv + 1, t.top)
  PROVE  SubSeq(framesOf(th), 1, Len(th.calls))'
           = Append(Promise!Now(kept), Promise!Frame(t.stack[mv], run, args, want))
<1> PICK f : f = FrameAt(run, mv, displaced, want)
  OBVIOUS
<1> PICK called : called = Entering(t, f)
  OBVIOUS
<1>0. /\ Fits(t) /\ mv \in Nat /\ begin(t) <= mv /\ mv < t.top /\ want \in Nat
      /\ displaced \in {0, 1} /\ (want # BCVARRET => mv + displaced + want <= limit(t))
      /\ ~isFull(t, MaxStack) /\ ~isFull(t, STACK_MINSIZE) /\ run \in {"c", "b", "v"}
      /\ run = "v" => NParms <= t.top - mv - 1
  BY DEF CanEnter
<1>1. f \in CallInfo /\ f.run = run /\ f.begin = mv + 1
  BY <1>0 DEF CallInfo, FrameAt, newFrame
<1>2. t \in Thread /\ limit(t) \in Int /\ t.top <= limit(t) /\ t.size <= STACK_MAXSIZE
      /\ Len(t.calls) \in Nat /\ Len(t.calls) >= 1 /\ ci(t) \in CallInfo /\ begin(t) = ci(t).begin
  BY <1>0, FitsTypes
<1>3. /\ called \in Thread /\ called.top = t.top /\ called.size = t.size /\ called.stack = t.stack
      /\ Len(called.calls) = Len(t.calls) + 1 /\ ci(called) = f
      /\ \A i \in 1 .. Len(t.calls) : called.calls[i] = t.calls[i]
  BY <1>1, <1>2, appendedOK DEF Entering
<1>4. CanLayOut(called, run, mv, displaced, want)
  <2>1. limit(called) = limit(t)
    BY <1>3 DEF limit
  <2>2. ~isFull(called, MaxStack) /\ ~isFull(called, STACK_MINSIZE)
    BY <1>0, <1>3 DEF isFull
  <2>3. Len(called.calls) >= 1
    BY <1>2, <1>3
  <2> QED
    BY <1>0, <1>2, <1>3, <2>1, <2>2, <2>3 DEF CanLayOut
<1>5. u = LaidOut(called, run, mv)
  OBVIOUS
<1>6. /\ u \in Thread /\ Len(u.calls) = Len(called.calls)
      /\ \A i \in 1 .. Len(called.calls) - 1 : u.calls[i] = called.calls[i]
      /\ ci(u).retTo = mv + displaced /\ FrameOK(u, ci(u)) /\ ci(u).base = mv
  BY ONLY <1>4, <1>5, LaidOutOK
<1>7. Fits(u)
  <2>1. CanEnter(t, run, mv, displaced, want) /\ u = LaidOut(Entering(t, FrameAt(run, mv, displaced, want)), run, mv)
    OBVIOUS
  <2> QED
    BY ONLY <2>1, EnteredOK
<1>8. Same(called, u, mv + 1) /\ frameOfCall(u, Len(u.calls)) = Promise!Frame(t.stack[mv], run, args, want)
  <2>1. args = slots(called, mv + 1, called.top)
    BY <1>3 DEF slots
  <2>2. Same(called, u, mv + 1) /\ frameOfCall(u, Len(u.calls)) = Promise!Frame(called.stack[mv], run, args, want)
    BY ONLY <1>4, <1>5, <1>7, <2>1, LaidOutIs
  <2> QED
    BY <1>3, <2>2
<1> PICK to \in Nat : to = mv + displaced
  BY <1>0
<1>9. /\ th'.calls = u.calls /\ begin(th') = begin(u) /\ ci(th') = ci(u) /\ begin(u) \in Nat /\ size(u) \in Nat
      /\ Same(u, th', begin(u) + size(u))
  BY <1>6, Became
<1>10. mv < begin(u) /\ to <= begin(u) + size(u)
  <2>1. mv < begin(u)
    BY <1>6, <1>9 DEF FrameOK, begin
  <2>2. to <= mv + 1
    BY <1>0
  <2> QED
    BY <1>0, <1>9, <2>1, <2>2
<1>11. Same(th, th', to)
  <2> SUFFICES ASSUME NEW p \in Nat, p < to PROVE th'.stack[p] = th.stack[p]
    BY DEF Same
  <2>1. th'.stack[p] = u.stack[p]
    <3>1. p < begin(u) + size(u)
      BY <1>9, <1>10
    <3> QED
      BY <1>9, <3>1 DEF Same
  <2>2. u.stack[p] = called.stack[p]
    <3>1. p < mv + 1
      BY <1>0
    <3> QED
      BY <1>8, <3>1 DEF Same
  <2>3. t.stack[p] = th.stack[p]
    <3>1. Same(th, t, to)
      OBVIOUS
    <3> QED
      BY <3>1 DEF Same
  <2> QED
    BY <1>3, <2>1, <2>2, <2>3
<1> PICK b \in Nat : b = begin(th)
  BY Here
<1>12. b <= mv /\ b <= to
  <2>1. begin(t) = begin(th)
    BY DEF begin, ci
  <2>2. b <= mv
    BY <1>0, <2>1
  <2> QED
    BY <1>0, <2>2
<1> PICK v : v = th'
  OBVIOUS
<1>13. kept = slots(v, b, to)
  BY <1>11, SameSlots
<1>14. /\ Fits(th) /\ Fits(v) /\ Len(v.calls) = Len(th.calls) + 1
       /\ \A i \in 1 .. Len(th.calls) : v.calls[i] = th.calls[i]
       /\ ci(v).retTo = to
  <2>1. Fits(th) /\ Fits(v)
    BY DEF SInv
  <2>2. Len(called.calls) - 1 = Len(t.calls)
    BY <1>2, <1>3
  <2>3. v.calls = u.calls /\ t.calls = th.calls
    BY <1>9
  <2>4. ci(v).retTo = to
    BY <1>6, <1>9
  <2> QED
    BY ONLY <1>3, <1>6, <2>1, <2>2, <2>3, <2>4
<1>15. framesOf(v) = Append([framesOf(th) EXCEPT ![Len(th.calls)].locals = kept], frameOfCall(v, Len(th.calls) + 1))
  <2>1. b = begin(th) /\ Same(th, v, begin(th))
    BY <1>11, <1>12 DEF Same
  <2>2. begin(th) <= ci(v).retTo /\ kept = slots(v, begin(th), ci(v).retTo)
    BY <1>12, <1>13, <1>14
  <2> QED
    BY ONLY <1>14, <2>1, <2>2, Called
<1>16. frameOfCall(v, Len(th.calls) + 1) = Promise!Frame(t.stack[mv], run, args, want)
  <2>1. frameOfCall(th', Len(th'.calls)) = frameOfCall(u, Len(u.calls))
    BY <1>7, BecameFrame
  <2> QED
    BY <1>8, <1>14, <2>1
<1>17. SubSeq(framesOf(th), 1, Len(th.calls))' = framesOf(v)
  <2>1. SubSeq(framesOf(v), 1, Len(v.calls)) = framesOf(v)
    BY ONLY <1>14, Whole
  <2> QED
    BY <2>1
<1>18. Promise!Now(kept) = [framesOf(th) EXCEPT ![Len(th.calls)].locals = kept]
  BY Running DEF Promise!Now
<1> QED
  BY <1>15, <1>16, <1>17, <1>18

(***************************************************************************)
(* A call that is answered at once: the answer follows what the caller     *)
(* keeps.                                                                  *)
(***************************************************************************)
CanAnswer(t, to, vals) ==
  /\ Fits(t) /\ t.calls = th.calls /\ to \in Nat /\ begin(th) <= to /\ vals \in Seq(Stored)
  /\ to + Len(vals) <= limit(t) /\ Same(th, t, to)
Answered(t, to, vals) == back([put(t, to, vals) EXCEPT !.top = to + Len(vals)])

\* back changes what is known of the caller's registers only.
LEMMA BackLike ==
  ASSUME NEW t, Fits(t), NEW x \in Thread, x.calls = t.calls, x.size = t.size, x.top <= limit(t), begin(t) <= x.top,
         NEW u, u = back(x)
  PROVE  /\ Fits(u) /\ u.stack = x.stack /\ Len(u.calls) = Len(t.calls)
         /\ \A i \in 1 .. Len(t.calls) - 1 : u.calls[i] = t.calls[i]
         /\ SameCall(ci(t), ci(u)) /\ ci(u).retTo = ci(t).retTo /\ begin(u) = begin(t) /\ size(u) = x.top - begin(t)
<1>1. Fits(u)
  BY backOK
<1>2. /\ Len(x.calls) \in Nat /\ Len(x.calls) >= 1 /\ ci(x) = ci(t) /\ ci(t) \in CallInfo /\ begin(x) = begin(t)
      /\ begin(t) \in Nat /\ x.top \in Nat
  BY FitsTypes DEF ci, begin, Thread
<1>3. CASE ~isByte(ci(x))
  <2>1. u = x
    BY <1>3 DEF back
  <2>2. ci(u) = ci(t) /\ begin(u) = begin(t) /\ ~isByte(ci(u))
    BY <1>2, <1>3, <2>1 DEF begin
  <2>3. size(u) = x.top - begin(t)
    BY <2>1, <2>2 DEF size
  <2>4. SameCall(ci(t), ci(u)) /\ ci(u).retTo = ci(t).retTo
    BY <2>2 DEF SameCall
  <2>5. \A i \in 1 .. Len(t.calls) - 1 : u.calls[i] = t.calls[i]
    BY <2>1
  <2> QED
    BY <1>1, <2>1, <2>2, <2>3, <2>4, <2>5
<1>4. CASE isByte(ci(x))
  <2> PICK n \in Nat : n = x.top - begin(t)
    BY <1>2
  <2> PICK c \in CallInfo : c = ci(t)
    BY <1>2
  <2> PICK d \in CallInfo : d = [c EXCEPT !.used = n]
    BY DEF CallInfo
  <2>1. /\ d.run = c.run /\ d.begin = c.begin /\ d.end = c.end /\ d.base = c.base /\ d.retTo = c.retTo
        /\ d.want = c.want /\ d.used = n
    BY DEF CallInfo
  <2>2. u = current(x, d)
    BY <1>2, <1>4 DEF back
  <2>3. /\ u.stack = x.stack /\ Len(u.calls) = Len(x.calls) /\ ci(u) = d
        /\ \A i \in 1 .. Len(x.calls) - 1 : u.calls[i] = x.calls[i]
    BY ONLY <1>2, <2>2, x \in Thread, d \in CallInfo, currentOK
  <2>4. begin(u) = begin(t) /\ size(u) = n
    <3>1. isByte(d) /\ begin(t) = c.begin
      BY <1>2, <1>4, <2>1 DEF isByte, begin
    <3> QED
      BY <2>1, <2>3, <3>1 DEF begin, size
  <2>5. SameCall(ci(t), ci(u)) /\ ci(u).retTo = ci(t).retTo
    BY <2>1, <2>3 DEF SameCall
  <2>6. u.stack = x.stack /\ Len(u.calls) = Len(t.calls) /\ \A i \in 1 .. Len(t.calls) - 1 : u.calls[i] = t.calls[i]
    <3>1. x.calls = t.calls
      OBVIOUS
    <3> QED
      BY ONLY <2>3, <3>1
  <2>7. size(u) = x.top - begin(t)
    BY <2>4
  <2> QED
    BY ONLY <1>1, <2>4, <2>5, <2>6, <2>7
<1> QED
  BY <1>3, <1>4

\* The values of y are those that the thread has between b and f, and then vals.
Follow(y, b, f, vals) ==
  /\ b \in Nat /\ f \in Nat /\ b <= f /\ b = begin(y) /\ vals \in Seq(Stored) /\ f + Len(vals) <= STACK_MAXSIZE
  /\ size(y) = f + Len(vals) - b
  /\ \A p \in Nat : p < f => y.stack[p] = th.stack[p]
  /\ \A p \in Nat : f <= p /\ p < f + Len(vals) => y.stack[p] = vals[p - f + 1]
LEMMA FollowIs ==
  ASSUME SInv, NEW y, NEW b, NEW f, NEW vals, Follow(y, b, f, vals)
  PROVE  values(y) = slots(th, b, f) \o vals
<1>1. /\ b \in Nat /\ f \in Nat /\ b <= f /\ b = begin(y) /\ vals \in Seq(Stored) /\ f + Len(vals) <= STACK_MAXSIZE
      /\ size(y) = f + Len(vals) - b
      /\ \A p \in Nat : p < f => y.stack[p] = th.stack[p]
      /\ \A p \in Nat : f <= p /\ p < f + Len(vals) => y.stack[p] = vals[p - f + 1]
  BY DEF Follow
<1>0. b \in Nat /\ f \in Nat /\ b <= f /\ vals \in Seq(Stored)
  BY <1>1
<1> PICK k \in Nat : k = Len(vals)
  BY <1>0, LenProperties
<1> PICK d \in Nat : d = f - b
  BY ONLY <1>0
<1> PICK kept : kept = slots(th, b, f)
  OBVIOUS
<1> PICK q : q = kept \o vals
  OBVIOUS
<1>2. kept \in Seq(Stored) /\ Len(kept) = d /\ \A j \in 1 .. d : kept[j] = th.stack[b + j - 1]
  <2>1. f <= STACK_MAXSIZE
    BY ONLY <1>1, k \in Nat, k = Len(vals), Sizes
  <2>2. SInv /\ kept = slots(th, b, f)
    OBVIOUS
  <2> QED
    BY ONLY SMTT(30), ZenonT(30), <1>1, <2>1, <2>2, d = f - b, SlotsAre
<1>3. /\ q \in Seq(Stored) /\ Len(q) = d + k
      /\ \A j \in 1 .. d + k : q[j] = IF j <= d THEN kept[j] ELSE vals[j - d]
  BY ONLY <1>0, <1>2, k = Len(vals), q = kept \o vals, d \in Nat, ConcatProperties
<1>4. \A j \in 1 .. Len(q) : y.stack[b + j - 1] = q[j]
  <2> SUFFICES ASSUME NEW j \in 1 .. d + k PROVE y.stack[b + j - 1] = q[j]
    BY <1>3
  <2> PICK e \in Nat : e = b + j - 1
    BY ONLY <1>0, j \in 1 .. d + k, d \in Nat, k \in Nat
  <2>2. CASE j <= d
    <3>1. e < f /\ j \in 1 .. d
      BY ONLY <1>0, <2>2, e = b + j - 1, j \in 1 .. d + k, d \in Nat, d = f - b
    <3>2. y.stack[e] = th.stack[e] /\ q[j] = kept[j] /\ kept[j] = th.stack[e]
      BY ONLY <1>1, <1>2, <1>3, <2>2, <3>1, e \in Nat, e = b + j - 1, j \in 1 .. d + k
    <3> QED
      BY ONLY <3>2, e = b + j - 1
  <2>3. CASE ~(j <= d)
    <3>1. f <= e /\ e < f + k /\ e - f + 1 = j - d
      BY ONLY <1>0, <2>3, e = b + j - 1, j \in 1 .. d + k, d \in Nat, k \in Nat, d = f - b
    <3>2. y.stack[e] = vals[e - f + 1] /\ q[j] = vals[j - d]
      BY ONLY <1>1, <1>3, <2>3, <3>1, e \in Nat, j \in 1 .. d + k, k = Len(vals)
    <3> QED
      BY ONLY <3>1, <3>2, e = b + j - 1
  <2> QED
    BY ONLY <2>2, <2>3
<1>5. b = begin(y) /\ size(y) = Len(q) /\ b \in Nat
  <2>1. f + k - b = d + k
    BY ONLY <1>0, d \in Nat, k \in Nat, d = f - b
  <2> QED
    BY ONLY <1>1, <1>3, <2>1, k = Len(vals)
<1>6. values(y) = q
  BY ONLY <1>3, <1>4, <1>5, ValuesAre
<1> QED
  BY <1>6

LEMMA AnswerStep ==
  ASSUME SInv, SInv', NEW t, NEW to, NEW vals, CanAnswer(t, to, vals), Becomes(Answered(t, to, vals))
  PROVE  SubSeq(framesOf(th), 1, Len(th.calls))' = Promise!Now(slots(th, begin(th), to) \o vals)
<1>1. /\ Fits(t) /\ t.calls = th.calls /\ to \in Nat /\ begin(th) <= to /\ vals \in Seq(Stored)
      /\ to + Len(vals) <= limit(t) /\ Same(th, t, to)
  BY DEF CanAnswer
<1> PICK b \in Nat : b = begin(th)
  BY Here
<1> PICK k \in Nat : k = Len(vals)
  BY <1>1, LenProperties
<1> PICK f \in Nat : f = to
  BY <1>1
<1> PICK p : p = put(t, f, vals)
  OBVIOUS
<1> PICK m \in Nat : m = f + k
  OBVIOUS
<1> PICK x : x = [p EXCEPT !.top = m]
  OBVIOUS
<1> PICK u : u = back(x)
  OBVIOUS
<1> PICK kept : kept = slots(th, b, f)
  OBVIOUS
<1>2. Becomes(u)
  BY DEF Answered
<1>3. t \in Thread /\ limit(t) \in Int /\ limit(t) < STACK_MAXSIZE /\ begin(t) = b /\ ci(t) = ci(th)
  BY <1>1, FitsTypes DEF begin, ci
<1>4. m <= limit(t) /\ m < STACK_MAXSIZE /\ b <= f /\ b <= m /\ f <= m
  <2>1. m <= limit(t)
    BY <1>1
  <2>2. b <= f
    BY <1>1
  <2> QED
    BY ONLY <1>3, <2>1, <2>2, m \in Nat, f \in Nat, b \in Nat, k \in Nat, m = f + k, Sizes
<1>5. p \in Thread /\ p.size = t.size /\ p.calls = t.calls
  <2>1. vals \in Seq(Stored) /\ t \in Thread /\ f \in Int /\ p = put(t, f, vals)
    BY <1>1, <1>3
  <2> QED
    BY ONLY <2>1, putOK
<1>6. x \in Thread /\ x.size = t.size /\ x.calls = t.calls /\ x.top = m /\ x.stack = p.stack
  BY <1>5 DEF Thread
<1>7. /\ Fits(u) /\ u.stack = x.stack /\ Len(u.calls) = Len(t.calls)
      /\ \A i \in 1 .. Len(t.calls) - 1 : u.calls[i] = t.calls[i]
      /\ SameCall(ci(t), ci(u)) /\ ci(u).retTo = ci(t).retTo /\ begin(u) = begin(t) /\ size(u) = x.top - begin(t)
  <2>1. x.top <= limit(t) /\ begin(t) <= x.top /\ u = back(x) /\ Fits(t)
    BY <1>1, <1>3, <1>4, <1>6
  <2> QED
    BY ONLY <1>6, <2>1, BackLike
<1>8. \A i \in Nat : i <= STACK_MAXSIZE =>
        u.stack[i] = IF f <= i /\ i < m THEN vals[i - f + 1] ELSE t.stack[i]
  <2> SUFFICES ASSUME NEW i \in Nat, i <= STACK_MAXSIZE
               PROVE  u.stack[i] = IF f <= i /\ i < m THEN vals[i - f + 1] ELSE t.stack[i]
    OBVIOUS
  <2>1. put(t, f, vals).stack[i] = IF f <= i /\ i < f + Len(vals) THEN vals[i - f + 1] ELSE t.stack[i]
    BY ONLY <1>1, <1>3, f \in Nat, i \in Nat, i <= STACK_MAXSIZE, putAt
  <2> QED
    BY ONLY <1>6, <1>7, <2>1, p = put(t, f, vals), k = Len(vals), m = f + k
<1>9. \A i \in Nat : i < f => u.stack[i] = th.stack[i]
  <2> TAKE i \in Nat
  <2> HAVE i < f
  <2>1. t.stack[i] = th.stack[i]
    BY <1>1 DEF Same
  <2>2. i <= STACK_MAXSIZE /\ ~(f <= i)
    BY ONLY <1>4, i < f, i \in Nat, f \in Nat, m \in Nat, Sizes
  <2> QED
    BY <1>8, <2>1, <2>2
<1>10. Follow(u, b, f, vals)
  <2>1. vals \in Seq(Stored) /\ begin(u) = b /\ size(u) = f + Len(vals) - b
    BY <1>1, <1>3, <1>6, <1>7
  <2>2. f + Len(vals) <= STACK_MAXSIZE
    BY ONLY <1>4, k = Len(vals), m = f + k, m \in Nat, Sizes
  <2>3. \A i \in Nat : f <= i /\ i < f + Len(vals) => u.stack[i] = vals[i - f + 1]
    <3> TAKE i \in Nat
    <3> HAVE f <= i /\ i < f + Len(vals)
    <3>1. i <= STACK_MAXSIZE /\ i < m
      BY ONLY <2>2, f <= i /\ i < f + Len(vals), i \in Nat, f \in Nat, k \in Nat, k = Len(vals), m = f + k, Sizes
    <3> QED
      BY <1>8, <3>1
  <2> QED
    BY <1>4, <1>9, <2>1, <2>2, <2>3 DEF Follow
<1>13. values(u) = kept \o vals
  <2>1. SInv
    OBVIOUS
  <2>2. values(u) = slots(th, b, f) \o vals
    BY ONLY <1>10, <2>1, FollowIs
  <2> QED
    BY <2>2
<1>14. SubSeq(framesOf(th), 1, Len(th.calls))' = Promise!Now(values(u))
  <2>1. Same(th, u, begin(th))
    <3>1. \A i \in Nat : i < b => i < f
      BY ONLY <1>4, b \in Nat, f \in Nat
    <3>2. b = begin(th)
      OBVIOUS
    <3> QED
      BY ONLY <1>9, <3>1, <3>2 DEF Same
  <2>2. /\ Len(u.calls) = Len(th.calls) /\ \A i \in 1 .. Len(th.calls) - 1 : u.calls[i] = th.calls[i]
        /\ SameCall(ci(th), ci(u)) /\ ci(u).retTo = ci(th).retTo
    BY <1>1, <1>3, <1>7
  <2>3. u \in Thread
    BY <1>7, FitsTypes
  <2> QED
    BY <1>2, <2>1, <2>2, <2>3, LocalStep
<1> QED
  BY <1>13, <1>14

LEMMA WantedIs ==
  ASSUME NEW want \in Nat, NEW n, n = IF want = BCVARRET THEN 1 ELSE want
  PROVE  nulls(n) = Promise!Wanted(<<Null>>, want) /\ nulls(n) \in Seq(Stored) /\ Len(nulls(n)) = n
<1>1. n \in Nat /\ greater(n, 0) = n
  BY DEF greater
<1>2. nulls(n) \in Seq(Stored) /\ Len(nulls(n)) = n /\ \A i \in 1 .. n : nulls(n)[i] = Null
  <2>1. \A i \in 1 .. n : nulls(n)[i] = Null
    BY <1>1 DEF nulls
  <2>2. n \in Int
    BY <1>1
  <2> QED
    BY <1>1, <2>1, <2>2, nullsOK
<1>3. Null \in Stored
  BY DEF Stored
<1>4. <<Null>> \in Seq(Stored) /\ Len(<<Null>>) = 1 /\ <<Null>>[1] = Null
  BY <1>3
<1>5. CASE want = BCVARRET
  <2>1. Promise!Wanted(<<Null>>, want) = <<Null>> /\ n = 1
    BY <1>5 DEF Promise!Wanted
  <2>2. \A i \in 1 .. 1 : nulls(n)[i] = <<Null>>[i]
    BY <1>2, <1>4, <2>1
  <2>3. nulls(n) = <<Null>>
    BY ONLY <1>2, <1>4, <2>1, <2>2, SeqsEqual
  <2> QED
    BY <1>2, <2>1, <2>3
<1>6. CASE want # BCVARRET
  <2> PICK q : q = Promise!Padded(<<Null>>, n)
    OBVIOUS
  <2>1. Promise!Wanted(<<Null>>, want) = q /\ n = want
    BY <1>6 DEF Promise!Wanted
  <2>2. q \in Seq(Stored) /\ Len(q) = n /\ \A j \in 1 .. n : q[j] = IF j <= Len(<<Null>>) THEN <<Null>>[j] ELSE Null
    BY ONLY <1>1, <1>3, <1>4, q = Promise!Padded(<<Null>>, n), PaddedIs
  <2>3. \A j \in 1 .. n : q[j] = Null
    <3> TAKE j \in 1 .. n
    <3>1. CASE j <= 1
      <4>1. j = 1
        BY ONLY <3>1, <1>1, j \in 1 .. n
      <4> QED
        BY ONLY <1>4, <2>2, <4>1, j \in 1 .. n
    <3>2. CASE ~(j <= 1)
      BY ONLY <1>4, <2>2, <3>2, j \in 1 .. n
    <3> QED
      BY ONLY <3>1, <3>2
  <2>4. \A j \in 1 .. Len(q) : nulls(n)[j] = q[j]
    BY ONLY <1>2, <2>2, <2>3
  <2>5. nulls(n) = q
    BY ONLY <1>2, <2>2, <2>4, SeqsEqual
  <2> QED
    BY <1>2, <2>1, <2>5
<1> QED
  BY <1>5, <1>6

LEMMA YielderIs ==
  ASSUME NEW want \in Nat, NEW s, s = SubSeq(<<"yielder">> \o nulls(want), 1, want)
  PROVE  s = Promise!Padded(<<"yielder">>, want) /\ s \in Seq(Stored) /\ Len(s) = want
<1>1. greater(want, 0) = want /\ want \in Int
  BY DEF greater
<1>2. nulls(want) \in Seq(Stored) /\ Len(nulls(want)) = want /\ \A i \in 1 .. want : nulls(want)[i] = Null
  <2>1. \A i \in 1 .. want : nulls(want)[i] = Null
    BY <1>1 DEF nulls
  <2> QED
    BY <1>1, <2>1, nullsOK
<1>3. Null \in Stored /\ "yielder" \in Stored
  BY DEF Stored
<1> PICK one : one = <<"yielder">>
  OBVIOUS
<1>4. one \in Seq(Stored) /\ Len(one) = 1 /\ one[1] = "yielder"
  BY <1>3
<1> PICK more : more = nulls(want)
  OBVIOUS
<1> PICK all : all = one \o more
  OBVIOUS
<1>5. all \in Seq(Stored) /\ Len(all) = 1 + want /\ \A j \in 1 .. 1 + want : all[j] = IF j <= 1 THEN one[j] ELSE more[j - 1]
  <2>1. more \in Seq(Stored) /\ Len(more) = want
    BY <1>2
  <2>2. /\ one \o more \in Seq(Stored) /\ Len(one \o more) = Len(one) + Len(more)
        /\ \A j \in 1 .. Len(one) + Len(more) : (one \o more)[j] = IF j <= Len(one) THEN one[j] ELSE more[j - Len(one)]
    BY ONLY <1>4, <2>1, ConcatProperties
  <2> QED
    BY ONLY <1>4, <2>1, <2>2, all = one \o more
<1>6. s \in Seq(Stored) /\ Len(s) = want /\ \A j \in 1 .. want : s[j] = all[j]
  <2>1. s = SubSeq(all, 1, want) /\ 1 \in Nat /\ 1 >= 1 /\ 1 <= want + 1 /\ want <= Len(all)
    BY <1>5
  <2>2. /\ s \in Seq(Stored) /\ Len(s) = want - 1 + 1
        /\ \A j \in 1 .. want - 1 + 1 : s[j] = all[1 + j - 1]
    BY ONLY <1>5, <2>1, want \in Nat, PartIs
  <2>3. want - 1 + 1 = want /\ \A j \in 1 .. want : 1 + j - 1 = j
    OBVIOUS
  <2> QED
    BY ONLY <2>2, <2>3
<1> PICK q : q = Promise!Padded(one, want)
  OBVIOUS
<1>7. q \in Seq(Stored) /\ Len(q) = want /\ \A j \in 1 .. want : q[j] = IF j <= 1 THEN one[j] ELSE Null
  <2>1. /\ q \in Seq(Stored) /\ Len(q) = want
        /\ \A j \in 1 .. want : q[j] = IF j <= Len(one) THEN one[j] ELSE Null
    BY ONLY <1>3, <1>4, want \in Nat, q = Promise!Padded(one, want), PaddedIs
  <2> QED
    BY ONLY <1>4, <2>1
<1>8. \A j \in 1 .. Len(q) : s[j] = q[j]
  <2> SUFFICES ASSUME NEW j \in 1 .. want PROVE s[j] = q[j]
    BY <1>7
  <2>1. j \in 1 .. 1 + want
    OBVIOUS
  <2>2. s[j] = IF j <= 1 THEN one[j] ELSE more[j - 1]
    BY ONLY <1>5, <1>6, <2>1, j \in 1 .. want
  <2>3. ~(j <= 1) => more[j - 1] = Null
    <3>1. ~(j <= 1) => j - 1 \in 1 .. want
      OBVIOUS
    <3> QED
      BY ONLY <1>2, <3>1, more = nulls(want)
  <2> QED
    BY ONLY <1>7, <2>2, <2>3, j \in 1 .. want
<1>9. s = q
  BY ONLY <1>6, <1>7, <1>8, SeqsEqual
<1> QED
  BY <1>6, <1>9

\* What is called, by both names.
LEMMA MethodIs ==
  ASSUME NEW v, NEW set \in BOOLEAN
  PROVE  Promise!Method(v, set) = IF set /\ ~isClosure(v) THEN "none" ELSE realmethod(v, set)
BY DEF Promise!Method, Promise!Methods, Promise!Closures, isClosure, realmethod, Callable

\* What has to be so when what is in slot mv is called, and where the results go is displaced.
CanPrep(t, mv, displaced, want) ==
  /\ Fits(t) /\ t.calls = th.calls /\ mv \in Nat /\ begin(th) <= mv /\ mv < t.top /\ want \in Nat
  /\ displaced \in {0, 1} /\ (want # BCVARRET => mv + displaced + want <= limit(t))
  /\ isByte(ci(t)) => want # BCVARRET /\ mv + displaced + want <= begin(t) + MaxStack
  /\ ~isFull(t, MaxStack) /\ ~isFull(t, STACK_MINSIZE)
  /\ Same(th, t, mv + displaced)

LEMMA invalidCallMap ==
  ASSUME SInv, SInv', NEW t, NEW mv, NEW want, CanPrep(t, mv, 0, want), Becomes(invalidCall(t, mv, want))
  PROVE  SubSeq(framesOf(th), 1, Len(th.calls))' = Promise!Now(slots(th, begin(th), mv) \o Promise!Wanted(<<Null>>, want))
<1>1. /\ Fits(t) /\ t.calls = th.calls /\ mv \in Nat /\ begin(th) <= mv /\ mv < t.top /\ want \in Nat
      /\ (want # BCVARRET => mv + 0 + want <= limit(t)) /\ Same(th, t, mv + 0)
  BY DEF CanPrep
<1> PICK n : n = IF want = BCVARRET THEN 1 ELSE want
  OBVIOUS
<1> PICK vals : vals = nulls(n)
  OBVIOUS
<1>2. vals = Promise!Wanted(<<Null>>, want) /\ vals \in Seq(Stored) /\ Len(vals) = n
  BY ONLY <1>1, n = IF want = BCVARRET THEN 1 ELSE want, vals = nulls(n), WantedIs
<1>3. t.top \in Nat /\ t.top <= limit(t) /\ limit(t) \in Int
  BY <1>1, FitsTypes
<1>4. mv + n <= limit(t)
  BY ONLY <1>1, <1>3, n = IF want = BCVARRET THEN 1 ELSE want
<1>5. mv + 0 = mv
  BY <1>1
<1>6. CanAnswer(t, mv, vals)
  BY ONLY <1>1, <1>2, <1>4, <1>5 DEF CanAnswer
<1>7. invalidCall(t, mv, want) = Answered(t, mv, vals)
  BY <1>2 DEF invalidCall, Answered
<1>8. SubSeq(framesOf(th), 1, Len(th.calls))' = Promise!Now(slots(th, begin(th), mv) \o vals)
  BY <1>6, <1>7, AnswerStep
<1> QED
  BY <1>2, <1>8

LEMMA YielderMap ==
  ASSUME SInv, SInv', NEW t, NEW mv, NEW displaced, NEW want, CanPrep(t, mv, displaced, want), want # BCVARRET,
         NEW to, to = mv + displaced,
         Becomes(back([put(t, to, SubSeq(<<"yielder">> \o nulls(want), 1, want)) EXCEPT !.top = to + want]))
  PROVE  SubSeq(framesOf(th), 1, Len(th.calls))'
           = Promise!Now(slots(th, begin(th), to) \o Promise!Padded(<<"yielder">>, want))
<1>1. /\ Fits(t) /\ t.calls = th.calls /\ mv \in Nat /\ begin(th) <= mv /\ mv < t.top /\ want \in Nat
      /\ (want # BCVARRET => mv + displaced + want <= limit(t)) /\ Same(th, t, mv + displaced) /\ displaced \in {0, 1}
  BY DEF CanPrep
<1> PICK vals : vals = SubSeq(<<"yielder">> \o nulls(want), 1, want)
  OBVIOUS
<1>2. vals = Promise!Padded(<<"yielder">>, want) /\ vals \in Seq(Stored) /\ Len(vals) = want
  BY ONLY <1>1, vals = SubSeq(<<"yielder">> \o nulls(want), 1, want), YielderIs
<1>3. begin(th) \in Nat
  BY Here
<1>4. to \in Nat /\ begin(th) <= to /\ to + want <= limit(t)
  BY ONLY <1>1, <1>3, to = mv + displaced, want # BCVARRET
<1>5. CanAnswer(t, to, vals)
  BY ONLY <1>1, <1>2, <1>4, to = mv + displaced DEF CanAnswer
<1>6. Becomes(Answered(t, to, vals))
  BY <1>2 DEF Answered
<1>7. SubSeq(framesOf(th), 1, Len(th.calls))' = Promise!Now(slots(th, begin(th), to) \o vals)
  BY <1>5, <1>6, AnswerStep
<1> QED
  BY <1>2, <1>7

LEMMA RunMap ==
  ASSUME SInv, SInv', NEW t, NEW mv, NEW displaced, NEW want, CanPrep(t, mv, displaced, want),
         NEW run \in {"c", "b", "v"}, run = "v" => NParms <= t.top - mv - 1,
         NEW u, u = LaidOut(Entering(t, newFrame(run, mv, mv + displaced, want)), run, mv), Becomes(u),
         NEW kept, kept = slots(th, begin(th), mv + displaced), NEW args, args = slots(t, mv + 1, t.top)
  PROVE  SubSeq(framesOf(th), 1, Len(th.calls))'
           = Append(Promise!Now(kept), Promise!Frame(t.stack[mv], run, args, want))
<1>1. /\ Fits(t) /\ t.calls = th.calls /\ mv \in Nat /\ begin(th) <= mv /\ mv < t.top /\ want \in Nat
      /\ displaced \in {0, 1} /\ (want # BCVARRET => mv + displaced + want <= limit(t))
      /\ (isByte(ci(t)) => want # BCVARRET /\ mv + displaced + want <= begin(t) + MaxStack)
      /\ ~isFull(t, MaxStack) /\ ~isFull(t, STACK_MINSIZE) /\ Same(th, t, mv + displaced)
  BY DEF CanPrep
<1>2. begin(t) = begin(th) /\ ci(t) = ci(th)
  BY <1>1 DEF begin, ci
<1>3. ci(t).used <= MaxLive
  BY <1>2, Now
<1>4. CanEnter(t, run, mv, displaced, want)
  <2>1. begin(t) <= mv
    BY <1>1, <1>2
  <2> QED
    BY ONLY <1>1, <1>3, <2>1, run \in {"c", "b", "v"}, run = "v" => NParms <= t.top - mv - 1 DEF CanEnter
<1>5. u = LaidOut(Entering(t, FrameAt(run, mv, displaced, want)), run, mv)
  BY DEF FrameAt
<1> QED
  BY <1>1, <1>4, <1>5, EnterMap

\* A call does what is promised, whatever is called.
LEMMA callMorCPrepMap ==
  ASSUME SInv, SInv', NEW t, NEW mv, NEW displaced, NEW want, CanPrep(t, mv, displaced, want),
         NEW set \in BOOLEAN, ~(set /\ ~isClosure(t.stack[mv])), NEW run, run = realmethod(t.stack[mv], set),
         run = "v" => NParms <= t.top - mv - 1, run \in {"y", "yv"} => want # BCVARRET, run = "none" => displaced = 0,
         Becomes(callMorCPrep(t, mv, want, set, displaced)),
         NEW kept, kept = slots(th, begin(th), mv + displaced), NEW args, args = slots(t, mv + 1, t.top)
  PROVE  Promise!Calls(t.stack[mv], args, kept, want, set)
<1> PICK f : f = newFrame(run, mv, mv + displaced, want)
  OBVIOUS
<1> PICK called : called = Entering(t, f)
  OBVIOUS
<1> PICK u : u = callMorCPrep(t, mv, want, set, displaced)
  OBVIOUS
<1>1. run \in {"none", "y", "yv", "c", "b", "v"}
  BY DEF realmethod, Callable, isClosure
<1>2. u = CASE run = "none" -> invalidCall(t, mv, want)
            [] run \in {"y", "yv"} -> back([put(t, mv + displaced, SubSeq(<<"yielder">> \o nulls(want), 1, want))
                                            EXCEPT !.top = mv + displaced + want])
            [] run = "c" -> needMoreLocal(called, STACK_MINSIZE)
            [] OTHER     -> frameOf(called, t.top - mv - 1)
  BY DEF callMorCPrep, Entering
<1>3. Promise!Method(t.stack[mv], set) = run
  BY MethodIs
<1>4. Fits(t) /\ t \in Thread /\ mv \in Nat
  BY FitsTypes DEF CanPrep
<1>5. CASE run = "none"
  <2>1. Becomes(invalidCall(t, mv, want)) /\ displaced = 0
    BY <1>2, <1>5
  <2>2. CanPrep(t, mv, 0, want)
    BY <2>1
  <2>3. SubSeq(framesOf(th), 1, Len(th.calls))' = Promise!Now(slots(th, begin(th), mv) \o Promise!Wanted(<<Null>>, want))
    BY <2>1, <2>2, invalidCallMap
  <2>4. kept = slots(th, begin(th), mv)
    BY <1>4, <2>1
  <2> QED
    BY <1>3, <1>5, <2>3, <2>4 DEF Promise!Calls, Promise!Null, Null
<1>6. CASE run \in {"y", "yv"}
  <2> PICK to : to = mv + displaced
    OBVIOUS
  <2>1. Becomes(back([put(t, to, SubSeq(<<"yielder">> \o nulls(want), 1, want)) EXCEPT !.top = to + want]))
    BY <1>2, <1>6
  <2>2. SubSeq(framesOf(th), 1, Len(th.calls))'
           = Promise!Now(slots(th, begin(th), to) \o Promise!Padded(<<"yielder">>, want))
    BY <1>6, <2>1, YielderMap
  <2> QED
    BY <1>3, <1>6, <2>2 DEF Promise!Calls
<1>7. CASE run \in {"c", "b", "v"}
  <2>1. u = LaidOut(called, run, mv)
    <3>1. called.top = t.top
      BY <1>4 DEF Entering, Thread
    <3> QED
      BY <1>2, <1>7, <3>1 DEF LaidOut
  <2>2. u = LaidOut(Entering(t, newFrame(run, mv, mv + displaced, want)), run, mv)
    BY <2>1
  <2>3. SubSeq(framesOf(th), 1, Len(th.calls))' = Append(Promise!Now(kept), Promise!Frame(t.stack[mv], run, args, want))
    BY <1>7, <2>2, RunMap
  <2> QED
    BY <1>3, <1>7, <2>3 DEF Promise!Calls
<1> QED
  BY <1>1, <1>5, <1>6, <1>7

LEMMA WithoutSlots ==
  ASSUME SInv, NEW k \in Nat, k <= size(th), NEW to, to = begin(th) + size(th) - k
  PROVE  slots(th, begin(th), to) = Promise!Without(values(th), k)
<1> PICK b \in Nat : b = begin(th)
  BY Here
<1> PICK n \in Nat : n = size(th)
  BY Here
<1> PICK L : L = values(th)
  OBVIOUS
<1> PICK s : s = slots(th, b, to)
  OBVIOUS
<1> PICK q : q = Promise!Without(L, k)
  OBVIOUS
<1>1. L \in Seq(Stored) /\ Len(L) = n /\ b + n < STACK_MAXSIZE /\ \A j \in 1 .. n : L[j] = th.stack[b + j - 1]
  BY Here
<1>2. to \in Nat /\ b <= to /\ to <= STACK_MAXSIZE /\ to - b = n - k /\ k <= n
  <2>1. b + n < STACK_MAXSIZE /\ to = b + n - k /\ k <= n
    BY <1>1
  <2> QED
    BY ONLY <2>1, b \in Nat, n \in Nat, k \in Nat, Sizes
<1>3. s \in Seq(Stored) /\ Len(s) = n - k /\ \A j \in 1 .. n - k : s[j] = th.stack[b + j - 1]
  <2>1. /\ slots(th, b, to) \in Seq(Stored) /\ Len(slots(th, b, to)) = to - b
        /\ \A j \in 1 .. to - b : slots(th, b, to)[j] = th.stack[b + j - 1]
    BY <1>2, SlotsAre
  <2> QED
    BY <1>2, <2>1
<1>4. q \in Seq(Stored) /\ Len(q) = n - k /\ \A j \in 1 .. n - k : q[j] = L[j]
  <2>1. k \in 0 .. n /\ n = Len(L)
    BY <1>1, <1>2
  <2> QED
    BY ONLY <1>1, <2>1, n \in Nat, q = Promise!Without(L, k), WithoutIs
<1>5. \A j \in 1 .. Len(s) : q[j] = s[j]
  <2> SUFFICES ASSUME NEW j \in 1 .. n - k PROVE q[j] = s[j]
    BY <1>3
  <2>1. j \in 1 .. n
    BY ONLY <1>2, k \in Nat, n \in Nat, j \in 1 .. n - k
  <2> QED
    BY ONLY <1>1, <1>3, <1>4, <2>1, j \in 1 .. n - k
<1>6. Len(q) = Len(s)
  BY <1>3, <1>4
<1>7. q = s
  BY ONLY <1>3, <1>4, <1>5, <1>6, SeqsEqual
<1> QED
  BY <1>7

\* The slots of t are those of the thread, but for one.
ButFor(t, mv) == \A p \in Nat : p <= STACK_MAXSIZE /\ p # mv => t.stack[p] = th.stack[p]

\* A call of what is below the last n values.
LEMMA Parted ==
  ASSUME SInv, NEW n \in Index, NEW mv, mv = live.top - n - 1, NEW t, t.top = live.top, ButFor(t, mv)
  PROVE  /\ n \in Nat /\ n + 1 <= size(th) /\ mv \in Nat
         /\ slots(t, mv + 1, t.top) = Promise!Final(values(th), n) /\ Same(th, t, mv)
         /\ slots(th, begin(th), mv) = Promise!Without(values(th), n + 1)
         /\ slots(th, begin(th), mv + 1) = Promise!Without(values(th), n)
<1> PICK b \in Nat : b = begin(th)
  BY Here
<1> PICK z \in Nat : z = size(th)
  BY Here
<1>1. n \in Nat /\ n < z
  BY DEF Index
<1>2. live.top = b + z /\ b + z < STACK_MAXSIZE
  BY Live, Here
<1>3. mv = b + z - (n + 1) /\ mv + 1 = b + z - n /\ mv \in Nat /\ n + 1 <= z /\ n <= z /\ mv <= STACK_MAXSIZE
      /\ mv + 1 \in Nat
  <2>1. mv = (b + z) - n - 1
    BY <1>2
  <2> QED
    BY ONLY <1>1, <1>2, <2>1, b \in Nat, z \in Nat, Sizes
<1>4. Same(th, t, mv)
  <2> SUFFICES ASSUME NEW x \in Nat, x < mv PROVE t.stack[x] = th.stack[x]
    BY DEF Same
  <2>1. x <= STACK_MAXSIZE /\ x # mv
    BY ONLY <1>3, x \in Nat, x < mv, Sizes
  <2> QED
    BY <2>1 DEF ButFor
<1>5. slots(t, mv + 1, t.top) = slots(th, mv + 1, b + z)
  <2> PICK f \in Nat : f = mv + 1
    BY <1>3
  <2> PICK g \in Nat : g = b + z
    OBVIOUS
  <2>1. \A i \in 1 .. g - f : t.stack[f + i - 1] = th.stack[f + i - 1]
    <3> TAKE i \in 1 .. g - f
    <3>1. f + i - 1 \in Nat /\ f + i - 1 <= STACK_MAXSIZE /\ f + i - 1 # mv
      BY ONLY <1>2, <1>3, f = mv + 1, g = b + z, i \in 1 .. g - f, f \in Nat, g \in Nat, Sizes
    <3> QED
      BY <3>1 DEF ButFor
  <2>2. slots(t, f, g) = slots(th, f, g)
    BY <2>1 DEF slots
  <2> QED
    BY <1>2, <2>2
<1>6. slots(th, mv + 1, b + z) = Promise!Final(values(th), n)
  <2>1. n <= size(th) /\ b + z = begin(th) + size(th) /\ mv + 1 = (b + z) - n
    <3>1. n <= z /\ mv + 1 = (b + z) - n
      BY ONLY <1>1, <1>3, b \in Nat, z \in Nat
    <3>2. z = size(th) /\ b = begin(th)
      OBVIOUS
    <3> QED
      BY ONLY <3>1, <3>2
  <2> QED
    BY <1>1, <2>1, FinalSlots
<1>7. slots(th, begin(th), mv) = Promise!Without(values(th), n + 1)
  <2>1. n + 1 \in Nat /\ n + 1 <= size(th) /\ mv = begin(th) + size(th) - (n + 1)
    BY <1>1, <1>3
  <2> QED
    BY <2>1, WithoutSlots
<1>8. slots(th, begin(th), mv + 1) = Promise!Without(values(th), n)
  <2>1. n <= size(th) /\ mv + 1 = begin(th) + size(th) - n
    BY <1>3
  <2> QED
    BY <1>1, <2>1, WithoutSlots
<1> QED
  BY <1>1, <1>3, <1>4, <1>5, <1>6, <1>7, <1>8

\* What is called is found, or looked up, below its parameters.
LEMMA LookedAt ==
  ASSUME SInv, NEW n \in Index, NEW m \in Properties \cup Callable, NEW mv, mv = live.top - n - 1, NEW t, t = looked(live, mv, m)
  PROVE  ButFor(t, mv) /\ t.stack[mv] \in Promise!Called
<1>1. live \in Thread /\ live.stack = th.stack
  BY Live
<1>2. mv \in Nat /\ mv <= STACK_MAXSIZE
  <2>1. /\ t.top = live.top /\ mv \in Nat /\ mv < t.top /\ Fits(t)
    BY Looked
  <2>2. t.top \in Nat /\ t.top <= limit(t) /\ limit(t) \in Int /\ limit(t) < STACK_MAXSIZE
    BY <2>1, FitsTypes
  <2> QED
    BY ONLY <2>1, <2>2, Sizes
<1>3. CASE live.stack[mv] \in Callable
  <2>1. t = live
    BY <1>3 DEF looked
  <2>2. ButFor(t, mv)
    BY <1>1, <2>1 DEF ButFor
  <2> QED
    BY <1>3, <2>1, <2>2 DEF Promise!Called, Promise!Callable, Promise!Methods, Promise!Closures, Callable
<1>4. CASE live.stack[mv] \notin Callable
  <2>1. t = put(live, mv, <<m>>)
    BY <1>4 DEF looked
  <2>2. m \in Value \cup Callable \cup {Null}
    BY PropertiesFit
  <2>3. <<m>> \in Seq(Stored) /\ Len(<<m>>) = 1 /\ <<m>>[1] = m
    BY <2>2, OneValue DEF Stored
  <2>4. \A p \in Nat : p <= STACK_MAXSIZE => t.stack[p] = IF mv <= p /\ p < mv + 1 THEN <<m>>[p - mv + 1] ELSE th.stack[p]
    <3> TAKE p \in Nat
    <3> HAVE p <= STACK_MAXSIZE
    <3>1. put(live, mv, <<m>>).stack[p] = IF mv <= p /\ p < mv + Len(<<m>>) THEN <<m>>[p - mv + 1] ELSE live.stack[p]
      BY ONLY <1>1, <1>2, <2>3, p \in Nat, p <= STACK_MAXSIZE, putAt
    <3> QED
      BY <1>1, <2>1, <2>3, <3>1
  <2>5. t.stack[mv] = m
    <3>1. mv <= mv /\ mv < mv + 1 /\ mv - mv + 1 = 1
      BY <1>2
    <3> QED
      BY <1>2, <2>3, <2>4, <3>1
  <2>6. ButFor(t, mv)
    <3> SUFFICES ASSUME NEW p \in Nat, p <= STACK_MAXSIZE, p # mv PROVE t.stack[p] = th.stack[p]
      BY DEF ButFor
    <3>1. ~(mv <= p /\ p < mv + 1)
      BY <1>2
    <3> QED
      BY <2>4, <3>1
  <2> QED
    BY <2>2, <2>5, <2>6 DEF Promise!Called, Promise!Callable, Promise!Methods, Promise!Closures, Callable, Promise!Null, Null
<1> QED
  BY <1>3, <1>4

\* n parameters are above slot mv.
AreGiven(t, mv, n, args) ==
  Fits(t) /\ n \in Nat /\ mv \in Nat /\ t.top = mv + n + 1 /\ args = slots(t, mv + 1, t.top)

\* What a new yielder starts with: of its variable parameters nothing, and so it gets none here ("rest").
LEMMA YielderFrameIs ==
  ASSUME NEW t, NEW n, NEW mv, NEW args, AreGiven(t, mv, n, args),
         NEW m, m \in {"y", "yv"}, m = "yv" => n <= NParms
  PROVE  yielderFrame(t, mv) = Promise!Yielder(m, args)
<1> Fits(t) /\ n \in Nat /\ mv \in Nat /\ t.top = mv + n + 1 /\ args = slots(t, mv + 1, t.top)
  BY DEF AreGiven
<1> PICK given : given = lesser(n, NParms)
  OBVIOUS
<1> PICK f \in Nat : f = mv + 1
  OBVIOUS
<1>0. NParms \in Nat
  BY Sizes
<1>1. given \in Nat /\ given <= n /\ given <= NParms /\ (given = n \/ given = NParms)
  BY <1>0 DEF lesser
<1>2. t \in Thread /\ f + n < STACK_MAXSIZE /\ f + given < STACK_MAXSIZE /\ t.top = f + n /\ t.top - mv - 1 = n
  <2>1. t \in Thread /\ t.top <= limit(t) /\ limit(t) \in Int /\ limit(t) < STACK_MAXSIZE
    BY FitsTypes
  <2>2. t.top = mv + n + 1
    OBVIOUS
  <2> QED
    BY ONLY <1>1, <2>1, <2>2, mv \in Nat, n \in Nat, f \in Nat, f = mv + 1, Sizes
<1> PICK s : s = slots(t, f, f + given)
  OBVIOUS
<1> PICK more : more = nulls(NParms - given)
  OBVIOUS
<1>3. args \in Seq(Stored) /\ Len(args) = n /\ \A j \in 1 .. n : args[j] = t.stack[f + j - 1]
  <2>1. args = slots(t, f, f + n)
    BY <1>2
  <2>2. f + n \in Nat /\ f <= f + n /\ f + n <= STACK_ERRORSIZE /\ (f + n) - f = n
    BY ONLY <1>2, f \in Nat, n \in Nat, Sizes
  <2>3. slots(t, f, f + n) \in Seq(Stored) /\ Len(slots(t, f, f + n)) = (f + n) - f
    BY ONLY <1>2, <2>2, f \in Nat, slotsOK
  <2>4. \A j \in 1 .. n : slots(t, f, f + n)[j] = t.stack[f + j - 1]
    BY <2>2 DEF slots
  <2> QED
    BY <2>1, <2>2, <2>3, <2>4
<1>4. s \in Seq(Stored) /\ Len(s) = given /\ \A j \in 1 .. given : s[j] = t.stack[f + j - 1]
  <2>2. f + given \in Nat /\ f <= f + given /\ f + given <= STACK_ERRORSIZE /\ (f + given) - f = given
    BY ONLY <1>1, <1>2, f \in Nat, n \in Nat, Sizes
  <2>3. slots(t, f, f + given) \in Seq(Stored) /\ Len(slots(t, f, f + given)) = (f + given) - f
    BY ONLY <1>2, <2>2, f \in Nat, slotsOK
  <2>4. \A j \in 1 .. given : slots(t, f, f + given)[j] = t.stack[f + j - 1]
    BY <2>2 DEF slots
  <2> QED
    BY <2>2, <2>3, <2>4
<1>5. more \in Seq(Stored) /\ Len(more) = NParms - given /\ \A j \in 1 .. NParms - given : more[j] = Null
  <2>1. NParms - given \in Int /\ greater(NParms - given, 0) = NParms - given
    BY <1>0, <1>1 DEF greater
  <2>2. \A j \in 1 .. NParms - given : more[j] = Null
    BY <2>1 DEF nulls
  <2> QED
    BY <2>1, <2>2, nullsOK
<1> PICK r : r = s \o more
  OBVIOUS
<1>6. r \in Seq(Stored) /\ Len(r) = NParms /\ \A j \in 1 .. NParms : r[j] = IF j <= given THEN s[j] ELSE more[j - given]
  <2>1. /\ s \o more \in Seq(Stored) /\ Len(s \o more) = Len(s) + Len(more)
        /\ \A j \in 1 .. Len(s) + Len(more) : (s \o more)[j] = IF j <= Len(s) THEN s[j] ELSE more[j - Len(s)]
    BY ONLY <1>4, <1>5, ConcatProperties
  <2>2. given + (NParms - given) = NParms
    BY <1>0, <1>1
  <2> QED
    BY ONLY <1>4, <1>5, <2>1, <2>2, r = s \o more
<1> PICK q : q = Promise!Padded(args, NParms)
  OBVIOUS
<1>7. q \in Seq(Stored) /\ Len(q) = NParms /\ \A j \in 1 .. NParms : q[j] = IF j <= n THEN args[j] ELSE Null
  <2>1. Null \in Stored
    BY DEF Stored
  <2>2. /\ q \in Seq(Stored) /\ Len(q) = NParms
        /\ \A j \in 1 .. NParms : q[j] = IF j <= Len(args) THEN args[j] ELSE Null
    BY ONLY <1>0, <1>3, <2>1, q = Promise!Padded(args, NParms), PaddedIs
  <2> QED
    BY ONLY <1>3, <2>2
<1>8. \A j \in 1 .. NParms : r[j] = q[j]
  <2> TAKE j \in 1 .. NParms
  <2>1. CASE j <= given
    <3>1. j \in 1 .. given /\ j \in 1 .. n /\ j <= n
      BY ONLY <1>0, <1>1, <2>1, j \in 1 .. NParms, n \in Nat
    <3> QED
      BY ONLY <1>3, <1>4, <1>6, <1>7, <2>1, <3>1, j \in 1 .. NParms
  <2>2. CASE ~(j <= given)
    <3>1. j - given \in 1 .. NParms - given /\ ~(j <= n)
      BY ONLY <1>0, <1>1, <2>2, j \in 1 .. NParms, n \in Nat
    <3> QED
      BY ONLY <1>5, <1>6, <1>7, <2>2, <3>1, j \in 1 .. NParms
  <2> QED
    BY ONLY <2>1, <2>2
<1>9. r = q
  <2>1. \A j \in 1 .. Len(q) : r[j] = q[j]
    BY <1>7, <1>8
  <2> QED
    BY ONLY <1>6, <1>7, <2>1, SeqsEqual
<1>10. yielderFrame(t, mv) = <<r, <<>> >>
  <2>1. yielderFrame(t, mv) = <<slots(t, mv + 1, mv + 1 + given) \o nulls(NParms - given), <<>> >>
    BY <1>2 DEF yielderFrame
  <2> QED
    BY <2>1
<1>11. Promise!Yielder(m, args) = <<q, <<>> >>
  <2>1. Promise!Yielder(m, args) = <<Promise!Frame(m, m, args, 0).locals, Promise!Frame(m, m, args, 0).rest>>
    BY DEF Promise!Yielder
  <2>2. Promise!Frame(m, m, args, 0).locals = q
    BY DEF Promise!Frame
  <2>3. Promise!Frame(m, m, args, 0).rest = IF m \in {"v", "yv"} THEN SubSeq(args, NParms + 1, Len(args)) ELSE <<>>
    BY DEF Promise!Frame
  <2>4. CASE m = "y"
    BY <2>1, <2>2, <2>3, <2>4
  <2>5. CASE m = "yv"
    <3>1. SubSeq(args, NParms + 1, n) = <<>>
      <4>1. NParms + 1 \in Int /\ n \in Int /\ n < NParms + 1
        BY <1>0, <2>5
      <4> QED
        BY <4>1, SubSeqEmpty
    <3> QED
      BY <1>3, <2>1, <2>2, <2>3, <2>5, <3>1
  <2> QED
    BY <2>4, <2>5
<1> QED
  BY <1>9, <1>10, <1>11

LEMMA RegularSays ==
  ASSUME Regular, "rest" \notin Irregular, NEW v, NEW n \in Nat, NEW to, NEW want, NEW set,
         isRegular(v, n, to, want, set), NEW run, run = realmethod(v, set)
  PROVE  /\ run = "v" => NParms <= n
         /\ run = "yv" => n <= NParms
         /\ run \in {"y", "yv"} => want # BCVARRET
<1>1. /\ run = "v" /\ n < NParms => "short" \in Irregular
      /\ run = "yv" /\ n > NParms => "rest" \in Irregular
      /\ run \in {"y", "yv"} => want # BCVARRET
  BY DEF isRegular
<1>2. "short" \notin Irregular
  BY DEF Regular
<1>3. NParms \in Nat
  BY Sizes
<1> QED
  BY <1>1, <1>2, <1>3

LEMMA WantsAre ==
  ASSUME NEW want \in Wants
  PROVE  want \in Promise!Some \cup {BCVARRET}
<1>1. want \in {0, MaxWant, BCVARRET}
  BY DEF Wants
<1>2. Promise!Some = 0 .. greater(MaxLive, MaxWant) /\ greater(MaxLive, MaxWant) \in Nat
      /\ MaxWant <= greater(MaxLive, MaxWant) /\ MaxWant \in Nat
  BY SomeAre, Sizes
<1> QED
  BY <1>1, <1>2

\* Where the code gets a call right, the caller has asked for room, and the values below the parameters stay.
LEMMA Prepared ==
  ASSUME Regular, SInv, NEW n \in Index, NEW mv, mv = live.top - n - 1, NEW t, Fits(t), t.calls = th.calls,
         t.size = th.size, t.top = live.top, ButFor(t, mv), NEW displaced \in {0, 1},
         displaced = 1 => t.stack[mv] = th.stack[mv], NEW want \in Wants, want # BCVARRET => RoomFor(mv + displaced, want),
         NEW v, NEW set, isRegular(v, n, t.top, want, set)
  PROVE  CanPrep(t, mv, displaced, want)
<1> PICK b \in Nat : b = begin(th)
  BY Here
<1> PICK z \in Nat : z = size(th)
  BY Here
<1>1. n \in Nat /\ n + 1 <= size(th) /\ mv \in Nat /\ Same(th, t, mv)
  BY Parted
<1>2. live.top = b + z
  BY Live
<1>3. b <= mv /\ mv < t.top /\ mv + displaced \in Nat
  <2>1. mv = (b + z) - n - 1 /\ t.top = b + z /\ n + 1 <= z
    BY <1>1, <1>2
  <2> QED
    BY ONLY <1>1, <2>1, b \in Nat, z \in Nat, displaced \in {0, 1}
<1>4. limit(t) = limit(th) /\ ci(t) = ci(th) /\ begin(t) = begin(th)
  BY DEF limit, ci, begin
<1>5. /\ want \in Nat /\ (want # BCVARRET => mv + displaced + want <= limit(th))
      /\ inBC => want # BCVARRET /\ mv + displaced + want <= begin(th) + MaxStack
  BY <1>3, Asked
<1>6. ~isFull(t, MaxStack) /\ ~isFull(t, STACK_MINSIZE)
  <2>1. t.top \in Nat
    BY <1>2
  <2> QED
    BY <2>1, NotFull
<1>7. Same(th, t, mv + displaced)
  <2>1. CASE displaced = 0
    BY <1>1, <2>1
  <2>2. CASE displaced = 1
    <3> SUFFICES ASSUME NEW x \in Nat, x < mv + 1 PROVE t.stack[x] = th.stack[x]
      BY <2>2 DEF Same
    <3>1. x < mv \/ x = mv
      BY <1>1
    <3> QED
      BY <1>1, <2>2, <3>1 DEF Same
  <2> QED
    BY <2>1, <2>2
<1>8. isByte(ci(t)) => want # BCVARRET /\ mv + displaced + want <= begin(t) + MaxStack
  BY <1>4, <1>5 DEF inBC
<1>9. want # BCVARRET => mv + displaced + want <= limit(t)
  BY <1>4, <1>5
<1>10. begin(th) <= mv
  BY <1>3
<1>11. Fits(t) /\ t.calls = th.calls /\ displaced \in {0, 1}
  OBVIOUS
<1> QED
  BY ONLY <1>1, <1>3, <1>5, <1>6, <1>7, <1>8, <1>9, <1>10, <1>11 DEF CanPrep

\* What a call puts into a new yielder.
LEMMA StartsWith ==
  ASSUME NEW t, NEW n, NEW mv, NEW args, AreGiven(t, mv, n, args),
         NEW v, NEW set \in BOOLEAN, NEW run, run = realmethod(v, set), run = "yv" => n <= NParms
  PROVE  (IF run \in {"y", "yv"} /\ ~set THEN yielderFrame(t, mv) ELSE <<>>)
           = IF Promise!Method(v, set) \in {"y", "yv"} THEN Promise!Yielder(v, args) ELSE <<>>
<1>1. Promise!Method(v, set) = IF set /\ ~isClosure(v) THEN "none" ELSE run
  BY MethodIs
<1>2. run \in {"y", "yv"} => v = run
  BY DEF realmethod, isClosure
<1>3. CASE run \in {"y", "yv"} /\ ~set
  <2>1. v \in {"y", "yv"} /\ (v = "yv" => n <= NParms)
    BY <1>2, <1>3
  <2>2. yielderFrame(t, mv) = Promise!Yielder(v, args)
    <3>1. v \in {"y", "yv"}
      BY <2>1
    <3> QED
      BY <2>1, <3>1, YielderFrameIs
  <2> QED
    BY <1>1, <1>3, <2>2
<1>4. CASE ~(run \in {"y", "yv"} /\ ~set)
  <2>1. Promise!Method(v, set) \notin {"y", "yv"}
    <3>1. CASE run \in {"y", "yv"}
      <4>1. set /\ ~isClosure(v)
        BY <1>2, <1>4, <3>1 DEF isClosure
      <4> QED
        BY <1>1, <4>1
    <3>2. CASE run \notin {"y", "yv"}
      BY <1>1, <3>2
    <3> QED
      BY <3>1, <3>2
  <2> QED
    BY <1>4, <2>1
<1> QED
  BY <1>3, <1>4

LEMMA CallMap ==
  ASSUME Regular, "rest" \notin Irregular, SInv, SInv', NEW m \in Properties \cup Callable, NEW n \in Index, NEW want \in Wants,
         NEW set \in BOOLEAN, Call(m, n, want, set)
  PROVE  \E v \in Promise!Called : Promise!Call(v, n, want, set)
<1> PICK mv : mv = live.top - n - 1
  OBVIOUS
<1> PICK t : t = looked(live, mv, m)
  OBVIOUS
<1> PICK v : v = t.stack[mv]
  OBVIOUS
<1> PICK run : run = realmethod(v, set)
  OBVIOUS
<1> PICK L : L = values(th)
  OBVIOUS
<1> PICK args : args = slots(t, mv + 1, t.top)
  OBVIOUS
<1> PICK kept : kept = slots(th, begin(th), mv)
  OBVIOUS
<1>1. /\ isRegular(v, n, live.top, want, set) /\ (want # BCVARRET => RoomFor(mv, want))
      /\ did' = <<"call", v, n, want, set, IF run \in {"y", "yv"} /\ ~set THEN yielderFrame(t, mv) ELSE <<>> >>
      /\ Becomes(IF set /\ ~isClosure(v) THEN invalidCall(t, mv, want) ELSE callMorCPrep(t, mv, want, set, 0))
  BY DEF Call
<1>2. /\ Fits(t) /\ t.calls = th.calls /\ t.size = th.size /\ t.top = live.top /\ mv \in Nat
      /\ begin(th) <= mv /\ mv < t.top /\ t.top - mv - 1 = n /\ t.top \in Nat
  BY Looked, FitsTypes
<1>3. ButFor(t, mv) /\ v \in Promise!Called
  BY LookedAt
<1>4. n \in Nat /\ args = Promise!Final(L, n) /\ kept = Promise!Without(L, n + 1)
  BY <1>2, <1>3, Parted
<1>5. CanPrep(t, mv, 0, want)
  <2>1. isRegular(v, n, t.top, want, set)
    BY <1>1, <1>2
  <2>2. want # BCVARRET => RoomFor(mv + 0, want)
    BY <1>1, <1>2
  <2>3. 0 \in {0, 1} /\ 0 # 1
    OBVIOUS
  <2> QED
    BY <1>2, <1>3, <2>1, <2>2, <2>3, Prepared
<1>6. /\ run = "v" => NParms <= n
      /\ run = "yv" => n <= NParms
      /\ run \in {"y", "yv"} => want # BCVARRET
  BY <1>1, <1>4, RegularSays
<1>7. Promise!Calls(v, args, kept, want, set)
  <2>1. CASE set /\ ~isClosure(v)
    <3>1. Becomes(invalidCall(t, mv, want))
      BY <1>1, <2>1
    <3>2. SubSeq(framesOf(th), 1, Len(th.calls))' = Promise!Now(kept \o Promise!Wanted(<<Null>>, want))
      BY <1>5, <3>1, invalidCallMap
    <3>3. Promise!Method(v, set) = "none"
      BY <2>1, MethodIs
    <3> QED
      BY <3>2, <3>3 DEF Promise!Calls, Promise!Null, Null
  <2>2. CASE ~(set /\ ~isClosure(v))
    <3>1. Becomes(callMorCPrep(t, mv, want, set, 0))
      BY <1>1, <2>2
    <3>2. kept = slots(th, begin(th), mv + 0) /\ (run = "none" => 0 = 0) /\ (run = "v" => NParms <= t.top - mv - 1)
      BY <1>2, <1>6
    <3> QED
      BY <1>5, <1>6, <2>2, <3>1, <3>2, callMorCPrepMap
  <2> QED
    BY <2>1, <2>2
<1>8. (IF run \in {"y", "yv"} /\ ~set THEN yielderFrame(t, mv) ELSE <<>>)
        = IF Promise!Method(v, set) \in {"y", "yv"} THEN Promise!Yielder(v, args) ELSE <<>>
  <2>1. t.top = mv + n + 1
    BY ONLY <1>2, <1>4
  <2>2. AreGiven(t, mv, n, args)
    BY <1>2, <1>4, <2>1 DEF AreGiven
  <2> QED
    BY <1>6, <2>2, StartsWith
<1>9. Promise!Locals = L
  BY MapLocals
<1>10. Promise!Call(v, n, want, set)
  BY <1>1, <1>4, <1>7, <1>8, <1>9 DEF Promise!Call
<1> QED
  BY <1>3, <1>10

LEMMA EachCallMap ==
  ASSUME Regular, "rest" \notin Irregular, SInv, SInv', NEW n \in Index, NEW want \in Wants, OpEachCall(n, want)
  PROVE  \E v \in Promise!Called : Promise!EachCall(v, n, want)
<1> PICK mv : mv = live.top - n - 1
  OBVIOUS
<1> PICK t : t = live
  OBVIOUS
<1> PICK v : v = th.stack[mv]
  OBVIOUS
<1> PICK run : run = realmethod(v, FALSE)
  OBVIOUS
<1> PICK L : L = values(th)
  OBVIOUS
<1> PICK args : args = slots(t, mv + 1, t.top)
  OBVIOUS
<1> PICK kept : kept = slots(th, begin(th), mv + 1)
  OBVIOUS
<1>1. /\ isRegular(v, n, live.top, want, FALSE) /\ RoomFor(mv + 1, want) /\ v \in Callable
      /\ did' = <<"each", v, n, want>>
      /\ Becomes(callMorCPrep(t, mv, want, FALSE, 1))
  BY DEF OpEachCall
<1>2. /\ Fits(t) /\ t.calls = th.calls /\ t.size = th.size /\ t.top = live.top /\ t.stack = th.stack
  BY Live
<1>3. ButFor(t, mv)
  BY <1>2 DEF ButFor
<1>4. n \in Nat /\ mv \in Nat /\ args = Promise!Final(L, n) /\ kept = Promise!Without(L, n)
  BY <1>2, <1>3, Parted
<1>5. CanPrep(t, mv, 1, want)
  <2>1. isRegular(v, n, t.top, want, FALSE)
    BY <1>1, <1>2
  <2>2. 1 \in {0, 1} /\ t.stack[mv] = th.stack[mv]
    BY <1>2
  <2> QED
    BY <1>1, <1>2, <1>3, <2>1, <2>2, Prepared
<1>6. /\ run = "v" => NParms <= n
      /\ run \in {"y", "yv"} => want # BCVARRET
  BY <1>1, <1>4, RegularSays
<1>7. run # "none"
  BY <1>1 DEF realmethod, isClosure, Callable
<1>8. Promise!Calls(v, args, kept, want, FALSE)
  <2>1. t.top - mv - 1 = n
    <3>1. live.top = begin(th) + size(th) /\ begin(th) + size(th) \in Nat
      BY Live, Here
    <3> QED
      BY ONLY <1>2, <1>4, <3>1, mv = live.top - n - 1
  <2>2. v = t.stack[mv] /\ FALSE \in BOOLEAN
    BY <1>2
  <2>3. run = realmethod(t.stack[mv], FALSE) /\ (run = "none" => 1 = 0) /\ (run = "v" => NParms <= t.top - mv - 1)
    BY <1>6, <1>7, <2>1, <2>2
  <2>4. Promise!Calls(t.stack[mv], args, kept, want, FALSE)
    BY <1>1, <1>5, <1>6, <2>2, <2>3, callMorCPrepMap
  <2> QED
    BY <2>2, <2>4
<1>9. Promise!Locals = L
  BY MapLocals
<1>10. Promise!EachCall(v, n, want)
  BY <1>1, <1>4, <1>8, <1>9 DEF Promise!EachCall
<1>11. v \in Promise!Called
  BY <1>1 DEF Promise!Called, Promise!Callable, Promise!Methods, Promise!Closures, Callable
<1> QED
  BY <1>10, <1>11

LEMMA SetPropMap ==
  ASSUME Regular, "set" \notin Irregular, SInv, SInv', NEW m \in Properties, NEW i \in Index, popSetActProp(m, i)
  PROVE  Promise!SetProp(m, i) /\ m \in Promise!Called
<1> PICK L : L = values(th)
  OBVIOUS
<1>1. m \notin Callable /\ inC /\ size(th) > 0 /\ did' = <<"set property", m, i>> /\ Becomes(popped(th, 1))
  BY DEF popSetActProp
<1>2. Promise!Locals = L
  BY MapLocals
<1>3. m \in Promise!Called
  BY PropertiesFit DEF Promise!Called, Promise!Callable, Promise!Methods, Promise!Closures, Callable, Promise!Null, Null
<1>4. m \notin Promise!Closures
  BY <1>1 DEF Promise!Closures, Callable
<1>5. SubSeq(framesOf(th), 1, Len(th.calls))' = Promise!Now(Promise!Front(L))
  BY <1>1, PopStep
<1> QED
  BY <1>1, <1>2, <1>3, <1>4, <1>5 DEF Promise!SetProp

(***************************************************************************)
(* Returns: the values follow what the caller kept.                        *)
(***************************************************************************)
CanEnd(t, vals) ==
  /\ Fits(t) /\ t.calls = th.calls /\ Len(th.calls) > 1 /\ vals \in Seq(Stored)
  /\ ci(t).retTo + Len(vals) <= limit(t) /\ Same(th, t, ci(th).retTo)
\* stk_top may go on to the end of the caller's registers.
Leaves(t, vals, y) ==
  LET u == back(AsReturned(t, Len(vals), vals)) IN y = u \/ (isByte(ci(u)) /\ y = ToEnd(u))

LEMMA LeavingIs ==
  ASSUME NEW t, NEW vals, CanEnd(t, vals), NEW c, c = t.calls[Len(t.calls) - 1], NEW y, Leaves(t, vals, y)
  PROVE  /\ Fits(y) /\ y.stack = put(t, ci(t).retTo, vals).stack /\ Len(y.calls) = Len(t.calls) - 1
         /\ \A i \in 1 .. Len(t.calls) - 2 : y.calls[i] = t.calls[i]
         /\ SameCall(c, ci(y)) /\ ci(y).retTo = c.retTo /\ begin(y) = c.begin
         /\ size(y) = ci(t).retTo + Len(vals) - c.begin
<1>1. /\ Fits(t) /\ t.calls = th.calls /\ Len(t.calls) > 1 /\ vals \in Seq(Stored)
      /\ ci(t).retTo + Len(vals) <= limit(t)
  BY DEF CanEnd
<1> PICK k \in Nat : k = Len(vals)
  BY <1>1, LenProperties
<1> PICK x : x = AsReturned(t, k, vals)
  OBVIOUS
<1>2. /\ Fits(x) /\ x \in Thread /\ x.size = t.size /\ Len(x.calls) = Len(t.calls) - 1
      /\ \A i \in 1 .. Len(t.calls) - 1 : x.calls[i] = t.calls[i]
      /\ ci(x) = c /\ x.stack = put(t, ci(t).retTo, vals).stack
      /\ x.top = ci(t).retTo + k /\ x.top <= limit(x) /\ begin(x) <= x.top
  BY <1>1, AsReturnedOK
<1> PICK u : u = back(x)
  OBVIOUS
<1>3. /\ Fits(u) /\ u.stack = x.stack /\ Len(u.calls) = Len(x.calls)
      /\ \A i \in 1 .. Len(x.calls) - 1 : u.calls[i] = x.calls[i]
      /\ SameCall(ci(x), ci(u)) /\ ci(u).retTo = ci(x).retTo /\ begin(u) = begin(x) /\ size(u) = x.top - begin(x)
  <2>1. u = back(x)
    OBVIOUS
  <2> QED
    BY ONLY <1>2, <2>1, BackLike
<1>4. begin(x) = c.begin
  BY <1>2 DEF begin
<1>5. Len(t.calls) \in Nat /\ (Len(t.calls) - 1) - 1 = Len(t.calls) - 2
  BY <1>1, FitsTypes
<1>6. \A i \in 1 .. Len(t.calls) - 2 : u.calls[i] = t.calls[i]
  <2> TAKE i \in 1 .. Len(t.calls) - 2
  <2>1. i \in 1 .. Len(t.calls) - 1 /\ i \in 1 .. Len(x.calls) - 1
    BY <1>2, <1>5
  <2> QED
    BY <1>2, <1>3, <2>1
<1>7. y = u \/ (isByte(ci(u)) /\ y = ToEnd(u))
  BY DEF Leaves
<1> DEFINE AsSaid(z) ==
      /\ z.stack = put(t, ci(t).retTo, vals).stack /\ Len(z.calls) = Len(t.calls) - 1
      /\ \A i \in 1 .. Len(t.calls) - 2 : z.calls[i] = t.calls[i]
      /\ SameCall(c, ci(z)) /\ ci(z).retTo = c.retTo /\ begin(z) = c.begin
      /\ size(z) = ci(t).retTo + Len(vals) - c.begin
<1>10. AsSaid(u)
  <2>1. size(u) = ci(t).retTo + Len(vals) - c.begin
    <3>1. x.top = ci(t).retTo + Len(vals)
      BY <1>2
    <3>2. size(u) = x.top - begin(x)
      BY <1>3
    <3>3. ci(t).retTo \in Nat /\ Len(vals) \in Nat /\ begin(x) \in Nat
      BY <1>1, <1>2, FitsTypes
    <3> QED
      BY ONLY <1>4, <3>1, <3>2, <3>3
  <2>2. SameCall(c, ci(u)) /\ ci(u).retTo = c.retTo /\ begin(u) = c.begin
    BY <1>2, <1>3, <1>4
  <2>3. u.stack = put(t, ci(t).retTo, vals).stack /\ Len(u.calls) = Len(t.calls) - 1
    BY <1>2, <1>3
  <2> QED
    BY <1>6, <2>1, <2>2, <2>3
<1>8. CASE y = u
  BY <1>3, <1>8, <1>10
<1>9. CASE isByte(ci(u)) /\ y = ToEnd(u)
  <2>1. Fits(y)
    BY <1>3, <1>9, AtEnd
  <2>2. y.stack = u.stack /\ y.calls = u.calls
    <3>1. u \in Thread
      BY <1>3, FitsTypes
    <3> QED
      BY <1>9, <3>1 DEF ToEnd, Thread
  <2>3. ci(y) = ci(u) /\ begin(y) = begin(u) /\ size(y) = size(u)
    BY <1>9, <2>2 DEF ci, begin, size
  <2>4. AsSaid(y)
    BY <1>10, <2>2, <2>3
  <2> QED
    BY <2>1, <2>4
<1> QED
  BY <1>7, <1>8, <1>9

LEMMA EndedStep ==
  ASSUME SInv, SInv', NEW t, NEW vals, CanEnd(t, vals), NEW y, Leaves(t, vals, y), Becomes(y),
         NEW s, vals = Promise!Wanted(s, ci(th).want)
  PROVE  Promise!Returned(s)
<1>1. /\ Fits(t) /\ t.calls = th.calls /\ Len(th.calls) > 1 /\ vals \in Seq(Stored)
      /\ ci(t).retTo + Len(vals) <= limit(t) /\ Same(th, t, ci(th).retTo)
  BY DEF CanEnd
<1> PICK N \in Nat : N = Len(th.calls)
  BY Now
<1>0. N > 1
  BY <1>1
<1> PICK n \in Nat : n = N - 1
  BY ONLY <1>0, N \in Nat
<1> PICK c : c = th.calls[n]
  OBVIOUS
<1> PICK f \in Nat : f = ci(th).retTo
  BY FitsTypes DEF SInv
<1> PICK F : F = framesOf(th)
  OBVIOUS
<1> PICK kept : kept = slots(th, c.begin, f)
  OBVIOUS
<1>2. ci(t) = ci(th) /\ n >= 1 /\ n + 1 = N /\ n \in 1 .. N /\ n # N
  BY <1>1 DEF ci
<1>3. c.begin \in Nat /\ c.begin <= f
  <2>1. /\ c.begin \in Nat /\ th.calls[N].base \in Nat /\ th.calls[N].retTo \in Nat
        /\ th.calls[N].base <= th.calls[N].retTo /\ c.begin <= th.calls[n + 1].base
    <3>1. Fits(th) /\ N \in 1 .. Len(th.calls) /\ n \in 1 .. Len(th.calls) /\ n \in 1 .. Len(th.calls) - 1
      BY <1>2 DEF SInv
    <3> QED
      BY <3>1, Areas
  <2>2. ci(th) = th.calls[N]
    BY DEF ci, Last
  <2> QED
    BY SMTT(30), ZenonT(30), <1>2, <2>1, <2>2
<1>4. /\ Fits(y) /\ y.stack = put(t, f, vals).stack /\ Len(y.calls) = n
      /\ \A i \in 1 .. N - 2 : y.calls[i] = th.calls[i]
      /\ SameCall(c, ci(y)) /\ ci(y).retTo = c.retTo /\ begin(y) = c.begin
      /\ size(y) = f + Len(vals) - c.begin
  <2>1. c = t.calls[Len(t.calls) - 1] /\ Len(t.calls) = N
    BY <1>1
  <2>2. /\ Fits(y) /\ y.stack = put(t, ci(t).retTo, vals).stack /\ Len(y.calls) = Len(t.calls) - 1
        /\ \A i \in 1 .. Len(t.calls) - 2 : y.calls[i] = t.calls[i]
        /\ SameCall(c, ci(y)) /\ ci(y).retTo = c.retTo /\ begin(y) = c.begin
        /\ size(y) = ci(t).retTo + Len(vals) - c.begin
    BY SMTT(30), ZenonT(30), <2>1, LeavingIs
  <2> QED
    BY <1>1, <1>2, <2>1, <2>2
<1> PICK k \in Nat : k = Len(vals)
  BY <1>1, LenProperties
<1>5. t \in Thread /\ f + k < STACK_MAXSIZE
  <2>1. t \in Thread /\ limit(t) \in Int /\ limit(t) < STACK_MAXSIZE
    BY <1>1, FitsTypes
  <2>2. f + k <= limit(t)
    BY <1>1, <1>2
  <2> QED
    BY ONLY <2>1, <2>2, f \in Nat, k \in Nat, Sizes
<1>6. \A p \in Nat : p <= STACK_MAXSIZE => y.stack[p] = IF f <= p /\ p < f + k THEN vals[p - f + 1] ELSE t.stack[p]
  <2> TAKE p \in Nat
  <2> HAVE p <= STACK_MAXSIZE
  <2>1. put(t, f, vals).stack[p] = IF f <= p /\ p < f + Len(vals) THEN vals[p - f + 1] ELSE t.stack[p]
    BY ONLY <1>1, <1>5, f \in Nat, p \in Nat, p <= STACK_MAXSIZE, putAt
  <2> QED
    BY <1>4, <2>1
<1>7. \A p \in Nat : p < f => y.stack[p] = th.stack[p]
  <2> TAKE p \in Nat
  <2> HAVE p < f
  <2>1. p <= STACK_MAXSIZE /\ ~(f <= p)
    BY ONLY <1>5, p < f, p \in Nat, f \in Nat, k \in Nat, Sizes
  <2>2. t.stack[p] = th.stack[p]
    BY <1>1 DEF Same
  <2> QED
    BY <1>6, <2>1, <2>2
<1>8. Follow(y, c.begin, f, vals)
  <2>1. f + Len(vals) <= STACK_MAXSIZE
    BY ONLY <1>5, k = Len(vals), f \in Nat, k \in Nat, Sizes
  <2>2. \A p \in Nat : f <= p /\ p < f + Len(vals) => y.stack[p] = vals[p - f + 1]
    <3> TAKE p \in Nat
    <3> HAVE f <= p /\ p < f + Len(vals)
    <3>1. p <= STACK_MAXSIZE
      BY ONLY <2>1, f <= p /\ p < f + Len(vals), k = Len(vals), p \in Nat, f \in Nat, k \in Nat, Sizes
    <3> QED
      BY <1>6, <3>1
  <2> QED
    BY <1>1, <1>3, <1>4, <1>7, <2>1, <2>2 DEF Follow
<1>9. values(y) = kept \o vals
  BY <1>8, FollowIs
<1> PICK v : v = th'
  OBVIOUS
<1>10. /\ Fits(th) /\ Fits(v) /\ Len(th.calls) > 1 /\ Len(v.calls) = Len(th.calls) - 1
       /\ \A i \in 1 .. Len(th.calls) - 2 : v.calls[i] = th.calls[i]
       /\ SameCall(th.calls[Len(th.calls) - 1], ci(v)) /\ ci(v).retTo = th.calls[Len(th.calls) - 1].retTo
       /\ Same(th, v, ci(th).retTo) /\ values(v) = kept \o vals
  <2>1. y \in Thread
    BY <1>4, FitsTypes
  <2>2. /\ th'.calls = y.calls /\ ci(th') = ci(y) /\ Same(y, th', begin(y) + size(y)) /\ values(th') = values(y)
    BY <2>1, Became
  <2>3. Same(th, v, f)
    <3> SUFFICES ASSUME NEW p \in Nat, p < f PROVE v.stack[p] = th.stack[p]
      BY DEF Same
    <3>1. begin(y) + size(y) = f + k
      BY ONLY <1>3, <1>4, f \in Nat, k \in Nat, k = Len(vals)
    <3>2. p < f + k
      BY ONLY p < f, p \in Nat, f \in Nat, k \in Nat
    <3>3. v.stack[p] = y.stack[p]
      BY <2>2, <3>1, <3>2 DEF Same
    <3> QED
      BY <1>7, <3>3
  <2>4. Fits(th) /\ Fits(v)
    BY DEF SInv
  <2>5. Len(v.calls) = Len(th.calls) - 1 /\ \A i \in 1 .. Len(th.calls) - 2 : v.calls[i] = th.calls[i]
    BY <1>4, <2>2
  <2>6. SameCall(th.calls[Len(th.calls) - 1], ci(v)) /\ ci(v).retTo = th.calls[Len(th.calls) - 1].retTo
    BY <1>4, <2>2
  <2> QED
    BY <1>1, <1>9, <2>2, <2>3, <2>4, <2>5, <2>6
<1>11. framesOf(v) = [Front(F) EXCEPT ![n].locals = kept \o vals]
  <2>1. framesOf(v) = [Front(framesOf(th)) EXCEPT ![Len(th.calls) - 1].locals = values(v)]
    BY ONLY <1>10, Ended
  <2> QED
    BY <1>10, <2>1
<1>12. Len(F) = N /\ F[n] = frameOfCall(th, n) /\ SubSeq(F, 1, N) = F
  BY <1>2, <1>10, FrameIs, Running
<1>13. F[n].locals = kept
  <2>1. upTo(th, n) = th.calls[n + 1].retTo
    BY <1>2 DEF upTo
  <2>2. ci(th) = th.calls[N]
    BY DEF ci, Last
  <2>3. upTo(th, n) = f
    BY <1>2, <2>1, <2>2
  <2> QED
    BY <1>12, <2>3 DEF frameOfCall
<1>14. Front(F)[n].locals = kept
  <2>1. PICK S : F \in Seq(S)
    BY FrameSeqs, <1>2
  <2>2. n \in 1 .. Len(F) - 1 /\ Len(F) >= 1
    BY <1>2, <1>12
  <2>3. Front(F)[n] = F[n]
    BY <2>1, <2>2, FrontProperties
  <2> QED
    BY <1>13, <2>3
<1>15. SubSeq(framesOf(th), 1, Len(th.calls))' = framesOf(v)
  <2>1. SubSeq(framesOf(v), 1, Len(v.calls)) = framesOf(v)
    BY ONLY <1>10, Whole
  <2> QED
    BY <2>1
<1>16. Promise!Last(F).want = ci(th).want
  <2>1. framesOf(th)[Len(th.calls)].want = ci(th).want
    BY Running
  <2> QED
    BY <1>12, <2>1 DEF Promise!Last
<1>17. [Front(F) EXCEPT ![n].locals = kept \o vals] = [Front(F) EXCEPT ![n].locals = @ \o vals]
  BY <1>14
<1>18. Promise!Front(F) = Front(F)
  BY DEF Promise!Front, Front
<1>19. Promise!Returned(s) <=>
         SubSeq(framesOf(th), 1, Len(th.calls))' = [Promise!Front(F) EXCEPT ![N - 1].locals = @ \o vals]
  <2>1. SubSeq(framesOf(th), 1, Len(th.calls)) = F /\ Len(F) = N
    BY <1>12
  <2> QED
    BY <1>16, <2>1 DEF Promise!Returned
<1> QED
  BY <1>11, <1>15, <1>17, <1>18, <1>19

\* What a caller is given of n values from slot 'from' on.
Given(from, n) ==
  [j \in 1 .. IF ci(th).want = BCVARRET THEN n ELSE ci(th).want |-> IF j <= n THEN th.stack[from + j - 1] ELSE Null]
LEMMA GivenIs ==
  ASSUME SInv, Len(th.calls) > 1, NEW i \in Nat, NEW n \in Nat, i + n <= size(th), NEW vals, vals = Given(begin(th) + i, n)
  PROVE  vals = Promise!Wanted(SubSeq(values(th), i + 1, i + n), ci(th).want) /\ CanEnd(th, vals)
<1> PICK b \in Nat : b = begin(th)
  BY Here
<1> PICK z \in Nat : z = size(th)
  BY Here
<1> PICK L : L = values(th)
  OBVIOUS
<1> PICK w \in Nat : w = ci(th).want
  <2>1. Fits(th)
    BY DEF SInv
  <2> QED
    BY <2>1, FitsTypes
<1> PICK want : want = IF w = BCVARRET THEN n ELSE w
  OBVIOUS
<1> PICK s : s = SubSeq(L, i + 1, i + n)
  OBVIOUS
<1>1. L \in Seq(Stored) /\ Len(L) = z /\ \A j \in 1 .. z : L[j] = th.stack[b + j - 1]
  <2>1. Len(L) = z
    BY MapLocals
  <2> QED
    BY <2>1, Here
<1>2. want \in Nat /\ i + n <= z
  OBVIOUS
<1>3. s \in Seq(Stored) /\ Len(s) = n /\ \A j \in 1 .. n : s[j] = th.stack[b + i + j - 1]
  <2> PICK m \in Nat : m = i + 1
    OBVIOUS
  <2> PICK e \in Nat : e = i + n
    OBVIOUS
  <2>1. m >= 1 /\ m <= e + 1 /\ e <= Len(L) /\ e - m + 1 = n
    BY ONLY <1>1, <1>2, m = i + 1, e = i + n, i \in Nat, n \in Nat, z \in Nat
  <2>2. /\ SubSeq(L, m, e) \in Seq(Stored) /\ Len(SubSeq(L, m, e)) = e - m + 1
        /\ \A j \in 1 .. e - m + 1 : SubSeq(L, m, e)[j] = L[m + j - 1]
    BY ONLY <1>1, <2>1, m \in Nat, e \in Nat, PartIs
  <2>3. \A j \in 1 .. n : L[m + j - 1] = th.stack[b + i + j - 1]
    <3> TAKE j \in 1 .. n
    <3> PICK g \in 1 .. z : g = m + j - 1
      BY ONLY <1>2, m = i + 1, i \in Nat, n \in Nat, z \in Nat, j \in 1 .. n
    <3>1. b + g - 1 = b + i + j - 1
      BY ONLY g = m + j - 1, m = i + 1, i \in Nat, n \in Nat, b \in Nat, j \in 1 .. n
    <3> QED
      BY <1>1, <3>1
  <2> QED
    BY <2>1, <2>2, <2>3
<1>4. vals = [j \in 1 .. want |-> IF j <= n THEN th.stack[b + i + j - 1] ELSE Null]
  BY DEF Given
<1>5. vals \in Seq(Stored) /\ Len(vals) = want /\ \A j \in 1 .. want : vals[j] = IF j <= n THEN s[j] ELSE Null
  <2>1. \A j \in 1 .. want : vals[j] = IF j <= n THEN s[j] ELSE Null
    <3> TAKE j \in 1 .. want
    <3>1. j <= n => j \in 1 .. n
      BY ONLY <1>2, n \in Nat, j \in 1 .. want
    <3> QED
      BY ONLY <1>3, <1>4, <3>1, j \in 1 .. want
  <2>2. \A j \in 1 .. want : vals[j] \in Stored
    <3> TAKE j \in 1 .. want
    <3>1. CASE j <= n
      <4>1. j \in 1 .. Len(s)
        BY ONLY <1>2, <1>3, <3>1, n \in Nat, j \in 1 .. want
      <4>2. s[j] \in Stored
        BY <1>3, <4>1, ElementOfSeq
      <4> QED
        BY <2>1, <3>1, <4>2
    <3>2. CASE ~(j <= n)
      BY <2>1, <3>2 DEF Stored
    <3> QED
      BY <3>1, <3>2
  <2>3. vals \in [1 .. want -> Stored]
    BY ONLY <1>4, <2>2
  <2> QED
    BY <1>2, <2>1, <2>3, FunctionIsSeq
<1>6. vals = Promise!Wanted(s, w)
  <2>1. CASE w = BCVARRET
    <3>1. want = n /\ Promise!Wanted(s, w) = s
      BY <2>1 DEF Promise!Wanted
    <3>2. \A j \in 1 .. Len(s) : vals[j] = s[j]
      BY <1>3, <1>5, <3>1
    <3>3. vals = s
      BY ONLY <1>3, <1>5, <3>1, <3>2, SeqsEqual
    <3> QED
      BY <3>1, <3>3
  <2>2. CASE w # BCVARRET
    <3> PICK q : q = Promise!Padded(s, w)
      OBVIOUS
    <3>1. want = w /\ Promise!Wanted(s, w) = q
      BY <2>2 DEF Promise!Wanted
    <3>2. /\ q \in Seq(Stored) /\ Len(q) = w
          /\ \A j \in 1 .. w : q[j] = IF j <= Len(s) THEN s[j] ELSE Null
      <4>1. Null \in Stored
        BY DEF Stored
      <4> QED
        BY ONLY <1>3, <4>1, w \in Nat, q = Promise!Padded(s, w), PaddedIs
    <3>3. \A j \in 1 .. Len(q) : vals[j] = q[j]
      BY ONLY <1>3, <1>5, <3>1, <3>2
    <3>4. vals = q
      BY ONLY <1>5, <3>1, <3>2, <3>3, SeqsEqual
    <3> QED
      BY <3>1, <3>4
  <2> QED
    BY <2>1, <2>2
<1>7. CanEnd(th, vals)
  <2>1. Fits(th)
    BY DEF SInv
  <2>2. /\ limit(th) \in Int /\ FrameOK(th, ci(th)) /\ begin(th) = ci(th).begin
        /\ ci(th).retTo \in Nat /\ ci(th).want \in Nat /\ b + z <= limit(th)
    BY <2>1, FitsTypes, Area
  <2>3. ci(th).retTo + want <= limit(th)
    <3>1. CASE w = BCVARRET
      <4>1. want = n /\ i + n <= z /\ b + z <= limit(th) /\ ci(th).retTo <= b
        BY <1>2, <2>2, <3>1 DEF FrameOK
      <4> QED
        BY ONLY <2>2, <4>1, i \in Nat, n \in Nat, z \in Nat, b \in Nat
    <3>2. CASE w # BCVARRET
      BY <2>2, <3>2 DEF FrameOK
    <3> QED
      BY <3>1, <3>2
  <2>4. Same(th, th, ci(th).retTo)
    BY DEF Same
  <2> QED
    BY <1>5, <2>1, <2>3, <2>4 DEF CanEnd
<1> QED
  BY <1>6, <1>7

LEMMA LeavesBy ==
  ASSUME SInv, NEW from, NEW n \in Nat, NEW vals, vals = Given(from, n), Len(vals) = IF ci(th).want = BCVARRET THEN n ELSE ci(th).want,
         NEW y, y = returned(th, from, n) \/ y = OpReturnTo(th, from, n)
  PROVE  Leaves(th, vals, y)
<1> PICK u : u = returned(th, from, n)
  OBVIOUS
<1>1. u = back(AsReturned(th, Len(vals), vals))
  BY DEF returned, AsReturned, Given
<1>2. OpReturnTo(th, from, n) = u \/ (isByte(ci(u)) /\ OpReturnTo(th, from, n) = ToEnd(u))
  BY DEF OpReturnTo, ToEnd
<1> QED
  BY <1>1, <1>2 DEF Leaves

LEMMA ReturnMap ==
  ASSUME SInv, SInv', NEW i \in 0 .. size(th), NEW n \in 0 .. size(th), Return(i, n)
  PROVE  Len(th.calls) > 1 /\ i + n <= Len(Promise!Locals) /\ Promise!Return(i, n)
<1> PICK b \in Nat : b = begin(th)
  BY Here
<1> PICK z \in Nat : z = size(th)
  BY Here
<1> PICK vals : vals = Given(b + i, n)
  OBVIOUS
<1> PICK s : s = SubSeq(values(th), i + 1, i + n)
  OBVIOUS
<1>1. /\ Len(th.calls) > 1 /\ i + n <= z /\ did' = <<"return", i, n>>
      /\ \/ inC /\ i + n = z /\ Becomes(returned(th, th.top - n, n))
         \/ Becomes(OpReturnTo(th, b + i, n))
  BY DEF Return
<1>2. i \in Nat /\ n \in Nat
  OBVIOUS
<1>3. vals = Promise!Wanted(s, ci(th).want) /\ CanEnd(th, vals)
  BY <1>1, <1>2, GivenIs
<1>4. PICK y : Becomes(y) /\ (y = returned(th, b + i, n) \/ y = OpReturnTo(th, b + i, n))
  <2>1. CASE inC /\ i + n = z /\ Becomes(returned(th, th.top - n, n))
    <3>1. th.top = b + z
      BY <2>1, Here
    <3>2. th.top - n = b + i
      BY ONLY <1>2, <2>1, <3>1, b \in Nat, z \in Nat
    <3> QED
      BY <2>1, <3>2
  <2> QED
    BY <1>1, <2>1
<1>5. Leaves(th, vals, y)
  <2>1. Len(vals) = IF ci(th).want = BCVARRET THEN n ELSE ci(th).want
    <3>1. (IF ci(th).want = BCVARRET THEN n ELSE ci(th).want) \in Nat
      <4>1. Fits(th)
        BY DEF SInv
      <4> QED
        BY <1>2, <4>1, FitsTypes
    <3>2. vals \in Seq(Stored)
      BY <1>3 DEF CanEnd
    <3>3. DOMAIN vals = 1 .. IF ci(th).want = BCVARRET THEN n ELSE ci(th).want
      BY DEF Given
    <3> QED
      BY ONLY <3>1, <3>2, <3>3, LenProperties
  <2> QED
    BY <1>2, <1>4, <2>1, LeavesBy
<1>6. Promise!Returned(s)
  BY <1>3, <1>4, <1>5, EndedStep
<1>7. Promise!Locals = values(th) /\ Len(values(th)) = z
  BY MapLocals
<1> QED
  BY <1>1, <1>6, <1>7 DEF Promise!Return

\* A method that ends its own call with a call gives its frame away.
LEMMA TailMap ==
  ASSUME SInv, SInv', NEW t, NEW mv, NEW run, CanTail(t, mv, run), t.calls = th.calls, Same(th, t, mv),
         Becomes(tailcallMorCPrep(t, mv)), NEW args, args = slots(t, mv + 1, t.top)
  PROVE  SubSeq(framesOf(th), 1, Len(th.calls))'
           = Append(Promise!Front(SubSeq(framesOf(th), 1, Len(th.calls))), Promise!Frame(t.stack[mv], run, args, ci(th).want))
<1> PICK F : F = framesOf(th)
  OBVIOUS
<1> PICK N : N = Len(th.calls)
  OBVIOUS
<1> PICK u : u = tailcallMorCPrep(t, mv)
  OBVIOUS
<1> PICK frame : frame = TailFrame(t, mv, run)
  OBVIOUS
<1> PICK v : v = th'
  OBVIOUS
<1>1. Fits(th) /\ Fits(v) /\ Fits(t) /\ mv \in Nat /\ begin(t) <= mv /\ mv < t.top /\ ci(t).retTo = ci(t).base
  BY DEF SInv, CanTail
<1>2. /\ t \in Thread /\ t.top \in Nat /\ t.top <= limit(t) /\ limit(t) \in Int /\ limit(t) < STACK_MAXSIZE
      /\ ci(t).base \in Nat /\ begin(t) \in Nat /\ ci(t).base < begin(t) /\ ci(t).want \in Nat
  BY <1>1, FitsTypes DEF FrameOK
<1> PICK base \in Nat : base = ci(t).base
  BY <1>2
<1> PICK top \in Nat : top = t.top
  BY <1>2
<1>3. base < mv /\ mv < top /\ top <= STACK_MAXSIZE /\ mv + 1 \in Nat /\ t.top - mv = top - mv
  BY ONLY <1>1, <1>2, base = ci(t).base, top = t.top, base \in Nat, top \in Nat, Sizes
<1>4. ci(t) = ci(th) /\ N \in Nat /\ N >= 1
  BY <1>1, FitsTypes DEF ci
<1>5. /\ Fits(u) /\ Len(u.calls) = N /\ ci(u).retTo = ci(t).retTo
      /\ \A i \in 1 .. N - 1 : u.calls[i] = th.calls[i]
  BY tailcallMorCPrepOK
<1>6. /\ frame \in Thread /\ frame.top = base + (top - mv)
      /\ frame.stack = put(t, base, slots(t, mv, top)).stack
      /\ CanLayOut(frame, run, base, 0, ci(t).want) /\ u = LaidOut(frame, run, base)
  BY TailLaidOut
<1>7. slots(t, mv, top) \in Seq(Stored) /\ Len(slots(t, mv, top)) = top - mv
  <2>1. top <= STACK_ERRORSIZE /\ mv <= top
    BY ONLY <1>2, <1>3, <1>1, top = t.top, Sizes
  <2>2. mv \in Nat
    BY <1>1
  <2> QED
    BY ONLY <1>2, <2>1, <2>2, top \in Nat, slotsOK
<1>8. \A i \in 1 .. top - mv : slots(t, mv, top)[i] = t.stack[mv + i - 1]
  BY DEF slots
<1>9. \A x \in Nat : x <= STACK_MAXSIZE => frame.stack[x] = IF base <= x /\ x < base + (top - mv) THEN t.stack[mv + (x - base)] ELSE t.stack[x]
  <2> TAKE x \in Nat
  <2> HAVE x <= STACK_MAXSIZE
  <2>1. frame.stack[x] = IF base <= x /\ x < base + (top - mv) THEN slots(t, mv, top)[x - base + 1] ELSE t.stack[x]
    <3>1. put(t, base, slots(t, mv, top)).stack[x] = IF base <= x /\ x < base + Len(slots(t, mv, top)) THEN slots(t, mv, top)[x - base + 1] ELSE t.stack[x]
      BY ONLY <1>2, <1>7, base \in Nat, x \in Nat, x <= STACK_MAXSIZE, putAt
    <3> QED
      BY ONLY <1>6, <1>7, <3>1
  <2>2. CASE base <= x /\ x < base + (top - mv)
    <3>1. x - base + 1 \in 1 .. top - mv /\ mv + (x - base + 1) - 1 = mv + (x - base)
      BY ONLY <1>1, <1>3, <2>2, x \in Nat, base \in Nat, top \in Nat
    <3> QED
      BY <1>8, <2>1, <2>2, <3>1
  <2>3. CASE ~(base <= x /\ x < base + (top - mv))
    BY <2>1, <2>3
  <2> QED
    BY <2>2, <2>3
<1>10. frame.stack[base] = t.stack[mv]
  <2>1. base <= STACK_MAXSIZE /\ base <= base /\ base < base + (top - mv) /\ mv + (base - base) = mv
    BY ONLY <1>1, <1>3, base \in Nat, top \in Nat, Sizes
  <2>2. frame.stack[base] = t.stack[mv + (base - base)]
    BY ONLY <1>9, <2>1, base \in Nat
  <2> QED
    BY ONLY <2>1, <2>2
<1>11. slots(frame, base + 1, frame.top) = args
  <2>1. frame.top - (base + 1) = top - (mv + 1)
    BY ONLY <1>1, <1>3, <1>6, base \in Nat, top \in Nat
  <2>2. \A i \in 1 .. top - (mv + 1) : frame.stack[base + 1 + i - 1] = t.stack[mv + 1 + i - 1]
    <3> TAKE i \in 1 .. top - (mv + 1)
    <3> PICK x \in Nat : x = base + 1 + i - 1
      OBVIOUS
    <3>1. x <= STACK_MAXSIZE /\ base <= x /\ x < base + (top - mv) /\ mv + (x - base) = mv + 1 + i - 1
      BY ONLY <1>1, <1>3, x = base + 1 + i - 1, base \in Nat, top \in Nat, i \in 1 .. top - (mv + 1), Sizes
    <3> QED
      BY ONLY <1>9, <3>1, x \in Nat, x = base + 1 + i - 1
  <2>3. args = slots(t, mv + 1, top)
    OBVIOUS
  <2> QED
    BY ONLY <2>1, <2>2, <2>3 DEF slots
<1>12. Same(frame, u, base + 1) /\ frameOfCall(u, Len(u.calls)) = Promise!Frame(t.stack[mv], run, args, ci(t).want)
  <2>1. args = slots(frame, base + 1, frame.top)
    BY <1>11
  <2> QED
    BY ONLY <1>5, <1>6, <1>10, <2>1, LaidOutIs
<1>13. Same(th, u, base)
  <2> SUFFICES ASSUME NEW x \in Nat, x < base PROVE u.stack[x] = th.stack[x]
    BY DEF Same
  <2>1. x < base + 1 /\ x < mv /\ x <= STACK_MAXSIZE /\ ~(base <= x)
    BY ONLY <1>1, <1>3, x \in Nat, x < base, base \in Nat, top \in Nat, Sizes
  <2>2. u.stack[x] = frame.stack[x]
    BY <1>12, <2>1 DEF Same
  <2>3. frame.stack[x] = t.stack[x]
    BY <1>9, <2>1
  <2>4. t.stack[x] = th.stack[x]
    BY <2>1 DEF Same
  <2> QED
    BY <2>2, <2>3, <2>4
<1>14. u \in Thread
  BY <1>5, FitsTypes
<1>15. /\ v.calls = u.calls /\ ci(v) = ci(u) /\ begin(u) \in Nat /\ size(u) \in Nat
       /\ Same(u, v, begin(u) + size(u)) /\ frameOfCall(v, N) = frameOfCall(u, N)
  <2>1. Len(v.calls) = N /\ Len(u.calls) = N
    BY <1>5, <1>14, Became
  <2>2. frameOfCall(v, Len(v.calls)) = frameOfCall(u, Len(u.calls))
    BY <1>5, BecameFrame
  <2> QED
    BY <1>14, <2>1, <2>2, Became
<1>16. Same(th, v, base)
  <2>1. base <= begin(u) + size(u)
    <3>1. ci(u).retTo <= begin(u) /\ ci(u).retTo = base
      BY <1>1, <1>5, FitsTypes DEF FrameOK, begin
    <3> QED
      BY <1>15, <3>1
  <2> SUFFICES ASSUME NEW x \in Nat, x < base PROVE v.stack[x] = th.stack[x]
    BY DEF Same
  <2>2. x < begin(u) + size(u)
    BY <1>15, <2>1
  <2> QED
    BY <1>13, <1>15, <2>2 DEF Same
<1>17. framesOf(v) = Append(Front(F), frameOfCall(v, N))
  <2>1. Len(v.calls) = N /\ ci(v).retTo = ci(th).retTo /\ ci(th).retTo = base /\ \A i \in 1 .. N - 1 : v.calls[i] = th.calls[i]
    BY <1>1, <1>4, <1>5, <1>15
  <2>2. Fits(th) /\ Fits(v) /\ Len(v.calls) = Len(th.calls) /\ ci(v).retTo = ci(th).retTo /\ Same(th, v, ci(th).retTo)
        /\ (\A i \in 1 .. Len(th.calls) - 1 : v.calls[i] = th.calls[i])
    BY <1>1, <1>16, <2>1
  <2> QED
    BY ONLY <2>2, F = framesOf(th), N = Len(th.calls), Replaced
<1>18. SubSeq(framesOf(v), 1, Len(v.calls)) = framesOf(v) /\ SubSeq(F, 1, N) = F
  BY <1>1, Whole
<1>19. Promise!Front(F) = Front(F)
  BY DEF Promise!Front, Front
<1>20. SubSeq(framesOf(th), 1, Len(th.calls))' = SubSeq(framesOf(v), 1, Len(v.calls))
  OBVIOUS
<1>21. frameOfCall(v, N) = Promise!Frame(t.stack[mv], run, args, ci(th).want)
  BY ONLY <1>4, <1>5, <1>12, <1>15
<1>22. SubSeq(framesOf(v), 1, Len(v.calls)) = Append(Promise!Front(F), Promise!Frame(t.stack[mv], run, args, ci(th).want))
  BY ONLY <1>17, <1>18, <1>19, <1>21
<1>23. SubSeq(framesOf(th), 1, Len(th.calls)) = F
  BY <1>18
<1> QED
  BY ONLY <1>20, <1>22, <1>23

LEMMA TailCallMap ==
  ASSUME Regular, SInv, SInv', NEW m \in Properties \cup Callable, NEW n \in Index, OpTailCall(m, n)
  PROVE  Len(th.calls) > 1 /\ \E v \in Promise!Called : Promise!TailCall(v, n)
<1> PICK mv : mv = live.top - n - 1
  OBVIOUS
<1> PICK t : t = looked(live, mv, m)
  OBVIOUS
<1> PICK v : v = t.stack[mv]
  OBVIOUS
<1> PICK run : run = realmethod(v, FALSE)
  OBVIOUS
<1> PICK args : args = slots(t, mv + 1, t.top)
  OBVIOUS
<1>1. /\ inBC /\ ci(th).retTo = ci(th).base /\ run \notin {"y", "yv"}
      /\ isRegular(v, n, ci(t).base + n + 1, 0, FALSE) /\ did' = <<"tail", v, n>>
      /\ Becomes(IF run = "none" THEN returnNulls(t) ELSE tailcallMorCPrep(t, mv))
  BY DEF OpTailCall
<1>2. /\ Fits(t) /\ t.calls = th.calls /\ t.size = th.size /\ t.top = live.top /\ mv \in Nat
      /\ begin(th) <= mv /\ mv < t.top /\ t.top - mv - 1 = n /\ t.top \in Nat
  BY Looked, FitsTypes
<1>3. ButFor(t, mv) /\ v \in Promise!Called
  BY LookedAt
<1>4. n \in Nat /\ args = Promise!Final(values(th), n) /\ Same(th, t, mv)
  BY <1>2, <1>3, Parted
<1>5. Fits(th) /\ ci(t) = ci(th) /\ begin(t) = begin(th) /\ limit(t) = limit(th)
  BY <1>2 DEF SInv, ci, begin, limit
<1>6. Len(th.calls) > 1
  <2> PICK k \in Nat : k = Len(th.calls)
    BY <1>5, FitsTypes
  <2>1. isByte(ci(th)) /\ k >= 1 /\ ci(th) = th.calls[k]
    BY <1>1, <1>5, FitsTypes DEF inBC
  <2>2. th.calls[1].run = "host"
    BY <1>5 DEF Fits
  <2>3. k # 1
    BY <2>1, <2>2 DEF isByte
  <2>4. k > 1
    BY ONLY <2>1, <2>3, k \in Nat
  <2> QED
    BY <2>4
<1>7. Promise!Last(SubSeq(framesOf(th), 1, Len(th.calls))).want = ci(th).want
  <2> PICK F : F = framesOf(th)
    OBVIOUS
  <2>1. /\ SubSeq(framesOf(th), 1, Len(th.calls)) = F /\ Len(F) = Len(th.calls)
        /\ F[Len(th.calls)].want = ci(th).want
    BY Running
  <2>2. Promise!Last(F) = F[Len(F)]
    BY DEF Promise!Last
  <2> QED
    BY ONLY <2>1, <2>2
<1>8. Promise!Method(v, FALSE) = run /\ Promise!Locals = values(th)
  BY MethodIs, MapLocals
<1>9. CASE run = "none"
  <2> PICK w \in Nat : w = ci(th).want
    BY <1>5, FitsTypes
  <2> PICK k : k = IF w = BCVARRET THEN 1 ELSE w
    OBVIOUS
  <2> PICK vals : vals = nulls(k)
    OBVIOUS
  <2>1. vals = Promise!Wanted(<<Null>>, w) /\ vals \in Seq(Stored) /\ Len(vals) = k
    BY WantedIs
  <2>2. CanEnd(t, vals)
    <3>1. ci(th).retTo <= begin(th) /\ ci(th).retTo \in Nat /\ ci(th).retTo < begin(th) /\ begin(th) \in Nat
      BY <1>1, <1>5, FitsTypes DEF FrameOK
    <3>2. ci(th).retTo + k <= limit(th)
      <4>1. CASE w = BCVARRET
        <5>1. begin(th) < t.top /\ t.top <= limit(t)
          BY <1>2, <3>1, FitsTypes
        <5> QED
          BY <1>2, <1>5, <2>1, <3>1, <4>1, <5>1, Area
      <4>2. CASE w # BCVARRET
        BY <1>5, <4>2, FitsTypes DEF FrameOK
      <4> QED
        BY <4>1, <4>2
    <3>3. Same(th, t, ci(th).retTo)
      <4> SUFFICES ASSUME NEW x \in Nat, x < ci(th).retTo PROVE t.stack[x] = th.stack[x]
        BY DEF Same
      <4>1. x < mv
        BY ONLY <1>2, <3>1, x \in Nat, x < ci(th).retTo
      <4> QED
        BY <1>4, <4>1 DEF Same
    <3> QED
      BY <1>2, <1>5, <1>6, <2>1, <3>2, <3>3 DEF CanEnd
  <2>3. Leaves(t, vals, returnNulls(t))
    BY <1>5, <2>1 DEF Leaves, returnNulls, AsReturned, ToEnd
  <2>4. Promise!Returned(<<Null>>)
    <3>1. Becomes(returnNulls(t))
      BY <1>1, <1>9
    <3> QED
      BY <2>1, <2>2, <2>3, <3>1, EndedStep
  <2> QED
    BY <1>1, <1>3, <1>6, <1>8, <1>9, <2>4 DEF Promise!TailCall, Promise!Null, Null
<1>10. CASE run # "none"
  <2>1. CanTail(t, mv, run)
    <3>1. isRegular(t.stack[mv], t.top - mv - 1, ci(t).base + (t.top - mv), 0, FALSE)
      <4>1. ci(t).base \in Nat
        BY <1>2, FitsTypes
      <4> PICK to : to = ci(t).base + n + 1
        OBVIOUS
      <4>2. ci(t).base + (t.top - mv) = ci(t).base + n + 1
        BY ONLY <1>2, <1>4, <4>1
      <4> QED
        BY <1>1, <1>2, <4>2
    <3>2. isByte(ci(t)) /\ begin(t) <= mv /\ ci(t).retTo = ci(t).base
      BY <1>1, <1>2, <1>5 DEF inBC
    <3> QED
      BY <1>1, <1>2, <1>10, <3>1, <3>2 DEF CanTail
  <2>2. Becomes(tailcallMorCPrep(t, mv))
    BY <1>1, <1>10
  <2>3. SubSeq(framesOf(th), 1, Len(th.calls))'
          = Append(Promise!Front(SubSeq(framesOf(th), 1, Len(th.calls))), Promise!Frame(v, run, args, ci(th).want))
    BY <1>2, <1>4, <2>1, <2>2, TailMap
  <2>4. Promise!TailCall(v, n)
    BY <1>1, <1>4, <1>7, <1>8, <1>10, <2>3 DEF Promise!TailCall
  <2> QED
    BY <1>3, <1>6, <2>4
<1> QED
  BY <1>9, <1>10

------------------------------------------------------------------------------
(***************************************************************************)
(* Every step of the program is one of the abstract specification.         *)
(***************************************************************************)
LEMMA LocalSteps ==
  ASSUME SInv, SInv', NEW i \in Index,
         \/ pushLocal(i) \/ deleteLocal(i) \/ insertLocal(i)
         \/ popLocal(i) \/ pushClosure(i + 1) \/ dropTop(i + 1)
  PROVE  Promise!Next
<1>1. Promise!Index = Index
  BY MapLocals
<1>2. CASE pushLocal(i)
  <2>1. Promise!PushLocal(i)
    BY <1>2, pushLocalMap
  <2>2. did'[1] = "push local"
    BY <2>1 DEF Promise!PushLocal
  <2> QED
    BY ONLY <1>1, <2>1, <2>2, i \in Index DEF Promise!Next
<1>3. CASE deleteLocal(i)
  <2>1. Promise!Delete(i)
    BY <1>3, deleteLocalMap
  <2>2. did'[1] = "delete"
    BY <2>1 DEF Promise!Delete
  <2> QED
    BY ONLY <1>1, <2>1, <2>2, i \in Index DEF Promise!Next
<1>4. CASE insertLocal(i)
  <2>1. Promise!Insert(i)
    BY <1>4, insertLocalMap
  <2>2. did'[1] = "insert"
    BY <2>1 DEF Promise!Insert
  <2> QED
    BY ONLY <1>1, <2>1, <2>2, i \in Index DEF Promise!Next
<1>5. CASE popLocal(i)
  <2>1. Promise!PopTo(i) /\ i \in 0 .. Len(Promise!Locals) - 2
    BY <1>5, popLocalMap
  <2>2. did'[1] = "pop to"
    BY <2>1 DEF Promise!PopTo
  <2> QED
    BY ONLY <2>1, <2>2 DEF Promise!Next
<1>6. CASE pushClosure(i + 1)
  <2>1. Promise!Closure(i + 1)
    BY <1>6, pushClosureMap
  <2>2. did'[1] = "closure"
    BY <2>1 DEF Promise!Closure
  <2> QED
    BY ONLY <1>1, <2>1, <2>2, i \in Index DEF Promise!Next
<1>7. CASE dropTop(i + 1)
  <2>1. PICK n \in Promise!Some : Promise!Resize(n)
    BY <1>7, dropTopMap
  <2>2. did'[1] = "resize"
    BY <2>1 DEF Promise!Resize
  <2> QED
    BY ONLY <2>1, <2>2, n \in Promise!Some DEF Promise!Next
<1> QED
  BY <1>2, <1>3, <1>4, <1>5, <1>6, <1>7

LEMMA ValueSteps ==
  ASSUME SInv, SInv', NEW v \in Value, pushValue(v) \/ Load(v) \/ \E i \in Index : setLocal(i, v)
  PROVE  Promise!Next
<1>1. Promise!Index = Index /\ v \in Promise!Called
  BY MapLocals DEF Promise!Called
<1>2. CASE pushValue(v) \/ Load(v)
  <2>1. Promise!Push(v)
    BY <1>2, pushValueMap, LoadMap
  <2>2. did'[1] = "push"
    BY <2>1 DEF Promise!Push
  <2> QED
    BY ONLY <1>1, <2>1, <2>2 DEF Promise!Next
<1>3. ASSUME NEW i \in Index, setLocal(i, v) PROVE Promise!Next
  <2>1. Promise!Set(i, v)
    BY <1>3, setLocalMap
  <2>2. did'[1] = "set"
    BY <2>1 DEF Promise!Set
  <2> QED
    BY ONLY <1>1, <2>1, <2>2, i \in Index DEF Promise!Next
<1> QED
  BY <1>2, <1>3

LEMMA CopySteps ==
  ASSUME SInv, SInv', NEW i \in Index, NEW j \in Index, copyLocal(i, j) \/ OpLoadReg(i, j)
  PROVE  Promise!Next
<1>1. Promise!Index = Index
  BY MapLocals
<1>2. Promise!Copy(i, j)
  BY copyMap
<1>3. did'[1] = "copy"
  BY <1>2 DEF Promise!Copy
<1> QED
  BY ONLY <1>1, <1>2, <1>3, i \in Index, j \in Index DEF Promise!Next

LEMMA SizeSteps ==
  ASSUME SInv, SInv', popValue \/ popGloVar \/ NeedMoreLocal \/ \E n \in 0 .. MaxLive : setTop(n)
  PROVE  Promise!Next
<1>1. CASE popValue \/ popGloVar
  <2>1. Promise!Pop /\ Promise!Locals # <<>>
    BY <1>1, popValueMap, popGloVarMap
  <2>2. did'[1] = "pop"
    BY <2>1 DEF Promise!Pop
  <2> QED
    BY ONLY <2>1, <2>2 DEF Promise!Next
<1>2. CASE NeedMoreLocal \/ \E n \in 0 .. MaxLive : setTop(n)
  <2>1. PICK n \in Promise!Some : Promise!Resize(n)
    BY <1>2, NeedMoreLocalMap, setTopMap
  <2>2. did'[1] = "resize"
    BY <2>1 DEF Promise!Resize
  <2> QED
    BY ONLY <2>1, <2>2, n \in Promise!Some DEF Promise!Next
<1> QED
  BY <1>1, <1>2

LEMMA CallSteps ==
  ASSUME Regular, "rest" \notin Irregular, SInv, SInv', NEW n \in Index, NEW m \in found(n),
         (\E want \in Wants : Call(m, n, want, FALSE) \/ Call(m, n, want, TRUE)) \/ OpTailCall(m, n)
  PROVE  Promise!Next
<1>0. m \in Properties \cup Callable
  BY FoundAre
<1>1. Promise!Index = Index
  BY MapLocals
<1>2. ASSUME NEW want \in Wants, NEW set \in BOOLEAN, Call(m, n, want, set) PROVE Promise!Next
  <2>1. PICK v \in Promise!Called : Promise!Call(v, n, want, set)
    BY <1>0, <1>2, CallMap
  <2>2. did'[1] = "call"
    BY <2>1 DEF Promise!Call
  <2>3. want \in Promise!Some \cup {BCVARRET}
    BY WantsAre
  <2> QED
    BY ONLY <1>1, <2>1, <2>2, <2>3, v \in Promise!Called, n \in Index, set \in BOOLEAN DEF Promise!Next
<1>4. CASE OpTailCall(m, n)
  <2>1. Len(th.calls) > 1 /\ \E v \in Promise!Called : Promise!TailCall(v, n)
    BY <1>0, <1>4, TailCallMap
  <2>2. PICK v \in Promise!Called : Promise!TailCall(v, n)
    BY <2>1
  <2>3. did'[1] = "tail"
    BY <2>2 DEF Promise!TailCall
  <2>4. Len(SubSeq(framesOf(th), 1, Len(th.calls))) > 1
    BY <2>1, Running
  <2> QED
    BY ONLY <1>1, <2>2, <2>3, <2>4, v \in Promise!Called, n \in Index DEF Promise!Next
<1> QED
  BY <1>2, <1>4

LEMMA SetPropSteps ==
  ASSUME Regular, "set" \notin Irregular, SInv, SInv', NEW m \in Properties, NEW i \in Index, popSetActProp(m, i)
  PROVE  Promise!Next
<1>1. Promise!Index = Index
  BY MapLocals
<1>2. Promise!SetProp(m, i) /\ m \in Promise!Called
  BY SetPropMap
<1>3. did'[1] = "set property"
  BY <1>2 DEF Promise!SetProp
<1> QED
  BY ONLY <1>1, <1>2, <1>3, i \in Index DEF Promise!Next

LEMMA EachSteps ==
  ASSUME Regular, "rest" \notin Irregular, SInv, SInv', NEW n \in Index, NEW want \in Wants, OpEachCall(n, want)
  PROVE  Promise!Next
<1>0. Promise!Index = Index
  BY MapLocals
<1>1. PICK v \in Promise!Called : Promise!EachCall(v, n, want)
  BY EachCallMap
<1>2. did'[1] = "each"
  BY <1>1 DEF Promise!EachCall
<1>3. want \in Promise!Some \cup {BCVARRET}
  BY WantsAre
<1> QED
  BY ONLY <1>0, <1>1, <1>2, <1>3, v \in Promise!Called, n \in Index DEF Promise!Next

LEMMA ReturnSteps ==
  ASSUME SInv, SInv', NEW i \in 0 .. size(th), NEW n \in 0 .. size(th), Return(i, n)
  PROVE  Promise!Next
<1>1. Len(th.calls) > 1 /\ i + n <= Len(Promise!Locals) /\ Promise!Return(i, n)
  BY ReturnMap
<1>2. did'[1] = "return"
  BY <1>1 DEF Promise!Return
<1>3. Len(SubSeq(framesOf(th), 1, Len(th.calls))) > 1
  BY <1>1, Running
<1> PICK z \in Nat : z = Len(Promise!Locals)
  BY MapLocals, Here
<1> PICK j : j = i + n
  OBVIOUS
<1>4. i \in 0 .. z /\ j \in 0 .. z /\ i <= j /\ j - i = n
  BY ONLY <1>1, i \in 0 .. size(th), n \in 0 .. size(th), j = i + n, z = Len(Promise!Locals), z \in Nat
<1>5. Promise!Return(i, j - i)
  BY <1>1, <1>4
<1> QED
  BY ONLY <1>2, <1>3, <1>4, <1>5, z = Len(Promise!Locals) DEF Promise!Next

LEMMA RestSteps ==
  ASSUME SInv, SInv', NEW n \in Wants \cup {BCVARRET}, OpLoadVararg(n)
  PROVE  Promise!Next
<1>1. Promise!Rest(n) /\ n \in Promise!Some \cup {BCVARRET}
  BY OpLoadVarargMap
<1>2. did'[1] = "rest"
  BY <1>1 DEF Promise!Rest
<1> QED
  BY ONLY <1>1, <1>2 DEF Promise!Next

LEMMA NextMaps ==
  ASSUME Regular, "rest" \notin Irregular, "set" \notin Irregular, SInv, SInv', Next
  PROVE  Promise!Next
<1>1. \A v \in Value : pushValue(v) \/ Load(v) \/ (\E i \in Index : setLocal(i, v)) => Promise!Next
  BY ValueSteps
<1>2. \A i \in Index : (pushLocal(i) \/ deleteLocal(i) \/ insertLocal(i)
                       \/ popLocal(i) \/ pushClosure(i + 1) \/ dropTop(i + 1)) => Promise!Next
  BY LocalSteps
<1>3. \A i, j \in Index : copyLocal(i, j) \/ OpLoadReg(i, j) => Promise!Next
  BY CopySteps
<1>4. popValue \/ popGloVar \/ NeedMoreLocal \/ (\E n \in 0 .. MaxLive : setTop(n)) => Promise!Next
  BY SizeSteps
<1>5. \A n \in Index : \A m \in found(n) :
        ((\E want \in Wants : Call(m, n, want, FALSE) \/ Call(m, n, want, TRUE))
         \/ OpTailCall(m, n)) => Promise!Next
  BY CallSteps
<1>9. \A m \in Properties, i \in Index : popSetActProp(m, i) => Promise!Next
  BY SetPropSteps
<1>6. \A n \in Index, want \in Wants : OpEachCall(n, want) => Promise!Next
  BY EachSteps
<1>7. \A i, n \in 0 .. size(th) : Return(i, n) => Promise!Next
  BY ReturnSteps
<1>8. \A n \in Wants \cup {BCVARRET} : OpLoadVararg(n) => Promise!Next
  BY RestSteps
<1> QED
  BY ONLY Next, <1>1, <1>2, <1>3, <1>4, <1>5, <1>6, <1>7, <1>8, <1>9 DEF Next

LEMMA FirstMaps == Init => Promise!Init
<1> SUFFICES ASSUME Init
             PROVE  Promise!Init
  OBVIOUS
<1> PICK c : c = [run |-> "host", begin |-> 1, end |-> 1 + STACK_MINSIZE, base |-> 0, retTo |-> 0, want |-> 0, used |-> 0]
  OBVIOUS
<1> PICK f : f = [method |-> Null, rest |-> <<>>, locals |-> <<>>, want |-> 0]
  OBVIOUS
<1>1. SInv /\ did = <<"start">>
  BY FirstFits DEF Init
<1>2. th.calls = <<c>> /\ th.top = 1 /\ th.stack[0] = Null
  BY Sizes DEF Init, Slot
<1>3. Len(th.calls) = 1 /\ th.calls[1] = c /\ ci(th) = c
  BY <1>2 DEF ci, Last
<1>4. size(th) = 0 /\ values(th) = <<>>
  <2>1. size(th) = 0
    BY <1>2, <1>3 DEF size, begin, isByte
  <2>2. values(th) \in Seq(Stored) /\ Len(values(th)) = 0
    BY <1>1, <2>1, MapLocals
  <2> QED
    <3>1. \A q \in Seq(Stored) : Len(q) = 0 => q = <<>>
      BY EmptySeq
    <3> QED
      BY <2>1, <2>2, <3>1
<1> PICK F : F = framesOf(th)
  OBVIOUS
<1>5. SubSeq(F, 1, 1) = F /\ Len(F) = 1 /\ F[1] = [method |-> Null, want |-> 0, locals |-> <<>>, rest |-> <<>>]
  BY <1>1, <1>2, <1>3, <1>4, Running
<1>6. F = <<f>>
  <2>1. Len(th.calls) \in Nat
    BY <1>3
  <2>2. PICK S : F \in Seq(S)
    BY <2>1, FrameSeqs
  <2>3. <<f>> \in Seq({f}) /\ Len(<<f>>) = 1 /\ <<f>>[1] = f
    OBVIOUS
  <2>4. \A j \in 1 .. Len(<<f>>) : F[j] = <<f>>[j]
    BY <1>5, <2>3
  <2> QED
    BY ONLY <1>5, <2>2, <2>3, <2>4, SeqsEqual
<1>7. SubSeq(framesOf(th), 1, Len(th.calls)) = <<f>>
  BY <1>3, <1>5, <1>6
<1> QED
  BY <1>1, <1>7 DEF Promise!Init, Promise!Null, Null

\* The stack, its pointers, CallInfos, growth and moves keep what the methods of the program rely on when they call
\* each other: each has its own values, a called one finds its parameters, fixed and variable, and the caller finds
\* the results, as many as it wants, in place of what the call took. So it is where the code gets a call right
\* (Regular, no yielder is made from more parameters than it has registers for, and nothing is given to a property that
\* can be called).
THEOREM CallsKeepFrames ==
  ASSUME Regular, "rest" \notin Irregular, "set" \notin Irregular
  PROVE  Spec => ImplementsFrames
<1>1. SInv /\ [Next]_vars => SInv'
  <2>1. SInv /\ UNCHANGED vars => SInv'
    BY DEF vars, SInv, Fits, FrameOK, Nested, limit, ci, begin
  <2> QED
    BY <2>1, OneStep
<1>2. SInv /\ SInv' /\ [Next]_vars => [Promise!Next]_(Promise!vars)
  <2>1. UNCHANGED vars => UNCHANGED Promise!vars
    BY DEF vars, Promise!vars, framesOf, frameOfCall, upTo, slots, begin, ci, size
  <2> QED
    BY <2>1, NextMaps
<1> QED
  BY <1>1, <1>2, FirstFits, FirstMaps, PTL DEF Spec, ImplementsFrames, Promise!Spec
=============================================================================
