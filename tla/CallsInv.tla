------------------------------ MODULE CallsInv ------------------------------
(***************************************************************************)
(* The inductive invariant of calls and yielders: why a result arrives in  *)
(* the frame that waits for it. Which frame runs next is decided in two    *)
(* ways: by the frames, when byte code goes on, and by the native stack,   *)
(* when a C method does. The invariant says that both come to the same.    *)
(*                                                                         *)
(* w is the sequence of the threads that wait for each other, from the     *)
(* main one to the one that runs. A position is a pair: frame p[2] of      *)
(* thread w[p[1]]. q maps every C method that is active on the native      *)
(* stack to the position of its frame.                                     *)
(***************************************************************************)
EXTENDS Calls

(***************************************************************************)
(* What is known of every activation.  The host's is the first, and only   *)
(* loops end otherwise than by going on, so none of their ends empties the *)
(* native stack.                                                           *)
(***************************************************************************)
Activation == [run : {"BC", "C"}, th : Thread, base : Nat, after : {"next", "return", "goto"}]
ActivationOK(a) == a.after # "next" => a.run = "BC"
NativeInv ==
  /\ base \in [Thread -> Nat]
  /\ native \in Seq(Activation) /\ native # <<>> /\ native[1].run = "C"
  /\ \A i \in 1 .. Len(native) : ActivationOK(native[i])
  /\ yieldTo \in [Thread -> Thread \cup {None}]

-----------------------------------------------------------------------------
(***************************************************************************)
(* Frames and the threads they are in.                                     *)
(***************************************************************************)
Methods == {"start", "BC", "C", "Y"}
Target  == [th : Thread, base : Nat, frame : Nat, slot : Slots]
Frame   == [method : Methods, retTo : Target]

target(t, b, i, s) == [th |-> t, base |-> b, frame |-> i, slot |-> s]

\* The threads in w were resumed by each other.
Path(w, yt) ==
  /\ w \in Seq(Thread) /\ Len(w) >= 1 /\ w[1] = Main /\ yt[Main] = None
  /\ \A i, j \in 1 .. Len(w) : w[i] = w[j] => i = j
  /\ \A i \in 1 .. Len(w) - 1 : yt[w[i + 1]] = w[i]

\* The first frame of a thread is what it was made with; the others are calls. A yielder
\* that nobody waits for has no others.
Stacked(w, f) ==
  /\ f \in [Thread -> Seq(Frame)]
  /\ \A t \in Thread : \A i \in 1 .. Len(f[t]) :
       f[t][i].method \in IF i > 1 THEN {"BC", "C"} ELSE IF t = Main THEN {"start"} ELSE {"Y"}
  /\ \A i \in 1 .. Len(w) : Len(f[w[i]]) >= 1
  /\ \A t \in Thread : Len(f[t]) <= 1 \/ \E i \in 1 .. Len(w) : w[i] = t

\* Results go to the frame below, and those of a yielder's first frame to the thread that resumed it.
Returns(w, f, b) ==
  \A i \in 1 .. Len(w) : \A d \in 1 .. Len(f[w[i]]) :
    LET p == f[w[i]][d].retTo IN
    p = IF d > 1 THEN target(w[i], b[w[i]], d - 1, p.slot)
        ELSE IF i > 1 THEN target(w[i - 1], b[w[i - 1]], Len(f[w[i - 1]]), p.slot)
        ELSE target(Main, b[Main], 1, 0)

(***************************************************************************)
(* Positions.                                                              *)
(***************************************************************************)
before(p, r)  == p[1] < r[1] \/ (p[1] = r[1] /\ p[2] < r[2])
endOf(w, f)   == <<Len(w), Len(f[w[Len(w)]])>>
\* The positions of the frames of C methods.
InC(w, f) ==
  {p \in Nat \X Nat : p[1] \in 1 .. Len(w) /\ p[2] \in 1 .. Len(f[w[p[1]]]) /\ isCMethod(f[w[p[1]]][p[2]].method)}

(***************************************************************************)
(* The native stack nat and the positions cs of C methods: they follow     *)
(* each other in the same order, no loop calls a loop, and what called a C *)
(* method directly is what goes on when it returns.                        *)
(***************************************************************************)
isC(a) == a.run = "C"
Called(nat, q, w, cs, j) ==
  LET p == q[j + 1] IN
  IF isC(nat[j]) THEN q[j] = <<p[1], p[2] - 1>>
  ELSE nat[j].after # "goto" =>
         /\ p[2] > 1 /\ <<p[1], p[2] - 1>> \notin cs /\ nat[j].th = w[p[1]]
         /\ nat[j].after = "return" => p[2] = 2 /\ nat[j].th \in Yielder
Matched(nat, q, w, cs) ==
  /\ q \in [Nat -> Nat \X Nat]
  /\ \A j \in 1 .. Len(nat) : isC(nat[j]) => q[j] \in cs /\ w[q[j][1]] = nat[j].th
  /\ \A i, j \in 1 .. Len(nat) : i < j /\ isC(nat[i]) /\ isC(nat[j]) => before(q[i], q[j])
  /\ \A p \in cs : \E j \in 1 .. Len(nat) : isC(nat[j]) /\ q[j] = p
  /\ \A j \in 1 .. Len(nat) - 1 : ~isC(nat[j]) => isC(nat[j + 1])
  /\ \A j \in 1 .. Len(nat) - 1 : isC(nat[j + 1]) => Called(nat, q, w, cs, j)

\* The last activation executes the last frame, at position e.
AtTop(a, w, cs, e) ==
  /\ a.th = w[e[1]] /\ (isC(a) <=> e \in cs)
  /\ a.after # "goto" /\ (a.after = "return" /\ a.th \in Yielder => e[2] = 1)

Linked(w, q) ==
  /\ Path(w, yieldTo) /\ Stacked(w, frames) /\ Returns(w, frames, base)
  /\ Matched(native, q, w, InC(w, frames))
  /\ AtTop(native[Len(native)], w, InC(w, frames), endOf(w, frames))
-----------------------------------------------------------------------------
CInv == NativeInv /\ \E w \in Seq(Thread), q \in [Nat -> Nat \X Nat] : Linked(w, q)
=============================================================================
