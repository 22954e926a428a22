------------------------------ MODULE StacksInv ------------------------------
(***************************************************************************)
(* The inductive invariant of the data stack: why calls, returns and the   *)
(* rest of avm_stack.cpp never use a slot that is not there. StacksProofs  *)
(* proves it, for a program without the irregular calls of README.md.      *)
(***************************************************************************)
EXTENDS Stacks

\* What is supposed of the program: it does nothing whose room the code does not ask for.
Regular == Irregular \cap {"short", "full", "low"} = {}

Stored   == Value \cup Callable \cup {Null, Junk, "yielder"}
CallInfo == [run : {"host", "c", "b", "v"}, begin : Nat, end : Nat, base : Nat, retTo : Nat, want : Nat, used : Nat]
Thread   == [stack : [Slot -> Stored], top : Nat, size : Nat, calls : Seq(CallInfo)]

\* The slots that may be used.
limit(t) == t.size - STACK_EXTRA

\* Where a frame lies, and that what it was promised and what it returns finds room: the caller asked for that when
\* it called, and no stack becomes smaller.
FrameOK(t, c) ==
  /\ c.base < c.begin /\ c.retTo \in c.base .. c.begin /\ c.end <= limit(t)
  /\ c.want # BCVARRET => c.retTo + c.want <= limit(t)
  /\ isByte(c) => c.begin + MaxStack <= limit(t) /\ c.begin + c.used <= limit(t)
  /\ ~isByte(c) => c.used = 0
  /\ c.run = "v" => c.begin > c.base + NParms

\* d is called by c, at what c has pushed; byte code gets as many results as it has registers for.
Nested(c, d) ==
  /\ c.begin <= d.base /\ c.used <= MaxLive
  /\ isByte(c) => d.want # BCVARRET /\ d.retTo + d.want <= c.begin + MaxStack

Fits(t) ==
  /\ t \in Thread
  /\ t.size <= STACK_MAXSIZE /\ t.top <= limit(t)
  /\ Len(t.calls) >= 1 /\ t.calls[1].run = "host"
  /\ ~isByte(ci(t)) => begin(t) <= t.top
  /\ \A i \in 1 .. Len(t.calls) : FrameOK(t, t.calls[i])
  /\ \A i \in 1 .. Len(t.calls) - 1 : Nested(t.calls[i], t.calls[i + 1])

SInv == Fits(th) /\ Len(th.calls) <= MaxFrames /\ ci(th).used <= MaxLive
==============================================================================
