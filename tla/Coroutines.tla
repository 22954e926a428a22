----------------------------- MODULE Coroutines -----------------------------
(***************************************************************************)
(* What a program of the Acorn VM may rely on when it calls methods and    *)
(* resumes yielders: there is one chain of frames waiting for each other,  *)
(* the last frame of the chain runs, and what it gives back arrives in the *)
(* frame before it, at the register that frame asked for.  A yielder that  *)
(* yields leaves the chain with one frame, and joins it again where it is  *)
(* resumed.                                                                *)
(***************************************************************************)
EXTENDS Naturals, Sequences

CONSTANTS Yielder, Main, Slots

VARIABLES
  chain,     \* sequence of [th, depth, slot]: frame depth of thread th, whose results go to
             \* that slot of the frame before it
  finished   \* the yielders that have returned

vars == <<chain, finished>>

link(t, d, s) == [th |-> t, depth |-> d, slot |-> s]
Running == chain[Len(chain)]
InChain(t) == \E i \in DOMAIN chain : chain[i].th = t

Init ==
  /\ chain = <<link(Main, 1, 0)>>
  /\ finished = {}

\* The running frame calls a method, and waits for it.
Call ==
  /\ \E s \in Slots : chain' = Append(chain, link(Running.th, Running.depth + 1, s))
  /\ UNCHANGED finished

\* The running frame resumes a yielder that waits for nobody.
Resume(y) ==
  /\ ~InChain(y) /\ y \notin finished
  /\ \E s \in Slots : chain' = Append(chain, link(y, 1, s))
  /\ UNCHANGED finished

\* The running frame gives its results to the frame before it, which runs on.
GiveBack ==
  /\ Len(chain) > 1
  /\ chain' = SubSeq(chain, 1, Len(chain) - 1)

Return ==
  /\ Running.depth > 1
  /\ GiveBack
  /\ UNCHANGED finished

Yield ==
  /\ Running.depth = 1
  /\ GiveBack
  /\ UNCHANGED finished

Finish ==
  /\ Running.depth = 1
  /\ GiveBack
  /\ finished' = finished \cup {Running.th}

\* A yielder that waits for nobody starts again.
Reset(y) ==
  /\ ~InChain(y)
  /\ finished' = finished \ {y}
  /\ UNCHANGED chain

Next ==
  \/ Call \/ Return \/ Yield \/ Finish
  \/ \E y \in Yielder : Resume(y) \/ Reset(y)

Spec == Init /\ [][Next]_vars
=============================================================================
