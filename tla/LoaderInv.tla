------------------------------ MODULE LoaderInv ------------------------------
(***************************************************************************)
(* The inductive invariant of the loader: why a resource is fetched and    *)
(* run once, completely linked, and none is forgotten. LoaderProofs proves *)
(* it inductive. It supposes that a method that setvalue runs loads only   *)
(* what another has asked for (~ScanLoads).                                *)
(***************************************************************************)
EXTENDS Loader

\* What SetValue is for: those that decode a resource, and those that go on with what waits.
Owners == {"deserialize", "setvalue"}
KnownAll(r) == ToSet(externs[r]) \subseteq values \cup loaders
Complete(r) == ToSet(externs[r]) \subseteq values

Types ==
  /\ externs \in [Res -> ExternLists]
  /\ values \subseteq Res /\ loaders \subseteq Res /\ linking \subseteq loaders
  /\ asked \subseteq loaders \cap Remote
  /\ stack \in Seq(Frame)
  /\ fetches \in [Res -> Nat] /\ runs \in [Res -> Nat]

(***************************************************************************)
(* Who calls whom.                                                         *)
(***************************************************************************)
Calls(f, g) ==
  \/ f.fn \in Owners /\ f.pc = "linking" /\ g.fn = "link" /\ g.res = f.res
  \/ f.fn \in Owners /\ f.pc = "running" /\ g.fn = "run" /\ g.res = f.res
  \/ f.fn = "link" /\ f.pc = "loading" /\ g.fn \in Owners
  \/ f.fn = "run" /\ f.pc = "loaded" /\ g.fn \in Owners
Shape ==
  /\ stack # <<>> => stack[1].fn \in Owners /\ stack[Len(stack)].pc \notin {"linking", "running"}
  /\ \A i \in 1 .. Len(stack) - 1 : Calls(stack[i], stack[i + 1])
  /\ \A i \in 1 .. Len(stack) - 2 : stack[i].fn # "setvalue"

(***************************************************************************)
(* A resource that has no value yet is asked for, decoded or waits for the *)
(* linker, one at a time.                                                  *)
(***************************************************************************)
Decoding(r) == \E i \in 1 .. Len(stack) : stack[i].fn = "deserialize" /\ stack[i].res = r
InProgress(r) ==
  \E i \in 1 .. Len(stack) : stack[i].fn \in Owners /\ stack[i].res = r /\ stack[i].pc \in {"running", "ran"}
Owned ==
  /\ values \cap loaders = {} /\ asked \cap linking = {}
  /\ \A r \in loaders : r \in asked \/ r \in linking \/ Decoding(r)
  /\ \A i \in 1 .. Len(stack) : stack[i].fn = "deserialize" =>
       /\ stack[i].res \in loaders \ (asked \cup linking)
       /\ \A j \in 1 .. Len(stack) : stack[j].fn = "deserialize" /\ stack[j].res = stack[i].res => j = i
Once ==
  /\ \A r \in Res : fetches[r] = IF Known(r) THEN 1 ELSE 0
  /\ \A r \in Res : runs[r] <= 1 /\ (runs[r] = 1 => r \in values \/ InProgress(r))

(***************************************************************************)
(* What the linker has been at.                                            *)
(***************************************************************************)
FrameOK(f) ==
  /\ f.fn = "link" =>
       /\ f.counter < f.next /\ f.next <= Len(externs[f.res]) + (IF f.pc = "loading" THEN 0 ELSE 1)
       /\ \A k \in 1 .. Len(externs[f.res]) : k < f.next \/ (k = f.next /\ f.pc = "loading") => Known(externs[f.res][k])
       /\ f.counter = 0 => \A k \in 1 .. Len(externs[f.res]) : k < f.next => externs[f.res][k] \in values
  /\ f.fn \in Owners =>
       /\ f.pc \in {"linked", "running", "ran"} => Complete(f.res)
       /\ f.pc = "unlinked" => KnownAll(f.res)
  /\ f.fn = "setvalue" =>
       /\ f.pc # "next" => f.res \in linking /\ f.res \in f.scanned
       /\ f.pc = "next" => f.scanAgain \/ (f.res = None /\ f.scanned = {})
Linked ==
  /\ \A i \in 1 .. Len(stack) : FrameOK(stack[i])
  /\ \A r \in linking : KnownAll(r)

(***************************************************************************)
(* What waits has something to wait for, or will be looked at again.       *)
(***************************************************************************)
\* Nothing in W gets a value before the i-th activation has returned.
Stuck(W, i) ==
  \A w \in W : /\ w \in loaders
               /\ \/ w \in asked
                  \/ \E j \in 1 .. i : stack[j].fn = "deserialize" /\ stack[j].res = w
                  \/ w \in linking /\ ToSet(externs[w]) \cap W # {}
Waits(r, i) == \E W \in SUBSET Res : Stuck(W, i) /\ ToSet(externs[r]) \cap W # {}
Rescanned(f, r) ==
  /\ f.fn = "setvalue"
  /\ \/ f.scanAgain \/ f.pc \in {"next", "linked", "running", "ran"} \/ r \notin f.scanned
     \/ f.pc = "linking" /\ r = f.res
\* The i-th activation is fn with a method that could not be linked, or links it for fn and will say so.
For(i, fn) ==
  \/ stack[i].fn = "link" /\ stack[i].counter > 0 /\ i > 1 /\ stack[i - 1].fn = fn
  \/ stack[i].fn = fn /\ stack[i].pc = "unlinked"
Remembered ==
  /\ \A r \in linking : ~Complete(r) \/ \E i \in 1 .. Len(stack) : Rescanned(stack[i], r)
  /\ \A i \in 1 .. Len(stack) : For(i, "deserialize") => Waits(stack[i].res, i)
  /\ \A i \in 1 .. Len(stack) : For(i, "setvalue") => ~Complete(stack[i].res)

IInv == Types /\ Shape /\ Owned /\ Once /\ Linked /\ Remembered
=============================================================================
