---------------------------- MODULE LoaderProofs ----------------------------
(***************************************************************************)
(* Whatever resources refer to each other and whenever schemes call back,  *)
(* each is fetched and run at most once, run only when all it refers to    *)
(* has its value, and none is forgotten: the invariant of LoaderInv is     *)
(* inductive.                                                              *)
(***************************************************************************)
EXTENDS LoaderInv, SequenceTheorems, TLAPS

-----------------------------------------------------------------------------
(***************************************************************************)
(* The stack.                                                              *)
(***************************************************************************)
LEMMA Changed ==
  ASSUME NEW S, NEW s \in Seq(S), s # <<>>, NEW g \in S
  PROVE  LET t == [s EXCEPT ![Len(s)] = g] IN
         /\ t \in Seq(S) /\ t # <<>> /\ Len(t) = Len(s) /\ t[Len(s)] = g
         /\ \A i \in 1 .. Len(s) - 1 : t[i] = s[i]
BY ExceptSeq, LenProperties, EmptySeq

LEMMA Pushed ==
  ASSUME NEW S, NEW s \in Seq(S), NEW g \in S
  PROVE  LET t == Append(s, g) IN
         /\ t \in Seq(S) /\ t # <<>> /\ Len(t) = Len(s) + 1 /\ t[Len(s) + 1] = g
         /\ \A i \in 1 .. Len(s) : t[i] = s[i]
BY AppendProperties

LEMMA Popped ==
  ASSUME NEW S, NEW s \in Seq(S), s # <<>>
  PROVE  LET t == Front(s) IN
         /\ t \in Seq(S) /\ Len(t) = Len(s) - 1 /\ Len(s) \in Nat \ {0}
         /\ \A i \in 1 .. Len(s) - 1 : t[i] = s[i]
<1>1. Len(s) \in Nat \ {0} /\ \A i \in 1 .. Len(s) - 1 : s[i] \in S
  BY EmptySeq, LenProperties, ElementOfSeq
<1> DEFINE n == Len(s) - 1
<1>2. n \in Int /\ n >= 0 /\ 1 \in Int
  BY <1>1
<1> HIDE DEF n
<1>3. /\ SubSeq(s, 1, n) \in Seq(S)
      /\ Len(SubSeq(s, 1, n)) = IF 1 <= n THEN n - 1 + 1 ELSE 0
      /\ \A i \in 1 .. n - 1 + 1 : SubSeq(s, 1, n)[i] = s[1 + i - 1]
  BY <1>1, <1>2, SubSeqProperties DEF n
<1>4. Len(SubSeq(s, 1, n)) = n /\ \A i \in 1 .. n : SubSeq(s, 1, n)[i] = s[i]
  BY <1>2, <1>3
<1> QED
  BY <1>1, <1>3, <1>4 DEF Front, n

-----------------------------------------------------------------------------
(***************************************************************************)
(* Activations.                                                            *)
(***************************************************************************)
OwnerPc == {"linking", "linked", "unlinked", "running", "ran"}

LEMMA OwnerFrame ==
  ASSUME NEW f \in Frame, f.fn \in Owners, NEW p \in OwnerPc
  PROVE  LET g == [f EXCEPT !.pc = p] IN
         /\ g \in Frame /\ g.fn = f.fn /\ g.res = f.res /\ g.pc = p
         /\ f.fn = "setvalue" => g.scanned = f.scanned /\ g.scanAgain = f.scanAgain
BY DEF Frame, Owners, OwnerPc

LEMMA LinkFrame ==
  ASSUME NEW f \in Frame, f.fn = "link"
  PROVE  /\ f.res \in Res /\ f.next \in 1 .. MaxExterns + 1 /\ f.counter \in 0 .. MaxExterns
         /\ f.next \in Nat /\ f.counter \in Nat /\ f.pc \in {"resolve", "loading"}
         /\ LET g == [f EXCEPT !.pc = "loading"] IN
            g \in Frame /\ g.fn = "link" /\ g.res = f.res /\ g.pc = "loading" /\ g.next = f.next /\ g.counter = f.counter
<1>1. f \in [fn : {"link"}, res : Res, pc : {"resolve", "loading"}, next : 1 .. MaxExterns + 1, counter : 0 .. MaxExterns]
  BY DEF Frame
<1>2. f.next \in Nat /\ f.counter \in Nat
  BY <1>1, MaxExternsIsNat
<1> QED
  BY <1>1, <1>2 DEF Frame

LEMMA LinkNext ==
  ASSUME NEW f \in Frame, f.fn = "link", f.next <= MaxExterns, f.counter < f.next, NEW n \in {0, 1}
  PROVE  LET g == [f EXCEPT !.pc = "resolve", !.next = @ + 1, !.counter = @ + n] IN
         /\ g \in Frame /\ g.fn = "link" /\ g.res = f.res /\ g.pc = "resolve"
         /\ g.next = f.next + 1 /\ g.counter = f.counter + n
<1> DEFINE Link == [fn : {"link"}, res : Res, pc : {"resolve", "loading"}, next : 1 .. MaxExterns + 1, counter : 0 .. MaxExterns]
           g == [f EXCEPT !.pc = "resolve", !.next = @ + 1, !.counter = @ + n]
<1>1. f \in Link
  BY DEF Frame
<1>2. f.next + 1 \in 1 .. MaxExterns + 1 /\ f.counter + n \in 0 .. MaxExterns
  BY <1>1, MaxExternsIsNat
<1>3. /\ g.fn = "link" /\ g.res = f.res /\ g.pc = "resolve" /\ g.next = f.next + 1 /\ g.counter = f.counter + n
      /\ g \in Link
  BY <1>1, <1>2
<1> QED
  BY <1>3 DEF Frame

LEMMA RunFrame ==
  ASSUME NEW f \in Frame, f.fn = "run"
  PROVE  /\ f.res \in Res /\ f.pc \in {"begin", "loaded"}
         /\ LET g == [f EXCEPT !.pc = "loaded"] IN g \in Frame /\ g.fn = "run" /\ g.res = f.res /\ g.pc = "loaded"
BY DEF Frame

LEMMA OwnerType ==
  ASSUME NEW f \in Frame
  PROVE  /\ f.fn \in Owners \cup {"link", "run"}
         /\ f.fn = "deserialize" => f.res \in Res /\ f.pc \in OwnerPc \cup {"new"}
         /\ f.fn = "setvalue" => /\ f.res \in Res \cup {None} /\ f.pc \in OwnerPc \cup {"next"}
                                 /\ f.scanned \in SUBSET Res /\ f.scanAgain \in BOOLEAN
BY DEF Frame, Owners, OwnerPc

LEMMA AgainFrame ==
  ASSUME NEW f \in Frame, f.fn = "setvalue", NEW g, g = [f EXCEPT !.pc = "next", !.scanAgain = TRUE]
  PROVE  g \in Frame /\ g.fn = "setvalue" /\ g.res = f.res /\ g.pc = "next" /\ g.scanned = f.scanned /\ g.scanAgain
BY DEF Frame

\* Activations that are made.
LEMMA NewFrames ==
  /\ scanLoaders \in Frame /\ scanLoaders.fn = "setvalue" /\ scanLoaders.res = None /\ scanLoaders.pc = "next"
  /\ scanLoaders.scanned = {} /\ scanLoaders.scanAgain = FALSE
  /\ \A r \in Res :
       /\ deserialize(r) \in Frame /\ deserialize(r).fn = "deserialize" /\ deserialize(r).res = r /\ deserialize(r).pc = "new"
       /\ acn_linker(r) \in Frame /\ acn_linker(r).fn = "link" /\ acn_linker(r).res = r /\ acn_linker(r).pc = "resolve"
       /\ acn_linker(r).next = 1 /\ acn_linker(r).counter = 0
       /\ method(r) \in Frame /\ method(r).fn = "run" /\ method(r).res = r /\ method(r).pc = "begin"
BY MaxExternsIsNat DEF Frame, scanLoaders, deserialize, acn_linker, method

-----------------------------------------------------------------------------
(***************************************************************************)
(* Steps that leave what is known of resources alone.                      *)
(***************************************************************************)
known == <<externs, values, loaders, linking, asked, fetches>>

LEMMA Top ==
  ASSUME Types, stack # <<>>
  PROVE  /\ Len(stack) \in Nat \ {0} /\ top = stack[Len(stack)] /\ top \in Frame
         /\ \A i \in 1 .. Len(stack) : stack[i] \in Frame
BY EmptySeq, ElementOfSeq, LenProperties DEF Types, Last, top

\* A function calls another, and waits for it.
LEMMA CalledShape ==
  ASSUME Types, Shape, stack # <<>>, NEW g \in Frame, NEW h \in Frame,
         stack' = Append([stack EXCEPT ![Len(stack)] = g], h),
         g.fn = top.fn, g.fn \in {"link", "run"} => g.res = top.res, Calls(g, h), h.pc \notin {"linking", "running"},
         Len(stack) > 1 => stack[Len(stack) - 1].fn # "setvalue"
  PROVE  Shape'
<1> DEFINE n == Len(stack)
<1>1. n \in Nat \ {0} /\ top = stack[n] /\ n = Len(stack)
  BY Top
<1>2. /\ stack' # <<>> /\ Len(stack') = n + 1 /\ stack'[n] = g /\ stack'[n + 1] = h
      /\ \A i \in 1 .. n - 1 : stack'[i] = stack[i]
  BY <1>1, Changed, Pushed DEF Types
<1> HIDE DEF n
<1>3. stack'[1].fn \in Owners
  BY <1>1, <1>2 DEF Shape
<1>4. \A i \in 1 .. n : Calls(stack'[i], stack'[i + 1])
  <2> SUFFICES ASSUME NEW i \in 1 .. n - 1 PROVE Calls(stack'[i], stack'[i + 1])
    BY <1>1, <1>2
  <2>1. Calls(stack[i], stack[i + 1]) /\ stack'[i] = stack[i]
    BY <1>1, <1>2 DEF Shape
  <2>2. CASE i + 1 = n
    BY <2>1, <2>2, <1>1, <1>2 DEF Calls, Owners
  <2>3. CASE i + 1 # n
    BY <2>1, <2>3, <1>1, <1>2
  <2> QED
    BY <2>2, <2>3
<1>5. \A i \in 1 .. n - 1 : stack'[i].fn # "setvalue"
  BY <1>1, <1>2 DEF Shape
<1> QED
  BY <1>1, <1>2, <1>3, <1>4, <1>5 DEF Shape

\* The function that runs goes on.
LEMMA ChangedShape ==
  ASSUME Types, Shape, stack # <<>>, NEW g \in Frame,
         stack' = [stack EXCEPT ![Len(stack)] = g],
         g.fn = top.fn \/ {g.fn, top.fn} \subseteq Owners, g.fn \in {"link", "run"} => g.res = top.res,
         g.pc \notin {"linking", "running"}
  PROVE  Shape'
<1> DEFINE n == Len(stack)
<1>1. n \in Nat \ {0} /\ top = stack[n] /\ n = Len(stack)
  BY Top
<1>2. /\ stack' # <<>> /\ Len(stack') = n /\ stack'[n] = g
      /\ \A i \in 1 .. n - 1 : stack'[i] = stack[i]
  BY <1>1, Changed DEF Types
<1> HIDE DEF n
<1>3. stack'[1].fn \in Owners
  <2>1. stack[1].fn \in Owners
    BY <1>1 DEF Shape
  <2>2. CASE n = 1
    BY <2>1, <2>2, <1>1, <1>2 DEF Owners
  <2>3. CASE n # 1
    BY <2>1, <2>3, <1>1, <1>2
  <2> QED
    BY <2>2, <2>3
<1>4. \A i \in 1 .. n - 1 : Calls(stack'[i], stack'[i + 1])
  <2> SUFFICES ASSUME NEW i \in 1 .. n - 1 PROVE Calls(stack'[i], stack'[i + 1])
    OBVIOUS
  <2>1. Calls(stack[i], stack[i + 1]) /\ stack'[i] = stack[i]
    BY <1>1, <1>2 DEF Shape
  <2>2. CASE i + 1 = n
    BY <2>1, <2>2, <1>1, <1>2 DEF Calls, Owners
  <2>3. CASE i + 1 # n
    BY <2>1, <2>3, <1>1, <1>2
  <2> QED
    BY <2>2, <2>3
<1>5. \A i \in 1 .. n - 2 : stack'[i].fn # "setvalue"
  BY <1>1, <1>2 DEF Shape
<1> QED
  BY <1>1, <1>2, <1>3, <1>4, <1>5 DEF Shape

\* The function that runs returns, to one that goes on with g.
LEMMA ReturnedStack ==
  ASSUME Types, Len(stack) > 1, NEW g \in Frame,
         stack' = [Front(stack) EXCEPT ![Len(stack) - 1] = g]
  PROVE  /\ stack' \in Seq(Frame) /\ stack' # <<>> /\ Len(stack') = Len(stack) - 1 /\ stack'[Len(stack) - 1] = g
         /\ \A i \in 1 .. Len(stack) - 2 : stack'[i] = stack[i]
<1>1. stack # <<>> /\ Front(stack) \in Seq(Frame) /\ Len(Front(stack)) = Len(stack) - 1 /\ Len(stack) \in Nat
  BY EmptySeq, Popped DEF Types
<1>2. Front(stack) # <<>>
  BY <1>1, EmptySeq
<1> QED
  BY <1>1, <1>2, Changed, Popped DEF Types

LEMMA ReturnedShape ==
  ASSUME Types, Shape, Len(stack) > 1, NEW g \in Frame,
         stack' = [Front(stack) EXCEPT ![Len(stack) - 1] = g],
         g.fn = stack[Len(stack) - 1].fn, g.fn \in Owners, g.res = stack[Len(stack) - 1].res,
         g.pc \notin {"linking", "running"}
  PROVE  Shape'
<1> DEFINE n == Len(stack) - 1
<1>1. n \in Nat \ {0} /\ Len(stack) = n + 1
  BY LenProperties DEF Types
<1>2. /\ stack' # <<>> /\ Len(stack') = n /\ stack'[n] = g
      /\ \A i \in 1 .. Len(stack) - 2 : stack'[i] = stack[i]
  BY ReturnedStack
<1>3. stack # <<>>
  BY <1>1, EmptySeq DEF Types
<1> HIDE DEF n
<1>4. \A i \in 1 .. n - 1 : Calls(stack'[i], stack'[i + 1])
  <2> SUFFICES ASSUME NEW i \in 1 .. n - 1 PROVE Calls(stack'[i], stack'[i + 1])
    OBVIOUS
  <2>1. Calls(stack[i], stack[i + 1]) /\ stack'[i] = stack[i]
    BY <1>1, <1>2 DEF Shape
  <2>2. CASE i + 1 = n
    BY <2>1, <2>2, <1>1, <1>2 DEF Calls, Owners
  <2>3. CASE i + 1 # n
    BY <2>1, <2>3, <1>1, <1>2
  <2> QED
    BY <2>2, <2>3
<1>5. stack'[1].fn \in Owners
  <2>1. stack[1].fn \in Owners
    BY <1>3 DEF Shape
  <2>2. CASE n = 1
    BY <2>1, <2>2, <1>1, <1>2
  <2>3. CASE n # 1
    BY <2>1, <2>3, <1>1, <1>2
  <2> QED
    BY <2>2, <2>3
<1>6. \A i \in 1 .. n - 2 : stack'[i].fn # "setvalue"
  BY <1>1, <1>2 DEF Shape
<1> QED
  BY <1>1, <1>2, <1>4, <1>5, <1>6 DEF Shape

LEMMA AtIs ==
  ASSUME Types, stack # <<>>, NEW p
  PROVE  At(p) = [stack EXCEPT ![Len(stack)] = [top EXCEPT !.pc = p]]
BY Top DEF At, With

LEMMA Externs ==
  ASSUME Types, NEW r \in Res
  PROVE  /\ Len(externs[r]) \in 0 .. MaxExterns /\ Len(externs[r]) \in Nat /\ externs[r] \in Seq(Res)
         /\ \A k \in 1 .. Len(externs[r]) : externs[r][k] \in Res
         /\ ToSet(externs[r]) = {externs[r][k] : k \in 1 .. Len(externs[r])}
<1>1. externs[r] \in SeqOf(Res, MaxExterns)
  BY DEF Types, ExternLists
<1>2. PICK m \in 0 .. MaxExterns : externs[r] \in [1 .. m -> Res]
  BY <1>1 DEF SeqOf
<1>3. m \in Nat /\ externs[r] \in Seq(Res) /\ Len(externs[r]) = m /\ DOMAIN externs[r] = 1 .. m
  BY <1>2, MaxExternsIsNat
<1> QED
  BY <1>2, <1>3 DEF ToSet

\* What is known of an activation stays true while more becomes known.
LEMMA FrameKept ==
  ASSUME Types, NEW i \in 1 .. Len(stack), FrameOK(stack[i]), stack'[i] = stack[i], UNCHANGED externs,
         values \subseteq values', values \cup loaders \subseteq values' \cup loaders',
         linking \subseteq linking' \/ stack[i].fn # "setvalue"
  PROVE  FrameOK(stack[i])'
<1>1. stack[i] \in Frame
  BY ElementOfSeq DEF Types
<1>2. CASE stack[i].fn = "link"
  <2>1. stack[i].res \in Res
    BY <1>1, <1>2, LinkFrame
  <2> QED
    BY <1>2, <2>1, Externs DEF FrameOK, Known, Owners
<1>3. CASE stack[i].fn \in Owners
  BY <1>3 DEF FrameOK, Complete, KnownAll, Owners
<1> QED
  BY <1>2, <1>3 DEF FrameOK, Owners

\* What is stuck stays so while the activation is there.
LEMMA WaitsKept ==
  ASSUME NEW r \in Res, NEW i \in Nat, Waits(r, i), UNCHANGED externs,
         \A W : Stuck(W, i) =>
           \A w \in W : w \in loaders' /\ (w \in asked => w \in asked') /\ (w \in linking => w \in linking'),
         \A j \in 1 .. i : stack[j].fn = "deserialize" => stack'[j].fn = "deserialize" /\ stack'[j].res = stack[j].res
  PROVE  Waits(r, i)'
<1>1. PICK W \in SUBSET Res : Stuck(W, i) /\ ToSet(externs[r]) \cap W # {}
  BY DEF Waits
<1>2. \A w \in W : w \in loaders' /\ (w \in asked => w \in asked') /\ (w \in linking => w \in linking')
  BY <1>1
<1>3. Stuck(W, i)'
  BY <1>1, <1>2 DEF Stuck
<1> QED
  BY <1>1, <1>3 DEF Waits

\* A step that sets no value keeps the invariant, if what it does to the activations behind the first m keeps theirs.
LEMMA Preserved ==
  ASSUME IInv, Types', Shape', Owned', Once', NEW m \in Nat, m <= Len(stack), m <= Len(stack'),
         \A i \in 1 .. m : stack'[i] = stack[i],
         UNCHANGED <<externs, values>>, loaders \subseteq loaders', linking \subseteq linking', asked \subseteq asked',
         \A i \in 1 .. Len(stack') : i > m =>
           /\ FrameOK(stack[i])'
           /\ For(i, "deserialize")' => Waits(stack[i].res, i)'
           /\ For(i, "setvalue")' => ~Complete(stack[i].res)',
         \A r \in linking' \ linking : KnownAll(r)' /\ ~Complete(r)',
         \A r \in linking, i \in 1 .. Len(stack) : i > m /\ Rescanned(stack[i], r) /\ Complete(r) =>
           \E j \in 1 .. Len(stack') : Rescanned(stack'[j], r)
  PROVE  IInv'
<1>1. /\ \A i \in 1 .. Len(stack') : i \in 1 .. m \/ i > m
      /\ \A i \in 1 .. Len(stack) : i \in 1 .. m \/ i > m
      /\ \A i \in 1 .. m : i \in 1 .. Len(stack) /\ i \in 1 .. Len(stack')
      /\ \A i \in 1 .. m : i > 1 => i - 1 \in 1 .. m
  BY LenProperties DEF IInv, Types
<1>2. \A i \in 1 .. Len(stack') : FrameOK(stack[i])'
  BY <1>1, FrameKept DEF IInv, Linked
<1>3. Linked'
  BY <1>2 DEF Linked, IInv, KnownAll
<1>4. \A i \in 1 .. m, fn \in Owners : For(i, fn)' => For(i, fn)
  BY <1>1 DEF For
<1>5. ASSUME NEW i \in 1 .. m, For(i, "deserialize")'
      PROVE  Waits(stack[i].res, i)'
  <2>1. For(i, "deserialize") /\ stack'[i] = stack[i] /\ i \in 1 .. Len(stack)
    BY <1>1, <1>4, <1>5 DEF Owners
  <2>2. stack[i].res \in Res
    BY <2>1, ElementOfSeq, OwnerType, LinkFrame DEF For, IInv, Types
  <2>3. Waits(stack[i].res, i)
    BY <2>1 DEF IInv, Remembered
  <2>4. \A W : Stuck(W, i) => \A w \in W : w \in loaders'
    BY DEF Stuck
  <2>5. \A j \in 1 .. i : stack'[j] = stack[j]
    BY <1>1
  <2> QED
    BY <2>1, <2>2, <2>3, <2>4, <2>5, WaitsKept
<1>6. ASSUME NEW i \in 1 .. m, For(i, "setvalue")'
      PROVE  ~Complete(stack[i].res)'
  BY <1>1, <1>4, <1>6 DEF IInv, Remembered, Complete, Owners
<1>7. ASSUME NEW r \in linking', Complete(r)'
      PROVE  \E i \in 1 .. Len(stack') : Rescanned(stack'[i], r)
  <2>1. r \in linking /\ Complete(r)
    BY <1>7 DEF Complete
  <2>2. PICK i \in 1 .. Len(stack) : Rescanned(stack[i], r)
    BY <2>1 DEF IInv, Remembered
  <2> QED
    BY <1>1, <2>1, <2>2
<1>8. Remembered'
  BY <1>1, <1>5, <1>6, <1>7 DEF Remembered
<1> QED
  BY <1>3, <1>8 DEF IInv

\* Nothing is known yet of an activation that has just been made.
LEMMA FreshOK ==
  ASSUME Types', NEW i, NEW r \in Res, stack'[i] \in {acn_linker(r), method(r), deserialize(r), scanLoaders}
  PROVE  FrameOK(stack[i])' /\ ~For(i, "deserialize")' /\ ~For(i, "setvalue")'
<1>1. CASE stack'[i] = acn_linker(r)
  <2>1. externs'[r] \in SeqOf(Res, MaxExterns)
    BY DEF Types, ExternLists
  <2>2. PICK m \in 0 .. MaxExterns : externs'[r] \in [1 .. m -> Res]
    BY <2>1 DEF SeqOf
  <2>3. Len(externs'[r]) \in Nat
    BY <2>2, MaxExternsIsNat
  <2>4. /\ stack'[i].fn = "link" /\ stack'[i].res = r /\ stack'[i].pc = "resolve" /\ stack'[i].next = 1
        /\ stack'[i].counter = 0
    BY <1>1, NewFrames
  <2>5. FrameOK(stack[i])'
    BY <2>3, <2>4 DEF FrameOK, Owners
  <2> QED
    BY <2>4, <2>5 DEF For
<1>2. CASE stack'[i] \in {method(r), deserialize(r)}
  BY <1>2, NewFrames DEF FrameOK, For, Owners
<1>3. CASE stack'[i] = scanLoaders
  BY <1>3, NewFrames DEF FrameOK, For, Owners
<1> QED
  BY <1>1, <1>2, <1>3

LEMMA DecodeMethodStep ==
  ASSUME IInv, DecodeMethod
  PROVE  IInv'
<1>1. PICK n : n = Len(stack)
  OBVIOUS
<1>2. /\ stack # <<>> /\ n \in Nat \ {0} /\ top = stack[n] /\ top \in Frame
      /\ top.fn = "deserialize" /\ top.pc = "new" /\ top.res \in Res
  BY <1>1, Top, OwnerType DEF IInv, DecodeMethod, In
<1>3. PICK g : g = [top EXCEPT !.pc = "linking"]
  OBVIOUS
<1>4. PICK h : h = acn_linker(top.res)
  OBVIOUS
<1>5. g \in Frame /\ h \in Frame /\ g.fn = "deserialize" /\ g.res = top.res /\ g.pc = "linking"
      /\ h.fn = "link" /\ h.res = top.res /\ h.pc = "resolve" /\ h.next = 1 /\ h.counter = 0
  BY <1>2, <1>3, <1>4, OwnerFrame, NewFrames, ZenonT(60) DEF Owners, OwnerPc
<1>6. stack' = Append([stack EXCEPT ![Len(stack)] = g], h)
  BY <1>2, <1>3, <1>4, AtIs DEF DecodeMethod, Called, IInv
<1>7. UNCHANGED <<externs, values, loaders, linking, asked, fetches, runs>>
  BY DEF DecodeMethod
<1>8. /\ stack' \in Seq(Frame) /\ stack' # <<>> /\ Len(stack') = n + 1 /\ stack'[n] = g /\ stack'[n + 1] = h
      /\ \A i \in 1 .. n - 1 : stack'[i] = stack[i]
  BY <1>1, <1>2, <1>5, <1>6, Changed, Pushed DEF IInv, Types
<1>9. Types'
  BY <1>7, <1>8 DEF IInv, Types
<1>10. Shape'
  <2>1. Len(stack) > 1 => stack[Len(stack) - 1].fn # "setvalue"
    BY <1>1, <1>2 DEF IInv, Shape, Calls, Owners
  <2> QED
    BY <1>2, <1>5, <1>6, <2>1, CalledShape DEF IInv, Calls, Owners
<1>11. Owned'
  BY <1>1, <1>2, <1>5, <1>7, <1>8 DEF IInv, Owned, Decoding
<1>12. Once'
  BY <1>1, <1>2, <1>5, <1>7, <1>8 DEF IInv, Once, InProgress, Known
<1>13. FrameOK(stack[n])' /\ ~For(n, "deserialize")' /\ ~For(n, "setvalue")'
  BY <1>2, <1>5, <1>8 DEF FrameOK, For, Owners
<1>14. FrameOK(stack[n + 1])'  /\ ~For(n + 1, "deserialize")' /\ ~For(n + 1, "setvalue")'
  BY <1>2, <1>4, <1>8, <1>9, FreshOK
<1>15. \A r : ~Rescanned(stack[n], r)
  BY <1>2 DEF Rescanned
<1>16. /\ n - 1 \in Nat /\ n - 1 <= Len(stack) /\ n - 1 <= Len(stack')
       /\ \A i \in 1 .. Len(stack') : i > n - 1 => i \in {n, n + 1}
       /\ \A i \in 1 .. Len(stack) : i > n - 1 => i = n
  BY <1>1, <1>2, <1>8
<1> QED
  BY <1>7, <1>8, <1>9, <1>10, <1>11, <1>12, <1>13, <1>14, <1>15, <1>16, Preserved

LEMMA OwnerRes ==
  ASSUME IInv, stack # <<>>, top.fn \in Owners, top.pc # "next"
  PROVE  /\ top.res \in Res /\ top.res \in loaders /\ top.res \notin values
         /\ top.fn = "deserialize" => top.res \notin asked \cup linking
         /\ top.fn = "setvalue" => top.res \in linking
         /\ \A i \in 1 .. Len(stack) - 1 : ~(stack[i].fn \in Owners /\ stack[i].res = top.res)
<1>1. PICK n : n = Len(stack)
  OBVIOUS
<1>2. n \in Nat \ {0} /\ top = stack[n] /\ top \in Frame /\ FrameOK(top)
  BY <1>1, Top DEF IInv, Linked
<1>3. /\ top.fn = "deserialize" => top.res \in loaders \ (asked \cup linking)
      /\ top.fn = "setvalue" => top.res \in linking
  BY <1>1, <1>2 DEF IInv, Owned, FrameOK
<1>4. top.res \in Res /\ top.res \in loaders /\ top.res \notin values
  BY <1>3 DEF IInv, Owned, Types, Owners
<1>5. ASSUME NEW i \in 1 .. n - 1, stack[i].fn \in Owners, stack[i].res = top.res
      PROVE  FALSE
  <2>1. CASE stack[i].fn = "deserialize"
    BY <1>1, <1>2, <1>3, <1>5, <2>1 DEF IInv, Owned, Owners
  <2>2. CASE stack[i].fn = "setvalue"
    BY <1>1, <1>2, <1>5, <2>2 DEF IInv, Shape, Calls, Owners
  <2> QED
    BY <1>5, <2>1, <2>2 DEF Owners
<1> QED
  BY <1>1, <1>3, <1>4, <1>5

LEMMA RunLinkedStep ==
  ASSUME IInv, RunLinked
  PROVE  IInv'
<1>1. PICK n : n = Len(stack)
  OBVIOUS
<1>2. /\ stack # <<>> /\ n \in Nat \ {0} /\ top = stack[n] /\ top \in Frame
      /\ top.fn \in Owners /\ top.pc = "linked" /\ FrameOK(top)
  BY <1>1, Top DEF IInv, RunLinked, In, Owners, Linked
<1>3. PICK g : g = [top EXCEPT !.pc = "running"]
  OBVIOUS
<1>4. PICK h : h = method(top.res)
  OBVIOUS
<1>5. /\ top.res \in Res /\ top.res \in loaders /\ top.res \notin values /\ Complete(top.res)
      /\ \A i \in 1 .. n - 1 : ~(stack[i].fn \in Owners /\ stack[i].res = top.res)
      /\ top.fn = "setvalue" => top.res \in linking /\ top.res \in top.scanned
  BY <1>1, <1>2, OwnerRes DEF OwnerPc, FrameOK
<1>6. g \in Frame /\ h \in Frame /\ g.fn = top.fn /\ g.res = top.res /\ g.pc = "running"
      /\ (g.fn = "setvalue" => g.scanned = top.scanned /\ g.scanAgain = top.scanAgain)
      /\ h.fn = "run" /\ h.res = top.res /\ h.pc = "begin"
  <2>1. "running" \in OwnerPc
    BY DEF OwnerPc
  <2>2. g \in Frame /\ g.fn = top.fn /\ g.res = top.res /\ g.pc = "running"
        /\ (g.fn = "setvalue" => g.scanned = top.scanned /\ g.scanAgain = top.scanAgain)
    BY <1>2, <1>3, <2>1, OwnerFrame
  <2> QED
    BY <1>4, <1>5, <2>2, NewFrames
<1>7. stack' = Append([stack EXCEPT ![Len(stack)] = g], h)
  BY <1>2, <1>3, <1>4, AtIs DEF RunLinked, Called, IInv
<1>8. UNCHANGED <<externs, values, loaders, linking, asked, fetches>> /\ runs' = [runs EXCEPT ![top.res] = @ + 1]
  BY DEF RunLinked
<1>9. /\ stack' \in Seq(Frame) /\ stack' # <<>> /\ Len(stack') = n + 1 /\ stack'[n] = g /\ stack'[n + 1] = h
      /\ \A i \in 1 .. n - 1 : stack'[i] = stack[i]
  BY <1>1, <1>2, <1>6, <1>7, Changed, Pushed DEF IInv, Types
<1>10. Types'
  BY <1>5, <1>8, <1>9 DEF IInv, Types
<1>11. Shape'
  <2>1. Len(stack) > 1 => stack[Len(stack) - 1].fn # "setvalue"
    BY <1>1, <1>2 DEF IInv, Shape, Calls, Owners
  <2> QED
    BY <1>2, <1>6, <1>7, <2>1, CalledShape DEF IInv, Calls, Owners
<1>12. Owned'
  BY <1>1, <1>2, <1>6, <1>8, <1>9, SMTT(60) DEF IInv, Owned, Decoding
<1>13. Once'
  <2> PICK r \in Res : r = top.res
    BY <1>5
  <2>1. runs[r] = 0
    <3>1. ~InProgress(r)
      BY <1>1, <1>2, <1>5 DEF InProgress
    <3> QED
      BY <1>5, <3>1 DEF IInv, Once, Types
  <2>2. InProgress(r)'
    BY <1>2, <1>6, <1>9 DEF InProgress
  <2>3. \A q \in Res : InProgress(q) => InProgress(q)'
    BY <1>1, <1>2, <1>6, <1>9 DEF InProgress
  <2> QED
    BY <1>5, <1>8, <2>1, <2>2, <2>3 DEF IInv, Once, Types, Known
<1>14. FrameOK(stack[n])' /\ ~For(n, "deserialize")' /\ ~For(n, "setvalue")'
  BY <1>2, <1>5, <1>6, <1>8, <1>9 DEF FrameOK, For, Owners, Complete
<1>15. FrameOK(stack[n + 1])'  /\ ~For(n + 1, "deserialize")' /\ ~For(n + 1, "setvalue")'
  BY <1>4, <1>5, <1>9, <1>10, FreshOK
<1>16. \A r : Rescanned(stack[n], r) => Rescanned(stack'[n], r)
  BY <1>2, <1>6, <1>9 DEF Rescanned
<1>17. /\ n - 1 \in Nat /\ n - 1 <= Len(stack) /\ n - 1 <= Len(stack') /\ n \in 1 .. Len(stack')
       /\ \A i \in 1 .. Len(stack') : i > n - 1 => i \in {n, n + 1}
       /\ \A i \in 1 .. Len(stack) : i > n - 1 => i = n
  BY <1>1, <1>2, <1>9
<1> QED
  BY <1>8, <1>9, <1>10, <1>11, <1>12, <1>13, <1>14, <1>15, <1>16, <1>17, Preserved

-----------------------------------------------------------------------------
(***************************************************************************)
(* The linker.                                                             *)
(***************************************************************************)
\* While no loaders are scanned, all that is being loaded waits for schemes, for who is running, or for each other.
LEMMA AllStuck ==
  ASSUME IInv, \A i \in 1 .. Len(stack) : stack[i].fn # "setvalue"
  PROVE  Stuck(loaders, Len(stack))
<1>1. ASSUME NEW w \in linking
      PROVE  ToSet(externs[w]) \cap loaders # {}
  <2>1. ~Complete(w) /\ KnownAll(w)
    BY <1>1 DEF IInv, Remembered, Rescanned, Linked
  <2> QED
    BY <2>1 DEF Complete, KnownAll
<1> QED
  BY <1>1 DEF Stuck, IInv, Owned, Decoding

LEMMA LinkTop ==
  ASSUME IInv, stack # <<>>, top.fn = "link"
  PROVE  /\ Len(stack) > 1 /\ stack[Len(stack) - 1] \in Frame /\ stack[Len(stack) - 1].fn \in Owners
         /\ stack[Len(stack) - 1].pc = "linking" /\ stack[Len(stack) - 1].res = top.res /\ top.res \in Res
         /\ FrameOK(top) /\ top \in Frame /\ Len(externs[top.res]) \in 0 .. MaxExterns
         /\ top.next \in 1 .. MaxExterns + 1 /\ top.counter \in 0 .. MaxExterns
<1>1. PICK n : n = Len(stack)
  OBVIOUS
<1>2. n \in Nat \ {0} /\ top = stack[n] /\ top \in Frame /\ FrameOK(top) /\ \A i \in 1 .. n : stack[i] \in Frame
  BY <1>1, Top DEF IInv, Linked
<1>3. n > 1
  BY <1>1, <1>2 DEF IInv, Shape, Owners
<1>4. stack[n - 1].fn \in Owners /\ stack[n - 1].pc = "linking" /\ stack[n - 1].res = top.res
  <2>1. Calls(stack[n - 1], stack[n - 1 + 1]) /\ n - 1 + 1 = n
    BY <1>1, <1>2, <1>3 DEF IInv, Shape
  <2> QED
    BY <1>2, <2>1 DEF Calls, Owners
<1>5. top.res \in Res /\ top.next \in 1 .. MaxExterns + 1 /\ top.counter \in 0 .. MaxExterns
  BY <1>2, LinkFrame
<1>6. Len(externs[top.res]) \in 0 .. MaxExterns
  BY <1>5, Externs DEF IInv
<1>7. stack[n - 1] \in Frame
  BY <1>2, <1>3
<1> QED
  BY <1>1, <1>2, <1>3, <1>4, <1>5, <1>6, <1>7

LEMMA ResolvedStep ==
  ASSUME IInv, stack # <<>>, top.fn = "link", top.next <= Len(externs[top.res]), Known(extern), Resolved(unresolved),
         UNCHANGED <<externs, values, loaders, linking, asked, fetches, runs>>
  PROVE  IInv'
<1>1. PICK n : n = Len(stack)
  OBVIOUS
<1>2. n \in Nat /\ n > 1 /\ top = stack[n] /\ top \in Frame /\ FrameOK(top) /\ top.res \in Res
      /\ stack[n - 1].fn \in Owners /\ stack[n - 1].res = top.res
      /\ top.next \in 1 .. MaxExterns + 1 /\ top.counter \in 0 .. MaxExterns /\ Len(externs[top.res]) \in 0 .. MaxExterns
  BY <1>1, Top, LinkTop DEF IInv
<1>3. PICK c : c = unresolved
  OBVIOUS
<1>4. c \in {0, 1} /\ (c = 0 <=> extern \in values)
  BY <1>3 DEF unresolved
<1>5. PICK g : g = [top EXCEPT !.pc = "resolve", !.next = @ + 1, !.counter = @ + c]
  OBVIOUS
<1>6. g \in Frame /\ g.fn = "link" /\ g.res = top.res /\ g.pc = "resolve" /\ g.next = top.next + 1 /\ g.counter = top.counter + c
  <2>1. top.next <= MaxExterns /\ top.counter < top.next
    BY <1>2, MaxExternsIsNat DEF FrameOK
  <2> QED
    BY <1>2, <1>4, <1>5, <2>1, LinkNext, ZenonT(60)
<1>7. stack' = [stack EXCEPT ![Len(stack)] = g]
  BY <1>3, <1>5 DEF Resolved
<1>8. /\ stack' \in Seq(Frame) /\ stack' # <<>> /\ Len(stack') = n /\ stack'[n] = g
      /\ \A i \in 1 .. n - 1 : stack'[i] = stack[i]
  BY <1>1, <1>6, <1>7, Changed DEF IInv, Types
<1>9. Types'
  BY <1>8 DEF IInv, Types
<1>10. Shape'
  BY <1>6, <1>7, ChangedShape DEF IInv
<1>11. \A i \in 1 .. n : /\ stack'[i].fn = stack[i].fn /\ stack'[i].res = stack[i].res
                        /\ (stack[i].fn \in Owners => stack'[i].pc = stack[i].pc)
  BY <1>2, <1>6, <1>8 DEF Owners
<1>12. Owned'
  <2>1. \A r : Decoding(r)' <=> Decoding(r)
    BY <1>1, <1>8, <1>11 DEF Decoding
  <2> QED
    BY <1>1, <1>8, <1>11, <2>1 DEF IInv, Owned
<1>18. Once'
  <2>1. \A r : InProgress(r)' <=> InProgress(r)
    BY <1>1, <1>8, <1>11 DEF InProgress
  <2> QED
    BY <2>1 DEF IInv, Once, Known
<1>13. FrameOK(stack[n])'
  <2>1. extern = externs[top.res][top.next]
    BY DEF extern
  <2>2. \A k \in 1 .. Len(externs[top.res]) : k < top.next + 1 => Known(externs[top.res][k])
    BY <1>2, <2>1 DEF FrameOK
  <2>3. top.counter + c = 0 => \A k \in 1 .. Len(externs[top.res]) : k < top.next + 1 => externs[top.res][k] \in values
    <3> SUFFICES ASSUME top.counter + c = 0, NEW k \in 1 .. Len(externs[top.res]), k < top.next + 1
                 PROVE  externs[top.res][k] \in values
      OBVIOUS
    <3>1. top.counter = 0 /\ c = 0
      BY <1>2, <1>4
    <3>2. CASE k < top.next
      BY <1>2, <3>1, <3>2 DEF FrameOK
    <3>3. CASE k = top.next
      BY <1>4, <2>1, <3>1, <3>3
    <3> QED
      BY <1>2, <3>2, <3>3
  <2>4. g.counter < g.next /\ g.next <= Len(externs[g.res]) + 1
    BY <1>2, <1>4, <1>6, SMTT(30) DEF FrameOK
  <2>5. \A r : Known(r)' <=> Known(r)
    BY DEF Known
  <2> QED
    BY <1>6, <1>8, <2>2, <2>3, <2>4, <2>5 DEF FrameOK, Owners
<1>19. extern \in ToSet(externs[top.res])
  <2>1. ToSet(externs[top.res]) = {externs[top.res][k] : k \in 1 .. Len(externs[top.res])}
    BY <1>2, Externs DEF IInv
  <2> QED
    BY <1>2, <2>1 DEF extern
<1>14. ASSUME For(n, "deserialize")' PROVE Waits(stack[n].res, n)'
  <2>1. stack[n - 1].fn = "deserialize" /\ top.counter + c > 0
    BY <1>2, <1>6, <1>8, <1>14 DEF For
  <2>2. PICK W \in SUBSET Res : Stuck(W, n) /\ ToSet(externs[top.res]) \cap W # {}
    <3>1. CASE c = 0
      BY <1>1, <1>2, <2>1, <3>1 DEF IInv, Remembered, For, Waits
    <3>2. CASE c = 1
      <4>1. \A i \in 1 .. n : stack[i].fn # "setvalue"
        BY <1>1, <1>2, <2>1 DEF IInv, Shape
      <4>2. extern \in ToSet(externs[top.res]) /\ extern \in loaders
        BY <1>4, <1>19, <3>2 DEF Known
      <4> QED
        BY <1>1, <4>1, <4>2, AllStuck DEF IInv, Types
    <3> QED
      BY <1>4, <3>1, <3>2
  <2>3. \A j \in 1 .. n : stack[j].fn = "deserialize" => stack'[j] = stack[j]
    BY <1>2, <1>8
  <2>4. Stuck(W, n)'
    BY <2>2, <2>3 DEF Stuck
  <2> QED
    BY <1>6, <1>8, <2>2, <2>4 DEF Waits
<1>15. ASSUME For(n, "setvalue")' PROVE ~Complete(stack[n].res)'
  <2>1. stack[n - 1].fn = "setvalue" /\ top.counter + c > 0
    BY <1>2, <1>6, <1>8, <1>15 DEF For
  <2>2. CASE c = 0
    BY <1>1, <1>2, <1>6, <1>8, <2>1, <2>2 DEF IInv, Remembered, For, Complete
  <2>3. CASE c = 1
    BY <1>4, <1>6, <1>8, <1>19, <2>3 DEF Complete
  <2> QED
    BY <1>4, <2>2, <2>3
<1>16. \A r : ~Rescanned(stack[n], r)
  BY <1>2 DEF Rescanned
<1>17. /\ n - 1 \in Nat /\ n - 1 <= Len(stack) /\ n - 1 <= Len(stack')
       /\ \A i \in 1 .. Len(stack') : i > n - 1 => i = n
       /\ \A i \in 1 .. Len(stack) : i > n - 1 => i = n
  BY <1>1, <1>2, <1>8
<1> QED
  BY <1>8, <1>9, <1>10, <1>12, <1>18, <1>13, <1>14, <1>15, <1>16, <1>17, Preserved

LEMMA ResolveKnownStep ==
  ASSUME IInv, ResolveKnown
  PROVE  IInv'
BY ResolvedStep DEF ResolveKnown, In

LEMMA ResolveLoadedStep ==
  ASSUME IInv, ResolveLoaded
  PROVE  IInv'
<1>1. stack # <<>> /\ top.fn = "link" /\ top.pc = "loading"
  BY DEF ResolveLoaded, In
<1>2. top.next <= Len(externs[top.res]) /\ Known(extern)
  BY <1>1, LinkTop DEF FrameOK, extern
<1> QED
  BY <1>1, <1>2, ResolvedStep DEF ResolveLoaded

-----------------------------------------------------------------------------
(***************************************************************************)
(* Returns.                                                                *)
(***************************************************************************)
LEMMA ReturnToIs ==
  ASSUME Types, Len(stack) > 1, NEW p
  PROVE  ReturnTo(p) = [Front(stack) EXCEPT ![Len(stack) - 1] = [stack[Len(stack) - 1] EXCEPT !.pc = p]]
<1>1. stack # <<>> /\ Len(stack) \in Nat
  BY EmptySeq, LenProperties DEF Types
<1>2. Len(Front(stack)) = Len(stack) - 1 /\ Front(stack)[Len(stack) - 1] = stack[Len(stack) - 1]
  BY <1>1, Popped DEF Types
<1> QED
  BY <1>2 DEF ReturnTo

\* The linker or a method returns to what has called it.
LEMMA ReturnedStep ==
  ASSUME IInv, stack # <<>>, NEW p, stack' = ReturnTo(p),
         \/ /\ top.fn = "link" /\ top.pc = "resolve" /\ top.next > Len(externs[top.res])
            /\ p = IF top.counter = 0 THEN "linked" ELSE "unlinked"
         \/ top.fn = "run" /\ p = "ran",
         UNCHANGED <<externs, values, loaders, linking, asked, fetches, runs>>
  PROVE  IInv'
<1>1. PICK n : n = Len(stack)
  OBVIOUS
<1>2. n \in Nat \ {0} /\ top = stack[n] /\ top \in Frame /\ FrameOK(top) /\ \A i \in 1 .. n : stack[i] \in Frame
      /\ top.fn \in {"link", "run"}
  BY <1>1, Top DEF IInv, Linked
<1>3. n > 1
  BY <1>1, <1>2 DEF IInv, Shape, Owners
<1>4. PICK f : f = stack[n - 1]
  OBVIOUS
<1>5. f \in Frame /\ f.fn \in Owners /\ f.res = top.res /\ FrameOK(f)
      /\ (top.fn = "link" => f.pc = "linking") /\ (top.fn = "run" => f.pc = "running")
  <2>1. Calls(stack[n - 1], stack[n - 1 + 1]) /\ n - 1 + 1 = n /\ n - 1 \in 1 .. n
    BY <1>1, <1>2, <1>3 DEF IInv, Shape
  <2>2. FrameOK(stack[n - 1])
    BY <1>1, <2>1 DEF IInv, Linked
  <2> QED
    BY <1>2, <1>4, <2>1, <2>2 DEF Calls, Owners
<1>6. PICK g : g = [f EXCEPT !.pc = p]
  OBVIOUS
<1>7. p \in {"linked", "unlinked", "ran"}
  OBVIOUS
<1>8. g \in Frame /\ g.fn = f.fn /\ g.res = f.res /\ g.pc = p
      /\ (g.fn = "setvalue" => g.scanned = f.scanned /\ g.scanAgain = f.scanAgain)
  <2>1. p \in OwnerPc
    BY <1>7 DEF OwnerPc
  <2> QED
    BY <1>5, <1>6, <2>1, OwnerFrame
<1>9. stack' = [Front(stack) EXCEPT ![Len(stack) - 1] = g]
  BY <1>1, <1>3, <1>4, <1>6, ReturnToIs DEF IInv
<1>10. /\ stack' \in Seq(Frame) /\ stack' # <<>> /\ Len(stack') = n - 1 /\ stack'[n - 1] = g
       /\ \A i \in 1 .. n - 2 : stack'[i] = stack[i]
  BY <1>1, <1>3, <1>8, <1>9, ReturnedStack DEF IInv
<1>11. Types'
  BY <1>10 DEF IInv, Types
<1>12. Shape'
  BY <1>1, <1>3, <1>4, <1>5, <1>7, <1>8, <1>9, ReturnedShape DEF IInv
<1>13. \A i \in 1 .. n - 1 : stack'[i].fn = stack[i].fn /\ stack'[i].res = stack[i].res
  <2> SUFFICES ASSUME NEW i \in 1 .. n - 1
               PROVE  stack'[i].fn = stack[i].fn /\ stack'[i].res = stack[i].res
    OBVIOUS
  <2>1. CASE i = n - 1
    BY <2>1, <1>4, <1>8, <1>10
  <2>2. CASE i # n - 1
    BY <2>2, <1>2, <1>3, <1>10
  <2> QED
    BY <2>1, <2>2
<1>14. Owned'
  <2>1. \A r : Decoding(r)' <=> Decoding(r)
    BY <1>1, <1>2, <1>3, <1>10, <1>13 DEF Decoding
  <2> QED
    BY <1>1, <1>2, <1>10, <1>13, <2>1 DEF IInv, Owned
<1>15. Once'
  <2>1. ASSUME NEW r, InProgress(r) PROVE InProgress(r)'
    <3>1. PICK i \in 1 .. n : stack[i].fn \in Owners /\ stack[i].res = r /\ stack[i].pc \in {"running", "ran"}
      BY <1>1, <2>1 DEF InProgress
    <3>2. CASE i \in 1 .. n - 2
      BY <1>2, <1>3, <1>10, <3>1, <3>2 DEF InProgress
    <3>3. CASE i = n - 1
      <4>1. p = "ran"
        BY <1>2, <1>4, <1>5, <3>1, <3>3
      <4> QED
        BY <1>2, <1>3, <1>4, <1>8, <1>10, <3>1, <3>3, <4>1 DEF InProgress
    <3>4. i # n
      BY <1>2, <3>1 DEF Owners
    <3> QED
      BY <1>2, <3>2, <3>3, <3>4
  <2> QED
    BY <2>1 DEF IInv, Once, Known
<1>16. p = "linked" \/ p = "ran" => Complete(f.res)
  <2>1. CASE top.fn = "run"
    BY <1>5, <2>1 DEF FrameOK
  <2>2. CASE top.fn = "link" /\ p = "linked"
    <3>1. top.counter = 0 /\ top.next > Len(externs[top.res]) /\ top.res \in Res
      BY <1>2, <2>2, LinkFrame
    <3>2. Len(externs[top.res]) \in Nat /\ ToSet(externs[top.res]) = {externs[top.res][k] : k \in 1 .. Len(externs[top.res])}
      BY <3>1, Externs DEF IInv
    <3>3. top.next \in Nat
      BY <1>2, <2>2, LinkFrame
    <3>4. \A k \in 1 .. Len(externs[top.res]) : k < top.next /\ externs[top.res][k] \in values
      BY <1>2, <2>2, <3>1, <3>2, <3>3 DEF FrameOK
    <3> QED
      BY <1>5, <3>2, <3>4 DEF Complete
  <2> QED
    BY <1>2, <2>1, <2>2
<1>17. p = "unlinked" => KnownAll(f.res) /\ top.fn = "link" /\ top.counter > 0
  <2> SUFFICES ASSUME p = "unlinked" PROVE KnownAll(f.res) /\ top.fn = "link" /\ top.counter > 0
    OBVIOUS
  <2>1. top.counter # 0 /\ top.fn = "link" /\ top.next > Len(externs[top.res])
    OBVIOUS
  <2>6. top.counter \in Nat /\ top.next \in Nat /\ top.res \in Res
    BY <1>2, <2>1, LinkFrame
  <2>2. top.counter > 0 /\ top.next \in Nat /\ top.res \in Res
    BY <2>1, <2>6
  <2>3. Len(externs[top.res]) \in Nat /\ ToSet(externs[top.res]) = {externs[top.res][k] : k \in 1 .. Len(externs[top.res])}
    BY <2>2, Externs DEF IInv
  <2>4. \A k \in 1 .. Len(externs[top.res]) : k < top.next
    BY <2>1, <2>2, <2>3
  <2>5. \A k \in 1 .. Len(externs[top.res]) : Known(externs[top.res][k])
    BY <1>2, <2>1, <2>4 DEF FrameOK
  <2> QED
    BY <1>5, <2>1, <2>2, <2>3, <2>5 DEF KnownAll, Known
<1>18. FrameOK(stack[n - 1])'
  <2>1. Complete(g.res)' <=> Complete(f.res)
    BY <1>8 DEF Complete
  <2>2. KnownAll(g.res)' <=> KnownAll(f.res)
    BY <1>8 DEF KnownAll
  <2>3. f.fn = "setvalue" => f.res \in linking /\ f.res \in f.scanned
    BY <1>2, <1>5 DEF FrameOK
  <2>4. g.fn # "link"
    BY <1>5, <1>8 DEF Owners
  <2> QED
    BY <1>7, <1>8, <1>10, <1>16, <1>17, <2>1, <2>2, <2>3, <2>4 DEF FrameOK
<1>19. ASSUME For(n - 1, "deserialize")' PROVE Waits(stack[n - 1].res, n - 1)'
  <2>1. f.fn = "deserialize" /\ p = "unlinked"
    BY <1>5, <1>8, <1>10, <1>19 DEF For, Owners
  <2>2. For(n, "deserialize")
    BY <1>2, <1>3, <1>4, <1>17, <2>1 DEF For
  <2>3. PICK W \in SUBSET Res : Stuck(W, n) /\ ToSet(externs[top.res]) \cap W # {}
    BY <1>1, <1>2, <2>2 DEF IInv, Remembered, Waits
  <2>4. \A j \in 1 .. n : stack[j].fn = "deserialize" =>
          j \in 1 .. n - 1 /\ stack'[j].fn = "deserialize" /\ stack'[j].res = stack[j].res
    BY <1>2, <1>3, <1>13
  <2>5. Stuck(W, n - 1)'
    BY <2>3, <2>4 DEF Stuck
  <2> QED
    BY <1>5, <1>8, <1>10, <2>3, <2>5 DEF Waits
<1>20. ASSUME f.fn = "setvalue", p = "unlinked" PROVE ~Complete(f.res)
  <2>1. For(n, "setvalue")
    BY <1>2, <1>3, <1>4, <1>17, <1>20 DEF For
  <2> QED
    BY <1>1, <1>2, <1>5, <2>1 DEF IInv, Remembered
<1>21. ASSUME For(n - 1, "setvalue")' PROVE ~Complete(stack[n - 1].res)'
  <2>1. f.fn = "setvalue" /\ p = "unlinked"
    BY <1>5, <1>8, <1>10, <1>21 DEF For, Owners
  <2> QED
    BY <1>8, <1>10, <1>20, <2>1 DEF Complete
<1>22. ASSUME NEW r \in linking, NEW i \in 1 .. n, i > n - 2, Rescanned(stack[i], r), Complete(r)
       PROVE  Rescanned(stack'[n - 1], r)
  <2>1. i = n - 1 /\ f.fn = "setvalue"
    BY <1>2, <1>3, <1>4, <1>22 DEF Rescanned
  <2>2. p = "unlinked" => r # f.res
    BY <1>20, <1>22, <2>1
  <2>3. f.pc \in {"linking", "running"}
    BY <1>2, <1>5
  <2> QED
    BY <1>4, <1>5, <1>7, <1>8, <1>10, <1>22, <2>1, <2>2, <2>3 DEF Rescanned
<1>23. /\ n - 2 \in Nat /\ n - 2 <= Len(stack) /\ n - 2 <= Len(stack') /\ n - 1 \in 1 .. Len(stack')
       /\ \A i \in 1 .. Len(stack') : i > n - 2 => i = n - 1
  BY <1>1, <1>2, <1>3, <1>10
<1> QED
  BY <1>1, <1>10, <1>11, <1>12, <1>14, <1>15, <1>18, <1>19, <1>21, <1>22, <1>23, Preserved

LEMMA LinkDoneStep ==
  ASSUME IInv, LinkDone
  PROVE  IInv'
BY ReturnedStep DEF LinkDone, In

LEMMA MethodReturnsStep ==
  ASSUME IInv, MethodReturns
  PROVE  IInv'
BY ReturnedStep DEF MethodReturns, In

-----------------------------------------------------------------------------
(***************************************************************************)
(* Loading.                                                                *)
(***************************************************************************)
\* The linker or a method asks for a resource that nobody has asked for.
LEMMA LoadsStep ==
  ASSUME IInv, stack # <<>>, NEW r \in Res, ~Known(r),
         NEW n, n = Len(stack), NEW g \in Frame, top.fn \in {"link", "run"}, g.fn = top.fn, g.res = top.res,
         g.pc \notin {"linking", "running"}, Calls(g, deserialize(r)), g.fn = "link" => g.counter = top.counter,
         n > 1 => r \in Remote \/ stack[n - 1].fn # "setvalue",
         Load(r, [stack EXCEPT ![Len(stack)] = g]), FrameOK(stack[n])',
         UNCHANGED <<externs, values, linking, runs>>
  PROVE  IInv'
<1>1. n \in Nat \ {0} /\ top = stack[n] /\ top \in Frame
  BY Top DEF IInv
<1>2. PICK h : h = deserialize(r)
  OBVIOUS
<1>3. h \in Frame /\ h.fn = "deserialize" /\ h.res = r /\ h.pc = "new"
  BY <1>2, NewFrames
<1>4. PICK s : s = [stack EXCEPT ![Len(stack)] = g]
  OBVIOUS
<1>5. s \in Seq(Frame) /\ s # <<>> /\ Len(s) = n /\ s[n] = g /\ \A i \in 1 .. n - 1 : s[i] = stack[i]
  BY <1>1, <1>4, Changed DEF IInv, Types
<1>6. /\ loaders' = loaders \cup {r} /\ fetches' = [fetches EXCEPT ![r] = @ + 1]
      /\ \/ r \in Remote /\ stack' = s /\ asked' = asked \cup {r}
         \/ stack' = Append(s, h) /\ asked' = asked /\ r \notin Remote
  BY <1>2, <1>4 DEF Load
<1>7. /\ stack' \in Seq(Frame) /\ stack' # <<>> /\ Len(stack') \in {n, n + 1} /\ stack'[n] = g
      /\ \A i \in 1 .. n - 1 : stack'[i] = stack[i]
      /\ Len(stack') = n => r \in Remote /\ asked' = asked \cup {r}
      /\ Len(stack') = n + 1 => asked' = asked /\ stack'[n + 1] = h
  <2>1. CASE r \in Remote /\ stack' = s /\ asked' = asked \cup {r}
    BY <1>1, <1>5, <2>1
  <2>2. CASE stack' = Append(s, h) /\ asked' = asked
    BY <1>1, <1>3, <1>5, <2>2, Pushed
  <2> QED
    BY <1>6, <2>1, <2>2
<1>8. Types'
  BY <1>6, <1>7 DEF IInv, Types
<1>9. Shape'
  <2>1. CASE stack' = s
    BY <1>4, <2>1, ChangedShape DEF IInv
  <2>2. CASE stack' = Append(s, h) /\ r \notin Remote
    BY <1>2, <1>3, <1>4, <2>2, CalledShape DEF IInv
  <2> QED
    BY <1>6, <2>1, <2>2
<1>10. r \notin values /\ r \notin loaders /\ r \notin asked /\ r \notin linking
  BY DEF Known, IInv, Types
<1>11. /\ \A i \in 1 .. n : stack'[i].fn = stack[i].fn /\ stack'[i].res = stack[i].res
       /\ \A i \in 1 .. n : stack[i].fn \in Owners => stack'[i] = stack[i]
  BY <1>1, <1>7 DEF Owners
<1>12. Owned'
  <2>1. \A w : Decoding(w) => Decoding(w)'
    BY <1>1, <1>7, <1>11 DEF Decoding
  <2>2. \A w \in loaders' : w \in asked' \/ w \in linking' \/ Decoding(w)'
    <3>1. Len(stack') = n + 1 => Decoding(r)'
      BY <1>1, <1>3, <1>7 DEF Decoding
    <3> QED
      BY <1>6, <1>7, <2>1, <3>1 DEF IInv, Owned
  <2>3. values' \cap loaders' = {} /\ asked' \cap linking' = {}
    BY <1>6, <1>7, <1>10 DEF IInv, Owned
  <2>4. ASSUME NEW i \in 1 .. Len(stack'), stack'[i].fn = "deserialize"
        PROVE  /\ stack'[i].res \in loaders' \ (asked' \cup linking')
               /\ \A j \in 1 .. Len(stack') : stack'[j].fn = "deserialize" /\ stack'[j].res = stack'[i].res => j = i
    <3>1. \A j \in 1 .. Len(stack') : j \in 1 .. n \/ (j = n + 1 /\ stack'[j] = h /\ asked' = asked)
      BY <1>1, <1>7
    <3>2. \A j \in 1 .. n : stack[j].fn = "deserialize" => stack[j].res \in loaders \ (asked \cup linking)
      BY DEF IInv, Owned
    <3>3. \A j \in 1 .. n : stack'[j].fn = "deserialize" => stack'[j].res \in loaders \ (asked \cup linking)
      BY <1>11, <3>2
    <3>4. CASE i \in 1 .. n
      <4>1. stack'[i].res \in loaders' \ (asked' \cup linking')
        BY <1>6, <1>7, <1>10, <2>4, <3>3, <3>4
      <4>2. stack'[i].res # r
        BY <1>10, <2>4, <3>3, <3>4
      <4>3. \A j \in 1 .. n : stack'[j].fn = "deserialize" /\ stack'[j].res = stack'[i].res => j = i
        BY <1>11, <2>4, <3>4 DEF IInv, Owned
      <4> QED
        BY <1>3, <3>1, <4>1, <4>2, <4>3
    <3>5. CASE i = n + 1
      BY <1>3, <1>6, <1>10, <3>1, <3>3, <3>5
    <3> QED
      BY <3>1, <3>4, <3>5
  <2> QED
    BY <2>2, <2>3, <2>4 DEF Owned
<1>13. Once'
  <2>1. \A w : InProgress(w) => InProgress(w)'
    BY <1>1, <1>7, <1>11 DEF InProgress
  <2>2. \A w \in Res : fetches'[w] = IF Known(w)' THEN 1 ELSE 0
    BY <1>6 DEF IInv, Types, Once, Known
  <2> QED
    BY <2>1, <2>2 DEF IInv, Once
<1>14. /\ loaders \subseteq loaders' /\ asked \subseteq asked' /\ linking' = linking
  BY <1>6
<1>15. ASSUME For(n, "deserialize")' PROVE Waits(stack[n].res, n)'
  <2>1. top.fn = "link" /\ For(n, "deserialize")
    BY <1>1, <1>7, <1>15 DEF For
  <2>2. PICK q : q = top.res
    OBVIOUS
  <2>3. q \in Res
    BY <1>1, <2>1, <2>2, LinkFrame
  <2>4. Waits(q, n)
    BY <1>1, <2>1, <2>2 DEF IInv, Remembered
  <2>5. \A W : Stuck(W, n) => \A w \in W : w \in loaders'
    BY <1>14 DEF Stuck
  <2>6. \A j \in 1 .. n : stack[j].fn = "deserialize" => stack'[j].fn = "deserialize" /\ stack'[j].res = stack[j].res
    BY <1>11
  <2>7. Waits(q, n)'
    BY <1>1, <1>14, <2>3, <2>4, <2>5, <2>6, WaitsKept
  <2> QED
    BY <1>7, <2>2, <2>7
<1>16. ASSUME For(n, "setvalue")' PROVE ~Complete(stack[n].res)'
  <2>1. For(n, "setvalue")
    BY <1>1, <1>7, <1>16 DEF For
  <2> QED
    BY <1>1, <1>7, <2>1 DEF IInv, Remembered, Complete
<1>17. Len(stack') = n + 1 => FrameOK(stack[n + 1])' /\ ~For(n + 1, "deserialize")' /\ ~For(n + 1, "setvalue")'
  BY <1>2, <1>7, <1>8, FreshOK
<1>18. \A w : ~Rescanned(stack[n], w)
  BY <1>1 DEF Rescanned
<1>19. /\ n - 1 \in Nat /\ n - 1 <= Len(stack) /\ n - 1 <= Len(stack')
       /\ \A i \in 1 .. Len(stack') : i > n - 1 => i = n \/ (i = n + 1 /\ Len(stack') = n + 1)
       /\ \A i \in 1 .. Len(stack) : i > n - 1 => i = n
  BY <1>1, <1>7
<1> QED
  BY <1>7, <1>8, <1>9, <1>12, <1>13, <1>14, <1>15, <1>16, <1>17, <1>18, <1>19, Preserved

LEMMA ResolveLoadsStep ==
  ASSUME IInv, ResolveLoads
  PROVE  IInv'
<1>1. PICK n : n = Len(stack)
  OBVIOUS
<1>2. stack # <<>> /\ top.fn = "link" /\ top.pc = "resolve" /\ top.next <= Len(externs[top.res])
  BY DEF ResolveLoads, In
<1>3. n \in Nat /\ n > 1 /\ top = stack[n] /\ top \in Frame /\ FrameOK(top) /\ top.res \in Res
      /\ stack[n - 1].fn \in Owners /\ stack[n - 1].pc = "linking" /\ stack[n - 1].res = top.res
  BY <1>1, <1>2, Top, LinkTop DEF IInv
<1>4. PICK r : r = extern
  OBVIOUS
<1>5. top.next \in Nat /\ top.counter \in Nat /\ top.next >= 1 /\ Len(externs[top.res]) \in Nat
  <2>1. top.next \in Nat /\ top.counter \in Nat /\ top.next \in 1 .. MaxExterns + 1
    BY <1>2, <1>3, LinkFrame
  <2> QED
    BY <1>3, <2>1, Externs DEF IInv
<1>6. r \in Res /\ r \in ToSet(externs[top.res])
  <2>1. /\ \A k \in 1 .. Len(externs[top.res]) : externs[top.res][k] \in Res
        /\ ToSet(externs[top.res]) = {externs[top.res][k] : k \in 1 .. Len(externs[top.res])}
    BY <1>3, Externs DEF IInv
  <2>2. top.next \in 1 .. Len(externs[top.res]) /\ r = externs[top.res][top.next]
    BY <1>2, <1>4, <1>5 DEF extern
  <2> QED
    BY <2>1, <2>2
<1>7. PICK g : g = [top EXCEPT !.pc = "loading"]
  OBVIOUS
<1>8. g \in Frame /\ g.fn = "link" /\ g.res = top.res /\ g.pc = "loading" /\ g.next = top.next /\ g.counter = top.counter
  BY <1>2, <1>3, <1>7, LinkFrame
<1>9. Load(r, [stack EXCEPT ![Len(stack)] = g]) /\ UNCHANGED <<externs, values, linking, runs>> /\ ~Known(r)
  BY <1>2, <1>4, <1>7, AtIs DEF ResolveLoads, IInv
<1>10. stack[n - 1].fn # "setvalue"
  <2> SUFFICES ASSUME stack[n - 1].fn = "setvalue" PROVE FALSE
    OBVIOUS
  <2>1. FrameOK(stack[n - 1])
    BY <1>1, <1>3 DEF IInv, Linked
  <2>2. top.res \in linking
    BY <1>3, <2>1 DEF FrameOK
  <2>3. KnownAll(top.res)
    BY <2>2 DEF IInv, Linked
  <2> QED
    BY <1>6, <1>9, <2>3 DEF KnownAll, Known
<1>11. stack'[n] = g
  <2>1. PICK s : s = [stack EXCEPT ![Len(stack)] = g]
    OBVIOUS
  <2>2. s \in Seq(Frame) /\ Len(s) = n /\ s[n] = g
    BY <1>1, <1>2, <1>8, <2>1, Changed DEF IInv, Types
  <2>3. deserialize(r) \in Frame
    BY <1>6, NewFrames
  <2>4. stack' = s \/ stack' = Append(s, deserialize(r))
    BY <1>9, <2>1 DEF Load
  <2> QED
    BY <1>3, <2>2, <2>3, <2>4, Pushed
<1>12. loaders' = loaders \cup {r}
  BY <1>9 DEF Load
<1>13. FrameOK(stack[n])'
  <2>1. \A w : Known(w) => Known(w)'
    BY <1>9, <1>12 DEF Known
  <2>2. Known(r)' /\ externs[top.res][top.next] = r
    BY <1>4, <1>12 DEF Known, extern
  <2>3. /\ top.counter < top.next
        /\ \A k \in 1 .. Len(externs[top.res]) : k < top.next => Known(externs[top.res][k])
        /\ top.counter = 0 => \A k \in 1 .. Len(externs[top.res]) : k < top.next => externs[top.res][k] \in values
    BY <1>2, <1>3 DEF FrameOK
  <2> QED
    BY <1>2, <1>8, <1>9, <1>11, <2>1, <2>2, <2>3 DEF FrameOK, Owners
<1>14. Calls(g, deserialize(r))
  BY <1>6, <1>8, NewFrames DEF Calls, Owners
<1> QED
  BY <1>1, <1>2, <1>6, <1>8, <1>9, <1>10, <1>13, <1>14, LoadsStep

LEMMA MethodLoadsStep ==
  ASSUME IInv, ~ScanLoads, NEW r \in Res, MethodLoads(r)
  PROVE  IInv'
<1>1. PICK n : n = Len(stack)
  OBVIOUS
<1>2. /\ stack # <<>> /\ n \in Nat \ {0} /\ top = stack[n] /\ top \in Frame /\ top.fn = "run" /\ top.pc = "begin"
      /\ \A i \in 1 .. n : stack[i] \in Frame
  BY <1>1, Top DEF IInv, MethodLoads, In
<1>3. PICK g : g = [top EXCEPT !.pc = "loaded"]
  OBVIOUS
<1>4. g \in Frame /\ g.fn = "run" /\ g.res = top.res /\ g.pc = "loaded"
  BY <1>2, <1>3, RunFrame
<1>5. Load(r, [stack EXCEPT ![Len(stack)] = g]) /\ UNCHANGED <<externs, values, linking, runs>>
  BY <1>2, <1>3, AtIs DEF MethodLoads, IInv
<1>6. PICK s : s = [stack EXCEPT ![Len(stack)] = g]
  OBVIOUS
<1>7. s \in Seq(Frame) /\ s # <<>> /\ Len(s) = n /\ s[n] = g /\ \A i \in 1 .. n - 1 : s[i] = stack[i]
  BY <1>1, <1>2, <1>4, <1>6, Changed DEF IInv, Types
<1>8. CASE Known(r)
  <2>1. stack' = s /\ UNCHANGED <<externs, values, linking, runs, loaders, asked, fetches>>
    BY <1>5, <1>6, <1>8 DEF Load
  <2>2. Types'
    BY <1>7, <2>1 DEF IInv, Types
  <2>3. Shape'
    BY <1>2, <1>4, <1>6, <2>1, ChangedShape DEF IInv
  <2>4. /\ \A i \in 1 .. n : stack'[i].fn = stack[i].fn /\ stack'[i].res = stack[i].res
        /\ \A i \in 1 .. n : stack[i].fn \in Owners => stack'[i] = stack[i]
    BY <1>2, <1>4, <1>7, <2>1 DEF Owners
  <2>5. Owned'
    <3>1. \A w : Decoding(w)' <=> Decoding(w)
      BY <1>1, <1>7, <2>1, <2>4 DEF Decoding
    <3> QED
      BY <1>1, <1>7, <2>1, <2>4, <3>1 DEF IInv, Owned
  <2>6. Once'
    <3>1. \A w : InProgress(w) => InProgress(w)'
      BY <1>1, <1>7, <2>1, <2>4 DEF InProgress
    <3> QED
      BY <2>1, <3>1 DEF IInv, Once, Known
  <2>7. FrameOK(stack[n])' /\ ~For(n, "deserialize")' /\ ~For(n, "setvalue")'
    BY <1>4, <1>7, <2>1 DEF FrameOK, For, Owners
  <2>8. \A w : ~Rescanned(stack[n], w)
    BY <1>2 DEF Rescanned
  <2>9. /\ n - 1 \in Nat /\ n - 1 <= Len(stack) /\ n - 1 <= Len(stack')
        /\ \A i \in 1 .. Len(stack') : i > n - 1 => i = n
        /\ \A i \in 1 .. Len(stack) : i > n - 1 => i = n
    BY <1>1, <1>2, <1>7, <2>1
  <2> QED
    BY <1>7, <2>1, <2>2, <2>3, <2>5, <2>6, <2>7, <2>8, <2>9, Preserved
<1>9. CASE ~Known(r)
  <2>1. n > 1 => r \in Remote \/ stack[n - 1].fn # "setvalue"
    <3>1. DOMAIN stack = 1 .. n
      BY <1>1, LenProperties DEF IInv, Types
    <3>2. r \in Remote \/ ~Scanning
      BY <1>9 DEF MethodLoads
    <3> QED
      BY <1>2, <3>1, <3>2 DEF Scanning
  <2>2. stack'[n] = g
    <3>1. deserialize(r) \in Frame
      BY NewFrames
    <3>2. stack' = s \/ stack' = Append(s, deserialize(r))
      BY <1>5, <1>6 DEF Load
    <3> QED
      BY <1>2, <1>7, <3>1, <3>2, Pushed
  <2>3. FrameOK(stack[n])'
    BY <1>4, <2>2 DEF FrameOK, Owners
  <2>4. Calls(g, deserialize(r))
    BY <1>4, NewFrames DEF Calls, Owners
  <2> QED
    BY <1>1, <1>2, <1>4, <1>5, <1>9, <2>1, <2>3, <2>4, LoadsStep
<1> QED
  BY <1>8, <1>9

LEMMA Stutters ==
  ASSUME IInv, UNCHANGED vars
  PROVE  IInv'
<1>1. /\ externs' = externs /\ values' = values /\ loaders' = loaders /\ linking' = linking /\ asked' = asked
      /\ stack' = stack /\ fetches' = fetches /\ runs' = runs
  BY DEF vars
<1>2. Types' /\ Shape'
  BY <1>1 DEF IInv, Types, Shape
<1>3. Owned'
  BY <1>1 DEF IInv, Owned, Decoding
<1>4. Once'
  BY <1>1 DEF IInv, Once, InProgress, Known
<1>5. Linked'
  BY <1>1, ZenonT(60) DEF IInv, Linked, FrameOK, KnownAll, Complete, Known
<1>6. Remembered'
  <2>1. \A r, i : Waits(r, i)' <=> Waits(r, i)
    BY <1>1 DEF Waits, Stuck
  <2> QED
    BY <1>1, <2>1 DEF IInv, Remembered, For, Rescanned, Complete
<1> QED
  BY <1>2, <1>3, <1>4, <1>5, <1>6 DEF IInv

\* While nothing runs.
LEMMA HostLoadStep ==
  ASSUME IInv, NEW r \in Res, HostLoad(r)
  PROVE  IInv'
<1>1. stack = <<>> /\ Len(stack) = 0
  BY EmptySeq DEF HostLoad
<1>2. CASE Known(r)
  <2>1. UNCHANGED vars
    BY <1>1, <1>2 DEF HostLoad, Load, vars
  <2> QED
    BY <2>1, Stutters
<1>3. CASE ~Known(r)
  <2>1. PICK h : h = deserialize(r)
    OBVIOUS
  <2>2. h \in Frame /\ h.fn = "deserialize" /\ h.res = r /\ h.pc = "new"
    BY <2>1, NewFrames
  <2>3. /\ UNCHANGED <<externs, values, linking, runs>>
        /\ loaders' = loaders \cup {r} /\ fetches' = [fetches EXCEPT ![r] = @ + 1]
        /\ \/ r \in Remote /\ stack' = <<>> /\ asked' = asked \cup {r}
           \/ stack' = Append(<<>>, h) /\ asked' = asked
    BY <1>3, <2>1 DEF HostLoad, Load
  <2>4. /\ stack' \in Seq(Frame)
        /\ \/ r \in Remote /\ asked' = asked \cup {r} /\ stack' = <<>> /\ Len(stack') = 0
           \/ asked' = asked /\ stack' # <<>> /\ Len(stack') = 1 /\ stack'[1] = h
    <3>1. <<>> \in Seq(Frame) /\ Len(<<>>) = 0
      BY EmptySeq
    <3>2. PICK s : s = Append(<<>>, h)
      OBVIOUS
    <3>3. s \in Seq(Frame) /\ s # <<>> /\ Len(s) = 1 /\ s[1] = h
      BY <2>2, <3>1, <3>2, Pushed
    <3> QED
      BY <2>3, <3>1, <3>2, <3>3
  <2>12. Len(stack') \in {0, 1}
    BY <2>4
  <2>5. Types'
    BY <2>3, <2>4 DEF IInv, Types
  <2>6. Shape'
    BY <2>2, <2>4 DEF Shape, Owners
  <2>7. r \notin values /\ r \notin loaders /\ r \notin asked /\ r \notin linking
    BY <1>3 DEF Known, IInv, Types
  <2>8. Owned'
    <3>1. Len(stack') = 1 => Decoding(r)'
      BY <2>2, <2>4 DEF Decoding
    <3>2. \A w : ~Decoding(w)
      BY <1>1 DEF Decoding
    <3>3. \A i \in 1 .. Len(stack') : i = 1
      <4>1. PICK k \in {0, 1} : k = Len(stack')
        BY <2>12
      <4>2. \A i \in 1 .. k : i = 1
        BY <4>1
      <4> QED
        BY <4>1, <4>2
    <3> QED
      BY <2>2, <2>3, <2>4, <2>7, <3>1, <3>2, <3>3 DEF IInv, Owned
  <2>9. Once'
    <3>1. \A w : ~InProgress(w)
      BY <1>1 DEF InProgress
    <3>2. \A w \in Res : fetches'[w] = IF Known(w)' THEN 1 ELSE 0
      BY <2>3, <1>3 DEF IInv, Types, Once, Known
    <3> QED
      BY <2>3, <3>1, <3>2 DEF IInv, Once
  <2>10. \A i \in 1 .. Len(stack') : FrameOK(stack[i])' /\ ~For(i, "deserialize")' /\ ~For(i, "setvalue")'
    <3> SUFFICES ASSUME NEW i \in 1 .. Len(stack')
                 PROVE  FrameOK(stack[i])' /\ ~For(i, "deserialize")' /\ ~For(i, "setvalue")'
      OBVIOUS
    <3>1. stack'[i] = h
      BY <2>4
    <3> QED
      BY <2>1, <2>5, <3>1, FreshOK
  <2>11. linking' = linking /\ loaders \subseteq loaders' /\ asked \subseteq asked'
    BY <2>3, <2>4
  <2> QED
    BY <1>1, <2>3, <2>4, <2>5, <2>6, <2>8, <2>9, <2>10, <2>11, Preserved
<1> QED
  BY <1>2, <1>3

LEMMA GetCallbackStep ==
  ASSUME IInv, NEW r \in Res, GetCallback(r)
  PROVE  IInv'
<1>1. stack = <<>> /\ Len(stack) = 0 /\ r \in asked
  BY EmptySeq DEF GetCallback
<1>2. PICK h : h = deserialize(r)
  OBVIOUS
<1>3. h \in Frame /\ h.fn = "deserialize" /\ h.res = r /\ h.pc = "new"
  BY <1>2, NewFrames
<1>4. /\ UNCHANGED <<externs, values, loaders, linking, fetches, runs>> /\ asked' = asked \ {r} /\ stack' = <<h>>
  BY <1>2 DEF GetCallback
<1>5. stack' \in Seq(Frame) /\ stack' # <<>> /\ Len(stack') = 1 /\ stack'[1] = h
  BY <1>3, <1>4
<1>6. Types'
  BY <1>4, <1>5 DEF IInv, Types
<1>7. Shape'
  BY <1>3, <1>5 DEF Shape, Owners
<1>8. Owned'
  <2>1. Decoding(r)' /\ \A w : ~Decoding(w)
    BY <1>1, <1>3, <1>5 DEF Decoding
  <2>2. r \in loaders /\ r \notin linking
    BY <1>1 DEF IInv, Owned, Types
  <2>3. \A i \in 1 .. Len(stack') : i = 1
    BY <1>5
  <2> QED
    BY <1>3, <1>4, <1>5, <2>1, <2>2, <2>3 DEF IInv, Owned
<1>9. Once'
  <2>1. \A w : ~InProgress(w)
    BY <1>1 DEF InProgress
  <2> QED
    BY <1>4, <2>1 DEF IInv, Once, Known
<1>10. \A i \in 1 .. Len(stack') : FrameOK(stack[i])' /\ ~For(i, "deserialize")' /\ ~For(i, "setvalue")'
  <2> SUFFICES ASSUME NEW i \in 1 .. Len(stack')
               PROVE  FrameOK(stack[i])' /\ ~For(i, "deserialize")' /\ ~For(i, "setvalue")'
    OBVIOUS
  <2>1. stack'[i] = h
    BY <1>5
  <2> QED
    BY <1>2, <1>6, <2>1, FreshOK
<1>11. \A w \in linking : ~Complete(w)
  BY <1>1 DEF IInv, Remembered
<1> QED
  BY <1>4, <1>6, <1>7, <1>8, <1>9, <1>10, <1>11 DEF IInv, Linked, Remembered, KnownAll, Complete

-----------------------------------------------------------------------------
(***************************************************************************)
(* What waits, and the scan.                                               *)
(***************************************************************************)
LEMMA PoppedShape ==
  ASSUME Types, Shape, stack # <<>>, top.fn \in Owners, stack' = Front(stack)
  PROVE  Shape'
<1> DEFINE n == Len(stack) - 1
<1>1. n \in Nat /\ Len(stack) = n + 1 /\ top = stack[n + 1]
  BY Top
<1>2. /\ stack' \in Seq(Frame) /\ Len(stack') = n /\ \A i \in 1 .. n : stack'[i] = stack[i]
  BY Popped DEF Types
<1> HIDE DEF n
<1>3. \A i \in 1 .. n : Calls(stack[i], stack[i + 1])
  BY <1>1 DEF Shape
<1>4. \A i \in 1 .. n - 1 : Calls(stack'[i], stack'[i + 1])
  <2> SUFFICES ASSUME NEW i \in 1 .. n - 1 PROVE Calls(stack'[i], stack'[i + 1])
    OBVIOUS
  <2>1. i \in 1 .. n /\ i + 1 \in 1 .. n
    BY <1>1
  <2> QED
    BY <1>2, <1>3, <2>1
<1>5. \A i \in 1 .. n - 2 : stack'[i].fn # "setvalue"
  BY <1>1, <1>2 DEF Shape
<1>6. ASSUME stack' # <<>> PROVE stack'[1].fn \in Owners /\ stack'[n].pc \notin {"linking", "running"}
  <2>1. n > 0
    BY <1>1, <1>2, <1>6, EmptySeq
  <2>2. stack'[1].fn \in Owners
    BY <1>1, <1>2, <2>1 DEF Shape
  <2>3. Calls(stack[n], top) /\ stack'[n] = stack[n]
    BY <1>1, <1>2, <1>3, <2>1
  <2> QED
    BY <2>2, <2>3 DEF Calls, Owners
<1> QED
  BY <1>2, <1>4, <1>5, <1>6 DEF Shape

\* What is called in a scan cannot be one that decodes or scans.
LEMMA NoScanBelow ==
  ASSUME Types, Shape, stack # <<>>, top.fn \in Owners
  PROVE  \A i \in 1 .. Len(stack) - 1 : stack[i].fn # "setvalue"
<1>1. PICK n : n = Len(stack)
  OBVIOUS
<1>2. n \in Nat \ {0} /\ top = stack[n]
  BY <1>1, Top
<1>3. ASSUME n > 1 PROVE stack[n - 1].fn # "setvalue"
  <2>1. n - 1 \in 1 .. Len(stack) - 1 /\ n - 1 + 1 = n
    BY <1>1, <1>2, <1>3
  <2>2. Calls(stack[n - 1], stack[n - 1 + 1])
    BY <2>1 DEF Shape
  <2> QED
    BY <1>2, <2>1, <2>2 DEF Calls, Owners
<1>4. \A i \in 1 .. n - 1 : i = n - 1 \/ i \in 1 .. n - 2
  BY <1>2
<1> QED
  BY <1>1, <1>2, <1>3, <1>4 DEF Shape

LEMMA WaitForLinkStep ==
  ASSUME IInv, WaitForLink
  PROVE  IInv'
<1>1. PICK n : n = Len(stack)
  OBVIOUS
<1>2. /\ stack # <<>> /\ n \in Nat \ {0} /\ top = stack[n] /\ top \in Frame /\ FrameOK(top)
      /\ top.fn = "deserialize" /\ top.pc = "unlinked" /\ top.fn \in Owners
  BY <1>1, Top DEF IInv, WaitForLink, In, Linked, Owners
<1>3. PICK x : x = top.res
  OBVIOUS
<1>4. x \in Res /\ x \in loaders /\ x \notin values /\ x \notin asked /\ x \notin linking
      /\ \A i \in 1 .. n - 1 : ~(stack[i].fn \in Owners /\ stack[i].res = x)
  BY <1>1, <1>2, <1>3, OwnerRes
<1>5. KnownAll(x) /\ ~Complete(x)
  <2>1. Waits(x, n)
    BY <1>1, <1>2, <1>3 DEF IInv, Remembered, For
  <2>2. PICK W \in SUBSET Res : Stuck(W, n) /\ ToSet(externs[x]) \cap W # {}
    BY <2>1 DEF Waits
  <2>3. W \subseteq loaders
    BY <2>2 DEF Stuck
  <2> QED
    BY <1>2, <1>3, <2>2, <2>3 DEF FrameOK, Complete, IInv, Owned
<1>6. UNCHANGED <<externs, values, loaders, asked, fetches, runs>> /\ linking' = linking \cup {x} /\ stack' = Front(stack)
  BY <1>3 DEF WaitForLink
<1>7. /\ stack' \in Seq(Frame) /\ Len(stack') = n - 1 /\ \A i \in 1 .. n - 1 : stack'[i] = stack[i]
  BY <1>1, <1>2, <1>6, Popped DEF IInv, Types
<1>8. Types'
  BY <1>4, <1>6, <1>7 DEF IInv, Types
<1>9. Shape'
  BY <1>2, <1>6, PoppedShape DEF IInv
<1>10. Owned'
  <2>1. \A w : Decoding(w) => Decoding(w)' \/ w = x
    BY <1>1, <1>2, <1>3, <1>7 DEF Decoding
  <2>2. \A i \in 1 .. n - 1 : stack[i].fn = "deserialize" => stack[i].res # x
    BY <1>4 DEF Owners
  <2>3. \A i \in 1 .. n - 1 : i \in 1 .. Len(stack)
    BY <1>1, <1>2
  <2> QED
    BY <1>4, <1>6, <1>7, <2>1, <2>2, <2>3 DEF IInv, Owned
<1>11. Once'
  <2>1. \A w : InProgress(w) => InProgress(w)'
    BY <1>1, <1>2, <1>7 DEF InProgress
  <2> QED
    BY <1>6, <2>1 DEF IInv, Once, Known
<1>12. \A r : ~Rescanned(stack[n], r)
  BY <1>2 DEF Rescanned
<1>13. \A r \in linking' \ linking : KnownAll(r)' /\ ~Complete(r)'
  BY <1>5, <1>6 DEF KnownAll, Complete
<1>14. /\ n - 1 \in Nat /\ n - 1 <= Len(stack) /\ n - 1 <= Len(stack')
       /\ \A i \in 1 .. Len(stack') : ~(i > n - 1)
       /\ \A i \in 1 .. Len(stack) : i > n - 1 => i = n
  BY <1>1, <1>2, <1>7
<1>15. linking \subseteq linking' /\ loaders \subseteq loaders' /\ asked \subseteq asked'
  BY <1>6
<1> QED
  BY <1>6, <1>7, <1>8, <1>9, <1>10, <1>11, <1>12, <1>13, <1>14, <1>15, Preserved

LEMMA ScanNextStep ==
  ASSUME IInv, NEW r \in Res, ScanNext(r)
  PROVE  IInv'
<1>1. PICK n : n = Len(stack)
  OBVIOUS
<1>2. /\ stack # <<>> /\ n \in Nat \ {0} /\ top = stack[n] /\ top \in Frame /\ FrameOK(top)
      /\ top.fn = "setvalue" /\ top.pc \in {"next", "unlinked"} /\ top.fn \in Owners
  BY <1>1, Top DEF IInv, ScanNext, In, Linked, Owners
<1>3. r \in linking /\ r \notin top.scanned
  BY DEF ScanNext, Unscanned
<1>4. PICK g : g = [top EXCEPT !.res = r, !.pc = "linking", !.scanned = @ \cup {r}]
  OBVIOUS
<1>5. PICK h : h = acn_linker(r)
  OBVIOUS
<1>6. /\ g \in Frame /\ g.fn = "setvalue" /\ g.res = r /\ g.pc = "linking"
      /\ g.scanned = top.scanned \cup {r} /\ g.scanAgain = top.scanAgain
      /\ h \in Frame /\ h.fn = "link" /\ h.res = r /\ h.pc = "resolve"
  <2>1. /\ g \in Frame /\ g.fn = "setvalue" /\ g.res = r /\ g.pc = "linking"
        /\ g.scanned = top.scanned \cup {r} /\ g.scanAgain = top.scanAgain
    <3>1. PICK f \in Frame : f = top /\ f.fn = "setvalue"
      BY <1>2
    <3>2. g = [f EXCEPT !.res = r, !.pc = "linking", !.scanned = @ \cup {r}]
      BY <1>4, <3>1
    <3> QED
      BY <3>1, <3>2 DEF Frame
  <2> QED
    BY <1>5, <2>1, NewFrames
<1>7. /\ stack' = Append([stack EXCEPT ![Len(stack)] = g], h)
      /\ UNCHANGED <<externs, values, loaders, linking, asked, fetches, runs>>
  BY <1>4, <1>5 DEF ScanNext
<1>8. /\ stack' \in Seq(Frame) /\ stack' # <<>> /\ Len(stack') = n + 1 /\ stack'[n] = g /\ stack'[n + 1] = h
      /\ \A i \in 1 .. n - 1 : stack'[i] = stack[i]
  BY <1>1, <1>2, <1>6, <1>7, Changed, Pushed DEF IInv, Types
<1>9. Types'
  BY <1>7, <1>8 DEF IInv, Types
<1>10. Shape'
  <2>1. Len(stack) > 1 => stack[Len(stack) - 1].fn # "setvalue"
    BY <1>1, <1>2, NoScanBelow DEF IInv
  <2> QED
    BY <1>2, <1>6, <1>7, <2>1, CalledShape DEF IInv, Calls, Owners
<1>11. Owned'
  <2>1. \A w : Decoding(w)' <=> Decoding(w)
    BY <1>1, <1>2, <1>6, <1>8 DEF Decoding
  <2> QED
    BY <1>1, <1>2, <1>6, <1>7, <1>8, <2>1 DEF IInv, Owned
<1>12. Once'
  <2>1. \A w : InProgress(w) => InProgress(w)'
    BY <1>1, <1>2, <1>6, <1>8 DEF InProgress
  <2> QED
    BY <1>7, <2>1 DEF IInv, Once, Known
<1>13. FrameOK(stack[n])' /\ ~For(n, "deserialize")' /\ ~For(n, "setvalue")'
  BY <1>3, <1>6, <1>7, <1>8 DEF FrameOK, For
<1>14. FrameOK(stack[n + 1])'  /\ ~For(n + 1, "deserialize")' /\ ~For(n + 1, "setvalue")'
  BY <1>5, <1>8, <1>9, FreshOK
<1>15. \A q : Rescanned(stack[n], q) => Rescanned(stack'[n], q)
  <2> SUFFICES ASSUME NEW q, Rescanned(top, q) PROVE Rescanned(g, q)
    BY <1>2, <1>8
  <2>1. CASE top.scanAgain
    BY <1>6, <2>1 DEF Rescanned
  <2>2. CASE q \notin top.scanned
    BY <1>6, <2>2 DEF Rescanned
  <2>3. CASE top.pc = "next" /\ ~top.scanAgain
    <3>1. top.scanned = {}
      BY <1>2, <2>3 DEF FrameOK
    <3> QED
      BY <1>6, <3>1 DEF Rescanned
  <2> QED
    BY <1>2, <2>1, <2>2, <2>3 DEF Rescanned
<1>16. /\ n - 1 \in Nat /\ n - 1 <= Len(stack) /\ n - 1 <= Len(stack') /\ n \in 1 .. Len(stack')
       /\ \A i \in 1 .. Len(stack') : i > n - 1 => i \in {n, n + 1}
       /\ \A i \in 1 .. Len(stack) : i > n - 1 => i = n
  BY <1>1, <1>2, <1>8
<1> QED
  BY <1>7, <1>8, <1>9, <1>10, <1>11, <1>12, <1>13, <1>14, <1>15, <1>16, Preserved

LEMMA LastChanged ==
  ASSUME Types, stack # <<>>, NEW g \in Frame
  PROVE  Append(Front(stack), g) = [stack EXCEPT ![Len(stack)] = g]
<1>1. PICK n : n = Len(stack) - 1
  OBVIOUS
<1>2. n \in Nat /\ Len(stack) = n + 1
  BY <1>1, Top
<1>3. PICK t : t = Append(Front(stack), g)
  OBVIOUS
<1>4. PICK u : u = [stack EXCEPT ![Len(stack)] = g]
  OBVIOUS
<1>5. Front(stack) \in Seq(Frame) /\ Len(Front(stack)) = n /\ \A i \in 1 .. n : Front(stack)[i] = stack[i]
  BY <1>1, Popped DEF Types
<1>6. t \in Seq(Frame) /\ Len(t) = n + 1 /\ t[n + 1] = g /\ \A i \in 1 .. n : t[i] = stack[i]
  BY <1>3, <1>5, Pushed
<1>7. u \in Seq(Frame) /\ Len(u) = n + 1 /\ u[n + 1] = g /\ \A i \in 1 .. n : u[i] = stack[i]
  BY <1>2, <1>4, Changed DEF Types
<1>8. \A i \in 1 .. n + 1 : t[i] = u[i]
  BY <1>2, <1>6, <1>7
<1> QED
  BY <1>3, <1>4, <1>6, <1>7, <1>8, SeqEqual

LEMMA ScanEndStep ==
  ASSUME IInv, ScanEnd
  PROVE  IInv'
<1>1. PICK n : n = Len(stack)
  OBVIOUS
<1>2. /\ stack # <<>> /\ n \in Nat \ {0} /\ top = stack[n] /\ top \in Frame /\ FrameOK(top)
      /\ top.fn = "setvalue" /\ top.pc \in {"next", "unlinked"} /\ top.fn \in Owners
  BY <1>1, Top DEF IInv, ScanEnd, In, Linked, Owners
<1>3. UNCHANGED <<externs, values, loaders, linking, asked, fetches, runs>>
  BY DEF ScanEnd
<1>4. PICK h : h = scanLoaders
  OBVIOUS
<1>5. h \in Frame /\ h.fn = "setvalue" /\ h.pc = "next"
  BY <1>4, NewFrames
<1>6. \/ top.scanAgain /\ stack' = [stack EXCEPT ![Len(stack)] = h]
      \/ ~top.scanAgain /\ stack' = Front(stack)
  BY <1>2, <1>4, <1>5, LastChanged DEF ScanEnd, IInv
<1>7. /\ stack' \in Seq(Frame) /\ \A i \in 1 .. n - 1 : stack'[i] = stack[i]
      /\ \/ top.scanAgain /\ Len(stack') = n /\ stack'[n] = h
         \/ ~top.scanAgain /\ Len(stack') = n - 1
  <2>1. CASE top.scanAgain /\ stack' = [stack EXCEPT ![Len(stack)] = h]
    BY <1>1, <1>2, <1>5, <2>1, Changed DEF IInv, Types
  <2>2. CASE ~top.scanAgain /\ stack' = Front(stack)
    BY <1>1, <1>2, <2>2, Popped DEF IInv, Types
  <2> QED
    BY <1>6, <2>1, <2>2
<1>8. Types'
  BY <1>3, <1>7 DEF IInv, Types
<1>9. Shape'
  <2>1. CASE stack' = [stack EXCEPT ![Len(stack)] = h]
    BY <1>2, <1>5, <2>1, ChangedShape DEF IInv, Owners
  <2>2. CASE stack' = Front(stack)
    BY <1>2, <2>2, PoppedShape DEF IInv
  <2> QED
    BY <1>6, <2>1, <2>2
<1>10. Owned'
  <2>1. \A i \in 1 .. Len(stack') : stack'[i].fn = "deserialize" => i \in 1 .. n - 1 /\ stack'[i] = stack[i]
    BY <1>2, <1>5, <1>7
  <2>2. \A i \in 1 .. Len(stack) : stack[i].fn = "deserialize" => i \in 1 .. n - 1 /\ i \in 1 .. Len(stack') /\ stack'[i] = stack[i]
    BY <1>1, <1>2, <1>7
  <2>3. \A i \in 1 .. n - 1 : i \in 1 .. Len(stack)
    BY <1>1, <1>2
  <2>4. \A w : Decoding(w) => Decoding(w)'
    BY <2>2 DEF Decoding
  <2> QED
    BY <1>3, <2>1, <2>3, <2>4 DEF IInv, Owned
<1>11. Once'
  <2>1. \A w : InProgress(w) => InProgress(w)'
    BY <1>1, <1>2, <1>7 DEF InProgress
  <2> QED
    BY <1>3, <2>1 DEF IInv, Once, Known
<1>12. \A i \in 1 .. Len(stack') : i > n - 1 => /\ FrameOK(stack[i])'
                                               /\ ~For(i, "deserialize")' /\ ~For(i, "setvalue")'
  <2> SUFFICES ASSUME NEW i \in 1 .. Len(stack'), i > n - 1
               PROVE  FrameOK(stack[i])' /\ ~For(i, "deserialize")' /\ ~For(i, "setvalue")'
    OBVIOUS
  <2>1. stack'[i] = h
    BY <1>2, <1>7
  <2> QED
    BY <1>4, <1>5, <2>1 DEF FrameOK, For, NewFrames, Owners, scanLoaders
<1>13. ASSUME NEW r \in linking, NEW i \in 1 .. Len(stack), i > n - 1, Rescanned(stack[i], r)
       PROVE  \E j \in 1 .. Len(stack') : Rescanned(stack'[j], r)
  <2>1. i = n /\ Rescanned(top, r)
    BY <1>1, <1>2, <1>13
  <2>2. CASE top.scanAgain
    BY <1>2, <1>5, <1>7, <2>2 DEF Rescanned
  <2>3. CASE ~top.scanAgain
    <3>1. linking \subseteq top.scanned
      <4>1. top.res \in loaders \cup {None}
        BY <1>2, <2>3 DEF FrameOK, IInv, Types
      <4> QED
        BY <4>1 DEF ScanEnd, Unscanned
    <3>2. top.pc = "unlinked"
      BY <1>2, <1>13, <2>3, <3>1 DEF FrameOK
    <3> QED
      BY <2>1, <2>3, <3>1, <3>2 DEF Rescanned
  <2> QED
    BY <2>2, <2>3
<1>14. /\ n - 1 \in Nat /\ n - 1 <= Len(stack) /\ n - 1 <= Len(stack')
  BY <1>1, <1>2, <1>7
<1> QED
  BY <1>3, <1>7, <1>8, <1>9, <1>10, <1>11, <1>12, <1>13, <1>14, Preserved

-----------------------------------------------------------------------------
(***************************************************************************)
(* A resource gets its value.                                              *)
(***************************************************************************)
LEMMA SetStep ==
  ASSUME IInv, stack # <<>>, top.fn \in Owners,
         top.fn = "deserialize" \/ top.pc = "ran",
         NEW g \in Frame, g.fn = "setvalue", g.pc = "next", g.scanAgain \/ (g.res = None /\ g.scanned = {}),
         stack' = [stack EXCEPT ![Len(stack)] = g],
         SetValue(top.res), UNCHANGED <<externs, asked, fetches, runs>>
  PROVE  IInv'
<1>1. PICK n : n = Len(stack)
  OBVIOUS
<1>2. n \in Nat \ {0} /\ top = stack[n] /\ top \in Frame /\ FrameOK(top)
  BY <1>1, Top DEF IInv, Linked
<1>3. PICK x : x = top.res
  OBVIOUS
<1>4. top.pc # "next"
  BY <1>2, OwnerType DEF OwnerPc
<1>5. /\ x \in Res /\ x \in loaders /\ x \notin values /\ x \notin asked
      /\ x \in linking => top.fn = "setvalue" /\ Complete(x)
      /\ \A i \in 1 .. n - 1 : ~(stack[i].fn \in Owners /\ stack[i].res = x)
  <2>1. /\ x \in Res /\ x \in loaders /\ x \notin values
        /\ top.fn = "deserialize" => x \notin asked \cup linking
        /\ top.fn = "setvalue" => x \in linking
        /\ \A i \in 1 .. n - 1 : ~(stack[i].fn \in Owners /\ stack[i].res = x)
    BY <1>1, <1>3, <1>4, OwnerRes
  <2>2. top.fn = "setvalue" => Complete(x)
    BY <1>2, <1>3 DEF FrameOK, Owners
  <2> QED
    BY <2>1, <2>2 DEF IInv, Owned, Owners
<1>6. /\ UNCHANGED <<externs, asked, fetches, runs>>
      /\ values' = values \cup {x} /\ loaders' = loaders \ {x} /\ linking' = linking \ {x}
  BY <1>3 DEF SetValue
<1>7. /\ stack' \in Seq(Frame) /\ Len(stack') = n /\ stack'[n] = g /\ \A i \in 1 .. n - 1 : stack'[i] = stack[i]
  BY <1>1, <1>2, Changed DEF IInv, Types
<1>8. Types'
  BY <1>5, <1>6, <1>7 DEF IInv, Types
<1>9. Shape'
  BY ChangedShape DEF IInv, Owners
<1>10. \A i \in 1 .. n : i = n \/ i \in 1 .. n - 1
  BY <1>2
<1>11. /\ \A i \in 1 .. n - 1 : stack[i].fn = "deserialize" => stack[i].res # x
       /\ \A i \in 1 .. n - 1 : stack[i].fn # "setvalue"
  BY <1>1, <1>5, NoScanBelow DEF IInv, Owners
<1>12. Owned'
  <2>1. \A w : Decoding(w) => Decoding(w)' \/ w = x
    BY <1>1, <1>2, <1>3, <1>7, <1>10 DEF Decoding
  <2>2. \A i \in 1 .. Len(stack') : stack'[i].fn = "deserialize" => i \in 1 .. n - 1 /\ stack'[i] = stack[i]
    BY <1>7, <1>10
  <2>3. \A i \in 1 .. n - 1 : i \in 1 .. Len(stack)
    BY <1>1, <1>2
  <2> QED
    BY <1>5, <1>6, <1>11, <2>1, <2>2, <2>3 DEF IInv, Owned
<1>13. Once'
  <2>1. \A w : InProgress(w) => InProgress(w)' \/ w = x
    BY <1>1, <1>2, <1>3, <1>7, <1>10 DEF InProgress
  <2>2. \A w : Known(w)' <=> Known(w)
    BY <1>5, <1>6 DEF Known
  <2> QED
    BY <1>6, <2>1, <2>2 DEF IInv, Once
<1>14. values \subseteq values' /\ values \cup loaders \subseteq values' \cup loaders'
  BY <1>6
<1>15. Linked'
  <2>1. ASSUME NEW i \in 1 .. n - 1 PROVE FrameOK(stack[i])'
    <3>1. i \in 1 .. Len(stack) /\ FrameOK(stack[i])
      BY <1>1, <1>2 DEF IInv, Linked
    <3> QED
      BY <1>6, <1>7, <1>11, <1>14, <3>1, FrameKept DEF IInv
  <2>2. FrameOK(stack[n])'
    BY <1>7 DEF FrameOK, Owners
  <2>3. \A i \in 1 .. Len(stack') : i = n \/ i \in 1 .. n - 1
    BY <1>7, <1>10
  <2>4. \A r \in linking' : KnownAll(r)'
    BY <1>6, <1>14 DEF IInv, Linked, KnownAll
  <2> QED
    BY <2>1, <2>2, <2>3, <2>4 DEF Linked
<1>16. ASSUME NEW i \in 1 .. n - 1, NEW W, Stuck(W, i)
       PROVE  x \notin W
  <2> SUFFICES ASSUME x \in W PROVE FALSE
    OBVIOUS
  <2>1. ~\E j \in 1 .. i : stack[j].fn = "deserialize" /\ stack[j].res = x
    BY <1>2, <1>11
  <2>2. x \in linking /\ ToSet(externs[x]) \cap W # {}
    BY <1>5, <1>16, <2>1 DEF Stuck
  <2>3. Complete(x) /\ W \subseteq loaders
    BY <1>5, <1>16, <2>2 DEF Stuck
  <2> QED
    BY <2>2, <2>3 DEF Complete, IInv, Owned
<1>17. Remembered'
  <2>1. \A r \in linking' : Rescanned(stack'[n], r)
    BY <1>7 DEF Rescanned
  <2>2. ~For(n, "deserialize")' /\ ~For(n, "setvalue")'
    BY <1>7 DEF For
  <2>3. ASSUME NEW i \in 1 .. n - 1 PROVE ~For(i, "setvalue")'
    <3>1. stack'[i] = stack[i] /\ (i > 1 => i - 1 \in 1 .. n - 1)
      BY <1>2, <1>7
    <3> QED
      BY <1>7, <1>11, <3>1 DEF For
  <2>4. ASSUME NEW i \in 1 .. n - 1, For(i, "deserialize")' PROVE Waits(stack[i].res, i)'
    <3>1. i \in 1 .. Len(stack) /\ stack'[i] = stack[i] /\ (i > 1 => i - 1 \in 1 .. n - 1) /\ i \in Nat
      BY <1>1, <1>2, <1>7
    <3>2. For(i, "deserialize")
      BY <1>7, <2>4, <3>1 DEF For
    <3>3. PICK q : q = stack[i].res
      OBVIOUS
    <3>4. q \in Res
      BY <3>1, <3>2, <3>3, ElementOfSeq, OwnerType, LinkFrame DEF For, IInv, Types
    <3>5. Waits(q, i)
      BY <3>1, <3>2, <3>3 DEF IInv, Remembered
    <3>6. \A W : Stuck(W, i) => \A w \in W : w \in loaders' /\ (w \in linking => w \in linking')
      <4> SUFFICES ASSUME NEW W, Stuck(W, i), NEW w \in W PROVE w \in loaders' /\ (w \in linking => w \in linking')
        OBVIOUS
      <4>1. x \notin W /\ w \in loaders
        BY <1>16 DEF Stuck
      <4> QED
        BY <1>6, <4>1
    <3>7. \A j \in 1 .. i : stack'[j] = stack[j]
      BY <1>2, <1>7
    <3>8. Waits(q, i)'
      BY <1>6, <3>1, <3>4, <3>5, <3>6, <3>7, WaitsKept
    <3> QED
      BY <3>1, <3>3, <3>8
  <2>5. n \in 1 .. Len(stack') /\ \A i \in 1 .. Len(stack') : i = n \/ i \in 1 .. n - 1
    BY <1>2, <1>7, <1>10
  <2> QED
    BY <2>1, <2>2, <2>3, <2>4, <2>5 DEF Remembered
<1> QED
  BY <1>8, <1>9, <1>12, <1>13, <1>15, <1>17 DEF IInv

LEMMA DecodedStep ==
  ASSUME IInv, DecodePlain \/ KeepResult
  PROVE  IInv'
<1>1. stack # <<>> /\ top.fn = "deserialize" /\ top.fn \in Owners
  BY DEF DecodePlain, KeepResult, In, Owners
<1>2. PICK g : g = scanLoaders
  OBVIOUS
<1>3. g \in Frame /\ g.fn = "setvalue" /\ g.pc = "next" /\ g.res = None /\ g.scanned = {}
  BY <1>2, NewFrames
<1>4. /\ stack' = [stack EXCEPT ![Len(stack)] = g]
      /\ SetValue(top.res) /\ UNCHANGED <<externs, asked, fetches, runs>>
  BY <1>1, <1>2, <1>3, LastChanged DEF DecodePlain, KeepResult, IInv
<1> QED
  BY <1>1, <1>3, <1>4, SetStep

LEMMA ScanResultStep ==
  ASSUME IInv, ScanResult
  PROVE  IInv'
<1>1. stack # <<>> /\ top.fn = "setvalue" /\ top.pc = "ran" /\ top.fn \in Owners /\ top \in Frame
  BY Top DEF ScanResult, In, Owners, IInv
<1>2. PICK g : g = [top EXCEPT !.pc = "next", !.scanAgain = TRUE]
  OBVIOUS
<1>3. g \in Frame /\ g.fn = "setvalue" /\ g.pc = "next" /\ g.scanAgain
  BY <1>1, <1>2, AgainFrame
<1>4. /\ stack' = [stack EXCEPT ![Len(stack)] = g]
      /\ SetValue(top.res) /\ UNCHANGED <<externs, asked, fetches, runs>>
  BY <1>1, <1>2 DEF ScanResult
<1> QED
  BY <1>1, <1>3, <1>4, SetStep

-----------------------------------------------------------------------------
(***************************************************************************)
(* The theorems.                                                           *)
(***************************************************************************)
LEMMA Initially == Init => IInv
<1> SUFFICES ASSUME Init PROVE IInv
  OBVIOUS
<1>1. stack = <<>> /\ Len(stack) = 0 /\ stack \in Seq(Frame)
  BY EmptySeq DEF Init
<1>2. \A i \in 1 .. Len(stack) : FALSE
  BY <1>1
<1>3. Types /\ Shape
  BY <1>1, <1>2 DEF Init, Types, Shape
<1>4. Owned /\ Once
  BY <1>2 DEF Init, Owned, Once, Known
<1>5. Linked /\ Remembered
  BY <1>2 DEF Init, Linked, Remembered
<1> QED
  BY <1>3, <1>4, <1>5 DEF IInv

LEMMA Inductive ==
  ASSUME ~ScanLoads, IInv, [Next]_vars
  PROVE  IInv'
<1>1. ASSUME Step PROVE IInv'
  <2>1. ASSUME NEW r \in Res, MethodLoads(r) \/ ScanNext(r) PROVE IInv'
    BY <2>1, MethodLoadsStep, ScanNextStep
  <2> QED
    BY <1>1, <2>1, DecodedStep, DecodeMethodStep, RunLinkedStep, WaitForLinkStep, ResolveKnownStep, ResolveLoadsStep,
       ResolveLoadedStep, LinkDoneStep, MethodReturnsStep, ScanResultStep, ScanEndStep DEF Step
<1>2. ASSUME NEW r \in Res, HostLoad(r) \/ GetCallback(r) PROVE IInv'
  BY <1>2, HostLoadStep, GetCallbackStep
<1>3. ASSUME UNCHANGED vars PROVE IInv'
  BY <1>3, Stutters
<1> QED
  BY <1>1, <1>2, <1>3 DEF Next

\* The invariant that the four theorems below follow from: what is being loaded is asked for, decoded
\* or waits for the linker, exactly one of these (resource_inst_load, resource_deserialize), and what
\* waits has something to wait for or will be looked at again (resource_setvalue).
THEOREM Invariant == ASSUME ~ScanLoads PROVE Spec => []IInv
<1>1. IInv /\ [Next]_vars => IInv'
  BY Inductive
<1> QED
  BY <1>1, Initially, PTL DEF Spec

LEMMA TypesOK == IInv => TypeOK
<1> SUFFICES ASSUME IInv PROVE TypeOK
  OBVIOUS
<1>1. DOMAIN stack = 1 .. Len(stack) /\ \A i \in 1 .. Len(stack) : stack[i] \in Frame
  BY LenProperties, ElementOfSeq DEF IInv, Types
<1> QED
  BY <1>1 DEF TypeOK, IInv, Types

\* Everything is of its kind (the tables of Resource, and the activations of its functions).
THEOREM Typed == ASSUME ~ScanLoads PROVE Spec => []TypeOK
BY TypesOK, Invariant, PTL

\* However often it is referred to, by whom and when, a resource is asked for and its method run once
\* (resource_inst_load looks for its value and its loader first).
THEOREM LoadedOnce == ASSUME ~ScanLoads PROVE Spec => []OnlyOnce
<1>1. IInv => OnlyOnce
  BY DEF IInv, Types, Once, OnlyOnce
<1> QED
  BY <1>1, Invariant, PTL

\* While a method runs, all it refers to has its value, and its own resource has none yet: acn_linker
\* counted them one after the other, and nothing took a value away or gave this one in between.
THEOREM RunComplete == ASSUME ~ScanLoads PROVE Spec => []RunsComplete
<1>2. ASSUME IInv, NEW i \in DOMAIN stack, stack[i].fn = "run"
      PROVE  ToSet(externs[stack[i].res]) \subseteq values /\ stack[i].res \notin values
  <2>1. i \in 1 .. Len(stack) /\ Len(stack) \in Nat /\ stack # <<>>
    BY <1>2, LenProperties, EmptySeq DEF IInv, Types
  <2>2. i # 1
    BY <1>2, <2>1 DEF IInv, Shape, Owners
  <2>3. PICK f : f = stack[i - 1]
    OBVIOUS
  <2>4. f.fn \in Owners /\ f.pc = "running" /\ f.res = stack[i].res
    <3>1. i - 1 \in 1 .. Len(stack) - 1 /\ i - 1 + 1 = i
      BY <2>1, <2>2
    <3>2. Calls(stack[i - 1], stack[i - 1 + 1])
      BY <1>2, <3>1 DEF IInv, Shape
    <3> QED
      BY <1>2, <2>3, <3>1, <3>2 DEF Calls, Owners
  <2>5. FrameOK(f) /\ i - 1 \in 1 .. Len(stack)
    BY <1>2, <2>1, <2>2, <2>3 DEF IInv, Linked
  <2>6. Complete(f.res)
    BY <2>4, <2>5 DEF FrameOK
  <2>7. f.res \in loaders
    BY <1>2, <2>3, <2>4, <2>5 DEF IInv, Owned, FrameOK, Types, Owners
  <2> QED
    BY <1>2, <2>4, <2>6, <2>7 DEF Complete, IInv, Owned
<1>3. IInv => RunsComplete
  BY <1>2, TypesOK DEF RunsComplete
<1> QED
  BY <1>3, Invariant, PTL

\* When everything has come to rest, what is still being loaded waits for a scheme, or for something
\* that is being loaded itself: the scan of resource_setvalue has left nothing behind that could go on.
THEOREM Remembers == ASSUME ~ScanLoads PROVE Spec => []NoneForgotten
<1>1. ASSUME IInv, stack = <<>>, NEW r \in loaders, r \notin asked
      PROVE  r \in linking /\ ToSet(externs[r]) \cap loaders # {}
  <2>1. \A i \in 1 .. Len(stack) : FALSE
    BY <1>1, EmptySeq
  <2>2. r \in linking
    BY <1>1, <2>1 DEF IInv, Owned, Decoding
  <2>3. ~Complete(r) /\ KnownAll(r)
    BY <1>1, <2>1, <2>2 DEF IInv, Remembered, Linked
  <2> QED
    BY <2>2, <2>3 DEF Complete, KnownAll
<1>2. IInv => NoneForgotten
  BY <1>1 DEF NoneForgotten
<1> QED
  BY <1>2, Invariant, PTL
=============================================================================
