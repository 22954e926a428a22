------------------------------- MODULE Machine -------------------------------
(***************************************************************************)
(* The byte-code interpreter (methodRunBC of avm_method.cpp) running one   *)
(* method that the generator (module CodeGen) compiled: one action per     *)
(* kind of instruction, and the answer of whatever it calls. The calls     *)
(* themselves, and the frames of others, are the subject of module Calls;  *)
(* here a called method answers anything and leaves nothing in the         *)
(* registers above its results.                                            *)
(*                                                                         *)
(* The parser, the generator, and the meaning of the method's source, which*)
(* says what the run must show, are parameters: Read of module Compiler,   *)
(* BMethod of module CodeGen and Meaning of module Acorn.                  *)
(***************************************************************************)
EXTENDS Acorn

CONSTANTS
  Parsed(_),          \* Parsed(tree): the tree that the parser finds in the text written for a tree
  Compile(_),         \* Compile(tree): the byte-code method generated from a syntax tree
  Means(_, _, _, _),  \* Means(tree, parameters, variable parameters, answers so far): the run it stands for
  Programs,           \* the methods that are compiled and run
  Answers(_),         \* Answers(event): what a called method may answer
  NRegs,              \* bound: registers of a frame
  MaxCalls            \* bound: calls of one run

ASSUME ConstantTypes == NRegs \in Nat /\ MaxCalls \in Nat

VARIABLES
  source,  \* the method's syntax tree
  method,  \* and what the generator made of it
  params,  \* its parameters
  ip,      \* ci->ip: the next instruction (from 0)
  regs,    \* R(0), R(1), ...
  top,     \* stk_top, as a register, for the instructions that use or set it
  globals, \* the global variables
  closure, \* the variables of the closure that the method was called through
  script,  \* what the calls so far answered
  trace,   \* what the run has shown so far
  status   \* "run", "call": waits for the method called by the instruction before ip, or "done"

vars == <<source, method, params, ip, regs, top, globals, closure, script, trace, status>>

Code     == method.code
Reg      == 0 .. NRegs - 1
Junk     == "junk"
Current  == Code[ip + 1]

\* The tree of the source's text. (The parser is an argument because TLC would unfold it, looking for constants.)
Reading(parser(_)) == parser(source)

Init ==
  /\ source \in Programs /\ method = Compile(Reading(Parsed))
  /\ params \in [DOMAIN source.params -> {"null", "true"}]
  /\ regs = [r \in Reg |-> CASE r = 0 -> "self" [] r \in DOMAIN params -> params[r] [] OTHER -> Junk]
  /\ globals = [g \in source.globals |-> "null"] /\ closure = Held(source)
  /\ ip = 0 /\ top = method.maxstack /\ script = <<>> /\ trace = <<>> /\ status = "run"

\* The registers after values were put into those from reg on.
With(from, values) == [r \in Reg |-> IF r - from \in 0 .. Len(values) - 1 THEN values[r - from + 1] ELSE regs[r]]
Between(from, to) == [i \in 1 .. to - from |-> regs[from + i - 1]]

Loads == {"LoadReg", "LoadLit", "LoadPrim", "LoadNulls", "LoadContext", "LoadVararg", "GetGlobal", "SetGlobal", "EachSplat",
          "LoadRegs", "GetClosure", "SetClosure", "GetMeth"}
Jumps == {"Jump", "JNull", "JNNull", "JTrue", "JFalse", "JSame", "JDiff", "JEq", "JEqN", "JNe", "JNeN",
          "JLt", "JLtN", "JLe", "JLeN", "JGt", "JGtN", "JGe", "JGeN"}
Calls == {"GetProp", "SetProp", "GetActProp", "SetActProp", "GetCall", "SetCall", "TailCall", "EachPrep", "EachCall", "Yield", "GetMeth"}

Fetch(ops) == status = "run" /\ ip \in 0 .. Len(Code) - 1 /\ Current.op \in ops /\ ip' = ip + 1
\* OpGetMeth asks for a property unless it has a method already.
GetsMeth == Current.op = "GetMeth" /\ regs[Current.a] # "method"

\* An instruction that only moves values.
Move ==
  LET i == Current
      r == regs[i.a]
      args == source.splat
      cnt == IF i.b = All THEN Len(args) ELSE i.b
      next == CHOOSE j \in 0 .. Len(args) : ToString(j) = r  \* of OpEachSplat, whose register counts
  IN /\ Fetch(Loads) /\ ~GetsMeth
     /\ regs' = CASE i.op = "LoadReg"     -> With(i.a, <<regs[i.b]>>)
                  [] i.op \in {"LoadLit", "LoadPrim"} -> With(i.a, <<i.lit>>)
                  [] i.op = "LoadNulls"   -> With(i.a, [k \in 1 .. i.b + 1 |-> "null"])  \* do ... while (b--)
                  [] i.op = "LoadContext" -> With(i.a, <<IF i.b = 0 THEN "thread" ELSE "method">>)
                  [] i.op = "LoadVararg"  -> With(i.a, Padded(args, cnt))
                  [] i.op = "GetGlobal"   -> With(i.a, <<globals[i.lit]>>)
                  [] i.op = "EachSplat" /\ next < Len(args) -> With(i.a, <<ToString(next + 1), r, args[next + 1]>>)
                  [] i.op = "EachSplat" /\ next = Len(args) -> With(i.a, <<r, "null", "null">>)
                  [] i.op = "LoadRegs"    -> With(i.a, Between(i.b, i.b + i.c))
                  [] i.op = "GetClosure"  -> With(i.a, <<closure[i.b - 1]>>)
                  [] i.op \in {"SetGlobal", "SetClosure", "GetMeth"} -> regs
     /\ closure' = IF i.op = "SetClosure" THEN [closure EXCEPT ![i.a - 1] = regs[i.b]] ELSE closure
     /\ globals' = IF i.op = "SetGlobal" THEN [globals EXCEPT ![i.lit] = r] ELSE globals
     /\ top' = IF i.op = "LoadVararg" /\ i.b = All THEN i.a + cnt ELSE top
     /\ UNCHANGED <<source, method, params, script, trace, status>>

IsInt(v) == v \in {"neg", "zero", "pos"}
\* Whether a jump is taken, given R(A) and R(A+1).
Taken(op, r, s) ==
  CASE op = "Jump"  -> TRUE
    [] op = "JNull" -> r = "null"                [] op = "JNNull" -> r # "null"
    [] op = "JTrue" -> Truth(r)                  [] op = "JFalse" -> ~Truth(r)
    [] op = "JSame" -> r = s                     [] op = "JDiff"  -> r # s
    [] op = "JEq"   -> r = "zero"                [] op = "JEqN"   -> r \in {"zero", "null"}
    [] op \in {"JNe", "JNeN"} -> r # "zero"
    [] op = "JLt"   -> r = "neg"                 [] op = "JLtN"   -> ~IsInt(r) \/ r = "neg"
    [] op = "JLe"   -> r \in {"neg", "zero"}     [] op = "JLeN"   -> ~IsInt(r) \/ r # "pos"
    [] op = "JGt"   -> r = "pos"                 [] op = "JGtN"   -> ~IsInt(r) \/ r = "pos"
    [] op = "JGe"   -> r \in {"pos", "zero"}     [] op = "JGeN"   -> ~IsInt(r) \/ r # "neg"

Branch ==
  /\ status = "run" /\ ip \in 0 .. Len(Code) - 1 /\ Current.op \in Jumps
  /\ ip' = ip + 1 + (IF Taken(Current.op, regs[Current.a], regs[Current.a + 1]) THEN Current.j ELSE 0)
  /\ UNCHANGED <<source, method, params, regs, top, globals, closure, script, trace, status>>

\* What is called, and with what. B = 0xFF: up to top.
Event(i) ==
  LET to == IF i.b = All THEN top ELSE i.a + i.b + 1 IN
  CASE i.op \in {"GetCall", "TailCall"} -> <<"get">> \o Between(i.a, to)
    [] i.op = "SetCall"    -> <<"set">> \o Between(i.a, to)
    [] i.op = "GetActProp" -> <<"get">> \o Between(i.a, i.a + 2)
    [] i.op = "SetActProp" -> <<"set">> \o Between(i.a, i.a + 3)
    [] i.op \in {"GetProp", "GetMeth"} -> <<"raw">> \o Between(i.a, i.a + 2)
    [] i.op = "SetProp"    -> <<"rawset">> \o Between(i.a, i.a + 3)
    [] i.op = "EachPrep"   -> <<"each", regs[i.b]>>
    [] i.op = "EachCall"   -> <<"next", regs[i.a]>>
    [] i.op = "Yield"      -> <<"yield">> \o Between(i.a, IF i.b = All THEN top ELSE i.a + i.b)

Invoke ==
  /\ Fetch(Calls) /\ (Current.op = "GetMeth" => GetsMeth)
  /\ trace' = Append(trace, Event(Current))
  /\ status' = "call"
  /\ UNCHANGED <<source, method, params, regs, top, globals, closure, script>>

\* The answer of what the instruction before ip called; of a tail call it is what this method returns.
Answered ==
  LET i == Code[ip]
      to == IF i.op = "EachCall" THEN i.a + 1 ELSE i.a
      want == CASE i.op = "TailCall" -> All [] i.op \in {"EachPrep", "GetProp", "SetProp", "SetActProp", "GetMeth"} -> 1 [] OTHER -> i.c
      keeps == i.op \in {"GetProp", "SetProp", "GetMeth", "Yield"}  \* the registers above the values
      answered(v) ==
        LET values == Answer(v, want)
            after == With(to, values)
        IN /\ script' = Append(script, v)
           /\ regs' = [r \in Reg |-> IF r >= to + Len(values) /\ ~keeps THEN Junk ELSE after[r]]
           /\ top' = IF want = All THEN to + Len(values) ELSE method.maxstack
           /\ status' = IF i.op = "TailCall" THEN "done" ELSE "run"
           /\ trace' = IF i.op = "TailCall" THEN Append(trace, <<"return">> \o values) ELSE trace
  IN /\ status = "call" /\ Len(script) < MaxCalls
     /\ \E v \in Answers(Last(trace)) : answered(v)
     /\ UNCHANGED <<source, method, params, ip, globals, closure>>

Leaving ==
  LET i == Current IN
  /\ Fetch({"Return"})
  /\ trace' = Append(trace, <<"return">> \o Between(i.a, IF i.b = All THEN top ELSE i.a + i.b))
  /\ status' = "done"
  /\ UNCHANGED <<source, method, params, regs, top, globals, closure, script>>

Next == Move \/ Branch \/ Invoke \/ Answered \/ Leaving

Spec     == Init /\ [][Next]_vars
\* The interpreter's loop goes on.
FairSpec == Spec /\ WF_vars(Move \/ Branch \/ Invoke \/ Leaving)
------------------------------------------------------------------------------
TypeOK ==
  /\ source \in Programs /\ status \in {"run", "call", "done"}
  /\ ip \in 0 .. Len(Code) /\ top \in Nat /\ Len(script) \in 0 .. MaxCalls
  /\ DOMAIN regs = Reg /\ DOMAIN globals = source.globals

\* A program as the parser sees it, without the run's variable parameters and globals.
Tree(program) ==
  [f \in {"params", "locals", "varparm", "yielder", "closure", "inits", "body"} |-> program[f]] @@ [errors |-> 0]

\* The parser finds in the text of a program the tree that was written, without a complaint: the operators bind
\* as their levels say and to the left, every variable belongs to the block that it is first used in, unless a
\* block around has it, or to the closure, and clauses wrap their statement from the inside out (acn_parser.cpp).
ParsedAsWritten == ip = 0 => Reading(Parsed) = Tree(source)

\* Whenever the method has called somebody or has returned, the code has done what its source means, no more
\* and no less: the same calls with the same arguments in the same order, and the same values returned
\* (acn_gen.cpp: every jump, every register).
MeansSource ==
  status # "run" =>
    LET m == Means(source, params, source.splat, script) IN
    trace = m.trace /\ (status = "done" <=> m.ctl = "return")

\* The code gets on: from every instruction it reaches a call or the return. It does not run in a circle on
\* its own, nor off its end (acn_gen.cpp:244: a jump left unpatched jumps to itself).
KeepsGoing == status = "run" ~> status # "run"

\* The highest register an instruction uses, or that the values it waits for go to.
Highest(i) ==
  i.a + CASE i.op \in Jumps             -> 0
          [] i.op = "LoadNulls"         -> i.b - 1
          [] i.op \in {"LoadRegs", "GetMeth"} -> 1
          [] i.op = "SetClosure"        -> i.b - i.a
          [] i.op \in {"EachCall", "EachSplat"} -> i.c
          [] i.op \in {"LoadVararg", "Return", "Yield"} /\ i.b # All /\ i.b # 0 -> i.b - 1
          [] i.op \in {"GetActProp", "SetActProp"} -> IF i.c > i.b THEN i.c - 1 ELSE i.b
          [] i.op \in {"GetCall", "SetCall"} /\ i.b # All -> IF i.c > i.b THEN i.c - 1 ELSE i.b
          [] OTHER                      -> 0

\* The frame was made large enough (maxstacksize, which genNextReg keeps) for every register the code uses:
\* beyond it begins the frame of whatever is called. Not counted: the one that OpLoadNulls clears too many.
RegistersFit == TypeOK /\ \A i \in ToSet(Code) : Highest(i) < method.maxstack
==============================================================================
