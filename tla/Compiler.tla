------------------------------- MODULE Compiler -------------------------------
(***************************************************************************)
(* The compiler as a whole (newMethod of avm_method.cpp): a program is     *)
(* written down (module Syntax), parsed (Parser), turned into byte code    *)
(* (CodeGen) and run (Machine), and compared with what it means (Acorn).   *)
(*                                                                         *)
(* A method that uses variables of the method around it is compiled with   *)
(* that one: here, one whose parameters are these variables.               *)
(***************************************************************************)
EXTENDS Machine, CodeGen, Syntax

\* The method around a closure's.
Around(m) ==
  LET caps == [i \in DOMAIN m.closure |-> IF m.closure[i] = "self" THEN Word("self") ELSE Var(m.closure[i])]
  IN [m EXCEPT !.params = SelectSeq(m.closure, LAMBDA x : x # "self"), !.locals = <<>>, !.varparm = FALSE,
               !.yielder = FALSE, !.closure = <<>>, !.inits = <<>>,
               !.body = Block(<<>>, <<Closure(MethodLit(m), NullSym, caps, m.closure)>>)]

\* What the parser reads in the text of a program.
Read(program) ==
  LET inner == Restrict(program, {"params", "locals", "varparm", "yielder", "closure", "inits", "body"})
      p == Parse(Text(IF inner.closure = <<>> THEN inner ELSE Around(inner)))
      m == IF inner.closure = <<>> THEN p.out[1] ELSE p.out[1].body.kids[1].kids[1].kids[3].kids[1]
  IN m @@ [errors |-> p.errors]
===============================================================================
