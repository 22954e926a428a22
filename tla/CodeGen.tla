------------------------------- MODULE CodeGen -------------------------------
(***************************************************************************)
(* The byte-code generator (acn_gen.cpp): from a syntax tree (module Acorn)*)
(* to the instructions of a method, in one walk that hands out registers   *)
(* and patches jumps.                                                      *)
(*                                                                         *)
(* The state of the walk (CompInfo) is a record that every operator takes  *)
(* and returns. An instruction carries its literal itself instead of an    *)
(* index into the method's literals.                                       *)
(***************************************************************************)
EXTENDS Acorn

NOJMP == -1  \* BCNO_JMP

Instr(op, a, b, c, j, lit) == [op |-> op, a |-> a, b |-> b, c |-> c, j |-> j, lit |-> lit]
ABC(op, a, b, c) == Instr(op, a, b, c, 0, "")
ALit(op, a, lit) == Instr(op, a, 0, 0, 0, lit)
AJ(op, a, j)     == Instr(op, a, 0, 0, j, "")

Size(c) == Len(c.code)                \* method->size; ips count from 0
At(c, ip) == c.code[ip + 1]
AddInstr(c, i) == [c EXCEPT !.code = Append(@, i)]
Raise(c, n) == [c EXCEPT !.maxstack = IF @ < n THEN n ELSE @]
\* A slip: the frame is not made larger.
NextRegUncounted(c) == [c EXCEPT !.nextreg = @ + 1]
NextReg(c) == Raise([c EXCEPT !.nextreg = @ + 1], c.nextreg + 1)
\* An instruction that loads the next register, which the caller names c.nextreg.
Load(c, i) == NextReg(AddInstr(c, i))
WithReg(c, reg) == [c EXCEPT !.nextreg = reg]

\* A slip: the variables begin with what is left in their registers.
LocalVarsLeftover(c, vars, nexpected) ==
  LET in == [c EXCEPT !.scopes = Append(@, [base |-> c.nextreg, vars |-> vars])]
  IN IF vars = <<>> THEN c ELSE Raise(WithReg(in, c.nextreg + Len(vars)), c.nextreg + 2 * Len(vars))
\* Registers for a block's variables; the first nexpected of them have their values already.
LocalVars(c, vars, nexpected) ==
  LET n == Len(vars)
      a == [c EXCEPT !.scopes = Append(@, [base |-> c.nextreg, vars |-> vars])]
      b == IF n > nexpected THEN AddInstr(a, ABC("LoadNulls", c.nextreg + nexpected, n - nexpected, 0)) ELSE a
  IN IF n = 0 THEN c ELSE Raise(WithReg(b, c.nextreg + n), c.nextreg + n + n)

\* The register of a local variable: innermost block first; -1 if there is none.
LocalReg(c, x) ==
  LET homes == {i \in DOMAIN c.scopes : x \in ToSet(c.scopes[i].vars)} IN
  IF homes = {} THEN -1
  ELSE LET s == c.scopes[CHOOSE i \in homes : \A j \in homes : j <= i]
       IN s.base + (CHOOSE i \in DOMAIN s.vars : s.vars[i] = x /\ \A j \in DOMAIN s.vars : s.vars[j] = x => j <= i) - 1

\* A closure's variable, from the place where the closure holds the first.
CloIndex(c, x) == 1 + SelectLastInSeq(c.closure, LAMBDA y : y = x)

\* The register an expression already is in, otherwise -1.
ExpReg(c, e) ==
  CASE e.op = "this"  -> c.this
    [] e.op = "self"  -> 0
    [] e.op = "local" -> LocalReg(c, e.name)
    [] OTHER          -> -1

(***************************************************************************)
(* Jumps whose destination is not known yet are chained through their own  *)
(* offsets; NOJMP ends a chain, and is the offset of a jump to itself.     *)
(***************************************************************************)
GetJump(c, ip) == IF At(c, ip).j = NOJMP THEN NOJMP ELSE ip + 1 + At(c, ip).j
SetJump(c, ip, dest) == IF ip = NOJMP THEN c ELSE [c EXCEPT !.code[ip + 1].j = dest - (ip + 1)]

\* A slip: only the first jump of a chain is patched, as in genJumpExp's 'or'.
SetJumpFirst(c, ip, dest) == SetJump(c, ip, dest)
RECURSIVE SetJumpList(_, _, _)
SetJumpList(c, ip, dest) ==
  IF ip = NOJMP THEN c ELSE SetJumpList(SetJump(c, ip, dest), GetJump(c, ip), dest)

RECURSIVE LastJump(_, _)
LastJump(c, ip) == IF GetJump(c, ip) = NOJMP THEN ip ELSE LastJump(c, GetJump(c, ip))

\* Adds a forward jump to a chain; gives the generator and the chain.
FwdJump(c, op, reg, chain) ==
  [c |-> AddInstr(IF chain = NOJMP THEN c ELSE SetJump(c, LastJump(c, chain), Size(c)), AJ(op, reg, NOJMP)),
   chain |-> IF chain = NOJMP THEN Size(c) ELSE chain]
\* A backward jump.
JumpTo(c, ip) == AddInstr(c, AJ("Jump", 0, ip - Size(c) - 1))

JumpOp(op, reversed) ==
  CASE op = "<"   -> IF reversed THEN "JGeN" ELSE "JLt"  [] op = "<=" -> IF reversed THEN "JGtN" ELSE "JLe"
    [] op = ">"   -> IF reversed THEN "JLeN" ELSE "JGt"  [] op = ">=" -> IF reversed THEN "JLtN" ELSE "JGe"
    [] op = "=="  -> IF reversed THEN "JNeN" ELSE "JEq"  [] op = "!=" -> IF reversed THEN "JEqN" ELSE "JNe"
    [] op = "===" -> IF reversed THEN "JDiff" ELSE "JSame"
    [] OTHER      -> IF reversed THEN "JFalse" ELSE "JTrue"

RECURSIVE GenExp(_, _), GenStmt(_, _), DoProp(_, _, _, _, _, _), GenReturn(_, _, _, _)
Gens(c, es) == FoldLeft(GenExp, c, es)
GenStmts(c, block) == IF block.op = ";" THEN FoldLeft(GenStmt, c, block.kids) ELSE GenStmt(c, block)

(***************************************************************************)
(* Conditions. fail chains the jumps past the code for success, pass those *)
(* to it; notflag: under an odd number of 'not'; lastjump: whether the last*)
(* jump is one for failure.                                                *)
(***************************************************************************)
CondJump(c, op, reg, fail, pass, lastjump) ==
  LET j == FwdJump(c, op, reg, IF lastjump THEN fail ELSE pass)
  IN [c |-> WithReg(j.c, reg),
      fail |-> IF lastjump THEN j.chain ELSE fail, pass |-> IF lastjump THEN pass ELSE j.chain]

RECURSIVE JumpExp(_, _, _, _, _, _)
\* The operands but the last of an 'or': each jumps past the rest on success.
OrFront(c, es, notflag) ==
  FoldLeft(LAMBDA r, e : LET x == JumpExp(r.c, e, NOJMP, r.pass, notflag, FALSE)
                         IN [c |-> SetJump(x.c, x.fail, Size(x.c)), fail |-> NOJMP, pass |-> x.pass],
           [c |-> c, fail |-> NOJMP, pass |-> NOJMP], es)
AndFront(c, es, fail, pass, notflag) ==
  FoldLeft(LAMBDA r, e : JumpExp(r.c, e, r.fail, r.pass, notflag, TRUE),
           [c |-> c, fail |-> fail, pass |-> pass], es)

JumpExp(c, e, fail, pass, notflag, lastjump) ==
  LET reg == c.nextreg
      reversed == notflag # lastjump
      rocket(name, es) == AddInstr(Gens(Load(c, ALit("LoadLit", reg, name)), es), ABC("GetCall", reg, Len(es), 1))
      jump(a, op) == CondJump(a, op, reg, fail, pass, lastjump)
      and == AndFront(c, Front(e.kids), fail, pass, notflag)
      or  == OrFront(c, Front(e.kids), notflag)
      orlast == JumpExp(or.c, Last(e.kids), fail, or.pass, notflag, lastjump)
  IN CASE e.op \in CompareOps -> jump(rocket("<=>", e.kids), JumpOp(e.op, reversed))
       [] e.op = "===" /\ e.kids[2] = Lit("null") ->
            jump(GenExp(c, e.kids[1]), IF reversed THEN "JNNull" ELSE "JNull")
       [] e.op = "===" /\ e.kids[2] # Lit("null") -> jump(Gens(c, e.kids), JumpOp(e.op, reversed))
       [] e.op = "~~" -> jump(rocket("~~", <<e.kids[2], e.kids[1]>>), JumpOp(e.op, reversed))
       [] e.op = "not" -> JumpExp(c, e.kids[1], fail, pass, ~notflag, lastjump)
       [] e.op \in {"and", "or"} /\ (e.op = "and") # notflag ->
            JumpExp(and.c, Last(e.kids), and.fail, and.pass, notflag, lastjump)
       [] e.op \in {"and", "or"} /\ (e.op = "or") # notflag ->
            [orlast EXCEPT !.c = SetJumpList(@, orlast.pass, Size(@)), !.pass = pass]
       [] OTHER -> jump(GenExp(c, e), JumpOp(e.op, reversed))

(***************************************************************************)
(* Return, yield, properties, assignment.                                  *)
(***************************************************************************)
\* The values behind a comma, all of the last one's if it is '...' or (flag yields) a yield.
CommaVals(c, es, yields) ==
  LET a == Gens(c, Front(es)) IN
  IF Last(es).op = "splat" THEN Load(a, ABC("LoadVararg", a.nextreg, All, 0))
  ELSE IF yields /\ Last(es).op = "yield" THEN GenReturn(a, Last(es), "Yield", All)
  ELSE GenExp(a, Last(es))

GenReturn(c, s, op, expected) ==
  LET e == s.kids[1]
      reg == c.nextreg
      many == CommaVals(c, e.kids, TRUE)
      one == GenExp(c, e)
      ret(a, from, n) == AddInstr(a, ABC(op, from, n, expected))
  IN WithReg(
       CASE e.op = "none" -> ret(c, 0, 0)
         [] ExpReg(c, e) >= 0 -> ret(c, ExpReg(c, e), 1)
         [] op = "Return" /\ e.op = "callprop" -> DoProp(c, e, "TailCall", -1, Word("none"), 1)
         [] e.op = "splat" -> ret(AddInstr(c, ABC("LoadVararg", reg, All, 0)), reg, All)
         [] e.op = "comma" -> ret(many, reg, IF Last(e.kids).op \in {"splat", "yield"} THEN All ELSE many.nextreg - reg)
         [] e.op \notin {"none", "splat", "comma"} /\ ~(op = "Return" /\ e.op = "callprop") /\ ExpReg(c, e) < 0 ->
              ret(one, reg, one.nextreg - reg), reg)

GetOp(op) == CASE op = "activeprop" -> "GetActProp" [] op = "rawprop" -> "GetProp" [] op = "callprop" -> "GetCall"
SetOp(op) == CASE op = "activeprop" -> "SetActProp" [] op = "rawprop" -> "SetProp" [] op = "callprop" -> "SetCall"

\* One value in the next register, whatever the expression leaves above it.
OneExp(c, e) == WithReg(GenExp(c, e), c.nextreg + 1)

\* A property is read, or set to what register rreg (if not -1) or the expression rval (if any) holds.
DoProp(c, e, byteop, rreg, rval, nexpected) ==
  LET reg == c.nextreg
      a == Gens(c, <<e.kids[2], e.kids[1]>>)
      b == IF rreg # -1 THEN Load(a, ABC("LoadReg", a.nextreg, rreg, 0))
           ELSE IF rval.op # "none" THEN OneExp(a, rval) ELSE a
      given == SubSeq(e.kids, 3, Len(e.kids))
      splat == SelectInSeq(given, LAMBDA p : p.op = "splat")  \* what comes after it is dropped
      parms == IF splat = 0 THEN given ELSE SubSeq(given, 1, splat)
      open == parms # <<>> /\ Last(parms).op \in {"splat", "yield"}
      d == FoldLeft(OneExp, b, IF open THEN Front(parms) ELSE parms)
      f == IF ~open THEN d
           ELSE IF Last(parms).op = "splat" THEN AddInstr(d, ABC("LoadVararg", d.nextreg, All, 0))
           ELSE GenReturn(d, Last(parms), "Yield", All)
  IN WithReg(AddInstr(f, ABC(byteop, reg, IF open THEN All ELSE f.nextreg - reg - 1, nexpected)), reg + 1)

\* The values to the right of "=" for n variables, loaded from the next register on.
GenRight(c, e, n) ==
  LET front == Gens(c, Front(e.kids)) IN
  CASE e.op \in PropOps -> DoProp(c, e, GetOp(e.op), -1, Word("none"), n)
    [] e.op = "yield"   -> GenReturn(c, e, "Yield", n)
    [] e.op = "splat"   -> Load(c, ABC("LoadVararg", c.nextreg, n, 0))
    [] e.op = "comma" /\ n > 1 /\ Len(e.kids) <= n /\ Last(e.kids).op = "splat" ->
         Load(front, ABC("LoadVararg", front.nextreg, n - Len(e.kids) + 1, 0))
    [] OTHER            -> GenExp(c, e)
\* ... which all have values then, however few registers were counted.
OpenRight(e, n) ==
  \/ e.op \in PropOps \cup {"yield", "splat"}
  \/ e.op = "comma" /\ n > 1 /\ Len(e.kids) <= n /\ Last(e.kids).op = "splat"

StoreReg(c, lval, reg) ==
  IF lval.op = "global" THEN AddInstr(c, ALit("SetGlobal", reg, lval.name))
  ELSE IF LocalReg(c, lval.name) # -1 THEN AddInstr(c, ABC("LoadReg", LocalReg(c, lval.name), reg, 0))
  ELSE AddInstr(c, ABC("SetClosure", CloIndex(c, lval.name), reg, 0))

AssignReg(c, lval, reg) ==
  IF lval.op \in PropOps THEN DoProp(c, lval, SetOp(lval.op), reg, Word("none"), 1) ELSE StoreReg(c, lval, reg)

GenAssign(c, lval, rval) ==
  LET n == IF lval.op = "comma" THEN Len(lval.kids) ELSE 1
      reg == c.nextreg
      a == GenRight(c, rval, n)
      need == n - (a.nextreg - reg)
      b == IF lval.op # "comma" \/ OpenRight(rval, n) \/ need <= 0 THEN a
           ELSE Raise(WithReg(AddInstr(a, ABC("LoadNulls", a.nextreg, need, 0)), a.nextreg + need),
                      a.nextreg + need + need)
  IN IF lval.op \in PropOps THEN DoProp(c, lval, SetOp(lval.op), -1, rval, 1)
     ELSE IF lval.op # "comma" THEN StoreReg(a, lval, reg)
     ELSE FoldLeft(LAMBDA d, i : AssignReg(d, lval.kids[i], reg + i - 1), b, [i \in 1 .. n |-> i])

\* The instruction that loads a literal, a global or a closure's variable into a register.
Loaded == {"lit", "ext", "baseurl", "global", "local"}
LoadOf(c, reg, e) ==
  CASE e.op = "baseurl" -> ALit("LoadLit", reg, "baseurl")
    [] e.op = "ext"    -> ALit("LoadLit", reg, e.name)
    [] e.op = "local"  -> ABC("GetClosure", reg, CloIndex(c, e.name), 0)
    [] e.op = "lit"    -> ALit(IF e.name \in {"null", "false", "true"} THEN "LoadPrim" ELSE "LoadLit", reg, e.name)
    [] e.op = "global" -> ALit("GetGlobal", reg, e.name)

\* An assignment that is a statement: its value need not be left in a register.
OptAssign(c, lval, rval) ==
  LET from == ExpReg(c, rval)
      to   == LocalReg(c, lval.name)
      value == GenExp(c, rval)
  IN CASE lval.op = "local" /\ to # -1 /\ from # -1 -> AddInstr(c, ABC("LoadReg", to, from, 0))
       [] lval.op = "local" /\ to # -1 /\ from = -1 ->
            IF rval.op \in Loaded \ {"ext"} THEN AddInstr(c, LoadOf(c, to, rval))
            ELSE AddInstr(value, ABC("LoadReg", to, c.nextreg, 0))
       [] lval.op = "local" /\ to = -1 -> AddInstr(value, ABC("SetClosure", CloIndex(c, lval.name), c.nextreg, 0))
       [] lval.op = "global" /\ from # -1 -> AddInstr(c, ALit("SetGlobal", from, lval.name))
       [] lval.op = "global" /\ from = -1 -> AddInstr(value, ALit("SetGlobal", c.nextreg, lval.name))
       [] OTHER -> GenAssign(c, lval, rval)

(***************************************************************************)
(* Expressions: their values go to the registers from c.nextreg on.        *)
(***************************************************************************)
OrAssign(c, e) ==
  LET reg == LocalReg(c, e.kids[1].name)
      val == e.kids[2]
      a == FwdJump(c, "JNNull", reg, NOJMP)
      b == IF val.op = "lit" THEN AddInstr(a.c, ALit("LoadLit", reg, val.name))
           ELSE AddInstr(GenExp(a.c, val), ABC("LoadReg", reg, c.nextreg, 0))
  IN SetJumpList(b, a.chain, Size(b))

\* A block whose 'this' is the value of an expression, which is also the value of the block. Behind 'using' is
\* an operator, in the register before 'this': a method, or the name of the property of 'this' that has it.
ThisBlock(c, e) ==
  LET using == Len(e.kids) = 3
      reg  == c.nextreg
      o    == IF using THEN GenExp([c EXCEPT !.thisop = reg], e.kids[3]) ELSE [c EXCEPT !.thisop = 0]
      this == o.nextreg
      in   == [OneExp(o, e.kids[1]) EXCEPT !.this = this]
      a == LocalVars(IF using THEN AddInstr(in, ABC("GetMeth", reg, 0, 0)) ELSE in, e.vars, 0)
      b == GenStmts(a, e.kids[2])
      d == IF using THEN AddInstr(b, ABC("LoadReg", reg, this, 0)) ELSE b
  IN [d EXCEPT !.nextreg = reg + 1, !.scopes = c.scopes, !.this = c.this, !.thisop = c.thisop]

Ternary(c, e) ==
  LET reg == c.nextreg
      test == JumpExp(c, e.kids[1], NOJMP, NOJMP, FALSE, TRUE)
      yes  == GenExp(WithReg(NextReg(test.c), reg), e.kids[2])
      out  == FwdJump(yes, "Jump", 0, NOJMP)
      no   == GenExp(WithReg(SetJumpList(out.c, test.fail, Size(out.c)), reg), e.kids[3])
  IN SetJumpList(no, out.chain, Size(no))

\* 'and' and 'or' whose value is the operand that decides.
PureLogic(c, e) ==
  LET reg == c.nextreg
      a == FoldLeft(LAMBDA r, x : FwdJump(WithReg(GenExp(r.c, x), reg),
                                          IF e.op = "or" THEN "JTrue" ELSE "JFalse", reg, r.chain),
                    [c |-> c, chain |-> NOJMP], Front(e.kids))
      b == GenExp(a.c, Last(e.kids))
  IN SetJumpList(b, a.chain, Size(b))

\* A condition whose value is true or false.
Conditional(c, e) ==
  LET test == JumpExp(c, e, NOJMP, NOJMP, FALSE, TRUE)
      yes  == AddInstr(Load(test.c, ALit("LoadPrim", test.c.nextreg, "true")), AJ("Jump", 0, 1))
      no   == SetJumpList(yes, test.fail, Size(yes))
  IN AddInstr(no, ALit("LoadPrim", test.c.nextreg, "false"))

GenExp(c, e) ==
  LET reg == c.nextreg IN
  CASE ExpReg(c, e) # -1  -> Load(c, ABC("LoadReg", reg, ExpReg(c, e), 0))
    [] e.op = "context"  -> Load(c, ABC("LoadContext", reg, 0, 0))
    [] e.op = "selfmeth" -> Load(c, ABC("LoadContext", reg, 1, 0))
    [] e.op = "splat"    -> Load(c, ABC("LoadVararg", reg, 1, 0))
    [] e.op \in PropOps  -> DoProp(c, e, GetOp(e.op), -1, Word("none"), 1)
    [] e.op = "comma"    -> Gens(c, e.kids)
    [] e.op \in Loaded /\ ExpReg(c, e) = -1 -> Load(c, LoadOf(c, reg, e))
    [] e.op = "closure"  -> GenExp(c, IF Bound(e) THEN e.kids[1] ELSE e.kids[1].kids[3])
    [] e.op = "="        -> GenAssign(c, e.kids[1], e.kids[2])
    [] e.op = "yield"    -> GenReturn(c, e, "Yield", 1)
    [] e.op = "||="      -> OrAssign(c, e)
    [] e.op = "thisblock" -> ThisBlock(c, e)
    [] e.op = "?"        -> Ternary(c, e)
    [] e.op \in {"and", "or"} /\ Pure(e) -> PureLogic(c, e)
    [] e.op \in LogicOps /\ ~(e.op \in {"and", "or"} /\ Pure(e)) -> Conditional(c, e)
    [] OTHER -> c

(***************************************************************************)
(* Statements.                                                             *)
(***************************************************************************)
\* if, elif, else: the registers and the chain of jumps to the end go from clause to clause.
GenIf(c, s) ==
  LET clause(r, i) ==
        LET cond == s.kids[i]
            a == LocalVars(r.c, s.kids[i + 1].vars, 0)
            test == JumpExp(a, cond, NOJMP, NOJMP, FALSE, TRUE)
            b == GenStmts(IF cond.op = "else" THEN a ELSE WithReg(test.c, a.nextreg), s.kids[i + 1])
            out == FwdJump(b, "Jump", 0, r.chain)
            d == IF cond.op = "else" THEN b ELSE SetJumpList(out.c, test.fail, Size(out.c))
        IN [c |-> [d EXCEPT !.scopes = c.scopes, !.nextreg = c.nextreg],
            chain |-> IF cond.op = "else" THEN r.chain ELSE out.chain]
      all == FoldLeft(clause, [c |-> c, chain |-> NOJMP], [k \in 1 .. Len(s.kids) \div 2 |-> 2 * k - 1])
  IN SetJumpList(all.c, all.chain, Size(all.c))

\* pattern '~~' value, into the registers from matchreg + 2 on.
MatchWith(c, pattern, matchreg, nexpected) ==
  LET a == Load(WithReg(c, matchreg + 2), ABC("LoadReg", matchreg + 2, matchreg + 1, 0))
      b == WithReg(GenExp(a, pattern), matchreg + 4)
      d == Load(b, ABC("LoadReg", matchreg + 4, matchreg, 0))
  IN AddInstr(d, ABC("GetCall", matchreg + 2, 2, IF nexpected = 0 THEN 1 ELSE nexpected))

GenMatch(c, s) ==
  LET reg == c.nextreg
      method == s.kids[2]
      start == IF method = Lit("~~") THEN Load(GenExp(c, s.kids[1]), ALit("LoadLit", GenExp(c, s.kids[1]).nextreg, "~~"))
               ELSE GenExp(GenExp(c, s.kids[1]), method)
      with(r, i) ==
        LET cond  == s.kids[i]
            block == s.kids[i + 1]
            patterns == IF cond.op = "comma" THEN cond.kids ELSE <<cond>>
            front == FoldLeft(LAMBDA x, p : FwdJump(MatchWith(x.c, p, reg, block.n), "JTrue", reg + 2, x.chain),
                              [c |-> WithReg(r.c, reg + 2), chain |-> NOJMP], Front(patterns))
            test == FwdJump(MatchWith(front.c, Last(patterns), reg, block.n), "JFalse", reg + 2, NOJMP)
            found == IF cond.op = "else" THEN r.c ELSE SetJumpList(test.c, front.chain, Size(test.c))
            a == GenStmts(LocalVars(WithReg(found, reg + 2), block.vars, block.n), block)
            out == FwdJump(a, "Jump", 0, r.chain)
            d == IF cond.op = "else" THEN a ELSE SetJumpList(out.c, test.chain, Size(out.c))
        IN [c |-> [d EXCEPT !.scopes = c.scopes], chain |-> IF cond.op = "else" THEN r.chain ELSE out.chain]
      all == FoldLeft(with, [c |-> start, chain |-> NOJMP], [k \in 1 .. Len(s.kids) \div 2 - 1 |-> 2 * k + 1])
  IN WithReg(SetJumpList(all.c, all.chain, Size(all.c)), reg)

\* The body of a loop whose condition has been generated in a, with the jumps out of it.
GenLoop(c, a, block) ==
  LET b == GenStmts(a, block)
      d == JumpTo(b, b.wbeg)
      f == SetJumpList(d, d.wend, Size(d))
  IN [f EXCEPT !.nextreg = c.nextreg, !.wbeg = c.wbeg, !.wend = c.wend, !.scopes = c.scopes]

GenWhile(c, s) ==
  LET a == LocalVars(c, s.vars, 0)
      b == [a EXCEPT !.wbeg = Size(a), !.wend = NOJMP]
      test == JumpExp(b, s.kids[1], NOJMP, NOJMP, FALSE, TRUE)
  IN GenLoop(c, [test.c EXCEPT !.wend = test.fail], s.kids[2])

GenEach(c, s) ==
  LET reg == c.nextreg
      iter == s.kids[1]
      a == CASE iter.op = "splat" -> Load(c, ALit("LoadLit", reg, "0"))
             [] iter.op # "splat" /\ ExpReg(c, iter) = -1 -> AddInstr(GenExp(c, iter), ABC("EachPrep", reg, reg, 0))
             [] iter.op # "splat" /\ ExpReg(c, iter) # -1 -> Load(c, ABC("EachPrep", reg, ExpReg(c, iter), 0))
      b == LocalVars(a, s.vars, 0)
      d == AddInstr([b EXCEPT !.wbeg = Size(b)], ABC(IF iter.op = "splat" THEN "EachSplat" ELSE "EachCall", reg, 0, s.n))
      out == FwdJump(d, "JFalse", reg + 1, NOJMP)
  IN GenLoop(c, [out.c EXCEPT !.wend = out.chain], s.kids[2])

\* Tells the values in the registers of order, one after the other, that the block begins or ends.
GenTell(c, what, call, order) ==
  FoldLeft(LAMBDA a, reg :
             AddInstr(LET b == Load(a, ALit("LoadLit", a.nextreg, what)) IN Load(b, ABC("LoadReg", b.nextreg, reg, 0)),
                      ABC("GetCall", call, 1, 0)),
           c, order)

GenDo(c, s) ==
  LET a == LocalVars(c, s.vars, 0)
      low == a.nextreg
      b == GenExp(a, s.kids[1])
      n == b.nextreg - low
      d == GenStmts(GenTell(b, "Begin", b.nextreg, [i \in 1 .. n |-> low + i - 1]), s.kids[2])
      f == GenTell(WithReg(d, b.nextreg), "End", b.nextreg, [i \in 1 .. n |-> b.nextreg - i])
  IN [IF s.kids[1].op = "none" THEN GenStmts(a, s.kids[2]) ELSE f EXCEPT !.nextreg = c.nextreg, !.scopes = c.scopes]

\* Behind 'using', the operator is called with 'this' and the values that the statement leaves.
GenStmt(c, s) ==
  LET told == c.thisop # 0
      in  == IF told THEN [Load(c, ABC("LoadRegs", c.nextreg, c.thisop, 2)) EXCEPT !.nextreg = @ + 1] ELSE c
      out == FwdJump(in, "Jump", 0, in.wend)
      end == CASE s.op = "if"    -> GenIf(in, s)
               [] s.op = "match" -> GenMatch(in, s)
               [] s.op = "while" -> GenWhile(in, s)
               [] s.op = "each"  -> GenEach(in, s)
               [] s.op = "do"    -> GenDo(in, s)
               [] s.op = "break" /\ in.wbeg # -1    -> [out.c EXCEPT !.wend = out.chain]
               [] s.op = "continue" /\ in.wbeg # -1 -> JumpTo(in, in.wbeg)
               [] s.op = "return" -> GenReturn(in, s, "Return", 0)
               [] s.op = "yield"  -> GenReturn(in, s, "Yield", 0)
               [] s.op = "="      -> OptAssign(in, s.kids[1], s.kids[2])
               [] OTHER           -> GenExp(in, s)
  IN WithReg(IF told THEN AddInstr(end, ABC("GetCall", c.nextreg, end.nextreg - c.nextreg - 1, 0)) ELSE end, c.nextreg)

(***************************************************************************)
(* A whole method.                                                         *)
(***************************************************************************)
Malformed == Word("malformed")  \* a segment without its ';': nothing is generated for it

\* Turns the implicit return of a block into an explicit one.
RECURSIVE FixReturns(_)
FixReturns(block) ==
  LET s == Last(block.kids)
      kids == s.kids
      first == IF s.op = "match" THEN 4 ELSE 2      \* where its blocks are: every other operand
      fixed == [i \in DOMAIN kids |-> IF i >= first /\ i % 2 = 0 THEN FixReturns(kids[i]) ELSE kids[i]]
      null == Op("return", <<Word("none")>>)
      end(t) == [block EXCEPT !.kids = Front(@) \o t]
  IN CASE block.kids = <<>> -> Malformed
       [] block.kids # <<>> /\ s.op \in JumpWords -> end(<<s, null>>)
       [] block.kids # <<>> /\ s.op \in {"if", "match"} ->
            end(<<[s EXCEPT !.kids = IF kids[Len(kids) - 1].op = "else" THEN fixed ELSE fixed \o <<Word("else"), null>>]>>)
       [] block.kids # <<>> /\ s.op = "return" -> block
       [] OTHER -> end(<<Op("return", <<s>>)>>)

BMethod(method) ==
  LET vars == method.params \o method.locals
      start == [code |-> <<>>, nextreg |-> 1 + Len(vars), maxstack |-> 1 + Len(vars), wbeg |-> -1, wend |-> NOJMP,
                this |-> 0, thisop |-> 0, closure |-> method.closure, scopes |-> <<[base |-> 1, vars |-> vars]>>]
      self == IF "self" \in ToSet(method.closure) THEN AddInstr(start, ABC("GetClosure", 0, CloIndex(start, "self"), 0))
              ELSE start
      a == IF method.locals = <<>> THEN self
           ELSE AddInstr(self, ABC("LoadNulls", 1 + Len(method.params), Len(method.locals), 0))
  IN GenStmts(GenStmts(a, Block(<<>>, method.inits)), FixReturns(method.body))
==============================================================================
