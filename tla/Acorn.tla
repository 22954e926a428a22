-------------------------------- MODULE Acorn --------------------------------
(***************************************************************************)
(* What an Acorn method means: the abstract specification of the compiler. *)
(*                                                                         *)
(* A method is a syntax tree as the parser leaves it. Its meaning is what  *)
(* can be seen of its run from outside: the sequence of its calls, with    *)
(* their arguments, of its yields and of its return. What the called       *)
(* methods answer is not up to it: a run is told the answers (script), and *)
(* waits when it makes a call for which there is none yet.                 *)
(*                                                                         *)
(* A node has an operator, a name (of a variable, or a literal's value),   *)
(* its operands, the variables its block declares and a number (of values  *)
(* 'each' or 'into' takes). Registers, jumps and byte code do not occur.   *)
(***************************************************************************)
EXTENDS Integers, SequencesExt, TLC

Node(op, name, kids, vars, n) == [op |-> op, name |-> name, kids |-> kids, vars |-> vars, n |-> n]
Op(op, kids)       == Node(op, "", kids, <<>>, 0)
Word(op)           == Op(op, <<>>)       \* this, self, splat, else, none (no operand), ...
Lit(value)         == Node("lit", value, <<>>, <<>>, 0)
Var(x)             == Node("local", x, <<>>, <<>>, 0)
Glob(x)            == Node("global", x, <<>>, <<>>, 0)
Block(vars, stmts) == Node(";", "", stmts, vars, 0)

PropOps    == {"callprop", "activeprop", "rawprop"}   \* kids: self, property, parameters
CompareOps == {"<", "<=", ">", ">=", "==", "!="}
LogicOps   == CompareOps \cup {"and", "or", "not", "===", "~~"}
JumpWords  == {"while", "each", "do", "yield", "break", "continue"}

Truth(v) == v \notin {"null", "false"}
Bool(b)  == IF b THEN "true" ELSE "false"

\* Whether the rocket operator's answer r means that the comparison holds. Null: not comparable.
Holds(op, r) ==
  r \in CASE op = "<"  -> {"neg"}         [] op = "<=" -> {"neg", "zero"}
          [] op = ">"  -> {"pos"}         [] op = ">=" -> {"pos", "zero"}
          [] op = "==" -> {"zero"}        [] op = "!=" -> {"neg", "pos"}

\* 'and' and 'or' give the deciding operand, unless one that is not the last is itself a test.
Pure(e) == \A i \in 1 .. Len(e.kids) - 1 : e.kids[i].op \notin LogicOps

All == 255  \* wanting every value there is
\* The values a call gives its caller: the scripted one and others, as many as are wanted.
Answer(r, want) == SubSeq(<<r, "second", "third">>, 1, IF want = All THEN 2 ELSE want)

Padded(s, n) == [i \in 1 .. n |-> IF i <= Len(s) THEN s[i] ELSE "null"]

(***************************************************************************)
(* A run: its variables block by block, self, 'this', the operator that is *)
(* told each statement's values, the globals, the variable parameters, the *)
(* script, how much of it is used, the trace, the values   *)
(* computed last, and whether control goes on ("run"), waits for an answer *)
(* ("wait"), or leaves a block ("break", "continue", "return").            *)
(***************************************************************************)
Going(m) == m.ctl = "run"
Give(m, vals) == [m EXCEPT !.vals = vals]
First(m) == IF m.vals = <<>> THEN "null" ELSE m.vals[1]

Home(m, x) == CHOOSE i \in DOMAIN m.env : x \in DOMAIN m.env[i]
                 /\ \A j \in DOMAIN m.env : j > i => x \notin DOMAIN m.env[j]
Enter(m, vars) == [m EXCEPT !.env = Append(@, [x \in ToSet(vars) |-> "null"])]
\* The block that began in m ends: its variables, its 'this' and its operator go.
Leave(m, after) == [after EXCEPT !.env = SubSeq(@, 1, Len(m.env)), !.this = m.this, !.using = m.using]

Call(m, event, want) ==
  LET seen == [m EXCEPT !.trace = Append(@, event)] IN
  IF m.used = Len(m.script) THEN [seen EXCEPT !.ctl = "wait"]
  ELSE [seen EXCEPT !.used = @ + 1, !.vals = Answer(m.script[m.used + 1], want)]

Return(m) == [m EXCEPT !.trace = Append(@, <<"return">> \o m.vals), !.ctl = "return"]

SetVar(m, lval, v) ==
  IF lval.op = "global" THEN [m EXCEPT !.globals[lval.name] = v]
  ELSE [m EXCEPT !.env[Home(m, lval.name)][lval.name] = v]

\* The value of an expression; the run of a block or statement; the same as the end of a method.
RECURSIVE Mean(_, _), Exec(_, _), Finish(_, _), Values(_, _)

\* One value of each expression.
Each(m, es) ==
  FoldLeft(LAMBDA a, e : IF ~Going(a) THEN a ELSE
             LET b == Mean(a, e) IN IF Going(b) THEN Give(b, Append(a.vals, First(b))) ELSE b,
           Give(m, <<>>), es)

\* The values behind 'yield', 'return' or in a list of parameters: all of the last one's, if it is '...'
\* or a yield.
Yielded(m, e, want) ==
  LET a == Values(m, e.kids[1]) IN IF Going(a) THEN Call(a, <<"yield">> \o a.vals, want) ELSE a

List(m, es) ==
  IF es = <<>> \/ es[Len(es)].op \notin {"splat", "yield"} THEN Each(m, es)
  ELSE LET a == Each(m, Front(es))
           b == IF ~Going(a) THEN a
                ELSE IF Last(es).op = "splat" THEN Give(a, a.args)
                ELSE Yielded(a, Last(es), All)
       IN IF Going(b) THEN Give(b, a.vals \o b.vals) ELSE b
Values(m, e) ==
  CASE e.op = "none"  -> Give(m, <<>>)
    [] e.op = "splat" -> Give(m, m.args)
    [] e.op = "comma" -> List(m, e.kids)
    [] OTHER          -> Mean(m, e)

\* A property is read or a method called: the property first, then self, then the parameters.
Get(m, e, want) ==
  LET a == Each(m, <<e.kids[2], e.kids[1]>>)
      b == IF Going(a) THEN List(a, SubSeq(e.kids, 3, Len(e.kids))) ELSE a
  IN IF Going(b) THEN Call(b, <<IF e.op = "rawprop" THEN "raw" ELSE "get">> \o a.vals \o b.vals, want) ELSE b
Set(m, e, v) ==
  LET a == Each(m, <<e.kids[2], e.kids[1], v>>)
      b == IF Going(a) THEN List(a, SubSeq(e.kids, 3, Len(e.kids))) ELSE a
  IN IF Going(b) THEN Call(b, <<IF e.op = "rawprop" THEN "rawset" ELSE "set">> \o a.vals \o b.vals, 1) ELSE b

\* The values to the right of "=" for n variables to the left.
Right(m, e, n) ==
  LET a == CASE e.op \in PropOps -> Get(m, e, n)
             [] e.op = "yield"   -> Yielded(m, e, n)
             [] e.op = "splat"   -> Give(m, m.args)
             [] e.op = "comma"   -> List(m, e.kids)
             [] OTHER            -> Mean(m, e)
  IN IF Going(a) THEN Give(a, Padded(a.vals, IF e.op = "comma" /\ Len(a.vals) > n THEN Len(a.vals) ELSE n)) ELSE a

Store(m, lval, v) == IF lval.op \in PropOps THEN Set(m, lval, Lit(v)) ELSE SetVar(m, lval, v)

Assign(m, lval, rval) ==
  IF lval.op \in PropOps THEN Set(m, lval, rval) ELSE
  LET lvals == IF lval.op = "comma" THEN lval.kids ELSE <<lval>>
      a == Right(m, rval, Len(lvals))
      b == FoldLeft(LAMBDA s, i : IF Going(s) THEN Store(s, lvals[i], a.vals[i]) ELSE s,
                    a, [i \in 1 .. Len(lvals) |-> i])
  IN IF Going(b) THEN Give(b, a.vals) ELSE b

\* The operands of 'and' or 'or' up to the one that decides.
RECURSIVE Decide(_, _, _)
Decide(m, e, i) ==
  LET a == Mean(m, e.kids[i]) IN
  IF ~Going(a) \/ i = Len(e.kids) \/ Truth(First(a)) = (e.op = "or") THEN a ELSE Decide(a, e, i + 1)

\* A closure's object is made only if it has variables or a method for setting.
Bound(e) == Len(e.kids[1].kids) > 4 \/ e.kids[1].kids[4] # Lit("'null'")

\* The operator behind 'using' (vals[1]): a method, or the property of 'this' that has it; "" if there is none.
Operator(m, o, this) == IF o \in {"", "method"} THEN Give(m, <<o>>) ELSE Call(m, <<"raw", o, this>>, 1)

Test(a, holds) == IF Going(a) THEN Give(a, <<Bool(holds)>>) ELSE a

Mean(m, e) ==
  CASE e.op = "lit"     -> Give(m, <<e.name>>)
    [] e.op \in {"ext", "baseurl"} -> Give(m, <<IF e.op = "ext" THEN e.name ELSE "baseurl">>)
    [] e.op = "closure" -> IF Bound(e) THEN Mean(m, e.kids[1]) ELSE Mean(m, e.kids[1].kids[3])
    [] e.op = "self"    -> Give(m, <<m.self>>)
    [] e.op = "this"    -> Give(m, <<m.this>>)
    [] e.op = "context" -> Give(m, <<"thread">>)
    [] e.op = "selfmeth" -> Give(m, <<"method">>)
    [] e.op = "splat"   -> Give(m, Padded(SubSeq(m.args, 1, 1), 1))
    [] e.op = "local"   -> Give(m, <<m.env[Home(m, e.name)][e.name]>>)
    [] e.op = "global"  -> Give(m, <<m.globals[e.name]>>)
    [] e.op \in PropOps -> Get(m, e, 1)
    [] e.op = "comma"   -> Each(m, e.kids)
    [] e.op = "="       -> Assign(m, e.kids[1], e.kids[2])
    [] e.op = "yield"   -> Yielded(m, e, 1)
    [] e.op = "not"     -> LET a == Mean(m, e.kids[1]) IN Test(a, ~Truth(First(a)))
    [] e.op \in {"and", "or"} -> LET a == Decide(m, e, 1) IN IF Pure(e) THEN a ELSE Test(a, Truth(First(a)))
    [] e.op = "==="     -> LET a == Each(m, e.kids) IN Test(a, Going(a) /\ a.vals[1] = a.vals[2])
    [] e.op = "~~"      -> LET a == Each(m, <<e.kids[2], e.kids[1]>>)
                               b == IF Going(a) THEN Call(a, <<"get", "~~">> \o a.vals, 1) ELSE a
                           IN Test(b, Truth(First(b)))
    [] e.op \in CompareOps -> LET a == Each(m, e.kids)
                                  b == IF Going(a) THEN Call(a, <<"get", "<=>">> \o a.vals, 1) ELSE a
                              IN Test(b, Holds(e.op, First(b)))
    [] e.op = "?"       -> LET a == Mean(m, e.kids[1]) IN
                           IF Going(a) THEN Mean(a, e.kids[IF Truth(First(a)) THEN 2 ELSE 3]) ELSE a
    [] e.op = "thisblock" ->
         LET o == IF Len(e.kids) = 3 THEN Mean(m, e.kids[3]) ELSE Give(m, <<"">>)
             a == IF Going(o) THEN Mean(o, e.kids[1]) ELSE o
             u == IF Going(a) THEN Operator(a, First(o), First(a)) ELSE a
             in == Enter([u EXCEPT !.this = First(a), !.using = First(u)], e.vars)
             b == IF Going(u) THEN Exec(in, e.kids[2]) ELSE u
         IN Leave(m, IF Going(b) THEN Give(b, <<b.this>>) ELSE b)
    [] e.op = "||="     -> LET x == e.kids[1] IN
                           IF m.env[Home(m, x.name)][x.name] # "null" THEN m
                           ELSE LET a == Mean(m, e.kids[2]) IN IF Going(a) THEN SetVar(a, x, First(a)) ELSE a

\* The first clause of 'if' whose condition holds (conditions at odd places, blocks at even ones).
RECURSIVE Clauses(_, _, _, _)
Clauses(m, kids, i, last) ==
  IF i > Len(kids) THEN Give(m, <<>>) ELSE
  LET block == kids[i + 1]
      a == IF kids[i].op = "else" THEN Give(m, <<"true">>) ELSE Mean(m, kids[i])
      b == Enter(a, block.vars)
  IN IF ~Going(a) THEN a
     ELSE IF Truth(First(a)) THEN Leave(m, IF last THEN Finish(b, block) ELSE Exec(b, block))
     ELSE Clauses(a, kids, i + 2, last)

\* Whether one of the patterns matches the value; vals then holds what the match gave.
RECURSIVE Matches(_, _, _, _, _)
Matches(m, value, method, patterns, n) ==
  LET a == Mean(m, patterns[1])
      b == IF Going(a) THEN Call(a, <<"get", method, First(a), value>>, IF n = 0 THEN 1 ELSE n) ELSE a
  IN IF ~Going(b) \/ Truth(First(b)) \/ Len(patterns) = 1 THEN b
     ELSE Matches(b, value, method, SubSeq(patterns, 2, Len(patterns)), n)

\* The first 'with' that matches (kids: value, method, then patterns and blocks).
RECURSIVE Withs(_, _, _, _, _, _)
Withs(m, value, method, kids, i, last) ==
  IF i > Len(kids) THEN Give(m, <<>>) ELSE
  LET block == kids[i + 1]
      patterns == IF kids[i].op = "comma" THEN kids[i].kids ELSE <<kids[i]>>
      a == IF kids[i].op = "else" THEN Give(m, <<"true">>) ELSE Matches(m, value, method, patterns, block.n)
      b == FoldLeft(LAMBDA s, j : SetVar(s, Var(block.vars[j]), a.vals[j]),
                    Enter(a, block.vars), [j \in 1 .. block.n |-> j])
  IN IF ~Going(a) THEN a
     ELSE IF Truth(First(a)) THEN Leave(m, IF last THEN Finish(b, block) ELSE Exec(b, block))
     ELSE Withs(a, value, method, kids, i + 2, last)

\* A loop's block was run: 'break' ends the loop, 'continue' does not.
Looped(a) == IF a.ctl = "continue" THEN [a EXCEPT !.ctl = "run"] ELSE a
Ended(a)  == IF a.ctl = "break" THEN [a EXCEPT !.ctl = "run"] ELSE a

RECURSIVE While(_, _)
While(m, s) ==
  LET a == Mean(m, s.kids[1])
      b == Looped(Leave(m, Exec(a, s.kids[2])))
  IN IF ~Going(a) \/ ~Truth(First(a)) THEN a ELSE IF Going(b) THEN While(b, s) ELSE b

\* The loop's variables take what the iterator gives, until its first value is null (or false).
RECURSIVE Iterate(_, _, _)
Iterate(m, s, iter) ==
  LET a == Call(m, <<"next", iter>>, s.n)
      b == FoldLeft(LAMBDA r, j : SetVar(r, Var(s.vars[j]), a.vals[j]), a, [j \in 1 .. s.n |-> j])
      c == Looped(Leave(m, Exec(b, s.kids[2])))
  IN IF ~Going(a) \/ ~Truth(First(a)) THEN a ELSE IF Going(c) THEN Iterate(c, s, iter) ELSE c
RECURSIVE IterateArgs(_, _, _)
IterateArgs(m, s, i) ==
  LET b == SetVar(SetVar(m, Var(s.vars[1]), ToString(i - 1)), Var(s.vars[2]), m.args[i])
      c == Looped(Leave(m, Exec(b, s.kids[2])))
  IN IF i > Len(m.args) THEN m ELSE IF Going(c) THEN IterateArgs(c, s, i + 1) ELSE c

\* Tells each of the values (given by index) that the block begins or ends.
Tell(m, what, values, order) ==
  FoldLeft(LAMBDA a, i : IF Going(a) THEN Call(a, <<"get", what, values[i]>>, 0) ELSE a, m, order)

Statement(m, s) ==
  CASE s.op = "if"    -> Clauses(m, s.kids, 1, FALSE)
    [] s.op = "match" -> LET a == Each(m, SubSeq(s.kids, 1, 2)) IN
                         IF Going(a) THEN Withs(a, a.vals[1], a.vals[2], s.kids, 3, FALSE) ELSE a
    [] s.op = "while" -> Ended(Leave(m, While(Enter(m, s.vars), s)))
    [] s.op = "each"  -> LET a == Mean(m, s.kids[1])
                             b == Call(a, <<"each", First(a)>>, 1)
                         IN IF s.kids[1].op = "splat" THEN Ended(Leave(m, IterateArgs(Enter(m, s.vars), s, 1)))
                            ELSE IF ~Going(a) THEN a
                            ELSE IF ~Going(b) THEN b
                            ELSE Ended(Leave(m, Iterate(Enter(b, s.vars), s, First(b))))
    [] s.op = "do"    -> LET in == Give(Enter(m, s.vars), <<>>)
                             a == IF s.kids[1].op = "none" THEN in ELSE Mean(in, s.kids[1])
                             n == Len(a.vals)
                             b == IF Going(a) THEN Tell(a, "Begin", a.vals, [i \in 1 .. n |-> i]) ELSE a
                             c == IF Going(b) THEN Exec(b, s.kids[2]) ELSE b
                         IN Leave(m, IF Going(c) THEN Tell(c, "End", a.vals, [i \in 1 .. n |-> n + 1 - i]) ELSE c)
    [] s.op \in {"break", "continue"} -> [m EXCEPT !.ctl = s.op]
    [] s.op = "return" -> LET a == IF s.kids[1].op = "callprop" THEN Get(m, s.kids[1], All) ELSE Values(m, s.kids[1])
                          IN IF Going(a) THEN Return(a) ELSE a
    [] s.op = "yield"  -> Yielded(m, s, 0)
    [] OTHER           -> Mean(m, s)

\* A statement, and what the operator behind 'using' is told of it.
Step(m, s) ==
  LET a == Statement(m, s)
      silent == s.op \in JumpWords \cup {"if", "match", "return"}
  IN IF ~Going(a) \/ m.using = "" THEN a ELSE Call(a, <<"get", m.using, m.this>> \o (IF silent THEN <<>> ELSE a.vals), 0)
Exec(m, block) ==
  IF block.op # ";" THEN Step(m, block) ELSE FoldLeft(LAMBDA a, s : IF Going(a) THEN Step(a, s) ELSE a, m, block.kids)

\* The last statement gives the value of the method: its own, that of the block it chooses, or null.
Finish(m, block) ==
  IF block.kids = <<>> THEN Return(Give(m, <<>>)) ELSE
  LET s == Last(block.kids)
      a == Exec(m, Block(<<>>, Front(block.kids)))
      b == Each(a, SubSeq(s.kids, 1, 2))
      c == CASE s.op = "if"    -> Clauses(a, s.kids, 1, TRUE)
             [] s.op = "match" -> IF Going(b) THEN Withs(b, b.vals[1], b.vals[2], s.kids, 3, TRUE) ELSE b
             [] s.op = "return" \/ s.op \in JumpWords -> LET d == Statement(a, s) IN Give(d, <<>>)
             [] OTHER          -> Statement(a, Op("return", <<s>>))
  IN IF ~Going(a) THEN a ELSE IF Going(c) THEN Return(c) ELSE c

\* What a closure's variables hold when its method is called.
Held(method) == [i \in DOMAIN method.closure |-> IF method.closure[i] = "self" THEN "bound" ELSE "held" \o ToString(i)]

\* The run of a method given its parameters, the variable ones and the answers so far.
Meaning(method, params, args, script) ==
  LET held  == [x \in ToSet(method.closure) |-> Held(method)[CHOOSE i \in DOMAIN method.closure : method.closure[i] = x]]
      named == Len(method.params)
      own   == [x \in ToSet(method.params \o method.locals) |->
                  IF \E i \in 1 .. named : method.params[i] = x
                  THEN params[CHOOSE i \in 1 .. named : method.params[i] = x] ELSE "null"]
      self  == IF "self" \in DOMAIN held THEN held["self"] ELSE "self"
      start == [env |-> <<held, own>>, self |-> self, this |-> self, using |-> "",
                globals |-> [g \in method.globals |-> "null"], args |-> args,
                script |-> script, used |-> 0, trace |-> <<>>, vals |-> <<>>, ctl |-> "run"]
      ready == Exec(start, Block(<<>>, method.inits))
  IN IF Going(ready) THEN Finish(ready, method.body) ELSE ready
==============================================================================
