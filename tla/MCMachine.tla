------------------------------ MODULE MCMachine ------------------------------
(***************************************************************************)
(* Instances of Machine for TLC: the methods that are compiled and run.    *)
(***************************************************************************)
EXTENDS Compiler

CONSTANT Irregular  \* kinds of methods added although their code is wrong, see Section "Irregular" below

Act(p)        == Op("activeprop", <<Word("self"), Lit(p)>>)
Send(p, args) == Op("callprop", <<Word("self"), Lit(p)>> \o args)
Ret(e)        == Op("return", <<e>>)
Let(l, r)     == Op("=", <<l, r>>)
Null          == Word("none")
x == Var("x")
y == Var("y")

MethodOf(ps, locals, stmts) ==
  [params |-> ps, varparm |-> TRUE, yielder |-> FALSE, splat |-> <<"v1", "v2">>, closure |-> <<>>, locals |-> locals,
   globals |-> {"G"}, inits |-> <<>>, body |-> Block(<<>>, stmts)]

(***************************************************************************)
(* Conditions: every tree of 'not', 'and' and 'or' of the given height     *)
(* over different properties, with two or three operands.                  *)
(***************************************************************************)
Names == <<"a", "b", "c", "d", "e", "n", "g", "h", "i", "j", "k", "l", "m">>
RECURSIVE Conds(_, _)
Conds(i, height) ==
  {Act(Names[i])} \cup
  IF height = 0 THEN {} ELSE
    {Op("not", <<e>>) : e \in Conds(3 * i - 1, height - 1)} \cup
    {Op(op, <<l, r>>) : op \in {"and", "or"}, l \in Conds(3 * i - 1, height - 1), r \in Conds(3 * i, height - 1)} \cup
    {Op(op, <<l, m, r>>) : op \in {"and", "or"}, l \in {Act(Names[3 * i - 1])}, m \in {Act(Names[3 * i])},
                           r \in {Act(Names[3 * i + 1])}}

\* How many jumps a condition adds to the chain for failure.
RECURSIVE Fails(_, _, _)
Fails(e, notflag, lastjump) ==
  IF e.op = "not" THEN Fails(e.kids[1], ~notflag, lastjump)
  ELSE IF e.op \notin {"and", "or"} THEN (IF lastjump THEN 1 ELSE 0)
  ELSE Fails(Last(e.kids), notflag, lastjump) +
       IF (e.op = "and") # notflag THEN FoldLeft(LAMBDA n, k : n + Fails(k, notflag, TRUE), 0, Front(e.kids)) ELSE 0

\* The conditions whose jumps all get where they should. An 'or' sends its successes behind itself, which is
\* wrong if it is an operand of an 'or' but the last; and of the failures of an 'or's operands only the first
\* jump is patched. A '!=' of what cannot be compared holds if it jumps on success.
RECURSIVE Sound(_, _, _)
Sound(e, notflag, lastjump) ==
  CASE e.op = "not" -> Sound(e.kids[1], ~notflag, lastjump)
    [] e.op = "!="  -> notflag # lastjump
    [] e.op \in {"and", "or"} ->
         /\ Sound(Last(e.kids), notflag, lastjump)
         /\ IF (e.op = "and") # notflag THEN \A k \in ToSet(Front(e.kids)) : Sound(k, notflag, TRUE)
            ELSE lastjump /\ \A k \in ToSet(Front(e.kids)) : Sound(k, notflag, FALSE) /\ Fails(k, notflag, FALSE) <= 1
    [] OTHER -> TRUE
SoundCond(e) == Sound(e, FALSE, TRUE)

Choice(cond) == [MethodOf(<<>>, <<>>, <<Op("if", <<cond, Block(<<>>, <<Act("s")>>), Word("else"), Block(<<>>, <<Act("t")>>)>>)>>)
                   EXCEPT !.varparm = FALSE]
Branches == {Choice(cond) : cond \in Conds(1, 2)}

Compared == {Op(op, <<Act("a"), Lit("k")>>) : op \in CompareOps}
Tests == Compared \cup {Op("===", <<Act("a"), Lit("null")>>), Op("===", <<Act("a"), Act("b")>>), Op("~~", <<Act("a"), Act("b")>>)}
Tested == LET c == Act("c") IN
  {Choice(e) : e \in UNION {{t, Op("not", <<t>>), Op("and", <<t, c>>), Op("or", <<t, c>>), Op("or", <<c, t>>)} : t \in Tests}}

\* The same conditions as values, alone and as operands.
Valued == {MethodOf(<<>>, <<"x">>, <<Let(x, e), Ret(Op("comma", <<Send("s", <<e, x>>), x>>))>>) :
             e \in {Op("and", <<Act("a"), Act("b")>>), Op("or", <<Act("a"), Act("b"), Act("c")>>),
                    Op("or", <<Act("a"), Op("not", <<Act("b")>>)>>), Op("and", <<Op("==", <<Act("a"), Act("b")>>), Act("c")>>),
                    Op("?", <<Op("or", <<Act("a"), Act("b")>>), Act("c"), Act("d")>>),
                    Op("?", <<Act("a"), Op("?", <<Act("b"), Lit("1"), Lit("2")>>), Act("d")>>)}}

(***************************************************************************)
(* Statements.                                                             *)
(***************************************************************************)
If(cond, stmts)      == Op("if", <<cond, Block(<<>>, stmts)>>)
Loop(cond, vs, stmts) == Node("while", "", <<cond, Block(<<>>, stmts)>>, vs, 0)
Over(iter, vs, stmts) == Node("each", "", <<iter, Block(<<>>, stmts)>>, vs, Len(vs))
Do(e, vs, stmts)      == Node("do", "", <<e, Block(<<>>, stmts)>>, vs, 0)
Match(e, withs)      == Op("match", <<e, Lit("~~")>> \o withs)
With2(vs, n, stmts)  == [Block(vs, stmts) EXCEPT !.n = n]
This(e, vs, stmts)   == Node("thisblock", "", <<e, Block(<<>>, stmts)>>, vs, 0)
Comma(es)            == Op("comma", es)
Show(es)             == Send("s", es)
Break    == Word("break")
Continue == Word("continue")
Splat    == Word("splat")
k == Var("k")
v == Var("v")
r == Var("r")

Loops == {
  MethodOf(<<>>, <<>>, <<Loop(Op("and", <<Act("a"), Act("b")>>), <<"x">>,
                            <<Let(x, Act("c")), If(x, <<Break>>), If(Act("d"), <<Continue>>), Show(<<x>>)>>)>>),
  MethodOf(<<>>, <<"x">>, <<Let(x, Lit("1")), Loop(Act("a"), <<>>, <<Loop(Op("or", <<Act("b"), Act("c")>>), <<"y">>,
                            <<If(Act("d"), <<Break>>), Let(y, x)>>), Show(<<x>>), Break>>), Show(<<>>)>>),
  MethodOf(<<>>, <<"x">>, <<Let(x, Lit("null")), Over(Act("list"), <<"k", "v">>, <<If(Act("a"), <<Continue>>), Let(x, v), Show(<<k, v>>)>>), x>>),
  MethodOf(<<"x">>, <<>>, <<Over(x, <<"k", "v", "r">>, <<Show(<<r, k>>), If(v, <<Break>>)>>), Show(<<x>>)>>),
  MethodOf(<<>>, <<>>, <<Over(Splat, <<"k", "v">>, <<Show(<<k, v>>), If(Act("a"), <<Break>>)>>)>>),
  MethodOf(<<>>, <<>>, <<Over(Act("list"), <<"k", "v">>, <<Loop(Act("a"), <<>>, <<Break>>), If(Act("b"), <<Ret(v)>>)>>)>>)}

Blocks == {
  MethodOf(<<>>, <<"x">>, <<Let(x, Lit("1")), Do(Let(x, Act("a")), <<"y">>, <<Let(y, x), Show(<<y>>)>>), Show(<<x>>)>>),
  MethodOf(<<>>, <<>>, <<Do(Null, <<"x">>, <<Show(<<x>>)>>)>>),
  MethodOf(<<>>, <<"x">>, <<Let(x, Lit("2")), This(Act("a"), <<"x">>, <<Let(x, Lit("3")), Show(<<x, Word("this")>>)>>), Show(<<x>>)>>),
  MethodOf(<<>>, <<>>, <<This(Act("a"), <<"k">>, <<This(Let(k, Act("b")), <<>>, <<Show(<<k, Word("this")>>)>>), Show(<<k, Word("this")>>)>>)>>),
  MethodOf(<<"x">>, <<"y">>, <<Match(x, <<Comma(<<Act("a"), Act("b")>>), With2(<<"k">>, 0, <<Let(k, Lit("1")), Show(<<k>>)>>),
                                        Act("c"), With2(<<"k", "v">>, 1, <<Show(<<k, v>>)>>)>>), Show(<<y>>)>>),
  MethodOf(<<"x">>, <<>>, <<Match(Act("m"), <<Act("a"), With2(<<"r", "k", "v">>, 2, <<Show(<<r, k, v>>)>>),
                                            Word("else"), Block(<<"k">>, <<Ret(Comma(<<x, k>>))>>)>>)>>),
  MethodOf(<<"x">>, <<>>, <<If(x, <<Show(<<>>)>>), Op("if", <<Act("a"), Block(<<"y">>, <<Let(y, Lit("1")), Let(x, y)>>),
                                                            Act("b"), Block(<<"y">>, <<Let(Var("y"), x), y>>)>>)>>)}

Assignments == {
  MethodOf(<<"x">>, <<"y">>, <<Let(y, Act("a")), Let(Comma(<<x, y>>), Comma(<<y, x>>)), Comma(<<x, y>>)>>),
  MethodOf(<<"x">>, <<"y">>, <<Let(Comma(<<y, x>>), Send("f", <<x>>)), Show(<<x, y>>)>>),
  MethodOf(<<"x">>, <<"y">>, <<Let(Comma(<<y, x, Glob("G")>>), Comma(<<Act("a"), Splat>>)), Show(<<x, y, Glob("G")>>)>>),
  MethodOf(<<"x">>, <<"y">>, <<Let(Comma(<<Act("p"), x, y>>), Comma(<<Act("a"), Act("b")>>)), Show(<<x, y>>)>>),
  MethodOf(<<"x">>, <<"y">>, <<Let(y, Let(Glob("G"), Let(x, Act("a")))), Show(<<Let(x, Lit("1")), x, y, Glob("G")>>)>>),
  MethodOf(<<"x">>, <<>>, <<Let(Send("p", <<Act("i"), x>>), Act("a")), Let(Op("rawprop", <<x, Lit("q")>>), Act("b")),
                          Show(<<Op("rawprop", <<Word("context"), Lit("q")>>), Word("selfmeth")>>)>>),
  MethodOf(<<"x">>, <<"y">>, <<Let(y, Op("yield", <<Comma(<<x, Splat>>)>>)), Let(Comma(<<x, y>>), Op("yield", <<Act("a")>>)),
                             Op("yield", <<y>>), x>>)}

Results == {
  MethodOf(<<>>, <<>>, <<Ret(Send("f", <<Act("a"), Splat>>))>>),
  MethodOf(<<"x">>, <<>>, <<If(Act("a"), <<Ret(Splat)>>), If(Act("b"), <<Ret(Comma(<<x, Splat>>))>>), Ret(Comma(<<x, Op("yield", <<Lit("1")>>)>>))>>),
  MethodOf(<<"x">>, <<>>, <<Send("f", <<Op("==", <<x, Act("a")>>), Op("?", <<Act("b"), x, Lit("1")>>), Op("yield", <<Lit("2")>>)>>)>>),
  [MethodOf(<<"x", "y">>, <<"k">>, <<Show(<<x, y, k>>), Glob("G")>>) EXCEPT
     !.inits = <<Op("||=", <<x, Lit("1")>>), Op("||=", <<y, Send("f", <<x>>)>>)>>]}

(***************************************************************************)
(* What the parser has to tell apart.                                      *)
(***************************************************************************)
Knowing(program, names) == [program EXCEPT !.globals = @ \cup names]
Shown(es) == MethodOf(<<"x">>, <<"y">>, <<Let(y, Lit("1")), Show(es)>>)

\* Every operator as an operand of every other, on either side.
Infixes == {"+", "-", "*", "**", "..", "<=>", "<", "===", "<<"}
Binary2(o, l, m) ==
  CASE o = ".."            -> Op("callprop", <<Glob("Range"), Lit("New"), l, m>>)
    [] o \in {"<", "==="} -> Op(o, <<l, m>>)
    [] OTHER               -> Op("callprop", <<l, Lit(o), m>>)
Pair == [MethodOf(<<>>, <<>>, <<>>) EXCEPT !.varparm = FALSE, !.globals = {"Range"}]
Precedence == {[Pair EXCEPT !.body.kids = <<e>>] :
  e \in {Binary2(o, Binary2(p, Lit("1"), Lit("2")), Lit("3")) : o, p \in Infixes}
       \cup {Binary2(o, Lit("1"), Binary2(p, Lit("2"), Lit("3"))) : o, p \in Infixes}}

Neg(e) == Op("callprop", <<e, Lit("-@")>>)
Index(e, es) == Op("callprop", <<e, Lit("[]")>> \o es)
Terms == {
  Shown(<<Neg(x), Lit("-2"), Neg(Binary2("+", x, y)), Binary2("**", Neg(x), y), Binary2("*", x, Lit("-1"))>>),
  Shown(<<Index(x, <<y, Lit("1")>>), Index(x, <<Lit("k")>>), Op("rawprop", <<Index(x, <<y>>), Lit("q")>>)>>),
  Shown(<<Op("callprop", <<Word("self"), x, y>>), Op("callprop", <<Word("self"), Op("activeprop", <<x, Lit("p")>>)>>)>>),
  Shown(<<Op("callprop", <<x, y>>), Op("activeprop", <<Op("callprop", <<x, Lit("p"), Lit("1")>>), Binary2("+", x, y)>>)>>),
  Shown(<<Op("callprop", <<Glob("G"), Lit("New"), x>>), Op("activeprop", <<Glob("G"), Lit("New")>>),
          Op("callprop", <<Op("activeprop", <<Glob("G"), Lit("p")>>), Lit("New")>>)>>),
  Shown(<<Op("?", <<Op("not", <<x>>), Op("?", <<x, y, Lit("1")>>), Op("and", <<x, y>>)>>), Op("not", <<Op("not", <<x>>)>>)>>),
  Shown(<<Send("f", <<Lit("k")>>), Op("callprop", <<Send("f", <<Lit("k")>>), Lit("g"), Lit("k")>>), Let(y, x), Word("baseurl")>>),
  Knowing(Shown(<<Op("callprop", <<Glob("Range"), Lit("New"), x, y, Lit("3")>>), Node("ext", "url", <<>>, <<>>, 0)>>), {"Range"}),
  Knowing(Shown(<<Op("callprop", <<Op("callprop", <<Glob("Resource"), Lit("New"), x, Word("baseurl")>>), Lit("Load")>>)>>), {"Resource"}),
  MethodOf(<<"x">>, <<>>, <<This(x, <<>>, <<Let(Op("activeprop", <<Word("this"), Lit("p")>>), Lit("1")), Binary2("<<", Word("this"), x),
     Let(Index(Word("this"), <<Lit("q")>>), Let(Index(Word("this"), <<Lit("r")>>), x)), Op("callprop", <<Word("this"), Lit("p"), x>>),
     Op("rawprop", <<Word("this"), Lit("p")>>), Index(Word("this"), <<x>>), Op("activeprop", <<Word("this"), Lit("p")>>)>>)>>)}

\* Clauses behind a statement; a variable it declares belongs to the first.
While2(cond, vs, s) == Node("while", "", <<cond, s>>, vs, 0)
Each2(iter, vs, s)  == Node("each", "", <<iter, s>>, vs, Len(vs))
IfNew(cond, vs, s)  == Op("if", <<cond, Block(vs, <<s>>)>>)
Behind == {
  MethodOf(<<"x">>, <<>>, <<While2(Act("a"), <<>>, Show(<<x>>)), While2(x, <<>>, If(Act("b"), <<Break>>)), x>>),
  MethodOf(<<>>, <<>>, <<Each2(Act("list"), <<"", "v">>, Show(<<v>>)), Each2(Act("list"), <<"k", "v">>, If(v, <<Ret(k)>>))>>),
  MethodOf(<<>>, <<>>, <<Each2(Act("list"), <<"", "v", "k">>, IfNew(k, <<"y">>, Let(y, Let(Glob("G"), v)))), Ret(Null)>>),
  MethodOf(<<>>, <<>>, <<IfNew(Act("a"), <<"k", "y">>, Let(Comma(<<y, k>>), Act("b"))),
                         While2(Act("c"), <<"y">>, Let(y, Lit("1"))), Op("yield", <<Null>>)>>),
  MethodOf(<<"x">>, <<>>, <<If(x, <<If(Act("a"), <<Ret(Lit("1"))>>)>>), While2(Act("b"), <<>>, Continue)>>)}

\* Blocks whose statements go to an operator.
Using(e, o, stmts) == Op("thisblock", <<e, Block(<<>>, stmts), o>>)
Operators == {
  MethodOf(<<"x">>, <<>>, <<Using(Act("a"), Lit("add"), <<x, Act("b"), Comma(<<x, Lit("1")>>), Let(Act("p"), x)>>), Show(<<x>>)>>),
  MethodOf(<<"x">>, <<>>, <<Using(x, Word("selfmeth"), <<Lit("1"), Op("if", <<x, Block(<<>>, <<Act("a"), Word("this")>>)>>)>>)>>),
  MethodOf(<<"x">>, <<>>, <<Using(x, Lit("add"), <<Using(Act("a"), Lit("put"), <<Lit("1")>>), This(Act("b"), <<>>, <<Act("c")>>), x>>)>>)}

\* Methods within methods.
Method(ps, locals, shared, stmts) == [Tree(MethodOf(ps, locals, stmts)) EXCEPT !.closure = shared]
Inner(m) == MethodLit(Restrict(m, DOMAIN m \ {"errors"}))
Joining(get, vs) == Closure(Inner(get), NullSym, [i \in DOMAIN vs |-> Var(vs[i])], vs)
Getter == Method(<<"r">>, <<>>, <<"y", "x">>, <<Let(y, x), y>>)
Plain  == Method(<<>>, <<>>, <<>>, <<Joining(Method(<<>>, <<>>, <<>>, <<Lit("1")>>), <<>>)>>)
ClosureProgram(ps, shared, stmts) == [MethodOf(ps, <<>>, stmts) EXCEPT !.closure = shared]
Closures == {
  Knowing(Shown(<<Joining(Getter, <<"y", "x">>), Joining(Plain, <<>>)>>), {"Closure"}),
  Knowing(MethodOf(<<"x">>, <<"y">>, <<Let(y, Closure(Inner(Method(<<>>, <<>>, <<"self", "k">>, <<k>>)),
         Inner(Method(<<"v">>, <<>>, <<"self", "k">>, <<Let(k, v)>>)), <<Word("self"), Binary2("+", x, Lit("1"))>>, <<"self", "k">>)),
         Show(<<y>>)>>), {"Closure"}),
  ClosureProgram(<<"r">>, <<"x", "y">>, <<Show(<<x, y, r>>), Let(y, r), Let(r, x), Let(x, Act("a")), Show(<<x, y, r>>)>>),
  ClosureProgram(<<"r">>, <<"y", "x">>, <<Let(Comma(<<y, r, x>>), Comma(<<x, y, r>>)), Show(<<x, y, r>>), Over(y, <<"k", "v">>, <<Show(<<v>>)>>)>>),
  ClosureProgram(<<>>, <<"self", "x">>, <<Show(<<x, Word("this")>>), This(Word("self"), <<>>, <<Let(x, Word("this"))>>), x>>),
  Knowing(ClosureProgram(<<"r">>, <<"x">>, <<Joining(Method(<<>>, <<>>, <<"r">>, <<Let(Glob("G"), r)>>), <<"r">>), x>>), {"Closure"})}

Regular == {p \in Branches : SoundCond(p.body.kids[1].kids[1])} \cup {p \in Tested : SoundCond(p.body.kids[1].kids[1])}
             \cup Valued \cup Loops \cup Blocks \cup Assignments \cup Results
             \cup Precedence \cup Terms \cup Behind \cup Operators \cup Closures

(***************************************************************************)
(* Irregular. What the parser accepts and the generator gets wrong:        *)
(*   "or"       conditions that are not Sound                              *)
(*   "parallel" several values of one call, assigned to properties: the    *)
(*              second is overwritten by the first property's name         *)
(*   "do"       several values of a 'do': the second is not told           *)
(*   "empty"    blocks without a statement at the end of a method          *)
(*   "yield"    a yield as a value that something else follows, or of what  *)
(*              is in a register of its own                                *)
(*   "ifs"      an 'if' with a block right behind another                  *)
(*   "wide"     more values of one call than it has registers: those       *)
(*              expected are not counted for the frame                     *)
(***************************************************************************)
Odd(kind) ==
  CASE kind = "or" -> {p \in Branches \cup Tested : ~SoundCond(p.body.kids[1].kids[1])}
    [] kind = "parallel" -> {MethodOf(<<"x">>, <<>>, <<Let(Comma(<<Act("p"), x>>), Send("f", <<>>)), Show(<<x>>)>>),
                             MethodOf(<<"x">>, <<>>, <<Let(Comma(<<x, Act("p")>>), Send("f", <<>>)), Show(<<x>>)>>)}
    [] kind = "do" -> {MethodOf(<<>>, <<"x", "y">>, <<Do(Let(Comma(<<x, y>>), Comma(<<Act("a"), Act("b")>>)), <<>>, <<Show(<<x, y>>)>>)>>)}
    [] kind = "empty" -> {MethodOf(<<>>, <<>>, <<>>), MethodOf(<<>>, <<>>, <<If(Act("a"), <<>>)>>)}
    [] kind = "ifs" -> {MethodOf(<<>>, <<>>, <<If(Act("a"), <<Show(<<>>), Show(<<Lit("1")>>)>>),
                                              If(Act("b"), <<Act("t"), Show(<<>>)>>), Ret(Lit("2"))>>)}
    [] kind = "wide" -> {MethodOf(<<"x", "y", "k">>, <<>>, <<Let(Comma(<<x, y, k>>), Act("a")), Show(<<>>)>>)}
    [] kind = "yield" -> {MethodOf(<<>>, <<"x">>, <<Let(x, Op("yield", <<Null>>)), Show(<<x>>)>>),
                          MethodOf(<<"x">>, <<"y">>, <<Let(y, Op("yield", <<x>>)), Show(<<x, y>>)>>),
                          MethodOf(<<>>, <<>>, <<Ret(Op("yield", <<Lit("1")>>))>>),
                          MethodOf(<<>>, <<>>, <<Op("callprop", <<Op("yield", <<Lit("1")>>), Lit("+"), Lit("2")>>)>>)}

MCPrograms == Regular \cup UNION {Odd(kind) : kind \in Irregular}

\* A called method answers null or something else; a comparison also how its operands compare; what is only
\* called to be seen, told or set answers one thing; an iterator is found whenever one is asked for.
MCAnswers(event) ==
  CASE event[1] = "each" -> {"iter"}
    [] event[1] \in {"set", "rawset", "yield"} \/ (event[1] = "get" /\ event[2] \in {"s", "t", "f", "Begin", "End"}) -> {"true"}
    [] event[1] = "get" /\ event[2] = "<=>" -> {"neg", "zero", "pos", "null"}
    [] OTHER -> {"null", "true"}
==============================================================================
