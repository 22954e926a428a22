-------------------------------- MODULE Syntax --------------------------------
(***************************************************************************)
(* How a program is written: the abstract specification of the parser.     *)
(*                                                                         *)
(* Text(program) is the shortest text for a tree: each kind of expression  *)
(* has a level, and an operand is put in parentheses only if its level is  *)
(* below the one that its place asks for; what can be a clause behind its  *)
(* statement is written as one. Parser and writer share no operator but    *)
(* those that make tokens and nodes.                                       *)
(***************************************************************************)
EXTENDS Parser

Words(ws)      == [i \in DOMAIN ws |-> Res(ws[i])]
Within(a, ts, b) == Words(<<a>>) \o ts \o Words(<<b>>)
Joined(texts, word) ==
  IF texts = <<>> THEN <<>> ELSE FoldLeft(LAMBDA a, t : a \o Words(<<word>>) \o t, texts[1], Tail(texts))
NamesOf(xs)    == [i \in DOMAIN xs |-> <<Name(xs[i])>>]
From(s, i)     == SubSeq(s, i, Len(s))

(***************************************************************************)
(* Levels, from the loosest: 0 an expression with a block, 1 assignment,   *)
(* 2 comma, 3 << and >>, 4 ?, 5 or, 6 and, 7 not, 8 comparisons, 9 ranges, *)
(* 10 sums, 11 products, 12 powers, 13 prefixes, 14 terms.                 *)
(***************************************************************************)
OpLevel == [o \in {"+", "-"} |-> 10] @@ [o \in {"*", "/", "%"} |-> 11] @@ [o \in {"**"} |-> 12]
           @@ [o \in {"<<", ">>"} |-> 3] @@ [o \in {"<=>"} |-> 8]

Property(e) == IF e.op = "callprop" /\ e.kids[2].op = "lit" THEN e.kids[2].name ELSE ""
IsRange(e)  == Property(e) = "New" /\ e.kids[1] = Glob("Range")
IsLoad(e)   == /\ Property(e) = "Load" /\ Len(e.kids) = 2 /\ Property(e.kids[1]) = "New"
               /\ e.kids[1].kids[1] = Glob("Resource") /\ Len(e.kids[1].kids) = 4 /\ e.kids[1].kids[4] = Word("baseurl")

Level(e) ==
  CASE e.op = "thisblock" -> 0
    [] e.op \in {"=", "yield"} -> 1
    [] e.op = "comma" -> 2
    [] e.op = "?"     -> 4
    [] e.op = "or"    -> 5
    [] e.op = "and"   -> 6
    [] e.op = "not"   -> 7
    [] e.op \in CompareOps \cup {"===", "~~"} -> 8
    [] Property(e) \in DOMAIN OpLevel /\ Len(e.kids) = 3 -> OpLevel[Property(e)]
    [] IsRange(e)     -> 9
    [] IsLoad(e) \/ Property(e) = "-@" \/ (e.op = "lit" /\ e.name \notin Digits /\ IsNumber(e.name)) -> 13
    [] OTHER          -> 14

(***************************************************************************)
(* sc: the variables of the innermost block and those of the blocks around *)
(* it. A variable that both have is assigned with 'local'.                 *)
(***************************************************************************)
Inside(sc, vs) == [inner |-> ToSet(vs), outer |-> sc.inner \cup sc.outer]

RECURSIVE Bare(_, _), Braced(_, _, _), MethodText(_, _)
Expr(e, level, sc) == IF Level(e) < level THEN Within("(", Bare(e, sc), ")") ELSE Bare(e, sc)
Exprs(es, level, sc) == [i \in DOMAIN es |-> Expr(es[i], level, sc)]
Args(es, sc) == Joined(Exprs(es, 3, sc), ",")

LitText(v) ==
  IF v \in Digits \cup {"null", "true", "false"} THEN <<LitTok(v)>>
  ELSE IF IsNumber(v) THEN <<Res("-"), LitTok(CHOOSE d \in Digits : Negated(d) = v)>>
  ELSE <<StrTok(v)>>
IsText(e) == e.op = "lit" /\ LitText(e.name) = <<StrTok(e.name)>>

\* A property or call: what it is of, and how it goes on.
TermText(e, sc) ==
  LET self == e.kids[1]
      prop == e.kids[2]
      args == From(e.kids, 3)
      base(b, marks) == Expr(b, IF b.op = marks THEN 15 ELSE 14, sc)
      of   == IF self = Word("this") THEN <<>> ELSE base(self, "none")
      name == IF prop.op = "lit" THEN <<Name(prop.name)>> ELSE Within("(", Bare(prop, sc), ")")
      given == IF e.op # "callprop" THEN <<>>
               ELSE IF Len(args) = 1 /\ IsText(args[1]) THEN <<StrTok(args[1].name)>>
               ELSE Within("(", Args(args, sc), ")")
  IN IF e.op = "rawprop" THEN of \o Words(<<".:">>) \o name
     ELSE IF prop = Lit("New") THEN Words(<<"+">>) \o Expr(self, IF self.op \in PropOps THEN 15 ELSE 14, sc) \o given
     ELSE IF Property(e) = "[]" /\ Len(args) = 1 /\ IsText(args[1]) THEN of \o <<Res("::"), Name(args[1].name)>>
     ELSE IF Property(e) = "[]" THEN base(self, "none") \o Within("[", Args(args, sc), "]")
     ELSE IF e.op = "callprop" /\ self = Word("self") /\ prop.op # "lit" THEN base(prop, "activeprop") \o given
     ELSE of \o Words(<<".">>) \o name \o given

\* A closure over the variables with these values; that of a method alone if they are those of the same names.
ClosureText(e, sc) ==
  LET call == e.kids[1]
      caps == From(call.kids, 5)
      vs   == e.vars
      method(m) == MethodText(m.kids[1], sc)
      cap(i) == IF caps[i] = Var(vs[i]) THEN <<Name(vs[i])>>
                ELSE IF caps[i] = Word("self") /\ vs[i] = "self" THEN <<Res("self")>>
                ELSE <<Name(vs[i]), Res("=")>> \o Expr(caps[i], 3, sc)
      list == Within("+[", Joined([i \in DOMAIN vs |-> cap(i)], ","), "]")
  IN IF call.kids[4] # NullSym
     THEN list \o Within("{", method(call.kids[3]) \o Words(<<";">>) \o method(call.kids[4]) \o Words(<<";">>), "}")
     ELSE IF \A i \in DOMAIN vs : caps[i] = Var(vs[i]) THEN method(call.kids[3])
     ELSE list \o method(call.kids[3])

Bare(e, sc) ==
  LET l == e.kids[1]
      r == e.kids[2]
      level == Level(e)
      infix(o, left, right) == Expr(l, left, sc) \o Words(<<o>>) \o Expr(r, right, sc)
      lvals == ToSet(IF l.op = "comma" THEN l.kids ELSE <<l>>)
      isLocal == \E v \in lvals : v.op = "local" /\ v.name \in sc.inner \cap sc.outer
      member == l.op = "activeprop" /\ l.kids[1] = Word("this") /\ l.kids[2].op = "lit"
      index  == l.op = "callprop" /\ l.kids[1] = Word("this") /\ Property(l) = "[]" /\ Len(l.kids) = 3 /\ IsText(l.kids[3])
  IN CASE e.op = "lit"    -> LitText(e.name)
       [] e.op \in {"local", "global"} -> <<Name(e.name)>>
       [] e.op \in {"this", "self", "context", "baseurl"} -> Words(<<e.op>>)
       [] e.op = "selfmeth" -> Words(<<"selfmethod">>)
       [] e.op = "splat"  -> Words(<<"...">>)
       [] e.op = "none"   -> <<>>
       [] e.op = "ext"    -> IF e.name = "method" THEN MethodText(l, sc) ELSE <<UrlTok(e.name)>>
       [] e.op = "closure" -> ClosureText(e, sc)
       [] e.op = "thisblock" ->
            Expr(l, 1, sc) \o (IF Len(e.kids) = 2 THEN <<>> ELSE Words(<<"using">>) \o Expr(e.kids[3], 1, sc)) \o Braced(e.vars, r, sc)
       [] e.op = "yield"  -> Words(<<"yield">>) \o Expr(l, 0, sc)
       [] e.op = "=" /\ member -> <<Name(l.kids[2].name), Res(":")>> \o Expr(r, 1, sc)
       [] e.op = "=" /\ index  -> <<Name(l.kids[3].name), Res(":=")>> \o Expr(r, 1, sc)
       [] e.op = "=" /\ ~member /\ ~index -> Words(IF isLocal THEN <<"local">> ELSE <<>>) \o infix("=", 2, 1)
       [] e.op = "comma"  -> Args(e.kids, sc)
       [] e.op = "?"      -> infix("?", 5, 5) \o Words(<<"else">>) \o Expr(e.kids[3], 5, sc)
       [] e.op \in {"and", "or"} -> Joined(Exprs(e.kids, level + 1, sc), e.op)
       [] e.op = "not"    -> Words(<<"not">>) \o Expr(l, 8, sc)
       [] e.op \in CompareOps \cup {"===", "~~"} -> infix(e.op, 9, 9)
       [] IsRange(e)      -> Joined(Exprs(From(e.kids, 3), 10, sc), "..")
       [] IsLoad(e)       -> Words(<<"@">>) \o Expr(l.kids[3], 13, sc)
       [] Property(e) = "-@" -> Words(<<"-">>) \o Expr(l, 13, sc)
       [] Property(e) \in DOMAIN OpLevel /\ Len(e.kids) = 3 ->
            (IF level = 3 /\ l = Word("this") THEN <<>> ELSE Expr(l, IF level = 8 THEN 9 ELSE level, sc))
              \o Words(<<r.name>>) \o Expr(e.kids[3], level + 1, sc)
       [] OTHER           -> TermText(e, sc)

(***************************************************************************)
(* Statements.                                                             *)
(***************************************************************************)
Compound == {"if", "match", "while", "each", "do"}
RECURSIVE IsClause(_, _)
\* Whether the statement can be written as one and a clause behind it.
IsClause(s, sc) ==
  LET body == s.kids[2]
      one  == IF s.op = "if" /\ Len(body.kids) = 1 THEN body.kids[1] ELSE body
      vs   == ToSet(IF s.op = "if" THEN body.vars ELSE s.vars)
  IN /\ s.op \in {"while", "each"} \/ (s.op = "if" /\ Len(s.kids) = 2 /\ Len(body.kids) = 1)
     /\ one.op # ";" /\ vs \cap (sc.inner \cup sc.outer) = {}
     /\ one.op \notin Compound \/ IsClause(one, Inside(sc, <<>>))

RECURSIVE ClauseText(_, _), StmtText(_, _)
EachVars(vs) == IF vs[1] = "" THEN Joined(NamesOf(Tail(vs)), ",")
                ELSE <<Name(vs[1]), Res(":")>> \o Joined(NamesOf(Tail(vs)), ",")
EachText(s, sc) == Words(<<"each">>) \o EachVars(SubSeq(s.vars, 1, s.n)) \o Words(<<"in">>) \o Expr(s.kids[1], 5, sc)
\* The statement without the ';' at its end.
ClauseText(s, sc) ==
  LET cond == s.kids[1]
      in(vs) == Inside(sc, vs)
  IN CASE s.op = "if"    -> ClauseText(s.kids[2].kids[1], in(s.kids[2].vars)) \o Words(<<"if">>) \o Expr(cond, 5, sc)
       [] s.op = "while" -> ClauseText(s.kids[2], in(s.vars)) \o Words(<<"while">>) \o Expr(cond, 5, in(s.vars))
       [] s.op = "each"  -> ClauseText(s.kids[2], in(s.vars)) \o EachText(s, in(s.vars))
       [] s.op \in {"break", "continue"} -> Words(<<s.op>>)
       [] s.op \in {"return", "yield"}   -> Words(<<s.op>>) \o Expr(cond, 0, sc)
       [] OTHER          -> Expr(s, 0, sc)

StmtText(s, sc) ==
  LET k(i) == s.kids[i]
      semi == Words(<<";">>)
      in   == Inside(sc, s.vars)
      branch(i) == Braced(k(i + 1).vars, k(i + 1), sc) \o semi
      clause(i) == (IF k(i).op = "else" THEN Words(<<"else">>)
                    ELSE Words(<<IF s.op = "match" THEN "with" ELSE IF i = 1 THEN "if" ELSE "elif">>)
                           \o Expr(k(i), IF s.op = "match" THEN 1 ELSE 5, sc))
                   \o (IF k(i + 1).n = 0 THEN <<>>
                       ELSE Words(<<"into">>) \o Joined(NamesOf(SubSeq(k(i + 1).vars, 1, k(i + 1).n)), ","))
                   \o branch(i)
      clauses(first) == FlattenSeq([j \in 1 .. (Len(s.kids) - first + 1) \div 2 |-> clause(first + 2 * (j - 1))])
  IN CASE IsClause(s, sc) -> ClauseText(s, sc) \o semi
       [] s.op = "if" /\ ~IsClause(s, sc) -> clauses(1)
       [] s.op = "match" -> Words(<<"match">>) \o Expr(k(1), 1, sc)
                              \o (IF k(2) = Lit("~~") THEN <<>> ELSE Words(<<"using">>) \o Expr(k(2), 1, sc)) \o semi \o clauses(3)
       [] s.op = "while" /\ ~IsClause(s, sc) -> Words(<<"while">>) \o Expr(k(1), 5, in) \o Braced(s.vars, k(2), sc) \o semi
       [] s.op = "each" /\ ~IsClause(s, sc)  -> EachText(s, in) \o Braced(s.vars, k(2), sc) \o semi
       [] s.op = "do"    -> Words(<<"do">>) \o Expr(k(1), 1, in) \o Braced(s.vars, k(2), sc) \o semi
       [] OTHER          -> ClauseText(s, sc) \o semi

Stmts(block, sc) == FlattenSeq([i \in DOMAIN block.kids |-> StmtText(block.kids[i], sc)])
Braced(vs, block, sc) == Within("{", Stmts(block, Inside(sc, vs)), "}")

\* A method within a method, and a program, which needs no '[]' if it has no parameters.
MethodText(m, sc) ==
  LET default(x) == FlattenSeq([i \in DOMAIN m.inits |-> IF m.inits[i].kids[1] = Var(x)
                                  THEN Words(<<"=">>) \o Expr(m.inits[i].kids[2], 3, sc) ELSE <<>>])
      params == [i \in DOMAIN m.params |-> <<Name(m.params[i])>> \o default(m.params[i])]
      dots   == IF m.varparm THEN <<Words(<<"...">>)>> ELSE <<>>
  IN Within(IF m.yielder THEN "*[" ELSE "[", Joined(params \o dots, ","), "]")
       \o Braced(m.params \o m.locals, m.body, [inner |-> {}, outer |-> {}])
Text(m) ==
  IF m.params = <<>> /\ ~m.varparm /\ ~m.yielder THEN Stmts(m.body, [inner |-> ToSet(m.locals), outer |-> {}])
  ELSE MethodText(m, [inner |-> {}, outer |-> {}])
===============================================================================
