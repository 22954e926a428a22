-------------------------------- MODULE Parser --------------------------------
(***************************************************************************)
(* The parser (acn_parser.cpp): from the tokens of an Acorn source to a    *)
(* syntax tree (module Acorn), by recursive descent, one operator per      *)
(* parsing function.                                                       *)
(*                                                                         *)
(* The parser's state is a record that every operator takes and returns:   *)
(*   toks, pos  the tokens and which is the current one (comp->lex)        *)
(*   out        the operands so far of the segment being built (astseg)    *)
(*   scopes     the variables of the blocks around, innermost last, the    *)
(*              method's own first (comp->locvarseg)                       *)
(*   force      whether 'local' is in force (forcelocal)                   *)
(*   clo, caps  the variables of the closure being built and the values    *)
(*              they start with (clovarseg, what newcloseg ends with)      *)
(*   explicit   whether that is a '+[...]' closure (explicitclo)           *)
(*   outer      the scopes of the method around (prevcomp), or <<>>        *)
(*   errors     how many messages were logged (lexLog)                     *)
(*   stray      the blocks that were skipped in search of a ';'            *)
(* A token is its kind and its text.                                       *)
(***************************************************************************)
EXTENDS Acorn

Res(s)   == <<"res", s>>    \* a reserved word or an operator
Name(x)  == <<"name", x>>
LitTok(v) == <<"lit", v>>   \* a number, null, false or true
StrTok(v) == <<"str", v>>   \* a literal that is a text or a symbol
UrlTok(u) == <<"url", u>>
Eof      == <<"eof", "">>

CONSTANT GlobalNames   \* the names that begin with a capital letter or "$"
Digits   == {"0", "1", "2", "3"}
Negated(v) == IF v \in Digits THEN "-" \o v ELSE CHOOSE d \in Digits : "-" \o d = v
IsNumber(v) == v \in Digits \/ \E d \in Digits : "-" \o d = v

Tok(p)   == p.toks[p.pos]
Take(p)  == IF Tok(p) = Eof THEN p ELSE [p EXCEPT !.pos = @ + 1]     \* lexGetNextToken
Is(p, words) == Tok(p)[1] = "res" /\ Tok(p)[2] \in words             \* lexMatch
IsLit(p) == Tok(p)[1] \in {"lit", "str"}
Log(p)   == [p EXCEPT !.errors = @ + 1]
Skip(p, word)   == IF Is(p, {word}) THEN Take(p) ELSE p
Expect(p, word) == IF Is(p, {word}) THEN Take(p) ELSE Log(p)

(***************************************************************************)
(* Building the tree: a new segment is added (astAddSeg) or takes the      *)
(* place of the last operand, which becomes its first (astInsSeg).         *)
(***************************************************************************)
Add(p, node) == [p EXCEPT !.out = Append(@, node)]
New(p)       == [p EXCEPT !.out = <<>>]
Added(p, q, node) == [q EXCEPT !.out = Append(p.out, node)]
\* The operand that the new segment begins with.
Operand(p)   == [p EXCEPT !.out = <<Last(@)>>]
Inserted(p, q, node) == [q EXCEPT !.out = Append(Front(p.out), node)]

IsLval(e) == e.op \in {"local", "global"} \cup PropOps

(***************************************************************************)
(* Variables. A variable that no block around knows belongs to the block   *)
(* it is first used in, unless the method around has it: then it is one of *)
(* the closure.                                                            *)
(***************************************************************************)
BlockVars(p) == Last(p.scopes)
\* findBlockVar: the variable's index in its block (from 1 in the method's own, else from 0), or -1.
BlockVar(p, x) ==
  IF x \notin ToSet(BlockVars(p)) THEN -1
  ELSE SelectLastInSeq(BlockVars(p), LAMBDA y : y = x) - 1 + (IF Len(p.scopes) = 1 THEN 1 ELSE 0)
LocalVar(scopes, x) == \E i \in DOMAIN scopes : x \in ToSet(scopes[i])
AddLocal(p, x) == [p EXCEPT !.scopes[Len(p.scopes)] = Append(@, x)]

DeclareLocal(p, x) ==
  IF p.force THEN IF BlockVar(p, x) # 0 THEN AddLocal(p, x) ELSE p
  ELSE IF LocalVar(p.scopes, x) \/ x \in ToSet(p.clo) THEN p
  ELSE IF LocalVar(p.outer, x) THEN [p EXCEPT !.clo = Append(@, x), !.caps = Append(@, Var(x))]
  ELSE AddLocal(p, x)

NewBlock(p)  == [p EXCEPT !.scopes = Append(@, <<>>)]

RECURSIVE ParseBlock(_), ParseAppendExp(_), ParseAssgnExp(_), ParseThisExp(_), ParseLogicExp(_), ParseProgram(_)
ParseExp(p) == ParseAssgnExp(p)

(***************************************************************************)
(* Values.                                                                 *)
(***************************************************************************)
ParseName(p) ==
  LET x == Tok(p)[2]
      q == Take(p)
  IN IF Is(q, {":", ":="}) THEN Add(q, Lit(x))        \* a symbol: the property is set
     ELSE IF x \in GlobalNames THEN Add(q, Glob(x))
     ELSE Add(DeclareLocal(q, x), Var(x))

Pseudo == [baseurl |-> "baseurl", this |-> "this", self |-> "self", selfmethod |-> "selfmeth", context |-> "context"]

(***************************************************************************)
(* A method within a method is a literal of the one around; a closure      *)
(* joins it with the variables it shares with that one.                    *)
(***************************************************************************)
MethodLit(m) == Node("ext", "method", <<m>>, <<>>, 0)
NullSym      == Lit("'null'")
\* parseNewClo's segment, with its methods and the values of its variables.
Closure(get, set, caps, vars) ==
  Node("closure", "", <<Op("callprop", <<Glob("Closure"), Lit("New"), get, set>> \o caps)>>, vars, 0)

\* parseProgram for the method that begins here, in a compiler context of its own.
InnerMethod(p) ==
  LET q == ParseProgram([p EXCEPT !.out = <<>>, !.outer = p.scopes, !.force = FALSE])
  IN [q EXCEPT !.out = Append(p.out, MethodLit(q.out[1])), !.scopes = p.scopes, !.outer = p.outer,
               !.force = p.force, !.explicit = p.explicit]

ParseMethod(p) ==
  LET q == InnerMethod([p EXCEPT !.clo = <<>>, !.caps = <<>>])
  IN IF p.explicit THEN InnerMethod(p)
     ELSE [q EXCEPT !.out = Append(p.out, Closure(Last(@), NullSym, q.caps, q.clo)), !.clo = p.clo, !.caps = p.caps]

RECURSIVE CloVars(_)
\* The variables declared between '+[' and ']'.
CloVars(p) ==
  LET x == Tok(p)[2]
      a == Take([p EXCEPT !.clo = Append(@, x), !.errors = @ + (IF x \in GlobalNames THEN 1 ELSE 0)])
      b == IF Is(a, {"="}) THEN ParseAppendExp(New(Take(a)))
           ELSE Add(New(a), IF x = "self" THEN Word("self") ELSE Var(x))
      q == IF Tok(p)[1] = "name" \/ Is(p, {"self"}) THEN [b EXCEPT !.caps = @ \o b.out, !.out = p.out] ELSE p
  IN IF Is(q, {","}) THEN CloVars(Take(q)) ELSE q

RECURSIVE ParseValue(_)
ParseClosure(p) ==
  LET fresh == [p EXCEPT !.clo = <<>>, !.caps = <<>>]
      vars == Expect(IF Is(p, {"]"}) THEN fresh ELSE CloVars(fresh), "]")
      in   == New([vars EXCEPT !.explicit = TRUE])
      get  == Skip(ParseExp(Take(in)), ";")
      pair == Skip(Skip(ParseExp(get), ";"), "}")
      q    == IF Is(in, {"{"}) THEN pair ELSE ParseValue(in)
  IN [q EXCEPT !.out = Append(p.out, Closure(q.out[1], IF Len(q.out) > 1 THEN q.out[2] ELSE NullSym, q.caps, q.clo)),
               !.clo = p.clo, !.caps = p.caps, !.explicit = p.explicit]

\* Nothing is added for a token that begins no value.
ParseValue(p) ==
  LET t == Tok(p) IN
  CASE IsLit(p)           -> Add(Take(p), Lit(t[2]))
    [] t[1] = "url"       -> Add(Take(p), Node("ext", t[2], <<>>, <<>>, 0))
    [] t[1] = "name"      -> ParseName(p)
    [] Is(p, DOMAIN Pseudo) -> Add(Take(p), Word(Pseudo[t[2]]))
    [] Is(p, {"..."})     -> Add(Take(p), Word("splat"))
    [] Is(p, {"yield"})   -> LET q == ParseThisExp(New(Take(p)))
                             IN Added(p, q, Op("yield", IF q.out = <<>> THEN <<Word("none")>> ELSE q.out))
    [] Is(p, {"("})       -> Expect(ParseExp(Take(p)), ")")
    [] Is(p, {"[", "*["}) -> ParseMethod(p)
    [] Is(p, {"+["})      -> ParseClosure(Take(p))
    [] OTHER              -> p

(***************************************************************************)
(* Terms: a value and what is done to it from left to right.               *)
(***************************************************************************)
RECURSIVE ParseList(_)
ParseList(p) == LET q == ParseAppendExp(p) IN IF Is(q, {","}) THEN ParseList(Take(q)) ELSE q
ParseParams(p, close) ==
  LET q == Expect(ParseList([p EXCEPT !.force = FALSE]), close) IN [q EXCEPT !.force = p.force]

Dots == {".", ".:", "::"}
\* The property behind the dots.
ParseProp(p) ==
  IF Tok(p)[1] = "name" \/ IsLit(p) THEN Add(Take(p), Lit(Tok(p)[2]))
  ELSE IF Is(p, {"("}) THEN Expect(ParseExp(Take(p)), ")")
  ELSE Log(Add(p, Lit("null")))

\* A property in parentheses or a text behind it makes it a call.
WithParms(base, q) ==
  LET call(r) == Inserted(base, r, Op("callprop", r.out)) IN
  IF Is(q, {"("}) THEN call(ParseParams(Take(q), ")"))
  ELSE IF Tok(q)[1] = "str" THEN call(Add(Take(q), Lit(Tok(q)[2])))
  ELSE Inserted(base, q, Op("activeprop", q.out))

ParseSuffix(p, isNew) ==
  LET in  == Operand(p)
      op  == Tok(p)[2]
      index == ParseParams(Add(Take(in), Lit("[]")), "]")
      prop  == ParseProp(Take(IF op = "::" THEN Add(in, Lit("[]")) ELSE in))
  IN IF isNew THEN WithParms(p, Add(in, Lit("New")))
     ELSE IF Is(p, {"("}) THEN WithParms(p, [in EXCEPT !.out = <<Word("self")>> \o @])
     ELSE IF Is(p, {"["}) THEN Inserted(p, index, Op("callprop", index.out))
     ELSE IF op = "." THEN WithParms(p, prop)
     ELSE Inserted(p, prop, Op(IF op = ".:" THEN "rawprop" ELSE "callprop", prop.out))

RECURSIVE TermRest(_, _)
TermRest(p, isNew) ==
  IF isNew \/ Is(p, Dots \cup {"(", "["}) THEN TermRest(ParseSuffix(p, isNew), FALSE) ELSE p

ParseTerm(p) ==
  LET isNew == Is(p, {"+"})
      q == Skip(p, "+")
  IN TermRest(IF ~isNew /\ Is(q, Dots) THEN Add(q, Word("this")) ELSE ParseValue(q), isNew)

(***************************************************************************)
(* Operators, by precedence.                                               *)
(***************************************************************************)
RECURSIVE ParsePrefixExp(_)
ParsePrefixExp(p) ==
  LET q == ParsePrefixExp(Take(p))
      e == Last(q.out)
      static == Take(Add(Take(p), Node("ext", Tok(Take(p))[2], <<>>, <<>>, 0)))
      url == ParsePrefixExp([Take(p) EXCEPT !.out = <<Glob("Resource"), Lit("New")>>])
      load == Op("callprop", <<Op("callprop", Append(url.out, Word("baseurl"))), Lit("Load")>>)
  IN IF Is(p, {"-"}) THEN Inserted(q, q, IF e.op = "lit" /\ IsNumber(e.name) THEN Lit(Negated(e.name))
                                         ELSE Op("callprop", <<e, Lit("-@")>>))
     ELSE IF Is(p, {"@"}) THEN IF IsLit(Take(p)) THEN static ELSE Added(p, url, load)
     ELSE ParseTerm(p)

\* The operators of each level that take two operands, from the tightest.
Levels == <<{"**"}, {"*", "/", "%"}, {"+", "-"}>>
RECURSIVE Binary(_, _), BinaryRest(_, _)
Binary(p, level) == IF level = 0 THEN ParsePrefixExp(p) ELSE BinaryRest(Binary(p, level - 1), level)
BinaryRest(p, level) ==
  LET q == Binary(Add(Operand(Take(p)), Lit(Tok(p)[2])), level - 1)
  IN IF Is(p, Levels[level]) THEN BinaryRest(Inserted(p, q, Op("callprop", q.out)), level) ELSE p
ParseAddSubExp(p) == Binary(p, 3)

ParseRangeExp(p) ==
  LET from == ParseAddSubExp(p)
      to   == ParseAddSubExp([Take(from) EXCEPT !.out = <<Glob("Range"), Lit("New"), Last(from.out)>>])
      step == IF Is(to, {".."}) THEN ParseAddSubExp(Take(to)) ELSE to
  IN IF Is(from, {".."}) THEN Inserted(from, step, Op("callprop", step.out)) ELSE from

ParseCompExp(p) ==
  LET left == ParseRangeExp(p)
      op   == Tok(left)[2]
      rocket == ParseRangeExp(Add(Operand(Take(left)), Lit("<=>")))
      both == ParseRangeExp(Operand(Take(left)))
  IN IF Is(left, {"<=>"}) THEN Inserted(left, rocket, Op("callprop", rocket.out))
     ELSE IF Is(left, CompareOps \cup {"===", "~~"}) THEN Inserted(left, both, Op(op, both.out))
     ELSE left

\* 'not's cancel out in pairs.
RECURSIVE Nots(_, _)
Nots(p, odd) == IF Is(p, {"!", "not"}) THEN Nots(Take(p), ~odd) ELSE <<p, odd>>
ParseNotExp(p) ==
  LET n == Nots(p, FALSE)
      q == ParseCompExp(New(n[1]))
  IN IF n[2] THEN Added(p, q, Op("not", q.out)) ELSE ParseCompExp(n[1])

RECURSIVE AndRest(_), OrRest(_)
AndRest(p) == IF Is(p, {"&&", "and"}) THEN AndRest(ParseNotExp(Take(p))) ELSE p
ParseAndExp(p) ==
  LET q == ParseNotExp(p)
      r == AndRest(Operand(q))
  IN IF Is(q, {"&&", "and"}) THEN Inserted(q, r, Op("and", r.out)) ELSE q
OrRest(p) == IF Is(p, {"||", "or"}) THEN OrRest(ParseAndExp(Take(p))) ELSE p
ParseLogicExp(p) ==
  LET q == ParseAndExp(p)
      r == OrRest(Operand(q))
  IN IF Is(q, {"||", "or"}) THEN Inserted(q, r, Op("or", r.out)) ELSE q

ParseTernaryExp(p) ==
  LET q == ParseLogicExp(p)
      yes == ParseLogicExp(Operand(Take(q)))
      no  == IF Is(yes, {"else"}) THEN ParseLogicExp(Take(yes)) ELSE Log(Add(yes, Lit("null")))
  IN IF Is(q, {"?"}) THEN Inserted(q, no, Op("?", no.out)) ELSE q

RECURSIVE AppendRest(_)
AppendRest(p) ==
  LET q == ParseTernaryExp(Add(Operand(Take(p)), Lit(Tok(p)[2])))
  IN IF Is(p, {"<<", ">>"}) THEN AppendRest(Inserted(p, q, Op("callprop", q.out))) ELSE p
ParseAppendExp(p) == AppendRest(IF Is(p, {"<<", ">>"}) THEN Add(p, Word("this")) ELSE ParseTernaryExp(p))

RECURSIVE CommaRest(_)
CommaRest(p) == IF Is(p, {","}) THEN CommaRest(ParseAppendExp(Take(p))) ELSE p
ParseCommaExp(p) ==
  LET q == ParseAppendExp(p)
      r == CommaRest(Operand(q))
  IN IF Is(q, {","}) THEN Inserted(q, r, Op("comma", r.out)) ELSE q

\* An assignment, also of a property of 'this' (p: v) or of one of its members (p:= v).
ParseAssgnExp(p) ==
  LET a == ParseCommaExp([Skip(p, "local") EXCEPT !.force = Is(p, {"local"})])
      l == [a EXCEPT !.force = p.force]
      lval  == Last(l.out)
      fits  == \A e \in ToSet(IF lval.op = "comma" THEN lval.kids ELSE <<lval>>) : IsLval(e)
      right == ParseAssgnExp(Take(Operand(IF fits THEN l ELSE Log(l))))
      prop  == IF Is(l, {":="}) THEN Op("callprop", <<Word("this"), Lit("[]"), lval>>)
               ELSE Op("activeprop", <<Word("this"), lval>>)
      value == ParseAssgnExp(Take([l EXCEPT !.out = <<prop>>]))
  IN IF Is(l, {"="}) THEN Inserted(l, right, Op("=", right.out))
     ELSE IF Is(l, {":", ":="}) THEN Inserted(l, value, Op("=", value.out))
     ELSE l

\* An expression, and the block in which it is 'this'. With 'using', each statement of the block goes to an operator.
ParseThisExp(p) ==
  LET e  == ParseAssgnExp(p)
      in == NewBlock(Operand(Skip(e, "using")))
      a  == IF Is(e, {"using"}) THEN ParseAssgnExp(in) ELSE in
      q  == ParseBlock(a)
      kids == IF Is(e, {"using"}) /\ Len(q.out) = 3 THEN <<q.out[1], q.out[3], q.out[2]>> ELSE q.out
      node == Node("thisblock", "", kids, BlockVars(q), 0)
  IN IF Is(e, {"using", "{"}) THEN [Inserted(e, q, node) EXCEPT !.scopes = e.scopes] ELSE e

(***************************************************************************)
(* Statements.                                                             *)
(***************************************************************************)
AtEnd(p) == Tok(p) = Eof \/ Is(p, {"}"})

RECURSIVE SkipToSemi(_)
SkipToSemi(p) ==
  IF AtEnd(p) THEN p ELSE IF Is(p, {";"}) THEN Take(p)
  ELSE LET b == ParseBlock(New(p))
       IN SkipToSemi(IF Is(p, {"{"}) THEN [b EXCEPT !.out = p.out, !.stray = p.stray \o b.out] ELSE Take(p))
ParseSemi(p) == IF AtEnd(p) THEN p ELSE IF Is(p, {";"}) THEN Take(p) ELSE SkipToSemi(Log(p))

\* Names separated by the given words, as a tuple in names.
RECURSIVE NamesList(_, _, _)
NamesList(p, names, words) ==
  LET isName == Tok(p)[1] = "name"
      q      == IF isName THEN Take(p) ELSE Log(p)
      more   == IF isName THEN Append(names, Tok(p)[2]) ELSE names
      keyed  == IF ":" \in words /\ Len(more) = 1 /\ ~Is(q, {":"}) THEN <<"">> \o more ELSE more
  IN IF Is(q, words) THEN NamesList(Take(q), keyed, words) ELSE <<q, keyed>>

\* The variables of 'each' (the first, for the key, has no name if there is no ':') and what it iterates over.
ParseEachClause(p) ==
  LET vs == NamesList(p, <<>>, {",", ":"})
      in == [vs[1] EXCEPT !.scopes = Append(@, vs[2])]
      q  == ParseLogicExp(New(Expect(in, "in")))
  IN [q EXCEPT !.out = p.out \o <<Node("each", "", q.out, BlockVars(q), Len(vs[2]))>>]

\* The clauses behind a statement, each with its block's variables, the first the deepest.
RECURSIVE ParseClauses(_, _)
ParseClauses(p, found) ==
  LET cond == ParseLogicExp(New(Take(p)))
      loop == ParseLogicExp(NewBlock(New(Take(p))))
      each == ParseEachClause(New(Take(p)))
      next(q, node) == ParseClauses([q EXCEPT !.out = p.out, !.scopes = SubSeq(@, 1, Len(p.scopes))], Append(found, node))
  IN IF Is(p, {"if"}) THEN next(cond, Op("if", cond.out))
     ELSE IF Is(p, {"while"}) THEN next(loop, Node("while", "", loop.out, BlockVars(loop), 0))
     ELSE IF Is(p, {"each"}) THEN next(each, each.out[1])
     ELSE <<p, found>>

\* The statement inside a clause; 'if' puts it in a block, which has the variables.
Wrapped(clause, stmt) ==
  IF clause.op = "if" THEN Op("if", clause.kids \o <<Block(clause.vars, <<stmt>>)>>)
  ELSE [clause EXCEPT !.kids = Append(@, stmt)]

\* A slip: the variables of a statement stay outside its clauses.
MovedNowhere(clauses, vars, fresh, outer) == clauses
\* The variables that the statement declared, the last one first, are those of the deepest clause, unless
\* a clause or a block around has them.
Moved(clauses, vars, fresh, outer) ==
  LET known(found, x) == LocalVar(outer \o <<vars, found>> \o [i \in DOMAIN clauses |-> clauses[i].vars], x)
      move(found, x) == IF known(found, x) THEN found ELSE Append(found, x)
  IN [clauses EXCEPT ![1].vars = FoldLeft(move, @, Reverse(fresh))]

\* n: how many variables the block had when the statement began.
ParseClause(p, n) ==
  LET found   == ParseClauses(p, <<>>)
      q       == ParseSemi(found[1])
      vars    == BlockVars(q)
      clauses == IF found[2] = <<>> THEN <<>>
                 ELSE Moved(found[2], SubSeq(vars, 1, n), SubSeq(vars, n + 1, Len(vars)), Front(q.scopes))
      after   == IF clauses = <<>> THEN q ELSE [q EXCEPT !.scopes[Len(q.scopes)] = SubSeq(@, 1, n)]
      stmt    == FoldLeft(LAMBDA s, c : Wrapped(c, s), Last(p.out), clauses)
  IN IF clauses = <<>> THEN q ELSE [after EXCEPT !.out = [@ EXCEPT ![Len(p.out)] = stmt]]

(***************************************************************************)
(* Statements with blocks of their own; out has the statement's operands.  *)
(***************************************************************************)
\* The block's variables go with it.
OwnBlock(p, names, n) ==
  LET q == ParseBlock([p EXCEPT !.scopes = Append(@, names)])
  IN [q EXCEPT !.out = IF Len(@) > Len(p.out) THEN Append(p.out, [Last(@) EXCEPT !.vars = BlockVars(q), !.n = n]) ELSE @,
               !.scopes = p.scopes]

RECURSIVE ParseElifs(_), ParseWiths(_, _)
ParseElifs(p) == IF Is(p, {"elif"}) THEN ParseElifs(ParseSemi(OwnBlock(ParseLogicExp(Take(p)), <<>>, 0))) ELSE p
ParseElse(p)  == IF Is(p, {"else"}) THEN ParseSemi(OwnBlock(Add(Take(p), Word("else")), <<>>, 0)) ELSE p
ParseIf(p) == ParseElse(ParseElifs(ParseSemi(OwnBlock(ParseLogicExp(Take(p)), <<>>, 0))))

\* into: the variables of the blocks that name none themselves.
ParseWiths(p, into) ==
  LET a    == ParseExp(Take(p))
      own  == NamesList(Take(a), <<>>, {","})
      vars == IF Is(a, {"into"}) THEN own ELSE <<a, into>>
  IN IF Is(p, {"with"}) THEN ParseWiths(ParseSemi(OwnBlock(vars[1], vars[2], Len(vars[2]))), into) ELSE p
ParseMatch(p) ==
  LET value  == ParseExp(Take(p))
      method == IF Is(value, {"using"}) THEN ParseAssgnExp(Take(value)) ELSE Add(value, Lit("~~"))
      into   == IF Is(method, {"into"}) THEN NamesList(Take(method), <<>>, {","}) ELSE <<method, <<>>>>
  IN ParseElse(ParseWiths(ParseSemi(into[1]), into[2]))

ParseLoop(p, q, node) ==
  LET b == ParseBlock(q) IN ParseSemi([b EXCEPT !.out = <<[node EXCEPT !.kids = b.out, !.vars = BlockVars(b)]>>, !.scopes = p.scopes])
ParseWhile(p) == ParseLoop(p, ParseLogicExp(NewBlock(Take(p))), Word("while"))
ParseEach(p)  ==
  LET e == ParseEachClause(Take(p))
  IN ParseLoop(p, [e EXCEPT !.out = e.out[1].kids], e.out[1])
ParseDo(p) ==
  LET in == NewBlock(Take(p)) IN ParseLoop(p, IF Is(in, {"{"}) THEN Add(in, Word("none")) ELSE ParseExp(in), Word("do"))

RECURSIVE ParseStmts(_)
\* The statements up to '}' or the end, added to out. What comes behind the blocks of an 'if' is a statement of
\* its own only if it is not another 'if'; it is taken for one that begins with the word 'if' (stmt).
ParseStmts(p) ==
  LET isIf == Is(p, {"if"})
      n    == Len(BlockVars(p))
      seg(q) == [q EXCEPT !.out = Append(p.out, Op(Tok(p)[2], q.out))]
      a    == IF isIf THEN seg(ParseIf(New(p))) ELSE p
      stmt == Tok(p)[2]
      in   == New(a)
      add(q, node) == [q EXCEPT !.out = Append(a.out, node)]
      arg  == Take(in)
      value == IF Is(arg, {";", "if", "each", "while"}) THEN Add(arg, Word("none")) ELSE ParseThisExp(arg)
      exp  == ParseThisExp(a)
      match == ParseMatch(in)
      block == CASE Is(a, {"while"}) -> ParseWhile(in) [] Is(a, {"each"}) -> ParseEach(in) [] Is(a, {"do"}) -> ParseDo(in)
      next(r) == ParseStmts([r EXCEPT !.out = @ \o r.stray, !.stray = <<>>])
  IN IF AtEnd(p) THEN p
     ELSE next(
       IF Is(a, {"match"}) THEN add(match, Op("match", match.out))
       ELSE IF Is(a, {"while", "each", "do"}) THEN add(block, block.out[1])
       ELSE IF Is(a, {"break", "continue"}) THEN ParseClause(Add(Take(a), Word(stmt)), n)
       ELSE IF Is(a, {"return", "yield"}) THEN ParseClause(add(value, Op(stmt, value.out)), n)
       ELSE IF ~isIf /\ Is(a, {";"}) THEN [Log(a) EXCEPT !.pos = Len(a.toks)]   \* the code's loop does not end
       ELSE ParseClause(exp, n))
Statements(p) ==
  LET q == ParseStmts([New(p) EXCEPT !.stray = <<>>]) IN [Added(p, q, Block(<<>>, q.out)) EXCEPT !.stray = p.stray]

ParseBlock(p) == IF Is(p, {"{"}) THEN Expect(Statements(Take(p)), "}") ELSE p

(***************************************************************************)
(* A method: its parameters, with what they are if they are null, and its  *)
(* body.                                                                   *)
(***************************************************************************)
RECURSIVE Params(_, _)
\* m: the method so far (nparms, varparm and inits).
Params(p, m) ==
  LET x    == Tok(p)[2]
      ok   == x \notin GlobalNames /\ ~LocalVar(p.scopes, x)
      a    == Take(IF ok THEN AddLocal(p, x) ELSE Log(p))
      init == ParseAppendExp(New(Take(a)))
      b    == IF Is(a, {"="}) THEN [init EXCEPT !.out = p.out] ELSE a
      n    == [m EXCEPT !.nparms = @ + (IF ok THEN 1 ELSE 0),
                        !.inits = IF Is(a, {"="}) THEN Append(@, Op("||=", <<Var(x)>> \o init.out)) ELSE @]
      next(q, r) == IF Is(q, {","}) THEN Params(Take(q), r) ELSE <<q, r>>
  IN IF Is(p, {"..."}) THEN <<Take(p), [m EXCEPT !.varparm = TRUE]>>
     ELSE IF Tok(p)[1] = "name" THEN next(b, n) ELSE next(p, m)

ParseProgram(p) ==
  LET start  == [p EXCEPT !.scopes = <<<<>>>>, !.explicit = FALSE]
      none   == [nparms |-> 0, varparm |-> FALSE, inits |-> <<>>]
      parms  == Params(Take(start), none)
      q      == ParseBlock(Skip(parms[1], "]"))
      r      == IF Is(p, {"[", "*["}) THEN <<q, parms[2]>> ELSE <<Statements(start), none>>
      vars   == BlockVars(r[1])
  IN [r[1] EXCEPT !.out =
       <<[params |-> SubSeq(vars, 1, r[2].nparms), locals |-> SubSeq(vars, r[2].nparms + 1, Len(vars)),
          varparm |-> r[2].varparm, yielder |-> Is(p, {"*["}), closure |-> r[1].clo, inits |-> r[2].inits,
          body |-> IF r[1].out = <<>> THEN Word("none") ELSE r[1].out[1]]>>]

\* The program that a text is compiled to.
Parse(tokens) ==
  ParseProgram([toks |-> Append(tokens, Eof), pos |-> 1, out |-> <<>>, scopes |-> <<>>, force |-> FALSE, clo |-> <<>>,
                caps |-> <<>>, explicit |-> FALSE, outer |-> <<>>, errors |-> 0, stray |-> <<>>])
==============================================================================
