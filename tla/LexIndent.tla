------------------------------ MODULE LexIndent ------------------------------
(***************************************************************************)
(* The layout of Acorn sources (lexScanWhite in acn_lexer.cpp): the lexer  *)
(* puts braces around lines that are indented and semicolons between       *)
(* statements, from the tabs at the start of each line.                    *)
(*                                                                         *)
(* A source is a sequence of characters, of which those are told apart     *)
(* that matter for layout. A token is one character ("x"). "#" begins a    *)
(* comment to the end of the line, "###" begins and ends one over several  *)
(* lines; what is in a comment is "c".                                     *)
(***************************************************************************)
EXTENDS Integers, SequencesExt, FiniteSetsExt

CONSTANTS
  Texts, ContTexts,  \* what may follow the tabs of a line, and the backslash of a line that goes on with the one before
  LastTexts,         \* what may also follow the tabs of the last line
  MaxTabs, MaxLines, \* bounds
  Irregular          \* kinds of sources allowed although they are not read rightly, see Regular

Chars == {"x", "tab", " ", "nl", "\\", "#", "###", "c"}
ASSUME ConstantTypes ==
  /\ Texts \cup ContTexts \cup LastTexts \subseteq Seq(Chars) /\ MaxTabs \in Nat /\ MaxLines \in Nat \ {0}

VARIABLES
  source,   \* the characters
  meaning,  \* what they mean (see Meaning)
  lex,      \* LexInfo
  out       \* the tokens that were delivered
vars == <<source, meaning, lex, out>>

Copies(s, n) == [k \in 1 .. n |-> s]
Tokens(l)    == SelectSeq(l.text, LAMBDA c : c \in {"x", "\\"})

(***************************************************************************)
(* What a source means: the tokens of its lines, with the braces and       *)
(* semicolons that its layout stands for. A line is a number of tabs,      *)
(* whether a backslash follows, and a text; final says whether the last    *)
(* line ends in a newline.                                                 *)
(***************************************************************************)
\* Leaving n blocks; the innermost statement that goes on is not ended.
Closings(n, goesOn) ==
  FlattenSeq(Copies(<<"}", ";">>, n - 1)) \o (IF n > 0 THEN IF goesOn THEN <<"}">> ELSE <<"}", ";">> ELSE <<>>)
\* Line l after what was read so far, at some level.
Laid(read, l) ==
  LET joins == l.cont /\ l.tabs >= read.level
      level == IF joins THEN read.level ELSE l.tabs
      layout == IF level > read.level THEN Copies("{", level - read.level)
                ELSE (IF joins \/ read.out = <<>> THEN <<>> ELSE <<";">>) \o Closings(read.level - level, l.cont)
  IN IF Tokens(l) = <<>> THEN read ELSE [level |-> level, out |-> read.out \o layout \o Tokens(l)]
Read(ls) == FoldLeft(Laid, [level |-> 0, out |-> <<>>], ls)

\* Whether a newline follows the last token, which no backslash takes back.
Ended(ls, final) == final \/ (Len(ls) > 1 /\ Tokens(Last(ls)) = <<>> /\ ~Last(ls).cont)
Meaning(ls, final) ==
  LET read == Read(ls)
  IN read.out \o (IF Ended(ls, final) /\ read.out # <<>> THEN <<";">> ELSE <<>>) \o Closings(read.level, FALSE) \o <<"eof">>

(***************************************************************************)
(* The lexer.                                                              *)
(***************************************************************************)
Line(l) == Copies("tab", l.tabs) \o (IF l.cont THEN <<"\\">> ELSE <<>>) \o l.text
Source(ls, final) ==
  Tail(FlattenSeq([i \in DOMAIN ls |-> <<"nl">> \o Line(ls[i])])) \o (IF final THEN <<"nl">> ELSE <<>>)
At(pos) == IF pos > Len(source) THEN "eof" ELSE source[pos]
\* The first position from pos on with a character of s, or behind the last.
NextOf(s, pos) == Min({Len(source) + 1} \cup {p \in pos .. Len(source) : source[p] \in s})

newLex == [bytepos |-> 1, curindent |-> 0, newindent |-> 0,
           newline |-> FALSE, newprogram |-> TRUE, insertSemi |-> FALSE, undentcont |-> FALSE]

\* Two kinds of sources are not read rightly: those that end, without a newline, in a line that has no token and is
\* indented deeper than the last one that has; and those with a line that has none but a backslash, and is indented less
\* than the last one that has.
Regular(ls, final) ==
  /\ "tail" \in Irregular \/ final \/ Tokens(Last(ls)) # <<>> \/ Last(ls).cont \/ Last(ls).tabs <= Read(ls).level
  /\ "backslash" \in Irregular
     \/ \A i \in DOMAIN ls : ls[i].cont /\ Tokens(ls[i]) = <<>> => ls[i].tabs >= Read(SubSeq(ls, 1, i)).level

\* The tabs of the first line do not count, and it goes on with no other.
Layouts == {l \in [tabs : 0 .. MaxTabs, cont : BOOLEAN, text : Texts \cup ContTexts] :
              l.text \in IF l.cont THEN ContTexts ELSE Texts}
Lasts   == Layouts \cup [tabs : 0 .. MaxTabs, cont : {FALSE}, text : LastTexts]
Init ==
  /\ \E n \in 0 .. MaxLines - 1, l \in Lasts, final \in BOOLEAN :
     \E begun \in [1 .. n -> Layouts] : LET ls == Append(begun, l) IN
       /\ ls[1].tabs = 0 /\ ~ls[1].cont /\ (l.text \in LastTexts => ~final) /\ Regular(ls, final)
       /\ source = Source(ls, final) /\ meaning = Meaning(ls, final)
  /\ lex = newLex /\ out = <<>>

chr == At(lex.bytepos)
Now(l, tokens) == lex' = l /\ out' = out \o tokens /\ UNCHANGED <<source, meaning>>
Goto(pos)      == Now([lex EXCEPT !.bytepos = pos], <<>>)

\* After an implied closing brace.
InsertSemi == lex.insertSemi /\ Now([lex EXCEPT !.insertSemi = FALSE], <<";">>)

\* One turn of the loop over white space.
SkipSpace == ~lex.insertSemi /\ chr \in {" ", "tab"} /\ Goto(lex.bytepos + 1)
\* A slip: an indented line that goes on with the one before counts as a block.
NewLineDeeper ==
  /\ ~lex.insertSemi /\ chr = "nl"
  /\ LET at == Min({p \in lex.bytepos + 1 .. Len(source) + 1 : At(p) # "tab"})
         l == [lex EXCEPT !.newline = (At(at) # "\\"), !.newindent = at - lex.bytepos - 1, !.bytepos = at]
     IN Now(IF At(at) = "\\" THEN [l EXCEPT !.bytepos = at + 1] ELSE l, <<>>)
NewLine ==
  /\ ~lex.insertSemi /\ chr = "nl"
  /\ LET at == Min({p \in lex.bytepos + 1 .. Len(source) + 1 : At(p) # "tab"})
         tabs == at - lex.bytepos - 1
         l == [lex EXCEPT !.newline = TRUE, !.newindent = tabs, !.bytepos = at]
     IN Now(IF At(at) # "\\" THEN l
            ELSE IF tabs < lex.curindent THEN [l EXCEPT !.undentcont = TRUE, !.bytepos = at + 1]
            ELSE [l EXCEPT !.newline = FALSE, !.newindent = lex.curindent, !.bytepos = at + 1], <<>>)
SkipComment == ~lex.insertSemi /\ chr = "#" /\ Goto(NextOf({"nl"}, lex.bytepos))
\* A slip: a comment that is not closed is tried again.
SkipLongForever ==
  ~lex.insertSemi /\ chr = "###"
  /\ LET end == NextOf({"###"}, lex.bytepos + 1) IN Goto(IF end <= Len(source) THEN end + 1 ELSE lex.bytepos)
SkipLong ==
  ~lex.insertSemi /\ chr = "###"
  /\ LET end == NextOf({"###"}, lex.bytepos + 1) IN Goto(IF end <= Len(source) THEN end + 1 ELSE end)

\* Then the next character begins a token, or is the end of the source. The first one ends no statement.
Scanned == ~lex.insertSemi /\ chr \in {"x", "\\", "eof"} /\ "eof" \notin ToSet(out)
OpenBrace ==
  /\ Scanned /\ lex.newindent > lex.curindent
  /\ Now([lex EXCEPT !.curindent = @ + 1, !.newline = FALSE], <<"{">>)
EndStatement ==
  /\ Scanned /\ lex.newindent <= lex.curindent /\ lex.newline /\ ~lex.newprogram
  /\ Now([lex EXCEPT !.newline = FALSE], <<";">>)
Flushed == [lex EXCEPT !.newprogram = FALSE, !.newline = FALSE, !.newindent = IF chr = "eof" THEN 0 ELSE @]
Within  == Scanned /\ lex.newindent <= lex.curindent /\ (lex.newline => lex.newprogram)
CloseBrace ==
  LET l == [Flushed EXCEPT !.curindent = @ - 1] IN
  /\ Within /\ Flushed.newindent < lex.curindent
  /\ Now(IF l.undentcont /\ l.newindent = l.curindent THEN [l EXCEPT !.undentcont = FALSE]
         ELSE [l EXCEPT !.insertSemi = TRUE], <<"}">>)
Token ==
  /\ Within /\ Flushed.newindent = lex.curindent
  /\ Now(IF chr = "eof" THEN Flushed ELSE [Flushed EXCEPT !.bytepos = @ + 1], <<chr>>)

Next == \/ InsertSemi \/ SkipSpace \/ NewLine \/ SkipComment \/ SkipLong
        \/ OpenBrace \/ EndStatement \/ CloseBrace \/ Token
Spec == Init /\ [][Next]_vars
\* The parser asks for tokens until it gets the end of the source (acn_parser.cpp:875).
FairSpec == Spec /\ WF_vars(Next)
------------------------------------------------------------------------------
Count(t) == Cardinality({k \in DOMAIN out : out[k] = t})

\* The level of indentation, which is unsigned, is the number of braces that are open.
TypeOK ==
  /\ lex.curindent \in Nat /\ lex.newindent \in 0 .. MaxTabs
  /\ lex.curindent = Count("{") - Count("}")
  /\ lex.bytepos \in 1 .. Len(source) + 1

\* The tokens that were delivered are the first ones of what the source means, however its lines are mixed with blank
\* ones, comments and lines that go on with others; at the end they are all of them, so that all blocks are closed.
OffsideRule == TypeOK /\ IsPrefix(out, meaning) /\ ("eof" \in ToSet(out) => out = meaning)

\* Every source ends.
Ends == <>("eof" \in ToSet(out))
==============================================================================
