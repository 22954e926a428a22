----------------------------- MODULE MCLexIndent -----------------------------
(***************************************************************************)
(* Instances of LexIndent for TLC.                                         *)
(***************************************************************************)
EXTENDS LexIndent

\* A token, nothing, a comment, a token after a space and a comment over two lines.
MCTexts     == {<<"x">>, <<>>, <<"#", "c">>, <<" ", "###", "nl", "tab", "c", "###", "tab", "x">>}
MCContTexts == {<<"x">>, <<"#">>}
\* A comment that is not closed.
MCLastTexts == {<<"###", "c">>}
==============================================================================
