----------------------------- MODULE MCTcpSession -----------------------------
(* TcpSession for TLC: a few scripts, next to a second client. *)
EXTENDS TcpSession

CONSTANTS c1, q, w, r   \* two words and a '\r'

QuitLines == {<<q>>, <<q, w>>}

\* A word and a '\r'; two lines, QUIT the second, and a word after it, in one
\* chunk or several; nothing; a blank line.
Scripts == { <<w, r, NL>>, <<w, NL, q, NL, w>>, <<>>, <<NL, w, NL>> }

\* The first connection says one of these, the other a word.
Talk == [c \in Conns |-> IF c = c1 THEN Scripts ELSE {<<w, NL>>}]
=============================================================================
