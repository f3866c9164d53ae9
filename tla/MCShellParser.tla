--------------------------- MODULE MCShellParser ---------------------------
(* Every line of up to six tokens: a word and each symbol.                 *)
EXTENDS ShellParser

Alphabet == {"word", "<", ">", ">>", "|", "&"}
AllLines == UNION {[1 .. n -> Alphabet] : n \in 0 .. 6}
=============================================================================
