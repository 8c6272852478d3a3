------------------------------- MODULE MCLexer -------------------------------
(***************************************************************************)
(* Files for Lexer: every text up to a length over each of four alphabets, *)
(* one for each part of the scanner.                                       *)
(***************************************************************************)
EXTENDS Lexer

UpTo(n, chars) == UNION {[1..k -> chars] : k \in 0..n}

Integrals == UpTo(5, {"0", "1", "8", "x", "a", "f"})
Reals     == UpTo(5, {"1", ".", "e", "+", "f"})
Comments  == UpTo(6, {"/", "*", "\n", "g", NUL})
Signs     == UpTo(3, {"=", "&", "!", "+", "#", "i", "f", "a", "8", " ", "."})

SmallTexts == Integrals \cup Reals \cup Comments \cup Signs

IfOnly == [w \in {<<"i", "f">>} |-> "IF"]
=============================================================================
