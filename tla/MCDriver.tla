------------------------------- MODULE MCDriver -------------------------------
(***************************************************************************)
(* Command lines for Driver, and the token streams of MCParser.            *)
(***************************************************************************)
EXTENDS Driver

UpTo2 == {<<>>} \cup {<<w>> : w \in ArgWords} \cup (ArgWords \X ArgWords)

Toks(kinds) == {Tok(k) : k \in kinds}
FewNames    == {"a", "f"} \cup {JunkName}
NoTokens    == <<>>

\* int f ( int a ) {   - then statements.
BodyPrefix ==
  <<Tok("INT"), Ident("f"), Tok("L_PAREN"), Tok("INT"), Ident("a"), Tok("R_PAREN"), Tok("L_BRACE")>>
StmtAlphabet ==
  Toks({"INT", "IF", "ELSE", "RETURN", "BREAK", "L_BRACE", "R_BRACE", "L_PAREN", "R_PAREN",
        "ASSIGN", "SEMICOLON"}) \cup {Ident("a")}
=============================================================================
