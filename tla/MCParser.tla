------------------------------- MODULE MCParser -------------------------------
(***************************************************************************)
(* Token streams for Parser: a fixed beginning that puts the parser in the *)
(* part of the grammar a run is about, then every continuation of up to    *)
(* FreeTokens tokens over that run's alphabet.                             *)
(***************************************************************************)
EXTENDS Parser

Toks(kinds) == {Tok(k) : k \in kinds}

FewNames   == {"a", "f", "print_int"} \cup {JunkName}
NoTokens   == <<>>

\* Global declarations and functions, of one name.
OneName == {"a"} \cup {JunkName}
DeclAlphabet ==
  Toks({"INT", "CONST", "COMMA", "ASSIGN", "L_PAREN", "R_PAREN", "L_BRACE", "R_BRACE",
        "L_BRACKET", "R_BRACKET", "SEMICOLON"}) \cup {Ident("a"), IntLit(2)}

\* int f (   - what functions begin with.
FuncPrefix == <<Tok("INT"), Ident("f"), Tok("L_PAREN")>>

\* int f ( int a ) {   - statements.
BodyPrefix == FuncPrefix \o <<Tok("INT"), Ident("a"), Tok("R_PAREN"), Tok("L_BRACE")>>
StmtAlphabet ==
  Toks({"INT", "IF", "ELSE", "WHILE", "RETURN", "BREAK", "L_BRACE", "R_BRACE", "L_PAREN", "R_PAREN",
        "ASSIGN", "SEMICOLON"}) \cup {Ident("a")}

\* The types that these can give a name.
StmtNames == {"a", "f"} \cup {JunkName}
StmtTypes == {ty_int, NullType} \cup {type_func_new(ty_int, n) : n \in StmtNames}

\* int f ( int a [ 2 ] ) { ! a ; 1 % 2 ; f ( a , 1 ) ;   - expressions.
ExprPrefix == FuncPrefix \o
  <<Tok("INT"), Ident("a"), Tok("L_BRACKET"), IntLit(2), Tok("R_BRACKET"), Tok("R_PAREN"),
    Tok("L_BRACE"),
    Tok("LOG_NOT"), Ident("a"), Tok("SEMICOLON"), IntLit(1), Tok("PERCENT"), IntLit(2), Tok("SEMICOLON"),
    Ident("f"), Tok("L_PAREN"), Ident("a"), Tok("COMMA"), IntLit(1), Tok("R_PAREN"),
    Tok("SEMICOLON")>>
ExprNames == FewNames \cup {"x"}
ExprAlphabet ==
  Toks({"PLUS", "MINUS", "EQ", "L_PAREN", "R_PAREN", "L_BRACKET", "R_BRACKET", "ASSIGN",
        "SEMICOLON"}) \cup {Ident("a"), Ident("f"), Ident("x"), IntLit(1)}

\* tests/samples/19_false_val_init.cact from its second line on.
SampleNames == {"b", "c", "main"} \cup {JunkName}
SampleTokens ==
  <<Tok("CONST"), Tok("INT"), Ident("b"), Tok("ASSIGN"), IntLit(3), Tok("SEMICOLON"),
    Tok("INT"), Ident("main"), Tok("L_PAREN"), Tok("R_PAREN"), Tok("L_BRACE"),
    Tok("INT"), Ident("c"), Tok("ASSIGN"), Ident("b"), Tok("SEMICOLON"),
    Tok("RETURN"), Ident("c"), Tok("SEMICOLON"), Tok("R_BRACE")>>
NoAlphabet == {}
=============================================================================
