------------------------------- MODULE Tokens --------------------------------
(***************************************************************************)
(* Token kinds (src/include/token.def) and the tables of src/src/parser.c  *)
(* that classify them.  A token is its kind and the value the lexer gave   *)
(* it: the name of an identifier, the value of an integer literal.         *)
(***************************************************************************)
EXTENDS Types

TypeWords == {"INT", "FLOAT", "DOUBLE", "BOOL", "VOID"}

Literals == {"LIT_INT", "LIT_FLOAT", "LIT_DOUBLE", "TRUE", "FALSE"}

token_to_type(k) ==
  CASE k = "INT"    -> ty_int
    [] k = "FLOAT"  -> ty_float
    [] k = "DOUBLE" -> ty_double
    [] k = "BOOL"   -> ty_bool
    [] k = "VOID"   -> ty_void
    [] OTHER        -> NullType

LiteralType(k) ==
  CASE k = "LIT_INT"    -> ty_int
    [] k = "LIT_FLOAT"  -> ty_float
    [] k = "LIT_DOUBLE" -> ty_double
    [] OTHER            -> ty_bool

\* Where synchronize stops skipping.
SyncKinds == TypeWords \cup {"IF", "WHILE", "RETURN", "CONST"}

DeclStart == TypeWords \cup {"CONST"}

\* is_stmt_start, the same list in parse_block and parse_func.
StmtStart == Literals \cup
  {"IF", "WHILE", "RETURN", "BREAK", "CONTINUE", "L_BRACE", "IDENT", "L_PAREN",
   "PLUS", "MINUS", "LOG_NOT"}

PrefixOps == {"PLUS", "MINUS", "LOG_NOT"}

Arithmetic == {"STAR", "SLASH", "PLUS", "MINUS"}
Comparison == {"LT", "LE", "GT", "GE", "EQ", "NEQ"}
Logical    == {"LOG_AND", "LOG_OR"}

\* What the keyword map knows.
Keywords ==
  TypeWords \cup {"CONST", "IF", "ELSE", "WHILE", "BREAK", "CONTINUE", "RETURN", "TRUE", "FALSE"}

\* Every kind the parser can be handed; ERROR tokens never leave advance.
TokenKinds ==
  TypeWords \cup Literals \cup PrefixOps \cup Arithmetic \cup Comparison \cup Logical
    \cup {"EOF", "IDENT", "CONST", "IF", "ELSE", "WHILE", "BREAK", "CONTINUE", "RETURN",
          "PERCENT", "L_PAREN", "R_PAREN", "L_BRACE", "R_BRACE", "L_BRACKET", "R_BRACKET",
          "ASSIGN", "SEMICOLON", "COMMA"}

\* Binding power of a binary operator, -1 for any other token.
get_prec(k) ==
  CASE k \in {"STAR", "SLASH", "PERCENT"} -> 10
    [] k \in {"PLUS", "MINUS"}            -> 9
    [] k \in {"LT", "LE", "GT", "GE"}     -> 8
    [] k \in {"EQ", "NEQ"}                -> 7
    [] k = "LOG_AND"                      -> 5
    [] k = "LOG_OR"                       -> 4
    [] OTHER                              -> -1
=============================================================================
