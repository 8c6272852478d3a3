-------------------------------- MODULE Parser --------------------------------
(***************************************************************************)
(* The recursive descent parser of src/src/parser.c with panic-mode        *)
(* recovery, calling the scopes and the checks of Sema.tla as it goes.     *)
(*                                                                         *)
(* The C call stack is the variable stack: a frame per active function,    *)
(* with the point it resumes at (field at) and the locals still needed; a  *)
(* function and the one it ends in (return parse_binary(p, 0)) share one.  *)
(* ret is the value the last return handed back, NullNode otherwise.  An   *)
(* action runs from one such point to the next and takes at most one token *)
(* from the lexer.  Nodes already linked into the tree are not kept.       *)
(***************************************************************************)
EXTENDS Sema

CONSTANTS JunkName,    \* what a token's value union reads as a name when the
                       \* lexer stored nothing in it (symbol id 0)
          Prefix,      \* the token stream: these tokens, ...
          Alphabet,    \* ... then any of these (or the end of the file), ...
          FreeTokens,  \* ... at most this many times, then the end of the file
          LexErrors,   \* can a call of lexer_next skip an invalid character
          Garbage      \* what an uninitialized pointer may hold, see ReturnVoid

TokenType == [kind : {"IDENT"}, name : Names, len : Int]
      \cup [kind : TokenKinds \ {"IDENT"}, name : {NoName}, len : Int]

ASSUME ParserAssumption ==
  /\ JunkName \in Names /\ NoName \notin Names
  /\ FreeTokens \in Nat /\ Prefix \in Seq(TokenType) /\ Alphabet \subseteq TokenType
  /\ LexErrors \subseteq BOOLEAN /\ LexErrors # {}
  /\ Garbage \subseteq {"null", "typed", "wild"} /\ Garbage # {}

VARIABLES curr, prev,   \* the two tokens the parser holds
          fed,          \* how many tokens before the end of file it has read
          panic_mode,   \* p->panic_mode
          stack, ret,   \* the call stack and the returned value
          globals,      \* how many top-level nodes have been collected
          status        \* "run", "done" (parser_parse returned), "crashed"

lexVars == <<curr, prev, fed>>
vars == <<lexVars, panic_mode, stack, ret, globals, status, ctx, semaVars>>

Tok(k) == [kind |-> k, name |-> NoName, len |-> 0]
Ident(n) == [kind |-> "IDENT", name |-> n, len |-> 0]
IntLit(v) == [kind |-> "LIT_INT", name |-> NoName, len |-> v]

-----------------------------------------------------------------------------
(* Control: where the parser is, calls and returns.                        *)

Top   == Last(stack)
At(l) == status = "run" /\ Top.at = l

Frame(l) == [at |-> l]

\* Nothing but the stack, the tokens and the reporter changes.
Pure == UNCHANGED <<semaVars, globals, status>>

Resume(f, v) == stack' = Append(Front(stack), f) /\ ret' = v
Goto(f)      == Resume(f, NullNode)
Call(f, g)   == stack' = Append(Append(Front(stack), f), g) /\ ret' = NullNode
Return(v)    == stack' = Front(stack) /\ ret' = v

\* Calls of parse_expr, parse_assign and parse_stmt that come back to f.
CallExpr(f)   == Call(f, [at |-> "binary", prec |-> 0])
CallAssign(f) == Call(f, Frame("assign"))
CallStmt(f)   == Call(f, Frame("stmt"))

\* A NULL (or wild) dereference: the process dies with whatever it had reported.
Die == status' = "crashed" /\ UNCHANGED <<stack, ret, globals, semaVars>>

-----------------------------------------------------------------------------
(* Tokens and diagnostics (parser.c:28-98).                                *)

Kind == curr.kind

\* The tokens lexer_next may return now; at the end of the file always EOF.
Upcoming ==
  IF Kind = "EOF" THEN {Tok("EOF")}
  ELSE IF fed < Len(Prefix) THEN {Prefix[fed + 1]}
  ELSE IF fed < Len(Prefix) + FreeTokens THEN Alphabet \cup {Tok("EOF")}
  ELSE {Tok("EOF")}

\* advance, from reporter state c: ERROR tokens are skipped inside, each having
\* reported itself (lexer_error_token); that does not put the parser in panic.
advance(c) ==
  /\ prev' = curr
  /\ \E t \in Upcoming, e \in (IF Kind = "EOF" THEN {FALSE} ELSE LexErrors) :
       /\ curr' = t
       /\ fed' = IF t.kind = "EOF" THEN fed ELSE fed + 1
       /\ ctx' = IF e THEN ctx_error(c) ELSE c

Stay(c) == UNCHANGED lexVars /\ ctx' = c

\* parser_error's effect on the reporter: silent in panic mode.
Reported(c) == IF panic_mode THEN c ELSE ctx_error(c)

parser_error == panic_mode' = TRUE /\ Stay(Reported(ctx))

\* (Definitions named Fault_* are deliberate mistakes: nothing uses them, and
\* each shows that a property notices when it replaces what follows it.)
Fault_SilentPanic(k, bad, c) ==
  /\ panic_mode' = (panic_mode \/ Kind # k \/ bad)
  /\ IF Kind = k THEN advance(c) ELSE Stay(c)

\* consume(k), and parser_error for another reason when bad, from reporter
\* state c.  (In which order a step reports does not show: only the first
\* report of a compilation is ever printed.)
Expect(k, bad, c) ==
  /\ panic_mode' = (panic_mode \/ Kind # k \/ bad)
  /\ LET d == IF Kind # k \/ bad THEN Reported(c) ELSE c IN
     IF Kind = k THEN advance(d) ELSE Stay(d)

consume(k) == Expect(k, FALSE, ctx)

\* match(k) returning true, and returning false.
Match(k) == Kind = k /\ advance(ctx) /\ UNCHANGED panic_mode
Idle     == Stay(ctx) /\ UNCHANGED panic_mode

Crash == Idle /\ Die

\* synchronize: its loop; the caller clears panic_mode on the way in.
Synced == Kind \in SyncKinds \cup {"EOF"} \/ prev.kind = "SEMICOLON"

SyncSkip == /\ At("sync") /\ Pure /\ ~Synced
            /\ advance(ctx) /\ UNCHANGED <<panic_mode, stack, ret>>

SyncEnd == At("sync") /\ Pure /\ Synced /\ Idle /\ Return(NullNode)

-----------------------------------------------------------------------------
(* Expressions (parser.c:140-388).                                         *)

ParseBinary ==
  /\ At("binary") /\ Pure /\ Idle
  /\ Call([at |-> "bin_lhs", prec |-> Top.prec], Frame("unary"))

Fault_SamePrecedence ==
  /\ At("bin_lhs") /\ Pure /\ get_prec(Kind) >= Top.prec
  /\ advance(ctx) /\ UNCHANGED panic_mode
  /\ Call([at |-> "bin_rhs", prec |-> Top.prec, lhs |-> ret, op |-> Kind],
          [at |-> "binary", prec |-> get_prec(Kind)])

\* The operator loop: an operator that binds at least as tightly as prec.
BinaryOperator ==
  /\ At("bin_lhs") /\ Pure /\ get_prec(Kind) >= Top.prec
  /\ advance(ctx) /\ UNCHANGED panic_mode
  /\ Call([at |-> "bin_rhs", prec |-> Top.prec, lhs |-> ret, op |-> Kind],
          [at |-> "binary", prec |-> get_prec(Kind) + 1])

BinaryEnd ==
  At("bin_lhs") /\ Pure /\ get_prec(Kind) < Top.prec /\ Idle /\ Return(ret)

\* Both operands are dereferenced by the analysis, NULL or not.
BinaryBuild ==
  /\ At("bin_rhs") /\ Top.lhs # NullNode /\ ret # NullNode /\ Pure
  /\ LET v == sema_analyze_binary(Top.op, Top.lhs.ty, ret.ty) IN
     /\ Stay(Judge(v, ctx)) /\ UNCHANGED panic_mode
     /\ Resume([at |-> "bin_lhs", prec |-> Top.prec], Node(v.ty))

BinaryNull == At("bin_rhs") /\ (Top.lhs = NullNode \/ ret = NullNode) /\ Crash

ParseAssign ==
  /\ At("assign") /\ Pure /\ Idle
  /\ CallExpr(Frame("asg_lhs"))

AssignOperator ==
  /\ At("asg_lhs") /\ Pure /\ Match("ASSIGN")
  /\ CallAssign([at |-> "asg_rhs", lhs |-> ret])

AssignNone == At("asg_lhs") /\ Pure /\ Kind # "ASSIGN" /\ Idle /\ Return(ret)

AssignBuild ==
  /\ At("asg_rhs") /\ Top.lhs # NullNode /\ ret # NullNode /\ Pure
  /\ LET v == sema_analyze_assign(Top.lhs, ret) IN
     Stay(Judge(v, ctx)) /\ UNCHANGED panic_mode /\ Return(Node(v.ty))

AssignNull == At("asg_rhs") /\ (Top.lhs = NullNode \/ ret = NullNode) /\ Crash

\* parse_unary: a prefix operator.
UnaryOperator ==
  /\ At("unary") /\ Pure /\ Kind \in PrefixOps
  /\ advance(ctx) /\ UNCHANGED panic_mode
  /\ Call(Frame(CASE Kind = "PLUS"    -> "plus"
                  [] Kind = "MINUS"   -> "neg"
                  [] Kind = "LOG_NOT" -> "not"), Frame("unary"))

\* '+' leaves no node.  A '-' node takes the operand's type, and keeps NULL when
\* there is none.
UnaryBuild ==
  \/ At("plus") /\ Pure /\ Idle /\ Return(ret)
  \/ At("neg") /\ Pure /\ Idle /\ Return(Node(ret.ty))
  \/ At("not") /\ Pure /\ Idle /\ Return(Node(ty_bool))

PrimaryLiteral ==
  /\ At("unary") /\ Pure /\ Kind \in Literals
  /\ advance(ctx) /\ UNCHANGED panic_mode /\ Return(Node(LiteralType(Kind)))

Fault_ParenNotConsumed ==
  /\ At("unary") /\ Pure /\ Kind = "L_PAREN" /\ Idle
  /\ CallExpr(Frame("paren"))

PrimaryParen ==
  /\ At("unary") /\ Pure /\ Match("L_PAREN")
  /\ CallExpr(Frame("paren"))

ParenClose == At("paren") /\ Pure /\ consume("R_PAREN") /\ Return(ret)

PrimaryIdent ==
  /\ At("unary") /\ Pure /\ Match("IDENT")
  /\ Goto([at |-> "ident", name |-> curr.name])

Fault_SilentNull ==
  /\ At("unary") /\ Pure
  /\ Kind \notin PrefixOps \cup Literals \cup {"L_PAREN", "IDENT"}
  /\ Idle /\ Return(NullNode)

PrimaryNone ==
  /\ At("unary") /\ Pure
  /\ Kind \notin PrefixOps \cup Literals \cup {"L_PAREN", "IDENT"}
  /\ parser_error /\ Return(NullNode)

\* name '(': the callee is looked up now and its type read after the arguments.
CallOpen ==
  /\ At("ident") /\ Pure /\ Kind = "L_PAREN"
  /\ Expect("L_PAREN", sema_lookup(Top.name) = Unbound, ctx)
  /\ Goto([at |-> "args", callee |-> sema_lookup(Top.name)])

ArgFirst ==
  /\ At("args") /\ Pure /\ Kind # "R_PAREN" /\ Idle
  /\ CallAssign([Top EXCEPT !.at = "args_more"])

ArgNext ==
  /\ At("args_more") /\ Pure /\ Match("COMMA")
  /\ CallAssign(Top)

AtArgsEnd == \/ At("args") /\ Kind = "R_PAREN"
             \/ At("args_more") /\ Kind # "COMMA"

\* A callee with no type is a parameter whose type was missing.
Typeless(sym) == sym # Unbound /\ sym.ty = NullType

CallClose ==
  /\ AtArgsEnd /\ Pure /\ ~Typeless(Top.callee)
  /\ consume("R_PAREN")
  /\ LET sym == Top.callee IN
     Return(Node(IF sym # Unbound /\ TypeKind(sym.ty) = "FUNC"
                 THEN ReturnType(sym.ty) ELSE ty_int))

CallTypeless ==
  AtArgsEnd /\ Typeless(Top.callee) /\ consume("R_PAREN") /\ Die

Fault_UndefinedUntyped ==
  /\ At("ident") /\ Pure /\ Kind # "L_PAREN" /\ Idle
  /\ LET sym == sema_lookup(Top.name) IN
     Resume(Frame("index"), IF sym = Unbound THEN Node(NullType) ELSE VarNode(sym))

\* An undefined variable is reported and goes on as an int.
Variable ==
  /\ At("ident") /\ Pure /\ Kind # "L_PAREN"
  /\ LET sym == sema_lookup(Top.name) IN
     IF sym = Unbound
     THEN /\ parser_error
          /\ Resume(Frame("index"), [Node(ty_int) EXCEPT !.kind = "ND_VAR"])
     ELSE Idle /\ Resume(Frame("index"), VarNode(sym))

IndexOpen ==
  /\ At("index") /\ Pure /\ Match("L_BRACKET")
  /\ CallExpr([at |-> "index_close", base |-> ret])

IndexEnd == At("index") /\ Pure /\ Kind # "L_BRACKET" /\ Idle /\ Return(ret)

\* The index expression itself is not examined.
IndexClose ==
  /\ At("index_close") /\ Pure
  /\ LET isArray == TypeKind(Top.base.ty) = "ARRAY" IN
     /\ Expect("R_BRACKET", ~isArray, ctx)
     /\ Resume(Frame("index"),
               Node(IF isArray THEN ElementType(Top.base.ty) ELSE ty_int))

-----------------------------------------------------------------------------
(* Statements (parser.c:399-537).  Their nodes only go into statement      *)
(* lists, so what they return is not kept.                                 *)

\* The frame of a block: of a block statement, or of a function's body.
BlockFrame == Frame("block")

BlockOpen ==
  /\ At("block_open") /\ consume("L_BRACE") /\ sema_scope_enter
  /\ Goto(BlockFrame)
  /\ UNCHANGED <<funcRet, params, globals, status>>

AtBlock == At("block") \/ At("body")

InBlock == AtBlock /\ Kind \notin {"R_BRACE", "EOF"}

\* Inside a block panic mode ends here, and nowhere else.
BlockSync ==
  /\ InBlock /\ panic_mode /\ Pure
  /\ panic_mode' = FALSE /\ Stay(ctx) /\ Call(Top, Frame("sync"))

Fault_SkipNothing ==
  /\ InBlock /\ ~panic_mode /\ Kind \notin DeclStart \cup StmtStart /\ Pure
  /\ parser_error /\ UNCHANGED <<stack, ret>>

BlockSkip ==
  /\ InBlock /\ ~panic_mode /\ Kind \notin DeclStart \cup StmtStart /\ Pure
  /\ panic_mode' = TRUE /\ advance(Reported(ctx)) /\ UNCHANGED <<stack, ret>>

BlockDecl ==
  /\ InBlock /\ ~panic_mode /\ Kind \in DeclStart /\ Pure /\ Idle
  /\ Call(Top, [at |-> "decl", top |-> FALSE])

BlockStmt ==
  /\ InBlock /\ ~panic_mode /\ Kind \in StmtStart /\ Pure /\ Idle
  /\ CallStmt(Top)

Fault_LeaveOnBraceOnly ==
  /\ At("block") /\ Kind \in {"R_BRACE", "EOF"}
  /\ scopes' = IF Kind = "R_BRACE" THEN Front(scopes) ELSE scopes
  /\ consume("R_BRACE") /\ Return(NullNode)
  /\ UNCHANGED <<funcRet, params, globals, status>>

BlockEnd ==
  /\ At("block") /\ Kind \in {"R_BRACE", "EOF"}
  /\ sema_scope_leave /\ consume("R_BRACE") /\ Return(NullNode)
  /\ UNCHANGED <<funcRet, params, globals, status>>

Fault_WordNotConsumed ==
  /\ At("stmt") /\ Pure /\ Kind \in {"IF", "WHILE"} /\ Idle
  /\ Goto([at |-> "cond_open", word |-> Kind])

\* if and while share "( expr ) stmt".
StmtCond ==
  /\ At("stmt") /\ Pure /\ (Match("IF") \/ Match("WHILE"))
  /\ Goto([at |-> "cond_open", word |-> Kind])

CondOpen ==
  /\ At("cond_open") /\ Pure /\ consume("L_PAREN")
  /\ CallExpr([Top EXCEPT !.at = "cond_close"])

\* The node is still there to be completed with the statement's.
CondClose ==
  /\ At("cond_close") /\ Pure /\ consume("R_PAREN")
  /\ CallStmt(Frame(IF Top.word = "IF" THEN "if_else" ELSE "stmt_end"))

StmtElse == At("if_else") /\ Pure /\ Match("ELSE") /\ CallStmt(Frame("stmt_end"))

StmtNoElse == At("if_else") /\ Pure /\ Kind # "ELSE" /\ Idle /\ Return(NullNode)

StmtEnd == At("stmt_end") /\ Pure /\ Idle /\ Return(NullNode)

StmtJump ==
  /\ At("stmt") /\ Pure /\ (Match("BREAK") \/ Match("CONTINUE"))
  /\ Goto(Frame("semi"))

Semicolon == At("semi") /\ Pure /\ consume("SEMICOLON") /\ Return(NullNode)

StmtBlock == At("stmt") /\ Pure /\ Kind = "L_BRACE" /\ Idle /\ Goto(Frame("block_open"))

StmtReturn == At("stmt") /\ Pure /\ Match("RETURN") /\ Goto(Frame("ret_value"))

ReturnValue ==
  /\ At("ret_value") /\ Pure /\ Kind # "SEMICOLON" /\ Idle
  /\ CallExpr(Frame("ret_end"))

\* A value that failed to parse counts as no value.
ReturnEnd ==
  /\ At("ret_end") /\ Pure
  /\ LET v == sema_analyze_return(IF ret = NullNode THEN ty_void ELSE ret.ty) IN
     Expect("SEMICOLON", FALSE, Judge(v, ctx)) /\ Return(NullNode)

\* 'return;' never stores the node's operand, so the analysis reads what the
\* allocation held: NULL if the arena hands out zeroed memory, otherwise a
\* pointer to something with some type, or one that cannot be followed.
ReturnVoid ==
  /\ At("ret_value") /\ Kind = "SEMICOLON"
  /\ \/ /\ "null" \in Garbage /\ Pure
        /\ Expect("SEMICOLON", FALSE, Judge(sema_analyze_return(ty_void), ctx))
        /\ Return(NullNode)
     \/ /\ "typed" \in Garbage /\ Pure
        /\ \E err \in BOOLEAN :
             Expect("SEMICOLON", FALSE, Judge(Verdict(ty_void, err), ctx))
        /\ Return(NullNode)
     \/ "wild" \in Garbage /\ consume("SEMICOLON") /\ Die

StmtExpr ==
  /\ At("stmt") /\ Pure /\ Idle
  /\ Kind \notin {"IF", "WHILE", "RETURN", "BREAK", "CONTINUE", "L_BRACE"}
  /\ CallExpr(Frame("stmt_expr"))

\* An expression that failed to parse ends the statement, without its ';'.
StmtExprNull ==
  At("stmt_expr") /\ ret = NullNode /\ Pure /\ Idle /\ Return(NullNode)

StmtAssign ==
  /\ At("stmt_expr") /\ ret # NullNode /\ Pure /\ Match("ASSIGN")
  /\ CallExpr([at |-> "stmt_rhs", lhs |-> ret])

StmtAssignBuild ==
  /\ At("stmt_rhs") /\ Pure /\ Goto(Frame("semi"))
  /\ IF ret = NullNode THEN parser_error
     ELSE /\ Stay(Judge(sema_analyze_assign(Top.lhs, ret), ctx))
          /\ UNCHANGED panic_mode

StmtExprEnd ==
  /\ At("stmt_expr") /\ ret # NullNode /\ Kind # "ASSIGN" /\ Pure
  /\ consume("SEMICOLON") /\ Return(NullNode)

-----------------------------------------------------------------------------
(* Declarations (parser.c:545-659), shared with the top level (774-800):   *)
(* field top tells parse_top_level's frame from parse_decl's.              *)

DeclConst ==
  /\ At("decl") /\ Pure /\ Match("CONST")
  /\ Goto([at |-> "decl_type", top |-> Top.top, is_const |-> TRUE])

DeclNotConst ==
  /\ At("decl") /\ Pure /\ Kind # "CONST" /\ Idle
  /\ Goto([at |-> "decl_type", top |-> Top.top, is_const |-> FALSE])

DeclType ==
  /\ At("decl_type") /\ Pure /\ Kind \in TypeWords
  /\ advance(ctx) /\ UNCHANGED panic_mode
  /\ Goto([at |-> "decl_name", top |-> Top.top, is_const |-> Top.is_const,
           base |-> token_to_type(Kind)])

\* No type: parse_decl reports; parse_top_level reports and skips the token
\* after a const, and without one leaves both to its caller.
DeclNoType ==
  /\ At("decl_type") /\ Pure /\ Kind \notin TypeWords /\ Return(NullNode)
  /\ IF ~Top.top THEN parser_error
     ELSE IF Top.is_const THEN panic_mode' = TRUE /\ advance(Reported(ctx))
     ELSE Idle

DeclName ==
  /\ At("decl_name") /\ Pure /\ Match("IDENT")
  /\ Goto([at |-> IF Top.top THEN "decl_kind" ELSE "var", base |-> Top.base,
           is_const |-> Top.is_const, name |-> curr.name])

DeclNoName ==
  At("decl_name") /\ Pure /\ Kind # "IDENT" /\ parser_error /\ Return(NullNode)

DeclVars ==
  /\ At("decl_kind") /\ Pure /\ Kind # "L_PAREN" /\ Idle
  /\ Goto([Top EXCEPT !.at = "var"])

\* One declarator: dimensions first, then the name enters the scope.
VarDims ==
  /\ At("var") /\ Pure /\ Idle
  /\ Call([Top EXCEPT !.at = "var_define"], [at |-> "dims", ty |-> Top.base])

VarDefine ==
  /\ At("var_define")
  /\ sema_define_var(Top.name, ret.ty, Top.is_const)
  /\ Stay(DefineDiag(Top.name, ctx))
  /\ Goto([at |-> "var_init", base |-> Top.base, is_const |-> Top.is_const, ty |-> ret.ty])
  /\ UNCHANGED <<funcRet, params, globals, status, panic_mode>>

VarRest == [at |-> "var_next", base |-> Top.base, is_const |-> Top.is_const]

VarAssign == At("var_init") /\ Pure /\ Match("ASSIGN") /\ Goto([Top EXCEPT !.at = "var_value"])

VarNoInit ==
  /\ At("var_init") /\ Pure /\ Kind # "ASSIGN" /\ Goto(VarRest)
  /\ IF Top.is_const THEN parser_error ELSE Idle

VarInitList ==
  At("var_value") /\ Pure /\ Kind = "L_BRACE" /\ Idle /\ Call(VarRest, Frame("init"))

VarInitExpr ==
  /\ At("var_value") /\ Pure /\ Kind # "L_BRACE" /\ Idle
  /\ CallExpr([Top EXCEPT !.at = "var_check"])

VarCheck ==
  /\ At("var_check") /\ Pure /\ Goto(VarRest) /\ UNCHANGED panic_mode
  /\ Stay(Judge(Verdict(ty_void, /\ ret # NullNode
                                 /\ ~type_eq(Top.ty, ret.ty, params)), ctx))

VarComma == At("var_next") /\ Pure /\ Match("COMMA") /\ Goto([Top EXCEPT !.at = "var_name"])

\* The returned block is never NULL, whatever was in it.
VarEnd ==
  /\ At("var_next") /\ Pure /\ Kind # "COMMA"
  /\ consume("SEMICOLON") /\ Return(Node(NullType))

VarName ==
  /\ At("var_name") /\ Pure /\ Match("IDENT")
  /\ Goto([at |-> "var", base |-> Top.base, is_const |-> Top.is_const, name |-> curr.name])

VarNoName ==
  /\ At("var_name") /\ Pure /\ Kind # "IDENT"
  /\ Expect("SEMICOLON", TRUE, ctx) /\ Return(Node(NullType))

\* parse_array_dims: the dimensions are wrapped from left to right.
DimOpen == At("dims") /\ Pure /\ Match("L_BRACKET") /\ Goto([Top EXCEPT !.at = "dim_len"])

DimsEnd == At("dims") /\ Pure /\ Kind # "L_BRACKET" /\ Idle /\ Return(Node(Top.ty))

DimLen ==
  /\ At("dim_len") /\ Pure /\ Match("LIT_INT")
  /\ Goto([at |-> "dim_close", ty |-> Top.ty, len |-> curr.len])

DimNoLen ==
  /\ At("dim_len") /\ Pure /\ Kind # "LIT_INT"
  /\ panic_mode' = TRUE /\ Goto([Top EXCEPT !.at = "dims"])
  /\ IF Kind = "R_BRACKET" THEN advance(Reported(ctx)) ELSE Stay(Reported(ctx))

DimClose ==
  /\ At("dim_close") /\ Top.ty # NullType /\ Pure
  /\ consume("R_BRACKET")
  /\ Goto([at |-> "dims", ty |-> type_array_of(Top.ty, Top.len)])

\* type_array_of reads the size of its base.
DimNull ==
  At("dim_close") /\ Top.ty = NullType /\ consume("R_BRACKET") /\ Die

Fault_BraceNotConsumed == At("init") /\ Pure /\ Idle /\ Goto(Frame("init_first"))

\* parse_initializer_list; its elements are not compared with the declared type.
InitOpen == At("init") /\ Pure /\ consume("L_BRACE") /\ Goto(Frame("init_first"))

InitEmpty == At("init_first") /\ Pure /\ Match("R_BRACE") /\ Return(Node(NullType))

InitElem ==
  /\ Pure /\ Idle
  /\ (At("init_first") /\ Kind # "R_BRACE") \/ At("init_elem")
  /\ IF Kind = "L_BRACE" THEN Call(Frame("init_more"), Frame("init"))
                         ELSE CallAssign(Frame("init_more"))

InitComma == At("init_more") /\ Pure /\ Match("COMMA") /\ Goto(Frame("init_elem"))

InitClose ==
  /\ At("init_more") /\ Pure /\ Kind # "COMMA"
  /\ consume("R_BRACE") /\ Return(Node(NullType))

-----------------------------------------------------------------------------
(* Functions (parser.c:661-772).                                           *)

\* The name enters the enclosing scope, so that the body can call it; the
\* frame remembers whether the symbol got this function's type, which the
\* parameters are pushed to, or kept an earlier declaration's.
FuncOpen ==
  /\ At("decl_kind") /\ Kind = "L_PAREN"
  /\ sema_define_var(Top.name, type_func_new(Top.base, Top.name), FALSE)
  /\ Expect("L_PAREN", FALSE, DefineDiag(Top.name, ctx))
  /\ Goto([at |-> "func_enter", func |-> Top.name, own |-> ~Redefined(Top.name),
           rty |-> Top.base])
  /\ UNCHANGED <<funcRet, params, globals, status>>

Fault_RecordFunction ==
  /\ At("func_enter") /\ Idle
  /\ funcRet' = type_func_new(Top.rty, Top.func) /\ sema_scope_enter
  /\ Goto([Top EXCEPT !.at = "params"])
  /\ UNCHANGED <<params, globals, status>>

FuncEnter ==
  /\ At("func_enter") /\ Idle
  /\ funcRet' = Top.rty /\ sema_scope_enter
  /\ Goto([Top EXCEPT !.at = "params"])
  /\ UNCHANGED <<params, globals, status>>

\* The frame of a function between its parameters: no parameter's locals.
FuncFrame(l) == [at |-> l, func |-> Top.func, own |-> Top.own, rty |-> Top.rty]
ParamFrame(l, ty, name) ==
  [at |-> l, func |-> Top.func, own |-> Top.own, rty |-> Top.rty, ty |-> ty, name |-> name]

Fault_SilentParamType ==
  /\ At("param") \/ (At("params") /\ Kind # "R_PAREN")
  /\ Pure /\ advance(ctx) /\ UNCHANGED panic_mode
  /\ Goto(ParamFrame("param_name", token_to_type(Kind), NoName))

\* The type word, or whatever stands in its place, is skipped either way.
ParamType ==
  /\ At("param") \/ (At("params") /\ Kind # "R_PAREN")
  /\ Pure
  /\ LET bad == Kind \notin TypeWords IN
     /\ panic_mode' = (panic_mode \/ bad)
     /\ advance(IF bad THEN Reported(ctx) ELSE ctx)
  /\ Goto(ParamFrame("param_name", token_to_type(Kind), NoName))

\* Whatever p->prev.value holds when read as a name: the union of an integer,
\* float or double literal can read as any name.
PunnedNames(t) == CASE t.kind = "IDENT" -> {t.name}
                    [] t.kind \in {"LIT_INT", "LIT_FLOAT", "LIT_DOUBLE"} -> Names
                    [] OTHER -> {JunkName}

\* The name is read from the previous token even when consume did not take it.
ParamName ==
  /\ At("param_name") /\ Pure /\ consume("IDENT")
  /\ \E n \in PunnedNames(IF Kind = "IDENT" THEN curr ELSE prev) :
       Goto(ParamFrame("param_dims", Top.ty, n))

ParamArray ==
  /\ At("param_dims") /\ Pure /\ Match("L_BRACKET")
  /\ Goto([Top EXCEPT !.at = "param_len"])

ParamScalar ==
  /\ At("param_dims") /\ Pure /\ Kind # "L_BRACKET" /\ Idle
  /\ Resume([Top EXCEPT !.at = "param_define"], Node(Top.ty))

\* The remaining dimensions of a parameter wrapped once already.
ParamDims(ty) == Call([Top EXCEPT !.at = "param_define"], [at |-> "dims", ty |-> ty])

ParamOpenArray ==
  /\ At("param_len") /\ Top.ty # NullType /\ Pure /\ Match("R_BRACKET")
  /\ ParamDims(type_array_of(Top.ty, 0))

ParamLen ==
  /\ At("param_len") /\ Pure /\ Match("LIT_INT")
  /\ Goto([at |-> "param_close", func |-> Top.func, own |-> Top.own, rty |-> Top.rty,
           ty |-> Top.ty, name |-> Top.name, len |-> curr.len])

\* The offending token stays where it is; its ']' is not skipped.
ParamNoLen ==
  /\ At("param_len") /\ Pure /\ Kind \notin {"R_BRACKET", "LIT_INT"}
  /\ parser_error /\ ParamDims(Top.ty)

ParamClose ==
  /\ At("param_close") /\ Top.ty # NullType /\ Pure /\ consume("R_BRACKET")
  /\ LET f == ParamFrame("param_define", Top.ty, Top.name) IN
     Call(f, [at |-> "dims", ty |-> type_array_of(Top.ty, Top.len)])

ParamNull ==
  /\ At("param_close") \/ (At("param_len") /\ Kind = "R_BRACKET")
  /\ Top.ty = NullType /\ consume("R_BRACKET") /\ Die

ParamDefine ==
  /\ At("param_define")
  /\ sema_define_var(Top.name, ret.ty, FALSE)
  /\ params' = IF Top.own THEN [params EXCEPT ![Top.func] = Append(@, ret.ty)] ELSE params
  /\ Stay(DefineDiag(Top.name, ctx))
  /\ Goto(FuncFrame("param_next"))
  /\ UNCHANGED <<panic_mode, funcRet, globals, status>>

ParamComma == At("param_next") /\ Pure /\ Match("COMMA") /\ Goto(FuncFrame("param"))

ParamsEnd ==
  /\ (At("params") /\ Kind = "R_PAREN") \/ (At("param_next") /\ Kind # "COMMA")
  /\ Pure /\ consume("R_PAREN") /\ Goto(FuncFrame("body_open"))

BodyOpen == At("body_open") /\ Pure /\ consume("L_BRACE") /\ Goto([Top EXCEPT !.at = "body"])

Fault_KeepFuncRet ==
  /\ At("body") /\ Kind \in {"R_BRACE", "EOF"}
  /\ consume("R_BRACE") /\ sema_scope_leave /\ UNCHANGED funcRet
  /\ Return(Node(NullType)) /\ UNCHANGED <<params, globals, status>>

Fault_LeakOnEof ==
  /\ At("body") /\ Kind \in {"R_BRACE", "EOF"}
  /\ consume("R_BRACE") /\ funcRet' = NullType
  /\ scopes' = IF Kind = "R_BRACE" THEN Front(scopes) ELSE scopes
  /\ Return(Node(NullType)) /\ UNCHANGED <<params, globals, status>>

BodyEnd ==
  /\ At("body") /\ Kind \in {"R_BRACE", "EOF"}
  /\ consume("R_BRACE") /\ sema_scope_leave /\ funcRet' = NullType
  /\ Return(Node(NullType)) /\ UNCHANGED <<params, globals, status>>

-----------------------------------------------------------------------------
(* The top level (parser.c:808-879).                                       *)

GlobalNext ==
  /\ At("globals") /\ Kind # "EOF" /\ Pure /\ Idle
  /\ Call(Frame("globals_ret"), [at |-> "decl", top |-> TRUE])

\* A node is collected even when the parser is in panic: nothing resynchronizes.
GlobalKeep ==
  /\ At("globals_ret") /\ ret # NullNode /\ Idle
  /\ globals' = globals + 1 /\ Goto(Frame("globals"))
  /\ UNCHANGED <<semaVars, status>>

\* No node: report unless something was, resynchronize if in panic.
GlobalSync ==
  /\ At("globals_ret") /\ ret = NullNode /\ Pure
  /\ panic_mode \/ ~ctx.had_error
  /\ panic_mode' = FALSE /\ Stay(Reported(ctx))
  /\ Call(Frame("globals_skip"), Frame("sync"))

GlobalNoSync ==
  /\ At("globals_ret") /\ ret = NullNode /\ Pure
  /\ ~panic_mode /\ ctx.had_error /\ Idle /\ Goto(Frame("globals_skip"))

Fault_SkipNoGlobal ==
  /\ At("globals_skip") /\ Pure /\ Goto(Frame("globals")) /\ Idle

GlobalSkip ==
  /\ At("globals_skip") /\ Pure /\ Goto(Frame("globals")) /\ UNCHANGED panic_mode
  /\ IF Kind \in DeclStart \cup {"EOF"} THEN Stay(ctx) ELSE advance(ctx)

\* match(EOF) reads once more; parser_parse closes its scope and returns.
GlobalsEnd ==
  /\ At("globals") /\ Match("EOF") /\ sema_scope_leave
  /\ stack' = <<>> /\ ret' = NullNode /\ status' = "done"
  /\ UNCHANGED <<funcRet, params, globals>>

\* install_builtins: those of the built-in functions whose names are in Names
\* (no token of the instance can mention the others).
Printers == [print_int |-> ty_int, print_float |-> ty_float,
             print_double |-> ty_double, print_bool |-> ty_bool]
Getters == [get_int |-> ty_int, get_float |-> ty_float, get_double |-> ty_double]

BuiltinReturn(n) == IF n \in DOMAIN Printers THEN ty_void ELSE Getters[n]

BuiltinScope ==
  [n \in Names |->
     IF n \in DOMAIN Printers \cup DOMAIN Getters
     THEN [ty |-> type_func_new(BuiltinReturn(n), n), is_const |-> FALSE, is_global |-> TRUE]
     ELSE Unbound]

BuiltinParams ==
  [n \in Names |-> IF n \in DOMAIN Printers THEN <<Printers[n]>> ELSE <<>>]

\* parser_init, then the start of parser_parse.  The first advance copies an
\* uninitialized curr into prev: any kind, of which only ';' matters.
Init ==
  /\ prev \in {Tok("SEMICOLON"), Tok("EOF")}
  /\ curr \in (IF Len(Prefix) > 0 THEN {Prefix[1]}
               ELSE IF FreeTokens > 0 THEN Alphabet \cup {Tok("EOF")} ELSE {Tok("EOF")})
  /\ fed = (IF curr.kind = "EOF" THEN 0 ELSE 1)
  /\ ctx \in {IF e THEN ctx_error(CtxInit) ELSE CtxInit : e \in LexErrors}
  /\ panic_mode = FALSE
  /\ scopes = <<BuiltinScope>> /\ params = BuiltinParams /\ funcRet = NullType
  /\ stack = <<Frame("globals")>> /\ ret = NullNode
  /\ globals = 0 /\ status = "run"

\* main reads the outcome; nothing moves any more.
Stopped == status # "run" /\ UNCHANGED vars

Expressions ==
  \/ ParseBinary \/ BinaryOperator \/ BinaryEnd \/ BinaryBuild \/ BinaryNull
  \/ ParseAssign \/ AssignOperator \/ AssignNone \/ AssignBuild \/ AssignNull
  \/ UnaryOperator \/ UnaryBuild \/ PrimaryLiteral \/ PrimaryParen \/ ParenClose
  \/ PrimaryIdent \/ PrimaryNone \/ CallOpen \/ ArgFirst \/ ArgNext \/ CallClose
  \/ CallTypeless \/ Variable \/ IndexOpen \/ IndexEnd \/ IndexClose

Statements ==
  \/ BlockOpen \/ BlockSync \/ BlockSkip \/ BlockDecl \/ BlockStmt \/ BlockEnd
  \/ StmtCond \/ CondOpen \/ CondClose \/ StmtElse \/ StmtNoElse \/ StmtEnd
  \/ StmtJump \/ Semicolon \/ StmtBlock \/ StmtReturn \/ ReturnValue \/ ReturnEnd \/ ReturnVoid
  \/ StmtExpr \/ StmtExprNull \/ StmtAssign \/ StmtAssignBuild \/ StmtExprEnd

Declarations ==
  \/ DeclConst \/ DeclNotConst \/ DeclType \/ DeclNoType \/ DeclName \/ DeclNoName
  \/ DeclVars \/ VarDims \/ VarDefine \/ VarAssign \/ VarNoInit \/ VarInitList
  \/ VarInitExpr \/ VarCheck \/ VarComma \/ VarEnd \/ VarName \/ VarNoName
  \/ DimOpen \/ DimsEnd \/ DimLen \/ DimNoLen \/ DimClose \/ DimNull
  \/ InitOpen \/ InitEmpty \/ InitElem \/ InitComma \/ InitClose

Functions ==
  \/ FuncOpen \/ FuncEnter \/ ParamType \/ ParamName \/ ParamArray \/ ParamScalar
  \/ ParamOpenArray \/ ParamLen \/ ParamNoLen \/ ParamClose \/ ParamNull
  \/ ParamDefine \/ ParamComma \/ ParamsEnd \/ BodyOpen \/ BodyEnd

TopLevel ==
  \/ GlobalNext \/ GlobalKeep \/ GlobalSync \/ GlobalNoSync \/ GlobalSkip
  \/ GlobalsEnd \/ SyncSkip \/ SyncEnd

Step == Expressions \/ Statements \/ Declarations \/ Functions \/ TopLevel

Next == Step \/ Stopped

\* The parser is one thread that runs until it returns or dies.
Spec == Init /\ [][Next]_vars

-----------------------------------------------------------------------------
(* Properties.                                                             *)

TypeSet == [prim : Primitives \cup {"null"}, dims : Seq(Int), func : Names \cup {NoName}]
NodeSet == [kind : {"EXPR", "ND_VAR", "NULL"}, ty : TypeSet, is_const : BOOLEAN]

\* The types of the variables; what return statements are judged by is a
\* primitive type or nothing, never an array or the function itself.
TypeOK ==
  /\ {curr, prev} \subseteq TokenType /\ fed \in Nat /\ panic_mode \in BOOLEAN
  /\ \A i \in DOMAIN stack : "at" \in DOMAIN stack[i]
  /\ ret \in NodeSet /\ globals \in Nat /\ status \in {"run", "done", "crashed"}
  /\ ScopesTypeOK
  /\ funcRet \in {Primitive(k) : k \in Primitives \cup {"null"}} /\ params \in [Names -> Seq(TypeSet)]

\* The frames of a function whose scope is open, and of an open block.
FuncLabels == {"params", "param", "param_name", "param_dims", "param_len", "param_close",
               "param_define", "param_next", "body_open", "body"}
ScopeLabels == FuncLabels \cup {"block"}

FramesAt(labels) == {i \in DOMAIN stack : stack[i].at \in labels}

\* Every scope on the chain belongs to an active block or function, plus the
\* global one, and is closed exactly when that one returns: on every path
\* through an error, an unexpected end of file or a synchronization that skips
\* braces (parser.c:406-457, 673-768).
ScopeBalance ==
  /\ status # "done" => Len(scopes) = 1 + Cardinality(FramesAt(ScopeLabels))
  /\ status = "done" => scopes = <<>> /\ stack = <<>>

\* The return type that return statements are checked against is the one of
\* the innermost - the only - function being parsed, as the global scope
\* declares it, and outside a function there is none (parser.c:672, 769).
ReturnContext ==
  status # "done" =>
    /\ Cardinality(FramesAt(FuncLabels)) <= 1
    /\ FramesAt(FuncLabels) = {} => funcRet = NullType
    /\ \A i \in FramesAt(FuncLabels) :
         /\ funcRet = stack[i].rty
         /\ stack[i].own => scopes[1][stack[i].func].ty
                              = type_func_new(funcRet, stack[i].func)
    /\ FramesAt({"ret_value", "ret_end"}) # {} => FramesAt({"body"}) # {}

\* Whatever the parser does, what an identifier means changes as in a
\* block-structured language: a scope opened sees what is around it, one closed
\* restores it exactly, and a declaration adds one unused name to the innermost
\* scope - through nested blocks, shadowed parameters, refused redefinitions and
\* error recovery (parser.c:399-457, 545-772 over sema.c:40-91).  A step that
\* leaves the chain alone cannot change it.
LexicalScoping == [][UNCHANGED scopes \/ Env!Next]_(Env!vars)

\* The parser's panic flag and the reporter's two flags tell one story: panic
\* only after a report, and one line printed exactly when there was an error.
ErrorLatch ==
  /\ panic_mode => ctx.had_error
  /\ ctx.had_error = ctx.panic_mode
  /\ ctx.printed = IF ctx.had_error THEN 1 ELSE 0

\* A program the compiler does not complain about never makes it dereference
\* NULL: the analyses read operands, array bases and callees without looking
\* (sema.c:95, type.c:74, parser.c:213) and rely on NULL meaning "reported".
NoSilentCrash == status = "crashed" => ctx.had_error

\* Why: an operand waiting for its operator exists and has a type, unless
\* something was reported.
OperandsTyped ==
  ~ctx.had_error =>
    \A i \in FramesAt({"bin_rhs", "asg_rhs", "stmt_rhs"}) :
      stack[i].lhs # NullNode /\ stack[i].lhs.ty # NullType

\* Operators group as their precedences say, those of one precedence from the
\* left: of the operators waiting for their right operand in one expression each
\* binds tighter than the one before it, and an operand that is complete is
\* not followed by an operator that binds tighter than the one it is handed to.
\* No tree is kept, so this is what makes 1 - 2 - 3 and 1 + 2 * 3 come out
\* right (parser.c:280-365).
OperatorGrouping ==
  /\ \A i \in FramesAt({"bin_rhs"}) :
       i + 1 \in FramesAt({"bin_rhs"}) => get_prec(stack[i].op) < get_prec(stack[i + 1].op)
  /\ At("bin_rhs") => get_prec(Kind) <= get_prec(Top.op)

\* The places where a frame stands for two functions of parser.c, the first of
\* which returns what the second does: parse_expr and parse_binary, parse_unary
\* and parse_primary, parse_stmt and parse_block, parse_top_level and parse_func,
\* parse_top_level or parse_decl and parse_var_decl_list.
Paired ==
  {"binary", "bin_lhs", "bin_rhs", "unary", "paren", "ident", "args", "args_more", "index",
   "index_close", "block_open", "block", "func_enter", "var", "var_define", "var_init",
   "var_value", "var_check", "var_next", "var_name"} \cup FuncLabels

Activations(l) == IF l \in Paired THEN 2 ELSE 1

Total(f) ==
  LET sum[i \in 0..Len(f)] == IF i = 0 THEN 0 ELSE sum[i - 1] + f[i] IN sum[Len(f)]

\* The parse_* functions that are active, as they call each other.  (Where
\* parse_binary is called without parse_expr, both are counted.)
CallDepth == Total([i \in DOMAIN stack |-> Activations(stack[i].at)])

\* Recursion consumes input: how many functions of the parser are active is
\* bounded by the tokens read, so no chain of calls, of nested statements and
\* else branches no less than of parentheses, blocks and initializers, comes
\* back to where it was without reading one (parser.c:138-656).
DepthLinear == CallDepth <= 2 + 4 * fed

\* The tokens that can still come, the one at hand included.
Left == IF Kind = "EOF" THEN 0 ELSE 1 + Len(Prefix) + FreeTokens - fed

\* How many steps a function can still take from place l of its code on, with
\* the calls it makes, before it reads another token or returns.
Cost(l) ==
  CASE l \in {"bin_rhs", "ident", "index_close", "decl", "var_init", "var_check", "dim_len",
              "dim_close", "block_open", "body_open", "stmt_rhs", "globals_skip"} -> 2
    [] l \in {"binary", "var_define", "param_next"} -> 3
    [] l \in {"globals_ret", "param_define"} -> 4
    [] l \in {"assign", "var", "stmt", "ret_value", "param_dims"} -> 5
    [] l \in {"var_value", "decl_kind", "param_len", "param_close", "param_name"} -> 6
    [] l \in {"args", "init_first", "init_elem", "cond_close", "params", "param"} -> 7
    [] l \in {"init", "func_enter"} -> 8
    [] l = "cond_open" -> 11
    [] OTHER -> 1

CostOf(s) == Total([i \in DOMAIN s |-> Cost(s[i].at)])

\* Will the function on top read the token at hand, whatever happens?
Takes ==
  CASE Top.at \in {"unary", "binary", "assign"} ->
         Kind \in PrefixOps \cup Literals \cup {"L_PAREN", "IDENT"}
    [] Top.at = "stmt"                   -> Kind \in StmtStart
    [] Top.at \in {"block_open", "init"} -> Kind = "L_BRACE"
    [] Top.at = "decl"                   -> Kind \in DeclStart
    [] Top.at = "decl_type"              -> Kind \in TypeWords
    [] OTHER                             -> FALSE

\* How far from that are the loops that call again before the same token: a
\* block in panic has to synchronize first, the top level to find that no
\* declaration starts here, and to synchronize, and to skip a token.
Stage ==
  IF Kind = "EOF" \/ Takes THEN 0
  ELSE CASE Top.at \in {"block", "body"} /\ ~panic_mode -> 1
         [] Top.at = "globals" -> IF Kind \in DeclStart THEN 1 ELSE 5
         [] Top.at \in {"sync", "globals_skip"} -> 2
         [] Top.at = "globals_ret" /\ ret = NullNode -> 3
         [] Top.at \in {"decl", "decl_type"} /\ Top.top -> 4
         [] OTHER -> 6

Work == IF status = "run" THEN 1 + 48 * Left + 6 * Stage + CostOf(stack) ELSE 0

\* Parsing ends, after at most forty-eight steps for each token and a few more,
\* whatever the tokens: no error makes a loop come round to the token it was at,
\* neither a block that resynchronizes, nor the top level, nor an empty
\* statement (parser.c:78-98, 410-455, 511-515, 722-764, 852-878).
ParsesLinear == [][status = "run" => Work' \in Nat /\ Work' < Work]_vars

-----------------------------------------------------------------------------
(* What the repository says of the parser and the code does not do.        *)

\* README.md: panic-mode recovery allows multiple errors to be reported in a
\* single run.  So entering panic mode must print a diagnostic.
EveryErrorReported ==
  [][~panic_mode /\ panic_mode' => ctx'.printed > ctx.printed]_vars

\* README.md: the parser skips invalid tokens and continues after an error.
ContinuesAfterError == status # "crashed"

\* parser.h: parser_parse returns an empty vector on error.
EmptyOnError == status = "done" /\ ctx.had_error => globals = 0

\* The rejected samples 19, 20 and 23: a variable is not a legal initializer.
InitializerIsLiteral ==
  [][At("var_check") /\ ret.kind = "ND_VAR" => ctx'.had_error]_vars
=============================================================================
