---------------------------- MODULE ParserProofs ----------------------------
(***************************************************************************)
(* What holds of the parser for every token stream of any length, any      *)
(* names and any behaviour of the lexer: its panic flag and the reporter   *)
(* agree (ErrorLatch of Parser.tla), and the call stack, the chain of      *)
(* scopes and the return type of the function being parsed move together   *)
(* (ScopeBalance, ReturnContext).                                          *)
(***************************************************************************)
EXTENDS Parser, Facts, FiniteSetTheorems

\* The reporter c is consistent, and no less alarmed than the panic flag and
\* the reporter now.
Later(c) ==
  /\ c \in ContextType
  /\ c.had_error = c.panic_mode
  /\ c.printed = IF c.had_error THEN 1 ELSE 0
  /\ panic_mode \/ ctx.had_error => c.had_error

\* The tokens at hand can be trusted, and so can the flags.
TokenInv == {curr, prev} \subseteq TokenType /\ fed \in Nat

LatchInv == panic_mode \in BOOLEAN /\ TokenInv /\ Later(ctx)

\* A step keeps that, and never takes an error back.
LatchStep == LatchInv' /\ (ctx.had_error => ctx'.had_error)

LEMMA ErrorLater ==
  ASSUME NEW c, Later(c)
  PROVE  Later(ctx_error(c)) /\ ctx_error(c).had_error
<1>1. c.had_error \in BOOLEAN /\ c.panic_mode \in BOOLEAN /\ c.printed \in Nat
  BY DEF Later, ContextType
<1>2. CASE c.panic_mode
  BY <1>1, <1>2 DEF Later, ctx_error
<1>3. CASE ~c.panic_mode
  <2> DEFINE d == [had_error |-> TRUE, panic_mode |-> TRUE, printed |-> 1]
  <2>1. c.printed = 0
    BY <1>1, <1>3 DEF Later
  <2>2. ctx_error(c) = d
    BY <1>3, <2>1 DEF ctx_error
  <2>3. Later(d) /\ d.had_error
    BY DEF Later, ContextType
  <2> QED  BY <2>2, <2>3
<1> QED  BY <1>1, <1>2, <1>3

LEMMA ReportedLater ==
  ASSUME NEW c, Later(c), panic_mode \in BOOLEAN
  PROVE  Later(Reported(c)) /\ Reported(c).had_error
BY ErrorLater DEF Reported, Later

LEMMA JudgeLater ==
  ASSUME NEW c, Later(c), NEW v
  PROVE  Later(Judge(v, c))
BY ErrorLater DEF Judge

LEMMA DefineDiagLater ==
  ASSUME NEW c, Later(c), NEW n
  PROVE  Later(DefineDiag(n, c))
BY ErrorLater DEF DefineDiag

LEMMA PlainToken ==
  ASSUME NEW k \in TokenKinds \ {"IDENT"} PROVE Tok(k) \in TokenType
BY DEF Tok, TokenType

LEMMA EofToken == Tok("EOF") \in TokenType
<1>1. "EOF" \in TokenKinds \ {"IDENT"}
  BY DEF TokenKinds
<1> QED  BY <1>1, PlainToken

LEMMA TokenKept ==
  ASSUME TokenInv, NEW c, Stay(c) \/ advance(c)
  PROVE  TokenInv'
<1>1. CASE Stay(c)
  BY <1>1 DEF Stay, lexVars, TokenInv
<1>2. CASE advance(c)
  <2>1. PICK t \in Upcoming : /\ curr' = t /\ prev' = curr
                              /\ fed' = IF t.kind = "EOF" THEN fed ELSE fed + 1
    BY <1>2 DEF advance
  <2>2. Tok("EOF") \in TokenType
    BY EofToken
  <2>3. fed < Len(Prefix) => Prefix[fed + 1] \in TokenType
    <3>1. Len(Prefix) \in Nat
      BY ParserAssumption, LenProperties
    <3> QED  BY <3>1, ParserAssumption, ElementOfSeq DEF TokenInv
  <2>4. Upcoming \subseteq TokenType
    BY <2>2, <2>3, ParserAssumption DEF Upcoming
  <2> QED  BY <2>1, <2>4 DEF TokenInv
<1> QED  BY <1>1, <1>2

\* An action that leaves the reporter at c, or reads a token from there.
LEMMA LatchKept ==
  ASSUME TokenInv, NEW c, Later(c), Stay(c) \/ advance(c),
         panic_mode' \in BOOLEAN, panic_mode' => c.had_error
  PROVE  LatchStep
<1>1. \/ ctx' = c
      \/ ctx' = ctx_error(c)
  BY Zenon DEF Stay, advance
<1>2. CASE ctx' = c
  BY <1>2, TokenKept DEF LatchStep, LatchInv, Later
<1>3. CASE ctx' = ctx_error(c)
  BY <1>3, TokenKept, ErrorLater DEF LatchStep, LatchInv, Later
<1> QED  BY <1>1, <1>2, <1>3

LEMMA IdleLatch == ASSUME LatchInv, Idle PROVE LatchStep
BY LatchKept DEF Idle, LatchInv, Later

LEMMA ReadLatch ==
  ASSUME LatchInv, advance(ctx), UNCHANGED panic_mode PROVE LatchStep
BY LatchKept DEF LatchInv, Later

LEMMA MatchLatch == ASSUME LatchInv, NEW k, Match(k) PROVE LatchStep
BY ReadLatch DEF Match

LEMMA PanicLatch ==
  ASSUME LatchInv, panic_mode' = TRUE,
         Stay(Reported(ctx)) \/ advance(Reported(ctx))
  PROVE  LatchStep
BY LatchKept, ReportedLater DEF LatchInv

LEMMA ErrorLatchLemma == ASSUME LatchInv, parser_error PROVE LatchStep
BY PanicLatch DEF parser_error

LEMMA ExpectLatch ==
  ASSUME panic_mode \in BOOLEAN, TokenInv, NEW c, Later(c), NEW k, NEW bad \in BOOLEAN,
         Expect(k, bad, c)
  PROVE  LatchStep
<1>1. CASE Kind # k \/ bad
  BY <1>1, ReportedLater, LatchKept DEF Expect
<1>2. CASE ~(Kind # k \/ bad)
  BY <1>2, LatchKept DEF Expect, Later
<1> QED  BY <1>1, <1>2

LEMMA ConsumeLatch == ASSUME LatchInv, NEW k, consume(k) PROVE LatchStep
BY ExpectLatch DEF consume, LatchInv

LEMMA ExpressionsLatch == ASSUME LatchInv, Expressions PROVE LatchStep
<1>1. CASE ParseBinary
  BY <1>1, IdleLatch DEF ParseBinary
<1>2. CASE BinaryOperator
  BY <1>2, ReadLatch DEF BinaryOperator
<1>3. CASE BinaryEnd
  BY <1>3, IdleLatch DEF BinaryEnd
<1>4. CASE BinaryBuild
  BY <1>4, LatchKept, JudgeLater DEF BinaryBuild, LatchInv, Later
<1>5. CASE BinaryNull
  BY <1>5, IdleLatch DEF BinaryNull, Crash
<1>6. CASE ParseAssign
  BY <1>6, IdleLatch DEF ParseAssign
<1>7. CASE AssignOperator
  BY <1>7, MatchLatch DEF AssignOperator
<1>8. CASE AssignNone
  BY <1>8, IdleLatch DEF AssignNone
<1>9. CASE AssignBuild
  BY <1>9, LatchKept, JudgeLater DEF AssignBuild, LatchInv, Later
<1>10. CASE AssignNull
  BY <1>10, IdleLatch DEF AssignNull, Crash
<1>11. CASE UnaryOperator
  BY <1>11, ReadLatch DEF UnaryOperator
<1>12. CASE UnaryBuild
  BY <1>12, IdleLatch DEF UnaryBuild
<1>13. CASE PrimaryLiteral
  BY <1>13, ReadLatch DEF PrimaryLiteral
<1>14. CASE PrimaryParen
  BY <1>14, MatchLatch DEF PrimaryParen
<1>15. CASE ParenClose
  BY <1>15, ConsumeLatch DEF ParenClose
<1>16. CASE PrimaryIdent
  BY <1>16, MatchLatch DEF PrimaryIdent
<1>17. CASE PrimaryNone
  BY <1>17, ErrorLatchLemma DEF PrimaryNone
<1>18. CASE CallOpen
  BY <1>18, ExpectLatch DEF CallOpen, LatchInv
<1>19. CASE ArgFirst
  BY <1>19, IdleLatch DEF ArgFirst
<1>20. CASE ArgNext
  BY <1>20, MatchLatch DEF ArgNext
<1>21. CASE CallClose
  BY <1>21, ConsumeLatch DEF CallClose
<1>22. CASE CallTypeless
  BY <1>22, ConsumeLatch DEF CallTypeless
<1>23. CASE Variable
  BY <1>23, IdleLatch, ErrorLatchLemma DEF Variable
<1>24. CASE IndexOpen
  BY <1>24, MatchLatch DEF IndexOpen
<1>25. CASE IndexEnd
  BY <1>25, IdleLatch DEF IndexEnd
<1>26. CASE IndexClose
  BY <1>26, ExpectLatch DEF IndexClose, LatchInv
<1> QED  BY <1>1, <1>2, <1>3, <1>4, <1>5, <1>6, <1>7, <1>8, <1>9, <1>10, <1>11,
         <1>12, <1>13, <1>14, <1>15, <1>16, <1>17, <1>18, <1>19, <1>20, <1>21,
         <1>22, <1>23, <1>24, <1>25, <1>26 DEF Expressions

LEMMA StatementsLatch == ASSUME LatchInv, Statements PROVE LatchStep
<1>1. CASE BlockOpen
  BY <1>1, ConsumeLatch DEF BlockOpen
<1>2. CASE BlockSync
  BY <1>2, LatchKept, ReportedLater DEF BlockSync, LatchInv, Later
<1>3. CASE BlockSkip
  BY <1>3, PanicLatch DEF BlockSkip
<1>4. CASE BlockDecl
  BY <1>4, IdleLatch DEF BlockDecl
<1>5. CASE BlockStmt
  BY <1>5, IdleLatch DEF BlockStmt
<1>6. CASE BlockEnd
  BY <1>6, ConsumeLatch DEF BlockEnd
<1>7. CASE StmtCond
  BY <1>7, MatchLatch DEF StmtCond
<1>8. CASE CondOpen
  BY <1>8, ConsumeLatch DEF CondOpen
<1>9. CASE CondClose
  BY <1>9, ConsumeLatch DEF CondClose
<1>10. CASE StmtElse
  BY <1>10, MatchLatch DEF StmtElse
<1>11. CASE StmtNoElse
  BY <1>11, IdleLatch DEF StmtNoElse
<1>12. CASE StmtJump
  BY <1>12, MatchLatch DEF StmtJump
<1>13. CASE Semicolon
  BY <1>13, ConsumeLatch DEF Semicolon
<1>14. CASE StmtBlock
  BY <1>14, IdleLatch DEF StmtBlock
<1>15. CASE StmtReturn
  BY <1>15, MatchLatch DEF StmtReturn
<1>16. CASE ReturnValue
  BY <1>16, IdleLatch DEF ReturnValue
<1>17. CASE ReturnEnd
  BY <1>17, ExpectLatch, JudgeLater DEF ReturnEnd, LatchInv
<1>18. CASE ReturnVoid
  BY <1>18, ConsumeLatch, ExpectLatch, JudgeLater DEF ReturnVoid, LatchInv
<1>19. CASE StmtExpr
  BY <1>19, IdleLatch DEF StmtExpr
<1>20. CASE StmtExprNull
  BY <1>20, IdleLatch DEF StmtExprNull
<1>21. CASE StmtAssign
  BY <1>21, MatchLatch DEF StmtAssign
<1>22. CASE StmtAssignBuild
  BY <1>22, ErrorLatchLemma, LatchKept, JudgeLater DEF StmtAssignBuild,
         LatchInv, Later
<1>23. CASE StmtExprEnd
  BY <1>23, ConsumeLatch DEF StmtExprEnd
<1>24. CASE StmtEnd
  BY <1>24, IdleLatch DEF StmtEnd
<1> QED  BY <1>1, <1>2, <1>3, <1>4, <1>5, <1>6, <1>7, <1>8, <1>9, <1>10, <1>11,
         <1>12, <1>13, <1>14, <1>15, <1>16, <1>17, <1>18, <1>19, <1>20, <1>21,
         <1>22, <1>23, <1>24 DEF Statements

LEMMA DeclarationsLatch == ASSUME LatchInv, Declarations PROVE LatchStep
<1>1. CASE DeclConst
  BY <1>1, MatchLatch DEF DeclConst
<1>2. CASE DeclNotConst
  BY <1>2, IdleLatch DEF DeclNotConst
<1>3. CASE DeclType
  BY <1>3, ReadLatch DEF DeclType
<1>4. CASE DeclNoType
  BY <1>4, IdleLatch, PanicLatch, ErrorLatchLemma DEF DeclNoType
<1>5. CASE DeclName
  BY <1>5, MatchLatch DEF DeclName
<1>6. CASE DeclNoName
  BY <1>6, ErrorLatchLemma DEF DeclNoName
<1>7. CASE DeclVars
  BY <1>7, IdleLatch DEF DeclVars
<1>8. CASE VarDims
  BY <1>8, IdleLatch DEF VarDims
<1>9. CASE VarDefine
  BY <1>9, LatchKept, DefineDiagLater DEF VarDefine, LatchInv, Later
<1>10. CASE VarAssign
  BY <1>10, MatchLatch DEF VarAssign
<1>11. CASE VarNoInit
  BY <1>11, IdleLatch, ErrorLatchLemma DEF VarNoInit
<1>12. CASE VarInitList
  BY <1>12, IdleLatch DEF VarInitList
<1>13. CASE VarInitExpr
  BY <1>13, IdleLatch DEF VarInitExpr
<1>14. CASE VarCheck
  BY <1>14, LatchKept, JudgeLater DEF VarCheck, LatchInv, Later
<1>15. CASE VarComma
  BY <1>15, MatchLatch DEF VarComma
<1>16. CASE VarEnd
  BY <1>16, ConsumeLatch DEF VarEnd
<1>17. CASE VarName
  BY <1>17, MatchLatch DEF VarName
<1>18. CASE VarNoName
  BY <1>18, ExpectLatch DEF VarNoName, LatchInv
<1>19. CASE DimOpen
  BY <1>19, MatchLatch DEF DimOpen
<1>20. CASE DimsEnd
  BY <1>20, IdleLatch DEF DimsEnd
<1>21. CASE DimLen
  BY <1>21, MatchLatch DEF DimLen
<1>22. CASE DimNoLen
  BY <1>22, PanicLatch DEF DimNoLen
<1>23. CASE DimClose
  BY <1>23, ConsumeLatch DEF DimClose
<1>24. CASE DimNull
  BY <1>24, ConsumeLatch DEF DimNull
<1>25. CASE InitOpen
  BY <1>25, ConsumeLatch DEF InitOpen
<1>26. CASE InitEmpty
  BY <1>26, MatchLatch DEF InitEmpty
<1>27. CASE InitElem
  BY <1>27, IdleLatch DEF InitElem
<1>28. CASE InitComma
  BY <1>28, MatchLatch DEF InitComma
<1>29. CASE InitClose
  BY <1>29, ConsumeLatch DEF InitClose
<1> QED  BY <1>1, <1>2, <1>3, <1>4, <1>5, <1>6, <1>7, <1>8, <1>9, <1>10, <1>11,
         <1>12, <1>13, <1>14, <1>15, <1>16, <1>17, <1>18, <1>19, <1>20, <1>21,
         <1>22, <1>23, <1>24, <1>25, <1>26, <1>27, <1>28,
         <1>29 DEF Declarations

LEMMA FunctionsLatch == ASSUME LatchInv, Functions PROVE LatchStep
<1>1. CASE FuncOpen
  BY <1>1, ExpectLatch, DefineDiagLater DEF FuncOpen, LatchInv
<1>2. CASE FuncEnter
  BY <1>2, IdleLatch DEF FuncEnter
<1>3. CASE ParamType
  <2>1. CASE Kind \notin TypeWords
    BY <1>3, <2>1, PanicLatch DEF ParamType, LatchInv
  <2>2. CASE Kind \in TypeWords
    BY <1>3, <2>2, ReadLatch DEF ParamType, LatchInv
  <2> QED  BY <2>1, <2>2
<1>4. CASE ParamName
  BY <1>4, ConsumeLatch DEF ParamName
<1>5. CASE ParamArray
  BY <1>5, MatchLatch DEF ParamArray
<1>6. CASE ParamScalar
  BY <1>6, IdleLatch DEF ParamScalar
<1>7. CASE ParamOpenArray
  BY <1>7, MatchLatch DEF ParamOpenArray
<1>8. CASE ParamLen
  BY <1>8, MatchLatch DEF ParamLen
<1>9. CASE ParamNoLen
  BY <1>9, ErrorLatchLemma DEF ParamNoLen
<1>10. CASE ParamClose
  BY <1>10, ConsumeLatch DEF ParamClose
<1>11. CASE ParamNull
  BY <1>11, ConsumeLatch DEF ParamNull
<1>12. CASE ParamDefine
  BY <1>12, LatchKept, DefineDiagLater DEF ParamDefine, LatchInv, Later
<1>13. CASE ParamComma
  BY <1>13, MatchLatch DEF ParamComma
<1>14. CASE ParamsEnd
  BY <1>14, ConsumeLatch DEF ParamsEnd
<1>15. CASE BodyOpen
  BY <1>15, ConsumeLatch DEF BodyOpen
<1>16. CASE BodyEnd
  BY <1>16, ConsumeLatch DEF BodyEnd
<1> QED  BY <1>1, <1>2, <1>3, <1>4, <1>5, <1>6, <1>7, <1>8, <1>9, <1>10, <1>11,
         <1>12, <1>13, <1>14, <1>15, <1>16 DEF Functions

LEMMA TopLevelLatch == ASSUME LatchInv, TopLevel PROVE LatchStep
<1>1. CASE GlobalNext
  BY <1>1, IdleLatch DEF GlobalNext
<1>2. CASE GlobalKeep
  BY <1>2, IdleLatch DEF GlobalKeep
<1>3. CASE GlobalSync
  BY <1>3, PanicLatch, LatchKept, ReportedLater DEF GlobalSync, LatchInv, Later
<1>4. CASE GlobalNoSync
  BY <1>4, IdleLatch DEF GlobalNoSync
<1>5. CASE GlobalSkip
  BY <1>5, ReadLatch, LatchKept, ReportedLater DEF GlobalSkip, LatchInv, Later
<1>6. CASE GlobalsEnd
  BY <1>6, MatchLatch DEF GlobalsEnd
<1>7. CASE SyncSkip
  BY <1>7, ReadLatch DEF SyncSkip
<1>8. CASE SyncEnd
  BY <1>8, IdleLatch DEF SyncEnd
<1> QED  BY <1>1, <1>2, <1>3, <1>4, <1>5, <1>6, <1>7, <1>8 DEF TopLevel

\* The tokens and the flags are consistent in every state.
LEMMA LatchInvariant == Spec => []LatchInv
<1>1. Init => LatchInv
  <2> SUFFICES ASSUME Init PROVE LatchInv
    OBVIOUS
  <2>1. panic_mode = FALSE /\ (ctx = CtxInit \/ ctx = ctx_error(CtxInit))
    BY DEF Init
  <2>2. Later(ctx)
    <3>1. CASE ctx = CtxInit
      BY <2>1, <3>1 DEF Later, CtxInit, ContextType
    <3>2. CASE ctx = ctx_error(CtxInit)
      <4>1. ctx = [had_error |-> TRUE, panic_mode |-> TRUE, printed |-> 1]
        BY <3>2 DEF ctx_error, CtxInit
      <4> QED  BY <4>1 DEF Later, ContextType
    <3> QED  BY <2>1, <3>1, <3>2
  <2>3. TokenInv
    <3>1. Tok("EOF") \in TokenType
      BY EofToken
    <3>2. Len(Prefix) > 0 => Prefix[1] \in TokenType
      BY ParserAssumption, ElementOfSeq, LenProperties
    <3>3. prev \in TokenType
      <4>1. "SEMICOLON" \in TokenKinds \ {"IDENT"}
        BY DEF TokenKinds
      <4> QED  BY <3>1, <4>1, PlainToken DEF Init
    <3> QED  BY <3>1, <3>2, <3>3, ParserAssumption DEF Init, TokenInv
  <2> QED  BY <2>1, <2>2, <2>3 DEF LatchInv
<1>2. LatchInv /\ [Next]_vars => LatchInv'
  <2> SUFFICES ASSUME LatchInv, Next \/ UNCHANGED vars PROVE LatchInv'
    OBVIOUS
  <2>1. CASE UNCHANGED vars
    BY <2>1 DEF vars, lexVars, TokenInv, LatchInv, Later
  <2>2. CASE Stopped
    BY <2>2, <2>1 DEF Stopped
  <2>3. CASE Step
    BY <2>3, ExpressionsLatch, StatementsLatch, DeclarationsLatch, FunctionsLatch,
       TopLevelLatch DEF Step, LatchStep
  <2> QED  BY <2>1, <2>2, <2>3 DEF Next
<1> QED  BY <1>1, <1>2, PTL DEF Spec

\* The parser's panic flag and the reporter's two flags tell one story for
\* every input: panic only after a report, and exactly one line printed when
\* there was an error (parser.c:38-98, context.c:108-148).
THEOREM ParserLatch == Spec => []ErrorLatch
<1>1. LatchInv => ErrorLatch
  BY DEF LatchInv, Later, ErrorLatch
<1> QED  BY <1>1, LatchInvariant, PTL

-----------------------------------------------------------------------------
(* Sequences whose elements are of no particular type.                     *)

IsSeq(s) == \E S : s \in Seq(S)

LEMMA SeqLength ==
  ASSUME NEW s, IsSeq(s)
  PROVE  Len(s) \in Nat /\ (s # <<>> => Len(s) >= 1) /\ DOMAIN s = 1..Len(s)
BY EmptySeq, LenProperties DEF IsSeq

LEMMA AppendShape ==
  ASSUME NEW s, IsSeq(s), NEW f
  PROVE  /\ IsSeq(Append(s, f)) /\ Append(s, f) # <<>>
         /\ Len(Append(s, f)) = Len(s) + 1
         /\ Append(s, f)[Len(s) + 1] = f
         /\ \A i \in 1..Len(s) : Append(s, f)[i] = s[i]
<1>1. PICK S : s \in Seq(S)
  BY DEF IsSeq
<1> DEFINE T == S \cup {f}
<1>2. s \in Seq(T) /\ f \in T
  <2>1. s \in [1..Len(s) -> T] /\ Len(s) \in Nat
    BY <1>1, LenProperties
  <2> QED  BY <2>1, SeqDef
<1>3. /\ Append(s, f) \in Seq(T)
      /\ Len(Append(s, f)) = Len(s) + 1
      /\ \A i \in 1..Len(s) : Append(s, f)[i] = s[i]
      /\ Append(s, f)[Len(s) + 1] = f
  <2> HIDE DEF T
  <2> QED  BY <1>2, AppendProperties
<1> QED  BY <1>3, EmptySeq, LenProperties DEF IsSeq

LEMMA FrontShape ==
  ASSUME NEW s, IsSeq(s), s # <<>>
  PROVE  /\ IsSeq(Front(s)) /\ Len(Front(s)) = Len(s) - 1 /\ Len(s) \in Nat \ {0}
         /\ \A i \in 1..(Len(s) - 1) : Front(s)[i] = s[i]
BY FrontFacts DEF IsSeq

LEMMA ReplaceShape ==
  ASSUME NEW s, IsSeq(s), s # <<>>, NEW f
  PROVE  \A t : t = Append(Front(s), f) =>
           /\ IsSeq(t) /\ t # <<>> /\ Len(t) = Len(s) /\ t[Len(s)] = f
           /\ \A i \in 1..(Len(s) - 1) : t[i] = s[i]
<1> SUFFICES ASSUME NEW t, t = Append(Front(s), f)
             PROVE  /\ IsSeq(t) /\ t # <<>> /\ Len(t) = Len(s) /\ t[Len(s)] = f
                    /\ \A i \in 1..(Len(s) - 1) : t[i] = s[i]
  OBVIOUS
<1>1. /\ IsSeq(Front(s)) /\ Len(Front(s)) = Len(s) - 1 /\ Len(s) \in Nat \ {0}
      /\ \A i \in 1..(Len(s) - 1) : Front(s)[i] = s[i]
  BY FrontShape
<1>2. /\ IsSeq(t) /\ t # <<>>
      /\ Len(t) = (Len(s) - 1) + 1 /\ t[(Len(s) - 1) + 1] = f
      /\ \A i \in 1..(Len(s) - 1) : t[i] = Front(s)[i]
  BY <1>1, AppendShape
<1>3. (Len(s) - 1) + 1 = Len(s)
  BY <1>1
<1> QED  BY <1>1, <1>2, <1>3

-----------------------------------------------------------------------------
(* Where each frame can be on the stack.                                   *)

RootLabels == {"globals", "globals_ret", "globals_skip"}

\* Frames that know the function being parsed; func_enter's scope is not open.
HeadLabels == {"func_enter"} \cup FuncLabels

\* Frames of parse_top_level and parse_func: called by the root only.
TopLevelFrame(f) == \/ f.at \in {"decl_kind"} \cup HeadLabels
                    \/ f.at \in {"decl", "decl_type", "decl_name"} /\ f.top

\* Frames of parse_stmt and parse_block: only inside a function's body.
BodyLabels == {"stmt", "cond_open", "cond_close", "if_else", "stmt_end", "semi", "block_open",
               "block", "ret_value", "ret_end", "stmt_expr", "stmt_rhs"}

\* f stands at place i of the stack s.
Placed(f, i, s) ==
  /\ "at" \in DOMAIN f
  /\ f.at \in RootLabels <=> i = 1
  /\ TopLevelFrame(f) => i = 2
  /\ f.at \in BodyLabels => i > 2 /\ s[2].at = "body"
  /\ f.at = "func_enter" => i = Len(s)
  /\ f.at = "decl_kind" => f.name \in Names
  /\ f.at \in HeadLabels => f.func \in Names /\ {"func", "own", "rty"} \subseteq DOMAIN f

StackOK(s) == IsSeq(s) /\ s # <<>> /\ \A i \in 1..Len(s) : Placed(s[i], i, s)

FramesOf(s, labels) == {i \in DOMAIN s : s[i].at \in labels}

\* f can take the place of the frame e on top ...
Same(e, f) ==
  /\ "at" \in DOMAIN f
  /\ f.at \in RootLabels <=> e.at \in RootLabels
  /\ TopLevelFrame(f) => TopLevelFrame(e)
  /\ f.at \in BodyLabels => e.at \in BodyLabels
  /\ f.at \in ScopeLabels <=> e.at \in ScopeLabels
  /\ f.at \in FuncLabels <=> e.at \in FuncLabels
  /\ f.at = "decl_kind" => f.name \in Names
  /\ f.at \in HeadLabels =>
       /\ e.at \in HeadLabels /\ {"func", "own", "rty"} \subseteq DOMAIN f
       /\ f.func = e.func /\ f.own = e.own /\ f.rty = e.rty

\* ... and g be pushed onto it.
Fresh(f, g) ==
  /\ f.at # "func_enter"
  /\ "at" \in DOMAIN g
  /\ g.at \notin RootLabels \cup ScopeLabels \cup HeadLabels \cup {"decl_kind"}
  /\ TopLevelFrame(g) => f.at \in RootLabels
  /\ g.at \in BodyLabels => f.at \in BodyLabels \cup {"body"}

\* What a move of the stack from s to t keeps if it opens and closes no scope:
\* who is where, and what the function's frame knows.
Kept(s, t) ==
  /\ StackOK(t)
  /\ FramesOf(t, ScopeLabels) = FramesOf(s, ScopeLabels)
  /\ FramesOf(t, FuncLabels) = FramesOf(s, FuncLabels)
  /\ \A i \in 1..Len(t) : t[i].at \in HeadLabels =>
       /\ i \in 1..Len(s) /\ s[i].at \in HeadLabels
       /\ t[i].func = s[i].func /\ t[i].own = s[i].own /\ t[i].rty = s[i].rty

LEMMA Below ==
  ASSUME NEW n \in Nat \ {0}, NEW i \in 1..n
  PROVE  i = n \/ i \in 1..(n - 1)
OBVIOUS

\* f may stand where e stands, at the top.
Fits(e, f) ==
  /\ "at" \in DOMAIN f
  /\ f.at \in RootLabels <=> e.at \in RootLabels
  /\ TopLevelFrame(f) => TopLevelFrame(e)
  /\ f.at \in BodyLabels => e.at \in BodyLabels
  /\ f.at = "decl_kind" => f.name \in Names
  /\ f.at \in HeadLabels => f.func \in Names /\ {"func", "own", "rty"} \subseteq DOMAIN f

\* The frame on top is replaced by f.
Replaced(s, f, t) ==
  /\ Len(s) \in Nat \ {0} /\ Last(s) = s[Len(s)] /\ Placed(Last(s), Len(s), s)
  /\ DOMAIN s = 1..Len(s) /\ DOMAIN t = 1..Len(s)
  /\ StackOK(t) /\ Len(t) = Len(s) /\ t[Len(s)] = f
  /\ \A i \in 1..Len(s) : i = Len(s) \/ t[i] = s[i]

LEMMA ReplaceFacts ==
  ASSUME NEW s, StackOK(s), NEW f, Fits(Last(s), f)
  PROVE  Replaced(s, f, Append(Front(s), f))
<1> SUFFICES ASSUME NEW t, t = Append(Front(s), f) PROVE Replaced(s, f, t)
  BY Zenon
<1> DEFINE n == Len(s)
<1>1. n \in Nat \ {0} /\ Last(s) = s[n] /\ DOMAIN s = 1..n /\ IsSeq(s) /\ s # <<>>
  BY SeqLength DEF StackOK, Last
<1>2. /\ IsSeq(t) /\ t # <<>> /\ Len(t) = n /\ t[n] = f
      /\ \A i \in 1..(n - 1) : t[i] = s[i]
  <2>1. \A u : u = Append(Front(s), f) =>
          /\ IsSeq(u) /\ u # <<>> /\ Len(u) = Len(s) /\ u[Len(s)] = f
          /\ \A i \in 1..(Len(s) - 1) : u[i] = s[i]
    BY <1>1, ReplaceShape
  <2>2. t = Append(Front(s), f)
    OBVIOUS
  <2> QED  BY ONLY <2>1, <2>2
<1>3. DOMAIN t = 1..n
  BY <1>2, SeqLength
<1>4. \A i \in 1..n : Placed(s[i], i, s)
  BY DEF StackOK
<1>5. ASSUME NEW i \in 1..n PROVE i = n \/ (i \in 1..(n - 1) /\ t[i] = s[i])
  BY <1>1, <1>2, Below
<1>6. Fits(s[n], f)
  BY <1>1
<1>7. Placed(s[n], n, s)
  BY <1>1, <1>4
<1> HIDE DEF n
<1>8. ASSUME NEW i \in 1..n PROVE Placed(t[i], i, t)
  <2>1. CASE i = n
    <3>1. n > 2 => 2 \in 1..(n - 1)
      BY <1>1
    <3>2. n > 2 => t[2] = s[2]
      BY <1>2, <3>1
    <3> QED  BY <1>2, <1>6, <1>7, <2>1, <3>2 DEF Placed, Fits
  <2>2. CASE i \in 1..(n - 1) /\ t[i] = s[i]
    <3>1. Placed(s[i], i, s)
      BY <1>4
    <3>2. i > 2 => 2 \in 1..(n - 1)
      BY <1>1, <2>2
    <3>3. i > 2 => t[2] = s[2]
      BY <1>2, <3>2
    <3> QED  BY <1>2, <2>2, <3>1, <3>3 DEF Placed, n
  <2> QED  BY <1>5, <2>1, <2>2
<1>9. StackOK(t)
  BY <1>2, <1>8 DEF StackOK
<1> QED  BY <1>1, <1>2, <1>3, <1>5, <1>7, <1>9 DEF Replaced, n

LEMMA ReplaceKept ==
  ASSUME NEW s, StackOK(s), NEW f, Same(Last(s), f), NEW t, t = Append(Front(s), f)
  PROVE  Kept(s, t) /\ Len(t) = Len(s) /\ t[Len(s)] = f
<1> DEFINE n == Len(s)
<1>1. n \in Nat \ {0} /\ Placed(Last(s), n, s)
  BY SeqLength DEF StackOK, Last
<1>2. Fits(Last(s), f)
  BY <1>1 DEF Same, Fits, Placed
<1>3. /\ Last(s) = s[n] /\ DOMAIN s = 1..n /\ DOMAIN t = 1..n
      /\ StackOK(t) /\ Len(t) = n /\ t[n] = f
      /\ \A i \in 1..n : i = n \/ t[i] = s[i]
  <2>1. Replaced(s, f, Append(Front(s), f))
    BY <1>2, ReplaceFacts, Zenon
  <2>2. Replaced(s, f, t)
    BY <2>1, Zenon
  <2> QED  BY ONLY <2>2 DEF Replaced
<1>4. Same(s[n], f)
  BY <1>3
<1> HIDE DEF n
<1>5. \A i \in 1..n :
        /\ t[i].at \in ScopeLabels <=> s[i].at \in ScopeLabels
        /\ t[i].at \in FuncLabels <=> s[i].at \in FuncLabels
        /\ t[i].at \in HeadLabels =>
             /\ s[i].at \in HeadLabels
             /\ t[i].func = s[i].func /\ t[i].own = s[i].own /\ t[i].rty = s[i].rty
  BY <1>3, <1>4 DEF Same
<1>6. /\ FramesOf(t, ScopeLabels) = FramesOf(s, ScopeLabels)
      /\ FramesOf(t, FuncLabels) = FramesOf(s, FuncLabels)
  BY <1>3, <1>5 DEF FramesOf
<1> QED  BY <1>3, <1>5, <1>6 DEF Kept, n

\* g is pushed onto the stack s.
LEMMA PushKept ==
  ASSUME NEW s, StackOK(s), NEW g, Fresh(Last(s), g), NEW t, t = Append(s, g)
  PROVE  Kept(s, t)
<1> DEFINE n == Len(s)
<1>1. n \in Nat \ {0} /\ Last(s) = s[n] /\ DOMAIN s = 1..n /\ IsSeq(s) /\ s # <<>>
  BY SeqLength DEF StackOK, Last
<1>2. /\ IsSeq(t) /\ t # <<>> /\ Len(t) = n + 1 /\ t[n + 1] = g
      /\ \A i \in 1..n : t[i] = s[i]
  BY <1>1, AppendShape
<1>3. DOMAIN t = 1..(n + 1)
  BY <1>2, SeqLength
<1>4. \A i \in 1..n : Placed(s[i], i, s)
  BY DEF StackOK
<1>5. Fresh(s[n], g)
  BY <1>1
<1> HIDE DEF n
<1>6. ASSUME NEW i \in 1..(n + 1) PROVE i = n + 1 \/ i \in 1..n
  BY <1>1
<1>7. n = Len(s)
  BY DEF n
<1>8. ASSUME NEW i \in 1..(n + 1) PROVE Placed(t[i], i, t)
  <2>1. CASE i = n + 1
    <3>1. n \in 1..n /\ Placed(s[n], n, s)
      BY <1>1, <1>4
    <3>2. n > 1 => 2 \in 1..n
      BY <1>1
    <3>3. n > 1 => t[2] = s[2]
      BY <1>2, <3>2
    <3>4. s[n].at \in RootLabels => n = 1
      BY <3>1 DEF Placed
    <3>5. s[n].at = "body" => n = 2
      BY <3>1 DEF Placed, TopLevelFrame, HeadLabels, FuncLabels
    <3>6. s[n].at \in BodyLabels => n > 2 /\ s[2].at = "body"
      BY <3>1 DEF Placed
    <3>7. g.at \in BodyLabels => i > 2 /\ t[2].at = "body"
      BY <1>1, <1>5, <2>1, <3>3, <3>5, <3>6 DEF Fresh
    <3>8. TopLevelFrame(g) => i = 2
      BY <1>1, <1>5, <2>1, <3>4 DEF Fresh
    <3>9. g.at \notin RootLabels \cup HeadLabels \cup {"func_enter", "decl_kind"}
      BY <1>5 DEF Fresh, HeadLabels
    <3>10. i # 1
      BY <1>1, <2>1
    <3> QED  BY <1>2, <1>5, <2>1, <3>7, <3>8, <3>9, <3>10 DEF Placed, Fresh
  <2>2. CASE i \in 1..n
    <3>1. Placed(s[i], i, s) /\ t[i] = s[i]
      BY <1>2, <1>4, <2>2
    <3>2. i > 2 => t[2] = s[2]
      BY <1>1, <1>2, <2>2
    <3>3. s[i].at # "func_enter"
      BY <1>5, <1>7, <3>1 DEF Placed, Fresh
    <3> QED  BY <3>1, <3>2, <3>3 DEF Placed
  <2> QED  BY <1>6, <2>1, <2>2
<1>9. StackOK(t)
  BY <1>2, <1>8 DEF StackOK
<1>10. g.at \notin ScopeLabels \cup FuncLabels \cup HeadLabels
  BY <1>5 DEF Fresh, ScopeLabels
<1>11. \A i \in 1..(n + 1) :
         /\ t[i].at \in ScopeLabels <=> i \in 1..n /\ s[i].at \in ScopeLabels
         /\ t[i].at \in FuncLabels <=> i \in 1..n /\ s[i].at \in FuncLabels
         /\ t[i].at \in HeadLabels =>
              /\ i \in 1..n /\ s[i].at \in HeadLabels
              /\ t[i].func = s[i].func /\ t[i].own = s[i].own /\ t[i].rty = s[i].rty
  <2> SUFFICES ASSUME NEW i \in 1..(n + 1)
               PROVE
         /\ t[i].at \in ScopeLabels <=> i \in 1..n /\ s[i].at \in ScopeLabels
         /\ t[i].at \in FuncLabels <=> i \in 1..n /\ s[i].at \in FuncLabels
         /\ t[i].at \in HeadLabels =>
              /\ i \in 1..n /\ s[i].at \in HeadLabels
              /\ t[i].func = s[i].func /\ t[i].own = s[i].own /\ t[i].rty = s[i].rty
    OBVIOUS
  <2>1. CASE i = n + 1
    <3>1. i \notin 1..n
      BY <1>1, <2>1
    <3> QED  BY <1>2, <1>10, <2>1, <3>1
  <2>2. CASE i \in 1..n
    BY <1>2, <2>2
  <2> QED  BY <1>6, <2>1, <2>2
<1>12. \A i \in 1..n : i \in 1..(n + 1)
  BY <1>1
<1>13. /\ FramesOf(t, ScopeLabels) = FramesOf(s, ScopeLabels)
       /\ FramesOf(t, FuncLabels) = FramesOf(s, FuncLabels)
  BY <1>1, <1>3, <1>11, <1>12 DEF FramesOf
<1> QED  BY <1>2, <1>7, <1>9, <1>11, <1>13 DEF Kept

\* The frame on top is popped; the root never is.
Popped(s, t) ==
  /\ StackOK(t) /\ Len(s) \in Nat \ {0, 1} /\ DOMAIN s = 1..Len(s)
  /\ \A L : FramesOf(t, L) = FramesOf(s, L) \ {Len(s)}
  /\ Len(t) = Len(s) - 1
  /\ \A i \in 1..(Len(s) - 1) : t[i] = s[i]

LEMMA PopFacts ==
  ASSUME NEW s, StackOK(s), Last(s).at \notin RootLabels
  PROVE  Popped(s, Front(s))
<1> SUFFICES ASSUME NEW t, t = Front(s) PROVE Popped(s, t)
  BY Zenon
<1> DEFINE n == Len(s)
<1>1. n \in Nat \ {0} /\ Last(s) = s[n] /\ DOMAIN s = 1..n /\ IsSeq(s) /\ s # <<>>
  BY SeqLength DEF StackOK, Last
<1>2. IsSeq(t) /\ Len(t) = n - 1 /\ \A i \in 1..(n - 1) : t[i] = s[i]
  BY <1>1, FrontShape
<1>3. DOMAIN t = 1..(n - 1)
  BY <1>2, SeqLength
<1>4. \A i \in 1..n : Placed(s[i], i, s)
  BY DEF StackOK
<1> HIDE DEF n
<1>5. n # 1
  BY <1>1, <1>4 DEF Placed
<1>6. t # <<>>
  BY <1>1, <1>2, <1>5, EmptySeq
<1>7. ASSUME NEW i \in 1..(n - 1) PROVE Placed(t[i], i, t)
  <2>1. i \in 1..n /\ i # n
    BY <1>1
  <2>2. Placed(s[i], i, s) /\ t[i] = s[i]
    BY <1>2, <1>4, <2>1
  <2>3. i > 2 => t[2] = s[2]
    BY <1>1, <1>2, <2>1
  <2>4. s[i].at # "func_enter"
    BY <2>1, <2>2 DEF Placed, n
  <2> QED  BY <2>2, <2>3, <2>4 DEF Placed
<1>8. StackOK(t)
  BY <1>2, <1>6, <1>7 DEF StackOK
<1>9. \A i : i \in 1..(n - 1) <=> i \in (1..n) \ {n}
  BY <1>1
<1>10. ASSUME NEW L PROVE FramesOf(t, L) = FramesOf(s, L) \ {n}
  BY <1>1, <1>2, <1>3, <1>9 DEF FramesOf
<1>11. n \in Nat \ {0, 1}
  BY <1>1, <1>5
<1> QED  BY <1>1, <1>2, <1>8, <1>10, <1>11 DEF Popped, n

LEMMA PopKept ==
  ASSUME NEW s, StackOK(s), Last(s).at \notin RootLabels \cup ScopeLabels,
         NEW t, t = Front(s)
  PROVE  Kept(s, t)
<1> DEFINE n == Len(s)
<1>1. /\ StackOK(t) /\ n \in Nat \ {0, 1} /\ DOMAIN s = 1..n /\ Len(t) = n - 1
      /\ \A L : FramesOf(t, L) = FramesOf(s, L) \ {n}
      /\ \A i \in 1..(n - 1) : t[i] = s[i]
  <2>1. Popped(s, Front(s))
    BY PopFacts
  <2>2. Popped(s, t)
    BY <2>1, Zenon
  <2> QED  BY ONLY <2>2 DEF Popped
<1>2. s[n].at \notin ScopeLabels \cup FuncLabels
  BY DEF Last, ScopeLabels
<1> HIDE DEF n
<1>3. /\ FramesOf(t, ScopeLabels) = FramesOf(s, ScopeLabels)
      /\ FramesOf(t, FuncLabels) = FramesOf(s, FuncLabels)
  BY <1>1, <1>2 DEF FramesOf
<1>4. \A i \in 1..(n - 1) : i \in 1..n
  BY <1>1
<1> QED  BY <1>1, <1>3, <1>4 DEF Kept, n

LEMMA KeptTwice ==
  ASSUME NEW s, NEW t, NEW u, Kept(s, t), Kept(t, u) PROVE Kept(s, u)
BY DEF Kept

LEMMA NothingKept == ASSUME NEW s, StackOK(s) PROVE Kept(s, s)
BY DEF Kept

-----------------------------------------------------------------------------
(* The invariant, and the steps that neither open nor close a scope.       *)

\* The chain of scopes and the function's return type follow the stack, and
\* the global scope keeps the type the function being parsed was given.
DataOK ==
  /\ IsSeq(scopes) /\ Len(scopes) = 1 + Cardinality(FramesOf(stack, ScopeLabels))
  /\ DOMAIN scopes[1] = Names
  /\ FramesOf(stack, FuncLabels) = {} => funcRet = NullType
  /\ \A i \in FramesOf(stack, FuncLabels) : funcRet = stack[i].rty
  /\ \A i \in 1..Len(stack) : stack[i].at \in HeadLabels /\ stack[i].own =>
       scopes[1][stack[i].func].ty = type_func_new(stack[i].rty, stack[i].func)

StackInv ==
  /\ status \in {"run", "done", "crashed"}
  /\ status = "done" => scopes = <<>> /\ stack = <<>>
  /\ status # "done" => StackOK(stack) /\ DataOK

\* The chain keeps its length, and its outermost scope while a function is open.
QuietScopes ==
  \/ scopes' = scopes
  \/ /\ Top.at # "func_enter"
     /\ IsSeq(scopes') /\ Len(scopes') = Len(scopes)
     /\ DOMAIN scopes'[1] = Names
     /\ Len(scopes) >= 2 => scopes'[1] = scopes[1]

QuietMove ==
  \/ stack' = stack
  \/ \E f : Same(Top, f) /\ stack' = Append(Front(stack), f)
  \/ \E f, g : /\ Same(Top, f) /\ Fresh(f, g)
               /\ stack' = Append(Append(Front(stack), f), g)
  \/ Top.at \notin RootLabels \cup ScopeLabels /\ stack' = Front(stack)

QuietStep ==
  /\ status = "run" /\ status' \in {"run", "crashed"}
  /\ QuietMove /\ QuietScopes /\ funcRet' = funcRet

LEMMA QuietKept == ASSUME StackOK(stack), QuietMove PROVE Kept(stack, stack')
<1>1. CASE stack' = stack
  BY <1>1, NothingKept
<1>2. ASSUME NEW f, Same(Top, f), stack' = Append(Front(stack), f)
      PROVE  Kept(stack, stack')
  BY <1>2, ReplaceKept DEF Top
<1>3. ASSUME NEW f, NEW g, Same(Top, f), Fresh(f, g),
             stack' = Append(Append(Front(stack), f), g)
      PROVE  Kept(stack, stack')
  <2> DEFINE t == Append(Front(stack), f)
  <2>1. Kept(stack, t) /\ Len(t) = Len(stack) /\ t[Len(stack)] = f
    BY <1>3, ReplaceKept DEF Top
  <2>2. StackOK(t)
    BY <2>1 DEF Kept
  <2>3. Last(t) = f
    BY <2>1 DEF Last
  <2>4. Kept(t, Append(t, g))
    <3> HIDE DEF t
    <3> QED  BY <1>3, <2>2, <2>3, PushKept
  <2>5. Kept(stack, Append(t, g))
    <3> HIDE DEF t
    <3> QED  BY <2>1, <2>4, KeptTwice
  <2> QED  BY <1>3, <2>5
<1>4. CASE Top.at \notin RootLabels \cup ScopeLabels /\ stack' = Front(stack)
  BY <1>4, PopKept DEF Top
<1> QED  BY <1>1, <1>2, <1>3, <1>4 DEF QuietMove

\* The open scopes, counted from the stack.
LEMMA ScopeCount ==
  ASSUME NEW s, IsSeq(s), NEW L
  PROVE  /\ IsFiniteSet(FramesOf(s, L)) /\ Cardinality(FramesOf(s, L)) \in Nat
         /\ FramesOf(s, L) # {} => Cardinality(FramesOf(s, L)) >= 1
<1>1. DOMAIN s = 1..Len(s) /\ Len(s) \in Nat
  BY SeqLength
<1>2. IsFiniteSet(1..Len(s))
  <2>1. 1 \in Int /\ Len(s) \in Int
    BY <1>1
  <2> QED  BY <2>1, FS_Interval
<1>3. FramesOf(s, L) \subseteq 1..Len(s)
  BY <1>1 DEF FramesOf
<1>4. IsFiniteSet(FramesOf(s, L))
  BY <1>2, <1>3, FS_Subset
<1>5. Cardinality(FramesOf(s, L)) \in Nat
  BY <1>4, FS_CardinalityType
<1>6. FramesOf(s, L) # {} => Cardinality(FramesOf(s, L)) # 0
  BY <1>4, FS_EmptySet
<1> QED  BY <1>4, <1>5, <1>6

LEMMA QuietKeeps == ASSUME StackInv, QuietStep PROVE StackInv'
<1>1. StackOK(stack) /\ DataOK /\ status = "run" /\ status' \in {"run", "crashed"}
  BY DEF StackInv, QuietStep
<1>2. Kept(stack, stack')
  BY <1>1, QuietKept DEF QuietStep
<1>3. StackOK(stack')
  BY <1>2 DEF Kept
<1>4. /\ IsSeq(scopes') /\ Len(scopes') = Len(scopes) /\ DOMAIN scopes'[1] = Names
      /\ Len(scopes) >= 2 => scopes'[1] = scopes[1]
      /\ scopes' = scopes \/ Top.at # "func_enter"
  BY <1>1 DEF QuietStep, QuietScopes, DataOK
<1>5. ASSUME NEW i \in 1..Len(stack), stack[i].at \in HeadLabels
      PROVE  scopes'[1] = scopes[1]
  <2>1. CASE stack[i].at = "func_enter"
    <3>1. i = Len(stack)
      BY <1>1, <2>1 DEF StackOK, Placed
    <3>2. Top.at = "func_enter"
      BY <2>1, <3>1 DEF Top, Last
    <3> QED  BY <1>4, <3>2
  <2>2. CASE stack[i].at \in ScopeLabels
    <3>1. IsSeq(stack) /\ DOMAIN stack = 1..Len(stack)
      BY <1>1, SeqLength DEF StackOK
    <3>2. i \in FramesOf(stack, ScopeLabels)
      BY <2>2, <3>1 DEF FramesOf
    <3>3. /\ Cardinality(FramesOf(stack, ScopeLabels)) \in Nat
          /\ Cardinality(FramesOf(stack, ScopeLabels)) >= 1
      BY <3>1, <3>2, ScopeCount
    <3>4. Len(scopes) >= 2
      BY <1>1, <3>3 DEF DataOK
    <3> QED  BY <1>4, <3>4
  <2> QED  BY <1>5, <2>1, <2>2 DEF HeadLabels, ScopeLabels
<1>6. DataOK'
  <2>1. IsSeq(scopes') /\ Len(scopes') = 1 + Cardinality(FramesOf(stack', ScopeLabels))
    BY <1>1, <1>2, <1>4 DEF DataOK, Kept
  <2>2. funcRet' = funcRet
    BY DEF QuietStep
  <2>3. FramesOf(stack', FuncLabels) = {} => funcRet' = NullType
    BY <1>1, <1>2, <2>2 DEF DataOK, Kept
  <2>4. ASSUME NEW i \in FramesOf(stack', FuncLabels) PROVE funcRet' = stack'[i].rty
    <3>1. i \in FramesOf(stack, FuncLabels)
      BY <1>2 DEF Kept
    <3>2. DOMAIN stack' = 1..Len(stack')
      BY <1>3, SeqLength DEF StackOK
    <3>3. i \in 1..Len(stack') /\ stack'[i].at \in HeadLabels
      BY <3>2 DEF FramesOf, HeadLabels
    <3>4. stack'[i].rty = stack[i].rty
      BY <1>2, <3>3 DEF Kept
    <3> QED  BY <1>1, <2>2, <3>1, <3>4 DEF DataOK
  <2>5. ASSUME NEW i \in 1..Len(stack'), stack'[i].at \in HeadLabels, stack'[i].own
        PROVE  scopes'[1][stack'[i].func].ty
                 = type_func_new(stack'[i].rty, stack'[i].func)
    <3>1. /\ i \in 1..Len(stack) /\ stack[i].at \in HeadLabels
          /\ stack'[i].func = stack[i].func /\ stack'[i].own = stack[i].own
          /\ stack'[i].rty = stack[i].rty
      BY <1>2, <2>5 DEF Kept
    <3>2. scopes'[1] = scopes[1]
      BY <1>5, <3>1
    <3>3. scopes[1][stack[i].func].ty = type_func_new(stack[i].rty, stack[i].func)
      BY <1>1, <2>5, <3>1 DEF DataOK
    <3> QED  BY <3>1, <3>2, <3>3
  <2> QED  BY <1>4, <2>1, <2>3, <2>4, <2>5 DEF DataOK
<1> QED  BY <1>1, <1>3, <1>6 DEF StackInv

-----------------------------------------------------------------------------
(* What counts as such a step.                                             *)

LEMMA TopFacts ==
  ASSUME StackInv, status = "run"
  PROVE  /\ "at" \in DOMAIN Top
         /\ Top.at \in HeadLabels =>
              Top.func \in Names /\ {"func", "own", "rty"} \subseteq DOMAIN Top
<1>1. StackOK(stack)
  BY DEF StackInv
<1>2. Len(stack) \in Nat \ {0} /\ DOMAIN stack = 1..Len(stack)
  BY <1>1, SeqLength DEF StackOK
<1>3. Placed(Top, Len(stack), stack)
  BY <1>1, <1>2 DEF StackOK, Top, Last
<1> QED  BY <1>3 DEF Placed

\* The frame f where it was told to go on at label l.
LEMMA Retag ==
  ASSUME NEW e, "at" \in DOMAIN e, NEW l, NEW f, f = [e EXCEPT !.at = l]
  PROVE  /\ "at" \in DOMAIN f /\ f.at = l /\ DOMAIN f = DOMAIN e
         /\ {"func", "own", "rty"} \subseteq DOMAIN e =>
              f.func = e.func /\ f.own = e.own /\ f.rty = e.rty
OBVIOUS

LEMMA ResumeQuiet ==
  ASSUME status = "run", Pure, NEW f, NEW v, Same(Top, f), Resume(f, v)
  PROVE  QuietStep
BY DEF Pure, semaVars, Resume, QuietStep, QuietMove, QuietScopes

LEMMA CallQuiet ==
  ASSUME status = "run", Pure, NEW f, NEW g, Same(Top, f), Fresh(f, g), Call(f, g)
  PROVE  QuietStep
BY DEF Pure, semaVars, Call, QuietStep, QuietMove, QuietScopes

LEMMA ReturnQuiet ==
  ASSUME status = "run", Pure, Top.at \notin RootLabels \cup ScopeLabels,
         NEW v, Return(v)
  PROVE  QuietStep
BY DEF Pure, semaVars, Return, QuietStep, QuietMove, QuietScopes

LEMMA StayQuiet ==
  ASSUME status = "run", Pure, UNCHANGED stack PROVE QuietStep
BY DEF Pure, semaVars, QuietStep, QuietMove, QuietScopes

LEMMA DieQuiet == ASSUME status = "run", Die PROVE QuietStep
BY DEF Die, semaVars, QuietStep, QuietMove, QuietScopes

\* Frames of expressions, declarators, initializers and synchronize: they can
\* be anywhere on the stack, and know nothing of the function.
PlainLabels ==
  {"binary", "bin_lhs", "bin_rhs", "assign", "asg_lhs", "asg_rhs", "unary", "plus", "neg",
   "not", "paren", "ident", "args", "args_more", "index", "index_close", "var", "var_define",
   "var_init", "var_value", "var_check", "var_next", "var_name", "dims", "dim_len",
   "dim_close", "init", "init_first", "init_elem", "init_more", "sync"}

Plain(f) == "at" \in DOMAIN f /\ f.at \in PlainLabels

LEMMA PlainPlace ==
  ASSUME NEW f, f.at \in PlainLabels
  PROVE  /\ f.at \notin RootLabels \cup ScopeLabels \cup HeadLabels \cup BodyLabels
         /\ f.at \notin FuncLabels \cup {"decl_kind", "func_enter", "body"}
         /\ ~TopLevelFrame(f)
BY DEF PlainLabels, RootLabels, ScopeLabels, FuncLabels, HeadLabels, BodyLabels,
       TopLevelFrame

LEMMA PlainResume ==
  ASSUME status = "run", Pure, NEW f, NEW v, Top.at \in PlainLabels, Plain(f), Resume(f, v)
  PROVE  QuietStep
<1>1. Same(Top, f)
  BY PlainPlace DEF Same, Plain
<1> QED  BY <1>1, ResumeQuiet

LEMMA PlainGoto ==
  ASSUME status = "run", Pure, NEW f, Top.at \in PlainLabels, Plain(f), Goto(f)
  PROVE  QuietStep
BY PlainResume DEF Goto

LEMMA PlainCall ==
  ASSUME status = "run", Pure, NEW f, NEW g, Top.at \in PlainLabels, Plain(f), Plain(g),
         Call(f, g)
  PROVE  QuietStep
<1>1. Same(Top, f) /\ Fresh(f, g)
  BY PlainPlace DEF Same, Fresh, Plain
<1> QED  BY <1>1, CallQuiet

LEMMA PlainReturn ==
  ASSUME status = "run", Pure, Top.at \in PlainLabels, NEW v, Return(v)
  PROVE  QuietStep
BY PlainPlace, ReturnQuiet

LEMMA PlainCallExpr ==
  ASSUME status = "run", Pure, Top.at \in PlainLabels, NEW f, Plain(f), CallExpr(f)
  PROVE  QuietStep
<1> DEFINE g == [at |-> "binary", prec |-> 0]
<1>1. Plain(g)
  BY DEF Plain, PlainLabels
<1>2. Call(f, g)
  BY DEF CallExpr
<1> HIDE DEF g
<1> QED  BY <1>1, <1>2, PlainCall

LEMMA PlainCallAssign ==
  ASSUME status = "run", Pure, Top.at \in PlainLabels, NEW f, Plain(f), CallAssign(f)
  PROVE  QuietStep
<1> DEFINE g == Frame("assign")
<1>1. Plain(g)
  BY DEF Plain, PlainLabels, Frame
<1>2. Call(f, g)
  BY DEF CallAssign
<1> HIDE DEF g
<1> QED  BY <1>1, <1>2, PlainCall

LEMMA ExpressionsQuiet == ASSUME StackInv, Expressions PROVE QuietStep
<1>0. ASSUME status = "run" PROVE "at" \in DOMAIN Top
  BY <1>0, TopFacts
<1>1. CASE ParseBinary
  BY <1>1, PlainCall DEF ParseBinary, At, Frame, Plain, PlainLabels
<1>2. CASE BinaryOperator
  BY <1>2, PlainCall DEF BinaryOperator, At, Frame, Plain, PlainLabels
<1>3. CASE BinaryEnd
  BY <1>3, PlainReturn DEF BinaryEnd, At, PlainLabels
<1>4. CASE BinaryBuild
  BY <1>4, PlainResume DEF BinaryBuild, At, Frame, Plain, PlainLabels
<1>5. CASE BinaryNull
  BY <1>5, DieQuiet DEF BinaryNull, At, Crash
<1>6. CASE ParseAssign
  BY <1>6, PlainCallExpr DEF ParseAssign, At, Frame, Plain, PlainLabels
<1>7. CASE AssignOperator
  BY <1>7, PlainCallAssign DEF AssignOperator, At, Frame, Plain, PlainLabels
<1>8. CASE AssignNone
  BY <1>8, PlainReturn DEF AssignNone, At, PlainLabels
<1>9. CASE AssignBuild
  BY <1>9, PlainReturn DEF AssignBuild, At, PlainLabels
<1>10. CASE AssignNull
  BY <1>10, DieQuiet DEF AssignNull, At, Crash
<1>11. CASE UnaryOperator
  <2>1. CASE Kind = "PLUS"
    BY <1>11, <2>1, PlainCall DEF UnaryOperator, At, Frame, Plain, PlainLabels
  <2>2. CASE Kind = "MINUS"
    BY <1>11, <2>2, PlainCall DEF UnaryOperator, At, Frame, Plain, PlainLabels
  <2>3. CASE Kind = "LOG_NOT"
    BY <1>11, <2>3, PlainCall DEF UnaryOperator, At, Frame, Plain, PlainLabels
  <2> QED  BY <1>11, <2>1, <2>2, <2>3 DEF UnaryOperator, PrefixOps
<1>12. CASE UnaryBuild
  BY <1>12, PlainReturn DEF UnaryBuild, At, PlainLabels
<1>13. CASE PrimaryLiteral
  BY <1>13, PlainReturn DEF PrimaryLiteral, At, PlainLabels
<1>14. CASE PrimaryParen
  BY <1>14, PlainCallExpr DEF PrimaryParen, At, Frame, Plain, PlainLabels
<1>15. CASE ParenClose
  BY <1>15, PlainReturn DEF ParenClose, At, PlainLabels
<1>16. CASE PrimaryIdent
  BY <1>16, PlainGoto DEF PrimaryIdent, At, Frame, Plain, PlainLabels
<1>17. CASE PrimaryNone
  BY <1>17, PlainReturn DEF PrimaryNone, At, PlainLabels
<1>18. CASE CallOpen
  BY <1>18, PlainGoto DEF CallOpen, At, Frame, Plain, PlainLabels
<1>19. CASE ArgFirst
  BY <1>0, <1>19, Retag, PlainCallAssign DEF ArgFirst, At, Plain, PlainLabels
<1>20. CASE ArgNext
  BY <1>0, <1>20, PlainCallAssign DEF ArgNext, At, Plain, PlainLabels
<1>21. CASE CallClose
  BY <1>21, PlainReturn DEF CallClose, At, AtArgsEnd, PlainLabels
<1>22. CASE CallTypeless
  BY <1>22, DieQuiet DEF CallTypeless, At, AtArgsEnd
<1>23. CASE Variable
  BY <1>23, PlainResume DEF Variable, At, Frame, Plain, PlainLabels
<1>24. CASE IndexOpen
  BY <1>24, PlainCallExpr DEF IndexOpen, At, Frame, Plain, PlainLabels
<1>25. CASE IndexEnd
  BY <1>25, PlainReturn DEF IndexEnd, At, PlainLabels
<1>26. CASE IndexClose
  BY <1>26, PlainResume DEF IndexClose, At, Frame, Plain, PlainLabels
<1> QED  BY <1>1, <1>2, <1>3, <1>4, <1>5, <1>6, <1>7, <1>8, <1>9, <1>10, <1>11,
            <1>12, <1>13, <1>14, <1>15, <1>16, <1>17, <1>18, <1>19, <1>20,
            <1>21, <1>22, <1>23, <1>24, <1>25, <1>26 DEF Expressions

\* f is an inner frame of a statement: not the block whose scope is open.
StmtLabels == BodyLabels \ {"block"}
InStmt(f) == "at" \in DOMAIN f /\ f.at \in StmtLabels

LEMMA BodyPlace ==
  ASSUME NEW f, f.at \in StmtLabels
  PROVE  /\ f.at \notin RootLabels \cup ScopeLabels \cup HeadLabels
         /\ f.at \notin FuncLabels \cup {"decl_kind", "func_enter", "body"}
         /\ f.at \in BodyLabels /\ ~TopLevelFrame(f)
BY DEF StmtLabels, RootLabels, ScopeLabels, FuncLabels, HeadLabels, BodyLabels,
       TopLevelFrame

LEMMA BodyGoto ==
  ASSUME status = "run", Pure, NEW f, Top.at \in StmtLabels, InStmt(f), Goto(f)
  PROVE  QuietStep
<1>1. Same(Top, f)
  BY BodyPlace DEF Same, InStmt
<1> QED  BY <1>1, ResumeQuiet DEF Goto

LEMMA BodyCall ==
  ASSUME status = "run", Pure, NEW f, NEW g, Top.at \in StmtLabels, InStmt(f),
         Plain(g) \/ InStmt(g), Call(f, g)
  PROVE  QuietStep
<1>1. Same(Top, f)
  BY BodyPlace DEF Same, InStmt
<1>2. Fresh(f, g)
  BY BodyPlace, PlainPlace DEF Fresh, InStmt, Plain
<1> QED  BY <1>1, <1>2, CallQuiet

LEMMA BodyCallExpr ==
  ASSUME status = "run", Pure, Top.at \in StmtLabels, NEW f, InStmt(f), CallExpr(f)
  PROVE  QuietStep
<1> DEFINE g == [at |-> "binary", prec |-> 0]
<1>1. Plain(g)
  BY DEF Plain, PlainLabels
<1>2. Call(f, g)
  BY DEF CallExpr
<1> HIDE DEF g
<1> QED  BY <1>1, <1>2, BodyCall

LEMMA BodyReturn ==
  ASSUME status = "run", Pure, Top.at \in StmtLabels, NEW v, Return(v)
  PROVE  QuietStep
BY BodyPlace, ReturnQuiet

\* The loops of parse_block and parse_func call and stay where they are.
LEMMA LoopCall ==
  ASSUME StackInv, Pure, AtBlock, NEW g, "at" \in DOMAIN g,
         g.at \in {"sync", "stmt"} \/ (g.at = "decl" /\ ~g.top), Call(Top, g)
  PROVE  QuietStep
<1>1. status = "run" /\ Top.at \in {"block", "body"}
  BY DEF AtBlock, At
<1>2. /\ "at" \in DOMAIN Top
      /\ Top.at \in HeadLabels => {"func", "own", "rty"} \subseteq DOMAIN Top
  BY <1>1, TopFacts
<1>3. Same(Top, Top)
  BY <1>1, <1>2 DEF Same
<1>4. Fresh(Top, g)
  BY <1>1 DEF Fresh, RootLabels, ScopeLabels, HeadLabels, FuncLabels, BodyLabels,
              TopLevelFrame
<1> QED  BY <1>1, <1>3, <1>4, CallQuiet

LEMMA StmtRetag ==
  ASSUME StackInv, status = "run", NEW l \in StmtLabels
  PROVE  InStmt([Top EXCEPT !.at = l])
BY TopFacts, Retag DEF InStmt

LEMMA StatementsQuiet ==
  ASSUME StackInv, Statements
  PROVE  QuietStep \/ BlockOpen \/ BlockEnd
<1>1. CASE BlockOpen
  BY <1>1
<1>2. CASE BlockSync
  BY <1>2, LoopCall DEF BlockSync, InBlock, Frame
<1>3. CASE BlockSkip
  BY <1>3, StayQuiet DEF BlockSkip, InBlock, AtBlock, At
<1>4. CASE BlockDecl
  BY <1>4, LoopCall DEF BlockDecl, InBlock
<1>5. CASE BlockStmt
  BY <1>5, LoopCall DEF BlockStmt, InBlock, CallStmt, Frame
<1>6. CASE BlockEnd
  BY <1>6
<1>7. CASE StmtCond
  BY <1>7, BodyGoto DEF StmtCond, At, Frame, InStmt, StmtLabels, BodyLabels
<1>8. CASE CondOpen
  BY <1>8, StmtRetag, BodyCallExpr DEF CondOpen, At, StmtLabels, BodyLabels
<1>9. CASE CondClose
  <2>1. CASE Top.word = "IF"
    BY <1>9, <2>1, BodyCall DEF CondClose, CallStmt, At, Frame, InStmt, StmtLabels,
     BodyLabels
  <2>2. CASE Top.word # "IF"
    BY <1>9, <2>2, BodyCall DEF CondClose, CallStmt, At, Frame, InStmt, StmtLabels,
     BodyLabels
  <2> QED  BY <2>1, <2>2
<1>10. CASE StmtElse
  BY <1>10, BodyCall DEF StmtElse, CallStmt, At, Frame, InStmt, StmtLabels, BodyLabels
<1>11. CASE StmtNoElse
  BY <1>11, BodyReturn DEF StmtNoElse, At, StmtLabels, BodyLabels
<1>12. CASE StmtJump
  BY <1>12, BodyGoto DEF StmtJump, At, Frame, InStmt, StmtLabels, BodyLabels
<1>13. CASE Semicolon
  BY <1>13, BodyReturn DEF Semicolon, At, StmtLabels, BodyLabels
<1>14. CASE StmtBlock
  BY <1>14, BodyGoto DEF StmtBlock, At, Frame, InStmt, StmtLabels, BodyLabels
<1>15. CASE StmtReturn
  BY <1>15, BodyGoto DEF StmtReturn, At, Frame, InStmt, StmtLabels, BodyLabels
<1>16. CASE ReturnValue
  BY <1>16, BodyCallExpr DEF ReturnValue, At, Frame, InStmt, StmtLabels, BodyLabels
<1>17. CASE ReturnEnd
  BY <1>17, BodyReturn DEF ReturnEnd, At, StmtLabels, BodyLabels
<1>18. CASE ReturnVoid
  BY <1>18, BodyReturn, DieQuiet DEF ReturnVoid, At, StmtLabels, BodyLabels
<1>19. CASE StmtExpr
  BY <1>19, BodyCallExpr DEF StmtExpr, At, Frame, InStmt, StmtLabels, BodyLabels
<1>20. CASE StmtExprNull
  BY <1>20, BodyReturn DEF StmtExprNull, At, StmtLabels, BodyLabels
<1>21. CASE StmtAssign
  BY <1>21, BodyCallExpr DEF StmtAssign, At, Frame, InStmt, StmtLabels, BodyLabels
<1>22. CASE StmtAssignBuild
  BY <1>22, BodyGoto DEF StmtAssignBuild, At, Frame, InStmt, StmtLabels, BodyLabels
<1>23. CASE StmtExprEnd
  BY <1>23, BodyReturn DEF StmtExprEnd, At, StmtLabels, BodyLabels
<1>24. CASE StmtEnd
  BY <1>24, BodyReturn DEF StmtEnd, At, StmtLabels, BodyLabels
<1> QED  BY <1>1, <1>2, <1>3, <1>4, <1>5, <1>6, <1>7, <1>8, <1>9, <1>10, <1>11,
            <1>12, <1>13, <1>14, <1>15, <1>16, <1>17, <1>18, <1>19, <1>20,
            <1>21, <1>22, <1>23, <1>24 DEF Statements

\* The frames of a declaration whose kind is not known yet.
DeclLabels == {"decl", "decl_type", "decl_name"}

LEMMA DeclPlace ==
  ASSUME NEW f, f.at \in DeclLabels
  PROVE  /\ f.at \notin RootLabels \cup ScopeLabels \cup HeadLabels \cup BodyLabels
         /\ f.at \notin FuncLabels \cup {"decl_kind", "func_enter", "body"}
         /\ TopLevelFrame(f) <=> f.top
BY DEF DeclLabels, RootLabels, ScopeLabels, FuncLabels, HeadLabels, BodyLabels,
       TopLevelFrame

LEMMA DeclGoto ==
  ASSUME status = "run", Pure, Top.at \in DeclLabels, NEW f, "at" \in DOMAIN f,
         f.at \in DeclLabels, f.top = Top.top, Goto(f)
  PROVE  QuietStep
<1>1. Same(Top, f)
  BY DeclPlace DEF Same
<1> QED  BY <1>1, ResumeQuiet DEF Goto

LEMMA DeclReturn ==
  ASSUME status = "run", Pure, Top.at \in DeclLabels, NEW v, Return(v)
  PROVE  QuietStep
BY DeclPlace, ReturnQuiet

\* What was being declared is a variable after all.
LEMMA ToPlain ==
  ASSUME status = "run", Pure, Top.at \notin RootLabels \cup ScopeLabels, NEW f, Plain(f),
         Goto(f)
  PROVE  QuietStep
<1>1. Same(Top, f)
  BY PlainPlace DEF Same, Plain, ScopeLabels, FuncLabels
<1> QED  BY <1>1, ResumeQuiet DEF Goto

LEMMA PlainRetag ==
  ASSUME StackInv, status = "run", NEW l \in PlainLabels
  PROVE  Plain([Top EXCEPT !.at = l])
BY TopFacts, Retag DEF Plain

\* A declaration changes the innermost scope only: the global one stays as it
\* is while a function is open.
LEMMA DefineQuiet ==
  ASSUME StackInv, status = "run", NEW n, NEW ty, NEW c, sema_define_var(n, ty, c)
  PROVE  /\ IsSeq(scopes') /\ Len(scopes') = Len(scopes) /\ DOMAIN scopes'[1] = Names
         /\ Len(scopes) >= 2 => scopes'[1] = scopes[1]
<1>1. StackOK(stack) /\ DataOK
  BY DEF StackInv
<1> DEFINE L == Len(scopes)
           m == [scopes[L] EXCEPT ![n] =
                   [ty |-> ty, is_const |-> c, is_global |-> Len(scopes) = 1]]
           t == [scopes EXCEPT ![L] = m]
<1>2. IsSeq(scopes) /\ DOMAIN scopes = 1..L /\ L \in Nat /\ DOMAIN scopes[1] = Names
  BY <1>1, SeqLength DEF DataOK
<1>3. DOMAIN m = DOMAIN scopes[L]
  OBVIOUS
<1>4. scopes' = scopes \/ scopes' = t
  BY DEF sema_define_var
<1>5. DOMAIN t = 1..L /\ \A i \in 1..L : t[i] = IF i = L THEN m ELSE scopes[i]
  BY <1>2
<1> HIDE DEF m
<1>6. t \in Seq({t[i] : i \in 1..L}) /\ Len(t) = L
  <2>1. t \in [1..L -> {t[i] : i \in 1..L}]
    BY <1>5
  <2> HIDE DEF t
  <2> QED  BY <1>2, <2>1, FunctionIsSeq
<1>7. L >= 1
  <2>1. Cardinality(FramesOf(stack, ScopeLabels)) \in Nat
    BY <1>1, ScopeCount DEF StackOK
  <2> QED  BY <1>1, <2>1 DEF DataOK
<1>8. DOMAIN t[1] = Names /\ (L >= 2 => t[1] = scopes[1])
  BY <1>2, <1>3, <1>5, <1>7
<1> HIDE DEF t
<1> QED  BY <1>2, <1>4, <1>6, <1>8 DEF IsSeq

LEMMA DefineResume ==
  ASSUME StackInv, status = "run", NEW n, NEW ty, NEW c, sema_define_var(n, ty, c),
         UNCHANGED <<funcRet, status>>, Top.at # "func_enter",
         NEW f, Same(Top, f), Goto(f)
  PROVE  QuietStep
<1>1. QuietScopes
  BY DefineQuiet DEF QuietScopes
<1> QED  BY <1>1 DEF Goto, Resume, QuietStep, QuietMove

LEMMA DeclarationsQuiet ==
  ASSUME StackInv, TokenInv, Declarations
  PROVE  QuietStep
<1>1. CASE DeclConst
  BY <1>1, DeclGoto DEF DeclConst, At, DeclLabels
<1>2. CASE DeclNotConst
  BY <1>2, DeclGoto DEF DeclNotConst, At, DeclLabels
<1>3. CASE DeclType
  BY <1>3, DeclGoto DEF DeclType, At, DeclLabels
<1>4. CASE DeclNoType
  BY <1>4, DeclReturn DEF DeclNoType, At, DeclLabels
<1>5. CASE DeclName
  <2> DEFINE f == [at |-> IF Top.top THEN "decl_kind" ELSE "var", base |-> Top.base,
                   is_const |-> Top.is_const, name |-> curr.name]
  <2>1. status = "run" /\ Pure /\ Top.at \in DeclLabels /\ Goto(f)
    BY <1>5 DEF DeclName, At, DeclLabels
  <2>2. curr.name \in Names
    BY <1>5 DEF DeclName, Match, Kind, TokenInv, TokenType
  <2>3. CASE Top.top
    <3>1. "at" \in DOMAIN f /\ f.at = "decl_kind" /\ f.name = curr.name
      BY <2>3
    <3> HIDE DEF f
    <3>2. Same(Top, f)
      BY <2>1, <2>2, <2>3, <3>1, DeclPlace DEF Same, RootLabels, ScopeLabels,
     HeadLabels,
         FuncLabels, BodyLabels, TopLevelFrame
    <3> QED  BY <2>1, <3>2, ResumeQuiet DEF Goto
  <2>4. CASE ~Top.top
    <3>1. Plain(f)
      BY <2>4 DEF Plain, PlainLabels
    <3> HIDE DEF f
    <3> QED  BY <2>1, <3>1, DeclPlace, ToPlain
  <2> QED  BY <2>3, <2>4
<1>6. CASE DeclNoName
  BY <1>6, DeclReturn DEF DeclNoName, At, DeclLabels
<1>7. CASE DeclVars
  <2>1. Plain([Top EXCEPT !.at = "var"])
    BY <1>7, PlainRetag DEF DeclVars, At, PlainLabels
  <2>2. Top.at \notin RootLabels \cup ScopeLabels
    BY <1>7 DEF DeclVars, At, RootLabels, ScopeLabels, FuncLabels
  <2> QED  BY <1>7, <2>1, <2>2, ToPlain DEF DeclVars, At
<1>8. CASE VarDims
  BY <1>8, PlainRetag, PlainCall DEF VarDims, At, Plain, PlainLabels
<1>9. CASE VarDefine
  <2> DEFINE f == [at |-> "var_init", base |-> Top.base, is_const |-> Top.is_const,
                   ty |-> ret.ty]
  <2>1. Plain(f)
    BY DEF Plain, PlainLabels
  <2>2. status = "run" /\ Top.at = "var_define" /\ Goto(f)
    BY <1>9 DEF VarDefine, At
  <2>3. UNCHANGED <<funcRet, status>> /\ sema_define_var(Top.name, ret.ty, Top.is_const)
    BY <1>9 DEF VarDefine
  <2> HIDE DEF f
  <2>4. Top.at \in PlainLabels
    BY <2>2 DEF PlainLabels
  <2>5. Same(Top, f)
    BY <2>1, <2>4, PlainPlace DEF Same, Plain
  <2> QED  BY <2>2, <2>3, <2>5, DefineResume
<1>10. CASE VarAssign
  BY <1>10, PlainRetag, PlainGoto DEF VarAssign, At, PlainLabels
<1>11. CASE VarNoInit
  BY <1>11, PlainGoto DEF VarNoInit, VarRest, At, Plain, PlainLabels
<1>12. CASE VarInitList
  BY <1>12, PlainCall DEF VarInitList, VarRest, At, Frame, Plain, PlainLabels
<1>13. CASE VarInitExpr
  BY <1>13, PlainRetag, PlainCallExpr DEF VarInitExpr, At, Plain, PlainLabels
<1>14. CASE VarCheck
  BY <1>14, PlainGoto DEF VarCheck, VarRest, At, Plain, PlainLabels
<1>15. CASE VarComma
  BY <1>15, PlainRetag, PlainGoto DEF VarComma, At, PlainLabels
<1>16. CASE VarEnd
  BY <1>16, PlainReturn DEF VarEnd, At, PlainLabels
<1>17. CASE VarName
  BY <1>17, PlainGoto DEF VarName, At, Frame, Plain, PlainLabels
<1>18. CASE VarNoName
  BY <1>18, PlainReturn DEF VarNoName, At, PlainLabels
<1>19. CASE DimOpen
  BY <1>19, PlainRetag, PlainGoto DEF DimOpen, At, PlainLabels
<1>20. CASE DimsEnd
  BY <1>20, PlainReturn DEF DimsEnd, At, PlainLabels
<1>21. CASE DimLen
  BY <1>21, PlainGoto DEF DimLen, At, Frame, Plain, PlainLabels
<1>22. CASE DimNoLen
  BY <1>22, PlainRetag, PlainGoto DEF DimNoLen, At, PlainLabels
<1>23. CASE DimClose
  BY <1>23, PlainGoto DEF DimClose, At, Frame, Plain, PlainLabels
<1>24. CASE DimNull
  BY <1>24, DieQuiet DEF DimNull, At
<1>25. CASE InitOpen
  BY <1>25, PlainGoto DEF InitOpen, At, Frame, Plain, PlainLabels
<1>26. CASE InitEmpty
  BY <1>26, PlainReturn DEF InitEmpty, At, PlainLabels
<1>27. CASE InitElem
  <2>1. CASE Kind = "L_BRACE"
    BY <1>27, <2>1, PlainCall DEF InitElem, At, Frame, Plain, PlainLabels
  <2>2. CASE Kind # "L_BRACE"
    BY <1>27, <2>2, PlainCallAssign DEF InitElem, At, Frame, Plain, PlainLabels
  <2> QED  BY <2>1, <2>2
<1>28. CASE InitComma
  BY <1>28, PlainGoto DEF InitComma, At, Frame, Plain, PlainLabels
<1>29. CASE InitClose
  BY <1>29, PlainReturn DEF InitClose, At, PlainLabels
<1> QED  BY <1>1, <1>2, <1>3, <1>4, <1>5, <1>6, <1>7, <1>8, <1>9, <1>10, <1>11,
            <1>12, <1>13, <1>14, <1>15, <1>16, <1>17, <1>18, <1>19, <1>20,
            <1>21, <1>22, <1>23, <1>24, <1>25, <1>26, <1>27, <1>28,
            <1>29 DEF Declarations

\* f carries on with the function of the frame on top.
Carries(f) ==
  /\ "at" \in DOMAIN f /\ {"func", "own", "rty"} \subseteq DOMAIN f
  /\ f.func = Top.func /\ f.own = Top.own /\ f.rty = Top.rty

LEMMA HeadSame ==
  ASSUME Top.at \in FuncLabels \ {"body"}, NEW f, f.at \in FuncLabels, Carries(f)
  PROVE  Same(Top, f)
BY DEF Carries, Same, RootLabels, ScopeLabels, FuncLabels, HeadLabels, BodyLabels,
       TopLevelFrame

LEMMA HeadResume ==
  ASSUME status = "run", Pure, Top.at \in FuncLabels \ {"body"}, NEW f, f.at \in FuncLabels,
         Carries(f), NEW v, Resume(f, v)
  PROVE  QuietStep
BY HeadSame, ResumeQuiet

LEMMA HeadGoto ==
  ASSUME status = "run", Pure, Top.at \in FuncLabels \ {"body"}, NEW f, f.at \in FuncLabels,
         Carries(f), Goto(f)
  PROVE  QuietStep
BY HeadResume DEF Goto

LEMMA HeadCall ==
  ASSUME status = "run", Pure, Top.at \in FuncLabels \ {"body"}, NEW f, f.at \in FuncLabels,
         Carries(f), NEW g, Plain(g), Call(f, g)
  PROVE  QuietStep
<1>1. Fresh(f, g)
  BY PlainPlace DEF Fresh, Plain, FuncLabels
<1> QED  BY <1>1, HeadSame, CallQuiet

LEMMA HeadRetag ==
  ASSUME StackInv, status = "run", Top.at \in FuncLabels, NEW l,
         NEW f, f = [Top EXCEPT !.at = l]
  PROVE  Carries(f) /\ f.at = l
BY TopFacts, Retag DEF Carries, HeadLabels

LEMMA FunctionsQuiet ==
  ASSUME StackInv, Functions
  PROVE  QuietStep \/ FuncOpen \/ FuncEnter \/ BodyEnd
<1>1. CASE FuncOpen
  BY <1>1
<1>2. CASE FuncEnter
  BY <1>2
<1>3. CASE ParamType
  BY <1>3, HeadGoto DEF ParamType, At, ParamFrame, Carries, FuncLabels
<1>4. CASE ParamName
  BY <1>4, HeadGoto DEF ParamName, At, ParamFrame, Carries, FuncLabels
<1>5. CASE ParamArray
  BY <1>5, HeadRetag, HeadGoto DEF ParamArray, At, FuncLabels
<1>6. CASE ParamScalar
  BY <1>6, HeadRetag, HeadResume DEF ParamScalar, At, FuncLabels
<1>7. CASE ParamOpenArray
  BY <1>7, HeadRetag, HeadCall DEF ParamOpenArray, ParamDims, At, FuncLabels,
     Plain, PlainLabels
<1>8. CASE ParamLen
  BY <1>8, HeadGoto DEF ParamLen, At, ParamFrame, Carries, FuncLabels
<1>9. CASE ParamNoLen
  BY <1>9, HeadRetag, HeadCall DEF ParamNoLen, ParamDims, At, FuncLabels, Plain,
     PlainLabels
<1>10. CASE ParamClose
  BY <1>10, HeadCall DEF ParamClose, ParamFrame, Carries, At, FuncLabels, Plain,
     PlainLabels
<1>11. CASE ParamNull
  BY <1>11, DieQuiet DEF ParamNull, At
<1>12. CASE ParamDefine
  <2> DEFINE f == FuncFrame("param_next")
  <2>1. f.at \in FuncLabels /\ Carries(f)
    BY DEF FuncFrame, Carries, FuncLabels
  <2>2. status = "run" /\ Top.at = "param_define" /\ Goto(f)
    BY <1>12 DEF ParamDefine, At
  <2>3. UNCHANGED <<funcRet, status>> /\ sema_define_var(Top.name, ret.ty, FALSE)
    BY <1>12 DEF ParamDefine
  <2> HIDE DEF f
  <2>4. Same(Top, f)
    BY <2>1, <2>2, HeadSame DEF FuncLabels
  <2> QED  BY <2>2, <2>3, <2>4, DefineResume
<1>13. CASE ParamComma
  BY <1>13, HeadGoto DEF ParamComma, At, FuncFrame, Carries, FuncLabels
<1>14. CASE ParamsEnd
  BY <1>14, HeadGoto DEF ParamsEnd, At, FuncFrame, Carries, FuncLabels
<1>15. CASE BodyOpen
  BY <1>15, HeadRetag, HeadGoto DEF BodyOpen, At, FuncLabels
<1>16. CASE BodyEnd
  BY <1>16
<1> QED  BY <1>1, <1>2, <1>3, <1>4, <1>5, <1>6, <1>7, <1>8, <1>9, <1>10, <1>11,
            <1>12, <1>13, <1>14, <1>15, <1>16 DEF Functions

\* The loop of parser_parse.
LEMMA RootGoto ==
  ASSUME status = "run", UNCHANGED <<semaVars, status>>, Top.at \in RootLabels,
         NEW l \in RootLabels, Goto(Frame(l))
  PROVE  QuietStep
<1> DEFINE f == Frame(l)
<1>1. Same(Top, f)
  BY DEF Same, Frame, RootLabels, ScopeLabels, FuncLabels, HeadLabels, BodyLabels,
         TopLevelFrame
<1>2. stack' = Append(Front(stack), f)
  BY DEF Goto, Resume
<1> HIDE DEF f
<1> QED  BY <1>1, <1>2 DEF semaVars, QuietStep, QuietMove, QuietScopes

LEMMA RootCall ==
  ASSUME status = "run", Pure, Top.at \in RootLabels, NEW l \in RootLabels,
         NEW g, "at" \in DOMAIN g, g.at \in {"decl", "sync"}, Call(Frame(l), g)
  PROVE  QuietStep
<1> DEFINE f == Frame(l)
<1>1. Same(Top, f)
  BY DEF Same, Frame, RootLabels, ScopeLabels, FuncLabels, HeadLabels, BodyLabels,
         TopLevelFrame
<1>2. Fresh(f, g)
  BY DEF Fresh, Frame, RootLabels, ScopeLabels, FuncLabels, HeadLabels, BodyLabels
<1> HIDE DEF f
<1> QED  BY <1>1, <1>2, CallQuiet DEF f

LEMMA TopLevelQuiet ==
  ASSUME StackInv, TopLevel
  PROVE  QuietStep \/ GlobalsEnd
<1>1. CASE GlobalNext
  BY <1>1, RootCall DEF GlobalNext, At, RootLabels
<1>2. CASE GlobalKeep
  BY <1>2, RootGoto DEF GlobalKeep, Pure, At, RootLabels
<1>3. CASE GlobalSync
  BY <1>3, RootCall DEF GlobalSync, Frame, At, RootLabels
<1>4. CASE GlobalNoSync
  BY <1>4, RootGoto DEF GlobalNoSync, Pure, At, RootLabels
<1>5. CASE GlobalSkip
  BY <1>5, RootGoto DEF GlobalSkip, Pure, At, RootLabels
<1>6. CASE GlobalsEnd
  BY <1>6
<1>7. CASE SyncSkip
  BY <1>7, StayQuiet DEF SyncSkip, At
<1>8. CASE SyncEnd
  BY <1>8, PlainReturn DEF SyncEnd, At, PlainLabels
<1> QED  BY <1>1, <1>2, <1>3, <1>4, <1>5, <1>6, <1>7, <1>8 DEF TopLevel

-----------------------------------------------------------------------------
(* The steps that open and close scopes.                                   *)

\* The frames of the function being parsed stand right above the root, so there
\* is at most one; a block is never at the bottom.
LEMMA HeadPlace ==
  ASSUME NEW s, StackOK(s), NEW i \in 1..Len(s), s[i].at \in HeadLabels PROVE i = 2
BY DEF StackOK, Placed, TopLevelFrame

LEMMA ChainEnter ==
  ASSUME IsSeq(scopes), Len(scopes) >= 1, sema_scope_enter
  PROVE  IsSeq(scopes') /\ Len(scopes') = Len(scopes) + 1 /\ scopes'[1] = scopes[1]
<1>1. Len(scopes) \in Nat /\ 1 \in 1..Len(scopes)
  BY SeqLength
<1>2. \A t : t = Append(scopes, EmptyScope) =>
        /\ IsSeq(t) /\ Len(t) = Len(scopes) + 1
        /\ \A i \in 1..Len(scopes) : t[i] = scopes[i]
  BY AppendShape
<1>3. scopes' = Append(scopes, EmptyScope)
  BY DEF sema_scope_enter
<1>4. /\ IsSeq(scopes') /\ Len(scopes') = Len(scopes) + 1
      /\ \A i \in 1..Len(scopes) : scopes'[i] = scopes[i]
  BY ONLY <1>2, <1>3
<1> QED  BY <1>1, <1>4

LEMMA ChainLeave ==
  ASSUME IsSeq(scopes), Len(scopes) >= 1, sema_scope_leave
  PROVE  /\ IsSeq(scopes') /\ Len(scopes') = Len(scopes) - 1
         /\ Len(scopes) >= 2 => scopes'[1] = scopes[1]
<1>1. Len(scopes) \in Nat /\ scopes # <<>>
  BY SeqLength, EmptySeq
<1>2. \A t : t = Front(scopes) =>
        /\ IsSeq(t) /\ Len(t) = Len(scopes) - 1
        /\ \A i \in 1..(Len(scopes) - 1) : t[i] = scopes[i]
  BY <1>1, FrontShape
<1>3. scopes' = Front(scopes)
  BY <1>1 DEF sema_scope_leave
<1>4. /\ IsSeq(scopes') /\ Len(scopes') = Len(scopes) - 1
      /\ \A i \in 1..(Len(scopes) - 1) : scopes'[i] = scopes[i]
  BY ONLY <1>2, <1>3
<1>5. Len(scopes) >= 2 => 1 \in 1..(Len(scopes) - 1)
  BY <1>1
<1> QED  BY <1>4, <1>5

\* What the stack and the chain say in a running state.
LEMMA RunFacts ==
  ASSUME StackInv, status = "run"
  PROVE  /\ StackOK(stack) /\ DataOK /\ Len(scopes) \in Nat /\ Len(scopes) >= 1
         /\ DOMAIN stack = 1..Len(stack) /\ Len(stack) \in Nat \ {0}
         /\ Top = Last(stack) /\ Last(stack) = stack[Len(stack)]
         /\ Placed(Top, Len(stack), stack)
         /\ Cardinality(FramesOf(stack, ScopeLabels)) \in Nat
         /\ IsFiniteSet(FramesOf(stack, ScopeLabels))
<1>1. StackOK(stack) /\ DataOK
  BY DEF StackInv
<1>2. /\ DOMAIN stack = 1..Len(stack) /\ Len(stack) \in Nat \ {0}
      /\ Last(stack) = stack[Len(stack)] /\ Top = Last(stack)
  BY <1>1, SeqLength DEF StackOK, Last, Top
<1>3. Placed(Top, Len(stack), stack)
  BY <1>1, <1>2 DEF StackOK
<1>4. /\ Cardinality(FramesOf(stack, ScopeLabels)) \in Nat
      /\ IsFiniteSet(FramesOf(stack, ScopeLabels))
  BY <1>1, ScopeCount DEF StackOK
<1> QED  BY <1>1, <1>2, <1>3, <1>4 DEF DataOK

LEMMA BlockOpenKeeps == ASSUME StackInv, BlockOpen PROVE StackInv'
<1> DEFINE n == Len(stack)
           f == Frame("block")
<1>1. /\ status = "run" /\ status' = "run" /\ Top.at = "block_open" /\ funcRet' = funcRet
      /\ stack' = Append(Front(stack), f) /\ sema_scope_enter
  BY DEF BlockOpen, At, Goto, Resume, BlockFrame
<1>2. /\ StackOK(stack) /\ DataOK /\ Len(scopes) \in Nat /\ Len(scopes) >= 1
      /\ DOMAIN stack = 1..n /\ n \in Nat \ {0} /\ Top = Last(stack) /\ Last(stack) = stack[n]
      /\ Cardinality(FramesOf(stack, ScopeLabels)) \in Nat
      /\ IsFiniteSet(FramesOf(stack, ScopeLabels))
  BY <1>1, RunFacts
<1>3. Fits(Top, f) /\ f.at = "block"
  BY <1>1 DEF Fits, Frame, RootLabels, HeadLabels, FuncLabels, BodyLabels, TopLevelFrame
<1> HIDE DEF f
<1>4. /\ StackOK(stack') /\ Len(stack') = n /\ stack'[n] = f /\ DOMAIN stack' = 1..n
      /\ \A i \in 1..n : i = n \/ stack'[i] = stack[i]
  <2>1. Fits(Last(stack), f) /\ stack' = Append(Front(stack), f)
    BY <1>1, <1>2, <1>3
  <2>2. Replaced(stack, f, Append(Front(stack), f))
    BY <1>2, <2>1, ReplaceFacts, Zenon
  <2>3. Replaced(stack, f, stack')
    BY ONLY <2>1, <2>2, Zenon
  <2> QED  BY <2>3 DEF Replaced
<1> HIDE DEF n
<1>5. /\ FramesOf(stack', ScopeLabels) = FramesOf(stack, ScopeLabels) \cup {n}
      /\ n \notin FramesOf(stack, ScopeLabels)
  BY <1>1, <1>2, <1>3, <1>4 DEF FramesOf, ScopeLabels, FuncLabels
<1>6. FramesOf(stack', FuncLabels) = FramesOf(stack, FuncLabels)
  BY <1>1, <1>2, <1>3, <1>4 DEF FramesOf, FuncLabels
<1>7. Cardinality(FramesOf(stack', ScopeLabels))
        = Cardinality(FramesOf(stack, ScopeLabels)) + 1
  BY <1>2, <1>5, FS_AddElement
<1>8. IsSeq(scopes') /\ Len(scopes') = Len(scopes) + 1 /\ scopes'[1] = scopes[1]
  BY <1>1, <1>2, ChainEnter DEF DataOK
<1>9. \A i \in 1..n : stack'[i].at \in HeadLabels => stack'[i] = stack[i]
  BY <1>3, <1>4 DEF HeadLabels, FuncLabels
<1>10. \A i \in FramesOf(stack', FuncLabels) : stack'[i] = stack[i]
  BY <1>4, <1>9 DEF FramesOf, HeadLabels
<1>11. DataOK'
  <2>1. Len(scopes') = 1 + Cardinality(FramesOf(stack', ScopeLabels))
    BY <1>2, <1>7, <1>8 DEF DataOK
  <2>2. \A i \in FramesOf(stack', FuncLabels) : funcRet' = stack'[i].rty
    BY <1>1, <1>2, <1>6, <1>10 DEF DataOK
  <2>3. \A i \in 1..n : stack'[i].at \in HeadLabels /\ stack'[i].own =>
          scopes'[1][stack'[i].func].ty = type_func_new(stack'[i].rty, stack'[i].func)
    BY <1>2, <1>8, <1>9 DEF DataOK, n
  <2> QED  BY <1>1, <1>2, <1>4, <1>6, <1>8, <2>1, <2>2, <2>3 DEF DataOK
<1> QED  BY <1>1, <1>4, <1>11 DEF StackInv

\* A frame with a scope returns: that of a block, or a function's.
LEMMA LeaveKeeps ==
  ASSUME StackInv, status = "run", status' = "run", Top.at \in {"block", "body"},
         sema_scope_leave, stack' = Front(stack),
         Top.at = "block" => funcRet' = funcRet,
         Top.at = "body" => funcRet' = NullType
  PROVE  StackInv'
<1> DEFINE n == Len(stack)
<1>1. /\ StackOK(stack) /\ DataOK /\ Len(scopes) \in Nat /\ Len(scopes) >= 1
      /\ DOMAIN stack = 1..n /\ n \in Nat \ {0} /\ Top = Last(stack) /\ Last(stack) = stack[n]
      /\ Cardinality(FramesOf(stack, ScopeLabels)) \in Nat
      /\ IsFiniteSet(FramesOf(stack, ScopeLabels))
  BY RunFacts
<1>2. Last(stack).at \notin RootLabels
  BY <1>1 DEF RootLabels
<1>3. /\ StackOK(stack') /\ Len(stack') = n - 1
      /\ FramesOf(stack', ScopeLabels) = FramesOf(stack, ScopeLabels) \ {n}
      /\ FramesOf(stack', FuncLabels) = FramesOf(stack, FuncLabels) \ {n}
      /\ \A i \in 1..(n - 1) : stack'[i] = stack[i]
  <2>1. Popped(stack, Front(stack))
    BY <1>1, <1>2, PopFacts, Zenon
  <2>2. Popped(stack, stack')
    BY ONLY <2>1, stack' = Front(stack), Zenon
  <2> QED  BY <2>2 DEF Popped
<1>4. n \in FramesOf(stack, ScopeLabels)
  BY <1>1 DEF FramesOf, ScopeLabels, FuncLabels
<1>5. Cardinality(FramesOf(stack', ScopeLabels))
        = Cardinality(FramesOf(stack, ScopeLabels)) - 1
  BY <1>1, <1>3, <1>4, FS_RemoveElement
<1>6. Cardinality(FramesOf(stack, ScopeLabels)) >= 1
  BY <1>1, <1>4, ScopeCount DEF StackOK
<1>7. Len(scopes) >= 2
  BY <1>1, <1>6 DEF DataOK
<1>8. IsSeq(scopes') /\ Len(scopes') = Len(scopes) - 1 /\ scopes'[1] = scopes[1]
  BY <1>1, <1>7, ChainLeave DEF DataOK
<1> HIDE DEF n
<1>9. \A i \in 1..(n - 1) : i \in 1..n /\ i # n
  BY <1>1
<1>10. /\ FramesOf(stack', FuncLabels) = {} => funcRet' = NullType
       /\ \A i \in FramesOf(stack', FuncLabels) : funcRet' = stack'[i].rty
  <2>1. CASE Top.at = "block"
    <3>1. n \notin FramesOf(stack, FuncLabels)
      BY <1>1, <2>1 DEF FramesOf, FuncLabels
    <3>2. FramesOf(stack', FuncLabels) = FramesOf(stack, FuncLabels)
      BY <1>3, <3>1
    <3>3. \A i \in FramesOf(stack', FuncLabels) : stack'[i] = stack[i]
      <4>1. DOMAIN stack' = 1..(n - 1)
        BY <1>3, SeqLength DEF StackOK
      <4> QED  BY <1>3, <4>1 DEF FramesOf
    <3> QED  BY <1>1, <2>1, <3>2, <3>3 DEF DataOK
  <2>2. CASE Top.at = "body"
    <3>1. Top.at \in HeadLabels
      BY <2>2 DEF HeadLabels, FuncLabels
    <3>2. n = 2
      BY <1>1, <3>1, HeadPlace DEF n
    <3>3. FramesOf(stack, FuncLabels) \subseteq {2}
      BY <1>1, HeadPlace DEF FramesOf, HeadLabels, n
    <3>4. FramesOf(stack', FuncLabels) = {}
      BY <1>3, <3>2, <3>3
    <3> QED  BY <2>2, <3>4
  <2> QED  BY <2>1, <2>2
<1>11. \A i \in 1..(n - 1) : stack'[i].at \in HeadLabels /\ stack'[i].own =>
         scopes'[1][stack'[i].func].ty = type_func_new(stack'[i].rty, stack'[i].func)
  BY <1>1, <1>3, <1>8, <1>9 DEF DataOK, n
<1>12. Len(scopes') = 1 + Cardinality(FramesOf(stack', ScopeLabels))
  BY <1>1, <1>5, <1>8 DEF DataOK
<1>13. DataOK'
  BY <1>1, <1>3, <1>8, <1>10, <1>11, <1>12 DEF DataOK
<1> QED  BY <1>3, <1>13 DEF StackInv

LEMMA BlockEndKeeps == ASSUME StackInv, BlockEnd PROVE StackInv'
BY LeaveKeeps DEF BlockEnd, At, Return

LEMMA BodyEndKeeps == ASSUME StackInv, BodyEnd PROVE StackInv'
BY LeaveKeeps DEF BodyEnd, At, Return

\* The name of a function enters the global scope, if it is not taken there.
LEMMA FuncOpenKeeps == ASSUME StackInv, FuncOpen PROVE StackInv'
<1> DEFINE n == Len(stack)
           ty == type_func_new(Top.base, Top.name)
           f == [at |-> "func_enter", func |-> Top.name, own |-> ~Redefined(Top.name),
                 rty |-> Top.base]
<1>1. /\ status = "run" /\ status' = "run" /\ Top.at = "decl_kind" /\ funcRet' = funcRet
      /\ stack' = Append(Front(stack), f) /\ sema_define_var(Top.name, ty, FALSE)
  BY DEF FuncOpen, At, Goto, Resume
<1>2. /\ StackOK(stack) /\ DataOK /\ Len(scopes) \in Nat /\ Len(scopes) >= 1
      /\ DOMAIN stack = 1..n /\ n \in Nat \ {0} /\ Top = Last(stack) /\ Last(stack) = stack[n]
      /\ Placed(Top, n, stack)
  BY <1>1, RunFacts
<1>3. n = 2 /\ Top.name \in Names
  BY <1>1, <1>2 DEF Placed, TopLevelFrame
<1>4. /\ Fits(Top, f) /\ f.at = "func_enter" /\ f.func = Top.name /\ f.rty = Top.base
      /\ f.own = ~Redefined(Top.name)
  BY <1>1, <1>3 DEF Fits, RootLabels, BodyLabels, TopLevelFrame
<1> HIDE DEF f
<1>5. /\ StackOK(stack') /\ Len(stack') = n /\ stack'[n] = f /\ DOMAIN stack' = 1..n
      /\ \A i \in 1..n : i = n \/ stack'[i] = stack[i]
  <2>1. Fits(Last(stack), f) /\ stack' = Append(Front(stack), f)
    BY <1>1, <1>2, <1>4
  <2>2. Replaced(stack, f, Append(Front(stack), f))
    BY <1>2, <2>1, ReplaceFacts, Zenon
  <2>3. Replaced(stack, f, stack')
    BY ONLY <2>1, <2>2, Zenon
  <2> QED  BY <2>3 DEF Replaced
<1>6. FramesOf(stack, ScopeLabels) = {} /\ FramesOf(stack, FuncLabels) = {}
  <2>1. stack[1].at \in RootLabels
    BY <1>2, <1>3 DEF StackOK, Placed
  <2>2. \A i \in 1..n : i = 1 \/ i = n
    BY <1>3
  <2>3. \A i \in 1..n : stack[i].at \notin ScopeLabels
    BY <1>1, <1>2, <2>1, <2>2 DEF RootLabels, ScopeLabels, FuncLabels
  <2> QED  BY <1>2, <2>3 DEF FramesOf, ScopeLabels
<1>7. /\ FramesOf(stack', ScopeLabels) = FramesOf(stack, ScopeLabels)
      /\ FramesOf(stack', FuncLabels) = FramesOf(stack, FuncLabels)
  BY <1>1, <1>2, <1>4, <1>5 DEF FramesOf, ScopeLabels, FuncLabels
<1>8. Len(scopes) = 1
  BY <1>2, <1>6, FS_EmptySet DEF DataOK
<1>9. IsSeq(scopes') /\ Len(scopes') = Len(scopes) /\ DOMAIN scopes'[1] = Names
  BY <1>1, DefineQuiet
<1>10. f.own => scopes'[1][Top.name].ty = ty
  <2> HAVE f.own
  <2>1. ~Redefined(Top.name)
    BY <1>4
  <2>2. scopes # <<>>
    BY <1>8, EmptySeq
  <2> DEFINE m == [scopes[1] EXCEPT ![Top.name] =
                     [ty |-> ty, is_const |-> FALSE, is_global |-> Len(scopes) = 1]]
  <2>3. scopes' = [scopes EXCEPT ![1] = m]
    BY <1>1, <1>8, <2>1, <2>2 DEF sema_define_var
  <2>4. 1 \in DOMAIN scopes /\ DOMAIN scopes[1] = Names
    BY <1>2, <1>8, SeqLength DEF DataOK
  <2>5. m[Top.name].ty = ty
    <3> HIDE DEF ty
    <3> QED  BY <1>3, <2>4
  <2>6. scopes'[1] = m
    <3> HIDE DEF m
    <3> QED  BY <2>3, <2>4
  <2> QED  BY <2>5, <2>6
<1>11. \A i \in 1..n : stack'[i].at \in HeadLabels /\ stack'[i].own =>
         scopes'[1][stack'[i].func].ty = type_func_new(stack'[i].rty, stack'[i].func)
  <2>1. \A i \in 1..n : stack'[i].at \in HeadLabels => i = n
    BY <1>3, <1>5, HeadPlace
  <2> QED  BY <1>4, <1>5, <1>10, <2>1
<1> HIDE DEF n, ty
<1>12. DataOK'
  BY <1>1, <1>2, <1>5, <1>6, <1>7, <1>9, <1>11 DEF DataOK
<1> QED  BY <1>1, <1>5, <1>12 DEF StackInv

LEMMA FuncEnterKeeps == ASSUME StackInv, FuncEnter PROVE StackInv'
<1> DEFINE n == Len(stack)
           f == [Top EXCEPT !.at = "params"]
<1>1. /\ status = "run" /\ status' = "run" /\ Top.at = "func_enter" /\ funcRet' = Top.rty
      /\ stack' = Append(Front(stack), f) /\ sema_scope_enter
  BY DEF FuncEnter, At, Goto, Resume
<1>2. /\ StackOK(stack) /\ DataOK /\ Len(scopes) \in Nat /\ Len(scopes) >= 1
      /\ DOMAIN stack = 1..n /\ n \in Nat \ {0} /\ Top = Last(stack) /\ Last(stack) = stack[n]
      /\ Placed(Top, n, stack)
      /\ Cardinality(FramesOf(stack, ScopeLabels)) \in Nat
      /\ IsFiniteSet(FramesOf(stack, ScopeLabels))
  BY <1>1, RunFacts
<1>3. /\ Top.func \in Names /\ "at" \in DOMAIN Top
      /\ {"func", "own", "rty"} \subseteq DOMAIN Top
  BY <1>1, <1>2 DEF Placed, HeadLabels
<1>4. /\ f.at = "params" /\ "at" \in DOMAIN f /\ {"func", "own", "rty"} \subseteq DOMAIN f
      /\ f.func = Top.func /\ f.own = Top.own /\ f.rty = Top.rty
  BY <1>3, Retag
<1> HIDE DEF f
<1>5. Fits(Top, f)
  BY <1>1, <1>3, <1>4 DEF Fits, RootLabels, BodyLabels, TopLevelFrame, HeadLabels
<1>6. /\ StackOK(stack') /\ Len(stack') = n /\ stack'[n] = f /\ DOMAIN stack' = 1..n
      /\ \A i \in 1..n : i = n \/ stack'[i] = stack[i]
  <2>1. Fits(Last(stack), f) /\ stack' = Append(Front(stack), f)
    BY <1>1, <1>2, <1>5
  <2>2. Replaced(stack, f, Append(Front(stack), f))
    BY <1>2, <2>1, ReplaceFacts, Zenon
  <2>3. Replaced(stack, f, stack')
    BY ONLY <2>1, <2>2, Zenon
  <2> QED  BY <2>3 DEF Replaced
<1>7. n = 2
  BY <1>1, <1>2, HeadPlace DEF HeadLabels
<1>8. \A i \in 1..n : stack'[i].at \in HeadLabels => i = n
  BY <1>6, <1>7, HeadPlace
<1> HIDE DEF n
<1>9. /\ FramesOf(stack', ScopeLabels) = FramesOf(stack, ScopeLabels) \cup {n}
      /\ n \notin FramesOf(stack, ScopeLabels)
  BY <1>1, <1>2, <1>4, <1>6 DEF FramesOf, ScopeLabels, FuncLabels
<1>10. Cardinality(FramesOf(stack', ScopeLabels))
         = Cardinality(FramesOf(stack, ScopeLabels)) + 1
  BY <1>2, <1>9, FS_AddElement
<1>11. n \in FramesOf(stack', FuncLabels) /\ FramesOf(stack', FuncLabels) \subseteq {n}
  BY <1>2, <1>4, <1>6, <1>8 DEF FramesOf, HeadLabels, FuncLabels
<1>12. IsSeq(scopes') /\ Len(scopes') = Len(scopes) + 1 /\ scopes'[1] = scopes[1]
  BY <1>1, <1>2, ChainEnter DEF DataOK
<1>13. DataOK'
  <2>1. Len(scopes') = 1 + Cardinality(FramesOf(stack', ScopeLabels))
    BY <1>2, <1>10, <1>12 DEF DataOK
  <2>2. \A i \in FramesOf(stack', FuncLabels) : funcRet' = stack'[i].rty
    BY <1>1, <1>4, <1>6, <1>11
  <2>3. Top.own => scopes[1][Top.func].ty = type_func_new(Top.rty, Top.func)
    BY <1>1, <1>2 DEF DataOK, HeadLabels, n
  <2>4. \A i \in 1..n : stack'[i].at \in HeadLabels /\ stack'[i].own =>
          scopes'[1][stack'[i].func].ty = type_func_new(stack'[i].rty, stack'[i].func)
    BY <1>4, <1>6, <1>8, <1>12, <2>3
  <2> QED  BY <1>2, <1>6, <1>11, <1>12, <2>1, <2>2, <2>4 DEF DataOK
<1> QED  BY <1>1, <1>6, <1>13 DEF StackInv

\* The root closes the last scope.
LEMMA GlobalsEndKeeps == ASSUME StackInv, GlobalsEnd PROVE StackInv'
<1>1. /\ status = "run" /\ status' = "done" /\ Top.at = "globals" /\ stack' = <<>>
      /\ sema_scope_leave
  BY DEF GlobalsEnd, At
<1>2. /\ StackOK(stack) /\ DataOK /\ Len(scopes) \in Nat /\ Len(scopes) >= 1
      /\ DOMAIN stack = 1..Len(stack) /\ Top = stack[Len(stack)]
      /\ Placed(Top, Len(stack), stack)
  BY <1>1, RunFacts
<1>3. Len(stack) = 1
  BY <1>1, <1>2 DEF Placed, RootLabels
<1>4. FramesOf(stack, ScopeLabels) = {}
  BY <1>1, <1>2, <1>3 DEF FramesOf, ScopeLabels, FuncLabels
<1>5. Len(scopes) = 1
  BY <1>2, <1>4, FS_EmptySet DEF DataOK
<1>6. IsSeq(scopes') /\ Len(scopes') = 0
  <2>1. IsSeq(scopes) /\ Len(scopes) >= 1 /\ sema_scope_leave
    BY <1>1, <1>2 DEF DataOK
  <2>2. IsSeq(scopes') /\ Len(scopes') = Len(scopes) - 1
    BY <2>1, ChainLeave, Zenon
  <2> QED  BY <1>5, <2>2
<1>7. scopes' = <<>>
  BY <1>6, SeqLength
<1> QED  BY <1>1, <1>7 DEF StackInv

-----------------------------------------------------------------------------
(* The theorems.                                                           *)

LEMMA StackInvariant == Spec => []StackInv
<1>1. Init => StackInv
  <2> SUFFICES ASSUME Init PROVE StackInv
    OBVIOUS
  <2> DEFINE r == Frame("globals")
  <2>1. status = "run" /\ stack = <<r>> /\ scopes = <<BuiltinScope>> /\ funcRet = NullType
    BY DEF Init
  <2>2. r.at = "globals" /\ "at" \in DOMAIN r
    BY DEF Frame
  <2>3. DOMAIN BuiltinScope = Names
    BY DEF BuiltinScope
  <2> HIDE DEF r
  <2>4. /\ IsSeq(stack) /\ stack # <<>> /\ Len(stack) = 1 /\ stack[1] = r
        /\ DOMAIN stack = 1..1
    <3>1. stack \in Seq({r})
      BY <2>1
    <3>2. Len(stack) = 1 /\ stack[1] = r
      BY <2>1
    <3> QED  BY <3>1, <3>2, SeqLength, EmptySeq DEF IsSeq
  <2>5. IsSeq(scopes) /\ Len(scopes) = 1 /\ scopes[1] = BuiltinScope
    <3>1. scopes \in Seq({BuiltinScope})
      BY <2>1
    <3> QED  BY <2>1, <3>1 DEF IsSeq
  <2>6. Placed(r, 1, stack)
    BY <2>2 DEF Placed, RootLabels, BodyLabels, HeadLabels, FuncLabels, TopLevelFrame
  <2>7. StackOK(stack)
    BY <2>4, <2>6 DEF StackOK
  <2>8. FramesOf(stack, ScopeLabels) = {} /\ FramesOf(stack, FuncLabels) = {}
    BY <2>2, <2>4 DEF FramesOf, ScopeLabels, FuncLabels
  <2>9. stack[1].at \notin HeadLabels
    BY <2>2, <2>4 DEF HeadLabels, FuncLabels
  <2>10. DataOK
    BY <2>1, <2>3, <2>4, <2>5, <2>8, <2>9, FS_EmptySet DEF DataOK
  <2> QED  BY <2>1, <2>7, <2>10 DEF StackInv
<1>2. LatchInv /\ StackInv /\ [Next]_vars => StackInv'
  <2> SUFFICES ASSUME LatchInv, StackInv, Next \/ UNCHANGED vars PROVE StackInv'
    OBVIOUS
  <2>1. CASE UNCHANGED vars
    BY <2>1 DEF vars, semaVars, StackInv, DataOK, StackOK, Placed, FramesOf
  <2>2. CASE Stopped
    BY <2>1, <2>2 DEF Stopped
  <2>3. CASE Expressions
    BY <2>3, ExpressionsQuiet, QuietKeeps
  <2>4. CASE Statements
    BY <2>4, StatementsQuiet, QuietKeeps, BlockOpenKeeps, BlockEndKeeps
  <2>5. CASE Declarations
    BY <2>5, DeclarationsQuiet, QuietKeeps DEF LatchInv
  <2>6. CASE Functions
    BY <2>6, FunctionsQuiet, QuietKeeps, FuncOpenKeeps, FuncEnterKeeps, BodyEndKeeps
  <2>7. CASE TopLevel
    BY <2>7, TopLevelQuiet, QuietKeeps, GlobalsEndKeeps
  <2> QED  BY <2>1, <2>2, <2>3, <2>4, <2>5, <2>6, <2>7 DEF Next, Step
<1> QED  BY <1>1, <1>2, LatchInvariant, PTL DEF Spec

\* For every token stream every scope on the chain belongs to an active block or
\* function, or is the global one, and parser_parse returns with none left, on
\* every path through errors, synchronization and early ends of file
\* (parser.c:406-457, 673-768).
THEOREM ParserScopeBalance == Spec => []ScopeBalance
<1>1. StackInv => ScopeBalance
  <2>1. \A L : FramesAt(L) = FramesOf(stack, L)
    BY DEF FramesAt, FramesOf
  <2> QED  BY <2>1 DEF StackInv, DataOK, ScopeBalance
<1> QED  BY <1>1, StackInvariant, PTL

\* For every token stream return statements are judged by the one function they
\* stand in, whose symbol - unless its name was taken - has that return type in
\* the global scope (parser.c:672, 769).
THEOREM ParserReturnContext == Spec => []ReturnContext
<1>1. StackInv => ReturnContext
  <2> SUFFICES ASSUME StackInv, status # "done"
               PROVE  /\ Cardinality(FramesAt(FuncLabels)) <= 1
                      /\ FramesAt(FuncLabels) = {} => funcRet = NullType
                      /\ \A i \in FramesAt(FuncLabels) :
                           /\ funcRet = stack[i].rty
                           /\ stack[i].own => scopes[1][stack[i].func].ty
                                                = type_func_new(funcRet, stack[i].func)
                      /\ FramesAt({"ret_value", "ret_end"}) # {} => FramesAt({"body"}) # {}
    BY DEF ReturnContext
  <2>1. \A L : FramesAt(L) = FramesOf(stack, L)
    BY DEF FramesAt, FramesOf
  <2>2. StackOK(stack) /\ DataOK
    BY DEF StackInv
  <2>3. DOMAIN stack = 1..Len(stack) /\ Len(stack) \in Nat
    BY <2>2, SeqLength DEF StackOK
  <2>4. \A i \in FramesOf(stack, FuncLabels) : i \in 1..Len(stack) /\ stack[i].at \in HeadLabels
    BY <2>3 DEF FramesOf, HeadLabels
  <2>5. FramesOf(stack, FuncLabels) \subseteq {2}
    BY <2>2, <2>4, HeadPlace
  <2>6. Cardinality(FramesOf(stack, FuncLabels)) <= 1
    <3>1. IsFiniteSet({2}) /\ Cardinality({2}) = 1
      BY FS_Singleton
    <3> QED  BY <2>5, <3>1, FS_Subset
  <2>7. \A i \in FramesOf(stack, FuncLabels) :
          /\ funcRet = stack[i].rty
          /\ stack[i].own =>
               scopes[1][stack[i].func].ty = type_func_new(funcRet, stack[i].func)
    BY <2>2, <2>4 DEF DataOK
  <2>8. ASSUME NEW i \in FramesOf(stack, {"ret_value", "ret_end"})
        PROVE  2 \in FramesOf(stack, {"body"})
    <3>1. i \in 1..Len(stack) /\ stack[i].at \in BodyLabels
      BY <2>3 DEF FramesOf, BodyLabels
    <3>2. i > 2 /\ stack[2].at = "body"
      BY <2>2, <3>1 DEF StackOK, Placed
    <3> QED  BY <2>3, <3>1, <3>2 DEF FramesOf
  <2> QED  BY <2>1, <2>2, <2>6, <2>7, <2>8 DEF DataOK
<1> QED  BY <1>1, StackInvariant, PTL
=============================================================================
