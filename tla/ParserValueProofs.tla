-------------------------- MODULE ParserValueProofs --------------------------
(***************************************************************************)
(* The values the parser passes around - the locals of its frames, what a  *)
(* call returns, the symbols of the scopes - for every token stream: the   *)
(* types of the variables, that nothing NULL is dereferenced before an     *)
(* error was reported, and how operators group; and with them, that the    *)
(* parser uses the symbol table as a block-structured environment.         *)
(***************************************************************************)
EXTENDS ParserProofs, ScopesProofs

-----------------------------------------------------------------------------
(* Types, nodes and symbols once an error was reported (e), and before,    *)
(* when none of them is NULL or has the NULL type.                         *)

TypesAt(e)   == {ty \in TypeSet : e \/ ty.prim # "null"}
PrimsAt(e)   == {ty \in TypesAt(e) : ty.dims = <<>> /\ ty.func = NoName}
NodesAt(e)   == {n \in NodeSet : e \/ (n.kind # "NULL" /\ n.ty.prim # "null")}
SymbolsAt(e) == [ty : TypesAt(e), is_const : BOOLEAN, is_global : BOOLEAN]
CalleesAt(e) == SymbolsAt(e) \cup {Unbound}

LEMMA MoreAfterError ==
  ASSUME NEW e \in BOOLEAN, NEW d \in BOOLEAN, e => d
  PROVE  /\ TypesAt(e) \subseteq TypesAt(d) /\ PrimsAt(e) \subseteq PrimsAt(d)
         /\ NodesAt(e) \subseteq NodesAt(d) /\ SymbolsAt(e) \subseteq SymbolsAt(d)
         /\ CalleesAt(e) \subseteq CalleesAt(d)
<1>1. /\ TypesAt(e) \subseteq TypesAt(d) /\ NodesAt(e) \subseteq NodesAt(d)
  BY DEF TypesAt, NodesAt
<1>2. PrimsAt(e) \subseteq PrimsAt(d)
  BY <1>1 DEF PrimsAt
<1>3. SymbolsAt(e) \subseteq SymbolsAt(d)
  BY <1>1 DEF SymbolsAt
<1> QED  BY <1>1, <1>2, <1>3 DEF CalleesAt

-----------------------------------------------------------------------------
(* What the frames hold.                                                   *)

BinOps == Arithmetic \cup Comparison \cup Logical \cup {"PERCENT"}

VarLabels  == {"decl_kind", "var", "var_define"}
InitLabels == {"var_init", "var_value", "var_check"}
FuncFrameLabels == {"func_enter", "params", "param", "param_next", "body_open", "body"}
ParamLabels     == {"param_dims", "param_len", "param_define"}

\* The locals of frame f, by the point it stands at.
Shaped(f, e) ==
  /\ f.at \in {"binary", "bin_lhs"} => f \in [at : {"binary", "bin_lhs"}, prec : Nat]
  /\ f.at = "bin_rhs" =>
       /\ f \in [at : {"bin_rhs"}, prec : Nat, lhs : NodesAt(e), op : BinOps]
       /\ f.prec <= get_prec(f.op)
  /\ f.at \in {"asg_rhs", "stmt_rhs"} => f \in [at : {"asg_rhs", "stmt_rhs"}, lhs : NodesAt(e)]
  /\ f.at = "index_close" => f \in [at : {"index_close"}, base : NodesAt(e)]
  /\ f.at = "ident" => f \in [at : {"ident"}, name : Names]
  /\ f.at \in {"args", "args_more"} => f \in [at : {"args", "args_more"}, callee : CalleesAt(e)]
  /\ f.at \in {"cond_open", "cond_close"} =>
       f \in [at : {"cond_open", "cond_close"}, word : {"IF", "WHILE"}]
  /\ f.at = "decl" => f \in [at : {"decl"}, top : BOOLEAN]
  /\ f.at = "decl_type" => f \in [at : {"decl_type"}, top : BOOLEAN, is_const : BOOLEAN]
  /\ f.at = "decl_name" =>
       f \in [at : {"decl_name"}, top : BOOLEAN, is_const : BOOLEAN, base : PrimsAt(e)]
  /\ f.at \in VarLabels =>
       f \in [at : VarLabels, base : PrimsAt(e), is_const : BOOLEAN, name : Names]
  /\ f.at \in InitLabels =>
       f \in [at : InitLabels, base : PrimsAt(e), is_const : BOOLEAN, ty : TypesAt(e)]
  /\ f.at \in {"var_next", "var_name"} =>
       f \in [at : {"var_next", "var_name"}, base : PrimsAt(e), is_const : BOOLEAN]
  /\ f.at \in {"dims", "dim_len"} => f \in [at : {"dims", "dim_len"}, ty : TypesAt(e)]
  /\ f.at = "dim_close" => f \in [at : {"dim_close"}, ty : TypesAt(e), len : Int]
  /\ f.at \in FuncFrameLabels =>
       f \in [at : FuncFrameLabels, func : Names, own : BOOLEAN, rty : PrimsAt(e)]
  /\ f.at = "param_name" =>
       f \in [at : {"param_name"}, func : Names, own : BOOLEAN, rty : PrimsAt(e),
              ty : TypesAt(e), name : {NoName}]
  /\ f.at \in ParamLabels =>
       f \in [at : ParamLabels, func : Names, own : BOOLEAN, rty : PrimsAt(e),
              ty : TypesAt(e), name : Names]
  /\ f.at = "param_close" =>
       f \in [at : {"param_close"}, func : Names, own : BOOLEAN, rty : PrimsAt(e),
              ty : TypesAt(e), name : Names, len : Int]

\* Frames of functions that return a node, NULL only with a report, ...
ValuedLabels ==
  {"binary", "bin_lhs", "bin_rhs", "assign", "asg_lhs", "asg_rhs", "unary", "plus", "neg",
   "not", "paren", "ident", "args", "args_more", "index", "index_close", "dims", "dim_len",
   "dim_close"}

\* ... frames that go on with such a node, and those of parse_binary.
AwaitLabels == {"bin_lhs", "bin_rhs", "asg_lhs", "asg_rhs", "plus", "neg", "paren", "index",
                "stmt_expr", "var_define", "param_define"}
BinLabels   == {"binary", "bin_lhs", "bin_rhs"}

\* g may stand right above f.
Over(f, g) ==
  /\ f.at \in AwaitLabels => g.at \in ValuedLabels
  /\ f.at = "bin_rhs" => g.at \in BinLabels /\ g.prec = get_prec(f.op) + 1

\* f on top can go on with the value v in front of a token of kind k.
Ready(f, v, k, e) ==
  /\ f.at \in AwaitLabels => v \in NodesAt(e)
  /\ f.at = "bin_rhs" => get_prec(k) <= get_prec(f.op)

\* h can take the place of g, whatever stands below.
Succeeds(g, h) ==
  /\ g.at \in ValuedLabels => h.at \in ValuedLabels
  /\ g.at \in BinLabels => h.at \in BinLabels /\ h.prec = g.prec

StackValues(s, e) ==
  /\ \A i \in 1..Len(s) : Shaped(s[i], e)
  /\ \A i \in 1..(Len(s) - 1) : Over(s[i], s[i + 1])

LEMMA ShapedLater ==
  ASSUME NEW f, NEW e \in BOOLEAN, NEW d \in BOOLEAN, e => d, Shaped(f, e)
  PROVE  Shaped(f, d)
BY MoreAfterError DEF Shaped

LEMMA StackLater ==
  ASSUME NEW s, NEW e \in BOOLEAN, NEW d \in BOOLEAN, e => d, StackValues(s, e)
  PROVE  StackValues(s, d)
BY ShapedLater DEF StackValues

LEMMA ReplaceValues ==
  ASSUME NEW s, StackOK(s), NEW e, StackValues(s, e),
         NEW f, Shaped(f, e), Succeeds(Last(s), f)
  PROVE  \A t : t = Append(Front(s), f) =>
           /\ IsSeq(t) /\ t # <<>> /\ Len(t) = Len(s)
           /\ StackValues(t, e) /\ Last(t) = f
<1> SUFFICES ASSUME NEW t, t = Append(Front(s), f)
             PROVE  /\ IsSeq(t) /\ t # <<>> /\ Len(t) = Len(s)
                    /\ StackValues(t, e) /\ Last(t) = f
  OBVIOUS
<1> DEFINE n == Len(s)
<1>1. n \in Nat \ {0} /\ Last(s) = s[n] /\ IsSeq(s) /\ s # <<>>
  BY SeqLength DEF StackOK, Last
<1>2. /\ IsSeq(t) /\ t # <<>> /\ Len(t) = n /\ t[n] = f
      /\ \A i \in 1..(n - 1) : t[i] = s[i]
  <2>1. \A u : u = Append(Front(s), f) =>
          /\ IsSeq(u) /\ u # <<>> /\ Len(u) = Len(s) /\ u[Len(s)] = f
          /\ \A i \in 1..(Len(s) - 1) : u[i] = s[i]
    BY <1>1, ReplaceShape
  <2>2. t = Append(Front(s), f)
    OBVIOUS
  <2> QED  BY ONLY <2>1, <2>2
<1>3. \A i \in 1..n : Shaped(s[i], e)
  BY DEF StackValues
<1>4. \A i \in 1..(n - 1) : Over(s[i], s[i + 1])
  BY DEF StackValues
<1>5. Succeeds(s[n], f)
  BY <1>1
<1>6. Last(t) = f
  BY <1>2 DEF Last
<1> HIDE DEF n
<1>7. \A i \in 1..n : Shaped(t[i], e)
  BY <1>1, <1>2, <1>3, Below
<1>8. ASSUME NEW i \in 1..(n - 1) PROVE Over(t[i], t[i + 1])
  <2>1. Over(s[i], s[i + 1]) /\ t[i] = s[i]
    BY <1>2, <1>4
  <2>2. CASE i + 1 = n
    BY <1>2, <1>5, <2>1, <2>2 DEF Over, Succeeds, BinLabels, ValuedLabels
  <2>3. CASE i + 1 # n
    <3>1. i + 1 \in 1..(n - 1)
      BY <1>1, <2>3
    <3> QED  BY <1>2, <2>1, <3>1
  <2> QED  BY <2>2, <2>3
<1> QED  BY <1>2, <1>6, <1>7, <1>8 DEF StackValues, n

LEMMA PushValues ==
  ASSUME NEW s, IsSeq(s), s # <<>>, NEW e, StackValues(s, e),
         NEW g, Shaped(g, e), Over(Last(s), g)
  PROVE  \A t : t = Append(s, g) => StackValues(t, e) /\ Last(t) = g
<1> SUFFICES ASSUME NEW t, t = Append(s, g)
             PROVE  StackValues(t, e) /\ Last(t) = g
  OBVIOUS
<1> DEFINE n == Len(s)
<1>1. n \in Nat \ {0} /\ Last(s) = s[n]
  BY SeqLength DEF Last
<1>2. /\ Len(t) = n + 1 /\ t[n + 1] = g
      /\ \A i \in 1..n : t[i] = s[i]
  BY AppendShape
<1>3. \A i \in 1..n : Shaped(s[i], e)
  BY DEF StackValues
<1>4. \A i \in 1..(n - 1) : Over(s[i], s[i + 1])
  BY DEF StackValues
<1>5. Over(s[n], g)
  BY <1>1
<1>6. Last(t) = g
  BY <1>2 DEF Last
<1> HIDE DEF n
<1>7. \A i \in 1..(n + 1) : i = n + 1 \/ i \in 1..n
  BY <1>1
<1>8. \A i \in 1..(n + 1) : Shaped(t[i], e)
  BY <1>2, <1>3, <1>7
<1>9. ASSUME NEW i \in 1..n PROVE Over(t[i], t[i + 1])
  <2>1. CASE i = n
    BY <1>2, <1>5, <2>1
  <2>2. CASE i # n
    <3>1. i \in 1..(n - 1) /\ i + 1 \in 1..n
      BY <1>1, <2>2
    <3> QED  BY <1>2, <1>4, <3>1
  <2> QED  BY <2>1, <2>2
<1>10. (n + 1) - 1 = n
  BY <1>1
<1> QED  BY <1>2, <1>6, <1>8, <1>9, <1>10 DEF StackValues

LEMMA PopValues ==
  ASSUME NEW s, StackOK(s), NEW e, StackValues(s, e), Last(s).at \notin RootLabels
  PROVE  \A t : t = Front(s) =>
           /\ StackValues(t, e) /\ IsSeq(t) /\ t # <<>>
           /\ Over(Last(t), Last(s)) /\ Shaped(Last(t), e)
<1> SUFFICES ASSUME NEW t, t = Front(s)
             PROVE  /\ StackValues(t, e) /\ IsSeq(t) /\ t # <<>>
                    /\ Over(Last(t), Last(s)) /\ Shaped(Last(t), e)
  OBVIOUS
<1> DEFINE n == Len(s)
<1>1. n \in Nat \ {0} /\ Last(s) = s[n] /\ IsSeq(s) /\ s # <<>>
  BY SeqLength DEF StackOK, Last
<1>2. IsSeq(t) /\ Len(t) = n - 1 /\ \A i \in 1..(n - 1) : t[i] = s[i]
  BY <1>1, FrontShape
<1>3. Placed(s[n], n, s)
  BY <1>1 DEF StackOK
<1>4. \A i \in 1..n : Shaped(s[i], e)
  BY DEF StackValues
<1>5. \A i \in 1..(n - 1) : Over(s[i], s[i + 1])
  BY DEF StackValues
<1>6. Last(t) = t[Len(t)]
  BY DEF Last
<1> HIDE DEF n
<1>7. n # 1
  BY <1>1, <1>3 DEF Placed
<1>8. t # <<>>
  BY <1>1, <1>2, <1>7, EmptySeq
<1>9. \A i \in 1..(n - 1) : i \in 1..n
  BY <1>1
<1>10. \A i \in 1..(n - 1) : Shaped(t[i], e)
  BY <1>2, <1>4, <1>9
<1>11. ASSUME NEW i \in 1..((n - 1) - 1) PROVE Over(t[i], t[i + 1])
  <2>1. i \in 1..(n - 1) /\ i + 1 \in 1..(n - 1)
    BY <1>1
  <2> QED  BY <1>2, <1>5, <2>1
<1>12. n - 1 \in 1..(n - 1) /\ (n - 1) + 1 = n
  BY <1>1, <1>7
<1>13. Over(Last(t), Last(s)) /\ Shaped(Last(t), e)
  BY <1>1, <1>2, <1>5, <1>6, <1>10, <1>12
<1> QED  BY <1>2, <1>8, <1>10, <1>11, <1>13 DEF StackValues

-----------------------------------------------------------------------------
(* The invariant, and what a step keeps of it.                             *)

ChainTyped(s, e) == s \in Seq([Names -> CalleesAt(e)])

LEMMA ChainLater ==
  ASSUME NEW e \in BOOLEAN, NEW d \in BOOLEAN, e => d, NEW s, ChainTyped(s, e)
  PROVE  ChainTyped(s, d)
<1> DEFINE M == [Names -> CalleesAt(e)]
           N == [Names -> CalleesAt(d)]
<1>1. M \subseteq N
  <2>1. CalleesAt(e) \subseteq CalleesAt(d)
    BY MoreAfterError
  <2> QED  BY <2>1
<1>2. s \in Seq(M)
  BY DEF ChainTyped
<1> HIDE DEF M, N
<1>3. Len(s) \in Nat /\ s \in [1..Len(s) -> M]
  BY <1>2, LenProperties
<1>4. s \in [1..Len(s) -> N]
  BY <1>1, <1>3
<1>5. s \in Seq(N)
  BY <1>3, <1>4, SeqDef
<1> QED  BY <1>5 DEF ChainTyped, N

DataTyped(e) ==
  /\ ChainTyped(scopes, e)
  /\ params \in [Names -> Seq(TypeSet)] /\ funcRet \in PrimsAt(TRUE)
  /\ globals \in Nat

ValueInv ==
  /\ StackValues(stack, ctx.had_error) /\ DataTyped(ctx.had_error) /\ ret \in NodeSet
  /\ status = "run" => Ready(Top, ret, Kind, ctx.had_error)
  /\ status = "crashed" => ctx.had_error \/ "wild" \in Garbage

\* Is an error known after the step?
Heard == ctx'.had_error

\* The invariant before a step of the running parser, as the reporter will
\* see it after the step.
Known ==
  /\ status = "run" /\ StackOK(stack) /\ StackInv /\ TokenInv
  /\ Heard \in BOOLEAN /\ (panic_mode' => Heard)
  /\ StackValues(stack, Heard) /\ DataTyped(Heard) /\ ret \in NodeSet
  /\ Shaped(Top, Heard) /\ "at" \in DOMAIN Top /\ Ready(Top, ret, Kind, Heard)
  /\ Kind \in TokenKinds /\ curr'.kind \in TokenKinds

LEMMA KnownNow ==
  ASSUME LatchInv, LatchStep, StackInv, ValueInv, status = "run"
  PROVE  Known
<1>1. /\ ctx.had_error \in BOOLEAN /\ Heard \in BOOLEAN /\ (ctx.had_error => Heard)
      /\ panic_mode' => Heard
  BY DEF LatchInv, LatchStep, Later, ContextType, Heard
<1>2. StackOK(stack)
  BY DEF StackInv
<1>3. StackValues(stack, Heard)
  BY <1>1, StackLater DEF ValueInv
<1>4. Shaped(Top, Heard) /\ "at" \in DOMAIN Top
  BY <1>3, RunFacts, TopFacts DEF StackValues
<1>5. Ready(Top, ret, Kind, Heard)
  BY <1>1, MoreAfterError DEF ValueInv, Ready
<1>6. DataTyped(Heard)
  BY <1>1, ChainLater DEF ValueInv, DataTyped
<1>7. Kind \in TokenKinds /\ curr'.kind \in TokenKinds
  BY DEF LatchInv, LatchStep, TokenInv, TokenType, Kind, TokenKinds
<1> QED  BY <1>1, <1>2, <1>3, <1>4, <1>5, <1>6, <1>7 DEF Known, LatchInv, ValueInv

\* The stack and the returned value are in order after the step.
Moved ==
  /\ StackValues(stack', Heard) /\ ret' \in NodeSet
  /\ Ready(Last(stack'), ret', curr'.kind, Heard)

\* ... and so are the symbol table and the counters.
DataNext ==
  /\ ChainTyped(scopes', Heard) /\ params' \in [Names -> Seq(TypeSet)]
  /\ funcRet' \in PrimsAt(TRUE) /\ globals' \in Nat

LEMMA MoveKeeps ==
  ASSUME status' \in {"run", "done"}, DataNext, Moved PROVE ValueInv'
BY DEF Moved, ValueInv, Heard, Top, Kind, DataTyped, DataNext

LEMMA PureKeeps == ASSUME Known, Pure, Moved PROVE ValueInv'
<1>1. status' = "run" /\ DataNext
  BY DEF Known, Pure, DataTyped, DataNext, semaVars
<1> QED  BY <1>1, MoveKeeps

\* The frame on top goes on as f, with the value v at hand.
LEMMA ResumeMoved ==
  ASSUME Known, NEW f, NEW v \in NodeSet, Resume(f, v), Shaped(f, Heard), Succeeds(Top, f),
         f.at # "bin_rhs", f.at \in AwaitLabels => v \in NodesAt(Heard)
  PROVE  Moved
<1>1. \A t : t = Append(Front(stack), f) => StackValues(t, Heard) /\ Last(t) = f
  BY ReplaceValues DEF Known, Top
<1>2. stack' = Append(Front(stack), f) /\ ret' = v
  BY DEF Resume
<1>3. StackValues(stack', Heard) /\ Last(stack') = f
  BY ONLY <1>1, <1>2
<1> QED  BY <1>2, <1>3 DEF Moved, Ready

LEMMA NullInNodes == NullNode \in NodeSet
<1>1. NullType \in TypeSet
  BY EmptySeq DEF NullType, Primitive, TypeSet
<1> QED  BY <1>1 DEF NullNode, NodeSet

LEMMA GotoMoved ==
  ASSUME Known, NEW f, Goto(f), Shaped(f, Heard), Succeeds(Top, f), f.at \notin AwaitLabels
  PROVE  Moved
BY ResumeMoved, NullInNodes DEF Goto, AwaitLabels

\* It calls g and goes on as f when g returns.
LEMMA CallMoved ==
  ASSUME Known, NEW f, NEW g, Call(f, g), Shaped(f, Heard), Succeeds(Top, f),
         Shaped(g, Heard), Over(f, g), g.at \notin AwaitLabels
  PROVE  Moved
<1> DEFINE s == Append(Front(stack), f)
<1>1. /\ IsSeq(s) /\ s # <<>> /\ StackValues(s, Heard) /\ Last(s) = f
  <2>1. \A t : t = Append(Front(stack), f) =>
          IsSeq(t) /\ t # <<>> /\ StackValues(t, Heard) /\ Last(t) = f
    BY ReplaceValues DEF Known, Top
  <2> QED  BY ONLY <2>1
<1>2. stack' = Append(s, g) /\ ret' = NullNode
  BY DEF Call
<1> HIDE DEF s
<1>3. \A t : t = Append(s, g) => StackValues(t, Heard) /\ Last(t) = g
  BY <1>1, PushValues
<1>4. StackValues(stack', Heard) /\ Last(stack') = g
  BY ONLY <1>2, <1>3
<1>5. Ready(g, NullNode, curr'.kind, Heard)
  BY DEF Ready, AwaitLabels
<1> QED  BY <1>2, <1>4, <1>5, NullInNodes DEF Moved

\* It returns v.
LEMMA ReturnMoved ==
  ASSUME Known, NEW v \in NodeSet, Return(v), Top.at \notin RootLabels,
         Top.at \in ValuedLabels => v \in NodesAt(Heard),
         Top.at \in BinLabels => get_prec(curr'.kind) < Top.prec
  PROVE  Moved
<1>1. \A t : t = Front(stack) =>
         StackValues(t, Heard) /\ Over(Last(t), Last(stack)) /\ Shaped(Last(t), Heard)
  BY PopValues DEF Known, Top
<1>2. stack' = Front(stack) /\ ret' = v
  BY DEF Return
<1>3. /\ StackValues(stack', Heard) /\ Over(Last(stack'), Top)
      /\ Shaped(Last(stack'), Heard)
  BY ONLY <1>1, <1>2 DEF Top
<1> DEFINE f == Last(stack')
<1>4. f.at \in AwaitLabels => v \in NodesAt(Heard)
  BY <1>3 DEF Over
<1>5. ASSUME f.at = "bin_rhs" PROVE get_prec(curr'.kind) <= get_prec(f.op)
  <2>1. Top.at \in BinLabels /\ Top.prec = get_prec(f.op) + 1
    BY <1>3, <1>5 DEF Over
  <2>2. get_prec(f.op) \in Int /\ get_prec(curr'.kind) \in Int
    BY DEF get_prec
  <2> HIDE DEF f
  <2> QED  BY <2>1, <2>2
<1> QED  BY <1>2, <1>3, <1>4, <1>5 DEF Moved, Ready

\* It stays where it is, in a loop.
LEMMA StayMoved ==
  ASSUME Known, UNCHANGED <<stack, ret>>, Top.at \notin AwaitLabels PROVE Moved
BY DEF Known, Moved, Ready, AwaitLabels, Top

\* It dies: of an error that is known, or of memory nobody wrote.
LEMMA DieKeeps ==
  ASSUME Known, Die, Heard \/ "wild" \in Garbage PROVE ValueInv'
BY DEF Known, Die, ValueInv, DataTyped, semaVars, Heard

-----------------------------------------------------------------------------
(* Types, nodes and precedences the steps build from.                      *)

LEMMA PlainTypes ==
  ASSUME NEW e \in BOOLEAN
  PROVE  /\ {ty_void, ty_bool, ty_int, ty_float, ty_double} \subseteq PrimsAt(e)
         /\ NullType \in PrimsAt(TRUE)
<1>1. <<>> \in Seq(Int)
  BY EmptySeq
<1>2. \A k \in Primitives : Primitive(k) \in PrimsAt(e)
  BY <1>1 DEF Primitive, Primitives, PrimsAt, TypesAt, TypeSet
<1>3. NullType \in PrimsAt(TRUE)
  BY <1>1 DEF NullType, Primitive, PrimsAt, TypesAt, TypeSet
<1> QED  BY <1>2, <1>3 DEF Primitives, ty_void, ty_bool, ty_int, ty_float, ty_double

LEMMA PrimIsType ==
  ASSUME NEW e PROVE PrimsAt(e) \subseteq TypesAt(e) /\ TypesAt(e) \subseteq TypeSet
BY DEF PrimsAt, TypesAt

LEMMA NodeFacts ==
  ASSUME NEW e, NEW ty \in TypesAt(e)
  PROVE  Node(ty) \in NodesAt(e) /\ Node(ty) \in NodeSet
BY DEF Node, NodesAt, NodeSet, TypesAt

LEMMA NodeType ==
  ASSUME NEW e, NEW n \in NodesAt(e) PROVE n.ty \in TypesAt(e) /\ n \in NodeSet
BY DEF NodesAt, NodeSet, TypesAt

LEMMA AnyNode == ASSUME NEW n \in NodeSet PROVE n.ty \in TypeSet /\ Node(n.ty) \in NodeSet
BY DEF NodeSet, Node

\* NULL, as an operand, gives the report away.
LEMMA NullKnown ==
  ASSUME NEW e, NullNode \in NodesAt(e) \/ NullType \in TypesAt(e) PROVE e
BY DEF NullNode, NullType, NodesAt, TypesAt, Primitive

LEMMA PrecFacts ==
  /\ \A k : get_prec(k) \in Int /\ get_prec(k) >= -1
  /\ \A k : get_prec(k) >= 0 => k \in BinOps
BY DEF get_prec, BinOps, Arithmetic, Comparison, Logical

LEMMA BinaryType ==
  ASSUME NEW e \in BOOLEAN, NEW op \in BinOps, NEW l \in TypesAt(e), NEW r
  PROVE  sema_analyze_binary(op, l, r).ty \in TypesAt(e)
<1>1. {ty_void, ty_bool, ty_int} \subseteq TypesAt(e)
  BY PlainTypes, PrimIsType
<1> QED  BY <1>1 DEF sema_analyze_binary, Verdict, BinOps, Arithmetic, Comparison, Logical

\* Frames without locals.
BareLabels ==
  {"unary", "plus", "neg", "not", "paren", "assign", "asg_lhs", "index", "block_open", "block",
   "stmt", "if_else", "stmt_end", "semi", "ret_value", "ret_end", "stmt_expr", "init", "init_first",
   "init_elem", "init_more", "globals", "globals_ret", "globals_skip", "sync"}

LEMMA BareShaped ==
  ASSUME NEW l \in BareLabels, NEW e
  PROVE  Shaped(Frame(l), e) /\ Frame(l).at = l
<1>1. Frame(l).at = l
  BY DEF Frame
<1> QED  BY <1>1 DEF Shaped, BareLabels, VarLabels, InitLabels, FuncFrameLabels, ParamLabels

LEMMA PrecShaped ==
  ASSUME NEW p \in Nat, NEW e, NEW l \in {"binary", "bin_lhs"}
  PROVE  \A f : f = [at |-> l, prec |-> p] => Shaped(f, e) /\ f.at = l /\ f.prec = p
BY DEF Shaped, VarLabels, InitLabels, FuncFrameLabels, ParamLabels

LEMMA RhsShaped ==
  ASSUME NEW p \in Nat, NEW e, NEW n \in NodesAt(e), NEW op, p <= get_prec(op)
  PROVE  \A f : f = [at |-> "bin_rhs", prec |-> p, lhs |-> n, op |-> op] =>
           Shaped(f, e) /\ f.at = "bin_rhs" /\ f.prec = p /\ f.op = op
<1>1. op \in BinOps
  BY PrecFacts
<1> QED  BY <1>1 DEF Shaped, VarLabels, InitLabels, FuncFrameLabels, ParamLabels

LEMMA LhsShaped ==
  ASSUME NEW e, NEW n \in NodesAt(e), NEW l \in {"asg_rhs", "stmt_rhs"}
  PROVE  \A f : f = [at |-> l, lhs |-> n] => Shaped(f, e) /\ f.at = l
BY DEF Shaped, VarLabels, InitLabels, FuncFrameLabels, ParamLabels

LEMMA BaseShaped ==
  ASSUME NEW e, NEW n \in NodesAt(e)
  PROVE  \A f : f = [at |-> "index_close", base |-> n] => Shaped(f, e) /\ f.at = "index_close"
BY DEF Shaped, VarLabels, InitLabels, FuncFrameLabels, ParamLabels

LEMMA NameShaped ==
  ASSUME NEW e, NEW n \in Names
  PROVE  \A f : f = [at |-> "ident", name |-> n] => Shaped(f, e) /\ f.at = "ident"
BY DEF Shaped, VarLabels, InitLabels, FuncFrameLabels, ParamLabels

LEMMA CalleeShaped ==
  ASSUME NEW e, NEW c \in CalleesAt(e), NEW l \in {"args", "args_more"}
  PROVE  \A f : f = [at |-> l, callee |-> c] => Shaped(f, e) /\ f.at = l
BY DEF Shaped, VarLabels, InitLabels, FuncFrameLabels, ParamLabels

-----------------------------------------------------------------------------
(* The steps of the expressions.                                           *)

\* Calls that take no part in the hand-over of operands, by the caller's label.
LEMMA TakenOver ==
  ASSUME NEW f, NEW g, f.at # "bin_rhs",
         f.at \in AwaitLabels => g.at \in ValuedLabels
  PROVE  Over(f, g)
BY DEF Over

LEMMA ParseBinaryValues == ASSUME Known, ParseBinary PROVE ValueInv'
<1>1. Top.at = "binary" /\ Top.prec \in Nat
  BY DEF ParseBinary, At, Known, Shaped
<1> DEFINE f == [at |-> "bin_lhs", prec |-> Top.prec]
<1>2. Shaped(f, Heard) /\ f.at = "bin_lhs" /\ f.prec = Top.prec
  BY <1>1, PrecShaped
<1>3. Shaped(Frame("unary"), Heard) /\ Frame("unary").at = "unary"
  BY BareShaped DEF BareLabels
<1>4. Pure /\ Call(f, Frame("unary"))
  BY DEF ParseBinary
<1> HIDE DEF f
<1>5. Succeeds(Top, f) /\ Over(f, Frame("unary"))
  BY <1>1, <1>2, <1>3 DEF Succeeds, Over, ValuedLabels, BinLabels
<1>6. Frame("unary").at \notin AwaitLabels
  BY <1>3 DEF AwaitLabels
<1> QED  BY <1>2, <1>3, <1>4, <1>5, <1>6, CallMoved, PureKeeps

LEMMA BinaryOperatorValues == ASSUME Known, BinaryOperator PROVE ValueInv'
<1>1. /\ Top.at = "bin_lhs" /\ Top.prec \in Nat /\ get_prec(Kind) >= Top.prec
      /\ get_prec(Kind) \in Int
  BY PrecFacts DEF BinaryOperator, At, Known, Shaped
<1>2. ret \in NodesAt(Heard)
  BY <1>1 DEF Known, Ready, AwaitLabels
<1> DEFINE f == [at |-> "bin_rhs", prec |-> Top.prec, lhs |-> ret, op |-> Kind]
           g == [at |-> "binary", prec |-> get_prec(Kind) + 1]
<1>3. Top.prec <= get_prec(Kind) /\ get_prec(Kind) + 1 \in Nat
  BY <1>1
<1>4. Shaped(f, Heard) /\ f.at = "bin_rhs" /\ f.prec = Top.prec /\ f.op = Kind
  BY <1>1, <1>2, <1>3, RhsShaped
<1>5. Shaped(g, Heard) /\ g.at = "binary" /\ g.prec = get_prec(Kind) + 1
  BY <1>3, PrecShaped
<1>6. Pure /\ Call(f, g)
  BY DEF BinaryOperator
<1> HIDE DEF f, g
<1>7. Succeeds(Top, f) /\ Over(f, g)
  BY <1>1, <1>4, <1>5 DEF Succeeds, Over, ValuedLabels, BinLabels
<1>8. g.at \notin AwaitLabels
  BY <1>5 DEF AwaitLabels
<1> QED  BY <1>4, <1>5, <1>6, <1>7, <1>8, CallMoved, PureKeeps

\* A frame that is no operand loop goes on as f and evaluates an expression.
LEMMA CallExprKeeps ==
  ASSUME Known, Pure, NEW f, CallExpr(f), Shaped(f, Heard), Succeeds(Top, f),
         f.at # "bin_rhs"
  PROVE  ValueInv'
<1> DEFINE g == [at |-> "binary", prec |-> 0]
<1>1. Shaped(g, Heard) /\ g.at = "binary"
  BY PrecShaped
<1>2. Call(f, g)
  BY DEF CallExpr
<1> HIDE DEF g
<1>3. Over(f, g) /\ g.at \notin AwaitLabels
  BY <1>1 DEF Over, ValuedLabels, AwaitLabels
<1> QED  BY <1>1, <1>2, <1>3, CallMoved, PureKeeps

LEMMA CallBareKeeps ==
  ASSUME Known, Pure, NEW f, NEW l \in BareLabels \ AwaitLabels, Call(f, Frame(l)),
         Shaped(f, Heard), Succeeds(Top, f), f.at # "bin_rhs",
         f.at \in AwaitLabels => l \in ValuedLabels
  PROVE  ValueInv'
<1>1. Shaped(Frame(l), Heard) /\ Frame(l).at = l
  BY BareShaped
<1>2. Over(f, Frame(l))
  BY <1>1, TakenOver
<1> QED  BY <1>1, <1>2, CallMoved, PureKeeps

LEMMA CallAssignKeeps ==
  ASSUME Known, Pure, NEW f, CallAssign(f), Shaped(f, Heard), Succeeds(Top, f),
         f.at # "bin_rhs"
  PROVE  ValueInv'
BY CallBareKeeps DEF CallAssign, BareLabels, AwaitLabels, ValuedLabels

\* l can take the place of k in a stack.
Follows(k, l) == k \notin BinLabels /\ (k \in ValuedLabels => l \in ValuedLabels)

LEMMA FollowsSucceeds ==
  ASSUME NEW f, Follows(Top.at, f.at) PROVE Succeeds(Top, f)
BY DEF Follows, Succeeds

LEMMA BareGotoKeeps ==
  ASSUME Known, Pure, NEW l \in BareLabels \ AwaitLabels, Goto(Frame(l)), Follows(Top.at, l)
  PROVE  ValueInv'
<1>1. Shaped(Frame(l), Heard) /\ Frame(l).at = l
  BY BareShaped
<1> QED  BY <1>1, FollowsSucceeds, GotoMoved, PureKeeps

LEMMA GotoKeeps ==
  ASSUME Known, Pure, NEW f, Goto(f), Shaped(f, Heard), f.at \notin AwaitLabels,
         Follows(Top.at, f.at)
  PROVE  ValueInv'
BY FollowsSucceeds, GotoMoved, PureKeeps

LEMMA IndexResumes ==
  ASSUME Known, Pure, NEW v \in NodesAt(Heard), Resume(Frame("index"), v),
         Top.at \in {"ident", "index", "index_close"}
  PROVE  ValueInv'
<1>1. Shaped(Frame("index"), Heard) /\ Frame("index").at = "index"
  BY BareShaped DEF BareLabels
<1>2. Succeeds(Top, Frame("index"))
  BY <1>1 DEF Succeeds, ValuedLabels, BinLabels
<1> QED  BY <1>1, <1>2, NodeType, ResumeMoved, PureKeeps

\* Returning from a frame that is not one of parse_binary: an operand, ...
LEMMA ReturnsOperand ==
  ASSUME Known, Pure, NEW v \in NodesAt(Heard), Return(v), Top.at \notin RootLabels \cup BinLabels
  PROVE  ValueInv'
BY NodeType, ReturnMoved, PureKeeps

\* ... or anything, where nobody counts on it.
LEMMA ReturnsAny ==
  ASSUME Known, Pure, NEW v \in NodeSet, Return(v), Top.at \notin RootLabels \cup ValuedLabels
  PROVE  ValueInv'
BY ReturnMoved, PureKeeps DEF ValuedLabels, BinLabels

LEMMA NullReported == ASSUME Known, Heard PROVE NullNode \in NodesAt(Heard)
BY NullInNodes DEF NodesAt

LEMMA BinaryEndValues == ASSUME Known, BinaryEnd PROVE ValueInv'
<1>1. /\ Top.at = "bin_lhs" /\ Pure /\ Return(ret) /\ get_prec(Kind) < Top.prec
      /\ curr' = curr
  BY DEF BinaryEnd, At, Idle, Stay, lexVars
<1>2. ret \in NodesAt(Heard) /\ ret \in NodeSet
  BY <1>1 DEF Known, Ready, AwaitLabels
<1>3. get_prec(curr'.kind) < Top.prec /\ Top.at \notin RootLabels
  BY <1>1 DEF Kind, RootLabels
<1> QED  BY <1>1, <1>2, <1>3, ReturnMoved, PureKeeps

LEMMA BinaryBuildValues == ASSUME Known, BinaryBuild PROVE ValueInv'
<1> DEFINE t == sema_analyze_binary(Top.op, Top.lhs.ty, ret.ty).ty
           f == [at |-> "bin_lhs", prec |-> Top.prec]
<1>1. /\ Top.at = "bin_rhs" /\ Top.prec \in Nat /\ Top.op \in BinOps
      /\ Top.lhs \in NodesAt(Heard)
  BY DEF BinaryBuild, At, Known, Shaped
<1>2. t \in TypesAt(Heard)
  <2>1. Top.lhs.ty \in TypesAt(Heard)
    BY <1>1, NodeType
  <2> QED  BY <1>1, <2>1, BinaryType DEF Known
<1>3. Pure /\ Resume(f, Node(t))
  BY DEF BinaryBuild
<1> HIDE DEF t
<1>4. Node(t) \in NodesAt(Heard) /\ Node(t) \in NodeSet
  BY <1>2, NodeFacts
<1>5. Shaped(f, Heard) /\ f.at = "bin_lhs" /\ f.prec = Top.prec
  BY <1>1, PrecShaped
<1> HIDE DEF f
<1>6. Succeeds(Top, f)
  BY <1>1, <1>5 DEF Succeeds, ValuedLabels, BinLabels
<1> QED  BY <1>3, <1>4, <1>5, <1>6, ResumeMoved, PureKeeps

\* The analyses read an operand that is NULL: an error is known.
LEMMA BinaryNullValues == ASSUME Known, BinaryNull PROVE ValueInv'
<1>1. /\ Top.at = "bin_rhs" /\ (Top.lhs = NullNode \/ ret = NullNode) /\ Die
  BY DEF BinaryNull, At, Crash
<1>2. Top.lhs \in NodesAt(Heard) /\ ret \in NodesAt(Heard)
  BY <1>1 DEF Known, Shaped, Ready, AwaitLabels
<1>3. Heard
  BY <1>1, <1>2, NullKnown
<1> QED  BY <1>1, <1>3, DieKeeps

LEMMA AssignBuildValues == ASSUME Known, AssignBuild PROVE ValueInv'
<1>1. /\ Top.at = "asg_rhs" /\ Pure /\ Return(Node(Top.lhs.ty))
  BY DEF AssignBuild, At, sema_analyze_assign, Verdict
<1>2. Top.lhs \in NodesAt(Heard)
  BY <1>1 DEF Known, Shaped
<1>3. Node(Top.lhs.ty) \in NodesAt(Heard)
  BY <1>2, NodeType, NodeFacts
<1> QED  BY <1>1, <1>3, ReturnsOperand DEF RootLabels, BinLabels

LEMMA AssignNullValues == ASSUME Known, AssignNull PROVE ValueInv'
<1>1. /\ Top.at = "asg_rhs" /\ (Top.lhs = NullNode \/ ret = NullNode) /\ Die
  BY DEF AssignNull, At, Crash
<1>2. Top.lhs \in NodesAt(Heard) /\ ret \in NodesAt(Heard)
  BY <1>1 DEF Known, Shaped, Ready, AwaitLabels
<1>3. Heard
  BY <1>1, <1>2, NullKnown
<1> QED  BY <1>1, <1>3, DieKeeps

LEMMA LookupTyped ==
  ASSUME NEW e, ChainTyped(scopes, e), NEW n \in Names
  PROVE  sema_lookup(n) \in CalleesAt(e)
<1> DEFINE d == Len(scopes)
           H == Holders(d, n)
<1>1. d \in Nat /\ scopes \in [1..d -> [Names -> CalleesAt(e)]]
  BY LenProperties DEF ChainTyped
<1>2. \A i \in 1..d : scopes[i][n] \in CalleesAt(e)
  BY <1>1
<1>3. CASE H = {}
  BY <1>3 DEF sema_lookup, LookupFrom, CalleesAt
<1>4. CASE H # {}
  <2>1. H \subseteq 1..d
    BY DEF Holders
  <2>2. Max(H) \in 1..d
    <3> HIDE DEF H, d
    <3> QED  BY <1>1, <1>4, <2>1, MaxFacts
  <2> QED  BY <1>2, <1>4, <2>2 DEF sema_lookup, LookupFrom
<1> QED  BY <1>3, <1>4

LEMMA SymbolFacts ==
  ASSUME NEW e \in BOOLEAN, NEW s \in CalleesAt(e), s # Unbound
  PROVE  /\ s.ty \in TypesAt(e) /\ ReturnType(s.ty) \in TypesAt(e)
         /\ VarNode(s) \in NodesAt(e)
<1>1. s \in SymbolsAt(e)
  BY DEF CalleesAt
<1>2. s.ty \in TypesAt(e) /\ s.is_const \in BOOLEAN
  BY <1>1 DEF SymbolsAt
<1> QED  BY <1>2 DEF ReturnType, VarNode, TypesAt, TypeSet, NodesAt, NodeSet

LEMMA OperandValues ==
  ASSUME Known, ParseAssign \/ AssignOperator \/ AssignNone \/ UnaryOperator \/ UnaryBuild
                \/ PrimaryLiteral \/ PrimaryParen \/ ParenClose \/ PrimaryNone
  PROVE  ValueInv'
<1>1. CASE ParseAssign
  <2>1. Shaped(Frame("asg_lhs"), Heard) /\ Frame("asg_lhs").at = "asg_lhs"
    BY BareShaped DEF BareLabels
  <2>2. Top.at = "assign" /\ Pure /\ CallExpr(Frame("asg_lhs"))
    BY <1>1 DEF ParseAssign, At
  <2>3. Succeeds(Top, Frame("asg_lhs"))
    BY <2>1, <2>2 DEF Succeeds, ValuedLabels, BinLabels
  <2> QED  BY <2>1, <2>2, <2>3, CallExprKeeps
<1>2. CASE AssignOperator
  <2> DEFINE f == [at |-> "asg_rhs", lhs |-> ret]
  <2>1. Top.at = "asg_lhs" /\ Pure /\ CallAssign(f)
    BY <1>2 DEF AssignOperator, At
  <2>2. ret \in NodesAt(Heard)
    BY <2>1 DEF Known, Ready, AwaitLabels
  <2>3. Shaped(f, Heard) /\ f.at = "asg_rhs"
    BY <2>2, LhsShaped
  <2> HIDE DEF f
  <2>4. Succeeds(Top, f)
    BY <2>1, <2>3 DEF Succeeds, ValuedLabels, BinLabels
  <2> QED  BY <2>1, <2>3, <2>4, CallAssignKeeps
<1>3. CASE AssignNone
  <2>1. Top.at = "asg_lhs" /\ Pure /\ Return(ret)
    BY <1>3 DEF AssignNone, At
  <2>2. ret \in NodesAt(Heard)
    BY <2>1 DEF Known, Ready, AwaitLabels
  <2> QED  BY <2>1, <2>2, ReturnsOperand DEF RootLabels, BinLabels
<1>4. CASE UnaryOperator
  <2>1. Top.at = "unary" /\ Pure
    BY <1>4 DEF UnaryOperator, At
  <2>2. \E l \in {"plus", "neg", "not"} : Call(Frame(l), Frame("unary"))
    BY <1>4 DEF UnaryOperator, PrefixOps
  <2>3. ASSUME NEW l \in {"plus", "neg", "not"}, Call(Frame(l), Frame("unary")) PROVE ValueInv'
    <3>1. Shaped(Frame(l), Heard) /\ Frame(l).at = l
      BY BareShaped DEF BareLabels
    <3>2. Succeeds(Top, Frame(l))
      BY <2>1, <3>1 DEF Succeeds, ValuedLabels, BinLabels
    <3>3. "unary" \in BareLabels \ AwaitLabels /\ "unary" \in ValuedLabels
      BY DEF BareLabels, AwaitLabels, ValuedLabels
    <3>4. Frame(l).at # "bin_rhs"
      BY <3>1
    <3> QED  BY <2>1, <2>3, <3>1, <3>2, <3>3, <3>4, CallBareKeeps
  <2> QED  BY <2>2, <2>3
<1>5. CASE UnaryBuild
  <2>1. Top.at \in {"plus", "neg", "not"} /\ Pure /\ Top.at \notin RootLabels \cup BinLabels
    BY <1>5 DEF UnaryBuild, At, RootLabels, BinLabels
  <2>2. CASE Top.at = "neg" /\ Return(Node(ret.ty))
    <3>1. ret \in NodesAt(Heard)
      BY <2>2 DEF Known, Ready, AwaitLabels
    <3>2. Node(ret.ty) \in NodesAt(Heard)
      BY <3>1, NodeType, NodeFacts
    <3> QED  BY <2>1, <2>2, <3>2, ReturnsOperand
  <2>3. CASE Return(Node(ty_bool))
    <3>1. ty_bool \in TypesAt(Heard)
      BY PlainTypes, PrimIsType DEF Known
    <3> QED  BY <2>1, <2>3, <3>1, NodeFacts, ReturnsOperand
  <2>4. CASE Top.at = "plus" /\ Return(ret)
    <3>1. ret \in NodesAt(Heard)
      BY <2>4 DEF Known, Ready, AwaitLabels
    <3> QED  BY <2>1, <2>4, <3>1, ReturnsOperand
  <2> QED  BY <1>5, <2>2, <2>3, <2>4 DEF UnaryBuild, At
<1>6. CASE PrimaryLiteral
  <2>1. LiteralType(Kind) \in TypesAt(Heard)
    <3>1. {ty_int, ty_float, ty_double, ty_bool} \subseteq TypesAt(Heard)
      BY PlainTypes, PrimIsType DEF Known
    <3> QED  BY <3>1 DEF LiteralType
  <2>2. Top.at = "unary" /\ Pure /\ Return(Node(LiteralType(Kind)))
    BY <1>6 DEF PrimaryLiteral, At
  <2> QED  BY <2>1, <2>2, NodeFacts, ReturnsOperand DEF RootLabels, BinLabels
<1>7. CASE PrimaryParen
  <2>1. Shaped(Frame("paren"), Heard) /\ Frame("paren").at = "paren"
    BY BareShaped DEF BareLabels
  <2>2. Top.at = "unary" /\ Pure /\ CallExpr(Frame("paren"))
    BY <1>7 DEF PrimaryParen, At
  <2>3. Succeeds(Top, Frame("paren"))
    BY <2>1, <2>2 DEF Succeeds, ValuedLabels, BinLabels
  <2> QED  BY <2>1, <2>2, <2>3, CallExprKeeps
<1>8. CASE ParenClose
  <2>1. Top.at = "paren" /\ Pure /\ Return(ret)
    BY <1>8 DEF ParenClose, At
  <2>2. ret \in NodesAt(Heard)
    BY <2>1 DEF Known, Ready, AwaitLabels
  <2> QED  BY <2>1, <2>2, ReturnsOperand DEF RootLabels, BinLabels
<1>9. CASE PrimaryNone
  <2>1. Top.at = "unary" /\ Pure /\ Return(NullNode) /\ panic_mode'
    BY <1>9 DEF PrimaryNone, At, parser_error
  <2>2. NullNode \in NodesAt(Heard)
    BY <2>1, NullReported DEF Known
  <2> QED  BY <2>1, <2>2, ReturnsOperand DEF RootLabels, BinLabels
<1> QED  BY <1>1, <1>2, <1>3, <1>4, <1>5, <1>6, <1>7, <1>8, <1>9

LEMMA NamedValues ==
  ASSUME Known, TokenInv, PrimaryIdent \/ CallOpen \/ ArgFirst \/ ArgNext \/ Variable
                          \/ IndexOpen \/ IndexEnd
  PROVE  ValueInv'
<1>1. CASE PrimaryIdent
  <2> DEFINE f == [at |-> "ident", name |-> curr.name]
  <2>1. Top.at = "unary" /\ Pure /\ Goto(f)
    BY <1>1 DEF PrimaryIdent, At
  <2>2. curr.name \in Names
    BY <1>1 DEF PrimaryIdent, Match, Kind, TokenInv, TokenType
  <2>3. Shaped(f, Heard) /\ f.at = "ident"
    BY <2>2, NameShaped
  <2> HIDE DEF f
  <2> QED  BY <2>1, <2>3, GotoKeeps DEF Follows, AwaitLabels, ValuedLabels, BinLabels
<1>2. CASE CallOpen
  <2> DEFINE f == [at |-> "args", callee |-> sema_lookup(Top.name)]
  <2>1. Top.at = "ident" /\ Pure /\ Goto(f)
    BY <1>2 DEF CallOpen, At
  <2>2. Top.name \in Names
    BY <2>1 DEF Known, Shaped
  <2>3. sema_lookup(Top.name) \in CalleesAt(Heard)
    BY <2>2, LookupTyped DEF Known, DataTyped
  <2>4. Shaped(f, Heard) /\ f.at = "args"
    BY <2>3, CalleeShaped
  <2> HIDE DEF f
  <2> QED  BY <2>1, <2>4, GotoKeeps DEF Follows, AwaitLabels, ValuedLabels, BinLabels
<1>3. CASE ArgFirst
  <2> DEFINE f == [Top EXCEPT !.at = "args_more"]
  <2>1. Top.at = "args" /\ Pure /\ CallAssign(f)
    BY <1>3 DEF ArgFirst, At
  <2>2. f = [at |-> "args_more", callee |-> Top.callee] /\ Top.callee \in CalleesAt(Heard)
    BY <2>1 DEF Known, Shaped
  <2>3. Shaped(f, Heard) /\ f.at = "args_more"
    BY <2>2, CalleeShaped
  <2> HIDE DEF f
  <2>4. Succeeds(Top, f)
    BY <2>1, <2>3 DEF Succeeds, ValuedLabels, BinLabels
  <2> QED  BY <2>1, <2>3, <2>4, CallAssignKeeps
<1>4. CASE ArgNext
  <2>1. Top.at = "args_more" /\ Pure /\ CallAssign(Top) /\ Shaped(Top, Heard)
    BY <1>4 DEF ArgNext, At, Known
  <2>2. Succeeds(Top, Top)
    BY <2>1 DEF Succeeds
  <2> QED  BY <2>1, <2>2, CallAssignKeeps
<1>5. CASE Variable
  <2> DEFINE sym == sema_lookup(Top.name)
  <2>1. Top.at = "ident" /\ Pure
    BY <1>5 DEF Variable, At
  <2>2. Top.name \in Names
    BY <2>1 DEF Known, Shaped
  <2>3. sym \in CalleesAt(Heard)
    BY <2>2, LookupTyped DEF Known, DataTyped
  <2>4. CASE sym = Unbound
    <3> DEFINE v == [Node(ty_int) EXCEPT !.kind = "ND_VAR"]
    <3>1. v \in NodesAt(Heard)
      <4>1. ty_int \in TypesAt(Heard)
        BY PlainTypes, PrimIsType DEF Known
      <4> QED  BY <4>1 DEF Node, NodesAt, NodeSet, TypesAt
    <3>2. Resume(Frame("index"), v)
      BY <1>5, <2>4 DEF Variable
    <3> HIDE DEF v
    <3> QED  BY <2>1, <3>1, <3>2, IndexResumes
  <2>5. CASE sym # Unbound
    <3>1. VarNode(sym) \in NodesAt(Heard)
      BY <2>3, <2>5, SymbolFacts DEF Known
    <3>2. Resume(Frame("index"), VarNode(sym))
      BY <1>5, <2>5 DEF Variable
    <3> HIDE DEF sym
    <3> QED  BY <2>1, <3>1, <3>2, IndexResumes
  <2> QED  BY <2>4, <2>5
<1>6. CASE IndexOpen
  <2> DEFINE f == [at |-> "index_close", base |-> ret]
  <2>1. Top.at = "index" /\ Pure /\ CallExpr(f)
    BY <1>6 DEF IndexOpen, At
  <2>2. ret \in NodesAt(Heard)
    BY <2>1 DEF Known, Ready, AwaitLabels
  <2>3. Shaped(f, Heard) /\ f.at = "index_close"
    BY <2>2, BaseShaped
  <2> HIDE DEF f
  <2>4. Succeeds(Top, f)
    BY <2>1, <2>3 DEF Succeeds, ValuedLabels, BinLabels
  <2> QED  BY <2>1, <2>3, <2>4, CallExprKeeps
<1>7. CASE IndexEnd
  <2>1. Top.at = "index" /\ Pure /\ Return(ret)
    BY <1>7 DEF IndexEnd, At
  <2>2. ret \in NodesAt(Heard)
    BY <2>1 DEF Known, Ready, AwaitLabels
  <2> QED  BY <2>1, <2>2, ReturnsOperand DEF RootLabels, BinLabels
<1> QED  BY <1>1, <1>2, <1>3, <1>4, <1>5, <1>6, <1>7

LEMMA ElementFacts ==
  ASSUME NEW e, NEW ty \in TypesAt(e), TypeKind(ty) = "ARRAY"
  PROVE  ElementType(ty) \in TypesAt(e)
<1>1. ty \in TypeSet /\ ty.dims \in Seq(Int)
  BY DEF TypesAt, TypeSet
<1>2. ty.dims # <<>>
  BY <1>1 DEF TypeKind, TypesAt, TypeSet, Primitives
<1>3. Front(ty.dims) \in Seq(Int)
  BY <1>1, <1>2, FrontFacts
<1> QED  BY <1>3 DEF ElementType, TypesAt, TypeSet

LEMMA CallCloseValues ==
  ASSUME Known, CallClose \/ CallTypeless \/ IndexClose PROVE ValueInv'
<1>1. ty_int \in TypesAt(Heard)
  BY PlainTypes, PrimIsType DEF Known
<1>2. CASE CallClose
  <2> DEFINE sym == Top.callee
             ty == IF sym # Unbound /\ TypeKind(sym.ty) = "FUNC" THEN ReturnType(sym.ty)
                   ELSE ty_int
  <2>1. Top.at \in {"args", "args_more"} /\ Pure /\ Return(Node(ty))
    BY <1>2 DEF CallClose, AtArgsEnd, At
  <2>2. sym \in CalleesAt(Heard)
    BY <2>1 DEF Known, Shaped
  <2>3. ty \in TypesAt(Heard)
    BY <1>1, <2>2, SymbolFacts DEF Known
  <2> HIDE DEF ty
  <2> QED  BY <2>1, <2>3, NodeFacts, ReturnsOperand DEF RootLabels, BinLabels
<1>3. CASE CallTypeless
  <2>1. Top.at \in {"args", "args_more"} /\ Typeless(Top.callee) /\ Die
    BY <1>3 DEF CallTypeless, AtArgsEnd, At
  <2>2. Top.callee \in CalleesAt(Heard)
    BY <2>1 DEF Known, Shaped
  <2>3. NullType \in TypesAt(Heard)
    BY <2>1, <2>2, SymbolFacts DEF Known, Typeless
  <2> QED  BY <2>1, <2>3, NullKnown, DieKeeps
<1>4. CASE IndexClose
  <2> DEFINE ty == IF TypeKind(Top.base.ty) = "ARRAY" THEN ElementType(Top.base.ty)
                   ELSE ty_int
  <2>1. Top.at = "index_close" /\ Pure /\ Resume(Frame("index"), Node(ty))
    BY <1>4 DEF IndexClose, At
  <2>2. Top.base \in NodesAt(Heard)
    BY <2>1 DEF Known, Shaped
  <2>3. ty \in TypesAt(Heard)
    BY <1>1, <2>2, NodeType, ElementFacts
  <2> HIDE DEF ty
  <2> QED  BY <2>1, <2>3, NodeFacts, IndexResumes
<1> QED  BY <1>2, <1>3, <1>4

LEMMA ExpressionsValues == ASSUME Known, Expressions PROVE ValueInv'
BY ParseBinaryValues, BinaryOperatorValues, BinaryEndValues, BinaryBuildValues,
   BinaryNullValues, AssignBuildValues, AssignNullValues, OperandValues, NamedValues,
   CallCloseValues DEF Expressions, Known

-----------------------------------------------------------------------------
(* The steps of the statements.                                            *)

\* Frames of no expression: nobody waits for what they return.
Loose(l) == l \notin RootLabels \cup ValuedLabels

LEMMA LooseFollows == ASSUME NEW k, NEW l, Loose(k) PROVE Follows(k, l)
BY DEF Loose, Follows, ValuedLabels, BinLabels

LEMMA LooseReturns ==
  ASSUME Known, Pure, NEW v \in NodeSet, Return(v), Loose(Top.at)
  PROVE  ValueInv'
BY ReturnsAny DEF Loose

LEMMA LooseNull == ASSUME Known, Pure, Return(NullNode), Loose(Top.at) PROVE ValueInv'
BY LooseReturns, NullInNodes

LEMMA LooseGoto ==
  ASSUME Known, Pure, Loose(Top.at), NEW l \in BareLabels \ AwaitLabels, Goto(Frame(l))
  PROVE  ValueInv'
BY LooseFollows, BareGotoKeeps

LEMMA LooseCallExpr ==
  ASSUME Known, Pure, Loose(Top.at), NEW l \in BareLabels, CallExpr(Frame(l))
  PROVE  ValueInv'
<1>1. Shaped(Frame(l), Heard) /\ Frame(l).at = l
  BY BareShaped
<1>2. Succeeds(Top, Frame(l))
  BY LooseFollows, FollowsSucceeds
<1>3. Frame(l).at # "bin_rhs"
  BY <1>1 DEF BareLabels
<1> QED  BY <1>1, <1>2, <1>3, CallExprKeeps

\* A loop calls g and comes back to where it is.
LEMMA LoopCalls ==
  ASSUME Known, Pure, Loose(Top.at), Top.at \notin AwaitLabels, NEW g, Call(Top, g),
         Shaped(g, Heard), g.at \notin AwaitLabels
  PROVE  ValueInv'
<1>1. Succeeds(Top, Top) /\ Over(Top, g) /\ Shaped(Top, Heard)
  BY DEF Succeeds, Over, AwaitLabels, Known
<1> QED  BY <1>1, CallMoved, PureKeeps

LEMMA CondShaped ==
  ASSUME NEW e, NEW w \in {"IF", "WHILE"}, NEW l \in {"cond_open", "cond_close"}
  PROVE  \A f : f = [at |-> l, word |-> w] => Shaped(f, e) /\ f.at = l
BY DEF Shaped, VarLabels, InitLabels, FuncFrameLabels, ParamLabels

LEMMA DeclShaped ==
  ASSUME NEW e, NEW t \in BOOLEAN
  PROVE  \A f : f = [at |-> "decl", top |-> t] => Shaped(f, e) /\ f.at = "decl"
BY DEF Shaped, VarLabels, InitLabels, FuncFrameLabels, ParamLabels

LEMMA EnterTyped ==
  ASSUME NEW e, ChainTyped(scopes, e), sema_scope_enter PROVE ChainTyped(scopes', e)
<1> DEFINE M == [Names -> CalleesAt(e)]
<1>1. scopes \in Seq(M) /\ scopes' = Append(scopes, EmptyScope) /\ EmptyScope \in M
  BY DEF ChainTyped, sema_scope_enter, EmptyScope, CalleesAt
<1> HIDE DEF M
<1>2. scopes' \in Seq(M)
  BY <1>1, AppendProperties
<1> QED  BY <1>2 DEF ChainTyped, M

LEMMA LeaveTyped ==
  ASSUME NEW e, ChainTyped(scopes, e), sema_scope_leave PROVE ChainTyped(scopes', e)
<1> DEFINE M == [Names -> CalleesAt(e)]
<1>1. scopes \in Seq(M) /\ scopes' = IF scopes = <<>> THEN scopes ELSE Front(scopes)
  BY DEF ChainTyped, sema_scope_leave
<1> HIDE DEF M
<1>2. scopes # <<>> => Front(scopes) \in Seq(M)
  BY <1>1, FrontFacts
<1>3. scopes' \in Seq(M)
  BY <1>1, <1>2
<1> QED  BY <1>3 DEF ChainTyped, M

LEMMA BlockOpenValues == ASSUME Known, BlockOpen PROVE ValueInv'
<1>1. /\ Top.at = "block_open" /\ Goto(Frame("block")) /\ status' = "run"
      /\ sema_scope_enter /\ UNCHANGED <<funcRet, params, globals>>
  BY DEF BlockOpen, At, BlockFrame
<1>2. Shaped(Frame("block"), Heard) /\ Frame("block").at = "block"
  BY BareShaped DEF BareLabels
<1>3. Follows(Top.at, Frame("block").at) /\ Frame("block").at \notin AwaitLabels
  BY <1>1, <1>2 DEF Follows, BinLabels, ValuedLabels, AwaitLabels
<1>4. Moved
  BY <1>1, <1>2, <1>3, FollowsSucceeds, GotoMoved
<1>5. DataNext
  BY <1>1, EnterTyped DEF Known, DataTyped, DataNext
<1> QED  BY <1>1, <1>4, <1>5, MoveKeeps

LEMMA BlockEndValues == ASSUME Known, BlockEnd PROVE ValueInv'
<1>1. /\ Top.at = "block" /\ Return(NullNode) /\ status' = "run"
      /\ sema_scope_leave /\ UNCHANGED <<funcRet, params, globals>>
  BY DEF BlockEnd, At
<1>2. Top.at \notin RootLabels \cup ValuedLabels \cup BinLabels
  BY <1>1 DEF RootLabels, ValuedLabels, BinLabels
<1>3. Moved
  BY <1>1, <1>2, NullInNodes, ReturnMoved
<1>4. DataNext
  BY <1>1, LeaveTyped DEF Known, DataTyped, DataNext
<1> QED  BY <1>1, <1>3, <1>4, MoveKeeps

LEMMA BlockValues ==
  ASSUME Known, BlockSync \/ BlockSkip \/ BlockDecl \/ BlockStmt PROVE ValueInv'
<1>1. Top.at \in {"block", "body"} /\ Pure
  BY DEF BlockSync, BlockSkip, BlockDecl, BlockStmt, InBlock, AtBlock, At
<1>2. Loose(Top.at) /\ Top.at \notin AwaitLabels
  BY <1>1 DEF Loose, RootLabels, ValuedLabels, AwaitLabels
<1>3. CASE BlockSkip
  BY <1>1, <1>2, <1>3, StayMoved, PureKeeps DEF BlockSkip
<1>4. ASSUME NEW l \in {"sync", "stmt"}, Call(Top, Frame(l)) PROVE ValueInv'
  <2>1. Shaped(Frame(l), Heard) /\ Frame(l).at = l
    BY BareShaped DEF BareLabels
  <2>2. Frame(l).at \notin AwaitLabels
    BY <2>1 DEF AwaitLabels
  <2> QED  BY <1>1, <1>2, <1>4, <2>1, <2>2, LoopCalls
<1>5. CASE BlockDecl
  <2> DEFINE g == [at |-> "decl", top |-> FALSE]
  <2>1. Shaped(g, Heard) /\ g.at = "decl"
    BY DeclShaped
  <2>2. Call(Top, g)
    BY <1>5 DEF BlockDecl
  <2> HIDE DEF g
  <2>3. g.at \notin AwaitLabels
    BY <2>1 DEF AwaitLabels
  <2> QED  BY <1>1, <1>2, <2>1, <2>2, <2>3, LoopCalls
<1> QED  BY <1>3, <1>4, <1>5 DEF BlockSync, BlockStmt, CallStmt

\* The statement under an if, a while or an else.
LEMMA BranchValues ==
  ASSUME Known, Pure, Loose(Top.at), NEW l \in {"if_else", "stmt_end"}, CallStmt(Frame(l))
  PROVE  ValueInv'
<1>1. Shaped(Frame(l), Heard) /\ Frame(l).at = l
  BY BareShaped DEF BareLabels
<1>2. "stmt" \in BareLabels \ AwaitLabels /\ l \notin AwaitLabels /\ l # "bin_rhs"
  BY DEF BareLabels, AwaitLabels
<1>3. Succeeds(Top, Frame(l))
  BY LooseFollows, FollowsSucceeds
<1> QED  BY <1>1, <1>2, <1>3, CallBareKeeps DEF CallStmt

LEMMA CondValues == ASSUME Known, StmtCond \/ CondOpen \/ CondClose PROVE ValueInv'
<1>1. Top.at \in {"stmt", "cond_open", "cond_close"} /\ Pure
  BY DEF StmtCond, CondOpen, CondClose, At
<1>2. Loose(Top.at)
  BY <1>1 DEF Loose, RootLabels, ValuedLabels
<1>3. CASE StmtCond
  <2> DEFINE f == [at |-> "cond_open", word |-> Kind]
  <2>1. Goto(f) /\ Kind \in {"IF", "WHILE"}
    BY <1>3 DEF StmtCond, Match
  <2>2. Shaped(f, Heard) /\ f.at = "cond_open"
    BY <2>1, CondShaped
  <2> HIDE DEF f
  <2>3. f.at \notin AwaitLabels
    BY <2>2 DEF AwaitLabels
  <2> QED  BY <1>1, <1>2, <2>1, <2>2, <2>3, LooseFollows, GotoKeeps
<1>4. CASE CondOpen
  <2> DEFINE f == [Top EXCEPT !.at = "cond_close"]
  <2>1. CallExpr(f) /\ Top.at = "cond_open"
    BY <1>4 DEF CondOpen, At
  <2>2. f = [at |-> "cond_close", word |-> Top.word] /\ Top.word \in {"IF", "WHILE"}
    BY <2>1 DEF Known, Shaped
  <2>3. Shaped(f, Heard) /\ f.at = "cond_close"
    BY <2>2, CondShaped
  <2> HIDE DEF f
  <2>4. Succeeds(Top, f)
    BY <1>2, LooseFollows, FollowsSucceeds
  <2> QED  BY <1>1, <2>1, <2>3, <2>4, CallExprKeeps
<1>5. CASE CondClose
  <2>1. \E l \in {"if_else", "stmt_end"} : CallStmt(Frame(l))
    BY <1>5 DEF CondClose
  <2> QED  BY <1>1, <1>2, <2>1, BranchValues
<1> QED  BY <1>3, <1>4, <1>5

LEMMA SimpleStmtValues ==
  ASSUME Known, StmtElse \/ StmtNoElse \/ StmtEnd \/ StmtJump \/ Semicolon \/ StmtBlock \/ StmtReturn
                \/ ReturnValue \/ ReturnEnd \/ StmtExpr
  PROVE  ValueInv'
<1>1. Top.at \in {"stmt", "if_else", "stmt_end", "semi", "ret_value", "ret_end"} /\ Pure
  BY DEF StmtElse, StmtNoElse, StmtEnd, StmtJump, Semicolon, StmtBlock, StmtReturn, ReturnValue,
     ReturnEnd, StmtExpr, At
<1>2. Loose(Top.at)
  BY <1>1 DEF Loose, RootLabels, ValuedLabels
<1>3. \/ Return(NullNode)
      \/ \E l \in {"semi", "block_open", "ret_value"} : Goto(Frame(l))
      \/ \E l \in {"ret_end", "stmt_expr"} : CallExpr(Frame(l))
      \/ CallStmt(Frame("stmt_end"))
  BY DEF StmtElse, StmtNoElse, StmtEnd, StmtJump, Semicolon, StmtBlock, StmtReturn,
     ReturnValue, ReturnEnd, StmtExpr
<1>4. {"semi", "block_open", "ret_value"} \subseteq BareLabels \ AwaitLabels
  BY DEF BareLabels, AwaitLabels
<1>5. {"ret_end", "stmt_expr"} \subseteq BareLabels
  BY DEF BareLabels
<1> QED  BY <1>1, <1>2, <1>3, <1>4, <1>5, LooseNull, LooseGoto, LooseCallExpr, BranchValues

LEMMA ReturnVoidValues == ASSUME Known, ReturnVoid PROVE ValueInv'
<1>1. Top.at = "ret_value"
  BY DEF ReturnVoid, At
<1>2. Loose(Top.at)
  BY <1>1 DEF Loose, RootLabels, ValuedLabels
<1>3. \/ Pure /\ Return(NullNode)
      \/ "wild" \in Garbage /\ Die
  BY DEF ReturnVoid
<1> QED  BY <1>2, <1>3, LooseNull, DieKeeps

LEMMA StmtExprValues ==
  ASSUME Known, StmtExprNull \/ StmtAssign \/ StmtAssignBuild \/ StmtExprEnd PROVE ValueInv'
<1>1. Top.at \in {"stmt_expr", "stmt_rhs"} /\ Pure
  BY DEF StmtExprNull, StmtAssign, StmtAssignBuild, StmtExprEnd, At
<1>2. Loose(Top.at)
  BY <1>1 DEF Loose, RootLabels, ValuedLabels
<1>3. CASE StmtExprNull \/ StmtExprEnd
  BY <1>1, <1>2, <1>3, LooseNull DEF StmtExprNull, StmtExprEnd
<1>4. CASE StmtAssignBuild
  BY <1>1, <1>2, <1>4, LooseGoto DEF StmtAssignBuild, BareLabels, AwaitLabels
<1>5. CASE StmtAssign
  <2> DEFINE f == [at |-> "stmt_rhs", lhs |-> ret]
  <2>1. Top.at = "stmt_expr" /\ CallExpr(f)
    BY <1>5 DEF StmtAssign, At
  <2>2. ret \in NodesAt(Heard)
    BY <2>1 DEF Known, Ready, AwaitLabels
  <2>3. Shaped(f, Heard) /\ f.at = "stmt_rhs"
    BY <2>2, LhsShaped
  <2> HIDE DEF f
  <2>4. Succeeds(Top, f)
    BY <1>2, LooseFollows, FollowsSucceeds
  <2> QED  BY <1>1, <2>1, <2>3, <2>4, CallExprKeeps
<1> QED  BY <1>3, <1>4, <1>5

LEMMA StatementsValues == ASSUME Known, Statements PROVE ValueInv'
BY BlockOpenValues, BlockEndValues, BlockValues, CondValues, SimpleStmtValues,
   ReturnVoidValues, StmtExprValues DEF Statements

-----------------------------------------------------------------------------
(* The steps of the declarations.                                          *)

LEMMA DefineTyped ==
  ASSUME NEW e, ChainTyped(scopes, e), NEW n \in Names, NEW ty \in TypesAt(e),
         NEW c \in BOOLEAN, sema_define_var(n, ty, c)
  PROVE  ChainTyped(scopes', e)
<1> DEFINE M == [Names -> CalleesAt(e)]
           L == Len(scopes)
           s == [ty |-> ty, is_const |-> c, is_global |-> L = 1]
           m == [scopes[L] EXCEPT ![n] = s]
<1>1. L \in Nat /\ scopes \in [1..L -> M] /\ scopes \in Seq(M)
  BY LenProperties DEF ChainTyped
<1>2. CASE scopes' = scopes
  BY <1>2
<1>3. CASE scopes # <<>> /\ scopes' = [scopes EXCEPT ![L] = m]
  <2>1. L \in 1..L
    BY <1>1, <1>3, EmptySeq
  <2>2. s \in CalleesAt(e)
    BY DEF CalleesAt, SymbolsAt
  <2>3. scopes[L] \in M
    BY <1>1, <2>1
  <2> HIDE DEF s, L
  <2>4. m \in M
    BY <2>2, <2>3
  <2> HIDE DEF m, M
  <2>5. scopes' \in [1..L -> M]
    BY <1>1, <1>3, <2>1, <2>4
  <2>6. scopes' \in Seq(M)
    BY <1>1, <2>5, SeqDef
  <2> QED  BY <2>6 DEF ChainTyped, M
<1> QED  BY <1>2, <1>3 DEF sema_define_var

LEMMA ArrayFacts ==
  ASSUME NEW e, NEW ty \in TypesAt(e), NEW len \in Int
  PROVE  type_array_of(ty, len) \in TypesAt(e)
<1>1. ty.dims \in Seq(Int)
  BY DEF TypesAt, TypeSet
<1>2. Append(ty.dims, len) \in Seq(Int)
  BY <1>1, AppendProperties
<1> QED  BY <1>2 DEF type_array_of, TypesAt, TypeSet

LEMMA TypeWordFacts ==
  ASSUME NEW e \in BOOLEAN, NEW k, k \in TypeWords \/ e
  PROVE  token_to_type(k) \in PrimsAt(e)
<1>1. /\ {ty_void, ty_bool, ty_int, ty_float, ty_double} \subseteq PrimsAt(e)
      /\ e => NullType \in PrimsAt(e)
  BY PlainTypes
<1> QED  BY <1>1 DEF token_to_type, TypeWords

LEMMA WordShaped ==
  ASSUME NEW e, NEW t \in BOOLEAN, NEW c \in BOOLEAN
  PROVE  \A f : f = [at |-> "decl_type", top |-> t, is_const |-> c] =>
           Shaped(f, e) /\ f.at = "decl_type"
BY DEF Shaped, VarLabels, InitLabels, FuncFrameLabels, ParamLabels

LEMMA DeclNameShaped ==
  ASSUME NEW e, NEW t \in BOOLEAN, NEW c \in BOOLEAN, NEW b \in PrimsAt(e)
  PROVE  \A f : f = [at |-> "decl_name", top |-> t, is_const |-> c, base |-> b] =>
           Shaped(f, e) /\ f.at = "decl_name"
BY DEF Shaped, VarLabels, InitLabels, FuncFrameLabels, ParamLabels

LEMMA VarShaped ==
  ASSUME NEW e, NEW b \in PrimsAt(e), NEW c \in BOOLEAN, NEW n \in Names, NEW l \in VarLabels
  PROVE  \A f : f = [at |-> l, base |-> b, is_const |-> c, name |-> n] =>
           Shaped(f, e) /\ f.at = l
BY DEF Shaped, VarLabels, InitLabels, FuncFrameLabels, ParamLabels

LEMMA InitShaped ==
  ASSUME NEW e, NEW b \in PrimsAt(e), NEW c \in BOOLEAN, NEW ty \in TypesAt(e),
         NEW l \in InitLabels
  PROVE  \A f : f = [at |-> l, base |-> b, is_const |-> c, ty |-> ty] =>
           Shaped(f, e) /\ f.at = l
BY DEF Shaped, VarLabels, InitLabels, FuncFrameLabels, ParamLabels

LEMMA RestShaped ==
  ASSUME NEW e, NEW b \in PrimsAt(e), NEW c \in BOOLEAN, NEW l \in {"var_next", "var_name"}
  PROVE  \A f : f = [at |-> l, base |-> b, is_const |-> c] => Shaped(f, e) /\ f.at = l
BY DEF Shaped, VarLabels, InitLabels, FuncFrameLabels, ParamLabels

LEMMA DimsShaped ==
  ASSUME NEW e, NEW ty \in TypesAt(e), NEW l \in {"dims", "dim_len"}
  PROVE  \A f : f = [at |-> l, ty |-> ty] => Shaped(f, e) /\ f.at = l
BY DEF Shaped, VarLabels, InitLabels, FuncFrameLabels, ParamLabels

LEMMA DimShaped ==
  ASSUME NEW e, NEW ty \in TypesAt(e), NEW n \in Int
  PROVE  \A f : f = [at |-> "dim_close", ty |-> ty, len |-> n] =>
           Shaped(f, e) /\ f.at = "dim_close"
BY DEF Shaped, VarLabels, InitLabels, FuncFrameLabels, ParamLabels

DeclFrames == {"decl", "decl_type", "decl_name"} \cup VarLabels \cup InitLabels
              \cup {"var_next", "var_name", "init", "init_first", "init_elem", "init_more"}

LEMMA DeclLoose == ASSUME NEW l \in DeclFrames PROVE Loose(l)
BY DEF DeclFrames, VarLabels, InitLabels, Loose, RootLabels, ValuedLabels

\* A frame of a declaration goes on as f.
LEMMA DeclGoes ==
  ASSUME Known, Pure, Top.at \in DeclFrames, NEW f, Goto(f), Shaped(f, Heard),
         f.at \in DeclFrames \ AwaitLabels
  PROVE  ValueInv'
BY DeclLoose, LooseFollows, GotoKeeps

LEMMA DeclHeadValues ==
  ASSUME Known, TokenInv, DeclConst \/ DeclNotConst \/ DeclType \/ DeclNoType \/ DeclName
                          \/ DeclNoName \/ DeclVars
  PROVE  ValueInv'
<1>1. CASE DeclConst \/ DeclNotConst
  <2>1. PICK c \in BOOLEAN : Goto([at |-> "decl_type", top |-> Top.top, is_const |-> c])
    BY <1>1 DEF DeclConst, DeclNotConst
  <2> DEFINE f == [at |-> "decl_type", top |-> Top.top, is_const |-> c]
  <2>2. Top.at = "decl" /\ Pure /\ Goto(f)
    BY <1>1, <2>1 DEF DeclConst, DeclNotConst, At
  <2>3. Top.top \in BOOLEAN
    BY <2>2 DEF Known, Shaped
  <2>4. Shaped(f, Heard) /\ f.at = "decl_type"
    BY <2>3, WordShaped
  <2> HIDE DEF f
  <2> QED  BY <2>2, <2>4, DeclGoes DEF DeclFrames, AwaitLabels
<1>2. CASE DeclType
  <2> DEFINE f == [at |-> "decl_name", top |-> Top.top, is_const |-> Top.is_const,
                   base |-> token_to_type(Kind)]
  <2>1. Top.at = "decl_type" /\ Pure /\ Goto(f) /\ Kind \in TypeWords
    BY <1>2 DEF DeclType, At
  <2>2. Top.top \in BOOLEAN /\ Top.is_const \in BOOLEAN
    BY <2>1 DEF Known, Shaped
  <2>3. token_to_type(Kind) \in PrimsAt(Heard)
    BY <2>1, TypeWordFacts DEF Known
  <2>4. Shaped(f, Heard) /\ f.at = "decl_name"
    BY <2>2, <2>3, DeclNameShaped
  <2> HIDE DEF f
  <2> QED  BY <2>1, <2>4, DeclGoes DEF DeclFrames, AwaitLabels
<1>3. CASE DeclNoType \/ DeclNoName
  <2>1. Top.at \in DeclFrames /\ Pure /\ Return(NullNode)
    BY <1>3 DEF DeclNoType, DeclNoName, At, DeclFrames
  <2> QED  BY <2>1, DeclLoose, LooseNull
<1>4. CASE DeclName
  <2> DEFINE l == IF Top.top THEN "decl_kind" ELSE "var"
             f == [at |-> l, base |-> Top.base, is_const |-> Top.is_const, name |-> curr.name]
  <2>1. Top.at = "decl_name" /\ Pure /\ Goto(f)
    BY <1>4 DEF DeclName, At
  <2>2. Top.base \in PrimsAt(Heard) /\ Top.is_const \in BOOLEAN
    BY <2>1 DEF Known, Shaped
  <2>3. curr.name \in Names
    BY <1>4 DEF DeclName, Match, Kind, TokenInv, TokenType
  <2>4. l \in VarLabels /\ l # "var_define"
    BY DEF VarLabels
  <2> HIDE DEF l
  <2>5. Shaped(f, Heard) /\ f.at = l
    BY <2>2, <2>3, <2>4, VarShaped
  <2> HIDE DEF f
  <2> QED  BY <2>1, <2>4, <2>5, DeclGoes DEF DeclFrames, AwaitLabels, VarLabels
<1>5. CASE DeclVars
  <2> DEFINE f == [Top EXCEPT !.at = "var"]
  <2>1. Top.at = "decl_kind" /\ Pure /\ Goto(f)
    BY <1>5 DEF DeclVars, At
  <2>2. /\ f = [at |-> "var", base |-> Top.base, is_const |-> Top.is_const, name |-> Top.name]
        /\ Top.base \in PrimsAt(Heard) /\ Top.is_const \in BOOLEAN /\ Top.name \in Names
    BY <2>1 DEF Known, Shaped, VarLabels
  <2>3. Shaped(f, Heard) /\ f.at = "var"
    BY <2>2, VarShaped DEF VarLabels
  <2> HIDE DEF f
  <2> QED  BY <2>1, <2>3, DeclGoes DEF DeclFrames, AwaitLabels, VarLabels
<1> QED  BY <1>1, <1>2, <1>3, <1>4, <1>5

LEMMA VarDefineValues == ASSUME Known, VarDefine PROVE ValueInv'
<1> DEFINE f == [at |-> "var_init", base |-> Top.base, is_const |-> Top.is_const,
                 ty |-> ret.ty]
<1>1. /\ Top.at = "var_define" /\ Goto(f) /\ status' = "run"
      /\ sema_define_var(Top.name, ret.ty, Top.is_const)
      /\ UNCHANGED <<funcRet, params, globals>>
  BY DEF VarDefine, At
<1>2. Top.base \in PrimsAt(Heard) /\ Top.is_const \in BOOLEAN /\ Top.name \in Names
  BY <1>1 DEF Known, Shaped, VarLabels
<1>3. ret.ty \in TypesAt(Heard)
  BY <1>1, NodeType DEF Known, Ready, AwaitLabels
<1>4. Shaped(f, Heard) /\ f.at = "var_init"
  BY <1>2, <1>3, InitShaped DEF InitLabels
<1> HIDE DEF f
<1>5. Moved
  <2>1. Follows(Top.at, f.at)
    BY <1>1, DeclLoose, LooseFollows DEF DeclFrames, VarLabels
  <2>2. f.at \notin AwaitLabels
    BY <1>4 DEF AwaitLabels
  <2> QED  BY <1>1, <1>4, <2>1, <2>2, FollowsSucceeds, GotoMoved
<1>6. DataNext
  BY <1>1, <1>2, <1>3, DefineTyped DEF Known, DataTyped, DataNext
<1> QED  BY <1>1, <1>5, <1>6, MoveKeeps

LEMMA VarValues ==
  ASSUME Known, TokenInv, VarDims \/ VarAssign \/ VarNoInit \/ VarInitList \/ VarInitExpr
                          \/ VarCheck \/ VarComma \/ VarEnd \/ VarName \/ VarNoName
  PROVE  ValueInv'
<1>1. CASE VarDims
  <2> DEFINE f == [Top EXCEPT !.at = "var_define"]
             g == [at |-> "dims", ty |-> Top.base]
  <2>1. Top.at = "var" /\ Pure /\ Call(f, g)
    BY <1>1 DEF VarDims, At
  <2>2. /\ f = [at |-> "var_define", base |-> Top.base, is_const |-> Top.is_const,
                name |-> Top.name]
        /\ Top.base \in PrimsAt(Heard) /\ Top.is_const \in BOOLEAN /\ Top.name \in Names
    BY <2>1 DEF Known, Shaped, VarLabels
  <2>3. Shaped(f, Heard) /\ f.at = "var_define"
    BY <2>2, VarShaped DEF VarLabels
  <2>4. Shaped(g, Heard) /\ g.at = "dims"
    BY <2>2, PrimIsType, DimsShaped
  <2> HIDE DEF f, g
  <2>5. Succeeds(Top, f) /\ Over(f, g) /\ g.at \notin AwaitLabels
    BY <2>1, <2>3, <2>4 DEF Succeeds, Over, ValuedLabels, BinLabels, AwaitLabels
  <2> QED  BY <2>1, <2>3, <2>4, <2>5, CallMoved, PureKeeps
<1>2. CASE VarAssign \/ VarInitExpr
  <2>1. Top.at \in {"var_init", "var_value"} /\ Pure
    BY <1>2 DEF VarAssign, VarInitExpr, At
  <2>2. ASSUME NEW l \in InitLabels
        PROVE  Shaped([Top EXCEPT !.at = l], Heard) /\ [Top EXCEPT !.at = l].at = l
    <3>1. /\ [Top EXCEPT !.at = l] = [at |-> l, base |-> Top.base,
                                      is_const |-> Top.is_const, ty |-> Top.ty]
          /\ Top.base \in PrimsAt(Heard) /\ Top.is_const \in BOOLEAN
          /\ Top.ty \in TypesAt(Heard)
      BY <2>1 DEF Known, Shaped, InitLabels
    <3> QED  BY <3>1, InitShaped
  <2>3. Top.at \in DeclFrames
    BY <2>1 DEF DeclFrames, InitLabels
  <2>4. CASE VarAssign
    <3> DEFINE f == [Top EXCEPT !.at = "var_value"]
    <3>1. Shaped(f, Heard) /\ f.at = "var_value"
      BY <2>2 DEF InitLabels
    <3>2. Goto(f)
      BY <2>4 DEF VarAssign
    <3> HIDE DEF f
    <3> QED  BY <2>1, <2>3, <3>1, <3>2, DeclGoes DEF DeclFrames, AwaitLabels, InitLabels
  <2>5. CASE VarInitExpr
    <3> DEFINE f == [Top EXCEPT !.at = "var_check"]
    <3>1. Shaped(f, Heard) /\ f.at = "var_check"
      BY <2>2 DEF InitLabels
    <3>2. CallExpr(f)
      BY <2>5 DEF VarInitExpr
    <3> HIDE DEF f
    <3>3. Succeeds(Top, f)
      BY <2>3, DeclLoose, LooseFollows, FollowsSucceeds
    <3> QED  BY <2>1, <3>1, <3>2, <3>3, CallExprKeeps
  <2> QED  BY <1>2, <2>4, <2>5
<1>3. CASE VarNoInit \/ VarInitList \/ VarCheck
  <2>1. Top.at \in InitLabels /\ Pure
    BY <1>3 DEF VarNoInit, VarInitList, VarCheck, At, InitLabels
  <2>2. Top.base \in PrimsAt(Heard) /\ Top.is_const \in BOOLEAN
    BY <2>1 DEF Known, Shaped
  <2>3. Shaped(VarRest, Heard) /\ VarRest.at = "var_next"
    BY <2>2, RestShaped DEF VarRest
  <2>4. Top.at \in DeclFrames /\ "var_next" \in DeclFrames \ AwaitLabels
    BY <2>1 DEF DeclFrames, AwaitLabels
  <2>5. CASE Goto(VarRest)
    BY <2>1, <2>3, <2>4, <2>5, DeclGoes
  <2>6. CASE Call(VarRest, Frame("init"))
    <3>1. Succeeds(Top, VarRest)
      BY <2>4, DeclLoose, LooseFollows, FollowsSucceeds
    <3>2. "init" \in BareLabels \ AwaitLabels
      BY DEF BareLabels, AwaitLabels
    <3> QED  BY <2>1, <2>3, <2>4, <2>6, <3>1, <3>2, CallBareKeeps
  <2> QED  BY <1>3, <2>5, <2>6 DEF VarNoInit, VarInitList, VarCheck
<1>4. CASE VarComma
  <2> DEFINE f == [Top EXCEPT !.at = "var_name"]
  <2>1. Top.at = "var_next" /\ Pure /\ Goto(f)
    BY <1>4 DEF VarComma, At
  <2>2. /\ f = [at |-> "var_name", base |-> Top.base, is_const |-> Top.is_const]
        /\ Top.base \in PrimsAt(Heard) /\ Top.is_const \in BOOLEAN
    BY <2>1 DEF Known, Shaped
  <2>3. Shaped(f, Heard) /\ f.at = "var_name"
    BY <2>2, RestShaped
  <2> HIDE DEF f
  <2> QED  BY <2>1, <2>3, DeclGoes DEF DeclFrames, AwaitLabels
<1>5. CASE VarEnd \/ VarNoName
  <2>1. Top.at \in DeclFrames /\ Pure /\ Return(Node(NullType))
    BY <1>5 DEF VarEnd, VarNoName, At, DeclFrames
  <2>2. Node(NullType) \in NodeSet
    BY PlainTypes, PrimIsType, NodeFacts DEF Known
  <2> QED  BY <2>1, <2>2, DeclLoose, LooseReturns
<1>6. CASE VarName
  <2> DEFINE f == [at |-> "var", base |-> Top.base, is_const |-> Top.is_const,
                   name |-> curr.name]
  <2>1. Top.at = "var_name" /\ Pure /\ Goto(f)
    BY <1>6 DEF VarName, At
  <2>2. Top.base \in PrimsAt(Heard) /\ Top.is_const \in BOOLEAN
    BY <2>1 DEF Known, Shaped
  <2>3. curr.name \in Names
    BY <1>6 DEF VarName, Match, Kind, TokenInv, TokenType
  <2>4. Shaped(f, Heard) /\ f.at = "var"
    BY <2>2, <2>3, VarShaped DEF VarLabels
  <2> HIDE DEF f
  <2> QED  BY <2>1, <2>4, DeclGoes DEF DeclFrames, AwaitLabels, VarLabels
<1> QED  BY <1>1, <1>2, <1>3, <1>4, <1>5, <1>6

LEMMA DimValues ==
  ASSUME Known, TokenInv, DimOpen \/ DimsEnd \/ DimLen \/ DimNoLen \/ DimClose \/ DimNull
  PROVE  ValueInv'
<1>1. /\ Top.at \in {"dims", "dim_len", "dim_close"}
      /\ Top.ty \in TypesAt(Heard)
  BY DEF DimOpen, DimsEnd, DimLen, DimNoLen, DimClose, DimNull, At, Known, Shaped
<1>2. \A l \in {"dims", "dim_len", "dim_close"} : Follows(Top.at, l) /\ l \notin AwaitLabels
  BY <1>1 DEF Follows, ValuedLabels, BinLabels, AwaitLabels
<1>3. CASE DimOpen \/ DimNoLen
  <2>1. PICK l \in {"dims", "dim_len"} : Goto([Top EXCEPT !.at = l])
    BY <1>3 DEF DimOpen, DimNoLen
  <2> DEFINE f == [Top EXCEPT !.at = l]
  <2>2. Top.at \in {"dims", "dim_len"} /\ Pure /\ Goto(f)
    BY <1>3, <2>1 DEF DimOpen, DimNoLen, At
  <2>3. f = [at |-> l, ty |-> Top.ty]
    BY <2>2 DEF Known, Shaped
  <2>4. Shaped(f, Heard) /\ f.at = l
    BY <1>1, <2>3, DimsShaped
  <2> HIDE DEF f
  <2> QED  BY <1>2, <2>2, <2>4, GotoKeeps
<1>4. CASE DimsEnd
  <2>1. Pure /\ Return(Node(Top.ty))
    BY <1>4 DEF DimsEnd
  <2>2. Top.at \notin RootLabels \cup BinLabels
    BY <1>1 DEF RootLabels, BinLabels
  <2> QED  BY <1>1, <2>1, <2>2, NodeFacts, ReturnsOperand
<1>5. CASE DimLen
  <2> DEFINE f == [at |-> "dim_close", ty |-> Top.ty, len |-> curr.len]
  <2>1. Pure /\ Goto(f)
    BY <1>5 DEF DimLen
  <2>2. curr.len \in Int
    BY DEF TokenInv, TokenType
  <2>3. Shaped(f, Heard) /\ f.at = "dim_close"
    BY <1>1, <2>2, DimShaped
  <2> HIDE DEF f
  <2> QED  BY <1>2, <2>1, <2>3, GotoKeeps
<1>6. CASE DimClose
  <2> DEFINE f == [at |-> "dims", ty |-> type_array_of(Top.ty, Top.len)]
  <2>1. Pure /\ Goto(f) /\ Top.at = "dim_close"
    BY <1>6 DEF DimClose, At
  <2>2. Top.len \in Int
    BY <2>1 DEF Known, Shaped
  <2>3. type_array_of(Top.ty, Top.len) \in TypesAt(Heard)
    BY <1>1, <2>2, ArrayFacts
  <2>4. Shaped(f, Heard) /\ f.at = "dims"
    BY <2>3, DimsShaped
  <2> HIDE DEF f
  <2> QED  BY <1>2, <2>1, <2>4, GotoKeeps
<1>7. CASE DimNull
  <2>1. Die /\ Top.ty = NullType
    BY <1>7 DEF DimNull
  <2> QED  BY <1>1, <2>1, NullKnown, DieKeeps
<1> QED  BY <1>3, <1>4, <1>5, <1>6, <1>7

LEMMA InitListValues ==
  ASSUME Known, InitOpen \/ InitEmpty \/ InitElem \/ InitComma \/ InitClose
  PROVE  ValueInv'
<1>1. Top.at \in {"init", "init_first", "init_elem", "init_more"} /\ Pure
  BY DEF InitOpen, InitEmpty, InitElem, InitComma, InitClose, At
<1>2. Loose(Top.at)
  BY <1>1, DeclLoose DEF DeclFrames
<1>3. CASE Return(Node(NullType))
  <2>1. Node(NullType) \in NodeSet
    BY PlainTypes, PrimIsType, NodeFacts DEF Known
  <2> QED  BY <1>1, <1>2, <1>3, <2>1, LooseReturns
<1>4. CASE \E l \in {"init_first", "init_elem"} : Goto(Frame(l))
  <2>1. {"init_first", "init_elem"} \subseteq BareLabels \ AwaitLabels
    BY DEF BareLabels, AwaitLabels
  <2> QED  BY <1>1, <1>2, <1>4, <2>1, LooseGoto
<1>5. CASE InitElem
  <2>1. Shaped(Frame("init_more"), Heard) /\ Frame("init_more").at = "init_more"
    BY BareShaped DEF BareLabels
  <2>2. Succeeds(Top, Frame("init_more"))
    BY <1>2, LooseFollows, FollowsSucceeds
  <2>3. "init" \in BareLabels \ AwaitLabels /\ "init_more" \notin AwaitLabels
    BY DEF BareLabels, AwaitLabels
  <2>4. CASE Call(Frame("init_more"), Frame("init"))
    BY <1>1, <2>1, <2>2, <2>3, <2>4, CallBareKeeps
  <2>5. CASE CallAssign(Frame("init_more"))
    BY <1>1, <2>1, <2>2, <2>5, CallAssignKeeps
  <2> QED  BY <1>5, <2>4, <2>5 DEF InitElem
<1> QED  BY <1>3, <1>4, <1>5 DEF InitOpen, InitEmpty, InitComma, InitClose

LEMMA DeclarationsValues == ASSUME Known, Declarations PROVE ValueInv'
BY DeclHeadValues, VarDefineValues, VarValues, DimValues, InitListValues
   DEF Declarations, Known

-----------------------------------------------------------------------------
(* The steps of the functions.                                             *)

HeadFrames == FuncFrameLabels \cup ParamLabels \cup {"param_name", "param_close"}

LEMMA HeadLoose == ASSUME NEW l \in HeadFrames PROVE Loose(l)
BY DEF HeadFrames, FuncFrameLabels, ParamLabels, Loose, RootLabels, ValuedLabels

LEMMA HeadGoes ==
  ASSUME Known, Pure, Top.at \in HeadFrames, NEW f, Goto(f), Shaped(f, Heard),
         f.at \in HeadFrames \ {"param_define"}
  PROVE  ValueInv'
<1>1. f.at \notin AwaitLabels
  BY DEF HeadFrames, FuncFrameLabels, ParamLabels, AwaitLabels
<1> QED  BY <1>1, HeadLoose, LooseFollows, GotoKeeps

\* What the frame of a function knows of the function.
LEMMA HeadTyped ==
  ASSUME Known, Top.at \in HeadFrames
  PROVE  /\ Top.func \in Names /\ Top.own \in BOOLEAN /\ Top.rty \in PrimsAt(Heard)
         /\ Top.at \notin FuncFrameLabels => Top.ty \in TypesAt(Heard)
         /\ Top.at \in ParamLabels \cup {"param_close"} => Top.name \in Names
         /\ Top.at = "param_close" => Top.len \in Int
<1>1. Shaped(Top, Heard)
  BY DEF Known
<1>2. CASE Top.at \in FuncFrameLabels
  BY <1>1, <1>2 DEF Shaped, FuncFrameLabels, ParamLabels
<1>3. CASE Top.at \in ParamLabels
  BY <1>1, <1>3 DEF Shaped, FuncFrameLabels, ParamLabels
<1>4. CASE Top.at = "param_name"
  BY <1>1, <1>4 DEF Shaped, FuncFrameLabels, ParamLabels
<1>5. CASE Top.at = "param_close"
  BY <1>1, <1>5 DEF Shaped, FuncFrameLabels, ParamLabels
<1> QED  BY <1>2, <1>3, <1>4, <1>5 DEF HeadFrames

LEMMA FuncShaped ==
  ASSUME NEW e, NEW n \in Names, NEW o \in BOOLEAN, NEW r \in PrimsAt(e),
         NEW l \in FuncFrameLabels
  PROVE  \A f : f = [at |-> l, func |-> n, own |-> o, rty |-> r] => Shaped(f, e) /\ f.at = l
BY DEF Shaped, VarLabels, InitLabels, FuncFrameLabels, ParamLabels

LEMMA ParamShaped ==
  ASSUME NEW e, NEW n \in Names, NEW o \in BOOLEAN, NEW r \in PrimsAt(e),
         NEW ty \in TypesAt(e), NEW p \in Names, NEW l \in ParamLabels
  PROVE  \A f : f = [at |-> l, func |-> n, own |-> o, rty |-> r, ty |-> ty, name |-> p] =>
           Shaped(f, e) /\ f.at = l
BY DEF Shaped, VarLabels, InitLabels, FuncFrameLabels, ParamLabels

LEMMA UnnamedShaped ==
  ASSUME NEW e, NEW n \in Names, NEW o \in BOOLEAN, NEW r \in PrimsAt(e),
         NEW ty \in TypesAt(e)
  PROVE  \A f : f = [at |-> "param_name", func |-> n, own |-> o, rty |-> r, ty |-> ty,
                     name |-> NoName] => Shaped(f, e) /\ f.at = "param_name"
BY DEF Shaped, VarLabels, InitLabels, FuncFrameLabels, ParamLabels

LEMMA LenShaped ==
  ASSUME NEW e, NEW n \in Names, NEW o \in BOOLEAN, NEW r \in PrimsAt(e),
         NEW ty \in TypesAt(e), NEW p \in Names, NEW len \in Int
  PROVE  \A f : f = [at |-> "param_close", func |-> n, own |-> o, rty |-> r, ty |-> ty,
                     name |-> p, len |-> len] => Shaped(f, e) /\ f.at = "param_close"
BY DEF Shaped, VarLabels, InitLabels, FuncFrameLabels, ParamLabels

LEMMA FuncTypeFacts ==
  ASSUME NEW e, NEW ty \in TypesAt(e), NEW n \in Names PROVE type_func_new(ty, n) \in TypesAt(e)
BY DEF type_func_new, TypesAt, TypeSet

LEMMA FuncOpenValues == ASSUME Known, FuncOpen PROVE ValueInv'
<1> DEFINE f == [at |-> "func_enter", func |-> Top.name, own |-> ~Redefined(Top.name),
                 rty |-> Top.base]
           ty == type_func_new(Top.base, Top.name)
<1>1. /\ Top.at = "decl_kind" /\ Goto(f) /\ status' = "run"
      /\ sema_define_var(Top.name, ty, FALSE) /\ UNCHANGED <<funcRet, params, globals>>
  BY DEF FuncOpen, At
<1>2. Top.base \in PrimsAt(Heard) /\ Top.name \in Names
  BY <1>1 DEF Known, Shaped, VarLabels
<1>3. ty \in TypesAt(Heard)
  BY <1>2, PrimIsType, FuncTypeFacts
<1>4. PICK own \in BOOLEAN : own = ~Redefined(Top.name)
  <2>1. (~Redefined(Top.name)) = FALSE \/ (~Redefined(Top.name)) = TRUE
    BY Zenon
  <2> QED  BY <2>1, Zenon
<1>5. Shaped(f, Heard) /\ f.at = "func_enter"
  <2>1. f = [at |-> "func_enter", func |-> Top.name, own |-> own, rty |-> Top.base]
    BY <1>4, Zenon
  <2> HIDE DEF f
  <2> QED  BY <1>2, <2>1, FuncShaped DEF FuncFrameLabels
<1> HIDE DEF f, ty
<1>6. Moved
  <2>1. Follows(Top.at, f.at)
    BY <1>1, DeclLoose, LooseFollows DEF DeclFrames, VarLabels
  <2>2. f.at \notin AwaitLabels
    BY <1>5 DEF AwaitLabels
  <2> QED  BY <1>1, <1>5, <2>1, <2>2, FollowsSucceeds, GotoMoved
<1>7. DataNext
  BY <1>1, <1>2, <1>3, DefineTyped DEF Known, DataTyped, DataNext
<1> QED  BY <1>1, <1>6, <1>7, MoveKeeps

LEMMA FuncEnterValues == ASSUME Known, FuncEnter PROVE ValueInv'
<1> DEFINE f == [Top EXCEPT !.at = "params"]
<1>1. /\ Top.at = "func_enter" /\ Goto(f) /\ status' = "run"
      /\ funcRet' = Top.rty /\ sema_scope_enter /\ UNCHANGED <<params, globals>>
  BY DEF FuncEnter, At
<1>2. Top.at \in HeadFrames
  BY <1>1 DEF HeadFrames, FuncFrameLabels
<1>3. /\ f = [at |-> "params", func |-> Top.func, own |-> Top.own, rty |-> Top.rty]
      /\ Top.rty \in PrimsAt(Heard)
  BY <1>1 DEF Known, Shaped, FuncFrameLabels
<1>4. Shaped(f, Heard) /\ f.at = "params"
  BY <1>2, <1>3, HeadTyped, FuncShaped DEF FuncFrameLabels
<1> HIDE DEF f
<1>5. Moved
  <2>1. Follows(Top.at, f.at)
    BY <1>2, HeadLoose, LooseFollows
  <2>2. f.at \notin AwaitLabels
    BY <1>4 DEF AwaitLabels
  <2> QED  BY <1>1, <1>4, <2>1, <2>2, FollowsSucceeds, GotoMoved
<1>6. DataNext
  <2>1. PrimsAt(Heard) \subseteq PrimsAt(TRUE)
    BY MoreAfterError DEF Known
  <2> QED  BY <1>1, <1>3, <2>1, EnterTyped DEF Known, DataTyped, DataNext
<1> QED  BY <1>1, <1>5, <1>6, MoveKeeps

LEMMA ParamHeadValues ==
  ASSUME Known, TokenInv, ParamType \/ ParamName \/ ParamArray \/ ParamScalar \/ ParamLen
                          \/ ParamComma \/ ParamsEnd \/ BodyOpen
  PROVE  ValueInv'
<1>1. Top.at \in HeadFrames /\ Pure
  BY DEF ParamType, ParamName, ParamArray, ParamScalar, ParamLen, ParamComma, ParamsEnd,
     BodyOpen, At, HeadFrames, FuncFrameLabels, ParamLabels
<1>2. /\ Top.func \in Names /\ Top.own \in BOOLEAN /\ Top.rty \in PrimsAt(Heard)
      /\ Top.at \notin FuncFrameLabels => Top.ty \in TypesAt(Heard)
      /\ Top.at \in ParamLabels \cup {"param_close"} => Top.name \in Names
  BY <1>1, HeadTyped
<1>3. CASE ParamType
  <2> DEFINE ty == token_to_type(Kind)
             f == ParamFrame("param_name", ty, NoName)
  <2>1. Goto(f) /\ (Kind \notin TypeWords => panic_mode')
    BY <1>3 DEF ParamType
  <2>2. ty \in TypesAt(Heard)
    BY <2>1, TypeWordFacts, PrimIsType DEF Known
  <2> HIDE DEF ty
  <2>3. Shaped(f, Heard) /\ f.at = "param_name"
    BY <1>2, <2>2, UnnamedShaped DEF ParamFrame
  <2> HIDE DEF f
  <2> QED  BY <1>1, <2>1, <2>3, HeadGoes DEF HeadFrames
<1>4. CASE ParamName
  <2>1. PICK n \in PunnedNames(IF Kind = "IDENT" THEN curr ELSE prev) :
          Goto(ParamFrame("param_dims", Top.ty, n))
    BY <1>4 DEF ParamName
  <2>2. n \in Names
    BY <2>1, ParserAssumption DEF PunnedNames, TokenInv, TokenType
  <2> DEFINE f == ParamFrame("param_dims", Top.ty, n)
  <2>3. Top.at \notin FuncFrameLabels
    BY <1>4 DEF ParamName, At, FuncFrameLabels
  <2>4. Shaped(f, Heard) /\ f.at = "param_dims"
    BY <1>2, <2>2, <2>3, ParamShaped DEF ParamFrame, ParamLabels
  <2>5. Goto(f)
    BY <2>1
  <2> HIDE DEF f
  <2> QED  BY <1>1, <2>4, <2>5, HeadGoes DEF HeadFrames, ParamLabels
<1>5. CASE ParamArray \/ ParamScalar
  <2>1. Top.at = "param_dims" /\ Top.at \in ParamLabels \ FuncFrameLabels
    BY <1>5 DEF ParamArray, ParamScalar, At, ParamLabels, FuncFrameLabels
  <2>2. ASSUME NEW l \in ParamLabels
        PROVE  Shaped([Top EXCEPT !.at = l], Heard) /\ [Top EXCEPT !.at = l].at = l
    <3>1. [Top EXCEPT !.at = l] = [at |-> l, func |-> Top.func, own |-> Top.own,
                                   rty |-> Top.rty, ty |-> Top.ty, name |-> Top.name]
      BY <2>1 DEF Known, Shaped, ParamLabels
    <3> QED  BY <1>2, <2>1, <3>1, ParamShaped
  <2>3. CASE ParamArray
    <3> DEFINE f == [Top EXCEPT !.at = "param_len"]
    <3>1. Shaped(f, Heard) /\ f.at = "param_len"
      BY <2>2 DEF ParamLabels
    <3>2. Goto(f)
      BY <2>3 DEF ParamArray
    <3> HIDE DEF f
    <3> QED  BY <1>1, <3>1, <3>2, HeadGoes DEF HeadFrames, ParamLabels
  <2>4. CASE ParamScalar
    <3> DEFINE f == [Top EXCEPT !.at = "param_define"]
    <3>1. Shaped(f, Heard) /\ f.at = "param_define"
      BY <2>2 DEF ParamLabels
    <3>2. Resume(f, Node(Top.ty))
      BY <2>4 DEF ParamScalar
    <3>3. Node(Top.ty) \in NodesAt(Heard) /\ Node(Top.ty) \in NodeSet
      BY <1>2, <2>1, NodeFacts
    <3> HIDE DEF f
    <3>4. Succeeds(Top, f)
      BY <1>1, HeadLoose, LooseFollows, FollowsSucceeds
    <3>5. f.at # "bin_rhs"
      BY <3>1
    <3> QED  BY <1>1, <3>1, <3>2, <3>3, <3>4, <3>5, ResumeMoved, PureKeeps
  <2> QED  BY <1>5, <2>3, <2>4
<1>6. CASE ParamLen
  <2> DEFINE f == [at |-> "param_close", func |-> Top.func, own |-> Top.own,
                   rty |-> Top.rty, ty |-> Top.ty, name |-> Top.name, len |-> curr.len]
  <2>1. Top.at \in ParamLabels \ FuncFrameLabels /\ Goto(f)
    BY <1>6 DEF ParamLen, At, ParamLabels, FuncFrameLabels
  <2>2. curr.len \in Int
    BY DEF TokenInv, TokenType
  <2>3. Shaped(f, Heard) /\ f.at = "param_close"
    BY <1>2, <2>1, <2>2, LenShaped
  <2> HIDE DEF f
  <2> QED  BY <1>1, <2>1, <2>3, HeadGoes DEF HeadFrames
<1>7. CASE ParamComma \/ ParamsEnd
  <2>1. PICK l \in {"param", "body_open"} : Goto(FuncFrame(l))
    BY <1>7 DEF ParamComma, ParamsEnd
  <2> DEFINE f == FuncFrame(l)
  <2>2. Shaped(f, Heard) /\ f.at = l
    BY <1>2, FuncShaped DEF FuncFrame, FuncFrameLabels
  <2>3. Goto(f)
    BY <2>1
  <2> HIDE DEF f
  <2> QED  BY <1>1, <2>2, <2>3, HeadGoes DEF HeadFrames, FuncFrameLabels
<1>8. CASE BodyOpen
  <2> DEFINE f == [Top EXCEPT !.at = "body"]
  <2>1. Top.at = "body_open" /\ Goto(f)
    BY <1>8 DEF BodyOpen, At
  <2>2. f = [at |-> "body", func |-> Top.func, own |-> Top.own, rty |-> Top.rty]
    BY <2>1 DEF Known, Shaped, FuncFrameLabels
  <2>3. Shaped(f, Heard) /\ f.at = "body"
    BY <1>2, <2>2, FuncShaped DEF FuncFrameLabels
  <2> HIDE DEF f
  <2> QED  BY <1>1, <2>1, <2>3, HeadGoes DEF HeadFrames, FuncFrameLabels
<1> QED  BY <1>3, <1>4, <1>5, <1>6, <1>7, <1>8

\* A parameter's remaining dimensions are read.
LEMMA ParamDimsKeeps ==
  ASSUME Known, Pure, Top.at \in HeadFrames, NEW f, NEW ty \in TypesAt(Heard),
         Call(f, [at |-> "dims", ty |-> ty]), Shaped(f, Heard), f.at = "param_define"
  PROVE  ValueInv'
<1> DEFINE g == [at |-> "dims", ty |-> ty]
<1>1. Shaped(g, Heard) /\ g.at = "dims" /\ Call(f, g)
  BY DimsShaped
<1> HIDE DEF g
<1>2. Over(f, g) /\ g.at \notin AwaitLabels
  BY <1>1 DEF Over, ValuedLabels, AwaitLabels
<1>3. Succeeds(Top, f)
  BY HeadLoose, LooseFollows, FollowsSucceeds
<1> QED  BY <1>1, <1>2, <1>3, CallMoved, PureKeeps

LEMMA ParamLenValues ==
  ASSUME Known, ParamOpenArray \/ ParamNoLen \/ ParamClose \/ ParamNull PROVE ValueInv'
<1>1. /\ Top.at \in {"param_len", "param_close"} /\ Top.at \in HeadFrames \ FuncFrameLabels
      /\ Top.at \in ParamLabels \cup {"param_close"}
  BY DEF ParamOpenArray, ParamNoLen, ParamClose, ParamNull, At, HeadFrames,
     FuncFrameLabels, ParamLabels
<1>2. /\ Top.func \in Names /\ Top.own \in BOOLEAN /\ Top.rty \in PrimsAt(Heard)
      /\ Top.ty \in TypesAt(Heard) /\ Top.name \in Names
      /\ Top.at = "param_close" => Top.len \in Int
  BY <1>1, HeadTyped
<1> DEFINE f == [at |-> "param_define", func |-> Top.func, own |-> Top.own,
                 rty |-> Top.rty, ty |-> Top.ty, name |-> Top.name]
<1>3. Shaped(f, Heard) /\ f.at = "param_define"
  BY <1>2, ParamShaped DEF ParamLabels
<1>4. CASE ParamOpenArray \/ ParamNoLen
  <2>1. PICK ty \in {type_array_of(Top.ty, 0), Top.ty} : ParamDims(ty)
    BY <1>4 DEF ParamOpenArray, ParamNoLen
  <2>2. ty \in TypesAt(Heard)
    BY <1>2, ArrayFacts
  <2>3. Pure /\ Top.at = "param_len"
    BY <1>4 DEF ParamOpenArray, ParamNoLen, At
  <2>4. [Top EXCEPT !.at = "param_define"] = f
    BY <2>3 DEF Known, Shaped, ParamLabels
  <2>5. Call(f, [at |-> "dims", ty |-> ty])
    BY <2>1, <2>4 DEF ParamDims
  <2> HIDE DEF f
  <2> QED  BY <1>1, <1>3, <2>2, <2>3, <2>5, ParamDimsKeeps
<1>5. CASE ParamClose
  <2>1. /\ Pure /\ Top.at = "param_close"
        /\ Call(f, [at |-> "dims", ty |-> type_array_of(Top.ty, Top.len)])
    BY <1>5 DEF ParamClose, ParamFrame, At
  <2>2. type_array_of(Top.ty, Top.len) \in TypesAt(Heard)
    BY <1>2, <2>1, ArrayFacts
  <2> HIDE DEF f
  <2> QED  BY <1>1, <1>3, <2>1, <2>2, ParamDimsKeeps
<1>6. CASE ParamNull
  <2>1. Die /\ Top.ty = NullType
    BY <1>6 DEF ParamNull
  <2> QED  BY <1>2, <2>1, NullKnown, DieKeeps
<1> QED  BY <1>4, <1>5, <1>6

LEMMA ParamDefineValues == ASSUME Known, ParamDefine PROVE ValueInv'
<1> DEFINE f == FuncFrame("param_next")
<1>1. /\ Top.at = "param_define" /\ Goto(f) /\ status' = "run"
      /\ sema_define_var(Top.name, ret.ty, FALSE)
      /\ params' = IF Top.own THEN [params EXCEPT ![Top.func] = Append(@, ret.ty)] ELSE params
      /\ UNCHANGED <<funcRet, globals>>
  BY DEF ParamDefine, At
<1>2. Top.at \in HeadFrames /\ Top.at \in ParamLabels
  BY <1>1 DEF HeadFrames, ParamLabels
<1>3. /\ Top.func \in Names /\ Top.own \in BOOLEAN /\ Top.rty \in PrimsAt(Heard)
      /\ Top.name \in Names
  BY <1>2, HeadTyped
<1>4. ret.ty \in TypesAt(Heard) /\ ret.ty \in TypeSet
  BY <1>1, NodeType, PrimIsType DEF Known, Ready, AwaitLabels
<1>5. Shaped(f, Heard) /\ f.at = "param_next"
  BY <1>3, FuncShaped DEF FuncFrame, FuncFrameLabels
<1> HIDE DEF f
<1>6. Moved
  <2>1. Follows(Top.at, f.at)
    BY <1>2, HeadLoose, LooseFollows
  <2>2. f.at \notin AwaitLabels
    BY <1>5 DEF AwaitLabels
  <2> QED  BY <1>1, <1>5, <2>1, <2>2, FollowsSucceeds, GotoMoved
<1>7. params' \in [Names -> Seq(TypeSet)]
  <2>1. params \in [Names -> Seq(TypeSet)]
    BY DEF Known, DataTyped
  <2>2. Append(params[Top.func], ret.ty) \in Seq(TypeSet)
    <3>1. params[Top.func] \in Seq(TypeSet)
      BY <1>3, <2>1
    <3> QED  BY <1>4, <3>1, AppendProperties
  <2> QED  BY <1>1, <2>1, <2>2
<1>8. DataNext
  BY <1>1, <1>3, <1>4, <1>7, DefineTyped DEF Known, DataTyped, DataNext
<1> QED  BY <1>1, <1>6, <1>8, MoveKeeps

LEMMA BodyEndValues == ASSUME Known, BodyEnd PROVE ValueInv'
<1>1. /\ Top.at = "body" /\ Return(Node(NullType)) /\ status' = "run"
      /\ sema_scope_leave /\ funcRet' = NullType /\ UNCHANGED <<params, globals>>
  BY DEF BodyEnd, At
<1>2. Node(NullType) \in NodeSet /\ NullType \in PrimsAt(TRUE)
  BY PlainTypes, PrimIsType, NodeFacts DEF Known
<1>3. Top.at \notin RootLabels \cup ValuedLabels \cup BinLabels
  BY <1>1 DEF RootLabels, ValuedLabels, BinLabels
<1>4. Moved
  BY <1>1, <1>2, <1>3, ReturnMoved
<1>5. DataNext
  BY <1>1, <1>2, LeaveTyped DEF Known, DataTyped, DataNext
<1> QED  BY <1>1, <1>4, <1>5, MoveKeeps

LEMMA FunctionsValues == ASSUME Known, Functions PROVE ValueInv'
BY FuncOpenValues, FuncEnterValues, ParamHeadValues, ParamLenValues, ParamDefineValues,
   BodyEndValues DEF Functions, Known

-----------------------------------------------------------------------------
(* The steps of the top level.                                             *)

LEMMA RootFollows == ASSUME NEW k \in RootLabels, NEW l PROVE Follows(k, l)
BY DEF RootLabels, Follows, ValuedLabels, BinLabels

LEMMA RootCalls ==
  ASSUME Known, Pure, Top.at \in RootLabels, NEW l \in RootLabels, NEW g, Call(Frame(l), g),
         Shaped(g, Heard), g.at \notin AwaitLabels
  PROVE  ValueInv'
<1>1. Shaped(Frame(l), Heard) /\ Frame(l).at = l
  BY BareShaped DEF BareLabels, RootLabels
<1>2. Frame(l).at \notin AwaitLabels
  BY <1>1 DEF RootLabels, AwaitLabels
<1>3. Over(Frame(l), g)
  BY <1>2 DEF Over, AwaitLabels
<1>4. Succeeds(Top, Frame(l))
  BY RootFollows, FollowsSucceeds
<1> QED  BY <1>1, <1>3, <1>4, CallMoved, PureKeeps

LEMMA GlobalKeepValues == ASSUME Known, GlobalKeep PROVE ValueInv'
<1>1. /\ Top.at = "globals_ret" /\ Goto(Frame("globals")) /\ status' = "run"
      /\ globals' = globals + 1 /\ UNCHANGED semaVars
  BY DEF GlobalKeep, At
<1>2. Shaped(Frame("globals"), Heard) /\ Frame("globals").at = "globals"
  BY BareShaped DEF BareLabels
<1>3. Follows(Top.at, Frame("globals").at) /\ Frame("globals").at \notin AwaitLabels
  BY <1>1, <1>2, RootFollows DEF RootLabels, AwaitLabels
<1>4. Moved
  BY <1>1, <1>2, <1>3, FollowsSucceeds, GotoMoved
<1>5. globals' \in Nat
  BY <1>1 DEF Known, DataTyped
<1>6. DataNext
  BY <1>1, <1>5 DEF Known, DataTyped, DataNext, semaVars
<1> QED  BY <1>1, <1>4, <1>6, MoveKeeps

LEMMA GlobalsEndValues == ASSUME Known, GlobalsEnd PROVE ValueInv'
<1>1. /\ stack' = <<>> /\ ret' = NullNode /\ status' = "done" /\ sema_scope_leave
      /\ UNCHANGED <<funcRet, params, globals>>
  BY DEF GlobalsEnd
<1>2. StackValues(stack', Heard)
  <2>1. Len(stack') = 0
    BY <1>1, EmptySeq
  <2> QED  BY <2>1 DEF StackValues
<1>3. DataNext
  BY <1>1, LeaveTyped DEF Known, DataTyped, DataNext
<1> QED  BY <1>1, <1>2, <1>3, NullInNodes DEF ValueInv, Heard, DataTyped, DataNext

LEMMA TopLevelValues == ASSUME Known, TopLevel PROVE ValueInv'
<1>1. CASE GlobalNext
  <2> DEFINE g == [at |-> "decl", top |-> TRUE]
  <2>1. Pure /\ Top.at = "globals" /\ Call(Frame("globals_ret"), g)
    BY <1>1 DEF GlobalNext, At
  <2>2. Shaped(g, Heard) /\ g.at = "decl"
    BY DeclShaped
  <2> HIDE DEF g
  <2> QED  BY <2>1, <2>2, RootCalls DEF RootLabels, AwaitLabels
<1>2. CASE GlobalSync
  <2>1. Pure /\ Top.at = "globals_ret" /\ Call(Frame("globals_skip"), Frame("sync"))
    BY <1>2 DEF GlobalSync, At
  <2>2. Shaped(Frame("sync"), Heard) /\ Frame("sync").at = "sync"
    BY BareShaped DEF BareLabels
  <2> QED  BY <2>1, <2>2, RootCalls DEF RootLabels, AwaitLabels
<1>3. CASE GlobalNoSync \/ GlobalSkip
  <2>1. /\ Pure /\ Top.at \in RootLabels
        /\ Goto(Frame("globals")) \/ Goto(Frame("globals_skip"))
    BY <1>3 DEF GlobalNoSync, GlobalSkip, At, RootLabels
  <2>2. {"globals", "globals_skip"} \subseteq BareLabels \ AwaitLabels
    BY DEF BareLabels, AwaitLabels
  <2> QED  BY <2>1, <2>2, RootFollows, BareGotoKeeps
<1>4. CASE SyncSkip \/ SyncEnd
  <2>1. Pure /\ Top.at = "sync"
    BY <1>4 DEF SyncSkip, SyncEnd, At
  <2>2. Loose(Top.at) /\ Top.at \notin AwaitLabels
    BY <2>1 DEF Loose, RootLabels, ValuedLabels, AwaitLabels
  <2> QED  BY <1>4, <2>1, <2>2, LooseNull, StayMoved, PureKeeps DEF SyncSkip, SyncEnd
<1> QED  BY <1>1, <1>2, <1>3, <1>4, GlobalKeepValues, GlobalsEndValues DEF TopLevel

-----------------------------------------------------------------------------
(* The theorems.                                                           *)

LEMMA StepRuns == ASSUME Step PROVE status = "run"
<1> SUFFICES ASSUME \A l : ~At(l) PROVE FALSE
  BY DEF At
<1>1. ~Expressions
  BY DEF Expressions, ParseBinary, BinaryOperator, BinaryEnd, BinaryBuild, BinaryNull,
     ParseAssign, AssignOperator, AssignNone, AssignBuild, AssignNull, UnaryOperator,
     UnaryBuild, PrimaryLiteral, PrimaryParen, ParenClose, PrimaryIdent, PrimaryNone,
     CallOpen, ArgFirst, ArgNext, CallClose, CallTypeless, AtArgsEnd, Variable, IndexOpen,
     IndexEnd, IndexClose
<1>2. ~Statements
  BY DEF Statements, BlockOpen, BlockSync, BlockSkip, BlockDecl, BlockStmt, BlockEnd,
     InBlock, AtBlock, StmtCond, CondOpen, CondClose, StmtElse, StmtNoElse, StmtEnd,
     StmtJump, Semicolon, StmtBlock, StmtReturn, ReturnValue, ReturnEnd, ReturnVoid, StmtExpr,
     StmtExprNull, StmtAssign, StmtAssignBuild, StmtExprEnd
<1>3. ~Declarations
  BY DEF Declarations, DeclConst, DeclNotConst, DeclType, DeclNoType, DeclName, DeclNoName,
     DeclVars, VarDims, VarDefine, VarAssign, VarNoInit, VarInitList, VarInitExpr, VarCheck,
     VarComma, VarEnd, VarName, VarNoName, DimOpen, DimsEnd, DimLen, DimNoLen, DimClose,
     DimNull, InitOpen, InitEmpty, InitElem, InitComma, InitClose
<1>4. ~Functions
  BY DEF Functions, FuncOpen, FuncEnter, ParamType, ParamName, ParamArray, ParamScalar,
     ParamOpenArray, ParamLen, ParamNoLen, ParamClose, ParamNull, ParamDefine, ParamComma,
     ParamsEnd, BodyOpen, BodyEnd
<1>5. ~TopLevel
  BY DEF TopLevel, GlobalNext, GlobalKeep, GlobalSync, GlobalNoSync, GlobalSkip,
     GlobalsEnd, SyncSkip, SyncEnd
<1> QED  BY <1>1, <1>2, <1>3, <1>4, <1>5 DEF Step

LEMMA BuiltinsTyped ==
  ASSUME NEW e \in BOOLEAN
  PROVE  ChainTyped(<<BuiltinScope>>, e) /\ BuiltinParams \in [Names -> Seq(TypeSet)]
<1>1. /\ {ty_void, ty_bool, ty_int, ty_float, ty_double} \subseteq TypesAt(e)
      /\ TypesAt(e) \subseteq TypeSet
  BY PlainTypes, PrimIsType
<1>2. /\ \A n \in DOMAIN Printers : Printers[n] \in TypesAt(e)
      /\ \A n \in DOMAIN Getters : Getters[n] \in TypesAt(e)
  BY <1>1 DEF Printers, Getters
<1>3. BuiltinScope \in [Names -> CalleesAt(e)]
  <2> DEFINE s(n) == [ty |-> type_func_new(BuiltinReturn(n), n), is_const |-> FALSE,
                      is_global |-> TRUE]
  <2>1. ASSUME NEW n \in Names, n \in DOMAIN Printers \cup DOMAIN Getters
        PROVE  s(n) \in CalleesAt(e)
    <3>1. BuiltinReturn(n) \in TypesAt(e)
      BY <1>1, <1>2, <2>1 DEF BuiltinReturn
    <3>2. type_func_new(BuiltinReturn(n), n) \in TypesAt(e)
      BY <3>1, FuncTypeFacts
    <3> QED  BY <3>2 DEF CalleesAt, SymbolsAt
  <2>2. Unbound \in CalleesAt(e)
    BY DEF CalleesAt
  <2>3. BuiltinScope = [n \in Names |-> IF n \in DOMAIN Printers \cup DOMAIN Getters
                                        THEN s(n) ELSE Unbound]
    BY DEF BuiltinScope
  <2> HIDE DEF s
  <2> QED  BY <2>1, <2>2, <2>3
<1>4. <<BuiltinScope>> \in Seq([Names -> CalleesAt(e)])
  BY <1>3
<1>5. BuiltinParams \in [Names -> Seq(TypeSet)]
  <2>1. ASSUME NEW n \in DOMAIN Printers PROVE <<Printers[n]>> \in Seq(TypeSet)
    <3>1. Printers[n] \in TypeSet
      BY <1>1, <1>2
    <3> QED  BY <3>1
  <2>2. <<>> \in Seq(TypeSet)
    BY EmptySeq
  <2> QED  BY <2>1, <2>2 DEF BuiltinParams
<1> QED  BY <1>4, <1>5 DEF ChainTyped

\* Frames, returned values and symbols are in order in every state.
LEMMA ValueInvariant == Spec => []ValueInv
<1>1. Init => ValueInv
  <2> SUFFICES ASSUME Init PROVE ValueInv
    OBVIOUS
  <2>1. ctx.had_error \in BOOLEAN
    <3>1. ctx = CtxInit \/ ctx = ctx_error(CtxInit)
      BY DEF Init
    <3>2. CtxInit.had_error = FALSE
      BY DEF CtxInit
    <3>3. ctx_error(CtxInit) = [had_error |-> TRUE, panic_mode |-> TRUE, printed |-> 1]
      BY DEF CtxInit, ctx_error
    <3>4. ctx.had_error = FALSE \/ ctx.had_error = TRUE
      BY <3>1, <3>2, <3>3
    <3> QED  BY <3>4
  <2>2. StackValues(stack, ctx.had_error) /\ Top = Frame("globals") /\ Top.at = "globals"
    <3>1. /\ Shaped(Frame("globals"), ctx.had_error)
          /\ Frame("globals").at = "globals"
      BY BareShaped DEF BareLabels
    <3>2. stack = <<Frame("globals")>> /\ Len(stack) = 1 /\ stack[1] = Frame("globals")
      BY DEF Init
    <3> QED  BY <3>1, <3>2 DEF StackValues, Top, Last
  <2>3. Ready(Top, ret, Kind, ctx.had_error)
    BY <2>2 DEF Ready, AwaitLabels
  <2>4. DataTyped(ctx.had_error)
    BY <2>1, BuiltinsTyped, PlainTypes DEF Init, DataTyped
  <2>5. ret \in NodeSet /\ status = "run"
    BY NullInNodes DEF Init
  <2> QED  BY <2>2, <2>3, <2>4, <2>5 DEF ValueInv
<1>2. LatchInv /\ StackInv /\ ValueInv /\ [Next]_vars => ValueInv'
  <2> SUFFICES ASSUME LatchInv, StackInv, ValueInv, Next \/ UNCHANGED vars PROVE ValueInv'
    OBVIOUS
  <2>1. CASE UNCHANGED vars
    BY <2>1 DEF vars, lexVars, semaVars, ValueInv, DataTyped, ChainTyped, Top, Kind
  <2>2. CASE Stopped
    BY <2>2, <2>1 DEF Stopped
  <2>3. CASE Step
    <3>1. LatchStep
      BY <2>3, ExpressionsLatch, StatementsLatch, DeclarationsLatch, FunctionsLatch,
         TopLevelLatch DEF Step
    <3>2. Known
      BY <2>3, <3>1, StepRuns, KnownNow
    <3> QED  BY <2>3, <3>2, ExpressionsValues, StatementsValues, DeclarationsValues,
               FunctionsValues, TopLevelValues DEF Step
  <2> QED  BY <2>1, <2>2, <2>3 DEF Next
<1> QED  BY <1>1, <1>2, LatchInvariant, StackInvariant, PTL DEF Spec

\* The frames that are on the stack, in any state.
LEMMA FrameFacts ==
  ASSUME StackInv, ValueInv, NEW i \in DOMAIN stack
  PROVE  /\ Shaped(stack[i], ctx.had_error) /\ "at" \in DOMAIN stack[i]
         /\ i + 1 \in DOMAIN stack => Over(stack[i], stack[i + 1])
<1>1. status # "done"
  BY EmptySeq DEF StackInv
<1>2. StackOK(stack)
  BY <1>1 DEF StackInv
<1>3. DOMAIN stack = 1..Len(stack) /\ Len(stack) \in Nat
  BY <1>2, SeqLength DEF StackOK
<1>4. Shaped(stack[i], ctx.had_error) /\ Placed(stack[i], i, stack)
  BY <1>2, <1>3 DEF ValueInv, StackValues, StackOK
<1>5. ASSUME i + 1 \in DOMAIN stack PROVE Over(stack[i], stack[i + 1])
  <2>1. i \in 1..(Len(stack) - 1)
    BY <1>3, <1>5
  <2> QED  BY <2>1 DEF ValueInv, StackValues
<1> QED  BY <1>4, <1>5 DEF Placed

\* The variables keep their types for every token stream: what a call hands back
\* is a node, what a scope binds is a symbol with a type, parameter vectors hold
\* types, and curr_func_ret is a primitive type or nothing (parser.c:140-879).
THEOREM ParserType == ASSUME TypeSet \subseteq SymbolTypes PROVE Spec => []TypeOK
<1>1. LatchInv /\ StackInv /\ ValueInv => TypeOK
  <2> SUFFICES ASSUME LatchInv, StackInv, ValueInv PROVE TypeOK
    OBVIOUS
  <2>1. {curr, prev} \subseteq TokenType /\ fed \in Nat /\ panic_mode \in BOOLEAN
    BY DEF LatchInv, TokenInv
  <2>2. \A i \in DOMAIN stack : "at" \in DOMAIN stack[i]
    BY FrameFacts
  <2>3. /\ ret \in NodeSet /\ globals \in Nat /\ status \in {"run", "done", "crashed"}
        /\ params \in [Names -> Seq(TypeSet)]
    BY DEF ValueInv, DataTyped, StackInv
  <2>4. ctx \in ContextType
    BY DEF LatchInv, Later
  <2>5. scopes \in Seq([Names -> Symbols \cup {Unbound}])
    <3> DEFINE M == [Names -> CalleesAt(ctx.had_error)]
               N == [Names -> Symbols \cup {Unbound}]
    <3>1. M \subseteq N
      <4>1. CalleesAt(ctx.had_error) \subseteq Symbols \cup {Unbound}
        BY DEF CalleesAt, SymbolsAt, TypesAt, Symbols
      <4> QED  BY <4>1
    <3>2. scopes \in Seq(M)
      BY DEF ValueInv, DataTyped, ChainTyped
    <3> HIDE DEF M, N
    <3>3. Len(scopes) \in Nat /\ scopes \in [1..Len(scopes) -> M]
      BY <3>2, LenProperties
    <3>4. scopes \in [1..Len(scopes) -> N]
      BY <3>1, <3>3
    <3>5. scopes \in Seq(N)
      BY <3>3, <3>4, SeqDef
    <3> QED  BY <3>5 DEF N
  <2>6. funcRet \in {Primitive(k) : k \in Primitives \cup {"null"}}
    <3>1. funcRet \in PrimsAt(TRUE)
      BY DEF ValueInv, DataTyped
    <3>2. funcRet = Primitive(funcRet.prim) /\ funcRet.prim \in Primitives \cup {"null"}
      BY <3>1 DEF PrimsAt, TypesAt, TypeSet, Primitive
    <3> QED  BY <3>2
  <2> QED  BY <2>1, <2>2, <2>3, <2>4, <2>5, <2>6 DEF TypeOK, ScopesTypeOK
<1> QED  BY <1>1, LatchInvariant, StackInvariant, ValueInvariant, PTL

\* For every token stream a dereference of NULL - an operand, an array's base, a
\* callee's type - comes only after something was reported, provided the
\* operand that 'return;' never stores can be followed (parser.c:437, sema.c:95,
\* type.c:74).
THEOREM ParserNoSilentCrash == ASSUME "wild" \notin Garbage PROVE Spec => []NoSilentCrash
<1>1. ValueInv => NoSilentCrash
  BY DEF ValueInv, NoSilentCrash
<1> QED  BY <1>1, ValueInvariant, PTL

\* For every token stream an operand that waits for its operator's right side
\* exists and has a type, unless something was reported (parser.c:350-388).
THEOREM ParserOperandsTyped == Spec => []OperandsTyped
<1>1. StackInv /\ ValueInv => OperandsTyped
  <2> SUFFICES ASSUME StackInv, ValueInv, ~ctx.had_error,
                      NEW i \in FramesAt({"bin_rhs", "asg_rhs", "stmt_rhs"})
               PROVE  stack[i].lhs # NullNode /\ stack[i].lhs.ty # NullType
    BY DEF OperandsTyped
  <2>1. i \in DOMAIN stack /\ stack[i].at \in {"bin_rhs", "asg_rhs", "stmt_rhs"}
    BY DEF FramesAt
  <2>2. Shaped(stack[i], ctx.had_error)
    BY <2>1, FrameFacts
  <2>3. stack[i].lhs \in NodesAt(ctx.had_error)
    BY <2>1, <2>2 DEF Shaped
  <2>4. stack[i].lhs.ty \in TypesAt(ctx.had_error)
    BY <2>3, NodeType
  <2> QED  BY <2>3, <2>4, NullKnown
<1> QED  BY <1>1, StackInvariant, ValueInvariant, PTL

\* For every expression operators group by precedence, equal ones from the left:
\* of those waiting for their right operand each binds tighter than the one
\* below it, and no complete operand is followed by an operator that should
\* have taken it (parser.c:280-365).
THEOREM ParserGrouping == Spec => []OperatorGrouping
<1>1. StackInv /\ ValueInv => OperatorGrouping
  <2> SUFFICES ASSUME StackInv, ValueInv PROVE OperatorGrouping
    OBVIOUS
  <2>1. ASSUME NEW i \in FramesAt({"bin_rhs"}), i + 1 \in FramesAt({"bin_rhs"})
        PROVE  get_prec(stack[i].op) < get_prec(stack[i + 1].op)
    <3>1. /\ i \in DOMAIN stack /\ i + 1 \in DOMAIN stack
          /\ stack[i].at = "bin_rhs" /\ stack[i + 1].at = "bin_rhs"
      BY <2>1 DEF FramesAt
    <3>2. /\ Over(stack[i], stack[i + 1])
          /\ Shaped(stack[i + 1], ctx.had_error)
      BY <3>1, FrameFacts
    <3>3. stack[i + 1].prec = get_prec(stack[i].op) + 1
      BY <3>1, <3>2 DEF Over
    <3>4. stack[i + 1].prec <= get_prec(stack[i + 1].op)
      BY <3>1, <3>2 DEF Shaped
    <3>5. get_prec(stack[i].op) \in Int /\ get_prec(stack[i + 1].op) \in Int
      BY PrecFacts
    <3> QED  BY <3>3, <3>4, <3>5
  <2>2. ASSUME At("bin_rhs") PROVE get_prec(Kind) <= get_prec(Top.op)
    BY <2>2 DEF At, ValueInv, Ready
  <2> QED  BY <2>1, <2>2 DEF OperatorGrouping
<1> QED  BY <1>1, StackInvariant, ValueInvariant, PTL

-----------------------------------------------------------------------------
(* Each step of the parser is one operation of the symbol table, or none,  *)
(* so what ScopesProofs shows of the operations holds of the parser.       *)

LEMMA ExpressionsMove == ASSUME Expressions PROVE TableMove
<1>1. ASSUME Pure \/ Die PROVE TableMove
  BY <1>1 DEF Pure, Die, semaVars, TableMove
<1>2. Pure \/ Die
  BY DEF Expressions, ParseBinary, BinaryOperator, BinaryEnd, BinaryBuild, BinaryNull,
     ParseAssign, AssignOperator, AssignNone, AssignBuild, AssignNull, UnaryOperator,
     UnaryBuild, PrimaryLiteral, PrimaryParen, ParenClose, PrimaryIdent, PrimaryNone,
     CallOpen, ArgFirst, ArgNext, CallClose, CallTypeless, Variable, IndexOpen,
     IndexEnd, IndexClose, Crash
<1> QED  BY <1>1, <1>2

LEMMA StatementsMove == ASSUME Statements PROVE TableMove
<1>1. ASSUME Pure \/ Die PROVE TableMove
  BY <1>1 DEF Pure, Die, semaVars, TableMove
<1>2. CASE BlockOpen
  BY <1>2 DEF BlockOpen, TableMove
<1>3. CASE BlockEnd
  BY <1>3 DEF BlockEnd, TableMove
<1>4. Pure \/ Die \/ BlockOpen \/ BlockEnd
  BY DEF Statements, BlockSync, BlockSkip, BlockDecl, BlockStmt, StmtCond, CondOpen,
     CondClose, StmtElse, StmtNoElse, StmtEnd, StmtJump, Semicolon, StmtBlock, StmtReturn,
     ReturnValue, ReturnEnd, ReturnVoid, StmtExpr, StmtExprNull, StmtAssign,
     StmtAssignBuild, StmtExprEnd
<1> QED  BY <1>1, <1>2, <1>3, <1>4

\* The types that declarations read from the frame on top of the stack.
LEMMA DeclarationsMove ==
  ASSUME TypeSet \subseteq SymbolTypes, Known, Declarations PROVE TableMove
<1>1. ASSUME Pure \/ Die PROVE TableMove
  BY <1>1 DEF Pure, Die, semaVars, TableMove
<1>2. CASE VarDefine
  <2>1. Top.name \in Names /\ Top.is_const \in BOOLEAN
    BY <1>2 DEF Known, VarDefine, At, Shaped, VarLabels
  <2>2. ret.ty \in SymbolTypes
    BY DEF Known, NodeSet
  <2> QED  BY <1>2, <2>1, <2>2 DEF VarDefine, TableMove
<1>3. Pure \/ Die \/ VarDefine
  BY DEF Declarations, DeclConst, DeclNotConst, DeclType, DeclNoType, DeclName, DeclNoName,
     DeclVars, VarDims, VarAssign, VarNoInit, VarInitList, VarInitExpr, VarCheck, VarComma,
     VarEnd, VarName, VarNoName, DimOpen, DimsEnd, DimLen, DimNoLen, DimClose, DimNull,
     InitOpen, InitEmpty, InitElem, InitComma, InitClose
<1> QED  BY <1>1, <1>2, <1>3

LEMMA FunctionsMove ==
  ASSUME TypeSet \subseteq SymbolTypes, Known, Functions PROVE TableMove
<1>1. ASSUME Pure \/ Die PROVE TableMove
  BY <1>1 DEF Pure, Die, semaVars, TableMove
<1>2. CASE FuncOpen
  <2>1. Top.name \in Names /\ Top.base \in PrimsAt(Heard)
    BY <1>2 DEF Known, FuncOpen, At, Shaped, VarLabels
  <2>2. type_func_new(Top.base, Top.name) \in SymbolTypes
    BY <2>1, FuncTypeFacts DEF PrimsAt, TypesAt
  <2> QED  BY <1>2, <2>1, <2>2 DEF FuncOpen, TableMove
<1>3. CASE FuncEnter
  BY <1>3 DEF FuncEnter, TableMove
<1>4. CASE ParamDefine
  <2>1. Top.name \in Names
    BY <1>4 DEF Known, ParamDefine, At, Shaped, ParamLabels
  <2>2. ret.ty \in SymbolTypes
    BY DEF Known, NodeSet
  <2> QED  BY <1>4, <2>1, <2>2 DEF ParamDefine, TableMove
<1>5. CASE BodyEnd
  BY <1>5 DEF BodyEnd, TableMove
<1>6. Pure \/ Die \/ FuncOpen \/ FuncEnter \/ ParamDefine \/ BodyEnd
  BY DEF Functions, ParamType, ParamName, ParamArray, ParamScalar, ParamOpenArray, ParamLen,
     ParamNoLen, ParamClose, ParamNull, ParamComma, ParamsEnd, BodyOpen
<1> QED  BY <1>1, <1>2, <1>3, <1>4, <1>5, <1>6

LEMMA TopLevelMove == ASSUME TopLevel PROVE TableMove
<1>1. ASSUME Pure PROVE TableMove
  BY <1>1 DEF Pure, semaVars, TableMove
<1>2. CASE GlobalKeep
  BY <1>2 DEF GlobalKeep, semaVars, TableMove
<1>3. CASE GlobalsEnd
  BY <1>3 DEF GlobalsEnd, TableMove
<1>4. Pure \/ GlobalKeep \/ GlobalsEnd
  BY DEF TopLevel, GlobalNext, GlobalSync, GlobalNoSync, GlobalSkip, SyncSkip, SyncEnd
<1> QED  BY <1>1, <1>2, <1>3, <1>4

\* One step of the parser, one operation of the table at most.
LEMMA ParserMoves ==
  ASSUME TypeSet \subseteq SymbolTypes, LatchInv, StackInv, ValueInv,
         Next \/ UNCHANGED vars
  PROVE  TableMove
<1>1. CASE UNCHANGED vars
  BY <1>1 DEF vars, semaVars, TableMove
<1>2. CASE Stopped
  BY <1>2, <1>1 DEF Stopped
<1>3. CASE Step
  <2>1. LatchStep
    BY <1>3, ExpressionsLatch, StatementsLatch, DeclarationsLatch, FunctionsLatch,
       TopLevelLatch DEF Step
  <2>2. Known
    BY <1>3, <2>1, StepRuns, KnownNow
  <2> QED  BY <1>3, <2>2, ExpressionsMove, StatementsMove, DeclarationsMove,
             FunctionsMove, TopLevelMove DEF Step
<1> QED  BY <1>1, <1>2, <1>3 DEF Next

LEMMA ChainOfMaps == ASSUME TypeOK PROVE scopes \in Seq(Maps)
BY DEF TypeOK, ScopesTypeOK, Maps, Bindings

\* For every token stream no step of the parser takes back or rebinds a name of
\* a scope that stays open: not a redefinition, not the end of an inner block,
\* not a synchronization (parser.c:399-457, 545-772 over sema.c:48-81).
THEOREM ParserBindingsStable ==
  ASSUME TypeSet \subseteq SymbolTypes PROVE Spec => BindingsStable
<1>1. TypeOK /\ LatchInv /\ StackInv /\ ValueInv /\ [Next]_vars => [Stable]_scopeVars
  BY ChainOfMaps, ParserMoves, MoveStable
<1> QED  BY <1>1, ParserType, LatchInvariant, StackInvariant, ValueInvariant, PTL
            DEF Spec, BindingsStable, Stable

\* For every token stream what an identifier means in each open scope changes
\* as the abstract environment of ScopedEnv.tla says: inherited when a scope is
\* opened, restored when it is closed, extended by one unused name when one is
\* declared (parser.c:399-457, 545-772 over sema.c:40-91).
THEOREM ParserLexicalScoping ==
  ASSUME TypeSet \subseteq SymbolTypes PROVE Spec => LexicalScoping
<1>1. TypeOK /\ LatchInv /\ StackInv /\ ValueInv /\ [Next]_vars
        => [UNCHANGED scopes \/ Env!Next]_(Env!vars)
  BY ChainOfMaps, ParserMoves, MoveRefines
<1> QED  BY <1>1, ParserType, LatchInvariant, StackInvariant, ValueInvariant, PTL
            DEF Spec, LexicalScoping
=============================================================================
