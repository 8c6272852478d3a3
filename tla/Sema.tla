--------------------------------- MODULE Sema ---------------------------------
(***************************************************************************)
(* The checks of src/src/sema.c that the parser runs as it builds nodes.   *)
(* A node is what they read of it: whether it is a plain variable (and a   *)
(* const one) and its type; NullNode is the NULL a failed parse returns.   *)
(***************************************************************************)
EXTENDS Scopes, Tokens

VARIABLES funcRet,  \* sema.curr_func_ret
          params    \* the parameter vector of each function type, by name

semaVars == <<scopes, funcRet, params>>

Node(ty)        == [kind |-> "EXPR", ty |-> ty, is_const |-> FALSE]
VarNode(sym)    == [kind |-> "ND_VAR", ty |-> sym.ty, is_const |-> sym.is_const]
NullNode        == [kind |-> "NULL", ty |-> NullType, is_const |-> FALSE]

\* The verdict of an analysis: the type it gives the node, and whether it
\* reports.  Two reports of one analysis show as one: ctx_error is a latch.
Verdict(ty, err) == [ty |-> ty, err |-> err]

Fault_KeepMismatch(op, l, r) ==
  Verdict(IF op \in Arithmetic THEN l ELSE ty_bool, FALSE)

\* sema_analyze_binary on operand types l and r.
sema_analyze_binary(op, l, r) ==
  IF ~type_eq(l, r, params) THEN Verdict(ty_void, TRUE)
  ELSE CASE op \in Arithmetic -> Verdict(l, ~type_is_arithmetic(l))
         [] op = "PERCENT"    -> Verdict(ty_int, l # ty_int)
         [] op \in Comparison -> Verdict(ty_bool, FALSE)
         [] op \in Logical    -> Verdict(ty_bool, l # ty_bool)

\* sema_analyze_assign: const is noticed on a plain variable only.
sema_analyze_assign(lhs, rhs) ==
  Verdict(lhs.ty, \/ lhs.kind = "ND_VAR" /\ lhs.is_const
                  \/ ~type_eq(lhs.ty, rhs.ty, params))

\* sema_analyze_return of a value of type actual (ty_void when there is none).
sema_analyze_return(actual) ==
  Verdict(ty_void, IF funcRet = ty_void THEN actual # ty_void
                   ELSE actual = ty_void \/ ~type_eq(funcRet, actual, params))

\* The reporter after an analysis.
Judge(v, c) == IF v.err THEN ctx_error(c) ELSE c
=============================================================================
