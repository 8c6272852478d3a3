-------------------------------- MODULE Scopes --------------------------------
(***************************************************************************)
(* The symbol table of src/src/sema.c: a chain of scopes, each a map from  *)
(* names to symbols, searched from the innermost scope outwards.           *)
(* ScopesSpec lets a client call the four operations in any order;         *)
(* Parser.tla calls them as src/src/parser.c does.                         *)
(***************************************************************************)
EXTENDS Context, Sequences, SequencesExt, FiniteSetsExt

CONSTANTS Names,       \* interned identifiers
          SymbolTypes, \* the types a symbol can be given
          Unbound      \* map_get's NULL

Symbols == [ty : SymbolTypes, is_const : BOOLEAN, is_global : BOOLEAN]

ASSUME UnboundAssumption == Unbound \notin Symbols

VARIABLES scopes,  \* the chain, curr_scope last: Seq([Names -> symbol or Unbound])
          ctx      \* the error reporter

scopeVars == <<scopes, ctx>>

EmptyScope == [n \in Names |-> Unbound]

ScopesInit == scopes = <<>> /\ ctx = CtxInit

-----------------------------------------------------------------------------
\* The scopes, up to depth d, whose own map binds n.
Holders(d, n) == {i \in 1..d : scopes[i][n] # Unbound}

\* (Definitions named Fault_* are deliberate mistakes: nothing uses them, and
\* each is there to show that a property notices when it replaces the
\* definition that follows it.)
Fault_OutermostFirst(d, n) ==
  IF Holders(d, n) = {} THEN Unbound ELSE scopes[Min(Holders(d, n))][n]

\* sema_lookup from depth d: the nearest enclosing scope that binds n.
LookupFrom(d, n) ==
  IF Holders(d, n) = {} THEN Unbound ELSE scopes[Max(Holders(d, n))][n]

sema_lookup(n) == LookupFrom(Len(scopes), n)

sema_scope_enter == scopes' = Append(scopes, EmptyScope)

\* No-op when no scope is open.
sema_scope_leave ==
  scopes' = IF scopes = <<>> THEN scopes ELSE Front(scopes)

Redefined(n) == scopes # <<>> /\ Last(scopes)[n] # Unbound

Fault_GlobalFlag(n, ty, is_const) ==
  scopes' =
    IF scopes = <<>> \/ Redefined(n) THEN scopes
    ELSE [scopes EXCEPT ![Len(scopes)] = [@ EXCEPT ![n] =
            [ty |-> ty, is_const |-> is_const, is_global |-> Len(scopes) <= 2]]]

Fault_Overwrite(n, ty, is_const) ==
  scopes' =
    IF scopes = <<>> THEN scopes
    ELSE [scopes EXCEPT ![Len(scopes)] = [@ EXCEPT ![n] =
            [ty |-> ty, is_const |-> is_const, is_global |-> Len(scopes) = 1]]]

Fault_NullSymbol(n, ty, is_const) ==
  scopes' =
    IF scopes = <<>> \/ Redefined(n) THEN scopes
    ELSE [scopes EXCEPT ![Len(scopes)] = [@ EXCEPT ![n] = [ty |-> ty]]]

\* sema_define_var's effect on the table: none without a scope or on a
\* redefinition, where it returns NULL and the caller goes on.
sema_define_var(n, ty, is_const) ==
  scopes' =
    IF scopes = <<>> \/ Redefined(n) THEN scopes
    ELSE [scopes EXCEPT ![Len(scopes)] = [@ EXCEPT ![n] =
            [ty |-> ty, is_const |-> is_const, is_global |-> Len(scopes) = 1]]]

\* ... and on the reporter.
DefineDiag(n, c) == IF Redefined(n) THEN ctx_error(c) ELSE c

-----------------------------------------------------------------------------
Enter == sema_scope_enter /\ UNCHANGED ctx

Leave == sema_scope_leave /\ UNCHANGED ctx

Define(n, ty, is_const) ==
  /\ sema_define_var(n, ty, is_const)
  /\ ctx' = DefineDiag(n, ctx)

ScopesNext ==
  \/ Enter
  \/ Leave
  \/ \E n \in Names, ty \in SymbolTypes, c \in BOOLEAN : Define(n, ty, c)

ScopesSpec == ScopesInit /\ [][ScopesNext]_scopeVars

-----------------------------------------------------------------------------
\* Every scope is a total map and every bound name has a well-formed symbol.
ScopesTypeOK ==
  /\ scopes \in Seq([Names -> Symbols \cup {Unbound}])
  /\ ctx \in ContextType

\* A symbol is marked global exactly when it sits in the outermost scope,
\* however many scopes were opened and closed around its declaration
\* (sema.c:76 decides it from curr_scope->parent at that moment).
GlobalIffOutermost ==
  \A d \in DOMAIN scopes, n \in Names :
    scopes[d][n] # Unbound => (scopes[d][n].is_global <=> d = 1)

\* While a scope stays open nothing that happens in or under it takes back or
\* rebinds one of its names: a redefinition must leave the first symbol in
\* place and leaving an inner scope must not reach into an outer one
\* (sema.c:48-81).
BindingsStable ==
  [][\A d \in 1..Min({Len(scopes), Len(scopes')}), n \in Names :
       scopes[d][n] # Unbound => scopes'[d][n] = scopes[d][n]]_scopeVars

\* Per open scope: what each name means there.
VisibleEnvs == [d \in 1..Len(scopes) |-> [n \in Names |-> LookupFrom(d, n)]]

\* The chain implements the abstract environment: what sema_lookup finds is
\* lexical scoping with shadowing, restored exactly on every scope exit.
Env == INSTANCE ScopedEnv WITH envs <- VisibleEnvs, own <- scopes

ImplementsScopedEnv == Env!Spec
=============================================================================
