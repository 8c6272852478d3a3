---------------------------- MODULE ScopesProofs ----------------------------
(***************************************************************************)
(* The symbol table of Scopes.tla keeps its type, never loses or rebinds a *)
(* binding of an open scope, and implements the environments of            *)
(* ScopedEnv.tla, for any names, any types and any nesting.                *)
(***************************************************************************)
EXTENDS Scopes, Facts

Bindings == Symbols \cup {Unbound}
Maps     == [Names -> Bindings]

\* The symbol a declaration at depth d creates.
NewSymbol(ty, c, d) == [ty |-> ty, is_const |-> c, is_global |-> d = 1]

\* What one step of the table does, in terms of the elements of the chain.
LEMMA EnterShape ==
  ASSUME scopes \in Seq(Maps), sema_scope_enter
  PROVE  /\ scopes' \in Seq(Maps)
         /\ Len(scopes') = Len(scopes) + 1
         /\ \A i \in 1..Len(scopes) : scopes'[i] = scopes[i]
         /\ scopes'[Len(scopes) + 1] = EmptyScope
<1>1. EmptyScope \in Maps
  BY DEF EmptyScope, Maps, Bindings
<1> QED  BY <1>1, AppendProperties, LenProperties DEF sema_scope_enter

LEMMA LeaveShape ==
  ASSUME scopes \in Seq(Maps), sema_scope_leave, scopes # <<>>
  PROVE  /\ scopes' \in Seq(Maps)
         /\ Len(scopes') = Len(scopes) - 1
         /\ \A i \in 1..(Len(scopes) - 1) : scopes'[i] = scopes[i]
BY FrontFacts DEF sema_scope_leave

DefineEffect(n, ty, c) ==
  /\ scopes' \in Seq(Maps)
  /\ Len(scopes) \in Nat \ {0}
  /\ Len(scopes') = Len(scopes)
  /\ \A i \in 1..(Len(scopes) - 1) : scopes'[i] = scopes[i]
  /\ NewSymbol(ty, c, Len(scopes)) \in Symbols
  /\ scopes'[Len(scopes)] =
       [scopes[Len(scopes)] EXCEPT ![n] = NewSymbol(ty, c, Len(scopes))]
  /\ scopes[Len(scopes)] \in Maps
  /\ scopes[Len(scopes)][n] = Unbound

LEMMA DefineShape ==
  ASSUME scopes \in Seq(Maps), NEW n \in Names, NEW ty \in SymbolTypes,
         NEW c \in BOOLEAN, sema_define_var(n, ty, c), scopes # <<>>, ~Redefined(n)
  PROVE  DefineEffect(n, ty, c)
<1> DEFINE L   == Len(scopes)
           sym == NewSymbol(ty, c, L)
           new == [scopes[L] EXCEPT ![n] = sym]
<1>1. L \in Nat \ {0} /\ scopes[L] \in Maps
  BY EmptySeq, ElementOfSeq
<1>2. sym \in Symbols
  BY DEF Symbols, NewSymbol
<1>3. new \in Maps
  BY <1>1, <1>2 DEF Maps, Bindings
<1>4. scopes' = [scopes EXCEPT ![L] = new]
  BY DEF sema_define_var, NewSymbol
<1>5. scopes[L][n] = Unbound
  BY DEF Redefined, Last
<1> HIDE DEF new
<1>6. /\ scopes' \in Seq(Maps)
      /\ Len(scopes') = L
      /\ \A i \in 1..L : scopes'[i] = IF i = L THEN new ELSE scopes[i]
  BY <1>1, <1>3, <1>4, ExceptSeq
<1>7. scopes'[L] = new
  BY <1>1, <1>6
<1> HIDE DEF sym
<1> QED  BY <1>1, <1>2, <1>5, <1>6, <1>7 DEF new, sym, DefineEffect

\* A refused declaration leaves the table alone.
LEMMA DefineRefused ==
  ASSUME NEW n \in Names, NEW ty \in SymbolTypes, NEW c \in BOOLEAN,
         sema_define_var(n, ty, c), scopes = <<>> \/ Redefined(n)
  PROVE  scopes' = scopes
BY DEF sema_define_var

\* What an operation may do to the chain, whoever calls it.
TableMove ==
  \/ scopes' = scopes
  \/ sema_scope_enter
  \/ sema_scope_leave
  \/ \E n \in Names, ty \in SymbolTypes, c \in BOOLEAN : sema_define_var(n, ty, c)

LEMMA NextMoves == ASSUME ScopesNext \/ UNCHANGED scopeVars PROVE TableMove
BY DEF ScopesNext, Enter, Leave, Define, scopeVars, TableMove

\* The chain after a move, case by case: a move that changes nothing aside, a
\* scope is opened, one is closed, or a name is bound.
MoveCases ==
  \/ scopes' = scopes
  \/ sema_scope_enter
  \/ sema_scope_leave /\ scopes # <<>>
  \/ \E n \in Names, ty \in SymbolTypes, c \in BOOLEAN :
       sema_define_var(n, ty, c) /\ scopes # <<>> /\ ~Redefined(n)

LEMMA MovesInCases == ASSUME TableMove PROVE MoveCases
<1>1. CASE scopes' = scopes
  BY <1>1 DEF MoveCases
<1>2. CASE sema_scope_enter
  BY <1>2 DEF MoveCases
<1>3. CASE sema_scope_leave
  BY <1>3 DEF MoveCases, sema_scope_leave
<1>4. ASSUME NEW n \in Names, NEW ty \in SymbolTypes, NEW c \in BOOLEAN,
             sema_define_var(n, ty, c)
      PROVE  MoveCases
  BY <1>4, DefineRefused DEF MoveCases
<1> QED  BY <1>1, <1>2, <1>3, <1>4 DEF TableMove

LEMMA MoveType == ASSUME scopes \in Seq(Maps), TableMove PROVE scopes' \in Seq(Maps)
<1>1. ASSUME NEW n \in Names, NEW ty \in SymbolTypes, NEW c \in BOOLEAN,
             sema_define_var(n, ty, c), scopes # <<>>, ~Redefined(n)
      PROVE  scopes' \in Seq(Maps)
  BY <1>1, DefineShape DEF DefineEffect
<1> QED  BY <1>1, MovesInCases, EnterShape, LeaveShape DEF MoveCases
-----------------------------------------------------------------------------
\* Every scope stays a total map to well-formed symbols, and the reporter's
\* state stays well-formed, in every order of operations.
THEOREM ScopesType == ScopesSpec => []ScopesTypeOK
<1>1. ScopesInit => ScopesTypeOK
  BY EmptySeq DEF ScopesInit, ScopesTypeOK, CtxInit, ContextType
<1>2. ScopesTypeOK /\ [ScopesNext]_scopeVars => ScopesTypeOK'
  <2> SUFFICES ASSUME ScopesTypeOK, [ScopesNext]_scopeVars PROVE ScopesTypeOK'
    OBVIOUS
  <2>0. scopes \in Seq(Maps) /\ ctx \in ContextType
    BY DEF ScopesTypeOK, Maps, Bindings
  <2>1. scopes' \in Seq(Maps)
    BY <2>0, NextMoves, MoveType
  <2>2. ctx' \in ContextType
    <3>1. ctx_error(ctx) \in ContextType
      BY <2>0 DEF ctx_error, ContextType
    <3>2. ctx' = ctx \/ ctx' = ctx_error(ctx)
      BY DEF ScopesNext, Enter, Leave, Define, scopeVars, DefineDiag
    <3> QED  BY <2>0, <3>1, <3>2
  <2> QED  BY <2>1, <2>2 DEF ScopesTypeOK, Maps, Bindings
<1> QED  BY <1>1, <1>2, PTL DEF ScopesSpec

-----------------------------------------------------------------------------
\* What BindingsStable says of a step.
Stable ==
  \A d \in 1..Min({Len(scopes), Len(scopes')}), n \in Names :
    scopes[d][n] # Unbound => scopes'[d][n] = scopes[d][n]

LEMMA MoveStable == ASSUME scopes \in Seq(Maps), TableMove PROVE Stable
<1>0. Len(scopes) \in Nat
  BY LenProperties
<1>1. ASSUME NEW a \in Nat, NEW b \in Nat, a <= b
      PROVE  Min({a, b}) = a /\ Min({b, a}) = a
  BY <1>1 DEF Min
<1>2. CASE scopes' = scopes
  BY <1>2 DEF Stable
<1>3. CASE sema_scope_enter
  <2>1. Min({Len(scopes), Len(scopes')}) = Len(scopes)
    BY <1>0, <1>1, <1>3, EnterShape
  <2> QED  BY <1>0, <1>3, <2>1, EnterShape DEF Stable
<1>4. CASE sema_scope_leave /\ scopes # <<>>
  <2>1. Len(scopes') \in Nat /\ Len(scopes') <= Len(scopes)
    BY <1>0, <1>4, LeaveShape, LenProperties
  <2>2. Min({Len(scopes), Len(scopes')}) = Len(scopes')
    BY <1>0, <1>1, <2>1
  <2> QED  BY <1>0, <1>4, <2>2, LeaveShape DEF Stable
<1>5. ASSUME NEW n \in Names, NEW ty \in SymbolTypes, NEW c \in BOOLEAN,
             sema_define_var(n, ty, c), scopes # <<>>, ~Redefined(n)
      PROVE  Stable
  <2>1. DefineEffect(n, ty, c)
    BY <1>5, DefineShape
  <2>2. Min({Len(scopes), Len(scopes')}) = Len(scopes)
    BY <1>0, <1>1, <2>1 DEF DefineEffect
  <2>3. ASSUME NEW d \in 1..Len(scopes), NEW m \in Names, scopes[d][m] # Unbound
        PROVE  scopes'[d][m] = scopes[d][m]
    <3>1. CASE d = Len(scopes)
      <4>1. m # n
        BY <2>1, <2>3, <3>1 DEF DefineEffect
      <4> QED  BY <2>1, <3>1, <4>1 DEF DefineEffect, Maps
    <3>2. CASE d # Len(scopes)
      <4>1. d \in 1..(Len(scopes) - 1)
        BY <1>0, <3>2
      <4> QED  BY <2>1, <4>1 DEF DefineEffect
    <3> QED  BY <3>1, <3>2
  <2> QED  BY <2>2, <2>3 DEF Stable
<1> QED  BY <1>2, <1>3, <1>4, <1>5, MovesInCases DEF MoveCases

\* No operation, in any order, takes back or rebinds a name of a scope that
\* stays open: a refused redefinition keeps the first symbol, and leaving an
\* inner scope does not reach into an outer one (sema.c:48-81).
THEOREM ScopesStable == ScopesSpec => BindingsStable
<1>1. ScopesTypeOK /\ [ScopesNext]_scopeVars => Stable
  BY NextMoves, MoveStable DEF ScopesTypeOK, Maps, Bindings
<1> QED  BY ScopesType, <1>1, PTL DEF ScopesSpec, BindingsStable, Stable
-----------------------------------------------------------------------------
\* In a chain, global means outermost.
GlobalFirst(chain) ==
  \A d \in 1..Len(chain), n \in Names :
    chain[d][n] # Unbound => (chain[d][n].is_global <=> d = 1)

LEMMA GlobalForm == scopes \in Seq(Maps) => (GlobalFirst(scopes) <=> GlobalIffOutermost)
BY LenProperties DEF GlobalFirst, GlobalIffOutermost

LEMMA GlobalFormNext ==
  (scopes \in Seq(Maps))' => (GlobalFirst(scopes') <=> GlobalIffOutermost')
<1>1. (scopes \in Seq(Maps))' => (GlobalFirst(scopes) <=> GlobalIffOutermost)'
  BY GlobalForm, PTL
<1> QED  BY <1>1

LEMMA MoveGlobal ==
  ASSUME scopes \in Seq(Maps), GlobalFirst(scopes), TableMove PROVE GlobalFirst(scopes')
<1>0. Len(scopes) \in Nat
  BY LenProperties
<1>1. CASE scopes' = scopes
  BY <1>1
<1>2. CASE sema_scope_enter
  BY <1>0, <1>2, EnterShape DEF EmptyScope, GlobalFirst
<1>3. CASE sema_scope_leave /\ scopes # <<>>
  BY <1>0, <1>3, LeaveShape DEF GlobalFirst
<1>4. ASSUME NEW n \in Names, NEW ty \in SymbolTypes, NEW c \in BOOLEAN,
             sema_define_var(n, ty, c), scopes # <<>>, ~Redefined(n)
      PROVE  GlobalFirst(scopes')
  <2> DEFINE L == Len(scopes)
  <2>1. DefineEffect(n, ty, c)
    BY <1>4, DefineShape
  <2>2. ASSUME NEW d \in 1..L, NEW m \in Names, scopes'[d][m] # Unbound
        PROVE  scopes'[d][m].is_global <=> d = 1
    <3>1. CASE d = L /\ m = n
      <4> DEFINE sym == NewSymbol(ty, c, L)
      <4>1. sym.is_global <=> L = 1
        BY DEF NewSymbol
      <4> HIDE DEF sym
      <4>2. scopes[L] \in Maps /\ scopes'[L] = [scopes[L] EXCEPT ![n] = sym]
        BY <2>1 DEF DefineEffect, sym
      <4>3. scopes'[d][m] = sym
        BY <3>1, <4>2 DEF Maps
      <4> QED  BY <3>1, <4>1, <4>3
    <3>2. CASE ~(d = L /\ m = n)
      <4>1. scopes'[d][m] = scopes[d][m]
        BY <2>1, <3>2 DEF DefineEffect, Maps
      <4> QED  BY <2>2, <4>1 DEF GlobalFirst
    <3> QED  BY <3>1, <3>2
  <2> QED  BY <2>1, <2>2 DEF DefineEffect, GlobalFirst
<1> QED  BY <1>1, <1>2, <1>3, <1>4, MovesInCases DEF MoveCases

\* The is_global flag of a symbol, set once from the scope it is declared in,
\* tells the outermost scope from every other one for as long as the symbol
\* lives (sema.c:76).
THEOREM ScopesGlobal == ScopesSpec => []GlobalIffOutermost
<1>1. ScopesInit => GlobalIffOutermost
  BY DEF ScopesInit, GlobalIffOutermost
<1>2. ScopesTypeOK /\ GlobalIffOutermost /\ [ScopesNext]_scopeVars
        => GlobalIffOutermost'
  <2> SUFFICES ASSUME ScopesTypeOK, GlobalIffOutermost,
                      ScopesNext \/ UNCHANGED scopeVars
               PROVE  GlobalIffOutermost'
    OBVIOUS
  <2>1. scopes \in Seq(Maps) /\ TableMove
    BY NextMoves DEF ScopesTypeOK, Maps, Bindings
  <2>2. scopes' \in Seq(Maps) /\ GlobalFirst(scopes')
    BY <2>1, GlobalForm, MoveType, MoveGlobal
  <2> QED  BY <2>2, GlobalFormNext
<1> QED  BY ScopesType, <1>1, <1>2, PTL DEF ScopesSpec
-----------------------------------------------------------------------------
\* sema_lookup sees only the scopes it walks.
LEMMA LookupDependsOnPrefix ==
  ASSUME NEW d \in Nat, NEW n \in Names,
         \A i \in 1..d : scopes'[i][n] = scopes[i][n]
  PROVE  LookupFrom(d, n)' = LookupFrom(d, n)
<1>1. Holders(d, n)' = Holders(d, n) /\ Holders(d, n) \subseteq 1..d
  BY DEF Holders
<1>2. CASE Holders(d, n) = {}
  BY <1>1, <1>2 DEF LookupFrom
<1>3. CASE Holders(d, n) # {}
  <2>1. Max(Holders(d, n)) \in 1..d
    BY <1>1, <1>3, MaxFacts
  <2> QED  BY <1>1, <1>3, <2>1 DEF LookupFrom
<1> QED  BY <1>2, <1>3

\* It finds a symbol or nothing.
LEMMA LookupType ==
  ASSUME scopes \in Seq(Maps), NEW d \in 0..Len(scopes), NEW n \in Names
  PROVE  LookupFrom(d, n) \in Bindings
<1>0. Len(scopes) \in Nat /\ d \in Nat /\ Holders(d, n) \subseteq 1..d
  BY LenProperties DEF Holders
<1>1. CASE Holders(d, n) = {}
  BY <1>1 DEF LookupFrom, Bindings
<1>2. CASE Holders(d, n) # {}
  <2>1. Max(Holders(d, n)) \in 1..Len(scopes)
    BY <1>0, <1>2, MaxFacts
  <2>2. scopes[Max(Holders(d, n))] \in Maps
    BY <2>1, ElementOfSeq
  <2> QED  BY <1>2, <2>2 DEF LookupFrom, Maps
<1> QED  BY <1>1, <1>2

\* A scope that binds the name hides the scopes around it.
NearestWins ==
  \A d \in Nat \ {0}, n \in Names :
    scopes[d][n] # Unbound => LookupFrom(d, n) = scopes[d][n]

LEMMA LookupNearest == NearestWins
<1> SUFFICES ASSUME NEW d \in Nat \ {0}, NEW n \in Names, scopes[d][n] # Unbound
             PROVE  LookupFrom(d, n) = scopes[d][n]
  BY DEF NearestWins
<1>1. d \in Holders(d, n) /\ Holders(d, n) \subseteq 1..d
  BY DEF Holders
<1>2. /\ Max(Holders(d, n)) \in 1..d
      /\ d <= Max(Holders(d, n))
  BY <1>1, MaxFacts
<1>3. Max(Holders(d, n)) = d
  BY <1>2
<1> QED  BY <1>1, <1>3 DEF LookupFrom

LEMMA LookupNearestNext == NearestWins'
BY LookupNearest, PTL

\* The mapped variables are sequences of the length of the chain.
MappedShape ==
  /\ Len(scopes) \in Nat
  /\ VisibleEnvs \in [1..Len(scopes) -> Maps]
  /\ scopes \in [1..Len(scopes) -> Maps]
  /\ Len(VisibleEnvs) = Len(scopes)
  /\ Len(scopes) = Len(scopes)

LEMMA MappedType == scopes \in Seq(Maps) => MappedShape
<1> SUFFICES ASSUME scopes \in Seq(Maps) PROVE MappedShape
  OBVIOUS
<1>1. Len(scopes) \in Nat
  BY LenProperties
<1>2. \A d \in 1..Len(scopes) : [n \in Names |-> LookupFrom(d, n)] \in Maps
  BY <1>1, LookupType DEF Maps
<1>3. VisibleEnvs \in [1..Len(scopes) -> Maps]
  BY <1>2 DEF VisibleEnvs
<1>4. scopes \in [1..Len(scopes) -> Maps]
  BY LenProperties
<1> QED  BY <1>1, <1>3, <1>4, FunctionIsSeq DEF MappedShape

LEMMA MappedTypeNext == (scopes \in Seq(Maps))' => MappedShape'
BY MappedType, PTL
-----------------------------------------------------------------------------
\* The mapped variables in a scope that a step leaves as it was.
LEMMA MappedPrefix ==
  ASSUME NEW k \in Nat, k <= Len(scopes), k <= Len(scopes'),
         scopes \in Seq(Maps), scopes' \in Seq(Maps),
         \A i \in 1..k : scopes'[i] = scopes[i], NEW d \in 1..k
  PROVE  VisibleEnvs'[d] = VisibleEnvs[d] /\ scopes'[d] = scopes[d]
<1>1. d \in 1..Len(scopes) /\ d \in 1..Len(scopes') /\ d \in Nat
  BY LenProperties
<1>2. \A n \in Names : LookupFrom(d, n)' = LookupFrom(d, n)
  BY LookupDependsOnPrefix
<1> QED  BY <1>1, <1>2 DEF VisibleEnvs

LEMMA EnterRefines ==
  ASSUME scopes \in Seq(Maps), NEW L \in Nat, L = Len(scopes), sema_scope_enter
  PROVE  Env!Enter
<1>0. /\ L \in Nat /\ scopes' \in Seq(Maps) /\ Len(scopes') = L + 1
      /\ \A i \in 1..L : scopes'[i] = scopes[i]
      /\ scopes'[L + 1] = EmptyScope
  BY EnterShape, LenProperties
<1>1. MappedShape /\ MappedShape'
  BY <1>0, MappedType, MappedTypeNext
<1>2. \A d \in 1..L :
        VisibleEnvs'[d] = VisibleEnvs[d] /\ scopes'[d] = scopes[d]
  BY <1>0, MappedPrefix
<1>3. /\ VisibleEnvs' = Append(VisibleEnvs, VisibleEnvs'[L + 1])
      /\ scopes' = Append(scopes, scopes'[L + 1])
  <2>1. /\ VisibleEnvs \in [1..L -> Maps] /\ VisibleEnvs' \in [1..(L+1) -> Maps]
        /\ scopes \in [1..L -> Maps]
        /\ scopes' \in [1..(L+1) -> Maps]
    BY <1>0, <1>1 DEF MappedShape
  <2> QED  BY <1>0, <1>2, <2>1, ExtendIsAppend
<1>4. scopes'[L + 1] = Env!Outside
  BY <1>0 DEF EmptyScope, Env!Outside
<1>5. ASSUME NEW n \in Names PROVE VisibleEnvs'[L + 1][n] = Env!Current[n]
  <2>1. VisibleEnvs'[L + 1][n] = LookupFrom(L + 1, n)'
    BY <1>0 DEF VisibleEnvs
  <2>2. LookupFrom(L + 1, n)' = LookupFrom(L, n)'
    <3>1. scopes'[L + 1][n] = Unbound
      BY <1>0 DEF EmptyScope
    <3>2. Holders(L + 1, n)' = Holders(L, n)'
      BY <1>0, <3>1 DEF Holders
    <3> QED  BY <3>2 DEF LookupFrom
  <2>3. LookupFrom(L, n)' = LookupFrom(L, n)
    BY <1>0, LookupDependsOnPrefix
  <2>4. CASE L = 0
    <3>1. LookupFrom(L, n) = Unbound
      BY <2>4 DEF LookupFrom, Holders
    <3>2. VisibleEnvs = <<>>
      BY <1>1, <2>4, FunctionIsSeq, EmptySeq DEF MappedShape
    <3>3. Env!Current[n] = Unbound
      BY <3>2 DEF Env!Current, Env!Outside
    <3> QED  BY <2>1, <2>2, <2>3, <3>1, <3>3
  <2>5. CASE L # 0
    <3>1. Len(VisibleEnvs) = L /\ L \in 1..Len(scopes)
      BY <1>0, <1>1, <2>5 DEF MappedShape
    <3>2. VisibleEnvs # <<>>
      BY <3>1, EmptySeq
    <3>3. Env!Current = VisibleEnvs[L]
      BY <3>1, <3>2 DEF Env!Current, Env!Last
    <3>4. VisibleEnvs[L][n] = LookupFrom(L, n)
      BY <3>1 DEF VisibleEnvs
    <3> QED  BY <2>1, <2>2, <2>3, <3>3, <3>4
  <2> QED  BY <2>4, <2>5
<1>6. VisibleEnvs'[L + 1] = Env!Current
  <2>1. VisibleEnvs'[L + 1] \in Maps
    BY <1>0, <1>1 DEF MappedShape
  <2>2. Env!Current \in Maps
    <3>1. CASE L = 0
      <4>1. VisibleEnvs = <<>>
        BY <1>1, <3>1, FunctionIsSeq, EmptySeq DEF MappedShape
      <4> QED  BY <4>1 DEF Env!Current, Env!Outside, Maps, Bindings
    <3>2. CASE L # 0
      <4>1. Len(VisibleEnvs) = L /\ VisibleEnvs[L] \in Maps
        BY <1>1, <3>2 DEF MappedShape
      <4> QED  BY <4>1, <3>2, EmptySeq DEF Env!Current, Env!Last
    <3> QED  BY <3>1, <3>2
  <2> QED  BY <1>5, <2>1, <2>2 DEF Maps
<1> QED  BY <1>3, <1>4, <1>6 DEF Env!Enter

LEMMA LeaveRefines ==
  ASSUME scopes \in Seq(Maps), NEW L \in Nat \ {0}, L = Len(scopes), sema_scope_leave
  PROVE  Env!Leave
<1>0. /\ scopes # <<>> /\ scopes' \in Seq(Maps) /\ Len(scopes') = L - 1
      /\ \A i \in 1..(L - 1) : scopes'[i] = scopes[i]
      /\ L - 1 \in Nat
  BY LeaveShape, EmptySeq
<1>1. MappedShape /\ MappedShape'
  BY <1>0, MappedType, MappedTypeNext
<1>2. \A d \in 1..(L - 1) :
        VisibleEnvs'[d] = VisibleEnvs[d] /\ scopes'[d] = scopes[d]
  BY <1>0, MappedPrefix
<1>3. VisibleEnvs' = Front(VisibleEnvs) /\ scopes' = Front(scopes)
  <2>1. /\ VisibleEnvs \in [1..L -> Maps] /\ VisibleEnvs' \in [1..(L-1) -> Maps]
        /\ scopes \in [1..L -> Maps]
        /\ scopes' \in [1..(L-1) -> Maps]
    BY <1>0, <1>1 DEF MappedShape
  <2>0. ASSUME NEW f, NEW g, NEW S, f \in [1..L -> S], g \in [1..(L-1) -> S],
               \A i \in 1..(L-1) : g[i] = f[i]
        PROVE  g = Front(f)
    BY <2>0, ShortenIsFront
  <2>2. VisibleEnvs' = Front(VisibleEnvs)
    BY <1>2, <2>0, <2>1, ZenonT(30)
  <2>3. scopes' = Front(scopes)
    BY <1>2, <2>0, <2>1, Zenon
  <2> QED  BY <2>2, <2>3
<1>4. VisibleEnvs # <<>>
  BY <1>1, EmptySeq DEF MappedShape
<1> QED  BY <1>3, <1>4 DEF Env!Leave, Env!Front, Front

LEMMA DefineRefines ==
  ASSUME scopes \in Seq(Maps), NEW L \in Nat, L = Len(scopes),
         NEW n \in Names, NEW ty \in SymbolTypes, NEW c \in BOOLEAN,
         sema_define_var(n, ty, c), scopes # <<>>, ~Redefined(n)
  PROVE  \E sym \in Symbols : Env!Declare(n, sym)
<1>0. /\ scopes' \in Seq(Maps) /\ Len(scopes') = L /\ L \in Nat \ {0}
      /\ L - 1 \in Nat
      /\ \A i \in 1..(L - 1) : scopes'[i] = scopes[i]
      /\ scopes[L] \in Maps
      /\ scopes[L][n] = Unbound
  <2>1. DefineEffect(n, ty, c)
    BY DefineShape
  <2> QED  BY <2>1 DEF DefineEffect
<1> DEFINE sym == NewSymbol(ty, c, L)
<1>1. sym \in Symbols /\ scopes'[L] = [scopes[L] EXCEPT ![n] = sym]
  <2>1. DefineEffect(n, ty, c)
    BY DefineShape
  <2> QED  BY <2>1 DEF DefineEffect
<1> HIDE DEF sym
<1>2. MappedShape /\ MappedShape'
  BY <1>0, MappedType, MappedTypeNext
<1>3. \A d \in 1..(L - 1) :
        VisibleEnvs'[d] = VisibleEnvs[d] /\ scopes'[d] = scopes[d]
  BY <1>0, MappedPrefix
<1>4. sym # Unbound
  BY <1>1, UnboundAssumption
<1>5. /\ scopes'[L][n] = sym
      /\ \A m \in Names \ {n} : scopes'[L][m] = scopes[L][m]
  BY <1>0, <1>1 DEF Maps
<1>6. ASSUME NEW m \in Names
      PROVE  VisibleEnvs'[L][m] = IF m = n THEN sym ELSE VisibleEnvs[L][m]
  <2>1. VisibleEnvs'[L][m] = LookupFrom(L, m)' /\ VisibleEnvs[L][m] = LookupFrom(L, m)
    BY <1>0 DEF VisibleEnvs
  <2>2. CASE m = n
    <3>1. scopes'[L][n] # Unbound => LookupFrom(L, n)' = scopes'[L][n]
      BY <1>0, LookupNearestNext DEF NearestWins
    <3> QED  BY <1>4, <1>5, <2>1, <2>2, <3>1
  <2>3. CASE m # n
    <3>1. \A i \in 1..L : scopes'[i][m] = scopes[i][m]
      BY <1>0, <1>5, <2>3
    <3> QED  BY <2>1, <2>3, <3>1, LookupDependsOnPrefix
  <2> QED  BY <2>2, <2>3
<1>7. VisibleEnvs' = [VisibleEnvs EXCEPT ![L] = [@ EXCEPT ![n] = sym]]
  <2>1. /\ VisibleEnvs \in [1..L -> Maps] /\ VisibleEnvs' \in [1..L -> Maps]
        /\ L \in 1..L
    BY <1>0, <1>2 DEF MappedShape
  <2>2. VisibleEnvs'[L] = [VisibleEnvs[L] EXCEPT ![n] = sym]
    BY <1>6, <2>1 DEF Maps
  <2> QED  BY <1>3, <2>1, <2>2
<1>8. scopes' = [scopes EXCEPT ![L] = [@ EXCEPT ![n] = sym]]
  <2>1. /\ scopes \in [1..L -> Maps]
        /\ scopes' \in [1..L -> Maps]
        /\ L \in 1..L
    BY <1>0, <1>2 DEF MappedShape
  <2>2. scopes'[L] = [scopes[L] EXCEPT ![n] = sym]
    BY <1>1
  <2> QED  BY <1>3, <2>1, <2>2
<1>9. scopes[L][n] = Unbound
  BY <1>0
<1>10. Len(VisibleEnvs) = L /\ Len(scopes) = L /\ VisibleEnvs # <<>>
  BY <1>0, <1>2, EmptySeq DEF MappedShape
<1>11. Env!Declare(n, sym)
  BY <1>7, <1>8, <1>9, <1>10 DEF Env!Declare, Env!Last
<1> QED  BY <1>1, <1>11

\* Whoever calls the table, what its names mean moves as ScopedEnv.tla says.
LEMMA MoveRefines ==
  ASSUME scopes \in Seq(Maps), TableMove PROVE Env!Next \/ UNCHANGED Env!vars
<1>0. Len(scopes) \in Nat
  BY LenProperties
<1>1. CASE scopes' = scopes
  <2>1. VisibleEnvs' = VisibleEnvs
    BY <1>1 DEF VisibleEnvs, LookupFrom, Holders
  <2> QED  BY <1>1, <2>1 DEF Env!vars
<1>2. CASE sema_scope_enter
  BY <1>0, <1>2, EnterRefines DEF Env!Next
<1>3. CASE sema_scope_leave /\ scopes # <<>>
  <2>1. Len(scopes) \in Nat \ {0}
    BY <1>0, <1>3, EmptySeq
  <2> QED  BY <1>3, <2>1, LeaveRefines DEF Env!Next
<1>4. ASSUME NEW n \in Names, NEW ty \in SymbolTypes, NEW c \in BOOLEAN,
             sema_define_var(n, ty, c), scopes # <<>>, ~Redefined(n)
      PROVE  Env!Next
  BY <1>0, <1>4, DefineRefines DEF Env!Next
<1> QED  BY <1>1, <1>2, <1>3, <1>4, MovesInCases DEF MoveCases

\* The chain of scopes is lexical scoping: what sema_lookup finds in every open
\* scope is the environment ScopedEnv.tla describes, for any number of names,
\* types and nested scopes, whatever the order of the operations (sema.c:40-91).
THEOREM ScopesRefineEnv == ScopesSpec => ImplementsScopedEnv
<1>1. ScopesInit => Env!Init
  <2> SUFFICES ASSUME ScopesInit PROVE Env!Init
    OBVIOUS
  <2>1. scopes \in Seq(Maps) /\ Len(scopes) = 0
    BY EmptySeq DEF ScopesInit
  <2>2. /\ VisibleEnvs \in Seq(Maps) /\ Len(VisibleEnvs) = 0
        /\ scopes \in Seq(Maps) /\ Len(scopes) = 0
    BY <2>1, MappedType, FunctionIsSeq DEF MappedShape
  <2> QED  BY <2>2, EmptySeq DEF Env!Init
<1>2. ScopesTypeOK /\ [ScopesNext]_scopeVars => [Env!Next]_(Env!vars)
  BY NextMoves, MoveRefines DEF ScopesTypeOK, Maps, Bindings
<1> QED  BY ScopesType, <1>1, <1>2, PTL DEF ScopesSpec, ImplementsScopedEnv, Env!Spec
=============================================================================
