----------------------------- MODULE TypeObjects ------------------------------
(***************************************************************************)
(* src/src/type.c as it is: struct Type objects in an arena, compared by   *)
(* pointer or by structure, with the size and alignment they are given.    *)
(* The parser builds them in one order - an array over what it has, a      *)
(* function type whose vector is filled while its parameters are read -    *)
(* and TypesSpec lets it do so with any bases, lengths and parameters.     *)
(*                                                                         *)
(* Types.tla, which the parser is modelled on, takes a type for the value  *)
(* it denotes; ValuesAgree shows that nobody can tell the difference.      *)
(***************************************************************************)
EXTENDS MachineInts, Sequences

CONSTANTS IntBits,  \* width of an int
          Lengths,  \* what the cast of a literal to int can leave as a length
          Words,    \* the kinds of primitives the program names
          MaxTypes, MaxParams  \* bounds on the arena and on a parameter list

VARIABLES types,  \* the arena; an address is an index, the primitives come first
          ty      \* the variables ty_void, ... of type.c, by kind

NULL == 0

typeVars == <<types, ty>>

\* In the order types_init allocates them, with their size and alignment.
PrimKinds == <<"VOID", "BOOL", "INT", "FLOAT", "DOUBLE">>
Width == [VOID |-> 0, BOOL |-> 1, INT |-> 4, FLOAT |-> 4, DOUBLE |-> 8]

ASSUME TypeObjectsAssumption ==
  /\ IntBits \in Nat \ {0} /\ {MaxTypes, MaxParams} \subseteq Nat
  /\ Words \subseteq DOMAIN Width
  /\ Lengths \subseteq -Power(2, IntBits - 1) .. Power(2, IntBits - 1) - 1

Primitives == 1..Len(PrimKinds)
Addresses  == DOMAIN types
Arrays     == {p \in Addresses : types[p].kind = "ARRAY"}
Functions  == {p \in Addresses : types[p].kind = "FUNC"}

new_primitive(kind) == [kind |-> kind, size |-> Width[kind], align |-> Width[kind]]

types_init ==
  /\ types = [i \in Primitives |-> new_primitive(PrimKinds[i])]
  /\ ty = [k \in DOMAIN Width |-> CHOOSE i \in Primitives : PrimKinds[i] = k]

\* (Definitions named Fault_* are deliberate mistakes: nothing uses them, and
\* each shows that a property notices when it replaces what follows it.)
Fault_ByAlignment(base, len) ==
  types' = Append(types, [kind |-> "ARRAY", base |-> base, len |-> len,
                          size |-> TwosComplement(IntBits, types[base].align * len),
                          align |-> types[base].align])

\* A signed product that does not fit is undefined; what compilers emit for it
\* keeps the low bits.  The base is read without a look; a caller that has none dies here, as Parser
\* models it.
type_array_of(base, len) ==
  types' = Append(types, [kind |-> "ARRAY", base |-> base, len |-> len,
                          size |-> TwosComplement(IntBits, types[base].size * len),
                          align |-> types[base].align])

type_func_new(return) ==
  types' = Append(types, [kind |-> "FUNC", ret |-> return, params |-> <<>>,
                          size |-> 8, align |-> 8])

Fault_CountParams(a, b, eq) ==
  CASE types[a].kind = "ARRAY" -> /\ types[a].len = types[b].len
                                  /\ eq[<<types[a].base, types[b].base>>]
    [] types[a].kind = "FUNC"  -> /\ eq[<<types[a].ret, types[b].ret>>]
                                  /\ Len(types[a].params) = Len(types[b].params)
    [] OTHER -> FALSE

Fault_AnyLength(a, b, eq) ==
  types[a].kind = "ARRAY" /\ eq[<<types[a].base, types[b].base>>]

\* Two objects of one kind, given the answers for the types they are made of:
\* arrays and functions go by structure, a primitive has only its address.
SameStructure(a, b, eq) ==
  CASE types[a].kind = "ARRAY" -> /\ types[a].len = types[b].len
                                  /\ eq[<<types[a].base, types[b].base>>]
    [] types[a].kind = "FUNC"  ->
         /\ eq[<<types[a].ret, types[b].ret>>]
         /\ Len(types[a].params) = Len(types[b].params)
         /\ \A i \in DOMAIN types[a].params :
              eq[<<types[a].params[i], types[b].params[i]>>]
    [] OTHER -> FALSE

Pairs == ({NULL} \cup Addresses) \X ({NULL} \cup Addresses)

type_eq(a, b) ==
  LET eq[q \in Pairs] ==
        \/ q[1] = q[2]
        \/ /\ q[1] # NULL /\ q[2] # NULL
           /\ types[q[1]].kind = types[q[2]].kind
           /\ SameStructure(q[1], q[2], eq)
  IN eq[<<a, b>>]

type_is_arithmetic(p) == p \in {ty[k] : k \in {"INT", "FLOAT", "DOUBLE"}}

-----------------------------------------------------------------------------
(* What the parser does with them.                                         *)

Live == ty["VOID"] # NULL
Room == Len(types) < MaxTypes

Named == {ty[k] : k \in Words}

\* A dimension: of a variable or a parameter, never of a function.
NewArray ==
  /\ Live /\ Room /\ UNCHANGED ty
  /\ \E base \in Named \cup Arrays, len \in Lengths : type_array_of(base, len)

\* A function returns what one word can name.
NewFunction ==
  /\ Live /\ Room /\ UNCHANGED ty
  /\ \E return \in Named : type_func_new(return)

\* The function whose parameter list is being read is the last one made; a
\* parameter with no type is pushed as NULL.
PushParam ==
  /\ Live /\ UNCHANGED ty
  /\ \E f \in Functions, p \in {NULL} \cup Named \cup Arrays :
       /\ \A g \in Functions : g <= f
       /\ Len(types[f].params) < MaxParams
       /\ types' = [types EXCEPT ![f].params = Append(@, p)]

\* The end of the compilation: the primitives are given back.
types_deinit == Live /\ ty' = [k \in DOMAIN ty |-> NULL] /\ UNCHANGED types

Freed == ~Live /\ UNCHANGED typeVars

TypesNext == NewArray \/ NewFunction \/ PushParam \/ types_deinit \/ Freed

TypesSpec == types_init /\ [][TypesNext]_typeVars

-----------------------------------------------------------------------------
(* Properties.                                                             *)

\* The value of Types.tla that an address stands for; a function's name is its
\* address.
T == INSTANCE Types WITH NoName <- NULL

ValueName == [VOID |-> T!ty_void, BOOL |-> T!ty_bool, INT |-> T!ty_int,
              FLOAT |-> T!ty_float, DOUBLE |-> T!ty_double]

Values[p \in {NULL} \cup Addresses] ==
  IF p = NULL THEN T!NullType
  ELSE CASE types[p].kind = "ARRAY" -> T!type_array_of(Values[types[p].base], types[p].len)
         [] types[p].kind = "FUNC"  -> T!type_func_new(Values[types[p].ret], p)
         [] OTHER -> ValueName[types[p].kind]

ParamValues ==
  [f \in Functions |-> [i \in DOMAIN types[f].params |-> Values[types[f].params[i]]]]

\* Two types compare equal exactly when they denote the same value, whether
\* they are one object or two built at different places of the program, and
\* while the vectors of function types still grow; reads through a pointer and
\* the arithmetic test agree too (type.c:92-125).  This is what lets the parser
\* be modelled on values.
ValuesAgree ==
  LET v == Values  w == ParamValues IN
  /\ \A a, b \in DOMAIN v : type_eq(a, b) <=> T!type_eq(v[a], v[b], w)
  /\ \A a \in Arrays : v[types[a].base] = T!ElementType(v[a])
  /\ \A f \in Functions : v[types[f].ret] = T!ReturnType(v[f])
  /\ Live => \A p \in Addresses : type_is_arithmetic(p) <=> T!type_is_arithmetic(v[p])

\* The elements at the bottom of an array, counted without regard to width.
Elements(dims) ==
  LET upto[i \in 0..Len(dims)] == IF i = 0 THEN 1 ELSE upto[i - 1] * dims[i]
  IN upto[Len(dims)]

\* An array's size is that of all its elements, cut to an int once: a dimension
\* that overflowed in the middle does no more harm than one at the end, and
\* even then the alignment of the elements divides it (type.c:74-75).
SizesCount ==
  \A a \in Arrays :
    LET v == Values[a]
        e == CHOOSE p \in Primitives : Values[p] = T!Primitive(v.prim)
    IN /\ types[a].size = TwosComplement(IntBits, types[e].size * Elements(v.dims))
       /\ types[a].align = types[e].align
       /\ types[a].align # 0 => types[a].size % types[a].align = 0

\* Types that compare equal take equal room at equal alignment, so one can be
\* copied over the other after nothing but type_eq (type.c:92-120, sema.c:156).
EqualMeansSameLayout ==
  \A a, b \in Addresses :
    type_eq(a, b) => types[a].size = types[b].size /\ types[a].align = types[b].align
=============================================================================
