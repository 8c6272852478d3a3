--------------------------- MODULE TypeObjectProofs ---------------------------
(***************************************************************************)
(* Proofs about TypeObjects: what the arena always looks like, that the    *)
(* value of a type is all that type_eq can see of it, and that the sizes   *)
(* come out as one product of the lengths.                                 *)
(***************************************************************************)
EXTENDS TypeObjects, Facts

-----------------------------------------------------------------------------
(* The arena.                                                              *)

\* What an array can be over and a parameter can be: anything but a function.
Kept == {p \in Addresses : types[p].kind # "FUNC"}

ArrayObjects == [kind : {"ARRAY"}, base : Nat, len : Int, size : Int, align : Nat]
FunctionObjects ==
  [kind : {"FUNC"}, ret : Nat, params : Seq(Nat), size : {8}, align : {8}]
PrimitiveObjects == {new_primitive(PrimKinds[i]) : i \in Primitives}
Objects == PrimitiveObjects \cup ArrayObjects \cup FunctionObjects

IsArray(p) ==
  LET b == types[p].base IN
  /\ types[p] \in ArrayObjects
  /\ b \in Kept /\ b < p
  /\ types[p].size = TwosComplement(IntBits, types[b].size * types[p].len)
  /\ types[p].align = types[b].align

IsFunction(p) ==
  /\ types[p] \in FunctionObjects
  /\ types[p].ret \in Primitives
  /\ \A i \in 1..Len(types[p].params) : types[p].params[i] \in {NULL} \cup Kept

\* An array is over an older object, so the chain from it ends at a primitive; a
\* parameter may be younger than its function but is no function itself.  These
\* are what makes every recursion over the arena end.
ArenaInv ==
  /\ types \in Seq(Objects)
  /\ Primitives \subseteq Addresses
  /\ \A p \in Primitives : types[p] = new_primitive(PrimKinds[p])
  /\ \A p \in Addresses \ Primitives : IsArray(p) \/ IsFunction(p)
  /\ ty \in [DOMAIN Width -> Nat]
  /\ Live => \A i \in Primitives : ty[PrimKinds[i]] = i

LEMMA PrimitiveFacts ==
  /\ Primitives = {1, 2, 3, 4, 5}
  /\ PrimKinds[1] = "VOID" /\ PrimKinds[2] = "BOOL" /\ PrimKinds[3] = "INT"
  /\ PrimKinds[4] = "FLOAT" /\ PrimKinds[5] = "DOUBLE"
  /\ DOMAIN Width = {"VOID", "BOOL", "INT", "FLOAT", "DOUBLE"}
  /\ Width["VOID"] = 0 /\ Width["BOOL"] = 1 /\ Width["INT"] = 4
  /\ Width["FLOAT"] = 4 /\ Width["DOUBLE"] = 8
BY DEF Primitives, PrimKinds, Width

LEMMA PrimitiveObjectFacts ==
  ASSUME NEW i \in Primitives
  PROVE  LET o == new_primitive(PrimKinds[i]) IN
         /\ o.kind = PrimKinds[i] /\ o.kind \in DOMAIN Width
         /\ o.kind # "FUNC" /\ o.kind # "ARRAY"
         /\ o.size \in Nat /\ o.align = o.size /\ o.size \in {0, 1, 4, 8}
BY PrimitiveFacts DEF new_primitive

\* The addresses ty can hold.
LEMMA NamedArePrimitives ==
  ASSUME ArenaInv, Live
  PROVE  Named \subseteq Primitives /\ Primitives \subseteq Kept
<1>1. \A k \in Words : ty[k] \in Primitives
  <2>1. \A k \in DOMAIN Width : ty[k] \in Primitives
    BY PrimitiveFacts DEF ArenaInv
  <2> QED  BY <2>1, TypeObjectsAssumption DEF TypeObjectsAssumption
<1>2. Primitives \subseteq Kept
  BY PrimitiveObjectFacts DEF ArenaInv, Kept
<1> QED  BY <1>1, <1>2 DEF Named

LEMMA ArenaStart ==
  ASSUME types_init
  PROVE  ArenaInv
<1>1. types \in [1..5 -> Objects]
  BY PrimitiveFacts DEF types_init, Objects, PrimitiveObjects
<1>2. types \in Seq(Objects) /\ Len(types) = 5
  BY <1>1, FunctionIsSeq
<1>3. Addresses = Primitives
  BY PrimitiveFacts DEF types_init, Addresses
<1>4. \A p \in Primitives : types[p] = new_primitive(PrimKinds[p])
  BY DEF types_init
<1>5. \A i \in Primitives : (CHOOSE j \in Primitives : PrimKinds[j] = PrimKinds[i]) = i
  <2>1. \A i, j \in Primitives : PrimKinds[i] = PrimKinds[j] => i = j
    BY PrimitiveFacts
  <2> QED  BY <2>1
<1>6. \A k \in DOMAIN Width : \E i \in Primitives : PrimKinds[i] = k
  BY PrimitiveFacts
<1>7. \A i \in Primitives : PrimKinds[i] \in DOMAIN Width /\ i \in Nat
  BY PrimitiveFacts
<1>8. \A i \in Primitives : ty[PrimKinds[i]] = i
  BY <1>5, <1>7 DEF types_init
<1>9. ty \in [DOMAIN Width -> Nat]
  BY <1>6, <1>7 DEF types_init
<1> QED  BY <1>2, <1>3, <1>4, <1>8, <1>9 DEF ArenaInv

\* One object more at the end disturbs nothing that is there.
LEMMA Allocate ==
  ASSUME ArenaInv, NEW o \in Objects, types' = Append(types, o), UNCHANGED ty,
         NEW n \in Nat, n = Len(types) + 1, IsArray(n)' \/ IsFunction(n)'
  PROVE  ArenaInv'
<1>1. /\ types \in Seq(Objects) /\ Len(types) \in Nat /\ Addresses = 1..Len(types)
      /\ types' \in Seq(Objects) /\ Len(types') = n /\ Addresses' = 1..n
      /\ \A p \in Addresses : types'[p] = types[p]
  <2>1. types \in Seq(Objects)
    BY DEF ArenaInv
  <2>2. Len(types) \in Nat /\ DOMAIN types = 1..Len(types)
    BY <2>1, LenProperties
  <2>3. types' \in Seq(Objects) /\ Len(types') = n
        /\ \A p \in 1..Len(types) : types'[p] = types[p]
    BY <2>1, AppendProperties
  <2>4. DOMAIN types' = 1..n
    BY <2>3, LenProperties
  <2> QED  BY <2>1, <2>2, <2>3, <2>4 DEF Addresses
<1>2. Kept \subseteq Kept'
  BY <1>1 DEF Kept
<1>3. Primitives \subseteq Addresses'
  BY <1>1 DEF ArenaInv
<1>4. \A p \in Primitives : types'[p] = new_primitive(PrimKinds[p])
  BY <1>1 DEF ArenaInv
<1>5. ASSUME NEW p \in Addresses' \ Primitives PROVE (IsArray(p) \/ IsFunction(p))'
  <2>1. CASE p = n
    BY <2>1
  <2>2. CASE p # n
    <3>1. p \in Addresses \ Primitives /\ types'[p] = types[p] /\ p \in Nat
      BY <1>1, <2>2
    <3>2. CASE IsArray(p)
      <4>1. types[p].base \in Kept /\ types[p].base \in Addresses
        BY <3>2 DEF IsArray, Kept
      <4>2. types'[types[p].base] = types[types[p].base] /\ types[p].base \in Kept'
        BY <1>1, <1>2, <4>1
      <4>3. IsArray(p)'
        BY <3>1, <3>2, <4>2 DEF IsArray, ArrayObjects
      <4> QED  BY <4>3
    <3>3. CASE IsFunction(p)
      <4>1. IsFunction(p)'
        BY <1>2, <3>1, <3>3 DEF IsFunction, FunctionObjects
      <4> QED  BY <4>1
    <3> QED  BY <3>1, <3>2, <3>3 DEF ArenaInv
  <2> QED  BY <2>1, <2>2
<1>6. (ty \in [DOMAIN Width -> Nat])' /\ (Live => \A i \in Primitives : ty[PrimKinds[i]] = i)'
  BY DEF ArenaInv, Live, NULL
<1> QED  BY <1>1, <1>3, <1>4, <1>5, <1>6 DEF ArenaInv

LEMMA AllocatedFacts ==
  ASSUME ArenaInv, NEW o \in Objects, types' = Append(types, o)
  PROVE  /\ Len(types) \in Nat /\ Addresses = 1..Len(types)
         /\ types'[Len(types) + 1] = o
         /\ Kept \subseteq Kept' /\ \A p \in Addresses : types'[p] = types[p]
<1>1. types \in Seq(Objects)
  BY DEF ArenaInv
<1>2. Len(types) \in Nat /\ DOMAIN types = 1..Len(types)
  BY <1>1, LenProperties
<1>3. types' \in Seq(Objects) /\ Len(types') = Len(types) + 1
      /\ types'[Len(types) + 1] = o
      /\ \A p \in 1..Len(types) : types'[p] = types[p]
  BY <1>1, AppendProperties
<1>4. DOMAIN types' = 1..(Len(types) + 1)
  BY <1>3, LenProperties
<1> QED  BY <1>2, <1>3, <1>4 DEF Addresses, Kept

\* Every object has a size that is an integer and an alignment that is a natural.
LEMMA ObjectLayout ==
  ASSUME ArenaInv, NEW p \in Addresses
  PROVE  /\ p \in Nat \ {0} /\ p # NULL
         /\ types[p].size \in Int /\ types[p].align \in Nat
         /\ types[p].kind \in {"ARRAY", "FUNC"} \cup DOMAIN Width
         /\ IsArray(p) <=> types[p].kind = "ARRAY"
         /\ IsFunction(p) <=> types[p].kind = "FUNC"
         /\ p \in Primitives <=> types[p].kind \in DOMAIN Width
<1>1. types \in Seq(Objects) /\ Addresses = 1..Len(types) /\ Len(types) \in Nat
  BY LenProperties DEF ArenaInv, Addresses
<1>2. p \in Nat \ {0}
  BY <1>1
<1>3. CASE p \in Primitives
  <2>1. types[p] = new_primitive(PrimKinds[p])
    BY <1>3 DEF ArenaInv
  <2> QED  BY <1>2, <1>3, <2>1, PrimitiveObjectFacts
           DEF IsArray, IsFunction, ArrayObjects, FunctionObjects, NULL
<1>4. CASE p \notin Primitives
  <2>1. IsArray(p) \/ IsFunction(p)
    BY <1>4 DEF ArenaInv
  <2>2. DOMAIN Width = {"VOID", "BOOL", "INT", "FLOAT", "DOUBLE"}
    BY PrimitiveFacts
  <2>3. CASE IsArray(p)
    BY <1>2, <1>4, <2>2, <2>3 DEF IsArray, IsFunction, ArrayObjects, FunctionObjects, NULL
  <2>4. CASE IsFunction(p)
    BY <1>2, <1>4, <2>2, <2>4 DEF IsArray, IsFunction, ArrayObjects, FunctionObjects, NULL
  <2> QED  BY <2>1, <2>3, <2>4
<1> QED  BY <1>3, <1>4

LEMMA NewArrayKeeps ==
  ASSUME ArenaInv, NewArray
  PROVE  ArenaInv'
<1>1. PICK base \in Named \cup Arrays, len \in Lengths : type_array_of(base, len)
  BY DEF NewArray
<1> DEFINE o == [kind |-> "ARRAY", base |-> base, len |-> len,
                 size |-> TwosComplement(IntBits, types[base].size * len),
                 align |-> types[base].align]
<1>2. types' = Append(types, o)
  BY <1>1 DEF type_array_of
<1>3. base \in Kept /\ base \in Addresses
  <2>1. Named \subseteq Kept
    BY NamedArePrimitives DEF NewArray
  <2>2. Arrays \subseteq Kept
    BY DEF Arrays, Kept
  <2> QED  BY <2>1, <2>2 DEF Kept
<1>4. types[base].size \in Int /\ types[base].align \in Nat /\ base \in Nat
  BY <1>3, ObjectLayout
<1>5. len \in Int /\ IntBits \in Nat \ {0}
  <2>1. IntBits - 1 \in Nat /\ 2 \in Nat /\ IntBits \in Nat \ {0}
    BY TypeObjectsAssumption DEF TypeObjectsAssumption
  <2>2. Power(2, IntBits - 1) \in Nat
    BY <2>1, PowerFacts
  <2> QED  BY <2>1, <2>2, TypeObjectsAssumption DEF TypeObjectsAssumption
<1>6. o \in ArrayObjects /\ o \in Objects
  <2>1. types[base].size * len \in Int
    BY <1>4, <1>5
  <2>2. TwosComplement(IntBits, types[base].size * len) \in Int
    <3>1. Power(2, IntBits - 1) \in Nat
      <4>1. IntBits - 1 \in Nat /\ 2 \in Nat
        BY <1>5
      <4> QED  BY <4>1, PowerFacts
    <3> QED  BY <1>5, <2>1, <3>1, TwosComplementFacts
  <2>3. o \in ArrayObjects
    BY <1>4, <1>5, <2>2 DEF ArrayObjects
  <2> QED  BY <2>3 DEF Objects
<1>7. /\ Len(types) \in Nat /\ Addresses = 1..Len(types)
      /\ types'[Len(types) + 1] = o
      /\ Kept \subseteq Kept' /\ \A p \in Addresses : types'[p] = types[p]
  BY <1>2, <1>6, AllocatedFacts
<1>8. PICK n \in Nat : n = Len(types) + 1
  BY <1>7
<1>9. IsArray(n)'
  <2>1. base \in Kept' /\ base < n /\ types'[base] = types[base] /\ types'[n] = o
    BY <1>3, <1>7, <1>8
  <2>2. types'[n].base = base
    BY <2>1
  <2> QED  BY <1>6, <2>1, <2>2 DEF IsArray, ArrayObjects
<1>10. UNCHANGED ty
  BY DEF NewArray
<1> HIDE DEF o
<1> QED  BY <1>2, <1>6, <1>8, <1>9, <1>10, Allocate

LEMMA NewFunctionKeeps ==
  ASSUME ArenaInv, NewFunction
  PROVE  ArenaInv'
<1>1. PICK return \in Named : type_func_new(return)
  BY DEF NewFunction
<1> DEFINE o == [kind |-> "FUNC", ret |-> return, params |-> <<>>, size |-> 8, align |-> 8]
<1>2. types' = Append(types, o)
  BY <1>1 DEF type_func_new
<1>3. return \in Primitives /\ return \in Nat
  BY NamedArePrimitives, PrimitiveFacts DEF NewFunction
<1>4. o \in FunctionObjects /\ o \in Objects
  <2>1. <<>> \in Seq(Nat)
    BY EmptySeq
  <2>2. o \in FunctionObjects
    BY <1>3, <2>1 DEF FunctionObjects
  <2> QED  BY <2>2 DEF Objects
<1>5. /\ Len(types) \in Nat /\ types'[Len(types) + 1] = o
  BY <1>2, <1>4, AllocatedFacts
<1>6. PICK n \in Nat : n = Len(types) + 1
  BY <1>5
<1>7. IsFunction(n)'
  <2>1. types'[n] = o
    BY <1>5, <1>6
  <2>2. o.ret = return /\ o.params = <<>> /\ Len(o.params) = 0
    BY EmptySeq
  <2> HIDE DEF o
  <2>3. \A i \in 1..Len(types'[n].params) : FALSE
    BY <2>1, <2>2
  <2> QED  BY <1>3, <1>4, <2>1, <2>2, <2>3 DEF IsFunction
<1>8. UNCHANGED ty
  BY DEF NewFunction
<1> HIDE DEF o
<1> QED  BY <1>2, <1>4, <1>6, <1>7, <1>8, Allocate

LEMMA PushParamKeeps ==
  ASSUME ArenaInv, PushParam
  PROVE  ArenaInv'
<1>1. PICK f \in Functions, p \in {NULL} \cup Named \cup Arrays :
        types' = [types EXCEPT ![f].params = Append(@, p)]
  BY DEF PushParam
<1>2. f \in Addresses /\ types[f].kind = "FUNC" /\ IsFunction(f) /\ f \notin Primitives
  <2>1. f \in Addresses /\ types[f].kind = "FUNC"
    BY DEF Functions
  <2> QED  BY <2>1, ObjectLayout, PrimitiveFacts
<1>3. p \in {NULL} \cup Kept /\ p \in Nat
  <2>1. Named \subseteq Kept
    BY NamedArePrimitives DEF PushParam
  <2>2. Arrays \subseteq Kept
    BY DEF Arrays, Kept
  <2>3. Kept \subseteq Nat
    BY ObjectLayout DEF Kept
  <2> QED  BY <2>1, <2>2, <2>3 DEF NULL
<1> DEFINE q == Append(types[f].params, p)
<1>4. /\ q \in Seq(Nat) /\ Len(q) = Len(types[f].params) + 1
      /\ Len(types[f].params) \in Nat
      /\ \A i \in 1..Len(q) : q[i] \in {NULL} \cup Kept
  <2>1. types[f].params \in Seq(Nat)
    BY <1>2 DEF IsFunction, FunctionObjects
  <2>2. /\ q \in Seq(Nat) /\ Len(q) = Len(types[f].params) + 1
        /\ \A i \in 1..Len(types[f].params) : q[i] = types[f].params[i]
        /\ q[Len(types[f].params) + 1] = p
    BY <1>3, <2>1, AppendProperties
  <2>3. Len(types[f].params) \in Nat
    BY <2>1, LenProperties
  <2>4. \A i \in 1..Len(types[f].params) : types[f].params[i] \in {NULL} \cup Kept
    BY <1>2 DEF IsFunction
  <2>5. \A i \in 1..Len(q) : i = Len(types[f].params) + 1 \/ i \in 1..Len(types[f].params)
    BY <2>2, <2>3
  <2> QED  BY <1>3, <2>2, <2>3, <2>4, <2>5
<1>5. /\ types' = [types EXCEPT ![f] = [types[f] EXCEPT !.params = q]]
      /\ types[f] \in FunctionObjects
  BY <1>1, <1>2 DEF IsFunction
<1> HIDE DEF q
<1> DEFINE o == [types[f] EXCEPT !.params = q]
<1>6. /\ o \in FunctionObjects /\ o.params = q /\ o.ret = types[f].ret
      /\ o.size = types[f].size /\ o.align = types[f].align /\ o.kind = "FUNC"
  BY <1>4, <1>5 DEF FunctionObjects
<1>7. types' = [types EXCEPT ![f] = o]
  BY <1>5
<1> HIDE DEF o
<1>8. types \in Seq(Objects) /\ Len(types) \in Nat /\ Addresses = 1..Len(types)
  BY LenProperties DEF ArenaInv, Addresses
<1>9. types' \in [1..Len(types) -> Objects] /\ types'[f] = o
      /\ \A a \in Addresses : a # f => types'[a] = types[a]
  <2>1. types \in [1..Len(types) -> Objects]
    BY <1>8, LenProperties
  <2> QED  BY <1>2, <1>6, <1>7, <1>8, <2>1 DEF Objects
<1>10. types' \in Seq(Objects) /\ Addresses' = Addresses
  BY <1>8, <1>9, FunctionIsSeq DEF Addresses
<1>11. /\ Kept' = Kept
       /\ \A a \in Addresses : /\ types'[a].size = types[a].size
                               /\ types'[a].align = types[a].align
  BY <1>2, <1>6, <1>9, <1>10 DEF Kept
<1>12. \A a \in Primitives : types'[a] = new_primitive(PrimKinds[a])
  BY <1>2, <1>9 DEF ArenaInv
<1>13. ASSUME NEW a \in Addresses' \ Primitives PROVE (IsArray(a) \/ IsFunction(a))'
  <2>1. CASE a = f
    <3>1. IsFunction(f)'
      BY <1>2, <1>4, <1>6, <1>9, <1>11 DEF IsFunction
    <3> QED  BY <2>1, <3>1
  <2>2. CASE a # f
    <3>1. types'[a] = types[a] /\ a \in Addresses \ Primitives
      BY <1>9, <1>10, <2>2
    <3>2. CASE IsArray(a)
      <4>1. types[a].base \in Kept /\ types[a].base \in Addresses
        BY <3>2 DEF IsArray, Kept
      <4>2. IsArray(a)'
        BY <1>11, <3>1, <3>2, <4>1 DEF IsArray, ArrayObjects
      <4> QED  BY <4>2
    <3>3. CASE IsFunction(a)
      <4>1. IsFunction(a)'
        BY <1>11, <3>1, <3>3 DEF IsFunction, FunctionObjects
      <4> QED  BY <4>1
    <3> QED  BY <3>1, <3>2, <3>3 DEF ArenaInv
  <2> QED  BY <2>1, <2>2
<1>14. (ty \in [DOMAIN Width -> Nat])' /\ (Live => \A i \in Primitives : ty[PrimKinds[i]] = i)'
  BY DEF ArenaInv, Live, NULL, PushParam
<1>15. Primitives \subseteq Addresses'
  BY <1>10 DEF ArenaInv
<1> QED  BY <1>10, <1>12, <1>13, <1>14, <1>15 DEF ArenaInv

\* The arena itself outlives the names; ArenaInv speaks of types and ty alone.
LEMMA DeinitKeeps ==
  ASSUME ArenaInv, types_deinit
  PROVE  ArenaInv'
<1>1. types' = types /\ ty \in [DOMAIN Width -> Nat]
  BY DEF types_deinit, ArenaInv
<1>2. ty' \in [DOMAIN Width -> Nat] /\ ~Live'
  BY <1>1, PrimitiveFacts DEF types_deinit, Live, NULL
<1>3. /\ \A p \in Addresses \ Primitives : (IsArray(p) \/ IsFunction(p))'
      /\ Addresses' = Addresses
  <2>1. Addresses' = Addresses /\ Kept' = Kept
    BY <1>1 DEF Addresses, Kept
  <2>2. \A p \in Addresses : (IsArray(p)' <=> IsArray(p)) /\ (IsFunction(p)' <=> IsFunction(p))
    BY <1>1, <2>1 DEF IsArray, IsFunction
  <2> QED  BY <2>1, <2>2 DEF ArenaInv
<1> QED  BY <1>1, <1>2, <1>3 DEF ArenaInv

LEMMA ArenaKept ==
  ASSUME ArenaInv, [TypesNext]_typeVars
  PROVE  ArenaInv'
<1>1. CASE UNCHANGED typeVars
  <2>1. types' = types /\ ty' = ty
    BY <1>1 DEF typeVars
  <2>2. Addresses' = Addresses /\ Kept' = Kept
    BY <2>1 DEF Addresses, Kept
  <2>3. \A p \in Addresses : (IsArray(p)' <=> IsArray(p)) /\ (IsFunction(p)' <=> IsFunction(p))
    BY <2>1, <2>2 DEF IsArray, IsFunction
  <2> QED  BY <2>1, <2>2, <2>3 DEF ArenaInv, Live
<1>2. CASE NewArray
  BY <1>2, NewArrayKeeps
<1>3. CASE NewFunction
  BY <1>3, NewFunctionKeeps
<1>4. CASE PushParam
  BY <1>4, PushParamKeeps
<1>5. CASE types_deinit
  BY <1>5, DeinitKeeps
<1>6. CASE Freed
  BY <1>1, <1>6 DEF Freed
<1> QED  BY <1>1, <1>2, <1>3, <1>4, <1>5, <1>6 DEF TypesNext

\* The arena is well formed in every state of a compilation.
THEOREM ArenaInvariant == TypesSpec => []ArenaInv
<1>1. types_init => ArenaInv
  BY ArenaStart
<1>2. ArenaInv /\ [TypesNext]_typeVars => ArenaInv'
  BY ArenaKept
<1> QED  BY <1>1, <1>2, PTL DEF TypesSpec
-----------------------------------------------------------------------------
(* The values the objects denote.                                          *)

TypeNames  == {"void", "bool", "int", "float", "double"}
TypeValues == [prim : TypeNames \cup {"null"}, dims : Seq(Int), func : Nat]

\* The value at p, given the values of the objects it is made of.
ValueStep(p, f) ==
  IF p = NULL THEN T!NullType
  ELSE CASE types[p].kind = "ARRAY" -> T!type_array_of(f[types[p].base], types[p].len)
         [] types[p].kind = "FUNC"  -> T!type_func_new(f[types[p].ret], p)
         [] OTHER -> ValueName[types[p].kind]

LEMMA NameFacts ==
  /\ T!NullType = [prim |-> "null", dims |-> <<>>, func |-> NULL]
  /\ ValueName["VOID"] = [prim |-> "void", dims |-> <<>>, func |-> NULL]
  /\ ValueName["BOOL"] = [prim |-> "bool", dims |-> <<>>, func |-> NULL]
  /\ ValueName["INT"] = [prim |-> "int", dims |-> <<>>, func |-> NULL]
  /\ ValueName["FLOAT"] = [prim |-> "float", dims |-> <<>>, func |-> NULL]
  /\ ValueName["DOUBLE"] = [prim |-> "double", dims |-> <<>>, func |-> NULL]
BY DEF ValueName, T!NullType, T!Primitive, T!ty_void, T!ty_bool, T!ty_int,
       T!ty_float, T!ty_double

\* What an object is made of is older than itself.
LEMMA MadeOfOlder ==
  ASSUME ArenaInv, NEW p \in Addresses
  PROVE  /\ types[p].kind = "ARRAY" => /\ types[p].base \in 1..(p - 1)
                                       /\ types[p].base \in Kept
                                       /\ types[p].len \in Int
         /\ types[p].kind = "FUNC" => /\ types[p].ret \in 1..(p - 1)
                                      /\ types[p].ret \in Primitives
                                      /\ types[p].params \in Seq(Nat)
<1>0. p \in Nat \ {0} /\ \A q \in Addresses : q \in Nat \ {0}
  BY ObjectLayout
<1>1. CASE types[p].kind = "ARRAY"
  <2>1. IsArray(p)
    BY <1>1, ObjectLayout
  <2>2. types[p].base \in Kept /\ types[p].base < p /\ types[p] \in ArrayObjects
    BY <2>1 DEF IsArray
  <2>3. types[p].base \in Addresses
    BY <2>2 DEF Kept
  <2> QED  BY <1>0, <1>1, <2>2, <2>3 DEF ArrayObjects
<1>2. CASE types[p].kind = "FUNC"
  <2>1. IsFunction(p) /\ p \notin Primitives
    BY <1>2, ObjectLayout, PrimitiveFacts
  <2>2. p > 5
    BY <1>0, <2>1, PrimitiveFacts
  <2> QED  BY <1>0, <1>2, <2>1, <2>2, PrimitiveFacts DEF IsFunction, FunctionObjects
<1> QED  BY <1>1, <1>2

\* Each step of the recursion yields a value and looks at older objects only.
LEMMA ValueStepFacts ==
  ASSUME ArenaInv, NEW p \in Addresses, NEW f, \A q \in 0..(p - 1) : f[q] \in TypeValues
  PROVE  /\ ValueStep(p, f) \in TypeValues
         /\ \A g : (\A q \in 0..(p - 1) : g[q] = f[q]) => ValueStep(p, g) = ValueStep(p, f)
<1>0. p \in Nat \ {0} /\ p # NULL
  BY ObjectLayout
<1>1. CASE types[p].kind = "ARRAY"
  <2>1. types[p].base \in 0..(p - 1) /\ types[p].len \in Int
    BY <1>0, <1>1, MadeOfOlder
  <2>2. \A g : ValueStep(p, g) = [g[types[p].base] EXCEPT !.dims = Append(@, types[p].len)]
    BY <1>0, <1>1 DEF ValueStep, T!type_array_of
  <2>3. f[types[p].base] \in TypeValues
    BY <2>1
  <2>4. Append(f[types[p].base].dims, types[p].len) \in Seq(Int)
    BY <2>1, <2>3, AppendProperties DEF TypeValues
  <2>5. [f[types[p].base] EXCEPT !.dims = Append(@, types[p].len)] \in TypeValues
    BY <2>3, <2>4 DEF TypeValues
  <2> QED  BY <2>1, <2>2, <2>5
<1>2. CASE types[p].kind = "FUNC"
  <2>1. types[p].ret \in 0..(p - 1)
    BY <1>0, <1>2, MadeOfOlder
  <2>2. \A g : ValueStep(p, g) = [g[types[p].ret] EXCEPT !.func = p]
    BY <1>0, <1>2 DEF ValueStep, T!type_func_new
  <2>3. f[types[p].ret] \in TypeValues
    BY <2>1
  <2>4. [f[types[p].ret] EXCEPT !.func = p] \in TypeValues
    BY <1>0, <2>3 DEF TypeValues
  <2> QED  BY <2>1, <2>2, <2>4
<1>3. CASE types[p].kind \in DOMAIN Width
  <2>1. types[p].kind # "ARRAY" /\ types[p].kind # "FUNC"
    BY <1>3, PrimitiveFacts
  <2>2. \A g : ValueStep(p, g) = ValueName[types[p].kind]
    BY <1>0, <2>1 DEF ValueStep
  <2>3. <<>> \in Seq(Int)
    BY EmptySeq
  <2>4. PICK t \in TypeNames :
          ValueName[types[p].kind] = [prim |-> t, dims |-> <<>>, func |-> NULL]
    BY <1>3, PrimitiveFacts, NameFacts DEF TypeNames
  <2>5. ValueName[types[p].kind] \in TypeValues
    BY <2>3, <2>4 DEF TypeValues, NULL
  <2> QED  BY <2>2, <2>5
<1> QED  BY <1>1, <1>2, <1>3, ObjectLayout

\* Values is what its recursion says.
LEMMA ValuesSolve ==
  ASSUME ArenaInv
  PROVE  /\ Values \in [0..Len(types) -> TypeValues]
         /\ Len(types) \in Nat /\ Addresses = 1..Len(types)
         /\ {NULL} \cup Addresses = 0..Len(types)
         /\ \A p \in 0..Len(types) : Values[p] = ValueStep(p, Values)
<1> DEFINE n == Len(types)
           Solves(m, f) == \A p \in 0..m : f[p] = ValueStep(p, f)
           A == {m \in 0..n : \E f \in [0..m -> TypeValues] : Solves(m, f)}
<1>1. n \in Nat /\ Addresses = 1..n /\ {NULL} \cup Addresses = 0..n
  <2>1. types \in Seq(Objects)
    BY DEF ArenaInv
  <2>2. n \in Nat /\ Addresses = 1..n
    BY <2>1, LenProperties DEF Addresses
  <2> QED  BY <2>2 DEF NULL
<1> HIDE DEF n
<1>2. 0 \in A
  <2> DEFINE f == [i \in 0..0 |-> T!NullType]
  <2>1. T!NullType \in TypeValues
    <3>1. <<>> \in Seq(Int)
      BY EmptySeq
    <3> QED  BY <3>1, NameFacts DEF TypeValues, NULL
  <2>2. f \in [0..0 -> TypeValues]
    BY <2>1
  <2>3. \A g : ValueStep(0, g) = T!NullType
    BY DEF ValueStep, NULL
  <2>4. Solves(0, f)
    <3>1. f[0] = T!NullType
      OBVIOUS
    <3> HIDE DEF f
    <3>2. f[0] = ValueStep(0, f)
      BY <2>3, <3>1
    <3> QED  BY <3>2
  <2> HIDE DEF f, Solves
  <2> QED  BY <1>1, <2>2, <2>4
<1>3. ASSUME NEW m \in 1..n, m - 1 \in A PROVE m \in A
  <2>1. PICK f \in [0..(m - 1) -> TypeValues] : Solves(m - 1, f)
    BY <1>3
  <2>2. m \in Addresses /\ \A q \in 0..(m - 1) : f[q] \in TypeValues
    BY <1>1
  <2> DEFINE g == [i \in 0..m |-> IF i = m THEN ValueStep(m, f) ELSE f[i]]
  <2>3. ValueStep(m, f) \in TypeValues
    BY <2>2, ValueStepFacts
  <2>4. g \in [0..m -> TypeValues] /\ \A q \in 0..(m - 1) : g[q] = f[q]
    BY <2>3
  <2>5. g[m] = ValueStep(m, f)
    OBVIOUS
  <2> HIDE DEF g
  <2>6. ASSUME NEW p \in 0..m PROVE g[p] = ValueStep(p, g)
    <3>1. CASE p = 0
      <4>1. ValueStep(p, g) = ValueStep(p, f)
        BY <3>1 DEF ValueStep, NULL
      <4> QED  BY <2>1, <2>4, <3>1, <4>1
    <3>2. CASE p \in 1..m
      <4>1. p \in Addresses /\ \A q \in 0..(p - 1) : f[q] \in TypeValues /\ g[q] = f[q]
        BY <1>1, <2>2, <2>4, <3>2
      <4>2. ValueStep(p, g) = ValueStep(p, f)
        BY <4>1, ValueStepFacts
      <4>3. p # m => p \in 0..(m - 1)
        BY <3>2
      <4> QED  BY <2>1, <2>4, <2>5, <4>2, <4>3
    <3> QED  BY <3>1, <3>2
  <2>7. Solves(m, g)
    BY <2>6
  <2> HIDE DEF Solves
  <2> QED  BY <2>4, <2>7
<1>4. n \in A
  <2> HIDE DEF A
  <2>1. 0..n \subseteq A
    BY <1>1, <1>2, <1>3, UpToInduction
  <2> QED  BY <1>1, <2>1
<1>5. PICK f \in [0..n -> TypeValues] : Solves(n, f)
  BY <1>4
<1>6. f = [p \in {NULL} \cup Addresses |-> ValueStep(p, f)]
  BY <1>1, <1>5
<1>7. Values = [p \in {NULL} \cup Addresses |-> ValueStep(p, Values)]
  BY <1>6 DEF Values, ValueStep
<1>8. \A p \in 0..n : Values[p] = ValueStep(p, Values)
  BY <1>1, <1>7
<1>9. DOMAIN Values = 0..n
  BY <1>1, <1>7
<1>10. \A p \in 0..n : Values[p] \in TypeValues
  <2> DEFINE B == {p \in 0..n : \A q \in 0..p : Values[q] \in TypeValues}
  <2>1. 0 \in B
    <3>1. ValueStep(0, Values) = T!NullType /\ T!NullType \in TypeValues
      <4>1. <<>> \in Seq(Int)
        BY EmptySeq
      <4> QED  BY <4>1, NameFacts DEF ValueStep, TypeValues, NULL
    <3> QED  BY <1>1, <1>8, <3>1
  <2>2. ASSUME NEW m \in 1..n, m - 1 \in B PROVE m \in B
    <3>1. m \in Addresses /\ \A q \in 0..(m - 1) : Values[q] \in TypeValues
      BY <1>1, <2>2
    <3>2. Values[m] \in TypeValues
      BY <1>8, <3>1, ValueStepFacts
    <3> QED  BY <3>1, <3>2
  <2> HIDE DEF B
  <2>3. 0..n \subseteq B
    BY <1>1, <2>1, <2>2, UpToInduction
  <2> QED  BY <1>1, <2>3 DEF B
<1>11. Values \in [0..n -> TypeValues]
  BY <1>7, <1>9, <1>10
<1> QED  BY <1>1, <1>8, <1>11 DEF n

\* What an address denotes, by the kind of object that is there.
LEMMA Denotes ==
  ASSUME ArenaInv
  PROVE  /\ Values[NULL] = [prim |-> "null", dims |-> <<>>, func |-> NULL]
         /\ \A p \in Primitives : Values[p] = ValueName[PrimKinds[p]]
         /\ \A p \in Arrays :
              Values[p] = [Values[types[p].base] EXCEPT !.dims = Append(@, types[p].len)]
         /\ \A p \in Functions : Values[p] = [Values[types[p].ret] EXCEPT !.func = p]
<1>1. \A p \in Addresses : p \in 0..Len(types) /\ p # NULL /\ Values[p] = ValueStep(p, Values)
  BY ValuesSolve, ObjectLayout
<1>2. Values[NULL] = T!NullType
  <2>1. NULL \in 0..Len(types) /\ ValueStep(NULL, Values) = T!NullType
    BY ValuesSolve DEF ValueStep
  <2> QED  BY <2>1, ValuesSolve
<1>3. ASSUME NEW p \in Primitives PROVE Values[p] = ValueName[PrimKinds[p]]
  <2>1. p \in Addresses /\ types[p] = new_primitive(PrimKinds[p])
    BY DEF ArenaInv
  <2>2. types[p].kind = PrimKinds[p] /\ types[p].kind # "ARRAY" /\ types[p].kind # "FUNC"
    BY <2>1, PrimitiveObjectFacts
  <2> QED  BY <1>1, <2>1, <2>2 DEF ValueStep
<1>4. ASSUME NEW p \in Arrays
      PROVE  Values[p] = [Values[types[p].base] EXCEPT !.dims = Append(@, types[p].len)]
  BY <1>1 DEF Arrays, ValueStep, T!type_array_of
<1>5. ASSUME NEW p \in Functions PROVE Values[p] = [Values[types[p].ret] EXCEPT !.func = p]
  BY <1>1 DEF Functions, ValueStep, T!type_func_new
<1> QED  BY <1>2, <1>3, <1>4, <1>5, NameFacts

\* Only a function's value has a name, only an array's has dimensions, and only
\* NULL is called null.
LEMMA ValueShape ==
  ASSUME ArenaInv, NEW p \in Addresses
  PROVE  /\ p \in Primitives => /\ Values[p].dims = <<>> /\ Values[p].func = NULL
                                /\ Values[p].prim \in TypeNames
         /\ p \in Arrays => /\ Values[p].dims # <<>> /\ Values[p].func = NULL
                            /\ Values[p].prim \in TypeNames
                            /\ Values[types[p].base] = T!ElementType(Values[p])
         /\ p \in Functions => /\ Values[p].func = p /\ Values[p].dims = <<>>
                               /\ Values[p].prim \in TypeNames
                               /\ Values[types[p].ret] = T!ReturnType(Values[p])
         /\ Values[p] \in TypeValues
<1>1. \A q \in 0..Len(types) : Values[q] \in TypeValues
  BY ValuesSolve
<1>2. \A q \in Addresses : q \in 0..Len(types) /\ q \in Nat \ {0}
  BY ValuesSolve, ObjectLayout
<1>3. ASSUME NEW q \in Primitives
      PROVE  Values[q].dims = <<>> /\ Values[q].func = NULL /\ Values[q].prim \in TypeNames
  <2>1. Values[q] = ValueName[PrimKinds[q]]
    BY Denotes
  <2>2. PICK t \in TypeNames :
          ValueName[PrimKinds[q]] = [prim |-> t, dims |-> <<>>, func |-> NULL]
    BY PrimitiveFacts, NameFacts DEF TypeNames
  <2> QED  BY <2>1, <2>2
<1>4. ASSUME NEW q \in Arrays
      PROVE  /\ Values[q].dims # <<>> /\ Front(Values[q].dims) = Values[types[q].base].dims
             /\ Values[q].func = Values[types[q].base].func
             /\ Values[q].prim = Values[types[q].base].prim
             /\ Values[types[q].base] \in TypeValues
             /\ types[q].base \in 1..(q - 1) /\ types[q].base \in Kept
  <2>1. q \in Addresses /\ types[q].kind = "ARRAY"
    BY DEF Arrays
  <2>2. types[q].base \in 1..(q - 1) /\ types[q].base \in Kept /\ types[q].len \in Int
    BY <2>1, MadeOfOlder
  <2>3. Values[types[q].base] \in TypeValues
    BY <1>1, <1>2, <2>2 DEF Kept
  <2> DEFINE e == Values[types[q].base]
             d == Append(e.dims, types[q].len)
  <2>4. Values[q] = [e EXCEPT !.dims = d]
    BY Denotes
  <2>5. e.dims \in Seq(Int)
    BY <2>3 DEF TypeValues
  <2>6. Front(d) = e.dims /\ d # <<>>
    BY <2>2, <2>5, FrontAppend
  <2> HIDE DEF d
  <2>7. /\ Values[q].dims = d /\ Values[q].func = e.func /\ Values[q].prim = e.prim
    BY <2>3, <2>4 DEF TypeValues
  <2> QED  BY <2>2, <2>3, <2>6, <2>7
<1>5. \A q \in Kept : Values[q].func = NULL /\ Values[q].prim \in TypeNames
  <2> DEFINE n == Len(types)
             B == {m \in 0..n : \A q \in 1..m :
                     q \in Kept => Values[q].func = NULL /\ Values[q].prim \in TypeNames}
  <2>1. 0 \in B
    BY ValuesSolve
  <2>2. ASSUME NEW m \in 1..n, m - 1 \in B PROVE m \in B
    <3>1. ASSUME m \in Kept
          PROVE  Values[m].func = NULL /\ Values[m].prim \in TypeNames
      <4>1. CASE m \in Primitives
        BY <1>3, <4>1
      <4>2. CASE m \notin Primitives
        <5>1. m \in Arrays
          BY <3>1, <4>2, ObjectLayout DEF Kept, Arrays
        <5>2. types[m].base \in 1..(m - 1) /\ types[m].base \in Kept
          BY <1>4, <5>1
        <5> QED  BY <1>4, <2>2, <5>1, <5>2
      <4> QED  BY <4>1, <4>2
    <3>2. \A q \in 1..m : q = m \/ q \in 1..(m - 1)
      OBVIOUS
    <3> QED  BY <2>2, <3>1, <3>2
  <2> HIDE DEF B
  <2>3. 0..n \subseteq B /\ n \in Nat
    BY <2>1, <2>2, ValuesSolve, UpToInduction
  <2>4. n \in B /\ \A q \in Kept : q \in 1..n
    BY <2>3, ValuesSolve DEF Kept
  <2> QED  BY <2>4 DEF B
<1>6. ASSUME p \in Arrays
      PROVE  /\ Values[p].dims # <<>> /\ Values[p].func = NULL
             /\ Values[p].prim \in TypeNames
             /\ Values[types[p].base] = T!ElementType(Values[p])
  <2> DEFINE e == Values[types[p].base]
  <2>1. /\ Values[p].dims # <<>> /\ Front(Values[p].dims) = e.dims
        /\ Values[p].func = e.func /\ Values[p].prim = e.prim
        /\ e \in TypeValues /\ types[p].base \in Kept
    BY <1>4, <1>6
  <2>2. Values[p] \in TypeValues
    BY <1>1, <1>2
  <2> HIDE DEF e
  <2>3. [Values[p] EXCEPT !.dims = Front(@)] = e
    BY <2>1, <2>2 DEF TypeValues
  <2> QED  BY <1>5, <2>1, <2>3 DEF e, T!ElementType, T!Front, Front
<1>7. ASSUME p \in Functions
      PROVE  /\ Values[p].func = p /\ Values[p].dims = <<>>
             /\ Values[p].prim \in TypeNames
             /\ Values[types[p].ret] = T!ReturnType(Values[p])
  <2>1. types[p].ret \in Primitives /\ types[p].ret \in Addresses
    BY <1>7, MadeOfOlder DEF Functions, ArenaInv
  <2>2. Values[types[p].ret] \in TypeValues /\ Values[types[p].ret].func = NULL
        /\ Values[types[p].ret].dims = <<>> /\ Values[types[p].ret].prim \in TypeNames
    BY <1>1, <1>2, <1>3, <2>1
  <2>3. Values[p] = [Values[types[p].ret] EXCEPT !.func = p]
    BY <1>7, Denotes
  <2> QED  BY <2>2, <2>3 DEF TypeValues, T!ReturnType
<1> QED  BY <1>1, <1>2, <1>3, <1>6, <1>7
-----------------------------------------------------------------------------
(* What type_eq computes.                                                  *)

Refs == {NULL} \cup Addresses

\* The answer of Types for the values.
Agree(a, b) == T!type_eq(Values[a], Values[b], ParamValues)

\* One call of type_eq on the pair q, given the answers of the calls it makes.
EqStep(q, eq) ==
  \/ q[1] = q[2]
  \/ /\ q[1] # NULL /\ q[2] # NULL
     /\ types[q[1]].kind = types[q[2]].kind
     /\ SameStructure(q[1], q[2], eq)

\* Away from functions the answer is equality of the values.
LEMMA AgreeFacts ==
  ASSUME ArenaInv, NEW a \in Refs, NEW b \in Refs
  PROVE  /\ a \notin Functions \/ b \notin Functions =>
              (Agree(a, b) <=> Values[a] = Values[b])
         /\ a \in Functions /\ b \in Functions =>
              (Agree(a, b) <=> \/ a = b
                               \/ /\ Values[types[a].ret] = Values[types[b].ret]
                                  /\ ParamValues[a] = ParamValues[b])
<1>1. \A p \in Refs \ Functions : Values[p].func = NULL
  <2>1. Values[NULL].func = NULL
    BY Denotes
  <2>2. \A p \in Addresses \ Functions : p \in Arrays \/ p \in Primitives
    BY ObjectLayout DEF Functions, Arrays
  <2> QED  BY <2>1, <2>2, ValueShape DEF Refs
<1>2. \A p \in Functions : /\ p \in Addresses /\ p # NULL /\ Values[p].func = p
                           /\ Values[types[p].ret] = T!ReturnType(Values[p])
  BY ObjectLayout, ValueShape DEF Functions
<1>3. Agree(a, b) <=> \/ Values[a] = Values[b]
                      \/ /\ Values[a].func # NULL /\ Values[b].func # NULL
                         /\ T!ReturnType(Values[a]) = T!ReturnType(Values[b])
                         /\ ParamValues[Values[a].func] = ParamValues[Values[b].func]
  BY DEF Agree, T!type_eq
<1>4. a \notin Functions \/ b \notin Functions => (Agree(a, b) <=> Values[a] = Values[b])
  BY <1>1, <1>3
<1>5. ASSUME a \in Functions, b \in Functions
      PROVE  Agree(a, b) <=> \/ a = b
                             \/ /\ Values[types[a].ret] = Values[types[b].ret]
                                /\ ParamValues[a] = ParamValues[b]
  <2>1. Values[a] = Values[b] <=> a = b
    BY <1>2, <1>5
  <2> QED  BY <1>2, <1>3, <1>5, <2>1
<1> QED  BY <1>4, <1>5

\* Two arrays denote the same when their bases do and their lengths are equal.
LEMMA ArrayValues ==
  ASSUME ArenaInv, NEW a \in Arrays, NEW b \in Arrays
  PROVE  Values[a] = Values[b] <=> /\ Values[types[a].base] = Values[types[b].base]
                                   /\ types[a].len = types[b].len
<1> DEFINE v == Values[types[a].base]
           w == Values[types[b].base]
           k == types[a].len
           l == types[b].len
<1>1. v \in TypeValues /\ w \in TypeValues /\ k \in Int /\ l \in Int
  <2>1. \A p \in Arrays : p \in Addresses /\ types[p].kind = "ARRAY"
    BY DEF Arrays
  <2>2. \A p \in Arrays : types[p].base \in Addresses /\ types[p].len \in Int
    BY <2>1, MadeOfOlder DEF Kept
  <2> QED  BY <2>2, ValueShape
<1>2. /\ Values[a] = [v EXCEPT !.dims = Append(@, k)]
      /\ Values[b] = [w EXCEPT !.dims = Append(@, l)]
  BY Denotes
<1> HIDE DEF v, w, k, l
<1>3. v.dims \in Seq(Int) /\ w.dims \in Seq(Int)
  BY <1>1 DEF TypeValues
<1>4. ASSUME Append(v.dims, k) = Append(w.dims, l) PROVE v.dims = w.dims /\ k = l
  <2>1. /\ Len(Append(v.dims, k)) = Len(v.dims) + 1
        /\ Append(v.dims, k)[Len(v.dims) + 1] = k
        /\ \A i \in 1..Len(v.dims) : Append(v.dims, k)[i] = v.dims[i]
        /\ Len(v.dims) \in Nat
    BY <1>1, <1>3, AppendProperties, LenProperties
  <2>2. /\ Len(Append(w.dims, l)) = Len(w.dims) + 1
        /\ Append(w.dims, l)[Len(w.dims) + 1] = l
        /\ \A i \in 1..Len(w.dims) : Append(w.dims, l)[i] = w.dims[i]
        /\ Len(w.dims) \in Nat
    BY <1>1, <1>3, AppendProperties, LenProperties
  <2>3. Len(v.dims) = Len(w.dims)
    BY <1>4, <2>1, <2>2
  <2>4. \A i \in 1..Len(v.dims) : v.dims[i] = w.dims[i]
    BY <1>4, <2>1, <2>2, <2>3
  <2>5. v.dims = w.dims
    BY <1>3, <2>3, <2>4, SeqEqual
  <2> QED  BY <1>4, <2>1, <2>2, <2>3, <2>5
<1>5. Values[a] = Values[b] => v = w /\ k = l
  <2>1. SUFFICES ASSUME Values[a] = Values[b] PROVE v = w /\ k = l
    OBVIOUS
  <2>2. Values[a].dims = Append(v.dims, k) /\ Values[b].dims = Append(w.dims, l)
        /\ Values[a].prim = v.prim /\ Values[b].prim = w.prim
        /\ Values[a].func = v.func /\ Values[b].func = w.func
    BY <1>1, <1>2 DEF TypeValues
  <2>3. v.dims = w.dims /\ k = l
    BY <1>4, <2>1, <2>2
  <2> QED  BY <1>1, <2>1, <2>2, <2>3 DEF TypeValues
<1> QED  BY <1>2, <1>5 DEF v, w, k, l

\* Two functions have the same parameters when those denote the same one by one.
LEMMA ParamVectors ==
  ASSUME ArenaInv, NEW a \in Functions, NEW b \in Functions
  PROVE  ParamValues[a] = ParamValues[b] <=>
           /\ Len(types[a].params) = Len(types[b].params)
           /\ \A i \in DOMAIN types[a].params :
                Values[types[a].params[i]] = Values[types[b].params[i]]
<1> DEFINE q == types[a].params
           r == types[b].params
<1>1. q \in Seq(Nat) /\ r \in Seq(Nat)
  BY MadeOfOlder DEF Functions
<1>2. /\ Len(q) \in Nat /\ DOMAIN q = 1..Len(q)
      /\ Len(r) \in Nat /\ DOMAIN r = 1..Len(r)
  BY <1>1, LenProperties
<1>3. /\ ParamValues[a] = [i \in DOMAIN q |-> Values[q[i]]]
      /\ ParamValues[b] = [i \in DOMAIN r |-> Values[r[i]]]
  BY DEF ParamValues
<1> HIDE DEF q, r
<1>4. DOMAIN q = DOMAIN r <=> Len(q) = Len(r)
  <2>1. ASSUME DOMAIN q = DOMAIN r PROVE Len(q) = Len(r)
    <3>1. \A i \in 1..Len(q) : i \in 1..Len(r)
      BY <1>2, <2>1
    <3>2. \A i \in 1..Len(r) : i \in 1..Len(q)
      BY <1>2, <2>1
    <3>3. Len(q) <= Len(r)
      <4>1. Len(q) = 0 \/ Len(q) \in 1..Len(q)
        BY <1>2
      <4> QED  BY <1>2, <3>1, <4>1
    <3>4. Len(r) <= Len(q)
      <4>1. Len(r) = 0 \/ Len(r) \in 1..Len(r)
        BY <1>2
      <4> QED  BY <1>2, <3>2, <4>1
    <3>5. Len(q) \in Nat /\ Len(r) \in Nat
      BY <1>2
    <3> HIDE DEF q, r
    <3> QED  BY <3>3, <3>4, <3>5
  <2> QED  BY <1>2, <2>1
<1>5. ParamValues[a] = ParamValues[b] <=>
        DOMAIN q = DOMAIN r /\ \A i \in DOMAIN q : Values[q[i]] = Values[r[i]]
  BY <1>3
<1> QED  BY <1>4, <1>5 DEF q, r

\* What the objects are made of are objects or NULL, and never functions.
LEMMA Components ==
  ASSUME ArenaInv
  PROVE  /\ \A p \in Arrays : types[p].base \in Refs \ Functions
         /\ \A p \in Functions :
              /\ types[p].ret \in Refs \ Functions
              /\ DOMAIN types[p].params = 1..Len(types[p].params)
              /\ \A i \in DOMAIN types[p].params : types[p].params[i] \in Refs \ Functions
<1>1. NULL \notin Functions
  BY ObjectLayout DEF Functions
<1>2. \A p \in Primitives : p \in Refs \ Functions
  <2>1. \A p \in Primitives : p \in Addresses
    BY DEF ArenaInv
  <2> QED  BY <2>1, ObjectLayout, PrimitiveFacts DEF Functions, Refs
<1>3. ASSUME NEW p \in Arrays PROVE types[p].base \in Refs \ Functions
  BY MadeOfOlder DEF Arrays, Kept, Refs, Functions
<1>4. ASSUME NEW p \in Functions
      PROVE  /\ types[p].ret \in Refs \ Functions
             /\ DOMAIN types[p].params = 1..Len(types[p].params)
             /\ \A i \in DOMAIN types[p].params : types[p].params[i] \in Refs \ Functions
  <2>1. /\ IsFunction(p) /\ types[p].params \in Seq(Nat) /\ types[p].ret \in Primitives
    BY ObjectLayout, MadeOfOlder DEF Functions
  <2>2. DOMAIN types[p].params = 1..Len(types[p].params)
    BY <2>1, LenProperties
  <2> QED  BY <1>1, <1>2, <2>1, <2>2 DEF IsFunction, Refs, Kept, Functions
<1> QED  BY <1>3, <1>4

\* One call answers as Types does, if the calls it makes do.
LEMMA EqStepFacts ==
  ASSUME ArenaInv, NEW a \in Refs, NEW b \in Refs, NEW eq,
         a \in Arrays /\ b \in Arrays =>
           (eq[<<types[a].base, types[b].base>>] <=> Agree(types[a].base, types[b].base)),
         a \in Functions /\ b \in Functions =>
           /\ eq[<<types[a].ret, types[b].ret>>] <=> Agree(types[a].ret, types[b].ret)
           /\ Len(types[a].params) = Len(types[b].params) =>
                \A i \in DOMAIN types[a].params :
                  eq[<<types[a].params[i], types[b].params[i]>>]
                    <=> Agree(types[a].params[i], types[b].params[i])
  PROVE  EqStep(<<a, b>>, eq) <=> Agree(a, b)
<1>1. EqStep(<<a, b>>, eq) <=> \/ a = b
                               \/ /\ a # NULL /\ b # NULL
                                  /\ types[a].kind = types[b].kind
                                  /\ SameStructure(a, b, eq)
  BY DEF EqStep
<1>2. \A p \in Addresses : /\ p # NULL
                           /\ p \in Primitives <=> types[p].kind \in DOMAIN Width
                           /\ p \in Arrays <=> types[p].kind = "ARRAY"
                           /\ p \in Functions <=> types[p].kind = "FUNC"
                           /\ p \in Primitives \cup Arrays \cup Functions
  BY ObjectLayout DEF Arrays, Functions
<1>3. "ARRAY" \notin DOMAIN Width /\ "FUNC" \notin DOMAIN Width
  BY PrimitiveFacts
<1>4. CASE a = b
  BY <1>1, <1>4, AgreeFacts
<1>5. ASSUME NEW p \in Addresses PROVE Values[p] # Values[NULL]
  <2>1. Values[p].prim \in TypeNames
    BY <1>2, ValueShape
  <2>2. Values[NULL].prim = "null" /\ "null" \notin TypeNames
    BY Denotes DEF TypeNames
  <2> QED  BY <2>1, <2>2
<1>6. NULL \notin Functions
  BY <1>2 DEF Functions
<1>7. CASE a # b /\ (a = NULL \/ b = NULL)
  <2>1. ~EqStep(<<a, b>>, eq)
    BY <1>1, <1>7
  <2>2. Values[a] # Values[b]
    BY <1>5, <1>7 DEF Refs
  <2> QED  BY <1>6, <1>7, <2>1, <2>2, AgreeFacts
<1>8. ASSUME a # b, a \in Addresses, b \in Addresses
      PROVE  EqStep(<<a, b>>, eq) <=> Agree(a, b)
  <2>1. CASE types[a].kind # types[b].kind
    <3>1. ~(a \in Functions /\ b \in Functions)
      BY <1>2, <1>8, <2>1
    <3>2. ~EqStep(<<a, b>>, eq)
      BY <1>1, <1>8, <2>1
    <3>3. Values[a] # Values[b]
      <4>1. CASE a \in Functions \/ b \in Functions
        BY <1>2, <1>8, <3>1, <4>1, ValueShape, PrimitiveFacts
      <4>2. CASE a \notin Functions /\ b \notin Functions /\ (a \in Arrays \/ b \in Arrays)
        <5>1. ~(a \in Arrays /\ b \in Arrays)
          BY <1>2, <1>8, <2>1
        <5> QED  BY <1>2, <1>8, <4>2, <5>1, ValueShape
      <4>3. CASE a \in Primitives /\ b \in Primitives
        BY <1>8, <4>3, Denotes, PrimitiveFacts, NameFacts
      <4> QED  BY <1>2, <1>8, <4>1, <4>2, <4>3
    <3> QED  BY <3>1, <3>2, <3>3, AgreeFacts
  <2>2. CASE a \in Primitives /\ b \in Primitives
    <3>1. types[a].kind # "ARRAY" /\ types[a].kind # "FUNC"
      BY <1>2, <1>3, <1>8, <2>2
    <3>2. ~SameStructure(a, b, eq)
      BY <3>1 DEF SameStructure
    <3>3. Values[a] # Values[b]
      BY <1>8, <2>2, Denotes, PrimitiveFacts, NameFacts
    <3>4. a \notin Functions
      BY <1>2, <1>8, <3>1
    <3> QED  BY <1>1, <1>8, <3>2, <3>3, <3>4, AgreeFacts
  <2>3. CASE a \in Arrays /\ b \in Arrays
    <3>1. types[a].kind = "ARRAY" /\ types[b].kind = "ARRAY"
          /\ a \notin Functions /\ b \notin Functions
      BY <1>2, <1>8, <2>3
    <3>2. SameStructure(a, b, eq) <=> /\ types[a].len = types[b].len
                                      /\ eq[<<types[a].base, types[b].base>>]
      BY <3>1 DEF SameStructure
    <3>3. types[a].base \in Refs \ Functions /\ types[b].base \in Refs \ Functions
      BY <2>3, Components
    <3>4. Agree(types[a].base, types[b].base)
            <=> Values[types[a].base] = Values[types[b].base]
      BY <3>3, AgreeFacts
    <3>5. Agree(a, b) <=> Values[a] = Values[b]
      BY <3>1, AgreeFacts
    <3>6. a # NULL /\ b # NULL
      BY <1>2, <1>8
    <3> QED  BY <1>1, <1>8, <2>3, <3>1, <3>2, <3>4, <3>5, <3>6, ArrayValues
  <2>4. CASE a \in Functions /\ b \in Functions
    <3>1. types[a].kind = "FUNC" /\ types[b].kind = "FUNC" /\ a # NULL /\ b # NULL
      BY <1>2, <1>8, <2>4
    <3>2. SameStructure(a, b, eq) <=>
            /\ eq[<<types[a].ret, types[b].ret>>]
            /\ Len(types[a].params) = Len(types[b].params)
            /\ \A i \in DOMAIN types[a].params :
                 eq[<<types[a].params[i], types[b].params[i]>>]
      BY <3>1 DEF SameStructure
    <3>3. types[a].ret \in Refs \ Functions /\ types[b].ret \in Refs \ Functions
      BY <2>4, Components
    <3>4. Agree(types[a].ret, types[b].ret) <=> Values[types[a].ret] = Values[types[b].ret]
      BY <3>3, AgreeFacts
    <3>5. ASSUME Len(types[a].params) = Len(types[b].params)
          PROVE  \A i \in DOMAIN types[a].params :
                   Agree(types[a].params[i], types[b].params[i])
                     <=> Values[types[a].params[i]] = Values[types[b].params[i]]
      <4>1. DOMAIN types[a].params = DOMAIN types[b].params
        BY <2>4, <3>5, Components
      <4>2. ASSUME NEW i \in DOMAIN types[a].params
            PROVE  Agree(types[a].params[i], types[b].params[i])
                     <=> Values[types[a].params[i]] = Values[types[b].params[i]]
        <5>1. /\ types[a].params[i] \in Refs \ Functions
              /\ types[b].params[i] \in Refs \ Functions
          BY <2>4, <4>1, Components
        <5> QED  BY <5>1, AgreeFacts
      <4> QED  BY <4>2
    <3>6. Agree(a, b) <=> /\ Values[types[a].ret] = Values[types[b].ret]
                          /\ ParamValues[a] = ParamValues[b]
      BY <1>8, <2>4, AgreeFacts
    <3>7. EqStep(<<a, b>>, eq) <=> SameStructure(a, b, eq)
      BY <1>1, <1>8, <3>1
    <3>8. CASE Len(types[a].params) = Len(types[b].params)
      <4>1. \A i \in DOMAIN types[a].params :
              eq[<<types[a].params[i], types[b].params[i]>>]
                <=> Values[types[a].params[i]] = Values[types[b].params[i]]
        BY <2>4, <3>5, <3>8
      <4>2. ParamValues[a] = ParamValues[b] <=>
              \A i \in DOMAIN types[a].params :
                Values[types[a].params[i]] = Values[types[b].params[i]]
        BY <2>4, <3>8, ParamVectors
      <4> QED  BY <2>4, <3>2, <3>4, <3>6, <3>7, <3>8, <4>1, <4>2
    <3>9. CASE Len(types[a].params) # Len(types[b].params)
      <4>1. ParamValues[a] # ParamValues[b]
        BY <2>4, <3>9, ParamVectors
      <4> QED  BY <3>2, <3>6, <3>7, <3>9, <4>1
    <3> QED  BY <3>8, <3>9
  <2> QED  BY <1>2, <1>3, <1>8, <2>1, <2>2, <2>3, <2>4
<1> QED  BY <1>4, <1>7, <1>8 DEF Refs

\* A function that answers every pair by one call of type_eq answers as Types
\* does: first away from functions, along the bases, then for functions too.
LEMMA EqSolution ==
  ASSUME ArenaInv, NEW eq, \A a, b \in Refs : eq[<<a, b>>] <=> EqStep(<<a, b>>, eq)
  PROVE  \A a, b \in Refs : eq[<<a, b>>] <=> Agree(a, b)
<1> DEFINE n == Len(types)
           B == {m \in 0..n : \A a \in 0..m : a \notin Functions =>
                   \A b \in Refs : eq[<<a, b>>] <=> Agree(a, b)}
<1>1. n \in Nat /\ Refs = 0..n /\ NULL = 0
  BY ValuesSolve DEF Refs, NULL
<1>2. \A p \in Arrays : types[p].base \in 0..(p - 1) /\ types[p].base \notin Functions
  BY MadeOfOlder, Components DEF Arrays
<1>3. NULL \notin Arrays
  BY ObjectLayout DEF Arrays
<1>4. 0 \in B
  <2>1. ASSUME NEW b \in Refs PROVE eq[<<NULL, b>>] <=> Agree(NULL, b)
    <3>1. NULL \in Refs /\ NULL \notin Functions
      BY ObjectLayout DEF Functions, Refs
    <3>2. EqStep(<<NULL, b>>, eq) <=> Agree(NULL, b)
      BY <1>3, <3>1, EqStepFacts
    <3> QED  BY <3>1, <3>2
  <2>2. \A a \in 0..0 : a = NULL
    BY <1>1
  <2>3. 0 \in 0..n
    BY <1>1
  <2> QED  BY <2>1, <2>2, <2>3
<1>5. ASSUME NEW m \in 1..n, m - 1 \in B PROVE m \in B
  <2>1. ASSUME m \notin Functions, NEW b \in Refs PROVE eq[<<m, b>>] <=> Agree(m, b)
    <3>1. m \in Refs
      BY <1>1
    <3>2. m \in Arrays /\ b \in Arrays =>
            (eq[<<types[m].base, types[b].base>>] <=> Agree(types[m].base, types[b].base))
      <4>1. SUFFICES ASSUME m \in Arrays, b \in Arrays
                     PROVE  eq[<<types[m].base, types[b].base>>]
                              <=> Agree(types[m].base, types[b].base)
        OBVIOUS
      <4>2. types[m].base \in 0..(m - 1) /\ types[m].base \notin Functions
        BY <1>2, <4>1
      <4>3. types[b].base \in Refs
        BY <4>1, Components
      <4> QED  BY <1>5, <4>2, <4>3
    <3>3. EqStep(<<m, b>>, eq) <=> Agree(m, b)
      BY <2>1, <3>1, <3>2, EqStepFacts
    <3> QED  BY <3>1, <3>3
  <2>2. \A a \in 0..m : a = m \/ a \in 0..(m - 1)
    OBVIOUS
  <2>3. m \in 0..n
    OBVIOUS
  <2> QED  BY <1>5, <2>1, <2>2, <2>3
<1> HIDE DEF B
<1>6. 0..n \subseteq B
  BY <1>1, <1>4, <1>5, UpToInduction
<1>7. \A a \in Refs \ Functions, b \in Refs : eq[<<a, b>>] <=> Agree(a, b)
  <2>1. n \in 0..n
    BY <1>1
  <2> QED  BY <1>1, <1>6, <2>1 DEF B
<1>8. ASSUME NEW a \in Refs, NEW b \in Refs PROVE eq[<<a, b>>] <=> Agree(a, b)
  <2>1. a \in Arrays /\ b \in Arrays =>
          (eq[<<types[a].base, types[b].base>>] <=> Agree(types[a].base, types[b].base))
    BY <1>7, Components
  <2>2. a \in Functions /\ b \in Functions =>
          /\ eq[<<types[a].ret, types[b].ret>>] <=> Agree(types[a].ret, types[b].ret)
          /\ Len(types[a].params) = Len(types[b].params) =>
               \A i \in DOMAIN types[a].params :
                 eq[<<types[a].params[i], types[b].params[i]>>]
                   <=> Agree(types[a].params[i], types[b].params[i])
    <3>1. SUFFICES ASSUME a \in Functions, b \in Functions
                   PROVE  /\ eq[<<types[a].ret, types[b].ret>>]
                               <=> Agree(types[a].ret, types[b].ret)
                          /\ Len(types[a].params) = Len(types[b].params) =>
                               \A i \in DOMAIN types[a].params :
                                 eq[<<types[a].params[i], types[b].params[i]>>]
                                   <=> Agree(types[a].params[i], types[b].params[i])
      OBVIOUS
    <3>2. eq[<<types[a].ret, types[b].ret>>] <=> Agree(types[a].ret, types[b].ret)
      BY <1>7, <3>1, Components
    <3>3. ASSUME Len(types[a].params) = Len(types[b].params),
                 NEW i \in DOMAIN types[a].params
          PROVE  eq[<<types[a].params[i], types[b].params[i]>>]
                   <=> Agree(types[a].params[i], types[b].params[i])
      <4>1. i \in DOMAIN types[b].params
        BY <3>1, <3>3, Components
      <4>2. types[a].params[i] \in Refs \ Functions /\ types[b].params[i] \in Refs
        BY <3>1, <4>1, Components
      <4> QED  BY <1>7, <4>2
    <3> QED  BY <3>2, <3>3
  <2>3. EqStep(<<a, b>>, eq) <=> Agree(a, b)
    BY <2>1, <2>2, EqStepFacts
  <2> QED  BY <2>3
<1> QED  BY <1>8

\* type_eq has an answer for every pair, and it is that of Types.
LEMMA TypeEqAgrees ==
  ASSUME ArenaInv, NEW a \in Refs, NEW b \in Refs
  PROVE  type_eq(a, b) <=> Agree(a, b)
<1> DEFINE eq[q \in Pairs] ==
             \/ q[1] = q[2]
             \/ /\ q[1] # NULL /\ q[2] # NULL
                /\ types[q[1]].kind = types[q[2]].kind
                /\ SameStructure(q[1], q[2], eq)
           h == [q \in Pairs |-> Agree(q[1], q[2])]
<1>1. Pairs = Refs \X Refs
  BY DEF Pairs, Refs
<1>2. \A x, y \in Refs : <<x, y>> \in Pairs /\ (h[<<x, y>>] <=> Agree(x, y))
  BY <1>1
<1>3. ASSUME NEW q \in Pairs PROVE h[q] = EqStep(q, h)
  <2>1. PICK x \in Refs, y \in Refs : q = <<x, y>>
    BY <1>1
  <2> HIDE DEF h
  <2>2. x \in Arrays /\ y \in Arrays =>
          (h[<<types[x].base, types[y].base>>] <=> Agree(types[x].base, types[y].base))
    BY <1>2, Components
  <2>3. ASSUME x \in Functions, y \in Functions
        PROVE  /\ h[<<types[x].ret, types[y].ret>>] <=> Agree(types[x].ret, types[y].ret)
               /\ Len(types[x].params) = Len(types[y].params) =>
                    \A i \in DOMAIN types[x].params :
                      h[<<types[x].params[i], types[y].params[i]>>]
                        <=> Agree(types[x].params[i], types[y].params[i])
    <3>1. h[<<types[x].ret, types[y].ret>>] <=> Agree(types[x].ret, types[y].ret)
      BY <1>2, <2>3, Components
    <3>2. ASSUME Len(types[x].params) = Len(types[y].params),
                 NEW i \in DOMAIN types[x].params
          PROVE  h[<<types[x].params[i], types[y].params[i]>>]
                   <=> Agree(types[x].params[i], types[y].params[i])
      <4>1. i \in DOMAIN types[y].params
        BY <2>3, <3>2, Components
      <4>2. types[x].params[i] \in Refs /\ types[y].params[i] \in Refs
        BY <2>3, <4>1, Components
      <4> QED  BY <1>2, <4>2
    <3> QED  BY <3>1, <3>2
  <2>4. EqStep(<<x, y>>, h) <=> Agree(x, y)
    BY <2>2, <2>3, EqStepFacts
  <2>5. h[<<x, y>>] = Agree(x, y)
    BY <1>1 DEF h
  <2>6. Agree(x, y) \in BOOLEAN /\ EqStep(<<x, y>>, h) \in BOOLEAN
    BY DEF Agree, T!type_eq, EqStep
  <2> QED  BY <2>1, <2>4, <2>5, <2>6
<1>4. h = [q \in Pairs |-> EqStep(q, h)]
  <2>1. h = [q \in Pairs |-> h[q]]
    OBVIOUS
  <2> HIDE DEF h
  <2> QED  BY <1>3, <2>1
<1> HIDE DEF h
<1>5. eq = [q \in Pairs |-> EqStep(q, eq)]
  BY <1>4 DEF eq, EqStep
<1>6. type_eq(a, b) = eq[<<a, b>>]
  BY Zenon DEF type_eq, eq
<1> HIDE DEF eq
<1>7. \A x, y \in Refs : eq[<<x, y>>] <=> EqStep(<<x, y>>, eq)
  BY <1>1, <1>5
<1>8. \A x, y \in Refs : eq[<<x, y>>] <=> Agree(x, y)
  BY <1>7, EqSolution
<1> QED  BY <1>6, <1>8

-----------------------------------------------------------------------------
(* The parser may take a type for its value.                               *)

LEMMA ArenaValuesAgree == ArenaInv => ValuesAgree
<1> SUFFICES ASSUME ArenaInv PROVE ValuesAgree
  OBVIOUS
<1>1. DOMAIN Values = Refs
  BY ValuesSolve DEF Refs
<1>2. \A a, b \in Refs : type_eq(a, b) <=> T!type_eq(Values[a], Values[b], ParamValues)
  BY TypeEqAgrees DEF Agree
<1>3. \A a \in Arrays : Values[types[a].base] = T!ElementType(Values[a])
  BY ValueShape DEF Arrays
<1>4. \A f \in Functions : Values[types[f].ret] = T!ReturnType(Values[f])
  BY ValueShape DEF Functions
<1>5. ASSUME Live, NEW p \in Addresses
      PROVE  type_is_arithmetic(p) <=> T!type_is_arithmetic(Values[p])
  <2>1. type_is_arithmetic(p) <=> p \in {3, 4, 5}
    <3>1. ty["INT"] = 3 /\ ty["FLOAT"] = 4 /\ ty["DOUBLE"] = 5
      BY <1>5, PrimitiveFacts DEF ArenaInv
    <3> QED  BY <3>1 DEF type_is_arithmetic
  <2>2. T!type_is_arithmetic(Values[p]) <=>
          Values[p] \in {ValueName["INT"], ValueName["FLOAT"], ValueName["DOUBLE"]}
    BY NameFacts DEF T!type_is_arithmetic, T!ty_int, T!ty_float, T!ty_double, T!Primitive
  <2>3. CASE p \in Primitives
    <3>1. Values[p] = ValueName[PrimKinds[p]]
      BY <2>3, Denotes
    <3> QED  BY <2>1, <2>2, <2>3, <3>1, PrimitiveFacts, NameFacts
  <2>4. CASE p \notin Primitives
    <3>1. p \in Arrays \/ p \in Functions
      BY <2>4, ObjectLayout DEF Arrays, Functions
    <3>2. Values[p].dims # <<>> \/ Values[p].func # NULL
      BY <3>1, ValueShape, ObjectLayout
    <3>3. p \notin {3, 4, 5}
      BY <2>4, PrimitiveFacts
    <3> QED  BY <2>1, <2>2, <3>2, <3>3, NameFacts
  <2> QED  BY <2>3, <2>4
<1> QED  BY <1>1, <1>2, <1>3, <1>4, <1>5 DEF ValuesAgree

\* type_eq, reading through a pointer and the arithmetic test answer about the
\* objects what Types answers about their values, so Parser may work on values
\* (type.c:92-125).
THEOREM TypesAgree == TypesSpec => []ValuesAgree
BY ArenaInvariant, ArenaValuesAgree, PTL

-----------------------------------------------------------------------------
(* Sizes.                                                                  *)

\* The partial products of d.
Products(f, d) == f[0] = 1 /\ \A i \in 1..Len(d) : f[i] = f[i - 1] * d[i]

LEMMA ElementsFunction ==
  ASSUME NEW d \in Seq(Int)
  PROVE  \E f \in [0..Len(d) -> Int] : Products(f, d) /\ Elements(d) = f[Len(d)]
<1> DEFINE n == Len(d)
           upto[i \in 0..Len(d)] == IF i = 0 THEN 1 ELSE upto[i - 1] * d[i]
           step == [i \in 1..n |-> [x \in Int |-> x * d[i]]]
<1>1. n \in Nat /\ \A i \in 1..n : d[i] \in Int
  BY LenProperties
<1>2. step \in [1..n -> [Int -> Int]] /\ \A i \in 1..n, x \in Int : step[i][x] = x * d[i]
  BY <1>1
<1> HIDE DEF step, upto
<1>3. PICK f \in [0..n -> Int] : f[0] = 1 /\ \A i \in 1..n : f[i] = step[i][f[i - 1]]
  <2>1. 1 \in Int
    OBVIOUS
  <2>2. Iterates(n, Int, 1, step)
    BY <1>1, <1>2, <2>1, Iteration
  <2> QED  BY <2>2 DEF Iterates
<1>4. \A i \in 1..n : i - 1 \in 0..n /\ f[i - 1] \in Int
  OBVIOUS
<1>5. \A i \in 1..n : f[i] = f[i - 1] * d[i]
  BY <1>2, <1>3, <1>4
<1>6. f = [i \in 0..n |-> IF i = 0 THEN 1 ELSE f[i - 1] * d[i]]
  <2>1. \A i \in 0..n : f[i] = IF i = 0 THEN 1 ELSE f[i - 1] * d[i]
    BY <1>3, <1>5
  <2> QED  BY <2>1
<1>7. upto = [i \in 0..Len(d) |-> IF i = 0 THEN 1 ELSE upto[i - 1] * d[i]]
  BY <1>6 DEF upto
<1>8. Elements(d) = upto[Len(d)]
  BY Zenon DEF Elements, upto
<1>9. upto[0] = 1 /\ \A i \in 1..n : upto[i] = upto[i - 1] * d[i]
  BY SMTT(20), <1>1, <1>7
<1>10. \A i \in 0..n : upto[i] = f[i]
  <2> DEFINE A == {i \in 0..n : upto[i] = f[i]}
  <2>1. 0 \in A
    BY <1>1, <1>3, <1>9
  <2>2. \A i \in 1..n : i - 1 \in A => i \in A
    BY <1>5, <1>9
  <2> HIDE DEF A
  <2>3. 0..n \subseteq A
    BY <1>1, <2>1, <2>2, UpToInduction
  <2> QED  BY <2>3 DEF A
<1>11. Elements(d) = f[Len(d)]
  BY <1>1, <1>8, <1>10
<1> QED  BY <1>3, <1>5, <1>11 DEF Products

\* The elements of no dimension at all, and of one more.
LEMMA ElementsFacts ==
  ASSUME NEW d \in Seq(Int), NEW len \in Int
  PROVE  /\ Elements(d) \in Int /\ Elements(<<>>) = 1
         /\ Elements(Append(d, len)) = Elements(d) * len
<1>1. PICK f \in [0..Len(d) -> Int] : Products(f, d) /\ Elements(d) = f[Len(d)]
  BY ElementsFunction
<1>2. Len(d) \in Nat
  BY LenProperties
<1>3. Elements(<<>>) = 1
  <2>1. <<>> \in Seq(Int) /\ Len(<<>>) = 0
    BY EmptySeq
  <2>2. PICK g \in [0..Len(<<>>) -> Int] : Products(g, <<>>) /\ Elements(<<>>) = g[Len(<<>>)]
    BY <2>1, ElementsFunction
  <2> QED  BY <2>1, <2>2 DEF Products
<1> DEFINE e == Append(d, len)
<1>4. /\ e \in Seq(Int) /\ Len(e) = Len(d) + 1 /\ e[Len(d) + 1] = len
      /\ \A i \in 1..Len(d) : e[i] = d[i]
  BY AppendProperties
<1> HIDE DEF e
<1>5. PICK g \in [0..Len(e) -> Int] : Products(g, e) /\ Elements(e) = g[Len(e)]
  BY <1>4, ElementsFunction
<1>6. \A i \in 0..Len(d) : g[i] = f[i]
  <2> DEFINE A == {i \in 0..Len(d) : g[i] = f[i]}
  <2>1. 0 \in A
    BY <1>1, <1>2, <1>5 DEF Products
  <2>2. ASSUME NEW i \in 1..Len(d), i - 1 \in A PROVE i \in A
    <3>1. i \in 1..Len(e) /\ e[i] = d[i] /\ g[i - 1] = f[i - 1]
      BY <1>2, <1>4, <2>2
    <3>2. g[i] = g[i - 1] * e[i] /\ f[i] = f[i - 1] * d[i]
      BY <1>1, <1>5, <3>1 DEF Products
    <3> QED  BY <3>1, <3>2
  <2> HIDE DEF A
  <2>3. 0..Len(d) \subseteq A
    BY <1>2, <2>1, <2>2, UpToInduction
  <2> QED  BY <2>3 DEF A
<1>7. g[Len(d) + 1] = g[Len(d)] * len
  <2>1. Len(d) + 1 \in 1..Len(e) /\ (Len(d) + 1) - 1 = Len(d)
    BY <1>2, <1>4
  <2> QED  BY <1>4, <1>5, <2>1 DEF Products
<1>8. Elements(e) = Elements(d) * len
  BY SMTT(20), <1>1, <1>2, <1>4, <1>5, <1>6, <1>7
<1>9. Elements(d) \in Int
  BY <1>1, <1>2
<1> QED  BY <1>3, <1>8, <1>9 DEF e

\* The primitive at the bottom of p.
Bottom(p, e) ==
  /\ e \in Primitives
  /\ Values[e] = T!Primitive(Values[p].prim)
  /\ types[p].align = types[e].align

LEMMA OneBottom ==
  ASSUME ArenaInv
  PROVE  \A d, e \in Primitives : Values[d] = Values[e] => d = e
BY Denotes, PrimitiveFacts, NameFacts

\* Up to a multiple of 2^IntBits, the size of an array is the product of all its
\* lengths and the size of what is at the bottom, though it was cut at each step.
LEMMA SizesCongruent ==
  ASSUME ArenaInv
  PROVE  \A p \in Kept : \E e \in Primitives :
           /\ Bottom(p, e)
           /\ Congruent(types[e].size * Elements(Values[p].dims), types[p].size,
                        Power(2, IntBits))
           /\ p \in Arrays => types[p].size =
                TwosComplement(IntBits, types[e].size * Elements(Values[p].dims))
<1> DEFINE M == Power(2, IntBits)
           n == Len(types)
           Counted(p) == \E e \in Primitives :
             /\ Bottom(p, e)
             /\ Congruent(types[e].size * Elements(Values[p].dims), types[p].size, M)
             /\ p \in Arrays => types[p].size =
                  TwosComplement(IntBits, types[e].size * Elements(Values[p].dims))
           B == {m \in 0..n : \A p \in 1..m : p \in Kept => Counted(p)}
<1>1. n \in Nat /\ Addresses = 1..n
  BY ValuesSolve
<1>2. IntBits \in Nat \ {0}
  BY TypeObjectsAssumption DEF TypeObjectsAssumption
<1>3. M \in Nat
  <2>1. 0 \in Int
    OBVIOUS
  <2> QED  BY <1>2, <2>1, TwosComplementCongruent
<1> HIDE DEF M
<1>4. 0 \in B
  BY <1>1
<1>5. ASSUME NEW m \in 1..n, m - 1 \in B PROVE m \in B
  <2>1. ASSUME m \in Kept PROVE Counted(m)
    <3>1. CASE m \in Primitives
      <4>1. /\ m \in Addresses /\ types[m] = new_primitive(PrimKinds[m])
            /\ Values[m] = ValueName[PrimKinds[m]]
        BY <3>1, Denotes DEF ArenaInv
      <4>2. Values[m] = T!Primitive(Values[m].prim) /\ Values[m].dims = <<>>
        BY <3>1, <4>1, PrimitiveFacts, NameFacts DEF T!Primitive
      <4>3. types[m].size \in Int
        BY <4>1, ObjectLayout
      <4>4. Elements(<<>>) = 1
        <5>1. <<>> \in Seq(Int) /\ 1 \in Int
          BY EmptySeq
        <5> QED  BY <5>1, ElementsFacts
      <4>5. Congruent(types[m].size * Elements(Values[m].dims), types[m].size, M)
        <5>1. types[m].size = types[m].size * 1 + 0 * M
          BY <1>3, <4>3
        <5>2. 0 \in Int
          OBVIOUS
        <5> QED  BY <4>2, <4>4, <5>1, <5>2 DEF Congruent
      <4>6. m \notin Arrays
        BY <3>1, <4>1, ObjectLayout, PrimitiveFacts DEF Arrays
      <4> QED  BY <3>1, <4>2, <4>5, <4>6 DEF Bottom
    <3>2. CASE m \notin Primitives
      <4>1. m \in Arrays /\ m \in Addresses
        BY <2>1, <3>2, ObjectLayout DEF Kept, Arrays
      <4> DEFINE b == types[m].base
                 len == types[m].len
                 d == Values[b].dims
      <4>2. /\ b \in 1..(m - 1) /\ b \in Kept /\ b \in Addresses /\ len \in Int
            /\ IsArray(m)
        BY <4>1, MadeOfOlder, ObjectLayout DEF Arrays, Kept
      <4>3. /\ Values[m] = [Values[b] EXCEPT !.dims = Append(@, len)]
            /\ Values[b] \in TypeValues
        BY <4>1, <4>2, Denotes, ValueShape
      <4>4. d \in Seq(Int) /\ Values[m].dims = Append(d, len) /\ Values[m].prim = Values[b].prim
        BY <4>3 DEF TypeValues
      <4>5. types[m].size = TwosComplement(IntBits, types[b].size * len)
            /\ types[m].align = types[b].align
        BY <4>2 DEF IsArray
      <4> HIDE DEF b, len, d, Counted
      <4>6. Counted(b)
        BY <1>5, <4>2
      <4>7. PICK e \in Primitives :
              /\ Bottom(b, e)
              /\ Congruent(types[e].size * Elements(d), types[b].size, M)
        BY <4>6 DEF Counted, d
      <4>8. types[e].size \in Int /\ types[b].size \in Int
        BY <4>2, <4>7, ObjectLayout DEF ArenaInv
      <4>9. Elements(d) \in Int /\ Elements(Append(d, len)) = Elements(d) * len
        BY <4>2, <4>4, ElementsFacts
      <4> DEFINE all == types[e].size * Elements(Values[m].dims)
                 cut == types[b].size * len
      <4>10. all \in Int /\ cut \in Int /\ all = (types[e].size * Elements(d)) * len
        BY SMTT(20), <4>2, <4>4, <4>8, <4>9
      <4>11. Congruent(all, cut, M)
        <5>1. types[e].size * Elements(d) \in Int
          BY <4>8, <4>9
        <5> QED  BY <1>3, <4>2, <4>7, <4>8, <4>10, <5>1, CongruentFacts
      <4> HIDE DEF all, cut
      <4>12. TwosComplement(IntBits, cut) = TwosComplement(IntBits, all)
             /\ Congruent(all, TwosComplement(IntBits, all), M)
        BY <1>2, <4>10, <4>11, TwosComplementCongruent DEF M
      <4>13. types[m].size = TwosComplement(IntBits, all)
        BY <4>5, <4>12 DEF cut
      <4>14. Bottom(m, e)
        BY <4>4, <4>5, <4>7 DEF Bottom
      <4> QED  BY <4>7, <4>12, <4>13, <4>14 DEF Counted, all
    <3> QED  BY <3>1, <3>2
  <2>2. \A p \in 1..m : p = m \/ p \in 1..(m - 1)
    OBVIOUS
  <2> HIDE DEF Counted
  <2> QED  BY <1>5, <2>1, <2>2
<1> HIDE DEF B
<1>6. 0..n \subseteq B
  BY <1>1, <1>4, <1>5, UpToInduction
<1>7. \A p \in Kept : Counted(p)
  <2>1. n \in B /\ \A p \in Kept : p \in 1..n
    BY <1>1, <1>6 DEF Kept
  <2> HIDE DEF Counted
  <2> QED  BY <2>1 DEF B
<1> QED  BY <1>7 DEF M

LEMMA ArenaSizesCount == ArenaInv => SizesCount
<1> SUFFICES ASSUME ArenaInv, NEW a \in Arrays
             PROVE  LET v == Values[a]
                        e == CHOOSE p \in Primitives : Values[p] = T!Primitive(v.prim)
                    IN /\ types[a].size =
                            TwosComplement(IntBits, types[e].size * Elements(v.dims))
                       /\ types[a].align = types[e].align
                       /\ types[a].align # 0 => types[a].size % types[a].align = 0
  BY DEF SizesCount
<1>1. a \in Kept /\ a \in Addresses
  BY DEF Arrays, Kept
<1>2. PICK e \in Primitives :
        /\ Bottom(a, e)
        /\ types[a].size = TwosComplement(IntBits, types[e].size * Elements(Values[a].dims))
  BY <1>1, SizesCongruent
<1>3. e = CHOOSE p \in Primitives : Values[p] = T!Primitive(Values[a].prim)
  BY <1>2, OneBottom DEF Bottom
<1>4. types[a].align # 0 => types[a].size % types[a].align = 0
  <2>1. types[e] = new_primitive(PrimKinds[e])
    BY DEF ArenaInv
  <2>2. types[e].align = types[e].size /\ types[e].size \in {0, 1, 4, 8}
    BY <2>1, PrimitiveObjectFacts
  <2>3. Elements(Values[a].dims) \in Int
    <3>1. Values[a].dims \in Seq(Int) /\ 0 \in Int
      BY <1>1, ValueShape DEF TypeValues
    <3> QED  BY <3>1, ElementsFacts
  <2>4. types[a].align = types[e].size
    BY <1>2, <2>2 DEF Bottom
  <2>5. IntBits \in Nat \ {0}
    BY TypeObjectsAssumption DEF TypeObjectsAssumption
  <2>6. CASE types[e].size \in {1, 4, 8}
    <3>1. TwosComplement(IntBits, types[e].size * Elements(Values[a].dims)) % types[e].size = 0
      BY <2>3, <2>5, <2>6, TwosComplementDivides
    <3> QED  BY <1>2, <2>4, <3>1
  <2> QED  BY <2>2, <2>4, <2>6
<1> QED  BY <1>2, <1>3, <1>4 DEF Bottom

\* An overflow in the middle of a chain of dimensions does no more harm than one
\* at its end, whatever the width of an int (type.c:74-75).
THEOREM TypeSizes == TypesSpec => []SizesCount
BY ArenaInvariant, ArenaSizesCount, PTL

LEMMA ArenaSameLayout == ArenaInv => EqualMeansSameLayout
<1> SUFFICES ASSUME ArenaInv, NEW a \in Addresses, NEW b \in Addresses, type_eq(a, b)
             PROVE  types[a].size = types[b].size /\ types[a].align = types[b].align
  BY DEF EqualMeansSameLayout
<1>1. a \in Refs /\ b \in Refs /\ Agree(a, b)
  <2>1. a \in Refs /\ b \in Refs
    BY DEF Refs
  <2> QED  BY <2>1, TypeEqAgrees
<1>2. CASE a \in Functions /\ b \in Functions
  <2>1. IsFunction(a) /\ IsFunction(b)
    BY <1>2, ObjectLayout DEF Functions
  <2> QED  BY <2>1 DEF IsFunction, FunctionObjects
<1>3. CASE ~(a \in Functions /\ b \in Functions)
  <2>1. Values[a] = Values[b]
    BY <1>1, <1>3, AgreeFacts
  <2>2. \A p \in Addresses : p \in Primitives \/ p \in Arrays \/ p \in Functions
    BY ObjectLayout DEF Arrays, Functions
  <2>3. a \notin Functions /\ b \notin Functions
    <3>1. \A p \in Functions : Values[p].func = p /\ p # NULL
      BY ValueShape, ObjectLayout DEF Functions
    <3>2. \A p \in Addresses \ Functions : Values[p].func = NULL
      BY <2>2, ValueShape
    <3> QED  BY <1>3, <2>1, <3>1, <3>2
  <2>4. CASE a \in Primitives /\ b \in Primitives
    BY <2>1, <2>4, OneBottom
  <2>5. CASE a \in Arrays /\ b \in Arrays
    <3>1. a \in Kept /\ b \in Kept
      BY <2>5 DEF Arrays, Kept
    <3>2. PICK d \in Primitives :
            /\ Bottom(a, d)
            /\ types[a].size =
                 TwosComplement(IntBits, types[d].size * Elements(Values[a].dims))
      BY <2>5, <3>1, SizesCongruent
    <3>3. PICK e \in Primitives :
            /\ Bottom(b, e)
            /\ types[b].size =
                 TwosComplement(IntBits, types[e].size * Elements(Values[b].dims))
      BY <2>5, <3>1, SizesCongruent
    <3>4. d = e
      BY <2>1, <3>2, <3>3, OneBottom DEF Bottom
    <3> QED  BY <2>1, <3>2, <3>3, <3>4 DEF Bottom
  <2>6. CASE (a \in Primitives /\ b \in Arrays) \/ (a \in Arrays /\ b \in Primitives)
    BY <2>1, <2>6, ValueShape
  <2> QED  BY <2>2, <2>3, <2>4, <2>5, <2>6
<1> QED  BY <1>2, <1>3

\* What type_eq lets sema assign to one another has one size and one alignment
\* (type.c:92-120, sema.c:156).
THEOREM TypeLayout == TypesSpec => []EqualMeansSameLayout
BY ArenaInvariant, ArenaSameLayout, PTL
=============================================================================
