-------------------------------- MODULE Types --------------------------------
(***************************************************************************)
(* The types of src/src/type.c.                                            *)
(*                                                                         *)
(* The parser only ever builds arrays over a primitive and functions that  *)
(* return one (token_to_type is the only source of a base type), so a type *)
(* is a primitive, the lengths of the dimensions wrapped around it in the  *)
(* order type_array_of wrapped them (the outermost last), and the name of  *)
(* the function when it is a function type.  Function types are pointers   *)
(* in the code and their parameter vectors grow while the parameter list   *)
(* is parsed: the vectors are kept by name in a separate map, params.      *)
(***************************************************************************)
EXTENDS Integers, Sequences, SequencesExt

CONSTANT NoName   \* "not a function type"; no identifier has this name

Primitives == {"void", "bool", "int", "float", "double"}

Primitive(k) == [prim |-> k, dims |-> <<>>, func |-> NoName]

\* The null pointer, where the code expects a struct Type *.
NullType == Primitive("null")

ty_void   == Primitive("void")
ty_bool   == Primitive("bool")
ty_int    == Primitive("int")
ty_float  == Primitive("float")
ty_double == Primitive("double")

\* ty->kind, for a type that is not NULL.
TypeKind(ty) == IF ty.func # NoName THEN "FUNC"
                ELSE IF ty.dims # <<>> THEN "ARRAY" ELSE ty.prim

\* type_array_of: the caller has established base # NullType (base->size is read).
type_array_of(base, len) == [base EXCEPT !.dims = Append(@, len)]

\* ty->data.array.base
ElementType(ty) == [ty EXCEPT !.dims = Front(@)]

type_func_new(ret, name) == [ret EXCEPT !.func = name]

\* ty->data.func.ret
ReturnType(ty) == [ty EXCEPT !.func = NoName]

\* Structural on arrays and functions, by pointer on primitives; two NULLs
\* are equal and NULL differs from every type.
type_eq(a, b, params) ==
  \/ a = b
  \/ /\ a.func # NoName /\ b.func # NoName
     /\ ReturnType(a) = ReturnType(b)
     /\ params[a.func] = params[b.func]

type_is_arithmetic(ty) == ty \in {ty_int, ty_float, ty_double}
=============================================================================
