------------------------------ MODULE Variants ------------------------------
(***************************************************************************)
(* The tagged union that carries a value between C++ and a script, and     *)
(* the functions that fill and read it: vscript/variant.tpp and .cpp       *)
(* (to_variant, to_value), squirrel::push, squirrel::get and               *)
(* typemask_for_type of vm/squirrel/vm.cpp, and the reads and writes of    *)
(* raw memory of ffi.cpp.                                                  *)
(*                                                                         *)
(* The union is a number: its bytes, little endian, read through a member  *)
(* of some width. Widths are scaled down because TLC has no 64 bit         *)
(* integers; the code depends only on their order, and on an object of     *)
(* long long holding two pointers. Every C++ value is a number here: a     *)
(* bool is 0 or 1, a float counts halves, a string is the code of its one  *)
(* character, a pointer is its address, a script object its identity.      *)
(***************************************************************************)
EXTENDS Integers, Sequences, FiniteSets

CONSTANTS CharBits, ShortBits, IntBits,             \* widths of the C types
          Digits                                    \* codes of '0', '1', ... in a char

ASSUME WidthsAssumption ==
  /\ {CharBits, ShortBits, IntBits} \subseteq Nat \ {0, 1}
  /\ CharBits < ShortBits /\ ShortBits < IntBits
  /\ Digits \subseteq 1 .. 2^(CharBits - 1) - 1

LongBits == 2 * IntBits

\* The provers know no powers of two: each is twice the one before, and the wider of
\* two types has a multiple of the values of the narrower.
ASSUME PowersAssumption ==
  \A n \in {CharBits, ShortBits, IntBits, LongBits} :
    /\ 2^(n - 1) \in Nat \ {0, 1} /\ 2^n = 2 * 2^(n - 1)
    /\ \A m \in {CharBits, ShortBits, IntBits, LongBits} :
         m < n => 2^(n - m) \in Nat \ {0, 1} /\ 2^n = 2^(n - m) * 2^m

\* The builds. Only TF2 is built for x86_64, where long, pointers and
\* SQInteger have 64 bits.
Builds == {"tf2", "tf2_x64", "l4d2", "portal2"}

Signeds   == {"schar", "char", "short", "int", "long", "longlong"}
Unsigneds == {"uchar", "ushort", "uint", "ulong", "ulonglong"}
Integrals == Signeds \cup Unsigneds
Floats    == {"float", "double"}
Pointers  == {"pointer", "mfp"}
Handles   == {"function_ref", "table_ref", "array_ref", "instance_ref", "object_ref"}
CTypes    == Integrals \cup Floats \cup Pointers \cup Handles
             \cup {"bool", "string", "entity", "vector", "qangle"}

\* The objects of a script, by identity, 0 being INVALID_HSCRIPT; a Vector
\* and a QAngle are instances of a class that the machine knows by itself.
Objects == <<"function", "table", "array", "instance", "entity", "vector", "qangle">>
ObjectKinds   == {"function", "table", "array", "instance", "entity"}
InstanceKinds == {"instance", "entity", "vector", "qangle"}
IdentityOf(kind) == CHOOSE k \in 1 .. Len(Objects) : Objects[k] = kind

-----------------------------------------------------------------------------
(* The members of the union.                                               *)

\* Width of a member of the union, which is also that of the C type.
Bits(b, t) ==
  CASE t \in {"char", "schar", "uchar"}   -> CharBits
    [] t \in {"short", "ushort"}          -> ShortBits
    [] t \in {"int", "uint"}              -> IntBits
    [] t \in {"long", "ulong"}            -> IF b = "tf2_x64" THEN LongBits ELSE IntBits
    [] t \in {"longlong", "ulonglong"}    -> LongBits

\* static_cast to an integral type.
Wrap(b, t, n) ==
  LET low == n % 2^Bits(b, t)
  IN  IF t \in Signeds /\ low >= 2^(Bits(b, t) - 1) THEN low - 2^Bits(b, t) ELSE low

InRange(b, t, n) == Wrap(b, t, n) = n

\* The union has no 64 bit member in Portal 2: long long goes through long.
Has64BitMember(b) == b # "portal2"

Member(b, t) == IF ~Has64BitMember(b) /\ t \in {"longlong", "ulonglong"}
                THEN IF t = "longlong" THEN "long" ELSE "ulong"
                ELSE t

\* The union after memset and a store to one member; and a member read back.
StoreMember(b, t, n) == n % 2^Bits(b, Member(b, t))
ReadMember(b, t, data) == Wrap(b, Member(b, t), data)

\* m_ptr, and the address of a member function pointer beside its adjustor.
ReadPtr(b, data) == ReadMember(b, "ulong", data)
Mfp(b, addr, adjustor) == addr + adjustor * 2^Bits(b, "ulong")
AddrOf(b, mfp) == mfp % 2^Bits(b, "ulong")
AdjustorOf(b, mfp) == mfp \div 2^Bits(b, "ulong")

\* Text: "" is 0, one character is its code, anything longer is LongText.
LongText == 2^CharBits
DigitValue(c) == Cardinality({d \in Digits : d < c})
TextOf(n) == IF \E d \in Digits : DigitValue(d) = n
             THEN CHOOSE d \in Digits : DigitValue(d) = n
             ELSE LongText

\* static_cast of a float to an integer.
Trunc(halves) == IF halves >= 0 THEN halves \div 2 ELSE -((-halves) \div 2)

Variant(type, data) == [type |-> type, data |-> data]
Void == Variant("VOID", 0)
ObjectFields == {"FUNCTION", "EMBEDDED", "CUSTOM", "HSCRIPT_NEW_INSTANCE", "HSCRIPT"}

-----------------------------------------------------------------------------
(* variant.tpp: the tag and the bytes a C++ value is stored as.            *)

\* type_to_field_impl of the arithmetic types.
NumberField(b, t) ==
  CASE t = "bool"                         -> "BOOLEAN"
    [] t \in {"uchar", "schar", "short", "ushort"} -> "SHORT"
    [] t = "char"                         -> "CHARACTER"
    [] t = "int"                          -> "INTEGER"
    [] t = "uint"                         -> "UINT32"
    [] t = "ulong"                        -> IF b = "tf2_x64" THEN "UINT64" ELSE "UINT32"
    [] t = "long"                         -> "INTEGER"
    [] t = "ulonglong"                    -> "UINT64"
    [] t = "longlong" -> IF b \in {"l4d2", "portal2"} THEN "INTEGER64" ELSE "INTEGER"
    [] t = "float"                        -> "FLOAT"
    [] t = "double"                       -> "FLOAT64"

\* type_to_field_impl of handles: one field for each kind of object.
HandleField(t) ==
  CASE t = "function_ref" -> "FUNCTION"
    [] t = "table_ref"    -> "EMBEDDED"
    [] t = "array_ref"    -> "CUSTOM"
    [] t = "instance_ref" -> "HSCRIPT_NEW_INSTANCE"
    [] t = "object_ref"   -> "HSCRIPT"

\* type_to_field
FieldOf(b, t) ==
  CASE t \in Integrals \cup Floats \cup {"bool"} -> NumberField(b, t)
    [] t = "string"      -> "CSTRING"
    [] t \in Pointers    -> "CLASSPTR"
    [] t \in Handles     -> HandleField(t)
    [] t = "entity"      -> "HSCRIPT_NEW_INSTANCE"
    [] t = "vector"      -> "VECTOR"
    [] t = "qangle"      -> "QANGLE"

\* initialize_data_impl of the arithmetic types: m_type is set, the union is
\* cleared and one member is written.
NumberVariant(b, t, v) ==
  Variant(NumberField(b, t), IF t \in Integrals THEN StoreMember(b, t, v) ELSE v)

\* initialize_data_impl of pointers: a null pointer has no type.
PointerVariant(b, v) == IF v = 0 THEN Void ELSE Variant("CLASSPTR", v)

\* initialize_data_impl of pointers to members, which are twice as wide: the
\* union keeps its 64 bits, or in Portal 2 only one that needs no adjustment.
MfpVariant(b, v) ==
  CASE AddrOf(b, v) = 0 -> Void
    [] AddrOf(b, v) # 0 /\ Has64BitMember(b) -> Variant("CLASSPTR", StoreMember(b, "ulonglong", v))
    [] AddrOf(b, v) # 0 /\ ~Has64BitMember(b) ->
         IF AdjustorOf(b, v) = 0 THEN Variant("CLASSPTR", AddrOf(b, v)) ELSE Void

\* initialize_data_impl of entities and of pointers to vectors, where null has no type.
ObjectVariant(field, v) == IF v = 0 THEN Void ELSE Variant(field, v)

\* to_variant
to_variant(b, t, v) ==
  CASE t \in Integrals \cup Floats \cup {"bool"} -> NumberVariant(b, t, v)
    [] t = "pointer" -> PointerVariant(b, v)
    [] t = "mfp"     -> MfpVariant(b, v)
    [] t \in {"entity", "vector", "qangle"} -> ObjectVariant(FieldOf(b, t), v)
    [] t \in Handles \cup {"string"} -> Variant(FieldOf(b, t), v)

-----------------------------------------------------------------------------
(* vm.cpp: the union given to the script and taken from it.                *)

Obj(kind, n) == [kind |-> kind, n |-> n]
Null == Obj("null", 0)

\* SQInteger has the width of long in every build.
Integer(b, n) == Obj("integer", Wrap(b, "long", n))

\* squirrel::push
push(b, x) ==
  CASE x.type = "VOID"      -> Null
    [] x.type \in {"FLOAT", "FLOAT64"} -> Obj("float", x.data)
    [] x.type = "CSTRING"   -> Obj("string", x.data)
    [] x.type = "CHARACTER" -> Obj("string", ReadMember(b, "char", x.data) % 2^CharBits)
    [] x.type = "BOOLEAN"   -> Obj("bool", x.data)
    [] x.type = "SHORT"     -> Integer(b, ReadMember(b, "short", x.data))
    [] x.type = "INTEGER"   ->
         Integer(b, ReadMember(b, IF Has64BitMember(b) THEN "longlong" ELSE "int", x.data))
    [] x.type = "UINT32"    -> Integer(b, ReadMember(b, "uint", x.data))
    [] x.type = "INTEGER64" -> Integer(b, ReadMember(b, IF b = "l4d2" THEN "longlong" ELSE "long", x.data))
    [] x.type = "UINT64"    -> Integer(b, ReadMember(b, "ulonglong", x.data))
    [] x.type = "CLASSPTR"  -> Obj("userpointer", ReadPtr(b, x.data))
    [] x.type \in {"VECTOR", "QANGLE"} \cup ObjectFields ->
         IF x.data = 0 THEN Null ELSE Obj(Objects[x.data], x.data)

\* squirrel::get: an integer is always FIELD_INTEGER, whatever pushed it, and a
\* string FIELD_CSTRING; an object is named by its kind.
get(b, s) ==
  CASE s.kind = "null"        -> Void
    [] s.kind = "integer"     ->
         Variant("INTEGER", StoreMember(b, IF Has64BitMember(b) THEN "longlong" ELSE "int", s.n))
    [] s.kind = "float"       -> Variant("FLOAT", s.n)
    [] s.kind = "bool"        -> Variant("BOOLEAN", s.n)
    [] s.kind = "string"      -> Variant("CSTRING", s.n)
    [] s.kind = "userpointer" -> Variant("CLASSPTR", s.n)
    [] s.kind = "vector"      -> Variant("VECTOR", s.n)
    [] s.kind = "qangle"      -> Variant("QANGLE", s.n)
    [] s.kind \in {"instance", "entity"} -> Variant("HSCRIPT_NEW_INSTANCE", s.n)
    [] s.kind = "function"    -> Variant("FUNCTION", s.n)
    [] s.kind = "array"       -> Variant("CUSTOM", s.n)
    [] s.kind = "table"       -> Variant("EMBEDDED", s.n)

\* typemask_for_type: the kinds of object a parameter of this field admits. A
\* parameter of type FIELD_VARIANT admits everything.
typemask_for_type(field) ==
  CASE field = "VOID"       -> {"null"}
    [] field = "BOOLEAN"    -> {"bool"}
    [] field \in {"CSTRING", "CHARACTER"} -> {"string"}
    [] field \in {"SHORT", "INTEGER", "INTEGER64", "UINT32", "UINT64"} -> {"integer"}
    [] field \in {"FLOAT", "FLOAT64"} -> {"float"}
    [] field = "CLASSPTR"   -> {"userpointer"}
    [] field = "FUNCTION"   -> {"function"}
    [] field = "EMBEDDED"   -> {"table"}
    [] field = "CUSTOM"     -> {"array"}
    [] field \in {"HSCRIPT_NEW_INSTANCE", "VECTOR", "QANGLE"} -> InstanceKinds
    [] field = "HSCRIPT"    -> {"table", "array", "function"} \cup InstanceKinds

-----------------------------------------------------------------------------
(* variant.tpp and variant.cpp: the union, as get leaves it, read as a C++ *)
(* type. The result is a set: from_chars leaves its variable unset when    *)
(* the text does not begin with a number.                                  *)

Anything(b, t) == {Wrap(b, t, n) : n \in {0, 1, 2^(CharBits - 1)}}

MutantIntegerMember == "short"

\* to_int_impl reads FIELD_INTEGER through m_int for every integral type.
IntegerMember == "int"

\* to_int_impl
to_int_impl(b, t, x) ==
  CASE x.type = "INTEGER" -> {Wrap(b, t, ReadMember(b, IntegerMember, x.data))}
    [] x.type = "FLOAT"   -> {Wrap(b, t, Trunc(x.data))}
    [] x.type = "BOOLEAN" -> {x.data}
    [] x.type = "CSTRING" -> IF x.data \in Digits THEN {DigitValue(x.data)} ELSE Anything(b, t)
    [] OTHER              -> {0}

\* to_float_impl, in halves
to_float_impl(b, x) ==
  CASE x.type = "FLOAT"   -> {x.data}
    [] x.type = "INTEGER" -> {2 * ReadMember(b, "int", x.data)}
    [] x.type = "BOOLEAN" -> {2 * x.data}
    [] x.type = "CSTRING" -> IF x.data \in Digits THEN {2 * DigitValue(x.data)} ELSE {0, 1}
    [] OTHER              -> {0}

\* to_value_impl<bool>: a number is true when it is above zero, an object when valid.
to_bool(b, x) ==
  CASE x.type = "INTEGER" -> {IF ReadMember(b, "int", x.data) > 0 THEN 1 ELSE 0}
    [] x.type = "FLOAT"   -> {IF x.data > 0 THEN 1 ELSE 0}
    [] x.type = "BOOLEAN" -> {x.data}
    [] x.type = "CSTRING" -> IF x.data \in Digits
                             THEN {IF DigitValue(x.data) > 0 THEN 1 ELSE 0} ELSE {0, 1}
    [] x.type \in ObjectFields -> {IF x.data # 0 THEN 1 ELSE 0}
    [] OTHER              -> {0}

\* to_string_impl
to_string_impl(b, x) ==
  CASE x.type = "CSTRING" -> {x.data}
    [] x.type = "INTEGER" -> {TextOf(ReadMember(b, "int", x.data))}
    [] x.type = "FLOAT"   -> {IF x.data % 2 = 0 THEN TextOf(x.data \div 2) ELSE LongText}
    [] x.type \in ObjectFields \cup {"BOOLEAN"} -> {LongText}
    [] OTHER              -> {0}

\* to_value_impl<void *>, and of the pointers to functions, which also take a function.
to_pointer(b, t, x) ==
  IF x.type \in {"INTEGER", "CLASSPTR"} \cup (IF t = "mfp" THEN {"FUNCTION"} ELSE {})
  THEN {ReadPtr(b, x.data)} ELSE {0}

\* handle_ref: any object but a Vector or a QAngle.
to_handle(x) == IF x.type \in ObjectFields THEN {x.data} ELSE {0}

\* to_value_impl<CBaseEntity *>: from_instance finds nothing in other instances,
\* and a number or a pointer is taken for the address of an entity.
WildEntity == -1
to_entity(x) ==
  CASE x.type \in {"INTEGER", "CLASSPTR"} -> {IF x.data = 0 THEN 0 ELSE WildEntity}
    [] x.type \in {"HSCRIPT_NEW_INSTANCE", "HSCRIPT"} ->
         {IF x.data = IdentityOf("entity") THEN x.data ELSE 0}
    [] OTHER -> {0}

\* to_value_impl<Vector *> and <QAngle *>
to_vector(b, t, x) == IF x.type = FieldOf(b, t) THEN {x.data} ELSE {0}

\* to_value
to_value(b, t, x) ==
  CASE t = "bool"       -> to_bool(b, x)
    [] t \in Integrals  -> to_int_impl(b, t, x)
    [] t \in Floats     -> to_float_impl(b, x)
    [] t = "string"     -> to_string_impl(b, x)
    [] t \in Pointers   -> to_pointer(b, t, x)
    [] t \in Handles    -> to_handle(x)
    [] t = "entity"     -> to_entity(x)
    [] t \in {"vector", "qangle"} -> to_vector(b, t, x)

-----------------------------------------------------------------------------
(* ffi.cpp: raw memory written from a variant and read into one.           *)

\* The types of ffi that have a value of their own, and the C type each has.
FfiTypes == {"float", "double", "uint8", "sint8", "uint16", "sint16", "uint32", "sint32",
             "uint64", "sint64", "pointer", "ent_ptr", "vector"}

CTypeOf(f) ==
  CASE f = "uint8"   -> "uchar"     [] f = "sint8"   -> "schar"
    [] f = "uint16"  -> "ushort"    [] f = "sint16"  -> "short"
    [] f = "uint32"  -> "uint"      [] f = "sint32"  -> "int"
    [] f = "uint64"  -> "ulonglong" [] f = "sint64"  -> "longlong"
    [] f = "ent_ptr" -> "entity"
    [] f \in {"float", "double", "pointer", "vector"} -> f

\* script_var_to_ptr: the bytes written for the converted value of each type;
\* vectors are not told apart, and what is not one writes the zero vector.
script_var_to_ptr(b, f, v) ==
  CASE CTypeOf(f) \in Integrals -> v % 2^Bits(b, CTypeOf(f))
    [] f = "vector"              -> IdentityOf("vector")
    [] OTHER                     -> v

\* to_field_type
to_field_type(b, f) ==
  CASE f = "float"  -> "FLOAT"
    [] f = "double" -> "FLOAT64"
    [] f \in {"uint8", "sint8"}   -> "CHARACTER"
    [] f \in {"uint16", "sint16"} -> "SHORT"
    [] f = "uint32" -> "UINT32"
    [] f = "sint32" -> "INTEGER"
    [] f = "uint64" -> "UINT64"
    [] f = "sint64" -> IF b \in {"l4d2", "portal2"} THEN "INTEGER64" ELSE "INTEGER"
    [] f = "pointer" -> "CLASSPTR"
    [] f = "ent_ptr" -> "HSCRIPT"
    [] f = "vector"  -> "VECTOR"

\* ptr_to_script_var: memcpy of the type's bytes over the cleared union. The
\* union of Portal 2 holds half of an eight byte type (of a short double, zeros);
\* the other half goes to m_type, which is set after, and to m_flags.
Overruns(b, f) == ~Has64BitMember(b) /\ f \in {"double", "uint64", "sint64"}

ptr_to_script_var(b, f, bytes) ==
  Variant(to_field_type(b, f),
          CASE Overruns(b, f) /\ f = "double" -> 0
            [] Overruns(b, f) /\ f # "double" -> bytes % 2^IntBits
            [] ~Overruns(b, f) -> bytes)
=============================================================================
