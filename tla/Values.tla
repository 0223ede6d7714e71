------------------------------- MODULE Values -------------------------------
(***************************************************************************)
(* The way of a value between the native functions and a script: a native  *)
(* function returns it (to_variant, push), the script passes it to another *)
(* (typemask_for_type, get, to_value), or writes it to memory and reads it *)
(* from there (mem.write, mem.read). The conversions are those of          *)
(* Variants.                                                               *)
(***************************************************************************)
EXTENDS Variants

VARIABLES build,    \* the game and the width of the process the plugin is built for
          step,     \* where the value is
          native,   \* the C++ type and the value a native function returned
          var,      \* the union: m_type and its bytes
          sq,       \* what the script holds: the kind of object and its value
          arg,      \* the C++ type and the value a native function was given
          mem       \* the type of ffi that was written to memory, and its bytes

valuevars == <<build, step, native, var, sq, arg, mem>>

Typed(t, v) == [type |-> t, value |-> v]
NoArg == Typed("none", 0)
NoMem == [type |-> "none", bytes |-> 0]

\* The values tried of a type, which hold what passing one on can bring: the ends of its range, the ones around zero and
\* the middle of an unsigned range; fractions; text that is a number and text
\* that is not; null; and pointers to members of a base class.
SampleValues(b, t) ==
  CASE t = "bool"         -> {0, 1}
    [] t \in Integrals    -> {Wrap(b, t, n) : n \in {0, 1, -1, 2^(Bits(b, t) - 1), 2^(Bits(b, t) - 1) - 1}}
                             \cup {d \in Digits : t = "char"}
    [] t \in Floats       -> {-3, 0, 1, 2}
    [] t = "string"       -> {0, 1, LongText} \cup Digits
    [] t = "pointer"      -> {0, 1, 2^(Bits(b, "ulong") - 1)}
    [] t = "mfp"          -> {0, Mfp(b, 1, 0), Mfp(b, 1, 1)}
    [] t = "object_ref"   -> {0} \cup {IdentityOf(k) : k \in ObjectKinds}
    [] t = "instance_ref" -> {0} \cup {IdentityOf(k) : k \in {"instance", "entity"}}
    [] t = "function_ref" -> {0, IdentityOf("function")}
    [] t = "table_ref"    -> {0, IdentityOf("table")}
    [] t = "array_ref"    -> {0, IdentityOf("array")}
    [] t \in {"entity", "vector", "qangle"} -> {0, IdentityOf(t)}

ValuesInit ==
  /\ build \in Builds
  /\ step = "native"
  /\ native \in UNION {{Typed(t, v) : v \in SampleValues(build, t)} : t \in CTypes}
  /\ var = Void /\ sq = Null /\ arg = NoArg /\ mem = NoMem

\* binding: to_variant<R> of what the native function returned.
Return ==
  /\ step = "native"
  /\ var' = to_variant(build, native.type, native.value)
  /\ step' = "returned"
  /\ UNCHANGED <<build, native, sq, arg, mem>>

\* func_call_impl: the return value on the stack of the script.
Push ==
  /\ step \in {"returned", "loaded"}
  /\ sq' = push(build, var)
  /\ step' = IF step = "returned" THEN "script" ELSE "seen"
  /\ UNCHANGED <<build, native, var, arg, mem>>

\* The script passes the value on to a function of one parameter, or, when
\* the parameter takes anything, the native asks for the type it wants
\* (variant::get<T>). What the mask refuses never reaches the function.
Pass(t, anything) ==
  /\ step = "script"
  /\ anything \/ sq.kind \in typemask_for_type(FieldOf(build, t))
  /\ var' = get(build, sq)
  /\ arg' \in {Typed(t, v) : v \in to_value(build, t, get(build, sq))}
  /\ step' = "passed"
  /\ UNCHANGED <<build, native, sq, mem>>

\* mem.write(ptr, type, value)
script_write(f) ==
  /\ step = "script"
  /\ var' = get(build, sq)
  /\ \E v \in to_value(build, CTypeOf(f), get(build, sq)) :
       /\ arg' = Typed(CTypeOf(f), v)
       /\ mem' = [type |-> f, bytes |-> script_var_to_ptr(build, f, v)]
  /\ step' = "stored"
  /\ UNCHANGED <<build, native, sq>>

\* mem.read(ptr, type) of what was written there. The instance of an entity is
\* asked for through the pointer, whatever it is: without one the game ends.
script_read ==
  /\ step = "stored"
  /\ IF mem.type = "ent_ptr" /\ mem.bytes # IdentityOf("entity")
     THEN step' = "crashed" /\ var' = var
     ELSE step' = "loaded" /\ var' = ptr_to_script_var(build, mem.type, mem.bytes)
  /\ UNCHANGED <<build, native, sq, arg, mem>>

ValuesNext ==
  \/ Return \/ Push \/ script_read
  \/ \E t \in CTypes, anything \in BOOLEAN : Pass(t, anything)
  \/ \E f \in FfiTypes : script_write(f)

ValuesSpec == ValuesInit /\ [][ValuesNext]_valuevars

-----------------------------------------------------------------------------
(* Properties.                                                             *)

\* The number a script sees for a number of C++: a negative signed char is
\* stored in one byte and read as a short; an unsigned short in the upper
\* half is read as negative; an unsigned integer or a long long outside
\* SQInteger wraps; and in the 64 bit build a negative int is read with the
\* cleared upper half of the union.
SeenAs(b, t, v) ==
  CASE t = "schar" /\ v < 0                  -> v + 2^CharBits
    [] t = "ushort"                          -> Wrap(b, "short", v)
    [] t = "int" /\ b = "tf2_x64" /\ v < 0   -> v + 2^IntBits
    [] OTHER                                 -> Wrap(b, "long", v)

\* A script sees the value that the native function returned, with exactly
\* the exceptions above; a character is a string, a float of either width is
\* a float, an object is itself, and null is seen for the values that have none
\* and for a member function that Portal 2 has no room for (variant.tpp's
\* stores against vm.cpp's push, which are in different files and agree on the
\* member of the union for most types only).
ScriptSeesTheValue ==
  step = "script" =>
    LET t == native.type   v == native.value
    IN  CASE t \in Integrals \ {"char"} -> sq = Obj("integer", SeenAs(build, t, v))
          [] t = "char"      -> sq = Obj("string", v % 2^CharBits)
          [] t \in Floats    -> sq = Obj("float", v)
          [] t = "bool"      -> sq = Obj("bool", v)
          [] t = "string"    -> sq = Obj("string", v)
          [] t = "pointer"   -> sq = IF v = 0 THEN Null ELSE Obj("userpointer", v)
          [] t = "mfp"       -> sq = IF v = 0 \/ (build = "portal2" /\ AdjustorOf(build, v) # 0)
                                     THEN Null ELSE Obj("userpointer", AddrOf(build, v))
          [] OTHER           -> sq = IF v = 0 THEN Null ELSE Obj(Objects[v], v)

\* A value that a script takes from one native function and passes to another
\* of the same type is admitted unless it is null, and arrives unchanged, with
\* these exceptions: a char, of which a string arrives; a number wider than
\* int, of which to_int_impl keeps the low part; and a pointer to a member,
\* which loses the adjustment to its base class.
RoundTrip ==
  LET t == native.type   v == native.value
  IN  /\ step = "script" =>
           sq.kind \in {"null"} \cup typemask_for_type(FieldOf(build, t))
      /\ (step = "passed" /\ arg.type = t /\ arg.value # v) =>
           \/ t = "char"
           \/ t \in {"long", "longlong", "ulong", "ulonglong"} /\ ~InRange(build, "int", v)
           \/ t = "mfp" /\ AdjustorOf(build, v) # 0

\* What the mask of a parameter admits arrives as a conversion of what the
\* script held: of a number the low part is lost at most, and a bool is true of
\* the numbers above zero only; an object arrives as itself, except that a
\* Vector or a QAngle is no handle, and an instance that is no entity or not of
\* the class asked for is null, which the mask (one letter for every
\* instance) does not tell the script.
ArgumentsConvert ==
  step = "passed" =>
    CASE sq.kind = "integer" /\ arg.type = "bool" -> arg.value = IF Wrap(build, "int", sq.n) > 0 THEN 1 ELSE 0
      [] sq.kind = "integer" /\ arg.type \in Integrals ->
           /\ InRange(build, arg.type, arg.value)
           /\ \/ arg.value = Wrap(build, arg.type, sq.n)
              \/ ~InRange(build, "int", sq.n) /\ Bits(build, arg.type) > IntBits
      [] arg.type \in Handles /\ sq.kind \in ObjectKinds -> arg.value = sq.n
      [] arg.type \in Handles /\ sq.kind \notin ObjectKinds -> arg.value = 0
      [] arg.type \in {"entity", "vector", "qangle"} /\ sq.kind \in InstanceKinds ->
           arg.value = IF sq.kind = arg.type THEN sq.n ELSE 0
      [] OTHER -> TRUE

\* What is written to memory as a type and read back as that type is seen by the
\* script as if a native function had returned it, with these exceptions: a byte
\* is seen as a character, and in Portal 2 a value of eight bytes is cut to
\* what its union holds. Reading a pointer to an entity that is not one, null
\* for example, is the end of the game.
ReadBackFromMemory ==
  /\ step = "seen" =>
       LET t == arg.type   v == arg.value
       IN  CASE mem.type \in {"uint8", "sint8"}  -> sq = Obj("string", v % 2^CharBits)
             [] Overruns(build, mem.type)        -> sq.kind \in {"integer", "float"}
             [] t \in Integrals /\ ~Overruns(build, mem.type) /\ mem.type \notin {"uint8", "sint8"} ->
                  sq = Obj("integer", SeenAs(build, t, v))
             [] t = "entity"                     -> sq = Obj("entity", v)
             [] t = "pointer"                    -> sq = Obj("userpointer", v)
             [] OTHER                            -> TRUE
  /\ step = "crashed" => arg.type = "entity" /\ arg.value # IdentityOf("entity")

\* A value comes to a script, back from it, and back from memory as what it was,
\* with the exceptions named above.
ValuesComeThrough == ScriptSeesTheValue /\ RoundTrip /\ ReadBackFromMemory
=============================================================================
