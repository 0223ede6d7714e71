-------------------------------- MODULE Calls --------------------------------
(***************************************************************************)
(* A call of a native function by a script. The number and the types of    *)
(* the arguments are checked three times: by the Squirrel machine, against *)
(* what register_func told it; by static_func_call or member_func_call     *)
(* (vm/squirrel/vm.cpp); and by the binding that function_desc             *)
(* (vscript/function_desc.tpp) makes of the signature of the C++ function. *)
(***************************************************************************)
EXTENDS Integers, Sequences, FiniteSets

CONSTANTS MaxParams,      \* bound: parameters of a function
          MaxArgs         \* bound: arguments a script gives

\* A parameter: of one type, a std::optional, a variant of any type, or a
\* std::variant of two types.
ParamKinds == {"plain", "optional", "any", "either"}

VARIABLES portal2,        \* the build has a slim type for each of the 25 bits and one more
          func,           \* the function: how it is called, its parameters, and if it takes more
          at,             \* the layer that has the call
          refused,        \* the layer that refused it
          args,           \* what the script gave: by the types of the parameter, null or another
          object,         \* the instance the method is called on
          seen            \* what the C++ function was called with

vars == <<portal2, func, at, refused, args, object, seen>>

ArgKinds == {"first", "second", "null", "other"}
ObjectStates == {"alive", "removed", "of another class"}
NotSeen  == [fixed |-> <<>>, va |-> <<>>]

\* initialize_shared: the two parameters that stand for the rest of the
\* arguments are not registered, so a function is its own parameters here. No
\* function takes both optional parameters and more.
Functions == {f \in [kind : {"static", "singleton", "member"}, va : BOOLEAN,
                    params : UNION {[1 .. n -> ParamKinds] : n \in 0 .. MaxParams}] :
                f.va => \A i \in DOMAIN f.params : f.params[i] # "optional"}

-----------------------------------------------------------------------------
(* What each layer counts.                                                 *)

can_be_optional(p) == p = "optional"

AllOptionalFrom(params, i) == \A j \in i .. Len(params) : can_be_optional(params[j])

\* The loop over the last parameters in register_func, static_func_call and
\* member_func_call, which never reaches the first one.
DroppedByMachine(params) == Cardinality({i \in 2 .. Len(params) : AllOptionalFrom(params, i)})

\* num_required_args: every optional parameter at the end, the first one too.
num_required_args(params) == Cardinality({i \in 1 .. Len(params) : ~AllOptionalFrom(params, i)})

\* va_or_last_optional
va_or_last_optional(f) ==
  f.va \/ (f.params # <<>> /\ can_be_optional(f.params[Len(f.params)]))

\* typemask_for_type of the main type and the extra ones, and |o for an optional.
typemask(p) ==
  CASE p = "plain"    -> {"first"}
    [] p = "optional" -> {"first", "null"}
    [] p = "either"   -> {"first", "second"}
    [] p = "any"      -> ArgKinds

\* register_func: the number the machine compares with, `this` included, and
\* whether it is the least or the only one.
nparamscheck(f) == 1 + Len(f.params) - DroppedByMachine(f.params)
AtLeast(f) == f.va \/ DroppedByMachine(f.params) > 0

\* The machine before it calls a native closure.
MachineAdmits(f, as) ==
  /\ IF AtLeast(f) THEN 1 + Len(as) >= nparamscheck(f) ELSE 1 + Len(as) = nparamscheck(f)
  /\ \A i \in 1 .. Len(as) : i <= Len(f.params) => as[i] \in typemask(f.params[i])

\* static_func_call and member_func_call
FuncCallAdmits(f, as) ==
  IF va_or_last_optional(f) THEN Len(as) >= Len(f.params) - DroppedByMachine(f.params)
                            ELSE Len(as) = Len(f.params)

\* binding, binding_member, binding_va and binding_member_va: without the rest
\* of the arguments the number has to be that of the required parameters.
BindingAdmits(f, as) ==
  IF f.va THEN Len(as) >= num_required_args(f.params)
          ELSE Len(as) = num_required_args(f.params)

-----------------------------------------------------------------------------
(* What the function gets.                                                 *)

\* to_value of an argument; null for a std::optional is nullopt.
ToValue(p, a) == IF p = "optional" /\ a = "null" THEN "missing" ELSE a

\* call_impl and call_member_impl: the arguments by their index, and
\* missing_value past the end of them.
Fixed(params, as) ==
  [i \in 1 .. Len(params) |-> IF i <= Len(as) THEN ToValue(params[i], as[i]) ELSE "missing"]

MutantRest(f, as) ==
  IF f.va THEN SubSeq(as, num_required_args(f.params) + 2, Len(as)) ELSE <<>>

\* args_va and num_va
Rest(f, as) == IF f.va THEN SubSeq(as, num_required_args(f.params) + 1, Len(as)) ELSE <<>>

-----------------------------------------------------------------------------
Init ==
  /\ portal2 \in BOOLEAN
  /\ func \in Functions
  /\ at = "described" /\ refused = "no" /\ object = "alive"
  /\ args = <<>> /\ seen = NotSeen

Refuse(layer) == at' = "done" /\ refused' = layer

\* register_func. The loop over the extra types runs one past the last, which in
\* Portal 2 is a shift by 32: the test is that of the first bit, and the array
\* of a parameter that is an array or a string is odd.
register_func ==
  /\ at = "described"
  /\ \/ at' = "registered" /\ UNCHANGED refused
     \/ portal2 /\ (\E i \in DOMAIN func.params : func.params[i] = "either") /\ Refuse("register_func")
  /\ UNCHANGED <<portal2, func, args, object, seen>>

\* The script calls the function with these arguments, on an instance if it is a method.
Call(as, obj) ==
  /\ at = "registered"
  /\ func.kind # "member" => obj = "alive"
  /\ args' = as /\ object' = obj
  /\ IF MachineAdmits(func, as) THEN at' = "func_call" /\ UNCHANGED refused
                                ELSE Refuse("machine")
  /\ UNCHANGED <<portal2, func, seen>>

\* static_func_call and member_func_call, which looks for the class of the
\* method in the instance before it counts.
func_call ==
  /\ at = "func_call"
  /\ IF object # "of another class" /\ FuncCallAdmits(func, args)
     THEN at' = "binding" /\ UNCHANGED refused
     ELSE Refuse("func_call")
  /\ UNCHANGED <<portal2, func, args, object, seen>>

\* The binding; the one of a singleton finds its object by itself.
binding ==
  /\ at = "binding"
  /\ IF object # "removed" /\ BindingAdmits(func, args)
     THEN /\ at' = "done" /\ UNCHANGED refused
          /\ seen' = [fixed |-> Fixed(func.params, args), va |-> Rest(func, args)]
     ELSE Refuse("binding") /\ UNCHANGED seen
  /\ UNCHANGED <<portal2, func, args, object>>

Next ==
  \/ register_func \/ func_call \/ binding
  \/ \E n \in 0 .. MaxArgs, obj \in ObjectStates : \E as \in [1 .. n -> ArgKinds] : Call(as, obj)

Spec == Init /\ [][Next]_vars

-----------------------------------------------------------------------------
(* Properties.                                                             *)

Called == at = "done" /\ refused = "no"

\* A function is called with every argument that the script gave, each once, in
\* its place, and of a type that its parameter takes; only an optional
\* parameter is without a value (the three layers count the parameters apart
\* from each other, and call_impl and call_va_impl index what the last one let
\* through).
CalledWithAll ==
  Called =>
    LET fixed == seen.fixed   params == func.params
    IN  /\ Len(fixed) = Len(params)
        /\ \A i \in DOMAIN params :
             IF i <= Len(args) THEN fixed[i] = ToValue(params[i], args[i]) /\ args[i] \in typemask(params[i])
                               ELSE fixed[i] = "missing" /\ can_be_optional(params[i])
        /\ seen.va = SubSeq(args, Len(params) + 1, Len(args))

\* A call that the machine admits is refused by the layers under it only for
\* the object, or because an optional argument was given: the binding wants the
\* required ones and no more, so that no function ever sees one (toggle of a
\* plugin, whose only parameter is optional, is never called at all, for there
\* the machine asks for the argument that the binding refuses).
OptionalIsRefused ==
  LET given == ~func.va /\ Len(args) > num_required_args(func.params)
  IN  /\ refused = "func_call" => object = "of another class"
      /\ refused = "binding" => object = "removed" \/ given
      /\ Called => ~given /\ object = "alive"
      /\ Called => (func.params = <<"optional">> => func.va)
=============================================================================
