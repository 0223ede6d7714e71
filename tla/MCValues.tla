------------------------------ MODULE MCValues ------------------------------
\* What passes between scripts and C++: the conversions of Values, the calls of
\* Calls, the classes of Vectors, the objects of Memory and the handles of
\* Handles. They share no state, so that each behaviour is one of one of them.
EXTENDS Values, TLC

\* bounds: those of the parts, where MaxGiven and ScopeNames are MaxArgs of Calls and Names of Handles
CONSTANTS MaxParams, MaxGiven, Instances, MaxRegisters, Coordinates, Containers, Callers, MaxDepth,
          Holders, ScopeNames, MaxScopes, MaxRefs

\* A script tells an instance of a vector from a number, and a coordinate from memory that
\* was not written. There are finitely many wrappers at a time. An object of the plugin is
\* of one class, and "plugin" names the frame of the loop that deletes them, not an object.
ASSUME VectorsAssumption == "number" \notin Instances /\ Coordinates \subseteq Nat
ASSUME HandlesAssumption == IsFiniteSet(Holders)
ASSUME MemoryAssumption == "plugin" \notin Containers \cup Callers /\ Containers \cap Callers = {}

VARIABLES part,
          portal2, func, at, refused, args, object, seen,
          registers, heap, native_call,
          life, block, hook, caller, reached, owned, stack, called, early, broken,
          held, scopes, linked, made, lost, points, deleted, led, uncounted

C == INSTANCE Calls WITH MaxArgs <- MaxGiven
X == INSTANCE Vectors WITH last <- native_call
M == INSTANCE Memory WITH func <- caller
H == INSTANCE Handles WITH reached <- led, Names <- ScopeNames

cvars == <<portal2, func, at, refused, args, object, seen>>
xvars == <<registers, heap, native_call>>
mvars == <<life, block, hook, caller, reached, owned, stack, called, early, broken>>
hvars == <<held, scopes, linked, made, lost, points, deleted, led, uncounted>>

MCDigits == {2, 3}

MCInit ==
  /\ part \in {"values", "calls", "vectors", "memory", "handles"}
  /\ ValuesInit /\ (part # "values" => build = "tf2" /\ native = Typed("int", 0))
  /\ C!Init /\ (part # "calls" => ~portal2 /\ func = [kind |-> "static", va |-> FALSE, params |-> <<>>])
  /\ X!Init /\ M!Init /\ H!Init

MCNext ==
  \/ part = "values" /\ ValuesNext /\ UNCHANGED <<part, cvars, xvars, mvars, hvars>>
  \/ part = "calls" /\ C!Next /\ UNCHANGED <<part, valuevars, xvars, mvars, hvars>>
  \/ part = "vectors" /\ X!Next /\ UNCHANGED <<part, valuevars, cvars, mvars, hvars>>
  \/ part = "memory" /\ M!Next /\ UNCHANGED <<part, valuevars, cvars, xvars, hvars>>
  \/ part = "handles" /\ H!Next /\ UNCHANGED <<part, valuevars, cvars, xvars, mvars>>

MCSpec == MCInit /\ [][MCNext]_<<part, valuevars, cvars, xvars, mvars, hvars>>

Symmetry == Permutations(Holders)

\* An argument that a binding or a native function gets is the one that was
\* passed, converted as its type says, and none is left out: to_value and the
\* counts of Calls (vm.cpp, function_desc.tpp, plugin.hpp).
ArgumentsArrive == ArgumentsConvert /\ C!CalledWithAll /\ C!OptionalIsRefused

\* A metamethod of the vector classes leaves its operands as they were
\* (Vectors).
OperandsUntouched == X!OperandsUntouched

\* Memory that scripts reach through blocks, hooks and containers is used after
\* it was freed only in the ways Memory names.
MemoryIsLive == []M!DeadUsedIfDeletedEarly /\ M!BlocksShownThenFreed

\* The handles of scopes and instances are worth what they say (Handles).
HandlesHold == H!HandlesHold
=============================================================================
