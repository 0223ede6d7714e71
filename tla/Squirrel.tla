------------------------------ MODULE Squirrel ------------------------------
(***************************************************************************)
(* The script machine of vmod (src/vm/squirrel/vm.cpp): its set-up and     *)
(* shutdown, and the calls between C++ and the scripts it runs.            *)
(*                                                                         *)
(* C++ works on the stack of the machine: a function of the API pushes     *)
(* what it needs and pops it again, on every way out.  A call into a       *)
(* script leaves the function of the API waiting in the middle; the script *)
(* may call a binding, which is C++ again and may use the whole API, the   *)
(* one exception slot of the machine included.  An activation below is     *)
(* such a piece of C++: the host first, then a binding per level.  The     *)
(* machine keeps a stack window for each, so its height is counted from    *)
(* where the activation began.                                             *)
(*                                                                         *)
(* The heights are sums of what the library of the machine does: a push is *)
(* +1; sq_get replaces the key by the value or, failing, drops the key;    *)
(* sq_newslot drops key and value; sq_call drops the arguments and, asked  *)
(* to, pushes the result, and leaves the function that was called.         *)
(***************************************************************************)
EXTENDS Integers, Sequences, FiniteSets

CONSTANTS MaxCalls,    \* bound: activations, the host included
          MaxArgs,     \* bound: arguments of ExecuteFunction
          MaxRaised,   \* bound: exceptions raised from Init to Shutdown
          Debug        \* the machine documents what it registers (developer > 0)

ASSUME SquirrelAssumption ==
    /\ MaxCalls \in Nat \ {0} /\ MaxArgs \in Nat /\ MaxRaised \in Nat
    /\ Debug \in BOOLEAN

VARIABLES
    phase,       \* "closed", "failed" (Init returned false), "open"
    refs,        \* objects of the machine it holds a reference to
    got,         \* the flags that say so: got_root_table, vector_registered, ...
    calls,       \* the activations of C++, the host first
    exc,         \* last_exception, if got_last_exception: the activation that raised it, or 0
    raised,      \* how many exceptions were raised: the last of them is last_exception
    kept,        \* those, by number, that have a reference
    told,        \* history: those that a binding threw
    registered,  \* registered_classes and registered_funcs
    last,        \* the function of the API that has just returned, if it says more than that
    thrown       \* the exception a binding has just thrown, if one has

exceptions == <<exc, raised, kept, told>>
vars == <<phase, refs, got, calls, exc, raised, kept, told, registered, last, thrown>>

-----------------------------------------------------------------------------
(* Init and Shutdown. *)

InitSteps == <<"root_table", "libs", "functions", "vector_class", "qangle_class",
               "init_script", "create_scope_func", "release_scope_func",
               "register_func_desc">>
Optional == {"register_func_desc"}       \* get_opt_func: only in debug, may be missing
Unreferenced == {"libs", "functions", "init_script"}

\* What the steps before n leave referenced, if the optional ones in o were found.
InitUpTo(n, o) == {InitSteps[i] : i \in 1..n - 1} \ (Unreferenced \cup (Optional \ o))

Host == [height |-> 0, op |-> "none", args |-> <<>>, ret |-> "none", back |-> FALSE]
Nothing == [fn |-> "none", ok |-> TRUE, delta |-> 0, args |-> <<>>, ret |-> "none",
            back |-> FALSE, out |-> <<>>]
NotThrown == [in |-> 0, from |-> 0]

\* The step that fails returns; the machine stays open until Shutdown.
Init_impl ==
    /\ phase = "closed"
    /\ \E n \in 1..Len(InitSteps) + 1, o \in SUBSET (IF Debug THEN Optional ELSE {}) :
          /\ n \notin {i \in 1..Len(InitSteps) : InitSteps[i] \in Optional}
          /\ refs' = InitUpTo(n, o)
          /\ got' = refs'
          /\ phase' = IF n > Len(InitSteps) THEN "open" ELSE "failed"
    /\ calls' = <<Host>>
    /\ raised' = 0 /\ kept' = {} /\ told' = {}
    /\ UNCHANGED <<exc, registered, last, thrown>>

\* got_last_exception: what is left of it is released.
LastReleased == kept \ (IF exc # 0 THEN {raised} ELSE {})

\* Every object is released as its flag says; the registries are cleared.  What has a
\* reference still goes with the machine.
Shutdown ==
    /\ phase \in {"open", "failed"} /\ Len(calls) = 1 /\ calls[1].op = "none"
    /\ refs' = refs \ (got \cup registered)
    /\ kept' = LastReleased
    /\ got' = {} /\ exc' = 0 /\ registered' = {} /\ UNCHANGED <<raised, told>>
    /\ phase' = "closed" /\ calls' = <<Host>> /\ last' = Nothing /\ thrown' = NotThrown

-----------------------------------------------------------------------------
(* Activations. *)

Top == calls[Len(calls)]
InCpp == phase = "open" /\ Top.op = "none"           \* C++ runs
InScript == phase = "open" /\ Top.op # "none"        \* a script runs
SetTop(a) == calls' = [calls EXCEPT ![Len(calls)] = a]

Machine == <<phase, refs, got>>
NoThrow == thrown' = NotThrown

\* Bound: an activation whose stack has another height than it began with does no
\* more than return.
Level == Top.height = 0

\* A function of the API that calls no script returns.
Returns(fn, ok, delta) ==
    /\ Level
    /\ SetTop([Top EXCEPT !.height = @ + delta])
    /\ last' = IF delta = 0 THEN Nothing
               ELSE [Nothing EXCEPT !.fn = fn, !.ok = ok, !.delta = delta]

\* One calls a script: it has pushed n slots and waits.
Waits(fn, n, args, ret, back) ==
    /\ Level /\ Len(calls) < MaxCalls
    /\ SetTop([height |-> Top.height + n, op |-> fn, args |-> args, ret |-> ret, back |-> back])
    /\ last' = Nothing

\* The script it waited for is done; it changes the height by n and returns.
Resumes(before, ok, n, out) ==
    /\ SetTop([Host EXCEPT !.height = Top.height + n])
    /\ last' = IF n = -before /\ out = <<>> /\ ~Top.back THEN Nothing
               ELSE [fn |-> Top.op, ok |-> ok, delta |-> before + n, args |-> Top.args,
                     ret |-> Top.ret, back |-> Top.back, out |-> out]

-----------------------------------------------------------------------------
(* The library of the machine: what its functions do to the height. *)

pushed(n) == n
pop(n) == -n
sq_get(ok) == IF ok THEN 0 ELSE -1
sq_newslot == -2
sq_newclosure(free) == 1 - free
sq_call(n, ret, ok) == -n + (IF ok /\ ret THEN 1 ELSE 0)
sq_newclass(base, ok) == IF ok THEN (IF base THEN 0 ELSE 1) ELSE 0
sq_next(ok) == IF ok THEN 2 ELSE 0
sq_deleteslot == -1
sq_setdelegate(table) == IF table THEN -1 ELSE 0
If(c, n) == IF c THEN n ELSE 0

-----------------------------------------------------------------------------
(* Functions of the API that call no script: the height each ends at.      *)

\* The code is compiled, its closure is copied into a handle.
CompileScript(ok) == IF ok THEN pushed(1) + pop(1) ELSE 0
CopyHandle == pushed(1) + pop(1)
\* sq_get drops the key or replaces it by the function.
LookupFunction(ok) == pushed(1) + pushed(1) + sq_get(ok) + If(ok, pop(1)) + pop(1)
ValueExists(ok) == pushed(1) + pushed(1) + sq_get(ok) + If(ok, pop(1)) + pop(1)
GetValue(ok) == pushed(1) + pushed(1) + sq_get(ok) + If(ok, pop(1)) + pop(1)
\* A value that cannot be pushed: scope and name are popped.
SetValue(can) ==
    IF can THEN pushed(1) + pushed(1) + pushed(1) + sq_newslot + pop(1)
    ELSE pushed(1) + pushed(1) + pop(2)
ClearValue == pushed(1) + pushed(1) + sq_deleteslot + pop(1)
CreateTable == pushed(1) + pop(1)
\* The iterator goes where the key was; both are popped, then table and iterator.
GetKeyValue(ok) == pushed(1) + pushed(1) + sq_next(ok) + If(ok, pop(2)) + pop(2)
ArrayAddToTail(can) == pushed(1) + (IF can THEN pushed(1) - 1 ELSE 0) + pop(1)
RaisesNot == pushed(1) + pop(1)

\* With a class it is pushed to be compared, and popped again if the instance is not of it.
GetInstanceValue(typed, isinst) ==
    pushed(1) + If(typed, pushed(1) + If(~isinst, pop(1))) + pop(1)

RemoveInstance == pushed(1) + pop(1)

\* The member of the scope is found: a table with a _get closure becomes its delegate, if
\* the member is a table itself; nobody looks whether it did.
MakeSquirrelMetamethod_Get(found, made, table) ==
    pushed(1) + pushed(1) + sq_get(found)
      + If(found, pushed(1) + pushed(2) + sq_newclosure(1) + sq_newslot
                    + (IF made THEN pushed(2) + sq_newslot + sq_setdelegate(table) ELSE pop(1)))
      + pop(1)

\* An instance needs its class; it and the instance are popped.
RegisterInstance(made) == pushed(1) + (IF made THEN pushed(1) + pop(2) ELSE pop(1))

\* A member of a class: its typemask may be of an unknown type.
register_func(member, ok) ==
    pushed(1) + (IF member THEN pushed(2) + sq_newclosure(2) ELSE pushed(1) + sq_newclosure(1))
      + (IF ok THEN sq_newslot ELSE pop(2))

\* The class: its name and its base are on the stack when it is made; a class with a base
\* that loses a member pops one more than a class without.
register_class(base, fails) ==
    LET name == pushed(1) + If(base, pushed(1))
        class == name - If(base, 1) + 1 IN
    CASE fails = "newclass"    -> name
      [] fails = "constructor" -> class + pushed(2) + sq_newclosure(1) + pop(IF base THEN 3 ELSE 2)
      [] fails = "member"      -> class + register_func(TRUE, FALSE) + pop(IF base THEN 3 ELSE 2)
      [] OTHER                 -> class + register_func(TRUE, TRUE) + sq_newslot

ClassFails == {"no", "newclass", "constructor", "member"}

\* Its base is registered first, under a root table of its own.
ClassOf(c, base, f, g) ==
    LET inner == IF base = "none" \/ base \in registered THEN 0
                 ELSE pushed(1) + register_class(FALSE, g) + pop(1) IN
    pushed(1) + inner + (IF g = "no" THEN register_class(base # "none", f) ELSE 0) + pop(1)

-----------------------------------------------------------------------------
(* C++ uses the API. *)

\* Functions that leave the machine's own state alone.
Uses ==
    /\ InCpp
    /\ \/ Returns("CopyHandle", TRUE, CopyHandle)
       \/ Returns("ClearValue", TRUE, ClearValue)
       \/ Returns("CreateTable", TRUE, CreateTable)
       \/ Returns("RemoveInstance", TRUE, RemoveInstance)
       \/ \E ok \in BOOLEAN :
             \/ Returns("CompileScript", ok, CompileScript(ok))
             \/ Returns("LookupFunction", ok, LookupFunction(ok))
             \/ Returns("ValueExists", ok, ValueExists(ok))
             \/ Returns("GetValue", ok, GetValue(ok))
             \/ Returns("SetValue", ok, SetValue(ok))
             \/ Returns("GetKeyValue", ok, GetKeyValue(ok))
             \/ Returns("ArrayAddToTail", ok, ArrayAddToTail(ok))
       \/ \E b, c \in BOOLEAN :
             \/ Returns("GetInstanceValue", b => c, GetInstanceValue(b, c))
             \/ \E table \in BOOLEAN :
                   Returns("MakeSquirrelMetamethod_Get", b /\ c, MakeSquirrelMetamethod_Get(b, c, table))
    /\ NoThrow /\ UNCHANGED <<Machine, exceptions, registered>>

\* The class names are registered when the class is whole, the base before.
RegisterClass ==
    /\ InCpp
    /\ \E c \in {"Base", "Derived"} \ registered, f, g \in ClassFails :
          LET base == IF c = "Derived" THEN "Base" ELSE "none"
              anew == base # "none" /\ base \notin registered IN
          /\ ~anew => g = "no"
          /\ g # "no" => f = "no"
          /\ Returns("RegisterClass", f = "no" /\ g = "no", ClassOf(c, base, f, g))
          /\ registered' = registered \cup (IF g = "no" /\ anew THEN {"Base"} ELSE {})
                                      \cup (IF f = "no" /\ g = "no" THEN {c} ELSE {})
          /\ refs' = refs \cup (registered' \ registered)
    /\ NoThrow /\ UNCHANGED <<phase, got, exceptions>>

\* An instance is made of a class that is registered.
NewInstance ==
    /\ InCpp /\ registered # {}
    /\ \E made \in BOOLEAN : Returns("RegisterInstance", made, RegisterInstance(made))
    /\ NoThrow /\ UNCHANGED <<Machine, exceptions, registered>>

\* The exception is kept until a binding returns.  One that was there is overwritten
\* and is not released: its reference stays, and nothing names it any more.
RaiseException ==
    /\ InCpp /\ raised < MaxRaised
    /\ raised' = raised + 1
    /\ kept' = kept \cup {raised + 1}
    /\ exc' = Len(calls)
    /\ Returns("RaiseException", TRUE, RaisesNot)
    /\ NoThrow /\ UNCHANGED <<Machine, told, registered>>

-----------------------------------------------------------------------------
(* C++ calls a script. *)

\* Run, with the code or with a handle.
Run == Waits("Run", pushed(2), <<>>, "none", FALSE)
CreateScope == Waits("CreateScope", pushed(1) + pushed(3), <<>>, "value", FALSE)
ReleaseScope == Waits("ReleaseScope", pushed(1) + pushed(2), <<>>, "none", FALSE)

\* RegisterFunction with a description: the closure is there when the script is called.
Document == Debug /\ "register_func_desc" \in got
            /\ Waits("RegisterFunction", pushed(1) + pushed(1) + pushed(1) + sq_newclosure(1) + pushed(6),
                     <<>>, "none", FALSE)

\* Arguments are pushed in order until one cannot be; what was pushed then stays.
ArgKinds == {"value", "owned", "bad"}
ExecuteFunction ==
    \E n \in 0..MaxArgs : \E args \in [1..n -> ArgKinds], back \in BOOLEAN,
                             ret \in {"none", "value", "vector"} :
       \/ /\ \A i \in 1..n : args[i] # "bad"
          /\ Waits("ExecuteFunction", pushed(2) + pushed(n), args, ret, back)
       \/ \E i \in 1..n :
             /\ args[i] = "bad" /\ \A j \in 1..i - 1 : args[j] # "bad"
             /\ Returns("ExecuteFunction: argument", FALSE, pushed(2) + pushed(i - 1))

CallScript ==
    /\ InCpp
    /\ Run \/ CreateScope \/ ReleaseScope \/ Document \/ ExecuteFunction
    /\ NoThrow /\ UNCHANGED <<Machine, exceptions, registered>>

\* sq_call_nopop leaves the arguments when the call succeeds.
sq_call_nopop(n, ret, ok) == If(~ok, -n) + If(ok /\ ret, 1)

\* get() of an instance pushes it to look at its class, and returns without popping it.
get_obj(v) == If(v = "vector", pushed(1))

\* What is left of the call: the result, then the arguments if they are copied back, then
\* the function.
MutantAfterCall(n, ret, back, ok) ==
    LET res == ret # "none" IN
    (IF back THEN sq_call_nopop(n + 1, res, ok) ELSE sq_call(n + 1, res, ok))
      + If(ok /\ res, get_obj(ret) + pop(1))
      + If(ok /\ back, pop(n + 1)) + pop(1)
AfterCall(n, ret, back, ok) ==
    LET res == ret # "none" IN
    (IF back THEN sq_call_nopop(n + 1, res, ok) ELSE sq_call(n + 1, res, ok))
      + If(ok /\ res, get_obj(ret) + pop(1))
      + If(ok /\ back, pop(n)) + pop(1)

\* Where argument i of the caller comes from when the call is over.  Copying back starts at
\* the top of the stack, where a vector that was returned still is; what came back is
\* freed if the argument owned what it had before, when the copy owns its data.
CopiedBack(args, ret, back, ok, owning, i) ==
    IF ~(ok /\ back) THEN IF args[i] = "owned" THEN "freed" ELSE "kept"
    ELSE IF args[i] = "owned" /\ owning[i] THEN "lost"
    ELSE IF ret = "vector" THEN "next" ELSE "own"

\* The script ends, with an exception or without one.
ScriptEnds ==
    /\ InScript
    /\ \E ok \in BOOLEAN :
       LET n == Len(Top.args) IN
       CASE Top.op = "Run" -> Resumes(pushed(2), ok, sq_call(1, FALSE, ok) + pop(1), <<>>)
         [] Top.op = "CreateScope" ->
               Resumes(pushed(4), ok, sq_call(3, TRUE, ok) + If(ok, pop(1)) + pop(1), <<>>)
         [] Top.op = "ReleaseScope" -> Resumes(pushed(3), ok, sq_call(2, FALSE, ok) + pop(1), <<>>)
         [] Top.op = "RegisterFunction" ->
               Resumes(pushed(3) + sq_newclosure(1) + pushed(6), TRUE,
                       sq_call(5, FALSE, ok) + pop(1) + sq_newslot + pop(1), <<>>)
         [] Top.op = "ExecuteFunction" ->
               \E owning \in [1..n -> BOOLEAN] :
                  Resumes(pushed(2) + pushed(n), ok, AfterCall(n, Top.ret, Top.back, ok),
                          [i \in 1..n |-> CopiedBack(Top.args, Top.ret, Top.back, ok, owning, i)])
    /\ NoThrow /\ UNCHANGED <<Machine, exceptions, registered>>

-----------------------------------------------------------------------------
(* A script calls a binding. *)

\* The arguments are there and the object is: the binding runs.
FuncCall ==
    /\ InScript /\ Len(calls) < MaxCalls
    /\ calls' = Append(calls, Host)
    /\ last' = Nothing /\ NoThrow /\ UNCHANGED <<Machine, exceptions, registered>>

\* The binding returns.  An exception that is there is thrown, whoever raised it; its slots
\* of the stack go with the activation.
Back == calls' = SubSeq(calls, 1, Len(calls) - 1)
Threw == IF exc # 0 THEN {raised} ELSE {}
MutantFuncReturn ==
    /\ InCpp /\ Len(calls) > 1
    /\ Back
    /\ thrown' = IF exc # 0 THEN [in |-> Len(calls), from |-> exc] ELSE NotThrown
    /\ kept' = LastReleased /\ told' = told \cup Threw
    /\ last' = Nothing /\ UNCHANGED <<Machine, raised, registered, exc>>
func_call_impl ==
    /\ InCpp /\ Len(calls) > 1
    /\ Back
    /\ thrown' = IF exc # 0 THEN [in |-> Len(calls), from |-> exc] ELSE NotThrown
    /\ exc' = 0
    /\ kept' = LastReleased /\ told' = told \cup Threw
    /\ last' = Nothing /\ UNCHANGED <<Machine, raised, registered>>

-----------------------------------------------------------------------------
Init ==
    /\ phase = "closed" /\ refs = {} /\ got = {} /\ calls = <<Host>> /\ exc = 0
    /\ raised = 0 /\ kept = {} /\ told = {}
    /\ registered = {} /\ last = Nothing /\ thrown = NotThrown

Next ==
    \/ Init_impl \/ Shutdown \/ Uses \/ RegisterClass \/ NewInstance \/ RaiseException
    \/ CallScript \/ ScriptEnds \/ FuncCall \/ func_call_impl

Spec == Init /\ [][Next]_vars

-----------------------------------------------------------------------------
(* Properties. *)

\* The registries, the flags and the references of the machine agree: every reference it
\* took to an object is named by a flag, so that Shutdown after a failed Init, or after any
\* use, leaves none.  Of the exceptions, those that no binding threw have a reference, and
\* Shutdown releases the last one's only: one is left behind for each exception that another
\* overwrote while it waited, and for no other.  An exception that waits belongs to an
\* activation that has not returned.
ReferencesHaveFlags ==
    /\ phase \in {"closed", "failed", "open"}
    /\ refs = got \cup registered
    /\ phase = "closed" => refs = {}
    /\ kept = ((1..raised) \ told) \ (IF phase = "closed" THEN {raised} ELSE {})
    /\ exc # 0 => raised \in kept
    /\ exc \in 0..Len(calls)
    /\ \A i \in 1..Len(calls) - 1 : calls[i].op # "none"

\* Every function of the API leaves the height of the stack as it found it, however far
\* the calls it made were nested, but for these: ExecuteFunction stopped by an argument,
\* with a vector as result, or with arguments copied back; an instance read with its
\* class; a member given a delegate, with a slot more if it could not take the one that
\* was made; and a class that failed.  Where C++ runs, the height
\* is off by what the function that returned to it left, and by nothing else.
LeavesStackAsFound ==
  /\ Top.op = "none" => Top.height = last.delta
  /\ (last.delta # 0) =
       \/ last.fn = "ExecuteFunction: argument"
       \/ last.fn = "ExecuteFunction" /\ last.ok /\ (last.back \/ last.ret = "vector")
       \/ last.fn = "GetInstanceValue" /\ last.delta = 1
       \/ last.fn = "MakeSquirrelMetamethod_Get" /\ last.delta \in (IF last.ok THEN {1, 2} ELSE {1})
       \/ last.fn = "RegisterClass" /\ ~last.ok /\ last.delta \in {-1, 1, 2}

\* Arguments copied back: each is the caller's own, unless the function returned a vector,
\* which shifts all of them by one, and none that owned its data comes back with data of
\* its own.
CopiesBackArgs ==
    \A i \in DOMAIN last.out :
       IF last.ok /\ last.back
       THEN /\ last.out[i] \in {"own", "next", "lost"}
            /\ last.out[i] = "next" => last.ret = "vector"
            /\ last.out[i] = "own" => last.ret # "vector"
            /\ last.out[i] = "lost" => last.args[i] = "owned"
       ELSE last.out[i] = (IF last.args[i] = "owned" THEN "freed" ELSE "kept")

\* The exception a binding throws was raised while it or an activation around it ran,
\* never by a binding that has returned.
ThrowsWhatWasRaised == thrown.from \in 0..thrown.in

\* A call across the boundary of C++ and script, at whatever depth, leaves the
\* machine as it found it: references and flags agree, the stack is as high.
LeavesMachineAsFound == ReferencesHaveFlags /\ LeavesStackAsFound

\* What a call brings back to its caller is the caller's: the arguments that are
\* copied back, and the exception that is thrown.
BringsBackOwn == CopiesBackArgs /\ ThrowsWhatWasRaised
=============================================================================
