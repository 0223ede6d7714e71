---------------------------- MODULE ScriptProofs -----------------------------
(***************************************************************************)
(* Proofs about the border between scripts and C++: Squirrel, the machine  *)
(* and its interface, and MCValues, what crosses them.                     *)
(*                                                                         *)
(* What is checked of the machine speaks of the function that has just     *)
(* returned.  To keep it, SInv says of every activation that waits for a   *)
(* script how high its stack is: as high as the function it waits in has   *)
(* pushed it (Pushed), so that what the function pops when the script is   *)
(* done brings the height back to where it was, however many activations   *)
(* ran in between.                                                         *)
(*                                                                         *)
(* The parts of MCValues share no state, and each has an invariant of its  *)
(* own: VectorsInv, CallsInv, HandlesInv, which counts the wrappers that   *)
(* have a handle of a scope against the references of the scope,           *)
(* MemoryInv, which says of every deleted object who will still use it,    *)
(* and ValuesInv, which says of a value what each conversion has made of   *)
(* it.  A cast is known by two facts: the number it gives is of the range  *)
(* of its type (FitsType) and differs from the number it was given by a    *)
(* multiple of 2 to the width (Alike); casts after one another are alike   *)
(* for the narrowest of their widths.                                      *)
(***************************************************************************)
EXTENDS Squirrel, MCValues, FiniteSetTheorems, SequenceTheorems, TLAPS

-----------------------------------------------------------------------------
(* The inductive invariant. *)

\* The functions of the API that wait for a script, and how high each leaves the stack
\* of its activation while it waits.
Waiting == {"Run", "CreateScope", "ReleaseScope", "RegisterFunction", "ExecuteFunction"}
Pushed(op, actual) ==
    CASE op = "Run" -> 2
      [] op = "CreateScope" -> 4
      [] op = "ReleaseScope" -> 3
      [] op = "RegisterFunction" -> 9
      [] op = "ExecuteFunction" -> 2 + Len(actual)

Activations == [height : Int, op : Waiting \cup {"none"}, args : Seq(ArgKinds),
                ret : {"none", "value", "vector"}, back : BOOLEAN]

\* An activation that waits is as high as what it waits in has pushed; only
\* ExecuteFunction has arguments and a result.
Fits(a) ==
    /\ a \in Activations
    /\ a.op # "none" => a.height = Pushed(a.op, a.args)
    /\ a.op # "ExecuteFunction" => a.args = <<>> /\ ~a.back

CallsFit ==
    /\ calls \in Seq(Activations) /\ Len(calls) >= 1
    /\ \A i \in 1..Len(calls) : Fits(calls[i])

\* The classes are two; exceptions are counted, and the last one waits or was thrown.
Names ==
    /\ registered \subseteq {"Base", "Derived"}
    /\ raised \in Nat /\ told \subseteq 1..raised
    /\ exc # 0 => raised \notin told
    /\ phase # "closed" /\ exc = 0 => raised \in told \cup {0}

\* Before Init and after Shutdown no function has returned and no exception waits.
Quiet == phase = "closed" => last = Nothing /\ exc = 0

SInv ==
    /\ CallsFit /\ Names /\ Quiet
    /\ ReferencesHaveFlags /\ LeavesStackAsFound
    /\ CopiesBackArgs /\ ThrowsWhatWasRaised

-----------------------------------------------------------------------------
(* What Returns, Waits and Resumes do. *)

\* What a function that calls no script may leave.
Left(fn, ok, delta) ==
    delta # 0 =>
       \/ fn = "ExecuteFunction: argument"
       \/ fn = "GetInstanceValue" /\ delta = 1
       \/ fn = "MakeSquirrelMetamethod_Get" /\ delta \in (IF ok THEN {1, 2} ELSE {1})
       \/ fn = "RegisterClass" /\ ~ok /\ delta \in {-1, 1, 2}

\* What is on the stack of the machine is not below the top.
Below == \A i \in 1..Len(calls) - 1 : calls[i].op # "none"

\* Where nothing is said of the function that returned, no height is off and no
\* argument comes back.
LEMMA NothingSaid ==
    ASSUME last' = Nothing, (Top.op)' = "none" => (Top.height)' = 0
    PROVE  LeavesStackAsFound' /\ CopiesBackArgs'
  <1>1. Nothing.delta = 0 /\ Nothing.fn = "none" /\ Nothing.out = <<>>
    BY DEF Nothing
  <1>2. LeavesStackAsFound'
    BY <1>1 DEF LeavesStackAsFound
  <1>3. DOMAIN Nothing.out = {}
    BY <1>1
  <1>4. CopiesBackArgs'
    BY <1>3 DEF CopiesBackArgs
  <1> QED
    BY <1>2, <1>4

\* The activation on top is one of those.
LEMMA TopFits ==
    ASSUME CallsFit
    PROVE  Fits(Top) /\ Len(calls) \in 1..Len(calls)
  BY DEF CallsFit, Top

\* Replacing the top keeps the activations, if what replaces it fits.
LEMMA SetTopKeeps ==
    ASSUME CallsFit, Below, NEW a, Fits(a), SetTop(a)
    PROVE  CallsFit' /\ Below' /\ Len(calls') = Len(calls) /\ Top' = a
  <1>1. calls \in Seq(Activations) /\ a \in Activations /\ Len(calls) \in 1..Len(calls)
        /\ Len(calls) \in Nat
    BY TopFits DEF CallsFit, Fits
  <1>2. calls' = [calls EXCEPT ![Len(calls)] = a]
    BY DEF SetTop
  <1>3. calls' \in Seq(Activations) /\ Len(calls') = Len(calls)
    BY <1>1, <1>2
  <1>4. \A i \in 1..Len(calls) : calls'[i] = IF i = Len(calls) THEN a ELSE calls[i]
    BY <1>1, <1>2
  <1>5. \A i \in 1..Len(calls') : Fits(calls'[i])
    BY <1>3, <1>4 DEF CallsFit
  <1>6. Len(calls') >= 1
    BY <1>1, <1>3
  <1>7. \A i \in 1..Len(calls') - 1 : calls'[i].op # "none"
    BY <1>1, <1>3, <1>4 DEF Below
  <1> QED
    BY <1>1, <1>3, <1>4, <1>5, <1>6, <1>7 DEF CallsFit, Below, Top, Fits

\* A function that calls no script returns with its height, and says so.
LEMMA ReturnsKeeps ==
    ASSUME CallsFit, Below, Top.op = "none",
           NEW fn, NEW ok \in BOOLEAN, NEW delta \in Int,
           Left(fn, ok, delta), Returns(fn, ok, delta)
    PROVE  /\ CallsFit' /\ Below' /\ Len(calls') = Len(calls)
           /\ LeavesStackAsFound' /\ CopiesBackArgs'
  <1> DEFINE a == [Top EXCEPT !.height = @ + delta]
  <1>1. Fits(Top) /\ Top.height = 0 /\ SetTop(a)
    BY TopFits DEF Returns, Level
  <1>2. a = [height |-> delta, op |-> "none", args |-> Top.args, ret |-> Top.ret,
             back |-> Top.back]
    BY <1>1 DEF Fits, Activations
  <1> HIDE DEF a
  <1>3. Fits(a)
    BY <1>1, <1>2 DEF Fits, Activations
  <1>4. CallsFit' /\ Below' /\ Len(calls') = Len(calls) /\ Top' = a
    BY <1>1, <1>3, SetTopKeeps
  <1>5. last' = IF delta = 0 THEN Nothing
                ELSE [Nothing EXCEPT !.fn = fn, !.ok = ok, !.delta = delta]
    BY DEF Returns
  <1>6. last'.delta = delta /\ last'.out = <<>>
    BY <1>5 DEF Nothing
  <1>7. CASE delta = 0
    <2>1. last' = Nothing /\ a.height = 0
      BY <1>2, <1>5, <1>7
    <2> QED
      BY <1>4, <2>1, NothingSaid
  <1>8. CASE delta # 0
    <2>1. last'.fn = fn /\ last'.ok = ok
      BY <1>5, <1>8 DEF Nothing
    <2>2. LeavesStackAsFound'
      BY <1>2, <1>4, <1>6, <1>8, <2>1 DEF LeavesStackAsFound, Left
    <2>3. CopiesBackArgs'
      BY <1>6 DEF CopiesBackArgs
    <2> QED
      BY <1>4, <2>2, <2>3
  <1> QED
    BY <1>7, <1>8

\* A function that waits for a script is as high as what it has pushed.
LEMMA WaitsKeeps ==
    ASSUME CallsFit, Below, NEW fn \in Waiting, NEW n \in Int,
           NEW actual \in Seq(ArgKinds), NEW ret \in {"none", "value", "vector"},
           NEW back \in BOOLEAN,
           n = Pushed(fn, actual), fn # "ExecuteFunction" => actual = <<>> /\ ~back,
           Waits(fn, n, actual, ret, back)
    PROVE  /\ CallsFit' /\ Below' /\ Len(calls') = Len(calls)
           /\ LeavesStackAsFound' /\ CopiesBackArgs'
  <1> DEFINE a == [height |-> n, op |-> fn, args |-> actual, ret |-> ret, back |-> back]
  <1>0. Top.height + n = n
    BY DEF Waits, Level
  <1>1. SetTop(a) /\ last' = Nothing
    BY Zenon, <1>0 DEF Waits
  <1>2. a \in Activations /\ a.op = fn /\ a.args = actual /\ a.back = back /\ a.height = n
    BY DEF Activations
  <1> HIDE DEF a
  <1>3. Fits(a)
    BY <1>2 DEF Fits
  <1>4. CallsFit' /\ Below' /\ Len(calls') = Len(calls) /\ Top' = a
    BY <1>1, <1>3, SetTopKeeps
  <1>5. a.op # "none"
    BY <1>2 DEF Waiting
  <1> QED
    BY <1>1, <1>2, <1>4, <1>5, NothingSaid

\* What a call that is over says of the stack.
Answers(r) ==
    (r.delta # 0) =
       \/ r.fn = "ExecuteFunction: argument"
       \/ r.fn = "ExecuteFunction" /\ r.ok /\ (r.back \/ r.ret = "vector")
       \/ r.fn = "GetInstanceValue" /\ r.delta = 1
       \/ r.fn = "MakeSquirrelMetamethod_Get" /\ r.delta \in (IF r.ok THEN {1, 2} ELSE {1})
       \/ r.fn = "RegisterClass" /\ ~r.ok /\ r.delta \in {-1, 1, 2}

\* A function that waited returns: its height is what it pushed and what it popped.
LEMMA ResumesKeeps ==
    ASSUME CallsFit, Below, Top.op # "none",
           NEW before \in Int, NEW ok \in BOOLEAN, NEW n \in Int, NEW out,
           before = Pushed(Top.op, Top.args),
           before + n # 0 <=> Top.op = "ExecuteFunction" /\ ok /\ (Top.back \/ Top.ret = "vector"),
           Resumes(before, ok, n, out)
    PROVE  /\ CallsFit' /\ Below' /\ Len(calls') = Len(calls)
           /\ LeavesStackAsFound'
           /\ \/ last' = Nothing
              \/ /\ last'.out = out /\ last'.ok = ok
                 /\ last'.back = Top.back /\ last'.args = Top.args /\ last'.ret = Top.ret
  <1> DEFINE a == [Host EXCEPT !.height = Top.height + n]
             r == [fn |-> Top.op, ok |-> ok, delta |-> before + n, args |-> Top.args,
                   ret |-> Top.ret, back |-> Top.back, out |-> out]
  <1>1. Fits(Top) /\ Top.height = before
    BY TopFits DEF Fits
  <1>2. SetTop(a) /\ last' = IF n = -before /\ out = <<>> /\ ~Top.back THEN Nothing ELSE r
    BY DEF Resumes
  <1>3. a = [height |-> before + n, op |-> "none", args |-> <<>>, ret |-> "none", back |-> FALSE]
    <2>1. a = [Host EXCEPT !.height = before + n]
      BY <1>1
    <2> HIDE DEF a
    <2> QED
      BY <2>1 DEF Host
  <1>4. r.fn = Top.op /\ r.ok = ok /\ r.delta = before + n /\ r.args = Top.args
        /\ r.ret = Top.ret /\ r.back = Top.back /\ r.out = out
    OBVIOUS
  <1> HIDE DEF a, r
  <1>5. Fits(a)
    BY <1>3 DEF Fits, Activations
  <1>6. CallsFit' /\ Below' /\ Len(calls') = Len(calls) /\ Top' = a
    BY <1>2, <1>5, SetTopKeeps
  <1>7. CASE last' = Nothing /\ n = -before
    <2>1. a.height = 0
      BY <1>3, <1>7
    <2> QED
      BY <1>6, <1>7, <2>1, NothingSaid
  <1>8. CASE last' = r
    <2>1. Top.op \in Waiting
      BY <1>1 DEF Fits, Activations
    <2>2. Answers(r)
      BY <1>4, <2>1 DEF Answers, Waiting
    <2>3. LeavesStackAsFound'
      BY <1>3, <1>4, <1>6, <1>8, <2>2 DEF LeavesStackAsFound, Answers
    <2> QED
      BY <1>4, <1>6, <1>8, <2>3
  <1> QED
    BY <1>2, <1>7, <1>8

-----------------------------------------------------------------------------
(* The actions. *)

\* What is below the top of the stack is a part of the invariant.
LEMMA IsBelow ==
    ASSUME SInv
    PROVE  Below
  BY DEF SInv, ReferencesHaveFlags, Below

\* A function of the API, or its wait for a script, leaves the rest of the invariant alone
\* when the machine's own state stays.
LEMMA MachineStays ==
    ASSUME SInv, phase = "open", CallsFit', Below', Len(calls') = Len(calls),
           LeavesStackAsFound', CopiesBackArgs',
           NoThrow, UNCHANGED <<Machine, exceptions, registered>>
    PROVE  SInv'
  <1>1. phase' = "open" /\ refs' = refs /\ got' = got /\ exc' = exc
        /\ raised' = raised /\ kept' = kept /\ told' = told
        /\ registered' = registered /\ thrown' = NotThrown
    BY DEF NoThrow, Machine, exceptions
  <1>2. Names' /\ Quiet'
    BY <1>1 DEF SInv, Names, Quiet
  <1>3. ReferencesHaveFlags'
    BY <1>1 DEF SInv, ReferencesHaveFlags, Below
  <1>4. ThrowsWhatWasRaised'
    BY <1>1 DEF ThrowsWhatWasRaised, NotThrown
  <1> QED
    BY <1>2, <1>3, <1>4 DEF SInv

\* Init starts with nothing referenced and leaves what its steps took, flagged.
LEMMA InitImplKeeps ==
    ASSUME SInv, Init_impl
    PROVE  SInv'
  <1>1. PICK n \in 1..Len(InitSteps) + 1, o \in SUBSET (IF Debug THEN Optional ELSE {}) :
            /\ refs' = InitUpTo(n, o)
            /\ got' = refs'
            /\ phase' = IF n > Len(InitSteps) THEN "open" ELSE "failed"
    BY DEF Init_impl
  <1>2. phase = "closed" /\ calls' = <<Host>> /\ exc' = exc /\ registered' = registered
        /\ last' = last /\ thrown' = thrown /\ raised' = 0 /\ kept' = {} /\ told' = {}
    BY DEF Init_impl
  <1>3. refs = {} /\ last = Nothing /\ thrown.from \in 0..thrown.in
    BY <1>2 DEF SInv, ReferencesHaveFlags, Quiet, ThrowsWhatWasRaised
  <1>4. registered = {} /\ exc = 0
    <2>1. registered = {}
      BY <1>3 DEF SInv, ReferencesHaveFlags
    <2>2. exc = 0
      BY <1>2 DEF SInv, Quiet
    <2> QED
      BY <2>1, <2>2
  <1>5. phase' \in {"open", "failed"}
    BY <1>1
  <1>6. Fits(Host) /\ Host.height = 0 /\ Host.op = "none"
    BY DEF Fits, Activations, Host
  <1>7. CallsFit' /\ Len(calls') = 1 /\ Top' = Host
    BY <1>2, <1>6 DEF CallsFit, Top, Fits
  <1>8. Names' /\ Quiet'
    BY <1>1, <1>2, <1>4, <1>5 DEF Names, Quiet
  <1>9. ReferencesHaveFlags'
    BY <1>1, <1>2, <1>4, <1>5, <1>7 DEF ReferencesHaveFlags
  <1>10. LeavesStackAsFound' /\ CopiesBackArgs'
    BY <1>2, <1>3, <1>6, <1>7, NothingSaid
  <1>11. ThrowsWhatWasRaised'
    BY <1>2, <1>3 DEF ThrowsWhatWasRaised
  <1> QED
    BY <1>7, <1>8, <1>9, <1>10, <1>11 DEF SInv

\* What is left of the exceptions when the one that waits is released: it was the last.
LEMMA LastReleasedIs ==
    ASSUME SInv, phase # "closed"
    PROVE  LastReleased = ((1..raised) \ told) \ {raised}
  <1>1. kept = (1..raised) \ told
    BY DEF SInv, ReferencesHaveFlags
  <1>2. /\ raised \in Nat /\ told \subseteq 1..raised
        /\ exc = 0 => raised \in told \cup {0}
    BY DEF SInv, Names
  <1> QED
    BY <1>1, <1>2 DEF LastReleased

\* Shutdown releases every object, for flags and classes name them all, and the exception
\* that waits.
LEMMA ShutdownKeeps ==
    ASSUME SInv, Shutdown
    PROVE  SInv'
  <1>1. refs' = refs \ (got \cup registered) /\ kept' = LastReleased
        /\ raised' = raised /\ told' = told /\ got' = {} /\ exc' = 0 /\ registered' = {} /\ phase' = "closed"
        /\ calls' = <<Host>> /\ last' = Nothing /\ thrown' = NotThrown
    BY DEF Shutdown
  <1>0. phase # "closed"
    BY DEF Shutdown
  <1>2. refs' = {}
    BY <1>1 DEF SInv, ReferencesHaveFlags
  <1>3. Fits(Host) /\ Host.height = 0 /\ Host.op = "none"
    BY DEF Fits, Activations, Host
  <1>4. CallsFit' /\ Len(calls') = 1 /\ Top' = Host
    BY <1>1, <1>3 DEF CallsFit, Top, Fits
  <1>5. Names' /\ Quiet'
    BY <1>1 DEF SInv, Names, Quiet
  <1>6. ReferencesHaveFlags'
    BY <1>0, <1>1, <1>2, <1>4, LastReleasedIs DEF ReferencesHaveFlags
  <1>7. LeavesStackAsFound' /\ CopiesBackArgs'
    BY <1>1, <1>3, <1>4, NothingSaid
  <1>8. ThrowsWhatWasRaised'
    BY <1>1 DEF ThrowsWhatWasRaised, NotThrown
  <1> QED
    BY <1>4, <1>5, <1>6, <1>7, <1>8 DEF SInv

\* The functions that leave the machine's own state alone: what each pushes it pops, but for
\* two.
LEMMA UsesKeeps ==
    ASSUME SInv, Uses
    PROVE  SInv'
  <1>1. \E fn : \E ok \in BOOLEAN, delta \in Int :
            Left(fn, ok, delta) /\ Returns(fn, ok, delta)
    <2>1. CopyHandle = 0 /\ ClearValue = 0 /\ CreateTable = 0 /\ RemoveInstance = 0
      BY DEF CopyHandle, ClearValue, CreateTable, RemoveInstance, pushed, pop, sq_deleteslot
    <2>2. \A ok \in BOOLEAN :
             /\ CompileScript(ok) = 0 /\ LookupFunction(ok) = 0 /\ ValueExists(ok) = 0
             /\ GetValue(ok) = 0 /\ SetValue(ok) = 0 /\ GetKeyValue(ok) = 0
             /\ ArrayAddToTail(ok) = 0
      BY DEF CompileScript, LookupFunction, ValueExists, GetValue, SetValue, GetKeyValue,
             ArrayAddToTail, pushed, pop, sq_get, sq_newslot, sq_next, If
    <2>3. \A b, c, t \in BOOLEAN :
             /\ GetInstanceValue(b, c) \in {0, 1}
             /\ MakeSquirrelMetamethod_Get(b, c, t) \in (IF b /\ c THEN {0, 1, 2} ELSE {0, 1})
      BY DEF GetInstanceValue, MakeSquirrelMetamethod_Get, pushed, pop, sq_get, sq_newslot,
             sq_newclosure, sq_setdelegate, If
    <2>4. \A fn : \A ok \in BOOLEAN : Left(fn, ok, 0)
      BY DEF Left
    <2>6. CASE \/ Returns("CopyHandle", TRUE, CopyHandle)
               \/ Returns("ClearValue", TRUE, ClearValue)
               \/ Returns("CreateTable", TRUE, CreateTable)
               \/ Returns("RemoveInstance", TRUE, RemoveInstance)
      <3>1. \A fn : Left(fn, TRUE, 0)
        BY <2>4
      <3>2. \E fn : Returns(fn, TRUE, 0)
        <4>1. CASE Returns("CopyHandle", TRUE, CopyHandle)
          BY <2>1, <4>1
        <4>2. CASE Returns("ClearValue", TRUE, ClearValue)
          BY <2>1, <4>2
        <4>3. CASE Returns("CreateTable", TRUE, CreateTable)
          BY <2>1, <4>3
        <4>4. CASE Returns("RemoveInstance", TRUE, RemoveInstance)
          BY <2>1, <4>4
        <4> QED
          BY <2>6, <4>1, <4>2, <4>3, <4>4
      <3> QED
        <4>1. TRUE \in BOOLEAN /\ 0 \in Int
          OBVIOUS
        <4> QED
          BY <3>1, <3>2, <4>1, Zenon
    <2>7. CASE \E ok \in BOOLEAN :
                 \/ Returns("CompileScript", ok, CompileScript(ok))
                 \/ Returns("LookupFunction", ok, LookupFunction(ok))
                 \/ Returns("ValueExists", ok, ValueExists(ok))
                 \/ Returns("GetValue", ok, GetValue(ok))
                 \/ Returns("SetValue", ok, SetValue(ok))
                 \/ Returns("GetKeyValue", ok, GetKeyValue(ok))
                 \/ Returns("ArrayAddToTail", ok, ArrayAddToTail(ok))
      BY <2>2, <2>4, <2>7
    <2>8. CASE \E b, c \in BOOLEAN :
                 \/ Returns("GetInstanceValue", b => c, GetInstanceValue(b, c))
                 \/ \E t \in BOOLEAN : Returns("MakeSquirrelMetamethod_Get", b /\ c,
                                               MakeSquirrelMetamethod_Get(b, c, t))
      <3>1. PICK b \in BOOLEAN, c \in BOOLEAN :
                 \/ Returns("GetInstanceValue", b => c, GetInstanceValue(b, c))
                 \/ \E t \in BOOLEAN : Returns("MakeSquirrelMetamethod_Get", b /\ c,
                                               MakeSquirrelMetamethod_Get(b, c, t))
        BY <2>8
      <3>2. (b => c) \in BOOLEAN /\ (b /\ c) \in BOOLEAN
        OBVIOUS
      <3>3. GetInstanceValue(b, c) \in {0, 1}
        BY <2>3
      <3>4. CASE Returns("GetInstanceValue", b => c, GetInstanceValue(b, c))
        <4>1. PICK ok \in BOOLEAN : Returns("GetInstanceValue", ok, GetInstanceValue(b, c))
          BY <3>2, <3>4, Zenon
        <4>2. Left("GetInstanceValue", ok, GetInstanceValue(b, c))
          BY <3>3 DEF Left
        <4> QED
          BY <3>3, <4>1, <4>2
      <3>5. CASE \E t \in BOOLEAN : Returns("MakeSquirrelMetamethod_Get", b /\ c,
                                            MakeSquirrelMetamethod_Get(b, c, t))
        <4> DEFINE delta(t) == MakeSquirrelMetamethod_Get(b, c, t)
        <4>1. PICK t \in BOOLEAN : Returns("MakeSquirrelMetamethod_Get", b /\ c, delta(t))
          BY <3>5
        <4>2. delta(t) \in (IF b /\ c THEN {0, 1, 2} ELSE {0, 1})
          BY <2>3
        <4> HIDE DEF delta
        <4>3. delta(t) \in Int /\ Left("MakeSquirrelMetamethod_Get", b /\ c, delta(t))
          BY <4>2 DEF Left
        <4> QED
          BY <3>2, <4>1, <4>3
      <3> QED
        BY <3>1, <3>4, <3>5
    <2> QED
      BY <2>6, <2>7, <2>8 DEF Uses
  <1>2. phase = "open" /\ Top.op = "none" /\ NoThrow /\ UNCHANGED <<Machine, exceptions, registered>>
    BY DEF Uses, InCpp
  <1>3. CallsFit /\ Below
    BY IsBelow DEF SInv
  <1>4. /\ CallsFit' /\ Below' /\ Len(calls') = Len(calls)
        /\ LeavesStackAsFound' /\ CopiesBackArgs'
    BY <1>1, <1>2, <1>3, ReturnsKeeps
  <1> QED
    BY <1>2, <1>4, MachineStays

\* A class that failed may leave its name and its base, or take one slot too many.
LEMMA ClassLeaves ==
    ASSUME NEW c, NEW base \in {"none", "Base"}, NEW f \in ClassFails, NEW g \in ClassFails,
           g # "no" => f = "no" /\ base # "none" /\ base \notin registered
    PROVE  /\ ClassOf(c, base, f, g) \in Int
           /\ Left("RegisterClass", f = "no" /\ g = "no", ClassOf(c, base, f, g))
  <1>1. /\ register_func(TRUE, FALSE) = 0 /\ register_func(TRUE, TRUE) = 0
    BY DEF register_func, pushed, pop, sq_newclosure, sq_newslot
  <1>2. /\ register_class(FALSE, "no") = 0 /\ register_class(FALSE, "newclass") = 1
        /\ register_class(FALSE, "constructor") = 2 /\ register_class(FALSE, "member") = 0
        /\ register_class(TRUE, "no") = 0 /\ register_class(TRUE, "newclass") = 2
        /\ register_class(TRUE, "constructor") = 1 /\ register_class(TRUE, "member") = -1
    <2>1. /\ register_class(FALSE, "no") = 0 /\ register_class(TRUE, "no") = 0
      BY DEF register_class, register_func, pushed, pop, sq_newclosure, sq_newslot, If
    <2>2. /\ register_class(FALSE, "newclass") = 1 /\ register_class(TRUE, "newclass") = 2
      BY DEF register_class, pushed, pop, If
    <2>3. /\ register_class(FALSE, "constructor") = 2 /\ register_class(TRUE, "constructor") = 1
      BY DEF register_class, pushed, pop, sq_newclosure, If
    <2>4. /\ register_class(FALSE, "member") = 0 /\ register_class(TRUE, "member") = -1
      BY DEF register_class, register_func, pushed, pop, sq_newclosure, sq_newslot, If
    <2> QED
      BY <2>1, <2>2, <2>3, <2>4
  <1> DEFINE inner == IF base = "none" \/ base \in registered THEN 0
                      ELSE pushed(1) + register_class(FALSE, g) + pop(1)
             own == IF g = "no" THEN register_class(base # "none", f) ELSE 0
  <1>3. ClassOf(c, base, f, g) = pushed(1) + inner + own + pop(1)
    BY DEF ClassOf
  <1>4. inner \in {0, 1, 2} /\ (g = "no" => inner = 0)
    <2>1. CASE inner = 0
      BY <2>1
    <2>2. CASE inner # 0
      <3>1. register_class(FALSE, g) \in {0, 1, 2} /\ (g = "no" => register_class(FALSE, g) = 0)
        BY <1>2 DEF ClassFails
      <3> DEFINE r == register_class(FALSE, g)
      <3>2. inner = pushed(1) + r + pop(1)
        BY <2>2
      <3> HIDE DEF inner, r
      <3>3. r \in {0, 1, 2} /\ (g = "no" => r = 0)
        BY <3>1 DEF r
      <3>4. inner = r
        BY <3>2, <3>3 DEF pushed, pop
      <3> QED
        BY <3>3, <3>4
    <2> QED
      BY <2>1, <2>2
  <1>5. own \in {-1, 0, 1, 2} /\ (g # "no" \/ f = "no" => own = 0)
    <2>1. CASE g # "no"
      BY <2>1
    <2>2. CASE g = "no" /\ base = "none"
      <3>1. own = register_class(FALSE, f)
        BY <2>2
      <3> QED
        BY <1>2, <3>1, <2>2 DEF ClassFails
    <2>3. CASE g = "no" /\ base = "Base"
      <3>1. own = register_class(TRUE, f)
        BY <2>3
      <3> QED
        BY <1>2, <3>1, <2>3 DEF ClassFails
    <2> QED
      BY <2>1, <2>2, <2>3
  <1> HIDE DEF inner, own
  <1>6. ClassOf(c, base, f, g) = inner + own
    BY <1>3, <1>4, <1>5 DEF pushed, pop
  <1>7. CASE g # "no"
    BY <1>4, <1>5, <1>6, <1>7 DEF Left
  <1>8. CASE g = "no"
    BY <1>4, <1>5, <1>6, <1>8 DEF Left
  <1> QED
    BY <1>7, <1>8

\* A class that is registered, its base too, has a reference; the stack is as ClassLeaves says.
LEMMA RegisterClassKeeps ==
    ASSUME SInv, RegisterClass
    PROVE  SInv'
  <1>1. PICK c \in {"Base", "Derived"} \ registered, f \in ClassFails, g \in ClassFails :
          LET base == IF c = "Derived" THEN "Base" ELSE "none"
              anew == base # "none" /\ base \notin registered IN
          /\ ~anew => g = "no"
          /\ g # "no" => f = "no"
          /\ Returns("RegisterClass", f = "no" /\ g = "no", ClassOf(c, base, f, g))
          /\ registered' = registered \cup (IF g = "no" /\ anew THEN {"Base"} ELSE {})
                                      \cup (IF f = "no" /\ g = "no" THEN {c} ELSE {})
          /\ refs' = refs \cup (registered' \ registered)
    BY DEF RegisterClass
  <1> DEFINE base == IF c = "Derived" THEN "Base" ELSE "none"
             ok == f = "no" /\ g = "no"
  <1>2. base \in {"none", "Base"} /\ (g # "no" => f = "no" /\ base # "none" /\ base \notin registered)
        /\ Returns("RegisterClass", ok, ClassOf(c, base, f, g))
    BY <1>1
  <1>3. registered \subseteq registered' /\ registered' \subseteq {"Base", "Derived"}
        /\ refs' = refs \cup (registered' \ registered)
    BY <1>1 DEF SInv, Names
  <1>4. phase = "open" /\ Top.op = "none" /\ phase' = phase /\ got' = got /\ exc' = exc
        /\ raised' = raised /\ kept' = kept /\ told' = told /\ thrown' = NotThrown
    BY DEF RegisterClass, InCpp, NoThrow, exceptions
  <1>5. ok \in BOOLEAN
    OBVIOUS
  <1> HIDE DEF base, ok
  <1>6. ClassOf(c, base, f, g) \in Int /\ Left("RegisterClass", ok, ClassOf(c, base, f, g))
    BY <1>2, ClassLeaves DEF ok
  <1>7. CallsFit /\ Below
    BY IsBelow DEF SInv
  <1>8. /\ CallsFit' /\ Below' /\ Len(calls') = Len(calls)
        /\ LeavesStackAsFound' /\ CopiesBackArgs'
    BY <1>2, <1>4, <1>5, <1>6, <1>7, ReturnsKeeps
  <1>9. Names' /\ Quiet'
    BY <1>3, <1>4 DEF SInv, Names, Quiet
  <1>10. ReferencesHaveFlags'
    BY <1>3, <1>4, <1>8 DEF SInv, ReferencesHaveFlags, Below
  <1>11. ThrowsWhatWasRaised'
    BY <1>4 DEF ThrowsWhatWasRaised, NotThrown
  <1> QED
    BY <1>8, <1>9, <1>10, <1>11 DEF SInv

\* Making an instance leaves the stack alone, whether it can be made or not.
LEMMA NewInstanceKeeps ==
    ASSUME SInv, NewInstance
    PROVE  SInv'
  <1>1. PICK fresh \in BOOLEAN : Returns("RegisterInstance", fresh, RegisterInstance(fresh))
    BY DEF NewInstance
  <1>2. RegisterInstance(fresh) = 0 /\ Left("RegisterInstance", fresh, 0)
    BY DEF RegisterInstance, pushed, pop, Left
  <1>3. phase = "open" /\ Top.op = "none" /\ NoThrow /\ UNCHANGED <<Machine, exceptions, registered>>
    BY DEF NewInstance, InCpp
  <1>4. CallsFit /\ Below
    BY IsBelow DEF SInv
  <1>5. /\ CallsFit' /\ Below' /\ Len(calls') = Len(calls)
        /\ LeavesStackAsFound' /\ CopiesBackArgs'
    BY <1>1, <1>2, <1>3, <1>4, ReturnsKeeps
  <1> QED
    BY <1>3, <1>5, MachineStays

\* The exception has a reference as long as it waits.
LEMMA RaiseExceptionKeeps ==
    ASSUME SInv, RaiseException
    PROVE  SInv'
  <1>1. phase = "open" /\ Top.op = "none" /\ exc' = Len(calls)
        /\ raised' = raised + 1 /\ kept' = kept \cup {raised + 1} /\ told' = told
        /\ Returns("RaiseException", TRUE, RaisesNot) /\ thrown' = NotThrown
        /\ phase' = phase /\ refs' = refs /\ got' = got /\ registered' = registered
    BY DEF RaiseException, InCpp, NoThrow, Machine
  <1>2. RaisesNot = 0 /\ Left("RaiseException", TRUE, 0)
    BY DEF RaisesNot, pushed, pop, Left
  <1>3. CallsFit /\ Below
    BY IsBelow DEF SInv
  <1>4. /\ CallsFit' /\ Below' /\ Len(calls') = Len(calls)
        /\ LeavesStackAsFound' /\ CopiesBackArgs'
    <2>1. Returns("RaiseException", TRUE, 0)
      BY <1>1, <1>2
    <2>2. TRUE \in BOOLEAN /\ 0 \in Int
      OBVIOUS
    <2> QED
      BY <1>1, <1>2, <1>3, <2>1, <2>2, ReturnsKeeps
  <1>5. Len(calls) \in Nat /\ Len(calls) >= 1
    BY <1>3 DEF CallsFit
  <1>6. Names' /\ Quiet'
    <2>1. raised \in Nat /\ told \subseteq 1..raised
      BY DEF SInv, Names
    <2>2. raised + 1 \in Nat /\ 1..raised \subseteq 1..raised + 1 /\ raised + 1 \notin told
      BY <2>1
    <2>3. exc' # 0 /\ phase' = "open"
      BY <1>1, <1>5
    <2>4. Names'
      <3>1. raised' \in Nat /\ told' \subseteq 1..raised' /\ raised' \notin told'
        BY <1>1, <2>1, <2>2
      <3>2. registered' \subseteq {"Base", "Derived"}
        BY <1>1 DEF SInv, Names
      <3> QED
        BY <2>3, <3>1, <3>2 DEF Names
    <2> QED
      BY <2>3, <2>4 DEF Quiet
  <1>7. ReferencesHaveFlags'
    <2>1. raised \in Nat /\ told \subseteq 1..raised
      BY DEF SInv, Names
    <2>2. kept = (1..raised) \ told
      BY <1>1 DEF SInv, ReferencesHaveFlags
    <2> QED
      BY <1>1, <1>4, <1>5, <2>1, <2>2 DEF SInv, ReferencesHaveFlags, Below
  <1>8. ThrowsWhatWasRaised'
    BY <1>1 DEF ThrowsWhatWasRaised, NotThrown
  <1> QED
    BY <1>4, <1>6, <1>7, <1>8 DEF SInv

\* The first argument that cannot be pushed stops ExecuteFunction; otherwise, as each of the
\* other four, it waits as high as what it pushed.
LEMMA CallScriptKeeps ==
    ASSUME SInv, CallScript
    PROVE  SInv'
  <1>1. phase = "open" /\ Top.op = "none" /\ NoThrow /\ UNCHANGED <<Machine, exceptions, registered>>
    BY DEF CallScript, InCpp
  <1>2. CallsFit /\ Below
    BY IsBelow DEF SInv
  <1> DEFINE Kept == /\ CallsFit' /\ Below' /\ Len(calls') = Len(calls)
                     /\ LeavesStackAsFound' /\ CopiesBackArgs'
  <1>3. << >> \in Seq(ArgKinds) /\ FALSE \in BOOLEAN
    OBVIOUS
  <1> DEFINE Rets == {"none", "value", "vector"}
  <1> HIDE DEF Kept
  <1> SUFFICES Kept
    BY <1>1, MachineStays DEF Kept
  <1>4. ASSUME NEW fn \in Waiting, NEW ret \in Rets, NEW n \in Int,
               n = Pushed(fn, <<>>), Waits(fn, n, <<>>, ret, FALSE)
        PROVE  Kept
    BY <1>2, <1>3, <1>4, WaitsKeeps DEF Kept
  <1>5. CASE Run
    <2>1. Waits("Run", 2, <<>>, "none", FALSE)
      BY <1>5 DEF Run, pushed
    <2>2. "Run" \in Waiting /\ 2 = Pushed("Run", <<>>)
      BY DEF Waiting, Pushed
    <2>3. "none" \in Rets /\ 2 \in Int
      OBVIOUS
    <2> HIDE DEF Rets
    <2> QED
      BY <1>4, <2>1, <2>2, <2>3
  <1>6. CASE CreateScope
    <2>1. Waits("CreateScope", 4, <<>>, "value", FALSE)
      <3>1. pushed(1) + pushed(3) = 4
        BY DEF pushed
      <3> QED
        BY <1>6, <3>1 DEF CreateScope
    <2>2. "CreateScope" \in Waiting /\ 4 = Pushed("CreateScope", <<>>)
      BY DEF Waiting, Pushed
    <2>3. "value" \in Rets /\ 4 \in Int
      OBVIOUS
    <2> HIDE DEF Rets
    <2> QED
      BY <1>4, <2>1, <2>2, <2>3
  <1>7. CASE ReleaseScope
    <2>1. Waits("ReleaseScope", 3, <<>>, "none", FALSE)
      <3>1. pushed(1) + pushed(2) = 3
        BY DEF pushed
      <3> QED
        BY <1>7, <3>1 DEF ReleaseScope
    <2>2. "ReleaseScope" \in Waiting /\ 3 = Pushed("ReleaseScope", <<>>)
      BY DEF Waiting, Pushed
    <2>3. "none" \in Rets /\ 3 \in Int
      OBVIOUS
    <2> HIDE DEF Rets
    <2> QED
      BY <1>4, <2>1, <2>2, <2>3
  <1>8. CASE Document
    <2>1. Waits("RegisterFunction", 9, <<>>, "none", FALSE)
      <3>1. pushed(1) + pushed(1) + pushed(1) + sq_newclosure(1) + pushed(6) = 9
        BY DEF pushed, sq_newclosure
      <3> QED
        BY <1>8, <3>1 DEF Document
    <2>2. "RegisterFunction" \in Waiting /\ 9 = Pushed("RegisterFunction", <<>>)
      BY DEF Waiting, Pushed
    <2>3. "none" \in Rets /\ 9 \in Int
      OBVIOUS
    <2> HIDE DEF Rets
    <2> QED
      BY <1>4, <2>1, <2>2, <2>3
  <1>9. CASE ExecuteFunction
    <2>1. PICK n \in 0..MaxArgs : \E actual \in [1..n -> ArgKinds], back \in BOOLEAN,
                                    ret \in {"none", "value", "vector"} :
             \/ Waits("ExecuteFunction", pushed(2) + pushed(n), actual, ret, back)
             \/ \E i \in 1..n :
                   Returns("ExecuteFunction: argument", FALSE, pushed(2) + pushed(i - 1))
      BY <1>9 DEF ExecuteFunction
    <2>2. PICK actual \in [1..n -> ArgKinds], back \in BOOLEAN, ret \in {"none", "value", "vector"} :
             \/ Waits("ExecuteFunction", pushed(2) + pushed(n), actual, ret, back)
             \/ \E i \in 1..n :
                   Returns("ExecuteFunction: argument", FALSE, pushed(2) + pushed(i - 1))
      BY <2>1
    <2>3. n \in Nat
      BY SquirrelAssumption
    <2>4. CASE Waits("ExecuteFunction", pushed(2) + pushed(n), actual, ret, back)
      <3>1. Waits("ExecuteFunction", 2 + n, actual, ret, back)
        BY <2>4 DEF pushed
      <3>2. actual \in Seq(ArgKinds) /\ Len(actual) = n
        <4>1. actual \in [1..n -> ArgKinds] /\ n \in Nat
          BY <2>3
        <4> QED
          BY ONLY <4>1
      <3>3. 2 + n = Pushed("ExecuteFunction", actual)
        BY <3>2 DEF Pushed
      <3>4. "ExecuteFunction" \in Waiting /\ 2 + n \in Int
        BY <2>3 DEF Waiting
      <3> QED
        BY <1>2, <3>1, <3>2, <3>3, <3>4, WaitsKeeps DEF Kept
    <2>5. CASE \E i \in 1..n :
                 Returns("ExecuteFunction: argument", FALSE, pushed(2) + pushed(i - 1))
      <3>1. PICK i \in 1..n :
                 Returns("ExecuteFunction: argument", FALSE, pushed(2) + pushed(i - 1))
        BY <2>5
      <3>2. pushed(2) + pushed(i - 1) \in Int
        BY <2>3 DEF pushed
      <3>3. Left("ExecuteFunction: argument", FALSE, pushed(2) + pushed(i - 1))
        BY DEF Left
      <3> QED
        BY <1>1, <1>2, <1>3, <3>1, <3>2, <3>3, ReturnsKeeps DEF Kept
    <2> QED
      BY <2>2, <2>4, <2>5
  <1> QED
    BY <1>5, <1>6, <1>7, <1>8, <1>9 DEF CallScript

\* What the call of ExecuteFunction leaves when the script is done: a result that is a
\* vector, and the function's slot if the arguments were copied back.
LEMMA AfterCallIs ==
    ASSUME NEW n \in Nat, NEW ret \in {"none", "value", "vector"}, NEW back \in BOOLEAN,
           NEW ok \in BOOLEAN
    PROVE  /\ AfterCall(n, ret, back, ok) \in Int
           /\ 2 + n + AfterCall(n, ret, back, ok) # 0
                 <=> ok /\ (back \/ ret = "vector")
  BY DEF AfterCall, sq_call_nopop, sq_call, get_obj, pushed, pop, If

\* A script ends, well or not: the function that waited for it says so, and the arguments
\* go back the way CopiedBack says.
LEMMA ScriptEndsKeeps ==
    ASSUME SInv, ScriptEnds
    PROVE  SInv'
  <1>1. phase = "open" /\ Top.op # "none" /\ NoThrow /\ UNCHANGED <<Machine, exceptions, registered>>
    BY DEF ScriptEnds, InScript
  <1>2. CallsFit /\ Below
    BY IsBelow DEF SInv
  <1>3. Fits(Top)
    BY <1>2, TopFits
  <1>4. /\ Top.op \in Waiting /\ Top.args \in Seq(ArgKinds) /\ Top.back \in BOOLEAN
        /\ Top.ret \in {"none", "value", "vector"}
        /\ (Top.op # "ExecuteFunction" => Top.args = <<>> /\ ~Top.back)
    BY <1>1, <1>3 DEF Fits, Activations
  <1> DEFINE Kept == /\ CallsFit' /\ Below' /\ Len(calls') = Len(calls)
                     /\ LeavesStackAsFound' /\ CopiesBackArgs'
             n == Len(Top.args)
  <1>5. n \in Nat /\ DOMAIN Top.args = 1..n
    BY <1>4
  <1> HIDE DEF Kept, n
  <1> SUFFICES Kept
    BY <1>1, MachineStays DEF Kept
  <1>6. PICK ok \in BOOLEAN :
       CASE Top.op = "Run" -> Resumes(pushed(2), ok, sq_call(1, FALSE, ok) + pop(1), <<>>)
         [] Top.op = "CreateScope" ->
               Resumes(pushed(4), ok, sq_call(3, TRUE, ok) + If(ok, pop(1)) + pop(1), <<>>)
         [] Top.op = "ReleaseScope" -> Resumes(pushed(3), ok, sq_call(2, FALSE, ok) + pop(1), <<>>)
         [] Top.op = "RegisterFunction" ->
               Resumes(pushed(3) + sq_newclosure(1) + pushed(6), TRUE,
                       sq_call(5, FALSE, ok) + pop(1) + sq_newslot + pop(1), <<>>)
         [] Top.op = "ExecuteFunction" ->
               \E owning \in [1..n -> BOOLEAN] :
                  Resumes(pushed(2) + pushed(n), ok, AfterCall(n, Top.ret, Top.back, ok),
                          [i \in 1..n |-> CopiedBack(Top.args, Top.ret, Top.back, ok, owning, i)])
    BY DEF ScriptEnds, n
  <1>7. ASSUME NEW before \in Int, NEW r \in BOOLEAN, before = Pushed(Top.op, Top.args),
               Top.op # "ExecuteFunction", Resumes(before, r, -before, <<>>)
        PROVE  Kept
    <2>1. -before \in Int /\ before + (-before) = 0
      OBVIOUS
    <2>2. /\ CallsFit' /\ Below' /\ Len(calls') = Len(calls) /\ LeavesStackAsFound'
          /\ \/ last' = Nothing
             \/ last'.out = <<>>
      BY <1>1, <1>2, <1>7, <2>1, ResumesKeeps
    <2>3. last'.out = <<>>
      BY <2>2 DEF Nothing
    <2> QED
      BY <2>2, <2>3 DEF Kept, CopiesBackArgs
  <1>8. CASE Top.op = "Run"
    <2>1. pushed(2) = 2 /\ sq_call(1, FALSE, ok) + pop(1) = -2 /\ Pushed(Top.op, Top.args) = 2
      BY <1>8 DEF pushed, sq_call, pop, Pushed
    <2>2. Resumes(2, ok, -2, <<>>)
      BY <1>6, <1>8, <2>1
    <2> QED
      BY <1>7, <1>8, <2>1, <2>2
  <1>9. CASE Top.op = "CreateScope"
    <2>1. pushed(4) = 4 /\ sq_call(3, TRUE, ok) + If(ok, pop(1)) + pop(1) = -4
          /\ Pushed(Top.op, Top.args) = 4
      BY <1>9 DEF pushed, sq_call, pop, If, Pushed
    <2>2. Resumes(4, ok, -4, <<>>)
      BY <1>6, <1>9, <2>1
    <2> QED
      BY <1>7, <1>9, <2>1, <2>2
  <1>10. CASE Top.op = "ReleaseScope"
    <2>1. pushed(3) = 3 /\ sq_call(2, FALSE, ok) + pop(1) = -3 /\ Pushed(Top.op, Top.args) = 3
      BY <1>10 DEF pushed, sq_call, pop, Pushed
    <2>2. Resumes(3, ok, -3, <<>>)
      BY <1>6, <1>10, <2>1
    <2> QED
      BY <1>7, <1>10, <2>1, <2>2
  <1>11. CASE Top.op = "RegisterFunction"
    <2>1. pushed(3) + sq_newclosure(1) + pushed(6) = 9
          /\ sq_call(5, FALSE, ok) + pop(1) + sq_newslot + pop(1) = -9
          /\ Pushed(Top.op, Top.args) = 9
      BY <1>11 DEF pushed, sq_call, pop, sq_newclosure, sq_newslot, Pushed
    <2>2. Resumes(9, TRUE, -9, <<>>)
      BY <1>6, <1>11, <2>1
    <2>3. TRUE \in BOOLEAN /\ 9 \in Int
      OBVIOUS
    <2> QED
      BY <1>7, <1>11, <2>1, <2>2, <2>3
  <1>12. CASE Top.op = "ExecuteFunction"
    <2>1. PICK owning \in [1..n -> BOOLEAN] :
                  Resumes(pushed(2) + pushed(n), ok, AfterCall(n, Top.ret, Top.back, ok),
                          [i \in 1..n |-> CopiedBack(Top.args, Top.ret, Top.back, ok, owning, i)])
      BY <1>6, <1>12
    <2> DEFINE out == [i \in 1..n |-> CopiedBack(Top.args, Top.ret, Top.back, ok, owning, i)]
               after == AfterCall(n, Top.ret, Top.back, ok)
    <2>2. DOMAIN out = 1..n
          /\ \A i \in 1..n : out[i] = CopiedBack(Top.args, Top.ret, Top.back, ok, owning, i)
      OBVIOUS
    <2>3. pushed(2) + pushed(n) = 2 + n /\ 2 + n = Pushed(Top.op, Top.args) /\ 2 + n \in Int
      BY <1>5, <1>12 DEF pushed, Pushed, n
    <2>4. after \in Int /\ (2 + n + after # 0 <=> ok /\ (Top.back \/ Top.ret = "vector"))
      BY <1>4, <1>5, AfterCallIs
    <2>5. Resumes(2 + n, ok, after, out)
      BY <2>1, <2>3
    <2> HIDE DEF out, after
    <2>6. /\ CallsFit' /\ Below' /\ Len(calls') = Len(calls) /\ LeavesStackAsFound'
          /\ \/ last' = Nothing
             \/ /\ last'.out = out /\ last'.ok = ok
                /\ last'.back = Top.back /\ last'.args = Top.args /\ last'.ret = Top.ret
      BY <1>1, <1>2, <1>12, <2>3, <2>4, <2>5, ResumesKeeps
    <2>7. CopiesBackArgs'
      <3>1. CASE last' = Nothing
        BY <3>1 DEF CopiesBackArgs, Nothing
      <3>2. CASE /\ last'.out = out /\ last'.ok = ok
                 /\ last'.back = Top.back /\ last'.args = Top.args /\ last'.ret = Top.ret
        BY <1>4, <2>2, <3>2 DEF CopiesBackArgs, CopiedBack
      <3> QED
        BY <2>6, <3>1, <3>2
    <2> QED
      BY <2>6, <2>7 DEF Kept
  <1> QED
    BY <1>4, <1>8, <1>9, <1>10, <1>11, <1>12 DEF Waiting

\* A script that runs calls a binding: an activation on top of the one that waits.
LEMMA FuncCallKeeps ==
    ASSUME SInv, FuncCall
    PROVE  SInv'
  <1>1. /\ phase = "open" /\ Top.op # "none" /\ calls' = Append(calls, Host) /\ last' = Nothing
        /\ thrown' = NotThrown /\ phase' = phase /\ refs' = refs /\ got' = got /\ exc' = exc
        /\ raised' = raised /\ kept' = kept /\ told' = told /\ registered' = registered
    BY DEF FuncCall, InScript, NoThrow, Machine, exceptions
  <1>2. CallsFit /\ Below
    BY IsBelow DEF SInv
  <1>3. Fits(Host) /\ Host.height = 0 /\ Host \in Activations
    BY DEF Fits, Activations, Host
  <1>4. calls \in Seq(Activations) /\ Len(calls) \in Nat /\ Len(calls) >= 1
    BY <1>2 DEF CallsFit
  <1>5. /\ calls' \in Seq(Activations) /\ Len(calls') = Len(calls) + 1
        /\ \A i \in 1..Len(calls) + 1 :
              calls'[i] = IF i = Len(calls) + 1 THEN Host ELSE calls[i]
    BY <1>1, <1>3, <1>4
  <1>6. \A i \in 1..Len(calls') : Fits(calls'[i])
    BY <1>2, <1>3, <1>4, <1>5 DEF CallsFit
  <1>7. CallsFit'
    BY <1>4, <1>5, <1>6 DEF CallsFit, Fits
  <1>8. Top' = Host
    BY <1>4, <1>5 DEF Top
  <1>9. \A i \in 1..Len(calls') - 1 : calls'[i].op # "none"
    BY <1>1, <1>2, <1>4, <1>5 DEF Below, Top
  <1>10. Names' /\ Quiet'
    BY <1>1 DEF SInv, Names, Quiet
  <1>11. ReferencesHaveFlags'
    BY <1>1, <1>4, <1>5, <1>9 DEF SInv, ReferencesHaveFlags
  <1>12. LeavesStackAsFound' /\ CopiesBackArgs'
    BY <1>1, <1>3, <1>8, NothingSaid
  <1>13. ThrowsWhatWasRaised'
    BY <1>1 DEF ThrowsWhatWasRaised, NotThrown
  <1> QED
    BY <1>7, <1>10, <1>11, <1>12, <1>13 DEF SInv

\* A binding returns to the script that called it, which goes on where it waited; it takes
\* the exception with it.
LEMMA FuncReturnKeeps ==
    ASSUME SInv, func_call_impl
    PROVE  SInv'
  <1>1. /\ phase = "open" /\ Len(calls) > 1 /\ calls' = SubSeq(calls, 1, Len(calls) - 1)
        /\ thrown' = (IF exc # 0 THEN [in |-> Len(calls), from |-> exc] ELSE NotThrown)
        /\ exc' = 0 /\ kept' = LastReleased /\ told' = told \cup Threw /\ raised' = raised
        /\ last' = Nothing
        /\ phase' = phase /\ refs' = refs /\ got' = got /\ registered' = registered
    BY DEF func_call_impl, InCpp, Back, Machine
  <1>2. CallsFit /\ Below
    BY IsBelow DEF SInv
  <1>3. calls \in Seq(Activations) /\ Len(calls) \in Nat
    BY <1>2 DEF CallsFit
  <1>4. /\ calls' \in Seq(Activations) /\ Len(calls') = Len(calls) - 1
        /\ \A i \in 1..Len(calls) - 1 : calls'[i] = calls[i]
    BY <1>1, <1>3
  <1>5. \A i \in 1..Len(calls') : Fits(calls'[i])
    BY <1>1, <1>2, <1>3, <1>4 DEF CallsFit
  <1>6. CallsFit'
    BY <1>1, <1>3, <1>4, <1>5 DEF CallsFit, Fits
  <1>7. \A i \in 1..Len(calls') : calls'[i].op # "none"
    BY <1>2, <1>3, <1>4 DEF Below
  <1>8. (Top.op)' # "none"
    BY <1>1, <1>3, <1>4, <1>7 DEF Top
  <1>9. /\ raised \in Nat /\ told \subseteq 1..raised
        /\ exc # 0 => raised \in kept /\ kept = (1..raised) \ told
        /\ exc = 0 => raised \in told \cup {0} /\ kept = (1..raised) \ told
    BY <1>1 DEF SInv, Names, ReferencesHaveFlags
  <1>14. Names' /\ Quiet'
    BY <1>1, <1>9 DEF SInv, Names, Quiet, Threw
  <1>10. refs' = got \cup registered /\ kept' = (1..raised) \ told'
    BY <1>1, <1>9 DEF SInv, ReferencesHaveFlags, LastReleased, Threw
  <1>11. ReferencesHaveFlags'
    BY <1>1, <1>3, <1>4, <1>7, <1>10 DEF ReferencesHaveFlags
  <1>12. LeavesStackAsFound' /\ CopiesBackArgs'
    BY <1>1, <1>8, NothingSaid
  <1>13. ThrowsWhatWasRaised'
    BY <1>1, <1>3 DEF SInv, ReferencesHaveFlags, ThrowsWhatWasRaised, NotThrown
  <1> QED
    BY <1>6, <1>11, <1>12, <1>13, <1>14 DEF SInv

-----------------------------------------------------------------------------
(* The theorems. *)

\* The activations on the machine are as SInv says, whatever is called from where: those that
\* wait are as high as what they wait in has pushed.
THEOREM SquirrelInvariance == Spec => []SInv
  <1>1. Init => SInv
    <2> SUFFICES ASSUME Init PROVE SInv
      OBVIOUS
    <2>1. Fits(Host) /\ Host.height = 0 /\ Host.op = "none" /\ Host \in Activations
      BY DEF Fits, Activations, Host
    <2>2. CallsFit /\ Len(calls) = 1 /\ Top = Host
      BY <2>1 DEF Init, CallsFit, Top
    <2>3. Names /\ Quiet /\ ReferencesHaveFlags /\ ThrowsWhatWasRaised
      BY <2>2 DEF Init, Names, Quiet, ReferencesHaveFlags, ThrowsWhatWasRaised, NotThrown
    <2>4. Nothing.delta = 0 /\ Nothing.fn = "none" /\ DOMAIN Nothing.out = {}
      BY DEF Nothing
    <2>5. LeavesStackAsFound /\ CopiesBackArgs
      BY <2>1, <2>2, <2>4 DEF Init, LeavesStackAsFound, CopiesBackArgs
    <2> QED
      BY <2>2, <2>3, <2>5 DEF SInv
  <1>2. SInv /\ [Next]_vars => SInv'
    <2> SUFFICES ASSUME SInv, [Next]_vars PROVE SInv'
      OBVIOUS
    <2>1. CASE UNCHANGED vars
      BY <2>1 DEF vars, SInv, CallsFit, Fits, Names, Quiet, ReferencesHaveFlags,
                  LeavesStackAsFound, CopiesBackArgs, ThrowsWhatWasRaised, Top
    <2> QED
      BY <2>1, InitImplKeeps, ShutdownKeeps, UsesKeeps, RegisterClassKeeps, NewInstanceKeeps,
         RaiseExceptionKeeps, CallScriptKeeps, ScriptEndsKeeps, FuncCallKeeps, FuncReturnKeeps
         DEF Next
  <1> QED
    BY <1>1, <1>2, PTL DEF Spec

\* The machine is left as it was found: its references to objects are those its flags and its
\* classes name, so that Shutdown leaves none; an exception keeps its reference after it only
\* if another overwrote it while it waited; and the stack of whoever
\* runs is as high as before the function that returned to it, but where that function is
\* one of those known not to.
THEOREM Machines == Spec => []LeavesMachineAsFound
  <1>1. SInv => LeavesMachineAsFound
    BY DEF SInv, LeavesMachineAsFound
  <1> QED
    BY <1>1, SquirrelInvariance, PTL

\* What a call brings back is the caller's: each argument that was copied back, but when the
\* result is a vector, and the exception a binding throws.
THEOREM Brings == Spec => []BringsBackOwn
  <1>1. SInv => BringsBackOwn
    BY DEF SInv, BringsBackOwn
  <1> QED
    BY <1>1, SquirrelInvariance, PTL

-----------------------------------------------------------------------------
(* Vectors. *)

\* What a constructor writes: a new instance if it is given three coordinates, nothing if it
\* is given another number of them but none.
LEMMA CtorWrites ==
  ASSUME registers \in Seq(Instances \cup {X!Number}), NEW i \in Instances, NEW class, NEW n \in 1 .. 4
  PROVE  X!CtorTarget(class, <<i>> \o [j \in 1 .. n |-> X!Number]) = IF n = 3 THEN {i} ELSE {}
  <1> DEFINE frame == <<i>> \o [j \in 1 .. n |-> X!Number]
             all == registers \o <<X!ClassObject>> \o frame
  <1>1. i # X!Number
    BY VectorsAssumption DEF X!Number
  <1>2. frame \in Seq(Instances \cup {X!Number}) /\ Len(frame) = n + 1 /\ frame[1] = i
        /\ \A k \in 2 .. n + 1 : frame[k] = X!Number
    OBVIOUS
  <1> HIDE DEF frame
  <1>3. Len(all) = Len(registers) + 1 + n + 1
    BY <1>2 DEF X!ClassObject
  <1>4. /\ all[Len(registers) + 1] = X!ClassObject
        /\ \A k \in 1 .. n + 1 : all[Len(registers) + 1 + k] = frame[k]
    BY <1>2 DEF X!ClassObject
  <1>5. DOMAIN all = 1 .. Len(registers) + n + 2
    BY <1>2, <1>3 DEF X!ClassObject
  <1> HIDE DEF all
  <1>6. \A idx \in -4 .. -1 : Len(all) + idx + 1 \in DOMAIN all => X!At(frame, idx) = all[Len(all) + idx + 1]
    BY DEF X!At, all
  <1>7. CASE n = 1
    <2>1. X!At(frame, -3) = X!ClassObject
      BY <1>3, <1>4, <1>5, <1>6, <1>7
    <2> QED
      BY <1>2, <1>7, <2>1 DEF X!CtorTarget, X!ClassObject, X!Number, frame
  <1>8. CASE n = 2
    <2>1. X!At(frame, -3) = i
      BY <1>2, <1>3, <1>4, <1>5, <1>6, <1>8
    <2> QED
      BY <1>1, <1>2, <1>8, <2>1 DEF X!CtorTarget, frame
  <1>9. CASE n = 3
    <2>1. X!At(frame, -4) = i /\ X!At(frame, -3) = X!Number /\ X!At(frame, -2) = X!Number /\ X!At(frame, -1) = X!Number
      BY <1>2, <1>3, <1>4, <1>5, <1>6, <1>9
    <2> QED
      BY <1>2, <1>9, <2>1 DEF X!CtorTarget, X!ThisIndex, frame
  <1>10. CASE n = 4
    BY <1>2, <1>10 DEF X!CtorTarget, frame
  <1> QED
    BY <1>7, <1>8, <1>9, <1>10

\* Registers hold instances and numbers.
VectorsInv ==
  /\ registers \in Seq(Instances \cup {X!Number}) /\ DOMAIN heap = Instances
  /\ X!OperandsUntouched

\* A register gets an instance or a number.
LEMMA AssignKeeps ==
  ASSUME registers \in Seq(Instances \cup {X!Number}), NEW k, NEW v \in Instances \cup {X!Number}, X!Assign(k, v)
  PROVE  registers' \in Seq(Instances \cup {X!Number})
  BY DEF X!Assign

\* An operation that makes an instance writes it.
LEMMA CreateVectorKeeps ==
  ASSUME VectorsInv, NEW class, NEW on, NEW k, NEW i \in Instances, NEW v \in Coordinates,
         X!create_vector3d(class, on, k, i, v)
  PROVE  VectorsInv'
  <1>1. registers' \in Seq(Instances \cup {X!Number})
    BY AssignKeeps DEF X!create_vector3d, VectorsInv
  <1>2. v # -1
    BY VectorsAssumption
  <1>3. DOMAIN heap' = Instances /\ heap'[i].value = v
    BY DEF X!create_vector3d, VectorsInv
  <1>4. native_call' = [on |-> on, made |-> {i}, wrote |-> {i}, coordinates |-> 3]
    BY DEF X!create_vector3d, X!Did
  <1> QED
    BY <1>1, <1>2, <1>3, <1>4 DEF VectorsInv, X!OperandsUntouched, X!Unset

\* So does one that answers with what it has, and one that throws.
LEMMA AnswersKeep ==
  ASSUME VectorsInv, NEW on, NEW wrote, wrote \subseteq {on}, DOMAIN heap' = Instances,
         registers' \in Seq(Instances \cup {X!Number}), X!Did(on, {}, wrote, 4)
  PROVE  VectorsInv'
  BY DEF X!Did, VectorsInv, X!OperandsUntouched

\* A constructor does, unless it is given no coordinates.
LEMMA CtorKeeps ==
  ASSUME VectorsInv, NEW class, NEW n \in 0 .. 4, NEW k, NEW i \in Instances, NEW v \in Coordinates,
         X!vector3d_ctor(class, n, k, i, v)
  PROVE  VectorsInv'
  <1> DEFINE frame == <<i>> \o [j \in 1 .. n |-> X!Number]
  <1>1. PICK to : to = X!CtorTarget(class, frame)
    OBVIOUS
  <1>2. CASE to = {}
    <2>1. X!Throws("none") /\ UNCHANGED registers
      BY <1>1, <1>2 DEF X!vector3d_ctor
    <2> QED
      BY <2>1, AnswersKeep DEF X!Throws, VectorsInv
  <1>3. CASE to # {}
    <2>1. /\ heap' = [j \in Instances |->
                        CASE j \in to /\ j = i -> [class |-> class, value |-> v]
                          [] j \in to /\ j # i -> [class |-> class, value |-> 0]
                          [] j = i /\ j \notin to -> [class |-> class, value |-> X!Unset]
                          [] OTHER -> heap[j]]
          /\ X!Assign(k, i) /\ X!Did(i, {i}, to, n)
      BY <1>1, <1>3 DEF X!vector3d_ctor
    <2>2. registers' \in Seq(Instances \cup {X!Number}) /\ DOMAIN heap' = Instances
      BY <2>1, AssignKeeps DEF VectorsInv
    <2>3. native_call' = [on |-> i, made |-> {i}, wrote |-> to, coordinates |-> n]
      BY <2>1 DEF X!Did
    <2>4. CASE n = 0
      BY <2>2, <2>3, <2>4 DEF VectorsInv, X!OperandsUntouched
    <2>5. CASE n # 0
      <3>1. n = 3 /\ to = {i}
        <4>1. n \in 1 .. 4 /\ registers \in Seq(Instances \cup {X!Number})
          BY <2>5 DEF VectorsInv
        <4>2. X!CtorTarget(class, frame) = IF n = 3 THEN {i} ELSE {}
          BY Zenon, <4>1, CtorWrites
        <4> HIDE DEF frame
        <4> QED
          BY <1>1, <1>3, <4>2
      <3>2. heap'[i].value = v /\ v # -1
        BY <2>1, <3>1, VectorsAssumption
      <3> QED
        BY <2>2, <2>3, <3>1, <3>2 DEF VectorsInv, X!OperandsUntouched, X!Unset
    <2> QED
      BY <2>4, <2>5
  <1> QED
    BY <1>2, <1>3

\* So does an operator.
LEMMA OpKeeps ==
  ASSUME VectorsInv, NEW this \in Instances, NEW other, NEW assign \in BOOLEAN, NEW k, NEW i \in Instances,
         NEW v \in Coordinates, X!vector3d_op(this, other, assign, k, i, v)
  PROVE  VectorsInv'
  <1>1. CASE X!Throws(this) /\ UNCHANGED registers
    BY <1>1, AnswersKeep DEF X!Throws, VectorsInv
  <1>2. CASE /\ heap' = [j \in Instances |-> IF j \in X!Written(this, other)
                                             THEN [heap[j] EXCEPT !.value = v] ELSE heap[j]]
             /\ X!Assign(k, this) /\ X!Did(this, {}, X!Written(this, other), 4)
    <2>1. registers' \in Seq(Instances \cup {X!Number}) /\ DOMAIN heap' = Instances
      BY <1>2, AssignKeeps DEF VectorsInv
    <2> QED
      BY <1>2, <2>1, AnswersKeep DEF X!Written
  <1>3. CASE X!create_vector3d(heap[this].class, this, k, i, v)
    BY <1>3, CreateVectorKeeps
  <1> QED
    BY <1>1, <1>2, <1>3 DEF X!vector3d_op

\* Every function of the two classes keeps it.
LEMMA VectorsKeep ==
  ASSUME VectorsInv, X!Next
  PROVE  VectorsInv'
  <1>1. CASE \E k \in 1 .. MaxRegisters : X!Load(k)
    <2>1. PICK k \in 1 .. MaxRegisters : X!Load(k)
      BY <1>1
    <2>2. registers' \in Seq(Instances \cup {X!Number}) /\ DOMAIN heap' = Instances
      BY <2>1, AssignKeeps DEF X!Load, VectorsInv
    <2> QED
      BY <2>1, <2>2, AnswersKeep DEF X!Load
  <1>2. CASE X!Methods
    <2>1. PICK k \in 1 .. MaxRegisters, i \in Instances, v \in Coordinates :
            \/ \E class \in X!Classes, n \in 0 .. 4 : X!vector3d_ctor(class, n, k, i, v)
            \/ \E this \in Instances : X!vector3d_get(this) \/ X!vector3d_len(this)
            \/ \E this \in Instances, other \in X!Held : X!vector3d_dot(this, other)
            \/ \E this \in Instances : X!vector3d_set(this, v)
            \/ \E this \in Instances, other \in X!Held \cup {X!Number}, assign \in BOOLEAN :
                 X!vector3d_op(this, other, assign, k, i, v)
            \/ \E this \in Instances, other \in X!Held : X!vector3d_cross(this, other, k, i, v)
            \/ \E this \in Instances : X!vector3d_ang(this, k, i, v)
            \/ \E this \in Instances : X!qangle_fwd(this, k, i, v)
      BY <1>2 DEF X!Methods
    <2>2. CASE \E this \in Instances : X!Answers(this) \/ (X!Throws(this) /\ UNCHANGED registers)
      BY <2>2, AnswersKeep DEF X!Answers, X!Throws, VectorsInv
    <2>3. CASE \E this \in Instances : X!vector3d_set(this, v)
      <3>1. PICK this \in Instances : X!vector3d_set(this, v)
        BY <2>3
      <3> QED
        BY <3>1, AnswersKeep DEF X!vector3d_set, VectorsInv
    <2>4. CASE \E class \in X!Classes, on \in Instances : X!create_vector3d(class, on, k, i, v)
      BY <2>4, CreateVectorKeeps
    <2>5. CASE \E class \in X!Classes, n \in 0 .. 4 : X!vector3d_ctor(class, n, k, i, v)
      BY <2>5, CtorKeeps
    <2>6. CASE \E this \in Instances, other \in X!Held \cup {X!Number}, assign \in BOOLEAN :
                 X!vector3d_op(this, other, assign, k, i, v)
      BY <2>6, OpKeeps
    <2>7. CASE \E this \in Instances : X!vector3d_get(this) \/ X!vector3d_len(this)
      BY <2>2, <2>7 DEF X!vector3d_get, X!vector3d_len
    <2>8. CASE \E this \in Instances, other \in X!Held : X!vector3d_dot(this, other)
      BY <2>2, <2>8 DEF X!vector3d_dot
    <2>9. CASE \E this \in Instances, other \in X!Held : X!vector3d_cross(this, other, k, i, v)
      BY <2>2, <2>4, <2>9 DEF X!vector3d_cross, X!Classes
    <2>10. CASE \E this \in Instances : X!vector3d_ang(this, k, i, v)
      BY <2>4, <2>10 DEF X!vector3d_ang, X!Classes
    <2>11. CASE \E this \in Instances : X!qangle_fwd(this, k, i, v)
      BY <2>4, <2>11 DEF X!qangle_fwd, X!Classes
    <2> QED
      BY <2>1, <2>3, <2>5, <2>6, <2>7, <2>8, <2>9, <2>10, <2>11
  <1> QED
    BY <1>1, <1>2 DEF X!Next

\* A metamethod of Vector or QAngle writes the instance it is called on or makes, and no
\* other (vector3d_op, vector3d_ctor and the others of vm.cpp), with the exception of the
\* constructor without coordinates that OperandsUntouched names.
THEOREM Operands == MCSpec => []OperandsUntouched
  <1>1. MCInit => VectorsInv
    <2> SUFFICES ASSUME X!Init PROVE VectorsInv
      BY Zenon DEF MCInit
    <2> QED
      BY DEF X!Init, VectorsInv, X!OperandsUntouched
  <1>2. VectorsInv /\ [MCNext]_<<part, valuevars, cvars, xvars, mvars, hvars>> => VectorsInv'
    <2> SUFFICES ASSUME VectorsInv, X!Next \/ UNCHANGED xvars PROVE VectorsInv'
      BY Zenon DEF MCNext
    <2>1. CASE UNCHANGED xvars
      BY <2>1 DEF xvars, VectorsInv, X!OperandsUntouched
    <2> QED
      BY <2>1, VectorsKeep
  <1>3. VectorsInv => OperandsUntouched
    BY DEF VectorsInv, OperandsUntouched
  <1> QED
    BY <1>1, <1>2, <1>3, PTL DEF MCSpec

-----------------------------------------------------------------------------
(* Calls. *)

\* The module of calls counts as this one does.
LEMMA CallsCountAlike ==
  ASSUME NEW some
  PROVE  C!Cardinality(some) = Cardinality(some)
  BY DEF C!Cardinality, Cardinality, C!IsFiniteSet, IsFiniteSet

\* What the three layers count. The parameters that the binding requires end before the first
\* of the optional ones at the end, and are no more than those that the machine asks for.
LEMMA Required ==
  ASSUME NEW n \in Nat, NEW params \in [1 .. n -> C!ParamKinds]
  PROVE  /\ C!DroppedByMachine(params) \in Nat /\ C!num_required_args(params) \in 0 .. n
         /\ C!num_required_args(params) + C!DroppedByMachine(params) <= n
         /\ \A i \in 1 .. n : i > C!num_required_args(params) => C!can_be_optional(params[i])
         /\ (\A i \in 1 .. n : ~C!can_be_optional(params[i])) =>
              C!DroppedByMachine(params) = 0 /\ C!num_required_args(params) = n
         /\ n = 0 \/ ~C!can_be_optional(params[n]) => C!DroppedByMachine(params) = 0
         /\ n = 1 => C!DroppedByMachine(params) = 0
         /\ n = 1 /\ C!can_be_optional(params[1]) => C!num_required_args(params) = 0
  <1> DEFINE AllOptional(i) == \A j \in i .. n : C!can_be_optional(params[j])
             dropped == {i \in 2 .. n : AllOptional(i)}
             required == {i \in 1 .. n : ~AllOptional(i)}
             d == Cardinality(dropped)
             r == Cardinality(required)
  <1>1. C!DroppedByMachine(params) = d /\ C!num_required_args(params) = r
    <2>1. Len(params) = n
      OBVIOUS
    <2>2. \A i : C!AllOptionalFrom(params, i) <=> AllOptional(i)
      BY <2>1 DEF C!AllOptionalFrom
    <2>3. {i \in 2 .. Len(params) : C!AllOptionalFrom(params, i)} = dropped
          /\ {i \in 1 .. Len(params) : ~C!AllOptionalFrom(params, i)} = required
      BY <2>1, <2>2
    <2> QED
      BY Zenon, <2>3, CallsCountAlike DEF C!DroppedByMachine, C!num_required_args
  <1>2. IsFiniteSet(1 .. n) /\ Cardinality(1 .. n) = n
    BY FS_Interval
  <1>3. dropped \subseteq 1 .. n /\ required \subseteq 1 .. n /\ dropped \cap required = {}
    OBVIOUS
  <1>4. IsFiniteSet(dropped) /\ IsFiniteSet(required) /\ d \in Nat /\ r \in Nat
    BY <1>2, <1>3, FS_Subset, FS_CardinalityType
  <1>5. d + r <= n
    <2> HIDE DEF dropped, required
    <2>1. IsFiniteSet(dropped \cup required) /\ Cardinality(dropped \cup required) = d + r - Cardinality({})
      BY <1>3, <1>4, FS_Union
    <2>2. Cardinality(dropped \cup required) <= n
      BY <1>2, <1>3, FS_Subset
    <2> QED
      BY <1>4, <2>1, <2>2, FS_EmptySet
  <1>6. ASSUME NEW i \in 1 .. n, i > r
        PROVE  C!can_be_optional(params[i])
    <2> SUFFICES ASSUME ~AllOptional(i) PROVE FALSE
      OBVIOUS
    <2>1. 1 .. i \subseteq required
      OBVIOUS
    <2>2. Cardinality(1 .. i) = i
      BY FS_Interval
    <2> HIDE DEF required
    <2>3. i <= r
      BY <1>4, <2>1, <2>2, FS_Subset
    <2> QED
      BY <1>4, <1>6, <2>3
  <1>7. ASSUME \A i \in 1 .. n : ~C!can_be_optional(params[i])
        PROVE  d = 0 /\ r = n
    <2>1. dropped = {} /\ required = 1 .. n
      BY <1>7
    <2> QED
      BY <1>2, <2>1, FS_EmptySet
  <1>8. ASSUME n = 0 \/ ~C!can_be_optional(params[n])
        PROVE  d = 0
    <2>1. dropped = {}
      BY <1>8
    <2> QED
      BY <2>1, FS_EmptySet
  <1>9. ASSUME n = 1
        PROVE  d = 0 /\ (C!can_be_optional(params[1]) => r = 0)
    <2>1. dropped = {} /\ (C!can_be_optional(params[1]) => required = {})
      BY <1>9
    <2> QED
      BY <2>1, FS_EmptySet
  <1> HIDE DEF d, r
  <1> QED
    BY <1>1, <1>4, <1>5, <1>6, <1>7, <1>8, <1>9

\* A function, and arguments for it.
IsFunction(f, n) ==
  /\ n \in Nat /\ f.params \in [1 .. n -> C!ParamKinds] /\ f.va \in BOOLEAN
  /\ f.va => \A i \in 1 .. n : ~C!can_be_optional(f.params[i])
IsGiven(as) == \E k \in Nat : as \in [1 .. k -> C!ArgKinds]

\* What the machine lets through is enough for the layers under it, and only an optional
\* argument at the end is too much for them.
LEMMA Admitted ==
  ASSUME NEW f, NEW n, IsFunction(f, n), NEW as, IsGiven(as), C!MachineAdmits(f, as)
  PROVE  /\ C!FuncCallAdmits(f, as)
         /\ C!BindingAdmits(f, as) \/ (~f.va /\ Len(as) > C!num_required_args(f.params))
         /\ C!BindingAdmits(f, as) => ~(~f.va /\ Len(as) > C!num_required_args(f.params))
         /\ C!BindingAdmits(f, as) => (f.params = <<"optional">> => f.va)
  <1>1. PICK k \in Nat : as \in [1 .. k -> C!ArgKinds]
    BY DEF IsGiven
  <1>2. Len(as) = k /\ Len(f.params) = n /\ n \in Nat /\ f.va \in BOOLEAN /\ f.params \in [1 .. n -> C!ParamKinds]
    BY <1>1 DEF IsFunction
  <1>3. PICK params \in [1 .. n -> C!ParamKinds] : params = f.params
    BY <1>2
  <1>4. PICK d \in Nat, r \in 0 .. n : d = C!DroppedByMachine(params) /\ r = C!num_required_args(params)
    BY <1>2, Required
  <1>5. r + d <= n /\ (n = 0 \/ ~C!can_be_optional(params[n]) => d = 0) /\ (f.va => d = 0 /\ r = n)
        /\ (n = 1 => d = 0) /\ (n = 1 /\ C!can_be_optional(params[1]) => r = 0)
    BY <1>2, <1>3, <1>4, Required DEF IsFunction
  <1>6. IF f.va \/ d > 0 THEN k >= n - d ELSE k = n - d
    BY <1>2, <1>3, <1>4 DEF C!MachineAdmits, C!AtLeast, C!nparamscheck
  <1>7. C!FuncCallAdmits(f, as)
    <2>1. C!va_or_last_optional(f) <=> f.va \/ (n # 0 /\ C!can_be_optional(params[n]))
      BY <1>2, <1>3 DEF C!va_or_last_optional
    <2> QED
      BY <1>2, <1>3, <1>4, <1>5, <1>6, <2>1 DEF C!FuncCallAdmits
  <1>8. C!BindingAdmits(f, as) <=> IF f.va THEN k >= r ELSE k = r
    BY <1>2, <1>3, <1>4 DEF C!BindingAdmits
  <1>9. k >= r
    BY <1>1, <1>2, <1>4, <1>5, <1>6
  <1>10. params = <<"optional">> => n = 1 /\ C!can_be_optional(params[1])
    BY <1>2, <1>3 DEF C!can_be_optional
  <1>11. /\ C!BindingAdmits(f, as) \/ (~f.va /\ k > r)
         /\ C!BindingAdmits(f, as) => ~(~f.va /\ k > r)
    <2>1. CASE f.va
      BY <1>8, <1>9, <2>1
    <2>2. CASE ~f.va
      <3>1. C!BindingAdmits(f, as) <=> k = r
        BY <1>8, <2>2
      <3>2. k = r <=> ~(k > r)
        BY <1>1, <1>4, <1>9
      <3> QED
        BY <2>2, <3>1, <3>2
    <2> QED
      BY <2>1, <2>2
  <1>12. ASSUME C!BindingAdmits(f, as), params = <<"optional">>
         PROVE  f.va
    <2>1. n = 1 /\ d = 0 /\ r = 0
      BY <1>5, <1>10, <1>12
    <2>2. ~f.va => k = 1 /\ k = 0
      BY <1>6, <1>8, <1>12, <2>1
    <2> QED
      BY <1>2, <2>2
  <1> QED
    BY <1>2, <1>3, <1>4, <1>7, <1>11, <1>12

\* What the binding gives to the function is what the script gave.
LEMMA Seen ==
  ASSUME NEW f, NEW n, IsFunction(f, n), NEW as, IsGiven(as), C!MachineAdmits(f, as), C!BindingAdmits(f, as)
  PROVE  /\ Len(C!Fixed(f.params, as)) = Len(f.params)
         /\ \A i \in DOMAIN f.params :
              IF i <= Len(as) THEN /\ C!Fixed(f.params, as)[i] = C!ToValue(f.params[i], as[i])
                                   /\ as[i] \in C!typemask(f.params[i])
                              ELSE C!Fixed(f.params, as)[i] = "missing" /\ C!can_be_optional(f.params[i])
         /\ C!Rest(f, as) = SubSeq(as, Len(f.params) + 1, Len(as))
  <1>1. PICK k \in Nat : as \in [1 .. k -> C!ArgKinds]
    BY DEF IsGiven
  <1>2. Len(as) = k /\ Len(f.params) = n /\ n \in Nat /\ f.va \in BOOLEAN /\ f.params \in [1 .. n -> C!ParamKinds]
    BY <1>1 DEF IsFunction
  <1>3. PICK params \in [1 .. n -> C!ParamKinds] : params = f.params
    BY <1>2
  <1>4. PICK r \in 0 .. n : r = C!num_required_args(params)
    BY <1>2, Required
  <1>5. (\A i \in 1 .. n : i > r => C!can_be_optional(params[i])) /\ (f.va => r = n)
    BY <1>2, <1>3, <1>4, Required DEF IsFunction
  <1>6. IF f.va THEN k >= r ELSE k = r
    BY <1>2, <1>3, <1>4 DEF C!BindingAdmits
  <1>7. \A i \in 1 .. k : i <= n => as[i] \in C!typemask(params[i])
    BY <1>2, <1>3 DEF C!MachineAdmits
  <1>8. C!Fixed(params, as) = [i \in 1 .. n |-> IF i <= k THEN C!ToValue(params[i], as[i]) ELSE "missing"]
    BY <1>2, <1>3 DEF C!Fixed
  <1>9. C!Rest(f, as) = SubSeq(as, n + 1, k)
    <2>1. CASE f.va
      BY <1>2, <1>3, <1>4, <1>5, <2>1 DEF C!Rest
    <2>2. CASE ~f.va
      <3>1. SubSeq(as, n + 1, k) = <<>>
        <4>1. n + 1 \in Int /\ k \in Int /\ k < n + 1
          BY <1>1, <1>2, <1>4, <1>6, <2>2
        <4> QED
          BY Zenon, <4>1, SubSeqEmpty
      <3> QED
        BY <2>2, <3>1 DEF C!Rest
    <2> QED
      BY <2>1, <2>2
  <1>10. ASSUME NEW i \in 1 .. n
         PROVE  IF i <= k THEN C!Fixed(params, as)[i] = C!ToValue(params[i], as[i]) /\ as[i] \in C!typemask(params[i])
                          ELSE C!Fixed(params, as)[i] = "missing" /\ C!can_be_optional(params[i])
    <2>1. C!Fixed(params, as)[i] = IF i <= k THEN C!ToValue(params[i], as[i]) ELSE "missing"
      BY <1>8
    <2>2. CASE i <= k
      <3>1. i \in 1 .. k /\ i <= n
        BY <1>1, <1>2, <2>2
      <3> QED
        BY <1>7, <2>1, <2>2, <3>1
    <2>3. CASE ~(i <= k)
      <3>1. i > r
        BY <1>1, <1>2, <1>4, <1>6, <2>3
      <3> QED
        BY <1>5, <2>1, <2>3, <3>1
    <2> QED
      BY <2>2, <2>3
  <1>11. Len(C!Fixed(params, as)) = n
    BY <1>2, <1>8
  <1> QED
    BY <1>2, <1>3, <1>9, <1>10, <1>11
\* A call that was not refused has been let through by the layers it has passed.
CallFits ==
  /\ IsFunction(func, Len(func.params)) /\ IsGiven(args)
  /\ at \in {"described", "registered", "func_call", "binding", "done"}
  /\ at # "done" => refused = "no"
  /\ object \in C!ObjectStates
  /\ at \in {"func_call", "binding"} => C!MachineAdmits(func, args)
  /\ at = "binding" => object # "of another class"

\* The invariant of a call.
CallsInv == CallFits /\ C!CalledWithAll /\ C!OptionalIsRefused

\* A call that is not done, or was refused by the machine, keeps the properties.
LEMMA NotCalled ==
  ASSUME CallFits', at' # "done" \/ refused' \in {"register_func", "machine"}
  PROVE  CallsInv'
  BY DEF CallFits, CallsInv, C!CalledWithAll, C!OptionalIsRefused, C!Called

\* Every step of a call keeps the invariant.
LEMMA CallsKeep ==
  ASSUME CallsInv, C!Next
  PROVE  CallsInv'
  <1>1. CASE C!register_func
    <2>1. CallFits'
      BY <1>1 DEF C!register_func, C!Refuse, CallsInv, CallFits
    <2> QED
      BY <1>1, <2>1, NotCalled DEF C!register_func, C!Refuse, CallsInv, CallFits
  <1>2. CASE C!func_call
    <2>1. CallFits'
      BY <1>2 DEF C!func_call, C!Refuse, CallsInv, CallFits
    <2>2. CASE at' # "done"
      BY <2>1, <2>2, NotCalled
    <2>3. CASE at' = "done"
      <3>1. refused' = "func_call" /\ UNCHANGED <<object, func, args>>
            /\ ~(object # "of another class" /\ C!FuncCallAdmits(func, args))
        BY <1>2, <2>3 DEF C!func_call, C!Refuse
      <3>2. C!FuncCallAdmits(func, args)
        BY <1>2, Admitted DEF C!func_call, CallsInv, CallFits
      <3> QED
        BY <2>1, <3>1, <3>2 DEF CallsInv, C!CalledWithAll, C!OptionalIsRefused, C!Called
    <2> QED
      BY <2>2, <2>3
  <1>3. CASE C!binding
    <2>1. CallFits' /\ UNCHANGED <<func, args, object>> /\ at' = "done"
      BY <1>3 DEF C!binding, C!Refuse, CallsInv, CallFits
    <2>2. /\ IsFunction(func, Len(func.params)) /\ IsGiven(args) /\ C!MachineAdmits(func, args)
          /\ object # "of another class" /\ object \in C!ObjectStates
      BY <1>3 DEF C!binding, CallsInv, CallFits
    <2>3. CASE object # "removed" /\ C!BindingAdmits(func, args)
      <3>1. refused' = "no" /\ seen' = [fixed |-> C!Fixed(func.params, args), va |-> C!Rest(func, args)]
        BY <1>3, <2>3 DEF C!binding, CallsInv, CallFits
      <3>2. object = "alive"
        BY <2>2, <2>3 DEF C!ObjectStates
      <3>3. C!CalledWithAll'
        BY Zenon, <2>1, <2>2, <2>3, <3>1, Seen DEF C!CalledWithAll
      <3>4. C!OptionalIsRefused'
        BY <2>1, <2>2, <2>3, <3>1, <3>2, Admitted DEF C!OptionalIsRefused
      <3> QED
        BY <2>1, <3>3, <3>4 DEF CallsInv
    <2>4. CASE ~(object # "removed" /\ C!BindingAdmits(func, args))
      <3>1. refused' = "binding"
        BY <1>3, <2>4 DEF C!binding, C!Refuse
      <3>2. object = "removed" \/ (~func.va /\ Len(args) > C!num_required_args(func.params))
        BY <2>2, <2>4, Admitted
      <3> QED
        BY <2>1, <3>1, <3>2 DEF CallsInv, C!CalledWithAll, C!OptionalIsRefused, C!Called
    <2> QED
      BY <2>3, <2>4
  <1>4. CASE \E n \in 0 .. MaxGiven, obj \in C!ObjectStates : \E as \in [1 .. n -> C!ArgKinds] : C!Call(as, obj)
    <2>1. PICK n \in 0 .. MaxGiven, obj \in C!ObjectStates : \E as \in [1 .. n -> C!ArgKinds] : C!Call(as, obj)
      BY <1>4
    <2>2. PICK as \in [1 .. n -> C!ArgKinds] : C!Call(as, obj)
      BY <2>1
    <2>3. n \in Nat
      OBVIOUS
    <2>4. IsGiven(as)
      BY <2>2, <2>3 DEF IsGiven
    <2>5. CallFits'
      BY <2>2, <2>4 DEF C!Call, C!Refuse, CallsInv, CallFits
    <2>6. at' # "done" \/ refused' = "machine"
      BY <2>2 DEF C!Call, C!Refuse
    <2> QED
      BY <2>5, <2>6, NotCalled
  <1> QED
    BY <1>1, <1>2, <1>3, <1>4 DEF C!Next

\* It holds before the call.
LEMMA CallsInit == MCInit => CallsInv
  <1> SUFFICES ASSUME C!Init PROVE CallsInv
    BY Zenon DEF MCInit
  <1>1. PICK n \in 0 .. MaxParams : func.params \in [1 .. n -> C!ParamKinds]
    BY DEF C!Init, C!Functions
  <1>2. n \in Nat /\ Len(func.params) = n
    BY <1>1
  <1>3. func.va \in BOOLEAN /\ (func.va => \A i \in DOMAIN func.params : func.params[i] # "optional")
    BY DEF C!Init, C!Functions
  <1>4. IsFunction(func, n)
    BY <1>1, <1>2, <1>3 DEF IsFunction, C!can_be_optional
  <1>5. IsGiven(args)
    <2>1. args = <<>> /\ <<>> \in [1 .. 0 -> C!ArgKinds]
      BY DEF C!Init
    <2> QED
      BY <2>1 DEF IsGiven
  <1> QED
    BY <1>2, <1>4, <1>5 DEF C!Init, CallsInv, CallFits, C!CalledWithAll, C!OptionalIsRefused, C!Called, C!ObjectStates

\* A native function that is called gets every argument, and fewer than it requires or
\* more than it takes end in the layer that the code has for it: check_args and the
\* counts of function_desc.tpp, plugin.hpp and vm.cpp, for any number of parameters.
THEOREM CallsComplete == MCSpec => [](C!CalledWithAll /\ C!OptionalIsRefused)
  <1>1. CallsInv /\ [MCNext]_<<part, valuevars, cvars, xvars, mvars, hvars>> => CallsInv'
    <2> SUFFICES ASSUME CallsInv, C!Next \/ UNCHANGED cvars PROVE CallsInv'
      BY Zenon DEF MCNext
    <2>1. CASE UNCHANGED cvars
      BY <2>1 DEF cvars, CallsInv, CallFits, C!CalledWithAll, C!OptionalIsRefused, C!Called
    <2> QED
      BY <2>1, CallsKeep
  <1>2. CallsInv => C!CalledWithAll /\ C!OptionalIsRefused
    BY DEF CallsInv
  <1> QED
    BY CallsInit, <1>1, <1>2, PTL DEF MCSpec

-----------------------------------------------------------------------------
(* Handles. *)

\* What a wrapper can have, and the handles of a scope, all of them and those that count.
HandleSet == [type : {"none", "PLAIN", "INSTANCE", "SCOPE"}, scope : Nat, counts : BOOLEAN]
OfScope(s) == {x \in HandleSet : x.scope = s}
CountedOf(s) == {x \in HandleSet : x.type = "SCOPE" /\ x.scope = s /\ x.counts}

\* The wrappers that have one of these, and their number.
Having(f, some) == {h \in Holders : f[h] \in some}
Number(f, some) == Cardinality(Having(f, some))

\* What they have when one of them has another handle than before.
Changed(f, h, x) == [f EXCEPT ![h] = x]

LEMMA NumberChanges ==
  ASSUME NEW f \in [Holders -> HandleSet], NEW h \in Holders, NEW x \in HandleSet, NEW some
  PROVE  /\ Number(f, some) \in Nat
         /\ Number(Changed(f, h, x), some) =
              Number(f, some) - (IF f[h] \in some THEN 1 ELSE 0) + (IF x \in some THEN 1 ELSE 0)
  <1> DEFINE before == Having(f, some)
             after == Having(Changed(f, h, x), some)
  <1>1. IsFiniteSet(before) /\ Cardinality(before) \in Nat
    BY HandlesAssumption, FS_Subset, FS_CardinalityType DEF Having
  <1>2. h \in before <=> f[h] \in some
    BY DEF Having
  <1>3. CASE x \in some
    <2>1. after = before \cup {h}
      BY <1>3 DEF Having, Changed
    <2>2. Cardinality(after) = IF h \in before THEN Cardinality(before) ELSE Cardinality(before) + 1
      BY <1>1, <2>1, FS_AddElement
    <2> QED
      BY <1>1, <1>2, <1>3, <2>2 DEF Number
  <1>4. CASE x \notin some
    <2>1. after = before \ {h}
      BY <1>4 DEF Having, Changed
    <2>2. Cardinality(after) = IF h \in before THEN Cardinality(before) - 1 ELSE Cardinality(before)
      BY <1>1, <2>1, FS_RemoveElement
    <2> QED
      BY <1>1, <1>2, <1>4, <2>2 DEF Number
  <1> QED
    BY <1>3, <1>4

\* Somebody has one when their number is not zero.
LEMMA NumberOne ==
  ASSUME NEW f \in [Holders -> HandleSet], NEW some
  PROVE  Number(f, some) \in Nat /\ (Number(f, some) > 0 <=> \E h \in Holders : f[h] \in some)
  <1>1. IsFiniteSet(Having(f, some))
    BY HandlesAssumption, FS_Subset DEF Having
  <1>2. Number(f, some) \in Nat /\ (Number(f, some) = 0 <=> Having(f, some) = {})
    BY <1>1, FS_CardinalityType, FS_EmptySet DEF Number
  <1> QED
    BY <1>2 DEF Having

\* The module of handles counts as this one does.
LEMMA HandlesCountAlike ==
  ASSUME NEW some
  PROVE  H!Cardinality(some) = Cardinality(some)
  BY DEF H!Cardinality, Cardinality, H!IsFiniteSet, IsFiniteSet

\* What is counted of a scope r, that k handles count for, of which there are n: while it is
\* linked under its name it is counted at least once or stays there for ever; until it was
\* dissolved it is linked; it counts for no more than there are handles, and for no less.
ScopeFits(r, k, n, is_linked, is_lost, is_uncounted) ==
  /\ is_linked => (r.dissolved => r.stays) /\ (r.stays \/ r.refs >= 1)
  /\ ~r.dissolved => is_linked
  /\ ~is_lost => r.refs <= n
  /\ ~is_uncounted => r.refs >= k /\ r.refs >= 0 /\ (k > 0 => is_linked)

ScopeSet == [name : ScopeNames, refs : Int, get : BOOLEAN, runs : Nat, dissolved : BOOLEAN, stays : BOOLEAN]

\* What is where; every scope fits; and a wrapper that has no instance has none that points to
\* its object, unless it was overwritten.
HandlesFit ==
  /\ held \in [Holders -> HandleSet] /\ scopes \in Seq(ScopeSet) /\ linked \in [ScopeNames -> Nat]
  /\ points \in [Holders -> Int]
  /\ \A h \in Holders : /\ held[h].type = "SCOPE" <=> held[h].scope # 0
                        /\ held[h].scope <= Len(scopes)
  /\ \A n \in ScopeNames : linked[n] # 0 => linked[n] <= Len(scopes) /\ scopes[linked[n]].name = n
ScopesFit ==
  \A s \in DOMAIN scopes :
    ScopeFits(scopes[s], Number(held, CountedOf(s)), Number(held, OfScope(s)),
         linked[scopes[s].name] = s, s \in lost, s \in uncounted)
PointsFit ==
  \A h \in Holders : h \notin lost => points[h] <= IF held[h].type = "INSTANCE" THEN 1 ELSE 0

\* The invariant of handles.
HandlesInv == HandlesFit /\ ScopesFit /\ PointsFit /\ H!FreshScope /\ H!ReachedOnlyBy

\* A scope is changed.
LEMMA ScopeChanged ==
  ASSUME scopes \in Seq(ScopeSet), NEW s \in DOMAIN scopes, NEW r \in ScopeSet
  PROVE  LET new == [scopes EXCEPT ![s] = r]
         IN  /\ new \in Seq(ScopeSet) /\ Len(new) = Len(scopes) /\ DOMAIN new = DOMAIN scopes
             /\ new[s] = r /\ \A t \in DOMAIN scopes : t # s => new[t] = scopes[t]
  <1>1. \A t \in DOMAIN scopes : scopes[t] \in ScopeSet
    OBVIOUS
  <1> QED
    BY <1>1

\* HandlesHold from the invariant.
LEMMA HandlesImplied ==
  ASSUME HandlesInv
  PROVE  HandlesHold
  <1>1. ASSUME NEW s \in DOMAIN scopes
        PROVE  /\ s \notin uncounted =>
                    /\ scopes[s].refs >= H!Cardinality(H!Counting(s))
                    /\ H!Counting(s) # {} => linked[scopes[s].name] = s /\ (scopes[s].dissolved => scopes[s].stays)
               /\ scopes[s].refs < 0 => s \in uncounted
    <2>1. H!Counting(s) = Having(held, CountedOf(s))
      BY DEF H!Counting, Having, CountedOf, HandlesInv, HandlesFit
    <2>2. H!Cardinality(H!Counting(s)) = Number(held, CountedOf(s))
      BY <2>1, HandlesCountAlike DEF Number
    <2>3. H!Counting(s) # {} => Number(held, CountedOf(s)) > 0
      BY <2>1, NumberOne DEF HandlesInv, HandlesFit, Having
    <2>4. ScopeFits(scopes[s], Number(held, CountedOf(s)), Number(held, OfScope(s)),
               linked[scopes[s].name] = s, s \in lost, s \in uncounted)
      BY DEF HandlesInv, ScopesFit
    <2>5. scopes[s] \in ScopeSet
      BY DEF HandlesInv, HandlesFit
    <2>6. scopes[s].refs \in Int
      BY <2>5 DEF ScopeSet
    <2> QED
      BY <2>2, <2>3, <2>4, <2>6 DEF ScopeFits
  <1> QED
    BY <1>1 DEF HandlesInv, HandlesHold, H!HandlesHold, H!ScopeKept

\* A scope is released: it stays or is not found any more, and others are where they were.
LEMMA Released ==
  ASSUME HandlesFit, ScopesFit, NEW s \in DOMAIN scopes, H!OnReleaseScope(s)
  PROVE  /\ scopes' \in Seq(ScopeSet) /\ DOMAIN scopes' = DOMAIN scopes /\ Len(scopes') = Len(scopes)
         /\ linked' \in [ScopeNames -> Nat]
         /\ \A n \in ScopeNames : linked'[n] # 0 => linked'[n] <= Len(scopes') /\ scopes'[linked'[n]].name = n
         /\ \A t \in DOMAIN scopes : t # s =>
              scopes'[t] = scopes[t] /\ (linked'[scopes'[t].name] = t <=> linked[scopes[t].name] = t)
         /\ \A k, n \in Nat :
              ScopeFits(scopes[s], k, n, linked[scopes[s].name] = s, s \in lost, s \in uncounted) =>
                /\ k > 0 => ScopeFits(scopes'[s], k - 1, n - 1, linked'[scopes'[s].name] = s, s \in lost, s \in uncounted)
                /\ ScopeFits(scopes'[s], k, n - 1, linked'[scopes'[s].name] = s, s \in lost, TRUE)
  <1>1. scopes[s] \in ScopeSet /\ scopes \in Seq(ScopeSet) /\ s \in Nat /\ s # 0
    BY DEF HandlesFit
  <1>2. PICK q \in ScopeSet : q = scopes[s]
    BY <1>1
  <1>3. /\ q.name \in ScopeNames /\ q.refs \in Int /\ q.get \in BOOLEAN
        /\ q.dissolved \in BOOLEAN /\ q.stays \in BOOLEAN /\ q.runs \in Nat
    BY DEF ScopeSet
  <1>31. PICK count \in Int : count = q.refs - 1
    BY <1>3
  <1>32. PICK d \in BOOLEAN : d = (q.dissolved \/ q.refs - 1 = 0)
    OBVIOUS
  <1>33. PICK l \in BOOLEAN : l = (q.stays \/ (q.refs - 1 = 0 /\ q.get))
    OBVIOUS
  <1>34. PICK g \in BOOLEAN : g = (q.get /\ q.refs - 1 # 0)
    OBVIOUS
  <1>4. PICK r : r = [q EXCEPT !.refs = count, !.dissolved = d, !.stays = l, !.get = g]
    OBVIOUS
  <1>5. r \in ScopeSet /\ r.name = q.name /\ r.refs = count /\ r.dissolved = d /\ r.stays = l
    BY <1>4 DEF ScopeSet
  <1>51. /\ r.refs = q.refs - 1
         /\ r.dissolved <=> (q.dissolved \/ q.refs - 1 = 0)
         /\ r.stays <=> (q.stays \/ (q.refs - 1 = 0 /\ q.get))
    BY <1>31, <1>32, <1>33, <1>5
  <1>6. scopes' = [scopes EXCEPT ![s] = r]
    BY <1>2, <1>31, <1>32, <1>33, <1>34, <1>4, Zenon DEF H!OnReleaseScope
  <1>7. linked' = IF q.refs - 1 = 0 /\ ~(q.dissolved \/ q.get) THEN [linked EXCEPT ![q.name] = 0] ELSE linked
    BY <1>2 DEF H!OnReleaseScope, H!Unlink
  <1>8. /\ scopes' \in Seq(ScopeSet) /\ DOMAIN scopes' = DOMAIN scopes /\ Len(scopes') = Len(scopes)
        /\ scopes'[s] = r /\ \A t \in DOMAIN scopes : t # s => scopes'[t] = scopes[t]
    BY <1>1, <1>5, <1>6, ScopeChanged
  <1>9. linked \in [ScopeNames -> Nat] /\ linked' \in [ScopeNames -> Nat]
    BY <1>7 DEF HandlesFit
  <1>10. \A n \in ScopeNames : linked'[n] = linked[n] \/ (linked'[n] = 0 /\ n = q.name /\ ~q.dissolved /\ ~q.get /\ q.refs - 1 = 0)
    BY <1>3, <1>7, <1>9
  <1>11. ScopeFits(q, Number(held, CountedOf(s)), Number(held, OfScope(s)),
              linked[q.name] = s, s \in lost, s \in uncounted)
    BY <1>2 DEF ScopesFit
  <1>12. ~q.dissolved => linked[q.name] = s
    BY <1>11 DEF ScopeFits
  <1>13. ASSUME NEW n \in ScopeNames, linked'[n] # 0
         PROVE  linked'[n] <= Len(scopes') /\ scopes'[linked'[n]].name = n
    <2>1. PICK t \in Nat : t = linked[n]
      BY <1>9
    <2>2. linked'[n] = t /\ t # 0 /\ t <= Len(scopes) /\ scopes[t].name = n
      BY <1>10, <1>13, <2>1 DEF HandlesFit
    <2>3. t \in DOMAIN scopes
      BY <1>1, <2>1, <2>2
    <2>4. scopes'[t].name = n
      BY <1>2, <1>5, <1>8, <2>2, <2>3
    <2> QED
      BY <1>8, <2>2, <2>4
  <1>14. ASSUME NEW t \in DOMAIN scopes, t # s
         PROVE  scopes'[t] = scopes[t] /\ (linked'[scopes'[t].name] = t <=> linked[scopes[t].name] = t)
    <2>1. scopes[t] \in ScopeSet /\ t # 0
      BY <1>1
    <2>2. scopes[t].name \in ScopeNames
      BY <2>1 DEF ScopeSet
    <2> QED
      BY <1>8, <1>10, <1>12, <1>14, <2>1, <2>2
  <1>15. ASSUME NEW k \in Nat, NEW n \in Nat, ScopeFits(q, k, n, linked[q.name] = s, s \in lost, s \in uncounted)
         PROVE  /\ k > 0 => ScopeFits(r, k - 1, n - 1, linked'[q.name] = s, s \in lost, s \in uncounted)
                /\ ScopeFits(r, k, n - 1, linked'[q.name] = s, s \in lost, TRUE)
    <2>1. linked'[q.name] = s <=> linked[q.name] = s /\ ~(q.refs - 1 = 0 /\ ~q.dissolved /\ ~q.get)
      BY <1>1, <1>3, <1>7, <1>9
    <2> QED
      BY <1>3, <1>51, <1>15, <2>1 DEF ScopeFits
  <1> QED
    BY <1>2, <1>5, <1>51, <1>8, <1>9, <1>13, <1>14, <1>15

\* A wrapper that has nothing has no scope's handle.
LEMMA EmptyHasNone ==
  /\ H!Empty \in HandleSet /\ H!Empty.type = "none" /\ H!Empty.scope = 0
  /\ \A s : s # 0 => H!Empty \notin OfScope(s) /\ H!Empty \notin CountedOf(s)
  BY DEF H!Empty, H!Handle, HandleSet, OfScope, CountedOf

\* Whose handle a handle is.
LEMMA WhoseHandle ==
  ASSUME NEW x \in HandleSet, NEW s
  PROVE  /\ x \in OfScope(s) <=> x.scope = s
         /\ x \in CountedOf(s) <=> x.type = "SCOPE" /\ x.scope = s /\ x.counts
  BY DEF OfScope, CountedOf

\* The handle that a wrapper has is freed.
LEMMA HandleFreed ==
  ASSUME HandlesFit, ScopesFit, NEW h \in Holders, H!ReleaseScope(h), UNCHANGED lost,
         NEW f, f = Changed(held, h, H!Empty)
  PROVE  /\ f \in [Holders -> HandleSet]
         /\ scopes' \in Seq(ScopeSet) /\ Len(scopes') = Len(scopes) /\ linked' \in [ScopeNames -> Nat]
         /\ \A n \in ScopeNames : linked'[n] # 0 => linked'[n] <= Len(scopes') /\ scopes'[linked'[n]].name = n
         /\ \A t \in DOMAIN scopes' :
              ScopeFits(scopes'[t], Number(f, CountedOf(t)), Number(f, OfScope(t)),
                   linked'[scopes'[t].name] = t, t \in lost', t \in uncounted')
  <1>1. held \in [Holders -> HandleSet] /\ held[h] \in HandleSet
    BY DEF HandlesFit
  <1>2. f \in [Holders -> HandleSet]
    BY <1>1, EmptyHasNone DEF Changed
  <1>3. \A t \in DOMAIN scopes : t \in Nat /\ t # 0
    BY DEF HandlesFit
  <1>4. ASSUME NEW t \in DOMAIN scopes
        PROVE  /\ Number(held, OfScope(t)) \in Nat /\ Number(held, CountedOf(t)) \in Nat
               /\ held[h] \in OfScope(t) => Number(f, OfScope(t)) = Number(held, OfScope(t)) - 1
               /\ held[h] \notin OfScope(t) => Number(f, OfScope(t)) = Number(held, OfScope(t))
               /\ held[h] \in CountedOf(t) => Number(f, CountedOf(t)) = Number(held, CountedOf(t)) - 1
               /\ held[h] \notin CountedOf(t) => Number(f, CountedOf(t)) = Number(held, CountedOf(t))
               /\ Number(held, CountedOf(t)) > 0 <=> \E x \in Holders : held[x] \in CountedOf(t)
    <2>1. H!Empty \notin OfScope(t) /\ H!Empty \notin CountedOf(t) /\ H!Empty \in HandleSet
      BY <1>3, EmptyHasNone
    <2>2. /\ Number(held, OfScope(t)) \in Nat
          /\ Number(f, OfScope(t)) = Number(held, OfScope(t)) - (IF held[h] \in OfScope(t) THEN 1 ELSE 0) + 0
      BY <1>1, <2>1, NumberChanges
    <2>3. /\ Number(held, CountedOf(t)) \in Nat
          /\ Number(f, CountedOf(t)) = Number(held, CountedOf(t)) - (IF held[h] \in CountedOf(t) THEN 1 ELSE 0) + 0
      BY <1>1, <2>1, NumberChanges
    <2> QED
      BY <1>1, <2>2, <2>3, NumberOne
  <1>5. CASE held[h].type = "SCOPE"
    <2>1. PICK s : s = held[h].scope
      OBVIOUS
    <2>2. s \in DOMAIN scopes /\ H!OnReleaseScope(s)
      <3>1. s \in Nat /\ s # 0 /\ s <= Len(scopes) /\ scopes \in Seq(ScopeSet)
        BY <1>1, <1>5, <2>1 DEF HandlesFit, HandleSet
      <3> QED
        BY <1>5, <2>1, <3>1 DEF H!ReleaseScope
    <2>3. uncounted' = IF held[h].counts THEN uncounted ELSE uncounted \cup {s}
      BY <1>5, <2>1 DEF H!ReleaseScope
    <2>4. /\ scopes' \in Seq(ScopeSet) /\ DOMAIN scopes' = DOMAIN scopes /\ Len(scopes') = Len(scopes)
          /\ linked' \in [ScopeNames -> Nat]
          /\ \A n \in ScopeNames : linked'[n] # 0 => linked'[n] <= Len(scopes') /\ scopes'[linked'[n]].name = n
      BY <2>2, Released
    <2>5. ASSUME NEW t \in DOMAIN scopes, t # s
          PROVE  ScopeFits(scopes'[t], Number(f, CountedOf(t)), Number(f, OfScope(t)),
                      linked'[scopes'[t].name] = t, t \in lost', t \in uncounted')
      <3>0. held[h] \notin OfScope(t) /\ held[h] \notin CountedOf(t)
        BY <1>1, <2>1, <2>5, WhoseHandle
      <3>1. Number(f, CountedOf(t)) = Number(held, CountedOf(t)) /\ Number(f, OfScope(t)) = Number(held, OfScope(t))
        BY <1>4, <3>0
      <3>2. scopes'[t] = scopes[t] /\ (linked'[scopes'[t].name] = t <=> linked[scopes[t].name] = t)
        BY <2>2, <2>5, Released
      <3>3. t \in uncounted' <=> t \in uncounted
        BY <2>3, <2>5
      <3>4. ScopeFits(scopes[t], Number(held, CountedOf(t)), Number(held, OfScope(t)),
                 linked[scopes[t].name] = t, t \in lost, t \in uncounted)
        BY DEF ScopesFit
      <3> QED
        BY <3>1, <3>2, <3>3, <3>4 DEF ScopeFits
    <2>6. ScopeFits(scopes'[s], Number(f, CountedOf(s)), Number(f, OfScope(s)),
               linked'[scopes'[s].name] = s, s \in lost', s \in uncounted')
      <3>1. ScopeFits(scopes[s], Number(held, CountedOf(s)), Number(held, OfScope(s)),
                 linked[scopes[s].name] = s, s \in lost, s \in uncounted)
        BY <2>2 DEF ScopesFit
      <3>2. held[h] \in OfScope(s) /\ (held[h] \in CountedOf(s) <=> held[h].counts)
        BY <1>1, <1>5, <2>1, WhoseHandle
      <3>3. Number(f, OfScope(s)) = Number(held, OfScope(s)) - 1
        BY <1>4, <2>2, <3>2
      <3>4. CASE held[h].counts
        <4>1. Number(held, CountedOf(s)) > 0 /\ Number(f, CountedOf(s)) = Number(held, CountedOf(s)) - 1
          BY <1>4, <2>2, <3>2, <3>4
        <4>2. ScopeFits(scopes'[s], Number(held, CountedOf(s)) - 1, Number(held, OfScope(s)) - 1,
                   linked'[scopes'[s].name] = s, s \in lost, s \in uncounted)
          BY <1>4, <2>2, <3>1, <4>1, Released
        <4> QED
          BY <2>3, <3>3, <3>4, <4>1, <4>2
      <3>5. CASE ~held[h].counts
        <4>0. held[h] \notin CountedOf(s)
          BY <3>2, <3>5
        <4>1. Number(f, CountedOf(s)) = Number(held, CountedOf(s))
          BY <1>4, <2>2, <4>0
        <4>2. ScopeFits(scopes'[s], Number(held, CountedOf(s)), Number(held, OfScope(s)) - 1,
                   linked'[scopes'[s].name] = s, s \in lost, TRUE)
          BY <1>4, <2>2, <3>1, Released
        <4>3. s \in uncounted'
          BY <2>3, <3>5
        <4> QED
          BY <3>3, <4>1, <4>2, <4>3 DEF ScopeFits
      <3> QED
        BY <3>4, <3>5
    <2> QED
      BY <1>2, <2>4, <2>5, <2>6
  <1>6. CASE held[h].type # "SCOPE"
    <2>1. UNCHANGED <<scopes, linked, uncounted>>
      BY <1>6 DEF H!ReleaseScope
    <2>2. ASSUME NEW t \in DOMAIN scopes
          PROVE  ScopeFits(scopes[t], Number(f, CountedOf(t)), Number(f, OfScope(t)),
                      linked[scopes[t].name] = t, t \in lost, t \in uncounted)
      <3>1. held[h].scope = 0
        BY <1>6 DEF HandlesFit
      <3>0. held[h] \notin OfScope(t) /\ held[h] \notin CountedOf(t)
        BY <1>1, <1>3, <3>1, WhoseHandle
      <3>2. Number(f, CountedOf(t)) = Number(held, CountedOf(t)) /\ Number(f, OfScope(t)) = Number(held, OfScope(t))
        BY <1>4, <3>0
      <3> QED
        BY <3>2 DEF ScopesFit
    <2> QED
      BY <1>2, <2>1, <2>2 DEF HandlesFit
  <1> QED
    BY <1>5, <1>6

\* A wrapper takes over another handle, and what it had before is freed or lost.
LEMMA HandleTaken ==
  ASSUME HandlesFit, NEW h \in Holders, NEW x \in HandleSet, NEW f, f = Changed(held, h, x),
         NEW t \in DOMAIN scopes, t = held[h].scope => t \in lost', lost \subseteq lost'
  PROVE  /\ f \in [Holders -> HandleSet]
         /\ {Number(f, OfScope(t)), Number(f, CountedOf(t)), Number(held, OfScope(t)), Number(held, CountedOf(t))} \subseteq Nat
         /\ x \in CountedOf(t) => Number(f, CountedOf(t)) <= Number(held, CountedOf(t)) + 1
         /\ x \notin CountedOf(t) => Number(f, CountedOf(t)) <= Number(held, CountedOf(t))
         /\ t \notin lost' => /\ t \notin lost /\ Number(f, OfScope(t)) >= Number(held, OfScope(t))
                              /\ x \in OfScope(t) => Number(f, OfScope(t)) = Number(held, OfScope(t)) + 1
  <1>1. held \in [Holders -> HandleSet] /\ held[h] \in HandleSet
    BY DEF HandlesFit
  <1>2. f \in [Holders -> HandleSet]
    BY <1>1 DEF Changed
  <1>3. Number(held, OfScope(t)) \in Nat /\ Number(f, OfScope(t)) \in Nat
    BY <1>1, <1>2, NumberOne
  <1>30. Number(f, OfScope(t)) = Number(held, OfScope(t))
             - (IF held[h] \in OfScope(t) THEN 1 ELSE 0) + (IF x \in OfScope(t) THEN 1 ELSE 0)
    BY <1>1, NumberChanges
  <1>4. Number(held, CountedOf(t)) \in Nat /\ Number(f, CountedOf(t)) \in Nat
    BY <1>1, <1>2, NumberOne
  <1>40. Number(f, CountedOf(t)) = Number(held, CountedOf(t))
             - (IF held[h] \in CountedOf(t) THEN 1 ELSE 0) + (IF x \in CountedOf(t) THEN 1 ELSE 0)
    BY <1>1, NumberChanges
  <1>5. t \notin lost' => t \notin lost /\ held[h] \notin OfScope(t)
    BY <1>1, WhoseHandle
  <1> QED
    BY <1>2, <1>3, <1>30, <1>4, <1>40, <1>5

\* A scope that nothing was done to fits with fewer handles that count, and more handles.
LEMMA FitsStill ==
  ASSUME NEW r \in ScopeSet, NEW k \in Nat, NEW n \in Nat, NEW c \in Nat, NEW m \in Nat, c <= k,
         NEW is_linked, NEW is_lost, NEW is_uncounted, NEW is_lost_now,
         ~is_lost_now => ~is_lost /\ m >= n,
         ScopeFits(r, k, n, is_linked, is_lost, is_uncounted)
  PROVE  ScopeFits(r, c, m, is_linked, is_lost_now, is_uncounted)
  <1>1. r.refs \in Int
    BY DEF ScopeSet
  <1> QED
    BY <1>1 DEF ScopeFits

\* What is lost when a handle is overwritten.
LEMMA OverwrittenIsLost ==
  ASSUME HandlesFit, NEW h \in Holders
  PROVE  /\ lost \subseteq H!Overwritten(h)
         /\ held[h].scope # 0 => held[h].scope \in H!Overwritten(h)
         /\ held[h].type = "INSTANCE" => h \in H!Overwritten(h)
  <1>1. held[h].scope # 0 => held[h].type = "SCOPE"
    BY DEF HandlesFit
  <1> QED
    BY <1>1 DEF H!Overwritten

\* The scopes fit when a wrapper takes over a handle that does not count.
LEMMA ScopesFitTaken ==
  ASSUME HandlesFit, ScopesFit, NEW h \in Holders, NEW x \in HandleSet, ~(x.type = "SCOPE" /\ x.counts),
         held' = Changed(held, h, x), UNCHANGED <<scopes, linked, uncounted>>,
         lost \subseteq lost', held[h].scope # 0 => held[h].scope \in lost'
  PROVE  ScopesFit'
  <1>1. ASSUME NEW t \in DOMAIN scopes
        PROVE  ScopeFits(scopes[t], Number(held', CountedOf(t)), Number(held', OfScope(t)),
                    linked[scopes[t].name] = t, t \in lost', t \in uncounted)
    <2>1. t = held[h].scope => t \in lost'
      BY DEF HandlesFit
    <2>2. x \notin CountedOf(t)
      BY WhoseHandle
    <2>3. /\ {Number(held', OfScope(t)), Number(held', CountedOf(t)), Number(held, OfScope(t)), Number(held, CountedOf(t))} \subseteq Nat
          /\ Number(held', CountedOf(t)) <= Number(held, CountedOf(t))
          /\ t \notin lost' => t \notin lost /\ Number(held', OfScope(t)) >= Number(held, OfScope(t))
      BY <2>1, <2>2, HandleTaken
    <2>4. /\ ScopeFits(scopes[t], Number(held, CountedOf(t)), Number(held, OfScope(t)),
                   linked[scopes[t].name] = t, t \in lost, t \in uncounted)
          /\ scopes[t] \in ScopeSet
      BY DEF HandlesFit, ScopesFit
    <2> QED
      BY <2>3, <2>4, FitsStill
  <1> QED
    BY <1>1 DEF ScopesFit

LEMMA ReferenceScopeKeeps ==
  ASSUME HandlesInv, NEW h \in Holders, NEW s \in 1 .. Len(scopes), H!ReferenceScope(h, s)
  PROVE  HandlesInv'
  <1>1. PICK x : x = H!Handle("SCOPE", s, FALSE)
    OBVIOUS
  <1>2. x \in HandleSet /\ x.type = "SCOPE" /\ x.scope = s /\ ~x.counts
    BY <1>1 DEF HandleSet, H!Handle
  <1>3. /\ held' = Changed(held, h, x) /\ held[h] = H!Empty
        /\ UNCHANGED <<scopes, linked, lost, points, deleted, led, uncounted>> /\ made' = H!NotMade
    BY <1>1 DEF H!ReferenceScope, Changed
  <1>4. held' \in [Holders -> HandleSet] /\ held'[h] = x /\ \A o \in Holders : o # h => held'[o] = held[o]
    BY <1>2, <1>3 DEF HandlesInv, HandlesFit, Changed
  <1>5. HandlesFit'
    <2>1. s # 0 /\ s <= Len(scopes)
      BY DEF HandlesInv, HandlesFit
    <2>2. \A o \in Holders : /\ held'[o].type = "SCOPE" <=> held'[o].scope # 0
                             /\ held'[o].scope <= Len(scopes)
      BY <1>2, <1>4, <2>1 DEF HandlesInv, HandlesFit
    <2> QED
      BY <1>3, <1>4, <2>2 DEF HandlesInv, HandlesFit
  <1>6. ScopesFit'
    BY <1>2, <1>3, EmptyHasNone, ScopesFitTaken DEF HandlesInv
  <1>7. PointsFit'
    BY <1>3, <1>4, EmptyHasNone DEF HandlesInv, HandlesFit, PointsFit
  <1>8. H!FreshScope' /\ H!ReachedOnlyBy'
    BY <1>3 DEF H!FreshScope, H!NotMade, H!ReachedOnlyBy, HandlesInv
  <1> QED
    BY <1>5, <1>6, <1>7, <1>8 DEF HandlesInv

LEMMA ObtainKeeps ==
  ASSUME HandlesInv, NEW h \in Holders, NEW type \in H!Types \ {"SCOPE"}, H!Obtain(h, type)
  PROVE  HandlesInv'
  <1>1. PICK x : x = H!Handle(type, 0, FALSE)
    OBVIOUS
  <1>2. x \in HandleSet /\ x.type = type /\ x.type # "SCOPE" /\ x.scope = 0 /\ ~x.counts
    BY <1>1 DEF HandleSet, H!Handle, H!Types
  <1>3. /\ held' = Changed(held, h, x) /\ lost' = H!Overwritten(h)
        /\ points' = IF type = "INSTANCE" THEN [points EXCEPT ![h] = @ + 1] ELSE points
        /\ UNCHANGED <<scopes, linked, deleted, led, uncounted>> /\ made' = H!NotMade
    BY <1>1 DEF H!Obtain, Changed
  <1>4. held' \in [Holders -> HandleSet] /\ held'[h] = x /\ \A o \in Holders : o # h => held'[o] = held[o]
    BY <1>2, <1>3 DEF HandlesInv, HandlesFit, Changed
  <1>6. lost \subseteq lost' /\ (held[h].type = "INSTANCE" => h \in lost')
    BY <1>3, OverwrittenIsLost DEF HandlesInv
  <1>7. HandlesFit'
    <2>1. points' \in [Holders -> Int]
      BY <1>3 DEF HandlesInv, HandlesFit
    <2> QED
      BY <1>2, <1>3, <1>4, <2>1 DEF HandlesInv, HandlesFit
  <1>8. ScopesFit'
    <2>1. held[h].scope # 0 => held[h].scope \in lost'
      BY <1>3, OverwrittenIsLost DEF HandlesInv
    <2> QED
      BY <1>2, <1>3, <1>6, <2>1, ScopesFitTaken DEF HandlesInv
  <1>9. PointsFit'
    <2>1. SUFFICES ASSUME NEW o \in Holders, o \notin lost'
                   PROVE  points'[o] <= IF held'[o].type = "INSTANCE" THEN 1 ELSE 0
      BY DEF PointsFit
    <2>2. points[o] \in Int /\ points[o] <= IF held[o].type = "INSTANCE" THEN 1 ELSE 0
      BY <1>6, <2>1 DEF HandlesInv, HandlesFit, PointsFit
    <2>3. CASE o = h
      <3>1. points[o] <= 0
        BY <1>6, <2>1, <2>2, <2>3
      <3>2. points'[o] = IF type = "INSTANCE" THEN points[o] + 1 ELSE points[o]
        BY <1>3, <2>3 DEF HandlesInv, HandlesFit
      <3> QED
        BY <1>2, <1>4, <2>2, <2>3, <3>1, <3>2
    <2>4. CASE o # h
      <3>1. points'[o] = points[o] /\ held'[o] = held[o]
        BY <1>3, <1>4, <2>4 DEF HandlesInv, HandlesFit
      <3> QED
        BY <2>2, <3>1
    <2> QED
      BY <2>3, <2>4
  <1>10. H!FreshScope' /\ H!ReachedOnlyBy'
    BY <1>3, <1>6 DEF H!FreshScope, H!NotMade, H!ReachedOnlyBy, HandlesInv
  <1> QED
    BY <1>7, <1>8, <1>9, <1>10 DEF HandlesInv

LEMMA freeKeeps ==
  ASSUME HandlesInv, NEW h \in Holders, H!free(h)
  PROVE  HandlesInv'
  <1>1. /\ held' = Changed(held, h, H!Empty) /\ H!ReleaseScope(h)
        /\ points' = [points EXCEPT ![h] = H!RemoveInstance(h)]
        /\ UNCHANGED <<lost, deleted, led>> /\ made' = H!NotMade
    BY DEF H!free, Changed
  <1>2. held' \in [Holders -> HandleSet] /\ held'[h] = H!Empty /\ \A o \in Holders : o # h => held'[o] = held[o]
    BY <1>1, EmptyHasNone DEF HandlesInv, HandlesFit, Changed
  <1>3. /\ scopes' \in Seq(ScopeSet) /\ Len(scopes') = Len(scopes) /\ linked' \in [ScopeNames -> Nat]
        /\ \A n \in ScopeNames : linked'[n] # 0 => linked'[n] <= Len(scopes') /\ scopes'[linked'[n]].name = n
        /\ \A t \in DOMAIN scopes' :
             ScopeFits(scopes'[t], Number(held', CountedOf(t)), Number(held', OfScope(t)),
                  linked'[scopes'[t].name] = t, t \in lost', t \in uncounted')
    BY <1>1, HandleFreed DEF HandlesInv
  <1>4. /\ points' \in [Holders -> Int] /\ \A o \in Holders : o # h => points'[o] = points[o]
        /\ points'[h] = IF held[h].type = "INSTANCE" THEN points[h] - 1 ELSE points[h]
    BY <1>1 DEF H!RemoveInstance, HandlesInv, HandlesFit
  <1>5. HandlesFit'
    BY <1>2, <1>3, <1>4, EmptyHasNone DEF HandlesInv, HandlesFit
  <1>6. ScopesFit'
    BY <1>3 DEF ScopesFit
  <1>7. PointsFit'
    <2>1. SUFFICES ASSUME NEW o \in Holders, o \notin lost
                   PROVE  points'[o] <= IF held'[o].type = "INSTANCE" THEN 1 ELSE 0
      BY <1>1 DEF PointsFit
    <2>2. points[o] \in Int /\ points[o] <= IF held[o].type = "INSTANCE" THEN 1 ELSE 0
      BY <2>1 DEF HandlesInv, HandlesFit, PointsFit
    <2>3. CASE o = h
      BY <1>2, <1>4, <2>2, <2>3, EmptyHasNone
    <2>4. CASE o # h
      BY <1>2, <1>4, <2>2, <2>4
    <2> QED
      BY <2>3, <2>4
  <1>8. H!FreshScope' /\ H!ReachedOnlyBy'
    BY <1>1 DEF H!FreshScope, H!NotMade, H!ReachedOnlyBy, HandlesInv
  <1> QED
    BY <1>5, <1>6, <1>7, <1>8 DEF HandlesInv

LEMMA MoveKeeps ==
  ASSUME HandlesInv, NEW h \in Holders, NEW from \in Holders, H!Move(h, from)
  PROVE  HandlesInv'
  <1>1. /\ h # from /\ held' = [held EXCEPT ![h] = held[from], ![from] = H!Empty] /\ H!ReleaseScope(h)
        /\ held[h].type # "INSTANCE" /\ held[from].type # "INSTANCE"
        /\ UNCHANGED <<lost, points, deleted, led>> /\ made' = H!NotMade
    BY DEF H!Move
  <1>2. PICK f : f = Changed(held, h, H!Empty)
    OBVIOUS
  <1>3. /\ f \in [Holders -> HandleSet]
        /\ scopes' \in Seq(ScopeSet) /\ Len(scopes') = Len(scopes) /\ linked' \in [ScopeNames -> Nat]
        /\ \A n \in ScopeNames : linked'[n] # 0 => linked'[n] <= Len(scopes') /\ scopes'[linked'[n]].name = n
        /\ \A t \in DOMAIN scopes' :
             ScopeFits(scopes'[t], Number(f, CountedOf(t)), Number(f, OfScope(t)),
                  linked'[scopes'[t].name] = t, t \in lost', t \in uncounted')
    BY <1>1, <1>2, HandleFreed DEF HandlesInv
  <1>4. held \in [Holders -> HandleSet]
    BY DEF HandlesInv, HandlesFit
  <1>5. PICK x \in HandleSet : x = held[from]
    BY <1>4
  <1>6. PICK g : g = Changed(f, h, x)
    OBVIOUS
  <1>7. /\ g \in [Holders -> HandleSet] /\ f[h] = H!Empty /\ g[from] = x
        /\ held' = Changed(g, from, H!Empty)
    BY <1>1, <1>2, <1>3, <1>4, <1>5, <1>6 DEF Changed
  <1>70. f \in [Holders -> HandleSet] /\ g \in [Holders -> HandleSet] /\ H!Empty \in HandleSet
    BY <1>3, <1>7, EmptyHasNone
  <1>8. ASSUME NEW some, H!Empty \notin some
        PROVE  Number(held', some) = Number(f, some)
    <2>1. Number(f, some) \in Nat /\ Number(g, some) \in Nat /\ f[h] \notin some
      BY <1>3, <1>7, <1>8, NumberOne
    <2>2. Number(g, some) = Number(f, some) - (IF f[h] \in some THEN 1 ELSE 0) + (IF x \in some THEN 1 ELSE 0)
      BY <1>6, <1>7, <1>70, NumberChanges
    <2>3. Number(held', some) = Number(g, some) - (IF g[from] \in some THEN 1 ELSE 0)
                                                + (IF H!Empty \in some THEN 1 ELSE 0)
      BY <1>6, <1>7, <1>70, NumberChanges
    <2> QED
      BY <1>7, <1>8, <2>1, <2>2, <2>3
  <1>9. /\ held' \in [Holders -> HandleSet] /\ held'[h] = held[from] /\ held'[from] = H!Empty
        /\ \A o \in Holders : o # h /\ o # from => held'[o] = held[o]
    BY <1>1, <1>4, EmptyHasNone
  <1>10. HandlesFit'
    <2>1. ASSUME NEW o \in Holders
          PROVE  /\ held'[o].type = "SCOPE" <=> held'[o].scope # 0
                 /\ held'[o].scope <= Len(scopes')
      <3>1. \A y \in Holders : /\ held[y].type = "SCOPE" <=> held[y].scope # 0
                               /\ held[y].scope <= Len(scopes)
        BY DEF HandlesInv, HandlesFit
      <3>2. Len(scopes) \in Nat
        BY DEF HandlesInv, HandlesFit
      <3>3. Len(scopes') = Len(scopes)
        BY <1>3
      <3>4. held'[o] \in {held[o], held[from], H!Empty}
        BY <1>9
      <3> QED
        BY <3>1, <3>2, <3>3, <3>4, EmptyHasNone
    <2> QED
      BY <1>1, <1>3, <1>9, <2>1 DEF HandlesInv, HandlesFit
  <1>11. ScopesFit'
    <2>1. ASSUME NEW t \in DOMAIN scopes'
          PROVE  Number(held', CountedOf(t)) = Number(f, CountedOf(t)) /\ Number(held', OfScope(t)) = Number(f, OfScope(t))
      <3>1. t # 0
        BY <1>3
      <3> QED
        BY <1>8, <3>1, EmptyHasNone
    <2> QED
      BY <1>3, <2>1 DEF ScopesFit
  <1>12. PointsFit'
    BY <1>1, <1>9, EmptyHasNone DEF HandlesInv, HandlesFit, PointsFit
  <1>13. H!FreshScope' /\ H!ReachedOnlyBy'
    BY <1>1 DEF H!FreshScope, H!NotMade, H!ReachedOnlyBy, HandlesInv
  <1> QED
    BY <1>10, <1>11, <1>12, <1>13 DEF HandlesInv

LEMMA DeleteKeeps ==
  ASSUME HandlesInv, NEW h \in Holders, H!Delete(h)
  PROVE  HandlesInv'
  <1>1. /\ held[h] = H!Empty /\ led' = IF points[h] > 0 THEN led \cup {h} ELSE led
        /\ UNCHANGED <<held, scopes, linked, lost, points, uncounted>> /\ made' = H!NotMade
    BY DEF H!Delete
  <1>2. HandlesFit' /\ ScopesFit' /\ PointsFit'
    BY <1>1 DEF HandlesInv, HandlesFit, ScopesFit, PointsFit
  <1>3. h \notin lost => points[h] <= 0
    BY <1>1, EmptyHasNone DEF HandlesInv, PointsFit
  <1>4. points[h] > 0 => h \in lost
    BY <1>3 DEF HandlesInv, HandlesFit
  <1>5. H!FreshScope' /\ H!ReachedOnlyBy'
    BY <1>1, <1>4 DEF H!FreshScope, H!NotMade, H!ReachedOnlyBy, HandlesInv
  <1> QED
    BY <1>2, <1>5 DEF HandlesInv

\* What is done in a scope changes nothing of what is counted.
LEMMA UsedKeeps ==
  ASSUME HandlesInv, NEW h \in Holders, H!Run(h) \/ H!create_get(h)
  PROVE  HandlesInv'
  <1>1. /\ held[h].type = "SCOPE" /\ UNCHANGED <<held, linked, lost, points, deleted, led, uncounted>>
        /\ made' = H!NotMade
    BY DEF H!Run, H!create_get
  <1>2. PICK s : s = held[h].scope
    OBVIOUS
  <1>3. s \in DOMAIN scopes /\ scopes \in Seq(ScopeSet) /\ scopes[s] \in ScopeSet
    BY <1>1, <1>2 DEF HandlesInv, HandlesFit, HandleSet
  <1>4. PICK q \in ScopeSet : q = scopes[s]
    BY <1>3
  <1>6. \E x : (x = [q EXCEPT !.runs = 1] \/ x = [q EXCEPT !.get = TRUE]) /\ scopes' = [scopes EXCEPT ![s] = x]
    BY <1>2, <1>4 DEF H!Run, H!create_get
  <1>7. PICK x : (x = [q EXCEPT !.runs = 1] \/ x = [q EXCEPT !.get = TRUE]) /\ scopes' = [scopes EXCEPT ![s] = x]
    BY <1>6
  <1>8. /\ x \in ScopeSet /\ x.name = q.name /\ x.refs = q.refs
        /\ x.dissolved = q.dissolved /\ x.stays = q.stays
    <2>1. CASE x = [q EXCEPT !.runs = 1]
      BY <2>1 DEF ScopeSet
    <2>2. CASE x = [q EXCEPT !.get = TRUE]
      BY <2>2 DEF ScopeSet
    <2> QED
      BY <1>7, <2>1, <2>2
  <1>9. /\ scopes' \in Seq(ScopeSet) /\ Len(scopes') = Len(scopes) /\ DOMAIN scopes' = DOMAIN scopes
        /\ scopes'[s] = x /\ \A t \in DOMAIN scopes : t # s => scopes'[t] = scopes[t]
    BY <1>3, <1>7, <1>8, ScopeChanged
  <1>10. \A t \in DOMAIN scopes : /\ scopes'[t].name = scopes[t].name /\ scopes'[t].refs = scopes[t].refs
                                  /\ scopes'[t].dissolved = scopes[t].dissolved /\ scopes'[t].stays = scopes[t].stays
    BY <1>4, <1>8, <1>9
  <1>11. HandlesFit'
    <2>1. ASSUME NEW n \in ScopeNames, linked[n] # 0
          PROVE  linked[n] <= Len(scopes') /\ scopes'[linked[n]].name = n
      <3>1. linked[n] \in DOMAIN scopes /\ scopes[linked[n]].name = n /\ linked[n] <= Len(scopes)
        BY <1>3, <2>1 DEF HandlesInv, HandlesFit
      <3> QED
        BY <1>9, <1>10, <3>1
    <2> QED
      BY <1>1, <1>9, <2>1 DEF HandlesInv, HandlesFit
  <1>12. ScopesFit'
    <2>1. \A t \in DOMAIN scopes : ScopeFits(scopes[t], Number(held, CountedOf(t)), Number(held, OfScope(t)),
                                        linked[scopes[t].name] = t, t \in lost, t \in uncounted)
      BY DEF HandlesInv, ScopesFit
    <2> QED
      BY <1>1, <1>9, <1>10, <2>1 DEF ScopesFit, ScopeFits
  <1>13. PointsFit'
    BY <1>1 DEF HandlesInv, PointsFit
  <1>14. H!FreshScope' /\ H!ReachedOnlyBy'
    BY <1>1 DEF H!FreshScope, H!NotMade, H!ReachedOnlyBy, HandlesInv
  <1> QED
    BY <1>11, <1>12, <1>13, <1>14 DEF HandlesInv

LEMMA CreateScopeKeeps ==
  ASSUME HandlesInv, NEW h \in Holders, NEW name \in ScopeNames, H!CreateScope(h, name)
  PROVE  HandlesInv'
  <1>1. PICK s : s = H!ScopeOf(name)
    OBVIOUS
  <1>2. /\ scopes \in Seq(ScopeSet) /\ Len(scopes) \in Nat /\ linked \in [ScopeNames -> Nat] /\ linked[name] \in Nat
        /\ held \in [Holders -> HandleSet]
        /\ \A t \in DOMAIN scopes : t \in Nat /\ t # 0 /\ scopes[t] \in ScopeSet /\ t <= Len(scopes)
    BY DEF HandlesInv, HandlesFit
  <1>3. s \in Nat /\ s # 0 /\ s = IF linked[name] = 0 THEN Len(scopes) + 1 ELSE linked[name]
    BY <1>1, <1>2 DEF H!ScopeOf
  <1>4. PICK x : x = H!Handle("SCOPE", s, TRUE)
    OBVIOUS
  <1>5. x \in HandleSet /\ x.type = "SCOPE" /\ x.scope = s /\ x.counts
    BY <1>3, <1>4 DEF HandleSet, H!Handle
  <1>6. /\ held' = Changed(held, h, x) /\ lost' = H!Overwritten(h)
        /\ made'.scope = s /\ H!OnCreateScope(name) /\ UNCHANGED <<points, deleted, led, uncounted>>
    BY <1>1, <1>4 DEF H!CreateScope, Changed
  <1>7. held' \in [Holders -> HandleSet] /\ held'[h] = x /\ \A o \in Holders : o # h => held'[o] = held[o]
    BY <1>2, <1>5, <1>6 DEF Changed
  <1>8. /\ lost \subseteq lost' /\ (held[h].type = "INSTANCE" => h \in lost')
        /\ (held[h].scope # 0 => held[h].scope \in lost')
    BY <1>6, OverwrittenIsLost DEF HandlesInv
  <1>9. PointsFit'
    BY <1>5, <1>6, <1>7, <1>8 DEF HandlesInv, HandlesFit, PointsFit
  <1>10. H!ReachedOnlyBy'
    BY <1>6, <1>8 DEF H!ReachedOnlyBy, HandlesInv
  <1>11. \A t \in DOMAIN scopes :
           ScopeFits(scopes[t], Number(held, CountedOf(t)), Number(held, OfScope(t)),
                linked[scopes[t].name] = t, t \in lost, t \in uncounted)
    BY DEF HandlesInv, ScopesFit
  <1>12. ASSUME NEW t \in DOMAIN scopes
         PROVE  /\ {Number(held', OfScope(t)), Number(held', CountedOf(t)), Number(held, OfScope(t)), Number(held, CountedOf(t))} \subseteq Nat
                /\ x \in CountedOf(t) => Number(held', CountedOf(t)) <= Number(held, CountedOf(t)) + 1
                /\ x \notin CountedOf(t) => Number(held', CountedOf(t)) <= Number(held, CountedOf(t))
                /\ t \notin lost' => /\ t \notin lost /\ Number(held', OfScope(t)) >= Number(held, OfScope(t))
                                     /\ x \in OfScope(t) => Number(held', OfScope(t)) = Number(held, OfScope(t)) + 1
    <2>1. t = held[h].scope => t \in lost'
      BY <1>2, <1>8
    <2> QED
      BY <1>5, <1>6, <1>8, <2>1, HandleTaken DEF HandlesInv
  <1>13. ASSUME NEW t \in DOMAIN scopes, t # s
         PROVE  ScopeFits(scopes[t], Number(held', CountedOf(t)), Number(held', OfScope(t)),
                     linked[scopes[t].name] = t, t \in lost', t \in uncounted)
    <2>1. x \notin CountedOf(t)
      BY <1>5, <1>13, WhoseHandle
    <2> QED
      BY <1>2, <1>8, <1>11, <1>12, <2>1, FitsStill
  <1>14. CASE linked[name] = 0
    <2>1. PICK r : r = H!NewScope(name)
      OBVIOUS
    <2>2. r \in ScopeSet /\ r.name = name /\ r.refs = 1 /\ r.runs = 0 /\ ~r.dissolved /\ ~r.stays
      BY <2>1 DEF H!NewScope, ScopeSet
    <2>3. scopes' = Append(scopes, r) /\ linked' = [linked EXCEPT ![name] = s] /\ s = Len(scopes) + 1
      BY <1>3, <1>6, <1>14, <2>1 DEF H!OnCreateScope
    <2>4. /\ scopes' \in Seq(ScopeSet) /\ Len(scopes') = s /\ scopes'[s] = r
          /\ DOMAIN scopes' = DOMAIN scopes \cup {s} /\ \A t \in DOMAIN scopes : t # s /\ scopes'[t] = scopes[t]
      BY <1>2, <1>3, <2>2, <2>3
    <2>5. linked' \in [ScopeNames -> Nat] /\ linked'[name] = s /\ \A n \in ScopeNames : n # name => linked'[n] = linked[n]
      BY <1>2, <1>3, <2>3
    <2>6. HandlesFit'
      <3>1. ASSUME NEW n \in ScopeNames, linked'[n] # 0
            PROVE  linked'[n] <= Len(scopes') /\ scopes'[linked'[n]].name = n
        <4>1. CASE n = name
          BY <1>3, <2>2, <2>4, <2>5, <4>1
        <4>2. CASE n # name
          <5>1. linked'[n] = linked[n] /\ linked[n] \in Nat /\ linked[n] <= Len(scopes) /\ scopes[linked[n]].name = n
            BY <1>2, <2>5, <3>1, <4>2 DEF HandlesInv, HandlesFit
          <5>2. linked[n] \in DOMAIN scopes
            BY <1>2, <3>1, <5>1
          <5> QED
            BY <1>2, <2>3, <2>4, <5>1, <5>2
        <4> QED
          BY <4>1, <4>2
      <3>2. ASSUME NEW o \in Holders
            PROVE  /\ held'[o].type = "SCOPE" <=> held'[o].scope # 0
                   /\ held'[o].scope <= Len(scopes')
        <4>1. CASE o = h
          BY <1>3, <1>5, <1>7, <2>4, <4>1
        <4>2. CASE o # h
          <5>1. held'[o] = held[o] /\ held[o] \in HandleSet /\ held[o].scope <= Len(scopes)
            BY <1>2, <1>7, <4>2 DEF HandlesInv, HandlesFit
          <5>2. held[o].scope \in Nat /\ (held[o].type = "SCOPE" <=> held[o].scope # 0)
            BY <5>1 DEF HandleSet, HandlesInv, HandlesFit
          <5> QED
            BY <1>2, <2>3, <2>4, <5>1, <5>2
        <4> QED
          BY <4>1, <4>2
      <3> QED
        BY <1>6, <1>7, <2>4, <2>5, <3>1, <3>2 DEF HandlesInv, HandlesFit
    <2>7. ScopesFit'
      <3>1. ASSUME NEW t \in DOMAIN scopes
            PROVE  ScopeFits(scopes'[t], Number(held', CountedOf(t)), Number(held', OfScope(t)),
                        linked'[scopes'[t].name] = t, t \in lost', t \in uncounted')
        <4>1. t # s /\ scopes'[t] = scopes[t] /\ scopes[t].name \in ScopeNames /\ t # 0
          BY <1>2, <2>4 DEF ScopeSet
        <4>2. linked'[scopes'[t].name] = t <=> linked[scopes[t].name] = t
          BY <1>14, <2>5, <4>1
        <4> QED
          BY <1>6, <1>13, <4>1, <4>2
      <3>2. ScopeFits(r, Number(held', CountedOf(s)), Number(held', OfScope(s)), TRUE, s \in lost', s \in uncounted')
        <4>1. \A o \in Holders : held[o] \notin OfScope(s) /\ held[o] \notin CountedOf(s)
          <5>1. \A o \in Holders : held[o] \in HandleSet /\ held[o].scope <= Len(scopes) /\ held[o].scope \in Nat
            BY <1>2 DEF HandlesInv, HandlesFit, HandleSet
          <5>2. \A o \in Holders : held[o].scope # s
            BY <1>2, <2>3, <5>1
          <5> QED
            BY <5>1, <5>2, WhoseHandle
        <4>2. /\ Number(held, OfScope(s)) = 0
              /\ Number(held, CountedOf(s)) = 0
          BY <1>2, <4>1, NumberOne
        <4>3. x \in OfScope(s) /\ x \in CountedOf(s)
          BY <1>5, WhoseHandle
        <4>4. Number(held', OfScope(s)) = 0 - 0 + 1
          BY <1>2, <1>5, <1>6, <4>1, <4>2, <4>3, NumberChanges
        <4>5. Number(held', CountedOf(s)) = 0 - 0 + 1
          BY <1>2, <1>5, <1>6, <4>1, <4>2, <4>3, NumberChanges
        <4> QED
          BY <2>2, <4>4, <4>5 DEF ScopeFits
      <3>3. ASSUME NEW t \in DOMAIN scopes'
            PROVE  ScopeFits(scopes'[t], Number(held', CountedOf(t)), Number(held', OfScope(t)),
                        linked'[scopes'[t].name] = t, t \in lost', t \in uncounted')
        <4>1. CASE t = s
          BY <2>2, <2>4, <2>5, <3>2, <4>1 DEF ScopeFits
        <4>2. CASE t # s
          BY <2>4, <3>1, <4>2
        <4> QED
          BY <4>1, <4>2
      <3> QED
        BY <3>3 DEF ScopesFit
    <2>8. H!FreshScope'
      BY <1>6, <2>2, <2>4 DEF H!FreshScope
    <2> QED
      BY <1>9, <1>10, <2>6, <2>7, <2>8 DEF HandlesInv
  <1>15. CASE linked[name] # 0
    <2>1. s = linked[name] /\ s \in DOMAIN scopes /\ scopes[s].name = name /\ s <= Len(scopes)
      BY <1>2, <1>3, <1>15 DEF HandlesInv, HandlesFit
    <2>2. PICK q \in ScopeSet : q = scopes[s]
      BY <1>2, <2>1
    <2>3. PICK r : r = [q EXCEPT !.refs = q.refs + 1]
      OBVIOUS
    <2>4. /\ r \in ScopeSet /\ r.name = q.name /\ q.refs \in Int /\ r.refs = q.refs + 1 /\ r.runs = q.runs
          /\ r.dissolved = q.dissolved /\ r.stays = q.stays
      BY <2>3 DEF ScopeSet
    <2>5. scopes' = [scopes EXCEPT ![s] = r] /\ linked' = linked
      BY <1>6, <1>15, <2>1, <2>2, <2>3 DEF H!OnCreateScope
    <2>6. /\ scopes' \in Seq(ScopeSet) /\ Len(scopes') = Len(scopes) /\ DOMAIN scopes' = DOMAIN scopes
          /\ scopes'[s] = r /\ \A t \in DOMAIN scopes : t # s => scopes'[t] = scopes[t]
      BY <1>2, <2>1, <2>4, <2>5, ScopeChanged
    <2>7. \A t \in DOMAIN scopes : scopes'[t].name = scopes[t].name
      BY <2>2, <2>4, <2>6
    <2>8. HandlesFit'
      <3>1. ASSUME NEW n \in ScopeNames, linked[n] # 0
            PROVE  linked[n] <= Len(scopes') /\ scopes'[linked[n]].name = n
        <4>1. linked[n] \in DOMAIN scopes /\ scopes[linked[n]].name = n /\ linked[n] <= Len(scopes)
          BY <1>2, <3>1 DEF HandlesInv, HandlesFit
        <4> QED
          BY <2>6, <2>7, <4>1
      <3>2. \A o \in Holders : /\ held'[o].type = "SCOPE" <=> held'[o].scope # 0
                               /\ held'[o].scope <= Len(scopes)
        BY <1>3, <1>5, <1>7, <2>1 DEF HandlesInv, HandlesFit
      <3> QED
        BY <1>6, <1>7, <2>5, <2>6, <3>1, <3>2 DEF HandlesInv, HandlesFit
    <2>9. ScopeFits(q, Number(held, CountedOf(s)), Number(held, OfScope(s)), TRUE, s \in lost, s \in uncounted)
      BY <1>11, <2>1, <2>2 DEF ScopeFits
    <2>10. x \in CountedOf(s) /\ x \in OfScope(s)
      BY <1>5, WhoseHandle
    <2>11. /\ {Number(held', OfScope(s)), Number(held', CountedOf(s)), Number(held, OfScope(s)), Number(held, CountedOf(s))} \subseteq Nat
           /\ Number(held', CountedOf(s)) <= Number(held, CountedOf(s)) + 1
           /\ s \notin lost' => s \notin lost /\ Number(held', OfScope(s)) = Number(held, OfScope(s)) + 1
      BY <1>12, <2>1, <2>10
    <2>12. ScopesFit'
      <3>1. ScopeFits(r, Number(held', CountedOf(s)), Number(held', OfScope(s)), TRUE, s \in lost', s \in uncounted)
        BY <2>4, <2>9, <2>11 DEF ScopeFits
      <3>2. linked'[scopes'[s].name] = s
        BY <2>1, <2>5, <2>7
      <3>3. ScopeFits(scopes'[s], Number(held', CountedOf(s)), Number(held', OfScope(s)),
                 linked'[scopes'[s].name] = s, s \in lost', s \in uncounted')
        BY <1>6, <2>6, <3>1, <3>2 DEF ScopeFits
      <3>4. ASSUME NEW t \in DOMAIN scopes, t # s
            PROVE  ScopeFits(scopes'[t], Number(held', CountedOf(t)), Number(held', OfScope(t)),
                        linked'[scopes'[t].name] = t, t \in lost', t \in uncounted')
        BY <1>6, <1>13, <2>5, <2>6, <3>4
      <3> QED
        BY <2>6, <3>3, <3>4 DEF ScopesFit
    <2>13. H!FreshScope'
      <3>1. s \in lost' \/ r.stays \/ Number(held', OfScope(s)) > 1
        BY <2>4, <2>9, <2>11 DEF ScopeFits
      <3>2. Having(held', OfScope(s)) = {o \in Holders : held'[o].scope = s}
        BY <1>7, WhoseHandle DEF Having
      <3>3. H!Cardinality({o \in Holders : held'[o].scope = s}) = Number(held', OfScope(s))
        BY <3>2, HandlesCountAlike DEF Number
      <3> QED
        BY <1>6, <2>6, <3>1, <3>3 DEF H!FreshScope
    <2> QED
      BY <1>9, <1>10, <2>8, <2>12, <2>13 DEF HandlesInv
  <1> QED
    BY <1>14, <1>15

\* No action of the handles breaks it.
LEMMA HandlesKeep ==
  ASSUME HandlesInv, H!Next
  PROVE  HandlesInv'
  <1>1. PICK h \in Holders :
          \/ \E name \in ScopeNames : H!CreateScope(h, name)
          \/ \E s \in 1 .. Len(scopes) : H!ReferenceScope(h, s)
          \/ \E type \in H!Types \ {"SCOPE"} : H!Obtain(h, type)
          \/ \E from \in Holders : H!Move(h, from)
          \/ H!free(h) \/ H!Delete(h) \/ H!Run(h) \/ H!create_get(h)
    BY DEF H!Next
  <1>2. CASE \E name \in ScopeNames : H!CreateScope(h, name)
    BY <1>2, CreateScopeKeeps
  <1>3. CASE \E s \in 1 .. Len(scopes) : H!ReferenceScope(h, s)
    BY <1>3, ReferenceScopeKeeps
  <1>4. CASE \E type \in H!Types \ {"SCOPE"} : H!Obtain(h, type)
    BY <1>4, ObtainKeeps
  <1>5. CASE \E from \in Holders : H!Move(h, from)
    BY <1>5, MoveKeeps
  <1>6. CASE H!free(h) \/ H!Delete(h) \/ H!Run(h) \/ H!create_get(h)
    BY <1>6, freeKeeps, DeleteKeeps, UsedKeeps
  <1> QED
    BY <1>1, <1>2, <1>3, <1>4, <1>5, <1>6

\* A handle of a scope that counts keeps the scope under its name and whole, a scope is
\* empty for whoever makes it, and no instance leads to a deleted object, with the
\* exceptions that Handles names (handle_wrapper of variant.cpp, VSquirrel_OnCreateScope
\* and _OnReleaseScope), for any number of wrappers, scopes and names.
THEOREM HandlesKept == MCSpec => []HandlesHold
  <1>1. MCInit => HandlesInv
    <2> SUFFICES ASSUME H!Init PROVE HandlesInv
      BY Zenon DEF MCInit
    <2>1. held \in [Holders -> HandleSet] /\ \A h \in Holders : held[h] = H!Empty
      BY EmptyHasNone DEF H!Init
    <2>2. scopes = <<>> /\ scopes \in Seq(ScopeSet) /\ Len(scopes) = 0 /\ DOMAIN scopes = {}
      BY DEF H!Init
    <2>3. HandlesFit /\ ScopesFit /\ PointsFit
      BY <2>1, <2>2, EmptyHasNone DEF H!Init, HandlesFit, ScopesFit, PointsFit
    <2> QED
      BY <2>3 DEF H!Init, HandlesInv, H!FreshScope, H!NotMade, H!ReachedOnlyBy
  <1>2. HandlesInv /\ [MCNext]_<<part, valuevars, cvars, xvars, mvars, hvars>> => HandlesInv'
    <2> SUFFICES ASSUME HandlesInv, H!Next \/ UNCHANGED hvars PROVE HandlesInv'
      BY Zenon DEF MCNext
    <2>1. CASE UNCHANGED hvars
      BY <2>1 DEF hvars, HandlesInv, HandlesFit, ScopesFit, PointsFit, H!FreshScope, H!ReachedOnlyBy
    <2> QED
      BY <2>1, HandlesKeep
  <1>3. HandlesInv => HandlesHold
    BY HandlesImplied
  <1> QED
    BY <1>1, <1>2, <1>3, PTL DEF MCSpec

-----------------------------------------------------------------------------
(* Memory. *)

FrameKinds == {"destructor", "call", "unload"}
Waiters == M!Objects \cup {"plugin"}
Frames == [kind : FrameKinds, obj : Waiters, next : Nat]

LEMMA FrameFields ==
  ASSUME NEW x \in Frames
  PROVE  x.kind \in FrameKinds /\ x.obj \in Waiters /\ x.next \in Nat
  BY DEF Frames

\* Who comes back to an object, of these frames and with this list.
ComesBack(o, frames, list) ==
  \E k \in DOMAIN frames :
    \/ frames[k].obj = o
    \/ frames[k].kind = "unload" /\ \E j \in DOMAIN list : j >= frames[k].next /\ list[j] = o

\* The last of a sequence is taken off.
LEMMA WithoutLast ==
  ASSUME NEW some, NEW s \in Seq(some), s # <<>>
  PROVE  LET below == SubSeq(s, 1, Len(s) - 1)
         IN  /\ below \in Seq(some) /\ Len(s) \in Nat /\ Len(s) > 0 /\ Len(below) = Len(s) - 1
             /\ DOMAIN below = 1 .. Len(s) - 1 /\ DOMAIN s = 1 .. Len(s)
             /\ \A k \in 1 .. Len(s) - 1 : k \in DOMAIN s /\ below[k] = s[k] /\ s[k] \in some
  <1>1. Len(s) \in Nat /\ DOMAIN s = 1 .. Len(s) /\ \A k \in 1 .. Len(s) : s[k] \in some
    OBVIOUS
  <1>2. Len(s) # 0
    OBVIOUS
  <1>20. Len(s) - 1 \in Nat
    BY <1>1, <1>2
  <1>3. PICK n \in Nat : n = Len(s) - 1
    BY <1>20
  <1>4. /\ SubSeq(s, 1, n) \in Seq(some) /\ Len(SubSeq(s, 1, n)) = IF 1 <= n THEN n - 1 + 1 ELSE 0
        /\ \A k \in 1 .. n - 1 + 1 : SubSeq(s, 1, n)[k] = s[1 + k - 1]
    BY <1>1, <1>3, SubSeqProperties
  <1>5. Len(SubSeq(s, 1, n)) = n /\ \A k \in 1 .. n : SubSeq(s, 1, n)[k] = s[k]
    BY <1>3, <1>4
  <1>6. DOMAIN SubSeq(s, 1, n) = 1 .. n
    BY <1>4, <1>5
  <1> QED
    BY <1>1, <1>2, <1>3, <1>4, <1>5, <1>6

\* What waits on the stack is a destructor that calls back, a call of a function, or the
\* loop over the list of the plugin, which is gone through by one at a time.
Lives == {"none", "alive", "deleted"}
Blocks == {"none", "held", "given", "freed"}
MemoryFit ==
  /\ life \in [M!Objects -> Lives] /\ block \in [Containers -> Blocks] /\ hook \in [Containers -> BOOLEAN]
  /\ owned \in Seq(M!Objects) /\ stack \in Seq(Frames)
StackFit ==
  /\ \A k \in DOMAIN stack :
       /\ stack[k].kind = "destructor" => stack[k].obj \in Containers \cap called
       /\ stack[k].kind = "call" => stack[k].obj \in Callers
       /\ stack[k].kind = "unload" => stack[k].obj = "plugin" /\ stack[k].next >= 1
       /\ stack[k].kind # "unload" => life[stack[k].obj] # "none"
  /\ \A j, k \in DOMAIN stack : stack[j].kind = "unload" /\ stack[k].kind = "unload" => j = k
  /\ M!Unloading /\ M!Top.kind # "unload" => called # {}

\* The list has each object once, and outside of the loop none that was deleted.
OwnedFit ==
  /\ \A j, k \in DOMAIN owned : owned[j] = owned[k] => j = k
  /\ \A j \in DOMAIN owned : life[owned[j]] # "none"
  /\ ~M!Unloading => \A j \in DOMAIN owned : life[owned[j]] = "alive"

\* A container has a block when it was made, and is called back until it is deleted.
BlocksFit ==
  \A c \in Containers : /\ life[c] = "none" => block[c] = "none"
                        /\ c \in called => life[c] = "deleted" \/ M!InStack("destructor", c)

\* What was deleted and is waited for was deleted too early, and what was deleted too
\* early is used again or will be.
EarlyFit ==
  /\ \A o \in early : o \in M!Objects /\ life[o] = "deleted"
  /\ \A k \in DOMAIN stack :
       /\ stack[k].kind # "unload" /\ life[stack[k].obj] = "deleted" => stack[k].obj \in early
       /\ stack[k].kind = "unload" =>
            \A j \in DOMAIN owned : j >= stack[k].next /\ life[owned[j]] = "deleted" => owned[j] \in early
  /\ \A o \in early : o \notin broken => ComesBack(o, stack, owned)
  /\ broken \ {"list"} \subseteq early
  /\ early # {} => called # {} \/ Callers \cap early # {}

MemoryInv == MemoryFit /\ StackFit /\ OwnedFit /\ BlocksFit /\ EarlyFit

\* The frames that wait when what was on top of the stack is done with an object: those that
\* waited before, of which the loop has gone on, and all that come back to others.
Follows(frames, o) ==
  /\ frames \in Seq(Frames)
  /\ \A k \in DOMAIN frames :
       \E i \in DOMAIN stack : /\ frames[k].kind = stack[i].kind /\ frames[k].obj = stack[i].obj
                              /\ frames[k].next >= stack[i].next
  /\ \A j, k \in DOMAIN frames : frames[j].kind = "unload" /\ frames[k].kind = "unload" => j = k
  /\ (\E k \in DOMAIN frames : frames[k].kind = "unload") <=> M!Unloading
  /\ \A x : x # o /\ ComesBack(x, stack, owned) => ComesBack(x, frames, owned)
  /\ \A c : c # o /\ M!InStack("destructor", c) =>
            \E k \in DOMAIN frames : frames[k].kind = "destructor" /\ frames[k].obj = c
  /\ frames # <<>> /\ M!Unloading /\ frames[Len(frames)].kind # "unload" => called # {}

LEMMA InUseWaits ==
  ASSUME MemoryFit, NEW o, NEW frames \in Seq(Frames),
         \A k \in DOMAIN frames : frames[k].kind = "unload" => frames[k].next >= 1
  PROVE  M!InUse(o, frames) <=> ComesBack(o, frames, owned)
  <1>1. \A k \in DOMAIN frames : frames[k].next \in Nat
    BY FrameFields
  <1>3. owned \in Seq(M!Objects)
    BY DEF MemoryFit
  <1>2. \A k \in DOMAIN frames : frames[k].kind = "unload" =>
          \A j : j \in frames[k].next .. Len(owned) <=> j \in DOMAIN owned /\ j >= frames[k].next
    BY <1>1, <1>3
  <1> QED
    BY <1>2 DEF M!InUse, ComesBack

LEMMA FollowsAll ==
  ASSUME MemoryFit, StackFit, NEW o
  PROVE  Follows(stack, o)
  <1>1. \A k \in DOMAIN stack : stack[k].next >= stack[k].next
    <2>1. stack \in Seq(Frames)
      BY DEF MemoryFit
    <2>2. \A k \in DOMAIN stack : stack[k].next \in Nat
      BY <2>1, FrameFields
    <2> QED
      BY <2>2
  <1> QED
    BY <1>1 DEF MemoryFit, StackFit, Follows, M!Unloading, M!InStack, M!Top

LEMMA FollowsBelow ==
  ASSUME MemoryFit, StackFit, stack # <<>>, M!Top.kind # "unload"
  PROVE  Follows(M!Below, M!Top.obj)
  <1>0. stack \in Seq(Frames)
    BY DEF MemoryFit
  <1>1. /\ M!Below \in Seq(Frames) /\ Len(stack) \in Nat /\ Len(stack) > 0 /\ Len(M!Below) = Len(stack) - 1
        /\ DOMAIN M!Below = 1 .. Len(stack) - 1 /\ DOMAIN stack = 1 .. Len(stack)
        /\ \A k \in 1 .. Len(stack) - 1 : k \in DOMAIN stack /\ M!Below[k] = stack[k] /\ stack[k] \in Frames
    BY <1>0, WithoutLast DEF M!Below
  <1>2. \A k \in DOMAIN stack : k \in DOMAIN M!Below \/ stack[k] = M!Top
    BY <1>1 DEF M!Top
  <1>3. \A k \in DOMAIN M!Below : M!Below[k].next >= stack[k].next
    BY <1>1, FrameFields
  <1>4. (\E k \in DOMAIN M!Below : M!Below[k].kind = "unload") <=> M!Unloading
    BY <1>1, <1>2 DEF M!Unloading
  <1>5. M!Unloading => called # {}
    BY DEF StackFit
  <1>6. ASSUME NEW x, x # M!Top.obj, ComesBack(x, stack, owned)
        PROVE  ComesBack(x, M!Below, owned)
    BY <1>1, <1>2, <1>6 DEF ComesBack
  <1>7. ASSUME NEW c, c # M!Top.obj, M!InStack("destructor", c)
        PROVE  \E k \in DOMAIN M!Below : M!Below[k].kind = "destructor" /\ M!Below[k].obj = c
    BY <1>1, <1>2, <1>7 DEF M!InStack
  <1>8. \A j, k \in DOMAIN M!Below : M!Below[j].kind = "unload" /\ M!Below[k].kind = "unload" => j = k
    BY <1>1 DEF StackFit
  <1> QED
    BY <1>1, <1>3, <1>4, <1>5, <1>6, <1>7, <1>8 DEF Follows

LEMMA FollowsNext ==
  ASSUME MemoryFit, StackFit, OwnedFit, stack # <<>>, M!Top.kind = "unload", M!Top.next <= Len(owned)
  PROVE  /\ Follows(Append(M!Below, M!Frame("unload", "plugin", M!Top.next + 1)), owned[M!Top.next])
         /\ M!Top.next \in DOMAIN owned /\ M!Unloading
  <1>0. stack \in Seq(Frames)
    BY DEF MemoryFit
  <1>1. /\ M!Below \in Seq(Frames) /\ Len(stack) \in Nat /\ Len(stack) > 0 /\ Len(M!Below) = Len(stack) - 1
        /\ DOMAIN stack = 1 .. Len(stack)
        /\ \A k \in 1 .. Len(stack) - 1 : M!Below[k] = stack[k] /\ stack[k] \in Frames
    BY <1>0, WithoutLast DEF M!Below
  <1>2. PICK n \in Nat : n = M!Top.next
    BY <1>0, <1>1, FrameFields DEF M!Top
  <1>3. M!Top = stack[Len(stack)] /\ M!Top.obj = "plugin" /\ n >= 1 /\ Len(stack) \in DOMAIN stack
    BY <1>1, <1>2 DEF StackFit, M!Top
  <1>4. PICK top \in Frames : top = M!Frame("unload", "plugin", n + 1)
    <2>1. n + 1 \in Nat
      BY <1>2
    <2>2. "unload" \in FrameKinds /\ "plugin" \in Waiters
      BY DEF FrameKinds, Waiters
    <2> QED
      BY <2>1, <2>2 DEF Frames, M!Frame
  <1>5. top.kind = "unload" /\ top.obj = "plugin" /\ top.next = n + 1
    BY <1>4 DEF M!Frame
  <1>6. PICK frames : frames = Append(M!Below, top)
    OBVIOUS
  <1>7. /\ frames \in Seq(Frames) /\ Len(frames) = Len(stack) /\ DOMAIN frames = DOMAIN stack /\ frames[Len(stack)] = top
        /\ \A k \in DOMAIN stack : k # Len(stack) => frames[k] = stack[k] /\ stack[k] \in Frames
    BY <1>1, <1>6
  <1>8. \A k \in DOMAIN stack : /\ frames[k].kind = stack[k].kind /\ frames[k].obj = stack[k].obj
                                /\ frames[k].next >= stack[k].next
    <2>1. ASSUME NEW k \in DOMAIN stack, k # Len(stack)
          PROVE  /\ frames[k].kind = stack[k].kind /\ frames[k].obj = stack[k].obj
                 /\ frames[k].next >= stack[k].next
      BY <1>7, <2>1, FrameFields
    <2> QED
      BY <1>2, <1>3, <1>5, <1>7, <2>1
  <1>9. M!Unloading
    BY <1>3 DEF M!Unloading
  <1>10. n \in DOMAIN owned /\ \A j \in DOMAIN owned : j \in Nat
    BY <1>2, <1>3 DEF MemoryFit
  <1>11. ASSUME NEW x, x # owned[n], ComesBack(x, stack, owned)
         PROVE  ComesBack(x, frames, owned)
    <2>1. PICK k \in DOMAIN stack :
            \/ stack[k].obj = x
            \/ stack[k].kind = "unload" /\ \E j \in DOMAIN owned : j >= stack[k].next /\ owned[j] = x
      BY <1>11 DEF ComesBack
    <2>2. CASE stack[k].obj = x
      BY <1>7, <1>8, <2>2 DEF ComesBack
    <2>3. CASE stack[k].kind = "unload" /\ \E j \in DOMAIN owned : j >= stack[k].next /\ owned[j] = x
      <3>1. k = Len(stack)
        BY <1>3, <2>3 DEF StackFit
      <3>2. PICK j \in DOMAIN owned : j >= n /\ owned[j] = x
        BY <1>2, <1>3, <2>3, <3>1
      <3>3. j >= n + 1
        BY <1>10, <1>11, <3>2
      <3> QED
        BY <1>5, <1>7, <2>3, <3>1, <3>2, <3>3 DEF ComesBack
    <2> QED
      BY <2>1, <2>2, <2>3
  <1>12. \A j, k \in DOMAIN frames : frames[j].kind = "unload" /\ frames[k].kind = "unload" => j = k
    BY <1>7, <1>8 DEF StackFit
  <1>13. frames[Len(frames)].kind = "unload" /\ \E k \in DOMAIN frames : frames[k].kind = "unload"
    BY <1>1, <1>3, <1>5, <1>7
  <1>14. \A c : M!InStack("destructor", c) => \E k \in DOMAIN frames : frames[k].kind = "destructor" /\ frames[k].obj = c
    BY <1>7, <1>8 DEF M!InStack
  <1>15. Follows(frames, owned[n])
    BY <1>7, <1>8, <1>9, <1>11, <1>12, <1>13, <1>14 DEF Follows
  <1> QED
    BY <1>2, <1>4, <1>6, <1>9, <1>10, <1>15

\* What is left of the list when an object is taken out of it.
LEMMA Forgotten ==
  ASSUME MemoryFit, OwnedFit, NEW o, NEW list, list = M!Forget(o)
  PROVE  /\ list \in Seq(M!Objects) /\ (M!Unloading => list = owned)
         /\ \A j \in DOMAIN list : \E k \in DOMAIN owned : list[j] = owned[k]
         /\ \A j, k \in DOMAIN list : list[j] = list[k] => j = k
         /\ ~M!Unloading => \A j \in DOMAIN list : list[j] # o
  <1>1. owned \in Seq(M!Objects)
    BY DEF MemoryFit
  <1>2. CASE M!Unloading \/ \A k \in DOMAIN owned : owned[k] # o
    BY <1>1, <1>2 DEF M!Forget, OwnedFit
  <1>3. CASE ~(M!Unloading \/ \A k \in DOMAIN owned : owned[k] # o)
    <2>1. PICK hit \in DOMAIN owned : owned[hit] = o /\ hit = CHOOSE k \in DOMAIN owned : owned[k] = o
      BY <1>3
    <2>2. /\ list = SubSeq(owned, 1, hit - 1) \o SubSeq(owned, hit + 1, Len(owned))
      BY <1>3, <2>1 DEF M!Forget, M!Erase
    <2>3. /\ Len(owned) \in Nat /\ DOMAIN owned = 1 .. Len(owned) /\ hit \in Nat /\ hit >= 1 /\ hit <= Len(owned)
          /\ \A k \in 1 .. Len(owned) : owned[k] \in M!Objects
      BY <1>1, <2>1
    <2>4. PICK low : low = SubSeq(owned, 1, hit - 1)
      OBVIOUS
    <2>5. PICK high : high = SubSeq(owned, hit + 1, Len(owned))
      OBVIOUS
    <2>6. low \in Seq(M!Objects) /\ Len(low) = hit - 1 /\ \A k \in 1 .. hit - 1 : low[k] = owned[k]
      <3>1. /\ low \in Seq(M!Objects) /\ Len(low) = (IF 1 <= hit - 1 THEN hit - 1 - 1 + 1 ELSE 0)
            /\ \A k \in 1 .. hit - 1 - 1 + 1 : low[k] = owned[1 + k - 1]
        BY <2>3, <2>4, SubSeqProperties
      <3> QED
        BY <2>3, <3>1
    <2>7. /\ high \in Seq(M!Objects) /\ Len(high) = Len(owned) - hit
          /\ \A k \in 1 .. Len(owned) - hit : high[k] = owned[hit + k]
      <3>1. /\ high \in Seq(M!Objects)
            /\ Len(high) = (IF hit + 1 <= Len(owned) THEN Len(owned) - (hit + 1) + 1 ELSE 0)
            /\ \A k \in 1 .. Len(owned) - (hit + 1) + 1 : high[k] = owned[(hit + 1) + k - 1]
        BY <2>3, <2>5, SubSeqProperties
      <3>2. Len(high) = Len(owned) - hit
        BY <2>3, <3>1
      <3>3. ASSUME NEW k \in 1 .. Len(owned) - hit
            PROVE  high[k] = owned[hit + k]
        <4>1. k \in 1 .. Len(owned) - (hit + 1) + 1 /\ (hit + 1) + k - 1 = hit + k
          BY <2>3
        <4> QED
          BY <3>1, <4>1
      <3> QED
        BY <3>1, <3>2, <3>3
    <2>80. /\ list \in Seq(M!Objects) /\ Len(list) = Len(low) + Len(high)
           /\ \A j \in 1 .. Len(low) + Len(high) : list[j] = IF j <= Len(low) THEN low[j] ELSE high[j - Len(low)]
      <3>1. list = low \o high
        BY <2>2, <2>4, <2>5
      <3>2. low \in Seq(M!Objects) /\ high \in Seq(M!Objects)
        BY <2>6, <2>7
      <3>3. /\ low \o high \in Seq(M!Objects) /\ Len(low \o high) = Len(low) + Len(high)
            /\ \A j \in 1 .. Len(low) + Len(high) : (low \o high)[j] = IF j <= Len(low) THEN low[j] ELSE high[j - Len(low)]
        BY <3>2, ConcatProperties
      <3> QED
        BY <3>1, <3>3
    <2>8. /\ list \in Seq(M!Objects) /\ Len(list) = Len(owned) - 1
          /\ \A j \in 1 .. Len(list) : list[j] = IF j < hit THEN low[j] ELSE high[j - (hit - 1)]
      BY <2>3, <2>6, <2>7, <2>80
    <2>9. DOMAIN list = 1 .. Len(owned) - 1
      BY <2>8
    <2>10. \A j \in DOMAIN list : list[j] = owned[IF j < hit THEN j ELSE j + 1]
      <3>1. ASSUME NEW j \in 1 .. Len(owned) - 1, j < hit
            PROVE  list[j] = owned[j]
        BY <2>3, <2>6, <2>8, <3>1
      <3>2. ASSUME NEW j \in 1 .. Len(owned) - 1, ~(j < hit)
            PROVE  list[j] = owned[j + 1]
        <4>1. j - (hit - 1) \in 1 .. Len(owned) - hit /\ hit + (j - (hit - 1)) = j + 1
          BY <2>3, <3>2
        <4> QED
          BY <2>3, <2>7, <2>8, <3>2, <4>1
      <3> QED
        BY <2>9, <3>1, <3>2
    <2>11. \A j \in DOMAIN list : (IF j < hit THEN j ELSE j + 1) \in DOMAIN owned \ {hit}
      BY <2>3, <2>9
    <2>12. \A j, k \in DOMAIN list : (IF j < hit THEN j ELSE j + 1) = (IF k < hit THEN k ELSE k + 1) => j = k
      BY <2>3, <2>9
    <2>13. \A j, k \in DOMAIN owned : owned[j] = owned[k] => j = k
      BY DEF OwnedFit
    <2>14. \A j \in DOMAIN list : list[j] # o
      BY <2>1, <2>10, <2>11, <2>13
    <2>15. \A j \in DOMAIN list : \E k \in DOMAIN owned : list[j] = owned[k]
      BY <2>10, <2>11
    <2>16. ASSUME NEW j \in DOMAIN list, NEW k \in DOMAIN list, list[j] = list[k]
           PROVE  j = k
      <3>1. (IF j < hit THEN j ELSE j + 1) = (IF k < hit THEN k ELSE k + 1)
        BY <2>10, <2>11, <2>13, <2>16
      <3> QED
        BY <2>12, <3>1
    <2>17. ~M!Unloading
      BY <1>3
    <2> QED
      BY <2>8, <2>14, <2>15, <2>16, <2>17
  <1> QED
    BY <1>2, <1>3

\* Frames that follow the stack fit as the stack does.
LEMMA FollowsFit ==
  ASSUME MemoryFit, StackFit, EarlyFit, NEW o, NEW frames, Follows(frames, o)
  PROVE  /\ \A k \in DOMAIN frames :
              /\ frames[k].kind = "destructor" => frames[k].obj \in Containers \cap called
              /\ frames[k].kind = "call" => frames[k].obj \in Callers
              /\ frames[k].kind = "unload" => frames[k].obj = "plugin" /\ frames[k].next >= 1
              /\ frames[k].kind # "unload" => life[frames[k].obj] # "none"
              /\ frames[k].kind # "unload" /\ life[frames[k].obj] = "deleted" => frames[k].obj \in early
              /\ frames[k].kind = "unload" =>
                   \A j \in DOMAIN owned : j >= frames[k].next /\ life[owned[j]] = "deleted" => owned[j] \in early
         /\ M!InUse(o, frames) <=> ComesBack(o, frames, owned)
  <1>1. \A k \in DOMAIN frames : frames[k].next \in Nat
    BY FrameFields DEF Follows
  <1>2. stack \in Seq(Frames) /\ owned \in Seq(M!Objects)
    BY DEF MemoryFit
  <1>3. \A i \in DOMAIN stack : stack[i].next \in Nat
    BY <1>2, FrameFields
  <1>4. ASSUME NEW k \in DOMAIN frames
        PROVE  /\ frames[k].kind = "destructor" => frames[k].obj \in Containers \cap called
               /\ frames[k].kind = "call" => frames[k].obj \in Callers
               /\ frames[k].kind = "unload" => frames[k].obj = "plugin" /\ frames[k].next >= 1
               /\ frames[k].kind # "unload" => life[frames[k].obj] # "none"
               /\ frames[k].kind # "unload" /\ life[frames[k].obj] = "deleted" => frames[k].obj \in early
               /\ frames[k].kind = "unload" =>
                    \A j \in DOMAIN owned : j >= frames[k].next /\ life[owned[j]] = "deleted" => owned[j] \in early
    <2>1. PICK i \in DOMAIN stack : /\ frames[k].kind = stack[i].kind /\ frames[k].obj = stack[i].obj
                                   /\ frames[k].next >= stack[i].next
      BY DEF Follows
    <2>2. /\ stack[i].kind = "destructor" => stack[i].obj \in Containers \cap called
          /\ stack[i].kind = "call" => stack[i].obj \in Callers
          /\ stack[i].kind = "unload" => stack[i].obj = "plugin" /\ stack[i].next >= 1
          /\ stack[i].kind # "unload" => life[stack[i].obj] # "none"
          /\ stack[i].kind # "unload" /\ life[stack[i].obj] = "deleted" => stack[i].obj \in early
          /\ stack[i].kind = "unload" =>
               \A j \in DOMAIN owned : j >= stack[i].next /\ life[owned[j]] = "deleted" => owned[j] \in early
      BY DEF StackFit, EarlyFit
    <2>3. \A j \in DOMAIN owned : j \in Nat
      BY <1>2
    <2>4. \A j \in DOMAIN owned : j >= frames[k].next => j >= stack[i].next
      BY <1>1, <1>3, <2>1, <2>3
    <2>5. frames[k].kind = "unload" => frames[k].next >= 1
      BY <1>1, <1>3, <2>1, <2>2
    <2> QED
      BY <2>1, <2>2, <2>4, <2>5
  <1>5. M!InUse(o, frames) <=> ComesBack(o, frames, owned)
    BY <1>4, InUseWaits DEF Follows
  <1> QED
    BY <1>4, <1>5

\* An object is deleted, and what goes on may come back to it.
LEMMA DeletionKeeps ==
  ASSUME MemoryInv, NEW o \in M!Objects, NEW frames, Follows(frames, o), life[o] = "alive",
         life' = [life EXCEPT ![o] = "deleted"], block' \in [Containers -> Blocks],
         \A c \in Containers : c # o => block'[c] = block[c],
         hook' \in [Containers -> BOOLEAN], owned' = M!Forget(o), stack' = frames,
         early' = IF M!InUse(o, frames) THEN early \cup {o} ELSE early,
         ComesBack(o, frames, owned) => called # {} \/ o \in Callers,
         UNCHANGED <<called, broken>>
  PROVE  MemoryInv'
  <1>1. MemoryFit /\ StackFit /\ OwnedFit /\ BlocksFit /\ EarlyFit
    BY DEF MemoryInv
  <1>2. life \in [M!Objects -> Lives] /\ "deleted" \in Lives /\ owned \in Seq(M!Objects) /\ stack \in Seq(Frames)
    BY <1>1 DEF MemoryFit, Lives
  <1>3. /\ life' \in [M!Objects -> Lives] /\ life'[o] = "deleted"
        /\ \A x \in M!Objects : x # o => life'[x] = life[x]
    BY <1>2
  <1>4. /\ owned' \in Seq(M!Objects) /\ (M!Unloading => owned' = owned)
        /\ \A j \in DOMAIN owned' : \E k \in DOMAIN owned : owned'[j] = owned[k]
        /\ \A j, k \in DOMAIN owned' : owned'[j] = owned'[k] => j = k
        /\ ~M!Unloading => \A j \in DOMAIN owned' : owned'[j] # o
    BY <1>1, Forgotten
  <1>5. /\ frames \in Seq(Frames)
        /\ \A j, k \in DOMAIN frames : frames[j].kind = "unload" /\ frames[k].kind = "unload" => j = k
        /\ (\E k \in DOMAIN frames : frames[k].kind = "unload") <=> M!Unloading
        /\ \A x : x # o /\ ComesBack(x, stack, owned) => ComesBack(x, frames, owned)
        /\ \A c : c # o /\ M!InStack("destructor", c) =>
              \E k \in DOMAIN frames : frames[k].kind = "destructor" /\ frames[k].obj = c
        /\ frames # <<>> /\ M!Unloading /\ frames[Len(frames)].kind # "unload" => called # {}
    BY DEF Follows
  <1>6. /\ \A k \in DOMAIN frames :
              /\ frames[k].kind = "destructor" => frames[k].obj \in Containers \cap called
              /\ frames[k].kind = "call" => frames[k].obj \in Callers
              /\ frames[k].kind = "unload" => frames[k].obj = "plugin" /\ frames[k].next >= 1
              /\ frames[k].kind # "unload" => life[frames[k].obj] # "none"
              /\ frames[k].kind # "unload" /\ life[frames[k].obj] = "deleted" => frames[k].obj \in early
              /\ frames[k].kind = "unload" =>
                   \A j \in DOMAIN owned : j >= frames[k].next /\ life[owned[j]] = "deleted" => owned[j] \in early
        /\ M!InUse(o, frames) <=> ComesBack(o, frames, owned)
    BY <1>1, FollowsFit
  <1>7. M!Unloading' <=> M!Unloading
    BY <1>5 DEF M!Unloading
  <1>8. \A k \in DOMAIN frames : frames[k].kind # "unload" => frames[k].obj \in M!Objects
    <2>1. ASSUME NEW k \in DOMAIN frames, frames[k].kind # "unload"
          PROVE  frames[k].kind = "destructor" \/ frames[k].kind = "call"
      BY <1>5, <2>1, FrameFields DEF FrameKinds
    <2> QED
      BY <1>6, <2>1 DEF M!Objects
  <1>9. MemoryFit'
    BY <1>3, <1>4, <1>5 DEF MemoryFit
  <1>10. StackFit'
    <2>1. \A k \in DOMAIN frames : frames[k].kind # "unload" => life'[frames[k].obj] # "none"
      BY <1>3, <1>6, <1>8
    <2>2. M!Unloading' /\ M!Top'.kind # "unload" => called # {}
      BY <1>5, <1>7 DEF M!Top, M!Unloading
    <2> QED
      BY <1>5, <1>6, <2>1, <2>2 DEF StackFit
  <1>11. OwnedFit'
    <2>1. ASSUME NEW j \in DOMAIN owned'
          PROVE  life'[owned'[j]] # "none" /\ (~M!Unloading => life'[owned'[j]] = "alive")
      <3>1. PICK k \in DOMAIN owned : owned'[j] = owned[k]
        BY <1>4
      <3>2. life[owned[k]] # "none" /\ (~M!Unloading => life[owned[k]] = "alive") /\ owned[k] \in M!Objects
        BY <1>1, <1>2 DEF OwnedFit
      <3> QED
        BY <1>3, <1>4, <3>1, <3>2
    <2> QED
      BY <1>4, <1>7, <2>1 DEF OwnedFit
  <1>12. BlocksFit'
    <2>1. ASSUME NEW c \in Containers
          PROVE  /\ life'[c] = "none" => block'[c] = "none"
                 /\ c \in called => life'[c] = "deleted" \/ M!InStack("destructor", c)'
      <3>1. c \in M!Objects /\ (life[c] = "none" => block[c] = "none")
            /\ (c \in called => life[c] = "deleted" \/ M!InStack("destructor", c))
        BY <1>1 DEF BlocksFit, M!Objects
      <3>2. CASE c = o
        BY <1>3, <3>2
      <3>3. CASE c # o
        BY <1>3, <1>5, <3>1, <3>3 DEF M!InStack
      <3> QED
        BY <3>2, <3>3
    <2> QED
      BY <2>1 DEF BlocksFit
  <1>13. EarlyFit'
    <2>1. early' = IF ComesBack(o, frames, owned) THEN early \cup {o} ELSE early
      BY <1>6
    <2>2. \A x \in early : x \in M!Objects /\ life[x] = "deleted" /\ x # o
      BY <1>1 DEF EarlyFit
    <2>3. \A x \in early' : x \in M!Objects /\ life'[x] = "deleted"
      BY <1>3, <2>1, <2>2
    <2>4. ASSUME NEW k \in DOMAIN frames
          PROVE  /\ frames[k].kind # "unload" /\ life'[frames[k].obj] = "deleted" => frames[k].obj \in early'
                 /\ frames[k].kind = "unload" =>
                      \A j \in DOMAIN owned' : j >= frames[k].next /\ life'[owned'[j]] = "deleted" => owned'[j] \in early'
      <3>1. ASSUME frames[k].kind # "unload", life'[frames[k].obj] = "deleted"
            PROVE  frames[k].obj \in early'
        <4>1. CASE frames[k].obj = o
          BY <2>1, <4>1 DEF ComesBack
        <4>2. CASE frames[k].obj # o
          BY <1>3, <1>6, <1>8, <2>1, <3>1, <4>2
        <4> QED
          BY <4>1, <4>2
      <3>2. ASSUME frames[k].kind = "unload", NEW j \in DOMAIN owned', j >= frames[k].next, life'[owned'[j]] = "deleted"
            PROVE  owned'[j] \in early'
        <4>1. owned' = owned /\ owned[j] \in M!Objects
          BY <1>2, <1>4, <1>5, <3>2
        <4>2. CASE owned[j] = o
          BY <2>1, <3>2, <4>1, <4>2 DEF ComesBack
        <4>3. CASE owned[j] # o
          BY <1>3, <1>6, <2>1, <3>2, <4>1, <4>3
        <4> QED
          BY <4>2, <4>3
      <3> QED
        BY <3>1, <3>2
    <2>5. ASSUME NEW x, ComesBack(x, frames, owned)
          PROVE  ComesBack(x, frames, owned')
      <3>1. CASE \E k \in DOMAIN frames : frames[k].obj = x
        BY <3>1 DEF ComesBack
      <3>2. CASE ~\E k \in DOMAIN frames : frames[k].obj = x
        <4>1. \E k \in DOMAIN frames : frames[k].kind = "unload"
          BY <2>5, <3>2 DEF ComesBack
        <4> QED
          BY <1>4, <1>5, <2>5, <4>1
      <3> QED
        BY <3>1, <3>2
    <2>6. ASSUME NEW x \in early', x \notin broken
          PROVE  ComesBack(x, frames, owned')
      <3>1. CASE x \in early
        <4>1. ComesBack(x, stack, owned)
          BY <1>1, <2>6, <3>1 DEF EarlyFit
        <4> QED
          BY <1>5, <2>2, <2>5, <3>1, <4>1
      <3>2. CASE x \notin early
        BY <2>1, <2>5, <2>6, <3>2
      <3> QED
        BY <3>1, <3>2
    <2>7. broken \ {"list"} \subseteq early'
      BY <1>1, <2>1 DEF EarlyFit
    <2>8. early' # {} => called # {} \/ Callers \cap early' # {}
      BY <1>1, <2>1 DEF EarlyFit
    <2> QED
      BY <2>3, <2>4, <2>6, <2>7, <2>8 DEF EarlyFit
  <1> QED
    BY <1>9, <1>10, <1>11, <1>12, <1>13 DEF MemoryInv

\* What goes on comes back to an object that was deleted, or to one that was not.
LEMMA ReturnKeeps ==
  ASSUME MemoryInv, NEW o, NEW frames, Follows(frames, o), o \in Containers => life[o] = "deleted", stack' = frames,
         \/ o \in early /\ broken' = broken \cup {o}
         \/ o \notin early /\ broken' = broken,
         UNCHANGED <<life, block, hook, owned, called, early>>
  PROVE  MemoryInv'
  <1>1. MemoryFit /\ StackFit /\ OwnedFit /\ BlocksFit /\ EarlyFit
    BY DEF MemoryInv
  <1>2. /\ frames \in Seq(Frames)
        /\ \A j, k \in DOMAIN frames : frames[j].kind = "unload" /\ frames[k].kind = "unload" => j = k
        /\ (\E k \in DOMAIN frames : frames[k].kind = "unload") <=> M!Unloading
        /\ \A x : x # o /\ ComesBack(x, stack, owned) => ComesBack(x, frames, owned)
        /\ \A c : c # o /\ M!InStack("destructor", c) =>
              \E k \in DOMAIN frames : frames[k].kind = "destructor" /\ frames[k].obj = c
        /\ frames # <<>> /\ M!Unloading /\ frames[Len(frames)].kind # "unload" => called # {}
    BY DEF Follows
  <1>3. \A k \in DOMAIN frames :
              /\ frames[k].kind = "destructor" => frames[k].obj \in Containers \cap called
              /\ frames[k].kind = "call" => frames[k].obj \in Callers
              /\ frames[k].kind = "unload" => frames[k].obj = "plugin" /\ frames[k].next >= 1
              /\ frames[k].kind # "unload" => life[frames[k].obj] # "none"
              /\ frames[k].kind # "unload" /\ life[frames[k].obj] = "deleted" => frames[k].obj \in early
              /\ frames[k].kind = "unload" =>
                   \A j \in DOMAIN owned : j >= frames[k].next /\ life[owned[j]] = "deleted" => owned[j] \in early
    BY <1>1, FollowsFit
  <1>4. M!Unloading' <=> M!Unloading
    BY <1>2 DEF M!Unloading
  <1>5. MemoryFit'
    BY <1>1, <1>2 DEF MemoryFit
  <1>6. StackFit'
    <2>1. M!Unloading' /\ M!Top'.kind # "unload" => called # {}
      BY <1>2, <1>4 DEF M!Top, M!Unloading
    <2> QED
      BY <1>2, <1>3, <2>1 DEF StackFit
  <1>7. OwnedFit'
    BY <1>1, <1>4 DEF OwnedFit
  <1>8. BlocksFit'
    BY <1>1, <1>2 DEF BlocksFit, M!InStack
  <1>9. EarlyFit'
    <2>1. ASSUME NEW x \in early, x \notin broken'
          PROVE  ComesBack(x, frames, owned)
      <3>1. x # o /\ x \notin broken
        BY <2>1
      <3> QED
        BY <1>1, <1>2, <3>1 DEF EarlyFit
    <2> QED
      BY <1>1, <1>3, <2>1 DEF EarlyFit
  <1> QED
    BY <1>5, <1>6, <1>7, <1>8, <1>9 DEF MemoryInv

\* A frame is pushed on frames that follow the stack.
LEMMA PushKeeps ==
  ASSUME MemoryInv, NEW o, NEW frames, Follows(frames, o), o \notin early,
         NEW x \in Frames, x.kind # "unload", x.obj = o, life[o] = "alive",
         x.kind = "destructor" => o \in Containers, x.kind = "call" => o \in Callers,
         stack' = Append(frames, x), called' = IF x.kind = "destructor" THEN called \cup {o} ELSE called,
         x.kind = "call" => frames = stack /\ M!ScriptRuns,
         UNCHANGED <<life, block, hook, owned, early, broken>>
  PROVE  MemoryInv'
  <1>1. MemoryFit /\ StackFit /\ OwnedFit /\ BlocksFit /\ EarlyFit
    BY DEF MemoryInv
  <1>2. /\ frames \in Seq(Frames)
        /\ \A j, k \in DOMAIN frames : frames[j].kind = "unload" /\ frames[k].kind = "unload" => j = k
        /\ (\E k \in DOMAIN frames : frames[k].kind = "unload") <=> M!Unloading
        /\ \A y : y # o /\ ComesBack(y, stack, owned) => ComesBack(y, frames, owned)
        /\ \A c : c # o /\ M!InStack("destructor", c) =>
              \E k \in DOMAIN frames : frames[k].kind = "destructor" /\ frames[k].obj = c
    BY DEF Follows
  <1>3. \A k \in DOMAIN frames :
              /\ frames[k].kind = "destructor" => frames[k].obj \in Containers \cap called
              /\ frames[k].kind = "call" => frames[k].obj \in Callers
              /\ frames[k].kind = "unload" => frames[k].obj = "plugin" /\ frames[k].next >= 1
              /\ frames[k].kind # "unload" => life[frames[k].obj] # "none"
              /\ frames[k].kind # "unload" /\ life[frames[k].obj] = "deleted" => frames[k].obj \in early
              /\ frames[k].kind = "unload" =>
                   \A j \in DOMAIN owned : j >= frames[k].next /\ life[owned[j]] = "deleted" => owned[j] \in early
    BY <1>1, FollowsFit
  <1>4. x.kind = "destructor" \/ x.kind = "call"
    BY FrameFields DEF FrameKinds
  <1>5. PICK n \in Nat : n = Len(frames) + 1
    BY <1>2
  <1>6. /\ stack' \in Seq(Frames) /\ DOMAIN stack' = DOMAIN frames \cup {n} /\ n \notin DOMAIN frames
        /\ stack'[n] = x /\ Len(stack') = n
        /\ \A k \in DOMAIN frames : stack'[k] = frames[k]
    BY <1>2, <1>5
  <1>7. M!Unloading' <=> M!Unloading
    BY <1>2, <1>6 DEF M!Unloading
  <1>8. called \subseteq called'
    OBVIOUS
  <1>9. MemoryFit'
    BY <1>1, <1>6 DEF MemoryFit
  <1>10. StackFit'
    <2>1. M!Unloading' /\ M!Top'.kind # "unload" => called' # {}
      <3>1. CASE x.kind = "destructor"
        BY <3>1
      <3>2. CASE x.kind = "call"
        <4>1. M!Unloading => stack # <<>> /\ M!Top.kind # "unload"
          BY <3>2 DEF M!ScriptRuns, M!Unloading
        <4> QED
          BY <1>1, <1>7, <1>8, <4>1 DEF StackFit
      <3> QED
        BY <1>4, <3>1, <3>2
    <2>2. ASSUME NEW k \in DOMAIN stack'
          PROVE  /\ stack'[k].kind = "destructor" => stack'[k].obj \in Containers \cap called'
                 /\ stack'[k].kind = "call" => stack'[k].obj \in Callers
                 /\ stack'[k].kind = "unload" => stack'[k].obj = "plugin" /\ stack'[k].next >= 1
                 /\ stack'[k].kind # "unload" => life[stack'[k].obj] # "none"
      <3>1. CASE k = n
        BY <1>4, <1>6, <3>1
      <3>2. CASE k # n
        BY <1>3, <1>6, <1>8, <3>2
      <3> QED
        BY <3>1, <3>2
    <2>3. \A j, k \in DOMAIN stack' : stack'[j].kind = "unload" /\ stack'[k].kind = "unload" => j = k
      BY <1>2, <1>6
    <2> QED
      BY <2>1, <2>2, <2>3 DEF StackFit
  <1>11. OwnedFit'
    BY <1>1, <1>7 DEF OwnedFit
  <1>12. BlocksFit'
    <2>1. ASSUME NEW c \in Containers, c \in called'
          PROVE  life[c] = "deleted" \/ M!InStack("destructor", c)'
      <3>1. CASE c = o /\ x.kind = "destructor"
        BY <1>6, <3>1 DEF M!InStack
      <3>2. CASE ~(c = o /\ x.kind = "destructor")
        <4>1. c \in called /\ (life[c] = "deleted" \/ M!InStack("destructor", c))
          BY <1>1, <2>1, <3>2 DEF BlocksFit
        <4>2. c # o
          BY <1>4, <3>2, MemoryAssumption
        <4> QED
          BY <1>2, <1>6, <4>1, <4>2 DEF M!InStack
      <3> QED
        BY <3>1, <3>2
    <2> QED
      BY <1>1, <2>1 DEF BlocksFit
  <1>13. EarlyFit'
    <2>1. ASSUME NEW y \in early, y \notin broken
          PROVE  ComesBack(y, stack', owned)
      <3>1. ComesBack(y, frames, owned)
        BY <1>1, <1>2, <2>1 DEF EarlyFit
      <3> QED
        BY <1>6, <3>1 DEF ComesBack
    <2>2. ASSUME NEW k \in DOMAIN stack'
          PROVE  /\ stack'[k].kind # "unload" /\ life[stack'[k].obj] = "deleted" => stack'[k].obj \in early
                 /\ stack'[k].kind = "unload" =>
                      \A j \in DOMAIN owned : j >= stack'[k].next /\ life[owned[j]] = "deleted" => owned[j] \in early
      <3>1. CASE k = n
        BY <1>6, <3>1
      <3>2. CASE k # n
        BY <1>3, <1>6, <3>2
      <3> QED
        BY <3>1, <3>2
    <2>3. early # {} => called' # {} \/ Callers \cap early # {}
      BY <1>1, <1>8 DEF EarlyFit
    <2> QED
      BY <1>1, <2>1, <2>2, <2>3 DEF EarlyFit
  <1> QED
    BY <1>9, <1>10, <1>11, <1>12, <1>13 DEF MemoryInv

\* Whoever comes back to an object while a script runs: a destructor that calls back, or a call.
LEMMA ComesBackInScript ==
  ASSUME MemoryInv, NEW o \in M!Objects, M!ScriptRuns, ComesBack(o, stack, owned)
  PROVE  called # {} \/ o \in Callers
  <1>1. MemoryFit /\ StackFit
    BY DEF MemoryInv
  <1>2. PICK k \in DOMAIN stack :
          \/ stack[k].obj = o
          \/ stack[k].kind = "unload" /\ \E j \in DOMAIN owned : j >= stack[k].next /\ owned[j] = o
    BY DEF ComesBack
  <1>3. stack[k].kind \in FrameKinds
    BY <1>1, FrameFields DEF MemoryFit
  <1>4. CASE stack[k].kind = "unload"
    BY <1>1, <1>4 DEF StackFit, M!ScriptRuns, M!Unloading
  <1>5. CASE stack[k].kind # "unload"
    BY <1>1, <1>2, <1>3, <1>5 DEF StackFit, FrameKinds
  <1> QED
    BY <1>4, <1>5

LEMMA AliveIsNotEarly ==
  ASSUME MemoryInv, NEW o, life[o] = "alive"
  PROVE  o \notin early
  BY DEF MemoryInv, EarlyFit

\* FreeBlock leaves the blocks of other containers.
LEMMA FreeBlockFits ==
  ASSUME MemoryFit, NEW o \in M!Objects, NEW frames, M!FreeBlock(o, frames)
  PROVE  /\ life' = [life EXCEPT ![o] = "deleted"] /\ block' \in [Containers -> Blocks]
         /\ \A c \in Containers : c # o => block'[c] = block[c]
         /\ hook' \in [Containers -> BOOLEAN]
         /\ early' = IF M!InUse(o, frames) THEN early \cup {o} ELSE early
  <1>1. block \in [Containers -> Blocks] /\ hook \in [Containers -> BOOLEAN] /\ "freed" \in Blocks
    BY DEF MemoryFit, Blocks
  <1>2. block' = IF o \in Containers /\ block[o] = "held" THEN [block EXCEPT ![o] = "freed"] ELSE block
    BY DEF M!FreeBlock
  <1>3. hook' = IF o \in Containers THEN [hook EXCEPT ![o] = FALSE] ELSE hook
    BY DEF M!FreeBlock
  <1>4. block' \in [Containers -> Blocks] /\ \A c \in Containers : c # o => block'[c] = block[c]
    BY <1>1, <1>2
  <1>5. hook' \in [Containers -> BOOLEAN]
    BY <1>1, <1>3
  <1> QED
    BY <1>4, <1>5 DEF M!FreeBlock

\* The deletion of an object, which calls back first or not.
LEMMA DeleteObjectKeeps ==
  ASSUME MemoryInv, NEW o \in M!Objects, NEW frames, Follows(frames, o), life[o] # "none",
         life[o] = "deleted" => o \in early,
         ComesBack(o, frames, owned) => called # {} \/ o \in Callers, M!Delete(o, frames)
  PROVE  MemoryInv'
  <1>1. MemoryFit
    BY DEF MemoryInv
  <1>2. CASE life[o] = "deleted"
    BY <1>2, ReturnKeeps DEF M!Delete
  <1>3. CASE life[o] # "deleted"
    <2>1. life[o] = "alive"
      BY <1>1, <1>3 DEF MemoryFit, Lives
    <2>2. CASE M!CallsBack(o)
      <3>1. PICK x : x = M!Frame("destructor", o, 0)
        OBVIOUS
      <3>2. x \in Frames /\ x.kind = "destructor" /\ x.obj = o
        BY <3>1 DEF M!Frame, Frames, FrameKinds, Waiters
      <3>3. stack' = Append(frames, x) /\ called' = called \cup {o} /\ UNCHANGED <<life, block, hook, owned, early, broken>>
        BY <1>3, <2>2, <3>1 DEF M!Delete
      <3>4. o \in Containers
        BY <2>2 DEF M!CallsBack
      <3> QED
        BY <2>1, <3>2, <3>3, <3>4, AliveIsNotEarly, PushKeeps
    <2>3. CASE ~M!CallsBack(o)
      <3>1. M!FreeBlock(o, frames) /\ stack' = frames /\ owned' = M!Forget(o) /\ UNCHANGED <<called, broken>>
        BY <1>3, <2>3 DEF M!Delete
      <3> QED
        BY <1>1, <2>1, <3>1, FreeBlockFits, DeletionKeeps
    <2> QED
      BY <2>2, <2>3
  <1> QED
    BY <1>2, <1>3

LEMMA FreeKeeps ==
  ASSUME MemoryInv, NEW o \in M!Objects, M!script_free(o)
  PROVE  MemoryInv'
  <1>1. life[o] = "alive" /\ M!ScriptRuns /\ M!Delete(o, stack)
    BY DEF M!script_free, M!Method
  <1>2. Follows(stack, o)
    BY FollowsAll DEF MemoryInv
  <1> QED
    BY <1>1, <1>2, ComesBackInScript, DeleteObjectKeeps

LEMMA CallbackReturnsKeeps ==
  ASSUME MemoryInv, M!CallbackReturns
  PROVE  MemoryInv'
  <1>1. MemoryFit /\ StackFit /\ EarlyFit
    BY DEF MemoryInv
  <1>2. PICK c : c = M!Top.obj
    OBVIOUS
  <1>3. stack # <<>> /\ M!Top.kind = "destructor" /\ stack' = M!Below /\ UNCHANGED called
    BY DEF M!CallbackReturns
  <1>4. Len(stack) \in DOMAIN stack /\ M!Top = stack[Len(stack)]
    BY <1>1, <1>3 DEF MemoryFit, M!Top
  <1>5. c \in Containers /\ c \in M!Objects /\ c \in called /\ life[c] # "none" /\ (life[c] = "deleted" => c \in early)
    BY <1>1, <1>2, <1>3, <1>4 DEF StackFit, EarlyFit, M!Objects
  <1>6. Follows(M!Below, c)
    BY <1>1, <1>2, <1>3, FollowsBelow
  <1>7. CASE life[c] = "deleted"
    <2>1. broken' = broken \cup {c} /\ UNCHANGED <<life, block, hook, owned, early>>
      BY <1>2, <1>7 DEF M!CallbackReturns
    <2> QED
      BY <1>3, <1>5, <1>6, <1>7, <2>1, ReturnKeeps
  <1>8. CASE life[c] # "deleted"
    <2>1. M!FreeBlock(c, M!Below) /\ UNCHANGED broken /\ owned' = M!Forget(c)
      BY <1>2, <1>8 DEF M!CallbackReturns
    <2>2. life[c] = "alive"
      BY <1>1, <1>5, <1>8 DEF MemoryFit, Lives
    <2>3. /\ life' = [life EXCEPT ![c] = "deleted"] /\ block' \in [Containers -> Blocks]
          /\ \A x \in Containers : x # c => block'[x] = block[x]
          /\ hook' \in [Containers -> BOOLEAN]
          /\ early' = IF M!InUse(c, M!Below) THEN early \cup {c} ELSE early
      BY <1>1, <1>5, <2>1, FreeBlockFits
    <2> QED
      BY <1>3, <1>5, <1>6, <2>1, <2>2, <2>3, DeletionKeeps
  <1> QED
    BY <1>7, <1>8

LEMMA CallReturnsKeeps ==
  ASSUME MemoryInv, M!CallReturns
  PROVE  MemoryInv'
  <1>1. MemoryFit /\ StackFit /\ EarlyFit
    BY DEF MemoryInv
  <1>2. PICK f : f = M!Top.obj
    OBVIOUS
  <1>3. /\ stack # <<>> /\ M!Top.kind = "call" /\ stack' = M!Below
        /\ broken' = IF life[f] = "deleted" THEN broken \cup {f} ELSE broken
        /\ UNCHANGED <<life, block, hook, owned, called, early>>
    BY <1>2 DEF M!CallReturns
  <1>4. Len(stack) \in DOMAIN stack /\ M!Top = stack[Len(stack)]
    BY <1>1, <1>3 DEF MemoryFit, M!Top
  <1>5. f \notin Containers /\ (f \in early <=> life[f] = "deleted")
    BY <1>1, <1>2, <1>3, <1>4, MemoryAssumption DEF StackFit, EarlyFit
  <1>6. Follows(M!Below, f)
    BY <1>1, <1>2, <1>3, FollowsBelow
  <1> QED
    BY <1>3, <1>5, <1>6, ReturnKeeps

LEMMA PluginUnloadedKeeps ==
  ASSUME MemoryInv, M!plugin_unloaded
  PROVE  MemoryInv'
  <1>1. MemoryFit /\ StackFit /\ OwnedFit /\ EarlyFit
    BY DEF MemoryInv
  <1>2. stack # <<>> /\ M!Top.kind = "unload" /\ M!Top.next <= Len(owned)
    BY DEF M!plugin_unloaded
  <1>3. PICK n : n = M!Top.next
    OBVIOUS
  <1>4. PICK o : o = owned[n]
    OBVIOUS
  <1>5. PICK frames : frames = Append(M!Below, M!Frame("unload", "plugin", n + 1))
    OBVIOUS
  <1>6. Follows(frames, o) /\ n \in DOMAIN owned
    BY <1>1, <1>2, <1>3, <1>4, <1>5, FollowsNext
  <1>7. M!Delete(o, frames)
    BY <1>3, <1>4, <1>5 DEF M!plugin_unloaded
  <1>8. o \in M!Objects /\ life[o] # "none"
    BY <1>1, <1>4, <1>6 DEF MemoryFit, OwnedFit
  <1>9. Len(stack) \in DOMAIN stack /\ M!Top = stack[Len(stack)] /\ n \in Nat
    <2>1. stack \in Seq(Frames)
      BY <1>1 DEF MemoryFit
    <2>2. Len(stack) \in DOMAIN stack
      BY <1>2, <2>1
    <2> QED
      BY <1>3, <2>1, <2>2, FrameFields DEF M!Top
  <1>10. life[o] = "deleted" => o \in early
    BY <1>1, <1>2, <1>3, <1>4, <1>6, <1>9 DEF EarlyFit
  <1>11. ASSUME ComesBack(o, frames, owned)
         PROVE  called # {} \/ o \in Callers
    <2>1. PICK k \in DOMAIN frames :
            \/ frames[k].obj = o
            \/ frames[k].kind = "unload" /\ \E j \in DOMAIN owned : j >= frames[k].next /\ owned[j] = o
      BY <1>11 DEF ComesBack
    <2>2. /\ frames[k].kind = "destructor" => frames[k].obj \in Containers \cap called
          /\ frames[k].kind = "call" => frames[k].obj \in Callers
          /\ frames[k].kind = "unload" => frames[k].obj = "plugin"
      BY <1>1, <1>6, FollowsFit
    <2>3. frames[k].kind \in FrameKinds
      BY <1>6, FrameFields DEF Follows
    <2>4. CASE frames[k].kind # "unload"
      BY <2>1, <2>2, <2>3, <2>4 DEF FrameKinds
    <2>5. CASE frames[k].kind = "unload"
      <3>1. PICK j \in DOMAIN owned : j >= frames[k].next /\ owned[j] = o
        BY <1>8, <2>1, <2>2, <2>5, MemoryAssumption DEF M!Objects
      <3>2. Len(frames) \in DOMAIN frames /\ frames[Len(frames)] = M!Frame("unload", "plugin", n + 1)
        <4>1. stack \in Seq(Frames) /\ M!Below \in Seq(Frames)
          BY <1>1, <1>2, WithoutLast DEF MemoryFit, M!Below
        <4>2. frames \in Seq(Frames) /\ Len(frames) = Len(M!Below) + 1
          BY <1>5, <1>6, <4>1 DEF Follows
        <4> QED
          BY <1>5, <4>1, <4>2
      <3>3. frames[Len(frames)].kind = "unload" /\ frames[Len(frames)].next = n + 1
        BY <3>2 DEF M!Frame
      <3>4. k = Len(frames)
        BY <1>6, <2>5, <3>2, <3>3 DEF Follows
      <3>5. j = n
        BY <1>1, <1>4, <1>6, <3>1 DEF OwnedFit
      <3>6. n >= n + 1
        BY <3>1, <3>3, <3>4, <3>5
      <3> QED
        BY <1>9, <3>6
    <2> QED
      BY <2>4, <2>5
  <1> QED
    BY <1>6, <1>7, <1>8, <1>10, <1>11, DeleteObjectKeeps

LEMMA ReleaseKeeps ==
  ASSUME MemoryInv, NEW c \in Containers, M!script_release(c)
  PROVE  MemoryInv'
  <1>1. MemoryFit /\ StackFit
    BY DEF MemoryInv
  <1>2. /\ life[c] = "alive" /\ M!ScriptRuns /\ life' = [life EXCEPT ![c] = "deleted"]
        /\ hook' = [hook EXCEPT ![c] = FALSE] /\ owned' = M!Forget(c) /\ stack' = stack
        /\ early' = IF M!InUse(c, stack) THEN early \cup {c} ELSE early
        /\ UNCHANGED <<called, broken>>
    BY DEF M!script_release, M!Method
  <1>3. block' = IF block[c] = "held" THEN [block EXCEPT ![c] = "given"] ELSE block
    BY DEF M!script_release, M!Released
  <1>4. block \in [Containers -> Blocks] /\ hook \in [Containers -> BOOLEAN] /\ "given" \in Blocks
    BY <1>1 DEF MemoryFit, Blocks
  <1>5. block' \in [Containers -> Blocks] /\ \A x \in Containers : x # c => block'[x] = block[x]
    BY <1>3, <1>4
  <1>6. hook' \in [Containers -> BOOLEAN]
    BY <1>2, <1>4
  <1>7. c \in M!Objects /\ Follows(stack, c)
    BY <1>1, FollowsAll DEF M!Objects
  <1> QED
    BY <1>2, <1>5, <1>6, <1>7, ComesBackInScript, DeletionKeeps

\* A new object is alive, and in the list or not, or it is deleted before a script saw it.
LEMMA CreationKeeps ==
  ASSUME MemoryInv, NEW o \in M!Objects, life[o] = "none", NEW to, to = "alive" \/ to = "deleted",
         life' = [life EXCEPT ![o] = to], block' \in [Containers -> Blocks],
         \A c \in Containers : c # o => block'[c] = block[c],
         owned' = owned \/ (to = "alive" /\ owned' = Append(owned, o)),
         broken' = broken \/ broken' = broken \cup {"list"},
         UNCHANGED <<hook, stack, called, early>>
  PROVE  MemoryInv'
  <1>1. MemoryFit /\ StackFit /\ OwnedFit /\ BlocksFit /\ EarlyFit
    BY DEF MemoryInv
  <1>2. /\ life \in [M!Objects -> Lives] /\ to \in Lives /\ owned \in Seq(M!Objects) /\ stack \in Seq(Frames)
    BY <1>1 DEF MemoryFit, Lives
  <1>3. /\ life' \in [M!Objects -> Lives] /\ life'[o] = to
        /\ \A x \in M!Objects : x # o => life'[x] = life[x]
    BY <1>2
  <1>4. \A k \in DOMAIN stack : stack[k].kind # "unload" => stack[k].obj \in M!Objects \ {o}
    <2>1. ASSUME NEW k \in DOMAIN stack, stack[k].kind # "unload"
          PROVE  stack[k].obj \in M!Objects
      <3>1. stack[k].kind = "destructor" \/ stack[k].kind = "call"
        BY <1>2, <2>1, FrameFields DEF FrameKinds
      <3> QED
        BY <1>1, <2>1, <3>1 DEF StackFit, M!Objects
    <2> QED
      BY <1>1, <2>1 DEF StackFit
  <1>5. PICK n \in Nat : n = Len(owned) + 1
    BY <1>2
  <1>6. /\ owned' \in Seq(M!Objects) /\ DOMAIN owned' \in {DOMAIN owned, DOMAIN owned \cup {n}}
        /\ \A j \in DOMAIN owned : j \in DOMAIN owned' /\ owned'[j] = owned[j] /\ owned[j] \in M!Objects
        /\ n \notin DOMAIN owned /\ (n \in DOMAIN owned' => owned'[n] = o /\ to = "alive")
    <2>1. owned \in Seq(M!Objects)
      BY <1>2
    <2>2. DOMAIN owned = 1 .. Len(owned) /\ n \notin DOMAIN owned
      BY <1>5, <2>1
    <2>3. CASE owned' = owned
      BY <2>1, <2>2, <2>3
    <2>4. CASE to = "alive" /\ owned' = Append(owned, o)
      <3>1. /\ owned' \in Seq(M!Objects) /\ DOMAIN owned' = DOMAIN owned \cup {n} /\ owned'[n] = o
            /\ \A j \in DOMAIN owned : owned'[j] = owned[j] /\ owned[j] \in M!Objects
        BY <1>5, <2>1, <2>4
      <3> QED
        BY <2>2, <2>4, <3>1
    <2> QED
      BY <2>3, <2>4
  <1>7. \A j \in DOMAIN owned : owned[j] # o
    BY <1>1 DEF OwnedFit
  <1>8. \A j \in DOMAIN owned' : j = n \/ j \in DOMAIN owned
    BY <1>6
  <1>9. M!Unloading' <=> M!Unloading
    BY DEF M!Unloading
  <1>10. MemoryFit'
    BY <1>1, <1>3, <1>6 DEF MemoryFit
  <1>11. StackFit'
    <2>1. \A k \in DOMAIN stack : stack[k].kind # "unload" => life'[stack[k].obj] # "none"
      BY <1>1, <1>3, <1>4 DEF StackFit
    <2> QED
      BY <1>1, <1>9, <2>1 DEF StackFit, M!Top
  <1>12. OwnedFit'
    <2>1. \A j, k \in DOMAIN owned' : owned'[j] = owned'[k] => j = k
      BY <1>1, <1>6, <1>7, <1>8 DEF OwnedFit
    <2>2. ASSUME NEW j \in DOMAIN owned'
          PROVE  life'[owned'[j]] # "none" /\ (~M!Unloading => life'[owned'[j]] = "alive")
      <3>1. CASE j = n
        BY <1>3, <1>6, <2>2, <3>1
      <3>2. CASE j # n
        BY <1>1, <1>3, <1>6, <1>7, <1>8, <2>2, <3>2 DEF OwnedFit
      <3> QED
        BY <3>1, <3>2
    <2> QED
      BY <1>9, <2>1, <2>2 DEF OwnedFit
  <1>13. BlocksFit'
    <2>1. o \notin called \/ o \notin Containers
      BY <1>1, <1>4 DEF BlocksFit, M!InStack
    <2>2. ASSUME NEW c \in Containers
          PROVE  /\ life'[c] = "none" => block'[c] = "none"
                 /\ c \in called => life'[c] = "deleted" \/ M!InStack("destructor", c)
      <3>1. CASE c = o
        BY <1>3, <2>1, <3>1
      <3>2. CASE c # o
        BY <1>1, <1>3, <3>2 DEF BlocksFit, M!Objects
      <3> QED
        BY <3>1, <3>2
    <2> QED
      BY <2>2 DEF BlocksFit, M!InStack
  <1>14. EarlyFit'
    <2>1. \A x \in early : x \in M!Objects /\ life'[x] = "deleted"
      BY <1>1, <1>3 DEF EarlyFit
    <2>2. \A k \in DOMAIN stack :
             stack[k].kind # "unload" /\ life'[stack[k].obj] = "deleted" => stack[k].obj \in early
      BY <1>1, <1>3, <1>4 DEF EarlyFit
    <2>3. ASSUME NEW k \in DOMAIN stack, stack[k].kind = "unload", NEW j \in DOMAIN owned',
                 j >= stack[k].next, life'[owned'[j]] = "deleted"
          PROVE  owned'[j] \in early
      <3>1. j \in DOMAIN owned /\ owned'[j] = owned[j] /\ life[owned[j]] = "deleted"
        BY <1>3, <1>6, <1>7, <1>8, <2>3
      <3> QED
        BY <1>1, <2>3, <3>1 DEF EarlyFit
    <2>4. ASSUME NEW x \in early, x \notin broken'
          PROVE  ComesBack(x, stack, owned')
      <3>1. ComesBack(x, stack, owned)
        BY <1>1, <2>4 DEF EarlyFit
      <3> QED
        BY <1>6, <3>1 DEF ComesBack
    <2>5. broken' \ {"list"} \subseteq early
      BY <1>1 DEF EarlyFit
    <2>6. early # {} => called # {} \/ Callers \cap early # {}
      BY <1>1 DEF EarlyFit
    <2> QED
      BY <2>1, <2>2, <2>3, <2>4, <2>5, <2>6 DEF EarlyFit
  <1> QED
    BY <1>10, <1>11, <1>12, <1>13, <1>14 DEF MemoryInv

LEMMA AllocateKeeps ==
  ASSUME MemoryInv, NEW c \in Containers, NEW owner \in BOOLEAN, NEW known \in BOOLEAN,
         NEW allocated \in BOOLEAN, M!script_allocate(c, owner, known, allocated)
  PROVE  MemoryInv'
  <1>1. MemoryFit /\ c \in M!Objects
    BY DEF MemoryInv, M!Objects
  <1>2. block \in [Containers -> Blocks] /\ "none" \in Blocks /\ "held" \in Blocks /\ "freed" \in Blocks
    BY <1>1 DEF MemoryFit, Blocks
  <1>3. life[c] = "none" /\ UNCHANGED <<hook, stack, called, early>>
    BY DEF M!script_allocate
  <1>4. PICK to : to = IF known THEN "alive" ELSE "deleted"
    OBVIOUS
  <1>5. PICK b : b = IF allocated THEN (IF known THEN "held" ELSE "freed") ELSE "none"
    OBVIOUS
  <1>6. life' = [life EXCEPT ![c] = to] /\ block' = [block EXCEPT ![c] = b]
    BY <1>4, <1>5 DEF M!script_allocate
  <1>7. block' \in [Containers -> Blocks] /\ \A x \in Containers : x # c => block'[x] = block[x]
    BY <1>2, <1>5, <1>6
  <1>8. /\ owned' = owned \/ (to = "alive" /\ owned' = Append(owned, c))
        /\ broken' = broken \/ broken' = broken \cup {"list"}
    BY <1>4 DEF M!script_allocate, M!Register
  <1> QED
    BY <1>1, <1>3, <1>4, <1>6, <1>7, <1>8, CreationKeeps

LEMMA CreateCifKeeps ==
  ASSUME MemoryInv, NEW f \in Callers, NEW owner \in BOOLEAN, NEW known \in BOOLEAN,
         NEW n, M!script_create_cif(f, owner, known, n)
  PROVE  MemoryInv'
  <1>1. MemoryFit /\ f \in M!Objects
    BY DEF MemoryInv, M!Objects
  <1>2. block \in [Containers -> Blocks] /\ UNCHANGED block
    BY <1>1 DEF MemoryFit, M!script_create_cif
  <1>3. life[f] = "none" /\ UNCHANGED <<hook, stack, called, early>>
    BY DEF M!script_create_cif
  <1>4. PICK to : to = IF known THEN "alive" ELSE "deleted"
    OBVIOUS
  <1>5. life' = [life EXCEPT ![f] = to]
    BY <1>4 DEF M!script_create_cif
  <1>6. /\ owned' = owned \/ (to = "alive" /\ owned' = Append(owned, f))
        /\ broken' = broken \/ broken' = broken \cup {"list"}
    BY <1>4 DEF M!script_create_cif, M!Register
  <1> QED
    BY <1>1, <1>2, <1>3, <1>4, <1>5, <1>6, CreationKeeps

\* Nothing that the invariant is about changes.
LEMMA MemoryStutters ==
  ASSUME MemoryInv, hook' \in [Containers -> BOOLEAN],
         UNCHANGED <<life, block, owned, stack, called, early, broken>>
  PROVE  MemoryInv'
  BY DEF MemoryInv, MemoryFit, StackFit, OwnedFit, BlocksFit, EarlyFit, M!Unloading, M!Top, M!InStack, ComesBack

LEMMA SetCallbackKeeps ==
  ASSUME MemoryInv, NEW c \in Containers, M!script_set_free_callback(c)
  PROVE  MemoryInv'
  <1>1. hook \in [Containers -> BOOLEAN]
    BY DEF MemoryInv, MemoryFit
  <1>2. hook' \in [Containers -> BOOLEAN] /\ UNCHANGED <<life, block, owned, stack, called, early, broken>>
    BY <1>1 DEF M!script_set_free_callback
  <1> QED
    BY <1>2, MemoryStutters

LEMMA SetFuncKeeps ==
  ASSUME MemoryInv, NEW f, NEW virt, M!script_set_func(f, virt)
  PROVE  MemoryInv'
  <1>1. hook \in [Containers -> BOOLEAN]
    BY DEF MemoryInv, MemoryFit
  <1>2. UNCHANGED <<life, block, hook, owned, stack, called, early, broken>>
    BY DEF M!script_set_func
  <1> QED
    BY <1>1, <1>2, MemoryStutters

LEMMA CallKeeps ==
  ASSUME MemoryInv, NEW f \in Callers, NEW n \in Nat, M!script_call(f, n)
  PROVE  MemoryInv'
  <1>1. life[f] = "alive" /\ M!ScriptRuns /\ UNCHANGED <<life, block, hook, owned, called, early, broken>>
    BY DEF M!script_call, M!Method
  <1>2. PICK x : x = M!Frame("call", f, n)
    OBVIOUS
  <1>3. x \in Frames /\ x.kind = "call" /\ x.obj = f /\ stack' = Append(stack, x)
    BY <1>2 DEF M!Frame, Frames, FrameKinds, Waiters, M!script_call, M!Objects
  <1>4. f \notin early /\ Follows(stack, f)
    BY <1>1, AliveIsNotEarly, FollowsAll DEF MemoryInv
  <1> QED
    BY <1>1, <1>3, <1>4, PushKeeps

LEMMA UnloadKeeps ==
  ASSUME MemoryInv, M!unload
  PROVE  MemoryInv'
  <1>1. MemoryFit /\ StackFit /\ OwnedFit /\ BlocksFit /\ EarlyFit
    BY DEF MemoryInv
  <1>2. ~M!Unloading /\ UNCHANGED <<life, block, hook, owned, called, early, broken>>
    BY DEF M!unload
  <1>3. PICK x : x = M!Frame("unload", "plugin", 1)
    OBVIOUS
  <1>4. x \in Frames /\ x.kind = "unload" /\ x.obj = "plugin" /\ x.next = 1 /\ stack' = Append(stack, x)
    BY <1>3 DEF M!Frame, Frames, FrameKinds, Waiters, M!unload
  <1>5. stack \in Seq(Frames)
    BY <1>1 DEF MemoryFit
  <1>6. PICK n \in Nat : n = Len(stack) + 1
    BY <1>5
  <1>7. /\ stack' \in Seq(Frames) /\ DOMAIN stack' = DOMAIN stack \cup {n} /\ n \notin DOMAIN stack
        /\ stack'[n] = x /\ Len(stack') = n
        /\ \A k \in DOMAIN stack : stack'[k] = stack[k]
    BY <1>4, <1>5, <1>6
  <1>8. \A k \in DOMAIN stack : stack[k].kind # "unload"
    BY <1>2 DEF M!Unloading
  <1>9. MemoryFit'
    BY <1>1, <1>2, <1>7 DEF MemoryFit
  <1>10. StackFit'
    <2>1. M!Top'.kind = "unload"
      BY <1>4, <1>7 DEF M!Top
    <2>2. ASSUME NEW k \in DOMAIN stack'
          PROVE  /\ stack'[k].kind = "destructor" => stack'[k].obj \in Containers \cap called
                 /\ stack'[k].kind = "call" => stack'[k].obj \in Callers
                 /\ stack'[k].kind = "unload" => stack'[k].obj = "plugin" /\ stack'[k].next >= 1
                 /\ stack'[k].kind # "unload" => life[stack'[k].obj] # "none"
      <3>1. CASE k = n
        BY <1>4, <1>7, <3>1
      <3>2. CASE k # n
        BY <1>1, <1>7, <3>2 DEF StackFit
      <3> QED
        BY <3>1, <3>2
    <2>3. \A j, k \in DOMAIN stack' : stack'[j].kind = "unload" /\ stack'[k].kind = "unload" => j = k
      BY <1>7, <1>8
    <2> QED
      BY <1>2, <2>1, <2>2, <2>3 DEF StackFit
  <1>11. OwnedFit'
    BY <1>1, <1>2 DEF OwnedFit
  <1>12. BlocksFit'
    BY <1>1, <1>2, <1>7 DEF BlocksFit, M!InStack
  <1>13. EarlyFit'
    <2>1. ASSUME NEW k \in DOMAIN stack'
          PROVE  /\ stack'[k].kind # "unload" /\ life[stack'[k].obj] = "deleted" => stack'[k].obj \in early
                 /\ stack'[k].kind = "unload" =>
                      \A j \in DOMAIN owned : j >= stack'[k].next /\ life[owned[j]] = "deleted" => owned[j] \in early
      <3>1. CASE k = n
        BY <1>1, <1>2, <1>4, <1>7, <3>1 DEF OwnedFit
      <3>2. CASE k # n
        BY <1>1, <1>7, <1>8, <3>2 DEF EarlyFit
      <3> QED
        BY <3>1, <3>2
    <2>2. ASSUME NEW y \in early, y \notin broken
          PROVE  ComesBack(y, stack', owned)
      <3>1. ComesBack(y, stack, owned)
        BY <1>1, <2>2 DEF EarlyFit
      <3> QED
        BY <1>7, <3>1 DEF ComesBack
    <2> QED
      BY <1>1, <1>2, <2>1, <2>2 DEF EarlyFit
  <1> QED
    BY <1>9, <1>10, <1>11, <1>12, <1>13 DEF MemoryInv

LEMMA UnloadedKeeps ==
  ASSUME MemoryInv, M!unloaded
  PROVE  MemoryInv'
  <1>1. MemoryFit /\ StackFit /\ OwnedFit /\ BlocksFit /\ EarlyFit
    BY DEF MemoryInv
  <1>2. /\ stack # <<>> /\ M!Top.kind = "unload" /\ M!Top.next > Len(owned) /\ stack' = M!Below /\ owned' = <<>>
        /\ UNCHANGED <<life, block, hook, called, early, broken>>
    BY DEF M!unloaded
  <1>3. stack \in Seq(Frames) /\ owned \in Seq(M!Objects)
    BY <1>1 DEF MemoryFit
  <1>4. /\ M!Below \in Seq(Frames) /\ Len(stack) \in Nat /\ Len(stack) > 0
        /\ DOMAIN M!Below = 1 .. Len(stack) - 1 /\ DOMAIN stack = 1 .. Len(stack)
        /\ \A k \in 1 .. Len(stack) - 1 : k \in DOMAIN stack /\ M!Below[k] = stack[k]
    BY <1>2, <1>3, WithoutLast DEF M!Below
  <1>5. M!Top = stack[Len(stack)] /\ Len(stack) \in DOMAIN stack /\ M!Top.next \in Nat
    BY <1>3, <1>4, FrameFields DEF M!Top
  <1>6. \A k \in DOMAIN stack : k = Len(stack) \/ (k \in DOMAIN M!Below /\ M!Below[k] = stack[k] /\ stack[k].kind # "unload")
    BY <1>1, <1>2, <1>4, <1>5 DEF StackFit
  <1>7. \A k \in DOMAIN M!Below : k \in DOMAIN stack /\ M!Below[k] = stack[k] /\ stack[k].kind # "unload"
    BY <1>4, <1>6
  <1>8. ~M!Unloading'
    BY <1>2, <1>7 DEF M!Unloading
  <1>9. MemoryFit'
    BY <1>1, <1>2, <1>4 DEF MemoryFit
  <1>10. StackFit'
    BY <1>1, <1>2, <1>7, <1>8 DEF StackFit
  <1>11. OwnedFit'
    BY <1>2 DEF OwnedFit
  <1>12. BlocksFit'
    <2>1. ASSUME NEW c, M!InStack("destructor", c)
          PROVE  M!InStack("destructor", c)'
      BY <1>2, <1>5, <1>6, <2>1 DEF M!InStack
    <2> QED
      BY <1>1, <1>2, <2>1 DEF BlocksFit
  <1>13. EarlyFit'
    <2>1. ASSUME NEW x \in early, x \notin broken
          PROVE  ComesBack(x, M!Below, <<>>)
      <3>1. x \in M!Objects /\ ComesBack(x, stack, owned)
        BY <1>1, <2>1 DEF EarlyFit
      <3>2. PICK k \in DOMAIN stack :
              \/ stack[k].obj = x
              \/ stack[k].kind = "unload" /\ \E j \in DOMAIN owned : j >= stack[k].next /\ owned[j] = x
        BY <3>1 DEF ComesBack
      <3>3. \A j \in DOMAIN owned : ~(j >= M!Top.next)
        BY <1>2, <1>3, <1>5
      <3>4. M!Top.obj # x
        BY <1>1, <1>2, <1>5, <3>1, MemoryAssumption DEF StackFit, M!Objects
      <3>5. k # Len(stack)
        BY <1>5, <3>2, <3>3, <3>4
      <3>6. k \in DOMAIN M!Below /\ M!Below[k] = stack[k] /\ stack[k].obj = x
        BY <1>6, <3>2, <3>5
      <3> QED
        BY <3>6 DEF ComesBack
    <2> QED
      BY <1>1, <1>2, <1>7, <2>1 DEF EarlyFit
  <1> QED
    BY <1>9, <1>10, <1>11, <1>12, <1>13 DEF MemoryInv

LEMMA MemoryInit ==
  ASSUME M!Init
  PROVE  MemoryInv
  <1>1. MemoryFit
    BY DEF M!Init, MemoryFit, Lives, Blocks
  <1>2. stack = <<>> /\ owned = <<>> /\ early = {} /\ called = {} /\ broken = {} /\ block = [c \in Containers |-> "none"]
    BY DEF M!Init
  <1>3. ~M!Unloading
    BY <1>2 DEF M!Unloading
  <1> QED
    BY <1>1, <1>2, <1>3 DEF MemoryInv, StackFit, OwnedFit, BlocksFit, EarlyFit

LEMMA MemoryKeep ==
  ASSUME MemoryInv, [M!Next]_mvars
  PROVE  MemoryInv'
  <1>1. CASE UNCHANGED mvars
    <2>1. hook \in [Containers -> BOOLEAN]
      BY DEF MemoryInv, MemoryFit
    <2> QED
      BY <1>1, <2>1, MemoryStutters DEF mvars
  <1>2. ASSUME NEW c \in Containers, M!ContainerMethods(c)
        PROVE  MemoryInv'
    BY <1>2, AllocateKeeps, ReleaseKeeps, SetCallbackKeeps DEF M!ContainerMethods
  <1>3. ASSUME NEW f \in Callers, M!CallerMethods(f)
        PROVE  MemoryInv'
    <2>1. CASE \E owner, known \in BOOLEAN, n \in 0 .. 1 : M!script_create_cif(f, owner, known, n)
      BY <2>1, CreateCifKeeps
    <2>2. CASE \E virt \in BOOLEAN : M!script_set_func(f, virt)
      BY <2>2, SetFuncKeeps
    <2>3. CASE \E n \in 0 .. 1 : M!script_call(f, n)
      <3>1. PICK n \in 0 .. 1 : M!script_call(f, n)
        BY <2>3
      <3>2. n \in Nat
        BY <3>1
      <3> QED
        BY <3>1, <3>2, CallKeeps
    <2> QED
      BY <1>3, <2>1, <2>2, <2>3 DEF M!CallerMethods
  <1> QED
    BY <1>1, <1>2, <1>3, FreeKeeps, CallbackReturnsKeeps, CallReturnsKeeps, UnloadKeeps, PluginUnloadedKeeps, UnloadedKeeps
       DEF M!Next

-----------------------------------------------------------------------------
(* What a step does to the block of a container. *)

\* What MemoryLives says of a step.
BlockStep ==
  \A c \in Containers :
    /\ block[c] = "given" => block'[c] = "given"
    /\ block[c] = "held" /\ block'[c] = "freed" /\ hook[c] => c \in called
    /\ life[c] # "none" /\ life'[c] = "deleted" /\ life[c] # "deleted" => block'[c] # "held"
    /\ stack' # stack /\ Len(stack') > Len(stack) /\ stack'[Len(stack')] = M!Frame("destructor", c, 0) =>
         c \notin called \/ M!InStack("destructor", c)

\* Nothing is pushed on the stack.
LEMMA StackNotLonger ==
  ASSUME MemoryInv, stack' = stack \/ (stack # <<>> /\ stack' = M!Below)
  PROVE  ~(stack' # stack /\ Len(stack') > Len(stack))
  <1>1. stack \in Seq(Frames)
    BY DEF MemoryInv, MemoryFit
  <1>2. CASE stack # <<>> /\ stack' = M!Below
    <2>1. Len(stack) \in Nat /\ Len(M!Below) = Len(stack) - 1
      BY <1>1, <1>2, WithoutLast DEF M!Below
    <2> QED
      BY <1>2, <2>1
  <1> QED
    BY <1>2

\* A block that is not changed.
LEMMA SameBlock ==
  ASSUME MemoryInv, UNCHANGED block, \A c \in Containers : life'[c] = life[c] \/ life[c] = "none",
         stack' = stack \/ (stack # <<>> /\ stack' = M!Below)
  PROVE  BlockStep
  <1>1. ~(stack' # stack /\ Len(stack') > Len(stack))
    BY StackNotLonger
  <1> QED
    BY <1>1 DEF BlockStep

\* FreeBlock, in ~container without a callback or after it.
LEMMA FreeBlockStep ==
  ASSUME MemoryInv, NEW o \in M!Objects, NEW frames, M!FreeBlock(o, frames), o \in called \/ ~M!CallsBack(o),
         ~(stack' # stack /\ Len(stack') > Len(stack) /\ \E c \in Containers : stack'[Len(stack')] = M!Frame("destructor", c, 0))
  PROVE  BlockStep
  <1>1. block \in [Containers -> Blocks] /\ life \in [M!Objects -> Lives]
    BY DEF MemoryInv, MemoryFit
  <1>2. /\ block' = IF o \in Containers /\ block[o] = "held" THEN [block EXCEPT ![o] = "freed"] ELSE block
        /\ life' = [life EXCEPT ![o] = "deleted"]
    BY DEF M!FreeBlock
  <1>3. ASSUME NEW c \in Containers
        PROVE  /\ block[c] = "given" => block'[c] = "given"
               /\ block[c] = "held" /\ block'[c] = "freed" /\ hook[c] => c \in called
               /\ life[c] # "none" /\ life'[c] = "deleted" /\ life[c] # "deleted" => block'[c] # "held"
    <2>1. c \in M!Objects
      BY DEF M!Objects
    <2>2. CASE c = o
      BY <1>1, <1>2, <2>1, <2>2 DEF M!CallsBack
    <2>3. CASE c # o
      BY <1>1, <1>2, <2>1, <2>3
    <2> QED
      BY <2>2, <2>3
  <1> QED
    BY <1>3 DEF BlockStep

\* Delete, for frames that do not end with a destructor more than the stack has.
LEMMA DeleteStep ==
  ASSUME MemoryInv, NEW o \in M!Objects, NEW frames, M!Delete(o, frames),
         ~(frames # stack /\ Len(frames) > Len(stack))
  PROVE  BlockStep
  <1>1. CASE life[o] = "deleted"
    BY <1>1 DEF M!Delete, BlockStep
  <1>2. CASE life[o] # "deleted" /\ ~M!CallsBack(o)
    <2>1. M!FreeBlock(o, frames) /\ stack' = frames
      BY <1>2 DEF M!Delete
    <2> QED
      BY <1>2, <2>1, FreeBlockStep
  <1>3. CASE life[o] # "deleted" /\ M!CallsBack(o)
    <2>1. UNCHANGED <<life, block>> /\ stack' = Append(frames, M!Frame("destructor", o, 0))
      BY <1>3 DEF M!Delete
    <2>2. o \in called => M!InStack("destructor", o)
      BY <1>3 DEF M!CallsBack, MemoryInv, BlocksFit
    <2>3. ASSUME NEW c \in Containers, stack' # stack, Len(stack') > Len(stack),
                 stack'[Len(stack')] = M!Frame("destructor", c, 0)
          PROVE  c = o
      BY <2>1, <2>3 DEF M!Frame
    <2> QED
      BY <2>1, <2>2, <2>3 DEF BlockStep
  <1> QED
    BY <1>1, <1>2, <1>3

LEMMA MethodsStep ==
  ASSUME MemoryInv, NEW c \in Containers, M!ContainerMethods(c)
  PROVE  BlockStep
  <1>1. block \in [Containers -> Blocks] /\ life \in [M!Objects -> Lives] /\ c \in M!Objects
    BY DEF MemoryInv, MemoryFit, M!Objects
  <1>2. ASSUME NEW owner \in BOOLEAN, NEW known \in BOOLEAN, NEW allocated \in BOOLEAN,
               M!script_allocate(c, owner, known, allocated)
        PROVE  BlockStep
    <2>1. block[c] = "none"
      BY <1>2 DEF MemoryInv, BlocksFit, M!script_allocate
    <2>2. /\ life[c] = "none" /\ \A x \in Containers : x # c => life'[x] = life[x] /\ block'[x] = block[x]
          /\ stack' = stack
      BY <1>1, <1>2 DEF M!script_allocate, M!Objects
    <2> QED
      BY <2>1, <2>2 DEF BlockStep
  <1>3. CASE M!script_release(c)
    <2>1. block' = IF block[c] = "held" THEN [block EXCEPT ![c] = "given"] ELSE block
      BY <1>3 DEF M!script_release, M!Released
    <2>2. life' = [life EXCEPT ![c] = "deleted"] /\ stack' = stack
      BY <1>3 DEF M!script_release
    <2>3. ASSUME NEW x \in Containers
          PROVE  /\ block[x] = "given" => block'[x] = "given"
                 /\ ~(block[x] = "held" /\ block'[x] = "freed")
                 /\ life[x] # "none" /\ life'[x] = "deleted" /\ life[x] # "deleted" => block'[x] # "held"
      <3>1. CASE x = c
        BY <1>1, <2>1, <2>2, <3>1
      <3>2. CASE x # c
        <4>1. x \in M!Objects
          BY DEF M!Objects
        <4> QED
          BY <1>1, <2>1, <2>2, <3>2, <4>1
      <3> QED
        BY <3>1, <3>2
    <2> QED
      BY <2>2, <2>3 DEF BlockStep
  <1>4. CASE M!script_set_free_callback(c)
    BY <1>4, SameBlock DEF M!script_set_free_callback
  <1> QED
    BY <1>2, <1>3, <1>4 DEF M!ContainerMethods

\* A frame of a call or of the loop is pushed.
LEMMA PushStep ==
  ASSUME MemoryInv, NEW x \in Frames, x.kind # "destructor", stack' = Append(stack, x), UNCHANGED <<life, block>>
  PROVE  BlockStep
  <1>1. stack \in Seq(Frames)
    BY DEF MemoryInv, MemoryFit
  <1>2. stack'[Len(stack')] = x
    BY <1>1
  <1>3. \A c \in Containers : M!Frame("destructor", c, 0).kind = "destructor"
    BY DEF M!Frame
  <1> QED
    BY <1>2, <1>3 DEF BlockStep

LEMMA CallersStep ==
  ASSUME MemoryInv, NEW f \in Callers, M!CallerMethods(f)
  PROVE  BlockStep
  <1>1. CASE \E owner, known \in BOOLEAN, n \in 0 .. 1 : M!script_create_cif(f, owner, known, n)
    <2>1. life \in [M!Objects -> Lives]
      BY DEF MemoryInv, MemoryFit
    <2>2. UNCHANGED <<block, stack>> /\ \A c \in M!Objects : life'[c] = life[c] \/ life[c] = "none"
      BY <1>1, <2>1 DEF M!script_create_cif
    <2> QED
      BY <2>2, SameBlock DEF M!Objects
  <1>2. CASE \E virt \in BOOLEAN : M!script_set_func(f, virt)
    BY <1>2, SameBlock DEF M!script_set_func
  <1>3. CASE \E n \in 0 .. 1 : M!script_call(f, n)
    <2>1. PICK n \in 0 .. 1 : M!script_call(f, n)
      BY <1>3
    <2>2. PICK x : x = M!Frame("call", f, n)
      OBVIOUS
    <2>3. x \in Frames /\ x.kind = "call" /\ stack' = Append(stack, x) /\ UNCHANGED <<life, block>>
      BY <2>1, <2>2 DEF M!Frame, Frames, FrameKinds, Waiters, M!script_call, M!Objects
    <2> QED
      BY <2>3, PushStep
  <1> QED
    BY <1>1, <1>2, <1>3 DEF M!CallerMethods

LEMMA MemoryStep ==
  ASSUME MemoryInv, M!Next
  PROVE  BlockStep
  <1>0. MemoryFit /\ StackFit /\ OwnedFit /\ EarlyFit
    BY DEF MemoryInv
  <1>1. ASSUME NEW o \in M!Objects, M!script_free(o)
        PROVE  BlockStep
    BY <1>1, DeleteStep DEF M!script_free
  <1>2. CASE M!CallbackReturns
    <2>1. PICK c : c = M!Top.obj
      OBVIOUS
    <2>2. stack # <<>> /\ M!Top.kind = "destructor" /\ stack' = M!Below
      BY <1>2 DEF M!CallbackReturns
    <2>3. Len(stack) \in DOMAIN stack /\ M!Top = stack[Len(stack)]
      BY <1>0, <2>2 DEF MemoryFit, M!Top
    <2>4. c \in M!Objects /\ c \in called
      BY <1>0, <2>1, <2>2, <2>3 DEF StackFit, M!Objects
    <2>5. CASE life[c] = "deleted"
      BY <1>2, <2>1, <2>2, <2>5, SameBlock DEF M!CallbackReturns
    <2>6. CASE life[c] # "deleted"
      <3>1. M!FreeBlock(c, M!Below)
        BY <1>2, <2>1, <2>6 DEF M!CallbackReturns
      <3>2. ~(stack' # stack /\ Len(stack') > Len(stack))
        BY <2>2, StackNotLonger
      <3> QED
        BY <2>4, <3>1, <3>2, FreeBlockStep
    <2> QED
      BY <2>5, <2>6
  <1>3. CASE M!CallReturns
    BY <1>3, SameBlock DEF M!CallReturns
  <1>4. CASE M!unload
    <2>1. PICK x : x = M!Frame("unload", "plugin", 1)
      OBVIOUS
    <2>2. x \in Frames /\ x.kind = "unload" /\ stack' = Append(stack, x) /\ UNCHANGED <<life, block>>
      BY <1>4, <2>1 DEF M!Frame, Frames, FrameKinds, Waiters, M!unload
    <2> QED
      BY <2>2, PushStep
  <1>5. CASE M!plugin_unloaded
    <2>1. stack # <<>> /\ M!Top.kind = "unload" /\ M!Top.next <= Len(owned)
      BY <1>5 DEF M!plugin_unloaded
    <2>2. PICK frames : frames = Append(M!Below, M!Frame("unload", "plugin", M!Top.next + 1))
      OBVIOUS
    <2>3. frames \in Seq(Frames) /\ M!Top.next \in DOMAIN owned
      BY <1>0, <2>1, <2>2, FollowsNext DEF Follows
    <2>4. M!Delete(owned[M!Top.next], frames)
      BY <1>5, <2>2 DEF M!plugin_unloaded
    <2>5. owned[M!Top.next] \in M!Objects
      BY <1>0, <2>3 DEF MemoryFit
    <2>6. ~(Len(frames) > Len(stack))
      <3>1. stack \in Seq(Frames)
        BY <1>0 DEF MemoryFit
      <3>2. M!Below \in Seq(Frames) /\ Len(stack) \in Nat /\ Len(M!Below) = Len(stack) - 1
        BY <2>1, <3>1, WithoutLast DEF M!Below
      <3>3. Len(frames) = Len(M!Below) + 1
        BY <2>2, <3>2
      <3> QED
        BY <3>2, <3>3
    <2> QED
      BY <2>4, <2>5, <2>6, DeleteStep
  <1>6. CASE M!unloaded
    BY <1>6, SameBlock DEF M!unloaded
  <1> QED
    BY <1>1, <1>2, <1>3, <1>4, <1>5, <1>6, MethodsStep, CallersStep DEF M!Next

\* A deleted object is used again exactly when it was deleted too early, and a block
\* is freed by its container after the callback was shown it and never when it was
\* given to the script: ~container, script_free, script_release, script_call and the
\* loop of plugin::unload.
THEOREM MemoryLives == MCSpec => MemoryIsLive
  <1>1. MCInit => MemoryInv
    BY MemoryInit DEF MCInit
  <1>2. [MCNext]_<<part, valuevars, cvars, xvars, mvars, hvars>> => [M!Next]_mvars
    BY DEF MCNext, mvars
  <1>3. MemoryInv /\ [MCNext]_<<part, valuevars, cvars, xvars, mvars, hvars>> => MemoryInv'
    BY <1>2, MemoryKeep
  <1>4. MemoryInv => M!DeadUsedIfDeletedEarly
    <2>1. ASSUME MemoryInv, stack = <<>>
          PROVE  early \subseteq broken
      <3>1. \A o : ~ComesBack(o, stack, owned)
        BY <2>1 DEF ComesBack
      <3> QED
        BY <2>1, <3>1 DEF MemoryInv, EarlyFit
    <2> QED
      BY <2>1 DEF MemoryInv, EarlyFit, M!DeadUsedIfDeletedEarly
  <1>5. MemoryInv /\ [MCNext]_<<part, valuevars, cvars, xvars, mvars, hvars>> => [BlockStep]_mvars
    BY <1>2, MemoryStep DEF mvars
  <1>6. MCSpec => []MemoryInv
    BY <1>1, <1>3, PTL DEF MCSpec
  <1>7. MCSpec => []M!DeadUsedIfDeletedEarly
    BY <1>4, <1>6, PTL
  <1>8. MCSpec => [][BlockStep]_mvars
    BY <1>5, <1>6, PTL DEF MCSpec
  <1>9. [BlockStep]_mvars => [\A c \in Containers :
       /\ block[c] = "given" => block'[c] = "given"
       /\ block[c] = "held" /\ block'[c] = "freed" /\ hook[c] => c \in called
       /\ life[c] # "none" /\ life'[c] = "deleted" /\ life[c] # "deleted" =>
            block'[c] # "held"
       /\ (stack' # stack /\ Len(stack') > Len(stack) /\ stack'[Len(stack')] = M!Frame("destructor", c, 0)) =>
            c \notin called \/ M!InStack("destructor", c)]_M!vars
    BY DEF BlockStep, mvars, M!vars
  <1>10. [][BlockStep]_mvars => M!BlocksShownThenFreed
    BY <1>9, PTL DEF M!BlocksShownThenFreed
  <1> QED
    BY <1>7, <1>8, <1>10, PTL DEF MemoryIsLive

-----------------------------------------------------------------------------
(* Numbers of a width. *)

Alike(x, y, m) == \E k \in Int : x = y + k * m

LEMMA AlikeIsEquivalence ==
  ASSUME NEW m \in Nat, NEW x \in Int, NEW y \in Int, NEW z \in Int
  PROVE  /\ Alike(x, x, m) /\ (Alike(x, y, m) => Alike(y, x, m))
         /\ Alike(x, y, m) /\ Alike(y, z, m) => Alike(x, z, m)
  <1>1. Alike(x, x, m)
    <2>1. x = x + 0 * m
      OBVIOUS
    <2> QED
      BY <2>1 DEF Alike
  <1>2. ASSUME Alike(x, y, m) PROVE Alike(y, x, m)
    <2>1. PICK k \in Int : x = y + k * m
      BY <1>2 DEF Alike
    <2>2. y = x + (-k) * m /\ -k \in Int
      BY <2>1
    <2> QED
      BY <2>2 DEF Alike
  <1>3. ASSUME Alike(x, y, m), Alike(y, z, m) PROVE Alike(x, z, m)
    <2>1. PICK j \in Int : x = y + j * m
      BY <1>3 DEF Alike
    <2>2. PICK k \in Int : y = z + k * m
      BY <1>3 DEF Alike
    <2>3. x = z + (j + k) * m /\ j + k \in Int
      BY <2>1, <2>2
    <2> QED
      BY <2>3 DEF Alike
  <1> QED
    BY <1>1, <1>2, <1>3

\* What is alike for a multiple is alike.
LEMMA AlikeForLess ==
  ASSUME NEW m \in Nat, NEW j \in Nat, NEW n \in Nat, n = j * m, NEW x \in Int, NEW y \in Int, Alike(x, y, n)
  PROVE  Alike(x, y, m)
  <1>1. PICK k \in Int : x = y + k * n
    BY DEF Alike
  <1>2. x = y + (k * j) * m /\ k * j \in Int
    BY <1>1
  <1> QED
    BY <1>2 DEF Alike

\* Two numbers of one range that are alike are one.
LEMMA AlikeIsSame ==
  ASSUME NEW m \in Nat, NEW low \in Int, NEW x \in low .. low + m - 1, NEW y \in low .. low + m - 1, Alike(x, y, m)
  PROVE  x = y
  <1>1. PICK k \in Int : x = y + k * m
    BY DEF Alike
  <1>2. CASE k = 0
    BY <1>1, <1>2
  <1>3. CASE k >= 1
    <2>1. k * m >= m
      BY <1>3
    <2> QED
      BY <1>1, <2>1
  <1>4. CASE k <= -1
    <2>1. (-k) * m >= m
      BY <1>4
    <2>2. k * m <= -m
      BY <2>1
    <2> QED
      BY <1>1, <2>2
  <1> QED
    BY <1>2, <1>3, <1>4

LEMMA ModIsAlike ==
  ASSUME NEW m \in Nat, m > 0, NEW x \in Int
  PROVE  x % m \in 0 .. m - 1 /\ Alike(x % m, x, m)
  <1>1. x = m * (x \div m) + (x % m) /\ x \div m \in Int /\ x % m \in 0 .. m - 1
    OBVIOUS
  <1>2. (x % m) = x + (-(x \div m)) * m /\ -(x \div m) \in Int
    BY <1>1
  <1> QED
    BY <1>1, <1>2 DEF Alike

Widths == {CharBits, ShortBits, IntBits, LongBits}

\* The range of a type.
Low(b, t) == IF t \in Signeds THEN -(2^(Bits(b, t) - 1)) ELSE 0
FitsType(b, t, x) == x \in Low(b, t) .. Low(b, t) + 2^Bits(b, t) - 1

LEMMA BitsAreWidths ==
  ASSUME NEW b \in Builds, NEW t \in Integrals
  PROVE  Bits(b, t) \in Widths
  BY DEF Builds, Integrals, Signeds, Unsigneds, Bits, Widths

LEMMA PowersOfWidths ==
  ASSUME NEW n \in Widths
  PROVE  /\ 2^(n - 1) \in Nat \ {0, 1} /\ 2^n \in Nat \ {0} /\ 2^n = 2 * 2^(n - 1)
         /\ \A m \in Widths : m < n =>
              /\ 2^m <= 2^(n - 1)
              /\ \E j \in Nat : 2^n = j * 2^m
  <1>1. /\ 2^(n - 1) \in Nat \ {0, 1} /\ 2^n = 2 * 2^(n - 1)
        /\ \A m \in Widths : /\ 2^(m - 1) \in Nat \ {0, 1} /\ 2^m = 2 * 2^(m - 1)
                             /\ m < n => 2^(n - m) \in Nat \ {0, 1} /\ 2^n = 2^(n - m) * 2^m
    BY PowersAssumption DEF Widths
  <1>2. 2^n \in Nat \ {0}
    BY <1>1
  <1>3. ASSUME NEW m \in Widths, m < n
        PROVE  2^m <= 2^(n - 1) /\ \E j \in Nat : 2^n = j * 2^m
    <2>1. 2^m \in Nat /\ 2^(n - m) \in Nat \ {0, 1} /\ 2^n = 2^(n - m) * 2^m
      BY <1>1, <1>3
    <2>2. 2^n >= 2 * 2^m
      <3> HIDE <1>1
      <3> DEFINE j == 2^(n - m)   k == 2^m   l == 2^n
      <3>1. j \in Nat \ {0, 1} /\ k \in Nat /\ l = j * k
        BY <2>1
      <3> HIDE DEF j, k, l
      <3>2. l >= 2 * k
        BY <3>1
      <3> QED
        BY <3>2 DEF j, k, l
    <2> QED
      BY <1>1, <2>1, <2>2
  <1> QED
    BY <1>1, <1>2, <1>3

LEMMA PowersAlike ==
  ASSUME NEW n \in Widths, NEW m \in Widths, m <= n, n \in Nat, m \in Nat,
         NEW x \in Int, NEW y \in Int, Alike(x, y, 2^n)
  PROVE  Alike(x, y, 2^m)
  <1>1. CASE m = n
    BY <1>1
  <1>2. CASE m < n
    <2>1. 2^n \in Nat /\ 2^m \in Nat /\ \E j \in Nat : 2^n = j * 2^m
      BY <1>2, PowersOfWidths
    <2> QED
      BY <2>1, AlikeForLess
  <1> QED
    BY <1>1, <1>2

\* What a cast gives: the number of the range of the type that is alike.
LEMMA WrapFits ==
  ASSUME NEW b \in Builds, NEW t \in Integrals, NEW n \in Int
  PROVE  Wrap(b, t, n) \in Int /\ FitsType(b, t, Wrap(b, t, n)) /\ Alike(Wrap(b, t, n), n, 2^Bits(b, t))
  <1> DEFINE m == 2^Bits(b, t)   h == 2^(Bits(b, t) - 1)   low == n % m
  <1>1. m \in Nat /\ h \in Nat /\ h > 0 /\ m = 2 * h
    BY BitsAreWidths, PowersOfWidths
  <1>2. low \in 0 .. m - 1 /\ Alike(low, n, m)
    <2> HIDE DEF m, h
    <2> QED
      BY <1>1, ModIsAlike
  <1>3. CASE t \in Signeds /\ low >= h
    <2>1. Wrap(b, t, n) = low - m
      BY <1>3 DEF Wrap
    <2>2. Alike(low - m, low, m)
      <3> HIDE DEF low, m, h
      <3>1. low - m = low + (-1) * m
        BY <1>1, <1>2
      <3> QED
        BY <3>1 DEF Alike
    <2>3. low - m \in Int /\ Alike(low - m, n, m)
      <3> HIDE DEF low, m, h
      <3> QED
        BY <1>1, <1>2, <2>2, AlikeIsEquivalence
    <2>4. low - m \in -h .. -h + m - 1
      <3> HIDE DEF low, m, h
      <3> QED
        BY <1>1, <1>2, <1>3
    <2> QED
      BY <2>1, <2>3, <2>4, <1>3 DEF FitsType, Low
  <1>4. CASE ~(t \in Signeds /\ low >= h)
    <2>1. Wrap(b, t, n) = low
      BY <1>4 DEF Wrap
    <2>2. low \in (IF t \in Signeds THEN -h ELSE 0) .. (IF t \in Signeds THEN -h ELSE 0) + m - 1
      <3> HIDE DEF low, m, h
      <3> QED
        BY <1>1, <1>2, <1>4
    <2> QED
      BY <1>2, <2>1, <2>2 DEF FitsType, Low
  <1> QED
    BY <1>3, <1>4

LEMMA WrapUnique ==
  ASSUME NEW b \in Builds, NEW t \in Integrals, NEW n \in Int, NEW x \in Int,
         FitsType(b, t, x), Alike(x, n, 2^Bits(b, t))
  PROVE  Wrap(b, t, n) = x
  <1> DEFINE m == 2^Bits(b, t)
  <1>1. m \in Nat /\ Low(b, t) \in Int
    BY BitsAreWidths, PowersOfWidths DEF Low
  <1>2. Wrap(b, t, n) \in Int /\ Wrap(b, t, n) \in Low(b, t) .. Low(b, t) + m - 1 /\ Alike(Wrap(b, t, n), n, m)
    BY WrapFits DEF FitsType
  <1>3. x \in Low(b, t) .. Low(b, t) + m - 1 /\ Alike(x, n, m)
    BY DEF FitsType
  <1> HIDE DEF m
  <1>4. Alike(Wrap(b, t, n), x, m)
    <2>1. Alike(n, x, m)
      BY <1>1, <1>3, AlikeIsEquivalence
    <2> QED
      BY <1>1, <1>2, <2>1, AlikeIsEquivalence
  <1> QED
    BY <1>1, <1>2, <1>3, <1>4, AlikeIsSame

\* A cast leaves a number of its type as it is, and two numbers that are alike are cast to one.
LEMMA WrapOfFitting ==
  ASSUME NEW b \in Builds, NEW t \in Integrals, NEW x \in Int, FitsType(b, t, x)
  PROVE  Wrap(b, t, x) = x
  <1>1. Alike(x, x, 2^Bits(b, t))
    BY BitsAreWidths, PowersOfWidths, AlikeIsEquivalence
  <1> QED
    BY <1>1, WrapUnique

LEMMA WrapOfAlike ==
  ASSUME NEW b \in Builds, NEW t \in Integrals, NEW x \in Int, NEW y \in Int, Alike(x, y, 2^Bits(b, t))
  PROVE  Wrap(b, t, x) = Wrap(b, t, y)
  <1> DEFINE w == Wrap(b, t, y)   m == 2^Bits(b, t)
  <1>1. w \in Int /\ FitsType(b, t, w) /\ Alike(w, y, m)
    BY WrapFits
  <1>2. m \in Nat /\ Alike(x, y, m)
    BY BitsAreWidths, PowersOfWidths
  <1>3. Alike(w, x, m)
    <2> HIDE DEF w, m
    <2>1. Alike(y, x, m)
      BY <1>2, AlikeIsEquivalence
    <2> QED
      BY <1>1, <1>2, <2>1, AlikeIsEquivalence
  <1> QED
    BY <1>1, <1>3, WrapUnique

-----------------------------------------------------------------------------
(* Numbers through the union. *)

LEMMA WidthsInOrder ==
  /\ CharBits \in Nat /\ ShortBits \in Nat /\ IntBits \in Nat /\ LongBits \in Nat
  /\ 1 < CharBits /\ CharBits < ShortBits /\ ShortBits < IntBits /\ IntBits < LongBits
  BY WidthsAssumption DEF LongBits

\* A number that fits the upper half of a narrower type fits a wider one.
LEMMA NarrowFits ==
  ASSUME NEW b \in Builds, NEW t \in Integrals, NEW n \in Widths, n < Bits(b, t),
         NEW x \in Int, 0 <= x, x < 2^n
  PROVE  FitsType(b, t, x)
  <1>1. Bits(b, t) \in Widths
    BY BitsAreWidths
  <1> DEFINE h == 2^(Bits(b, t) - 1)   m == 2^Bits(b, t)   k == 2^n
  <1>2. h \in Nat /\ m = 2 * h /\ k <= h /\ k \in Nat
    BY <1>1, PowersOfWidths
  <1>3. x \in 0 .. 0 + m - 1 /\ x \in -h .. -h + m - 1
    <2>1. x < k
      OBVIOUS
    <2> HIDE DEF h, m, k
    <2> QED
      BY <1>2, <2>1
  <1> QED
    BY <1>3 DEF FitsType, Low

\* A number of a narrower signed type fits a wider signed one.
LEMMA SignedFits ==
  ASSUME NEW b \in Builds, NEW s \in Signeds, NEW t \in Signeds, Bits(b, s) <= Bits(b, t),
         NEW x \in Int, FitsType(b, s, x)
  PROVE  FitsType(b, t, x)
  <1>1. Bits(b, s) \in Widths /\ Bits(b, t) \in Widths /\ Signeds \subseteq Integrals
    BY BitsAreWidths DEF Integrals
  <1>2. CASE Bits(b, s) = Bits(b, t)
    BY <1>2 DEF FitsType, Low
  <1>3. CASE Bits(b, s) < Bits(b, t)
    <2> DEFINE h == 2^(Bits(b, t) - 1)   m == 2^Bits(b, t)   k == 2^(Bits(b, s) - 1)   l == 2^Bits(b, s)
    <2>1. h \in Nat /\ m = 2 * h /\ k \in Nat /\ l = 2 * k /\ l <= h
      BY <1>1, <1>3, PowersOfWidths
    <2>2. x \in -k .. -k + l - 1
      BY DEF FitsType, Low
    <2>3. x \in -h .. -h + m - 1
      <3> HIDE DEF h, m, k, l
      <3> QED
        BY <2>1, <2>2
    <2> QED
      BY <2>3 DEF FitsType, Low
  <1>4. Bits(b, s) \in Nat /\ Bits(b, t) \in Nat
    BY <1>1, WidthsInOrder DEF Widths
  <1> QED
    BY <1>2, <1>3, <1>4

\* What a member of the union keeps of a number.
LEMMA MemberKeeps ==
  ASSUME NEW b \in Builds, NEW t \in Integrals, NEW n \in Int
  PROVE  /\ Member(b, t) \in Integrals
         /\ StoreMember(b, t, n) \in 0 .. 2^Bits(b, Member(b, t)) - 1
         /\ StoreMember(b, t, n) \in Int
         /\ Alike(StoreMember(b, t, n), n, 2^Bits(b, Member(b, t)))
  <1>1. Member(b, t) \in Integrals
    BY DEF Member, Integrals, Signeds, Unsigneds
  <1> DEFINE m == 2^Bits(b, Member(b, t))
  <1>2. m \in Nat /\ m > 0
    BY <1>1, BitsAreWidths, PowersOfWidths
  <1>3. n % m \in 0 .. m - 1 /\ Alike(n % m, n, m) /\ n % m \in Int
    <2> HIDE DEF m
    <2> QED
      BY <1>2, ModIsAlike
  <1> QED
    BY <1>1, <1>3 DEF StoreMember

LEMMA MemberGives ==
  ASSUME NEW b \in Builds, NEW t \in Integrals, NEW n \in Int
  PROVE  /\ ReadMember(b, t, n) \in Int
         /\ Alike(ReadMember(b, t, n), n, 2^Bits(b, Member(b, t)))
         /\ FitsType(b, Member(b, t), ReadMember(b, t, n))
  <1>1. Member(b, t) \in Integrals
    BY DEF Member, Integrals, Signeds, Unsigneds
  <1> QED
    BY <1>1, WrapFits DEF ReadMember

\* The members that a native function's number is read through again by push.
PushMember(b, t) ==
    CASE t \in {"schar", "uchar", "short", "ushort"} -> "short"
      [] t \in {"int", "long"} -> IF Has64BitMember(b) THEN "longlong" ELSE "int"
      [] t = "uint" -> "uint"
      [] t = "ulong" -> IF b = "tf2_x64" THEN "ulonglong" ELSE "uint"
      [] t = "ulonglong" -> "ulonglong"
      [] t = "longlong" -> IF b = "portal2" THEN "long" ELSE "longlong"

\* push, for each type of the union.
LEMMA PushOf ==
  ASSUME NEW b, NEW x
  PROVE  /\ x.type = "VOID" => push(b, x) = Null
         /\ x.type \in {"FLOAT", "FLOAT64"} => push(b, x) = Obj("float", x.data)
         /\ x.type = "CSTRING" => push(b, x) = Obj("string", x.data)
         /\ x.type = "CHARACTER" => push(b, x) = Obj("string", ReadMember(b, "char", x.data) % 2^CharBits)
         /\ x.type = "BOOLEAN" => push(b, x) = Obj("bool", x.data)
         /\ x.type = "SHORT" => push(b, x) = Integer(b, ReadMember(b, "short", x.data))
         /\ x.type = "INTEGER" =>
              push(b, x) = Integer(b, ReadMember(b, IF Has64BitMember(b) THEN "longlong" ELSE "int", x.data))
         /\ x.type = "UINT32" => push(b, x) = Integer(b, ReadMember(b, "uint", x.data))
         /\ x.type = "INTEGER64" =>
              push(b, x) = Integer(b, ReadMember(b, IF b = "l4d2" THEN "longlong" ELSE "long", x.data))
         /\ x.type = "UINT64" => push(b, x) = Integer(b, ReadMember(b, "ulonglong", x.data))
         /\ x.type = "CLASSPTR" => push(b, x) = Obj("userpointer", ReadPtr(b, x.data))
         /\ x.type \in {"VECTOR", "QANGLE"} \cup ObjectFields =>
              push(b, x) = IF x.data = 0 THEN Null ELSE Obj(Objects[x.data], x.data)
  BY DEF push, ObjectFields

LEMMA NumberPushed ==
  ASSUME NEW b \in Builds, NEW t \in Integrals \ {"char"}, NEW v
  PROVE  /\ push(b, NumberVariant(b, t, v)) = Integer(b, ReadMember(b, PushMember(b, t), StoreMember(b, t, v)))
         /\ PushMember(b, t) \in Integrals
  <1> DEFINE d == StoreMember(b, t, v)
  <1>1. NumberVariant(b, t, v) = Variant(NumberField(b, t), d)
    BY DEF NumberVariant
  <1>2. PushMember(b, t) \in Integrals
    BY DEF Builds, Integrals, Signeds, Unsigneds, PushMember
  <1> HIDE DEF d
  <1>3. \A f : Variant(f, d).type = f /\ Variant(f, d).data = d
    BY DEF Variant
  <1>4. push(b, Variant("SHORT", d)) = Integer(b, ReadMember(b, "short", d))
    BY <1>3, PushOf
  <1>5. push(b, Variant("INTEGER", d)) = Integer(b, ReadMember(b, IF Has64BitMember(b) THEN "longlong" ELSE "int", d))
    BY <1>3, PushOf
  <1>6. push(b, Variant("UINT32", d)) = Integer(b, ReadMember(b, "uint", d))
    BY <1>3, PushOf
  <1>7. push(b, Variant("INTEGER64", d)) = Integer(b, ReadMember(b, IF b = "l4d2" THEN "longlong" ELSE "long", d))
    BY <1>3, PushOf
  <1>8. push(b, Variant("UINT64", d)) = Integer(b, ReadMember(b, "ulonglong", d))
    BY <1>3, PushOf
  <1>9. push(b, Variant(NumberField(b, t), d)) = Integer(b, ReadMember(b, PushMember(b, t), d))
    <2>1. CASE t \in {"schar", "uchar", "short", "ushort"}
      BY <1>4, <2>1 DEF NumberField, PushMember
    <2>2. CASE t \in {"int", "long"}
      BY <1>5, <2>2 DEF NumberField, PushMember
    <2>3. CASE t \in {"uint", "ulong"}
      BY <1>6, <1>8, <2>3 DEF NumberField, PushMember
    <2>4. CASE t = "ulonglong"
      BY <1>8, <2>4 DEF NumberField, PushMember
    <2>5. CASE t = "longlong"
      BY <1>5, <1>7, <2>5 DEF NumberField, PushMember, Builds, Has64BitMember
    <2> QED
      BY <2>1, <2>2, <2>3, <2>4, <2>5 DEF Integrals, Signeds, Unsigneds
  <1> QED
    BY <1>1, <1>2, <1>9 DEF d

\* Two casts through members no narrower than the final type do nothing.
LEMMA WideRead ==
  ASSUME NEW b \in Builds, NEW t \in Integrals, NEW r \in Integrals, NEW final \in Integrals, NEW v \in Int,
         Bits(b, final) <= Bits(b, Member(b, t)), Bits(b, final) <= Bits(b, Member(b, r))
  PROVE  Wrap(b, final, ReadMember(b, r, StoreMember(b, t, v))) = Wrap(b, final, v)
  <1> DEFINE d == StoreMember(b, t, v)   x == ReadMember(b, r, d)   m == 2^Bits(b, final)
  <1>1. d \in Int /\ Alike(d, v, 2^Bits(b, Member(b, t))) /\ Member(b, t) \in Integrals
    BY MemberKeeps
  <1>2. x \in Int /\ Alike(x, d, 2^Bits(b, Member(b, r))) /\ Member(b, r) \in Integrals
    BY <1>1, MemberGives, MemberKeeps
  <1>3. /\ Bits(b, final) \in Widths /\ Bits(b, Member(b, t)) \in Widths /\ Bits(b, Member(b, r)) \in Widths
        /\ Widths \subseteq Nat /\ m \in Nat
    BY <1>1, <1>2, BitsAreWidths, WidthsInOrder, PowersOfWidths DEF Widths
  <1>4. Alike(d, v, m) /\ Alike(x, d, m)
    <2> HIDE DEF d, x
    <2> QED
      BY <1>1, <1>2, <1>3, PowersAlike
  <1>5. Alike(x, v, m)
    <2> HIDE DEF d, x, m
    <2> QED
      BY <1>1, <1>2, <1>3, <1>4, AlikeIsEquivalence
  <1> QED
    BY <1>2, <1>5, WrapOfAlike

\* What is stored of a number: itself, or, of a negative one, its bytes.
LEMMA StoredIs ==
  ASSUME NEW b \in Builds, NEW t \in Integrals, NEW v \in Int, Member(b, t) = t, FitsType(b, t, v)
  PROVE  /\ StoreMember(b, t, v) = IF v < 0 THEN v + 2^Bits(b, t) ELSE v
         /\ StoreMember(b, t, v) \in 0 .. 2^Bits(b, t) - 1
         /\ t \in Unsigneds => v >= 0
  <1> DEFINE m == 2^Bits(b, t)   h == 2^(Bits(b, t) - 1)   d == StoreMember(b, t, v)
             w == IF v < 0 THEN v + m ELSE v
  <1>1. m \in Nat /\ h \in Nat /\ m = 2 * h /\ h > 0
    BY BitsAreWidths, PowersOfWidths
  <1>2. d \in 0 .. 0 + m - 1 /\ d \in 0 .. m - 1 /\ Alike(d, v, m)
    BY MemberKeeps, <1>1
  <1>3. v \in -h .. -h + m - 1 \/ v \in 0 .. 0 + m - 1
    BY DEF FitsType, Low
  <1>4. w \in Int /\ w \in 0 .. 0 + m - 1
    <2> HIDE DEF m, h
    <2> QED
      BY <1>1, <1>3
  <1>5. Alike(v, w, m)
    <2> HIDE DEF m, d, h
    <2>1. v = w + (IF v < 0 THEN -1 ELSE 0) * m
      BY <1>1
    <2> QED
      BY <2>1 DEF Alike
  <1>6. d = w
    <2> HIDE DEF m, d, w, h
    <2>1. Alike(d, w, m)
      BY <1>1, <1>2, <1>4, <1>5, AlikeIsEquivalence
    <2> QED
      BY <1>1, <1>2, <1>4, <2>1, AlikeIsSame
  <1>7. t \in Unsigneds => v >= 0
    BY <1>1 DEF FitsType, Low, Signeds, Unsigneds
  <1> QED
    BY <1>2, <1>6, <1>7

\* What a script gets of a number of C++, through the union: SeenAs.
LEMMA NumberSeen ==
  ASSUME NEW b \in Builds, NEW t \in Integrals \ {"char"}, NEW v \in Int, FitsType(b, t, v)
  PROVE  push(b, NumberVariant(b, t, v)) = Obj("integer", SeenAs(b, t, v))
  <1> DEFINE d == StoreMember(b, t, v)   x == ReadMember(b, PushMember(b, t), d)
  <1>1. push(b, NumberVariant(b, t, v)) = Obj("integer", Wrap(b, "long", x))
    BY NumberPushed DEF Integer
  <1>2. {"schar", "short", "int", "long", "longlong"} \subseteq Signeds /\ Signeds \subseteq Integrals
        /\ {"uchar", "ushort", "uint", "ulong", "ulonglong"} \subseteq Integrals
    BY DEF Integrals, Signeds, Unsigneds
  <1>3. /\ Bits(b, "short") = ShortBits /\ Bits(b, "ushort") = ShortBits /\ Bits(b, "schar") = CharBits
        /\ Bits(b, "uchar") = CharBits /\ Bits(b, "int") = IntBits /\ Bits(b, "uint") = IntBits
        /\ Bits(b, "longlong") = LongBits /\ Bits(b, "long") \in {IntBits, LongBits}
        /\ b = "tf2_x64" => Bits(b, "long") = LongBits
    BY DEF Bits
  <1>4. /\ CharBits < Bits(b, "short") /\ CharBits < Bits(b, "long") /\ Bits(b, "short") < Bits(b, "long")
        /\ Bits(b, "short") <= Bits(b, "long")
        /\ {CharBits, ShortBits, IntBits} \subseteq Widths
    BY <1>3, WidthsInOrder DEF Widths
  <1>5. t \notin {"longlong", "ulonglong"} => Member(b, t) = t
    BY DEF Member
  <1>6. CASE t \in {"schar", "uchar"}
    <2>1. Member(b, t) = t /\ Bits(b, t) = CharBits
      BY <1>3, <1>5, <1>6
    <2>2. d = (IF v < 0 THEN v + 2^CharBits ELSE v) /\ d \in 0 .. 2^CharBits - 1 /\ (t = "uchar" => v >= 0)
      BY <2>1, StoredIs DEF Unsigneds
    <2>3. d \in Int /\ 0 <= d /\ d < 2^CharBits
      <3>1. 2^CharBits \in Nat
        BY <1>4, PowersOfWidths
      <3> QED
        BY <2>2, <3>1
    <2>4. FitsType(b, "short", d) /\ FitsType(b, "long", d)
      BY <1>2, <1>4, <2>3, NarrowFits
    <2>5. x = d
      <3>1. Member(b, "short") = "short"
        BY DEF Member
      <3> QED
        BY <1>2, <1>6, <2>3, <2>4, <3>1, WrapOfFitting DEF PushMember, ReadMember
    <2>6. Wrap(b, "long", x) = d
      BY <1>2, <2>3, <2>4, <2>5, WrapOfFitting
    <2>7. SeenAs(b, t, v) = d
      <3>1. CASE v < 0
        BY <1>6, <2>2, <3>1 DEF SeenAs
      <3>2. CASE ~(v < 0)
        BY <1>6, <2>2, <2>5, <2>6, <3>2 DEF SeenAs
      <3> QED
        BY <3>1, <3>2
    <2> QED
      BY <1>1, <2>6, <2>7
  <1>7. CASE t \in {"short", "ushort"}
    <2>1. Member(b, t) = t /\ Bits(b, t) = Bits(b, "short") /\ Member(b, "short") = "short"
      BY <1>3, <1>7 DEF Member
    <2>2. d \in Int /\ Alike(d, v, 2^Bits(b, "short"))
      BY <2>1, MemberKeeps
    <2>3. x = Wrap(b, "short", v)
      <3>1. x = Wrap(b, "short", d)
        BY <1>7, <2>1 DEF PushMember, ReadMember
      <3> HIDE DEF d, x
      <3> QED
        BY <1>2, <2>2, <3>1, WrapOfAlike
    <2>4. x \in Int /\ FitsType(b, "long", x)
      <3>1. x \in Int /\ FitsType(b, "short", x)
        BY <1>2, <2>3, WrapFits
      <3> HIDE DEF x
      <3> QED
        BY <1>2, <1>4, <3>1, SignedFits
    <2>5. Wrap(b, "long", x) = x
      <3> HIDE DEF x
      <3> QED
        BY <1>2, <2>4, WrapOfFitting
    <2>6. SeenAs(b, t, v) = Wrap(b, "short", v)
      <3>1. CASE t = "ushort"
        BY <3>1 DEF SeenAs
      <3>2. CASE t = "short"
        <4>1. SeenAs(b, t, v) = Wrap(b, "long", v)
          BY <3>2 DEF SeenAs
        <4>2. Wrap(b, "short", v) = v
          BY <3>2, WrapOfFitting
        <4> QED
          BY <2>3, <2>5, <4>1, <4>2
      <3> QED
        BY <1>7, <3>1, <3>2
    <2> QED
      BY <1>1, <2>3, <2>5, <2>6
  <1>8. CASE b = "tf2_x64" /\ t = "int"
    <2>1. Member(b, t) = t /\ Bits(b, t) = IntBits /\ PushMember(b, t) = "longlong" /\ Member(b, "longlong") = "longlong"
      BY <1>3, <1>8 DEF Member, PushMember, Has64BitMember
    <2>2. d = (IF v < 0 THEN v + 2^IntBits ELSE v) /\ d \in 0 .. 2^IntBits - 1
      BY <2>1, StoredIs
    <2>3. d \in Int /\ 0 <= d /\ d < 2^IntBits
      <3>1. 2^IntBits \in Nat
        BY <1>4, PowersOfWidths
      <3> QED
        BY <2>2, <3>1
    <2>4. FitsType(b, "longlong", d) /\ FitsType(b, "long", d)
      BY <1>2, <1>3, <1>4, <1>8, <2>3, NarrowFits, WidthsInOrder
    <2>5. x = d /\ Wrap(b, "long", d) = d
      BY <1>2, <2>1, <2>3, <2>4, WrapOfFitting DEF ReadMember
    <2>6. SeenAs(b, t, v) = d
      <3>1. CASE v < 0
        BY <1>8, <2>2, <3>1 DEF SeenAs
      <3>2. CASE ~(v < 0)
        BY <1>8, <2>2, <2>5, <3>2 DEF SeenAs
      <3> QED
        BY <3>1, <3>2
    <2> QED
      BY <1>1, <2>5, <2>6
  <1>9. CASE b = "tf2_x64" /\ t = "uint"
    <2>1. Member(b, t) = t /\ PushMember(b, t) = "uint"
      BY <1>9 DEF Member, PushMember
    <2>2. d = v
      BY <1>9, <2>1, StoredIs DEF Unsigneds
    <2>3. x = v
      BY <1>9, <2>1, <2>2, WrapOfFitting DEF ReadMember
    <2>4. SeenAs(b, t, v) = Wrap(b, "long", v)
      BY <1>9 DEF SeenAs
    <2> QED
      BY <1>1, <2>3, <2>4
  <1>10. CASE t \in {"int", "uint", "long", "ulong", "longlong", "ulonglong"} /\ ~(b = "tf2_x64" /\ t \in {"int", "uint"})
    <2>1. SeenAs(b, t, v) = Wrap(b, "long", v)
      BY <1>10 DEF SeenAs
    <2>2. PushMember(b, t) \in Integrals
      BY NumberPushed
    <2>3. Bits(b, "long") <= Bits(b, Member(b, t)) /\ Bits(b, "long") <= Bits(b, Member(b, PushMember(b, t)))
      BY <1>10, WidthsInOrder DEF Bits, Member, PushMember, Has64BitMember, Builds
    <2>4. Wrap(b, "long", x) = Wrap(b, "long", v)
      BY <1>2, <2>2, <2>3, WideRead
    <2> QED
      BY <1>1, <2>1, <2>4
  <1> QED
    BY <1>6, <1>7, <1>8, <1>9, <1>10 DEF Integrals, Signeds, Unsigneds

-----------------------------------------------------------------------------
(* Numbers that a script passes on. *)

GetMember(b) == IF Has64BitMember(b) THEN "longlong" ELSE "int"

\* to_int_impl reads the low part of what get stored.
LEMMA IntegerTaken ==
  ASSUME NEW b \in Builds, NEW n \in Int
  PROVE  /\ ReadMember(b, "int", StoreMember(b, GetMember(b), n)) = Wrap(b, "int", n)
         /\ Wrap(b, "int", n) \in Int
  <1> DEFINE d == StoreMember(b, GetMember(b), n)
  <1>1. GetMember(b) \in Integrals /\ "int" \in Integrals /\ Member(b, "int") = "int"
    BY DEF GetMember, Integrals, Signeds, Member
  <1>2. /\ Bits(b, Member(b, GetMember(b))) \in {IntBits, LongBits} /\ Bits(b, "int") = IntBits
        /\ IntBits \in Widths /\ LongBits \in Widths
    BY DEF GetMember, Member, Bits, Has64BitMember, Widths
  <1>3. d \in Int /\ Alike(d, n, 2^Bits(b, Member(b, GetMember(b))))
    BY <1>1, MemberKeeps
  <1>4. Alike(d, n, 2^IntBits)
    <2> HIDE DEF d
    <2> QED
      BY <1>2, <1>3, WidthsInOrder, PowersAlike
  <1>5. Wrap(b, "int", d) = Wrap(b, "int", n)
    <2> HIDE DEF d
    <2> QED
      BY <1>1, <1>2, <1>3, <1>4, WrapOfAlike
  <1> QED
    BY <1>1, <1>5, WrapFits DEF ReadMember

\* What a script sees has the low part of the number.
LEMMA SeenAlike ==
  ASSUME NEW b \in Builds, NEW t \in Integrals, NEW v \in Int,
         NEW n \in Widths, n <= Bits(b, t), n <= IntBits
  PROVE  SeenAs(b, t, v) \in Int /\ Alike(SeenAs(b, t, v), v, 2^n)
  <1> DEFINE s == SeenAs(b, t, v)
  <1>1. /\ Bits(b, "short") = ShortBits /\ Bits(b, "ushort") = ShortBits /\ Bits(b, "schar") = CharBits
        /\ Bits(b, "int") = IntBits /\ Bits(b, "long") \in {IntBits, LongBits}
        /\ {CharBits, ShortBits, IntBits, LongBits} \subseteq Widths
        /\ "short" \in Integrals /\ "long" \in Integrals
    BY DEF Bits, Widths, Integrals, Signeds
  <1>2. n \in Nat /\ n <= Bits(b, "long")
    BY <1>1, WidthsInOrder DEF Widths
  <1>3. \A w \in Widths : 2^w \in Int
    BY PowersOfWidths
  <1>4. PICK w \in Widths : n <= w /\ s \in Int /\ Alike(s, v, 2^w)
    <2>1. CASE t = "schar" /\ v < 0
      <3>1. s = v + 2^CharBits
        BY <2>1 DEF SeenAs
      <3>2. v + 2^CharBits = v + 1 * 2^CharBits /\ v + 2^CharBits \in Int
        BY <1>1, <1>3
      <3>3. Alike(v + 2^CharBits, v, 2^CharBits)
        BY <3>2 DEF Alike
      <3> QED
        BY <1>1, <2>1, <3>1, <3>2, <3>3
    <2>2. CASE t = "ushort"
      <3>1. s = Wrap(b, "short", v)
        BY <2>2 DEF SeenAs
      <3> QED
        BY <1>1, <2>2, <3>1, WrapFits
    <2>3. CASE t = "int" /\ b = "tf2_x64" /\ v < 0
      <3>1. s = v + 2^IntBits
        BY <2>3 DEF SeenAs
      <3>2. v + 2^IntBits = v + 1 * 2^IntBits /\ v + 2^IntBits \in Int
        BY <1>1, <1>3
      <3>3. Alike(v + 2^IntBits, v, 2^IntBits)
        BY <3>2 DEF Alike
      <3> QED
        BY <1>1, <2>3, <3>1, <3>2, <3>3
    <2>4. CASE ~(t = "schar" /\ v < 0) /\ t # "ushort" /\ ~(t = "int" /\ b = "tf2_x64" /\ v < 0)
      <3>1. s = Wrap(b, "long", v)
        BY <2>4 DEF SeenAs
      <3>2. s \in Int /\ Alike(s, v, 2^Bits(b, "long"))
        BY <1>1, <3>1, WrapFits
      <3> HIDE DEF s
      <3> QED
        BY <1>1, <1>2, <3>2
    <2> QED
      BY <2>1, <2>2, <2>3, <2>4
  <1>5. w \in Nat
    BY WidthsInOrder DEF Widths
  <1>6. Alike(s, v, 2^n)
    <2> HIDE DEF s
    <2> QED
      BY <1>2, <1>4, <1>5, PowersAlike
  <1> QED
    BY <1>4, <1>6

Wide == {"long", "longlong", "ulong", "ulonglong"}

\* A number that comes back as its own type is itself, unless it is wider than int.
LEMMA NumberReturns ==
  ASSUME NEW b \in Builds, NEW t \in Integrals, NEW v \in Int, FitsType(b, t, v),
         t \in Wide => InRange(b, "int", v)
  PROVE  Wrap(b, t, Wrap(b, "int", SeenAs(b, t, v))) = v
  <1> DEFINE s == SeenAs(b, t, v)   i == Wrap(b, "int", s)
  <1>1. /\ "int" \in Integrals /\ Bits(b, "int") = IntBits /\ IntBits \in Widths
        /\ Bits(b, t) \in Widths /\ (t \notin Wide => Bits(b, t) <= IntBits)
        /\ Bits(b, t) \in Nat /\ IntBits \in Nat
    BY WidthsInOrder DEF Integrals, Signeds, Unsigneds, Bits, Widths, Wide
  <1>2. Wrap(b, t, v) = v
    BY WrapOfFitting
  <1>3. CASE Bits(b, t) <= IntBits
    <2>1. s \in Int /\ Alike(s, v, 2^Bits(b, t))
      BY <1>1, <1>3, SeenAlike
    <2>2. i \in Int /\ Alike(i, s, 2^IntBits)
      <3> HIDE DEF s
      <3> QED
        BY <1>1, <2>1, WrapFits
    <2>3. Alike(i, s, 2^Bits(b, t))
      <3> HIDE DEF s, i
      <3> QED
        BY <1>1, <1>3, <2>1, <2>2, PowersAlike
    <2>4. Alike(i, v, 2^Bits(b, t))
      <3>1. 2^Bits(b, t) \in Nat
        BY <1>1, PowersOfWidths
      <3> HIDE DEF s, i
      <3> QED
        BY <2>1, <2>2, <2>3, <3>1, AlikeIsEquivalence
    <2> HIDE DEF i
    <2> QED
      BY <1>2, <2>2, <2>4, WrapOfAlike DEF i
  <1>4. CASE IntBits < Bits(b, t)
    <2>1. s \in Int /\ Alike(s, v, 2^IntBits)
      BY <1>1, <1>4, SeenAlike
    <2>2. i = Wrap(b, "int", v)
      <3> HIDE DEF s
      <3> QED
        BY <1>1, <2>1, WrapOfAlike
    <2>3. Wrap(b, "int", v) = v
      BY <1>1, <1>4 DEF InRange
    <2> QED
      BY <1>2, <2>2, <2>3
  <1> QED
    BY <1>1, <1>3, <1>4

\* A number that comes as any type is cast to it, unless it is wider than int.
LEMMA NumberArrives ==
  ASSUME NEW b \in Builds, NEW t \in Integrals, NEW n \in Int
  PROVE  LET a == Wrap(b, t, Wrap(b, "int", n))
         IN  /\ a \in Int /\ FitsType(b, t, a) /\ InRange(b, t, a)
             /\ a = Wrap(b, t, n) \/ (~InRange(b, "int", n) /\ Bits(b, t) > IntBits)
  <1> DEFINE i == Wrap(b, "int", n)   a == Wrap(b, t, i)
  <1>1. /\ "int" \in Integrals /\ Bits(b, "int") = IntBits /\ IntBits \in Widths
        /\ Bits(b, t) \in Widths /\ Bits(b, t) \in Nat /\ IntBits \in Nat
    BY BitsAreWidths, WidthsInOrder DEF Integrals, Signeds, Bits, Widths
  <1>2. i \in Int /\ Alike(i, n, 2^IntBits)
    BY <1>1, WrapFits
  <1>3. a \in Int /\ FitsType(b, t, a) /\ InRange(b, t, a)
    <2>1. a \in Int /\ FitsType(b, t, a)
      <3> HIDE DEF i
      <3> QED
        BY <1>2, WrapFits
    <2> HIDE DEF a
    <2> QED
      BY <2>1, WrapOfFitting DEF InRange
  <1>4. ASSUME Bits(b, t) <= IntBits PROVE a = Wrap(b, t, n)
    <2>1. Alike(i, n, 2^Bits(b, t))
      <3> HIDE DEF i
      <3> QED
        BY <1>1, <1>2, <1>4, PowersAlike
    <2> HIDE DEF i
    <2> QED
      BY <1>2, <2>1, WrapOfAlike
  <1>5. InRange(b, "int", n) => i = n
    BY DEF InRange
  <1>6. a = Wrap(b, t, n) \/ (~InRange(b, "int", n) /\ Bits(b, t) > IntBits)
    <2>1. CASE Bits(b, t) <= IntBits
      BY <1>4, <2>1
    <2>2. CASE InRange(b, "int", n)
      BY <1>5, <2>2
    <2>3. Bits(b, t) <= IntBits \/ Bits(b, t) > IntBits
      BY <1>1
    <2> QED
      BY <2>1, <2>2, <2>3
  <1> QED
    BY <1>3, <1>6

\* A small number fits every type, and so does the value of a digit.
LEMMA SmallFits ==
  ASSUME NEW b \in Builds, NEW t \in Integrals, NEW k \in Int, 0 <= k, k < 2^(CharBits - 1)
  PROVE  FitsType(b, t, k)
  <1> DEFINE h == 2^(Bits(b, t) - 1)   m == 2^Bits(b, t)   c == 2^(CharBits - 1)
  <1>1. /\ Bits(b, t) \in Widths /\ CharBits \in Widths
        /\ Bits(b, t) = CharBits \/ CharBits < Bits(b, t)
    BY BitsAreWidths, WidthsInOrder DEF Widths
  <1>2. h \in Nat /\ m = 2 * h /\ c \in Nat /\ c <= h
    <2>1. h \in Nat /\ m = 2 * h /\ c \in Nat /\ 2^CharBits = 2 * c
      BY <1>1, PowersOfWidths
    <2>2. CASE Bits(b, t) = CharBits
      BY <2>1, <2>2
    <2>3. CASE CharBits < Bits(b, t)
      <3>1. 2^CharBits <= h
        BY <1>1, <2>3, PowersOfWidths
      <3> QED
        BY <2>1, <3>1
    <2> QED
      BY <1>1, <2>2, <2>3
  <1>3. k \in 0 .. 0 + m - 1 /\ k \in -h .. -h + m - 1
    <2>1. k < c
      OBVIOUS
    <2> HIDE DEF h, m, c
    <2> QED
      BY <1>2, <2>1
  <1> QED
    BY <1>3 DEF FitsType, Low

LEMMA DigitsAreSmall ==
  ASSUME NEW c \in Digits
  PROVE  /\ DigitValue(c) \in Int /\ 0 <= DigitValue(c) /\ DigitValue(c) < 2^(CharBits - 1)
         /\ c \in Int /\ 0 <= c /\ c < 2^(CharBits - 1)
  <1> DEFINE m == 2^(CharBits - 1)   S == {d \in Digits : d < c}
  <1>1. m \in Nat /\ m > 0
    BY PowersOfWidths DEF Widths
  <1>2. Digits \subseteq 1 .. m - 1
    BY WidthsAssumption
  <1>3. S \subseteq 1 .. m - 1
    BY <1>2
  <1>4. IsFiniteSet(1 .. m - 1) /\ Cardinality(1 .. m - 1) = m - 1
    <2> HIDE DEF m
    <2>1. Cardinality(1 .. m - 1) = IF 1 > m - 1 THEN 0 ELSE (m - 1) - 1 + 1
      BY <1>1, FS_Interval
    <2> QED
      BY <1>1, <2>1, FS_Interval
  <1>5. Cardinality(S) \in Nat /\ Cardinality(S) <= m - 1
    <2> HIDE DEF m, S
    <2> QED
      BY <1>1, <1>3, <1>4, FS_Subset, FS_CardinalityType
  <1> QED
    BY <1>1, <1>2, <1>5 DEF DigitValue

-----------------------------------------------------------------------------
(* Objects, and what a native function returns. *)

LEMMA Identities ==
  /\ IdentityOf("function") = 1 /\ IdentityOf("table") = 2 /\ IdentityOf("array") = 3
  /\ IdentityOf("instance") = 4 /\ IdentityOf("entity") = 5
  /\ IdentityOf("vector") = 6 /\ IdentityOf("qangle") = 7
  /\ Objects[1] = "function" /\ Objects[2] = "table" /\ Objects[3] = "array"
  /\ Objects[4] = "instance" /\ Objects[5] = "entity" /\ Objects[6] = "vector" /\ Objects[7] = "qangle"
  <1>1. /\ Objects[1] = "function" /\ Objects[2] = "table" /\ Objects[3] = "array"
        /\ Objects[4] = "instance" /\ Objects[5] = "entity" /\ Objects[6] = "vector" /\ Objects[7] = "qangle"
        /\ Len(Objects) = 7
    BY DEF Objects
  <1>2. ASSUME NEW j \in 1 .. 7 PROVE IdentityOf(Objects[j]) = j
    <2>1. \A k \in 1 .. Len(Objects) : Objects[k] = Objects[j] => k = j
      BY <1>1, <1>2
    <2>2. \E k \in 1 .. Len(Objects) : Objects[k] = Objects[j]
      BY <1>1, <1>2
    <2> QED
      BY <2>1, <2>2 DEF IdentityOf
  <1> QED
    BY <1>1, <1>2

\* The types of what is one object of a script, and the objects of each.
ObjectTypes == Handles \cup {"entity", "vector", "qangle"}
ObjectsOf(t) ==
    CASE t = "function_ref" -> {1}
      [] t = "table_ref" -> {2}
      [] t = "array_ref" -> {3}
      [] t = "instance_ref" -> {4, 5}
      [] t = "object_ref" -> 1 .. 5
      [] t = "entity" -> {5}
      [] t = "vector" -> {6}
      [] t = "qangle" -> {7}

\* A value that a native function returns.
NativeFits(b, t, v) ==
    /\ t \in CTypes /\ v \in Int
    /\ t = "bool" => v \in {0, 1}
    /\ t \in Integrals => FitsType(b, t, v)
    /\ t = "pointer" => FitsType(b, "ulong", v)
    /\ t = "mfp" => v = 0 \/ \E a \in {0, 1} : v = Mfp(b, 1, a)
    /\ t \in ObjectTypes => v \in {0} \cup ObjectsOf(t)

LEMMA UlongFits ==
  ASSUME NEW b \in Builds
  PROVE  /\ "ulong" \in Integrals /\ "ulong" \notin Signeds /\ Bits(b, "ulong") \in Widths
         /\ Member(b, "ulong") = "ulong"
         /\ \A x \in Int : FitsType(b, "ulong", x) <=> x \in 0 .. 2^Bits(b, "ulong") - 1
         /\ 2^Bits(b, "ulong") \in Nat /\ 2^Bits(b, "ulong") > 1
  <1>1. "ulong" \in Integrals /\ "ulong" \notin Signeds /\ Member(b, "ulong") = "ulong"
    BY DEF Integrals, Signeds, Unsigneds, Member
  <1>2. Bits(b, "ulong") \in Widths
    BY <1>1, BitsAreWidths
  <1> DEFINE m == 2^Bits(b, "ulong")
  <1>3. m \in Nat /\ m > 1
    <2>1. 2^(Bits(b, "ulong") - 1) \in Nat \ {0, 1} /\ m = 2 * 2^(Bits(b, "ulong") - 1)
      BY <1>2, PowersOfWidths
    <2> QED
      BY <2>1
  <1>4. ASSUME NEW x \in Int PROVE FitsType(b, "ulong", x) <=> x \in 0 .. m - 1
    <2>1. FitsType(b, "ulong", x) <=> x \in 0 .. 0 + m - 1
      BY <1>1 DEF FitsType, Low
    <2> HIDE DEF m
    <2> QED
      BY <1>3, <2>1
  <1> QED
    BY <1>1, <1>2, <1>3, <1>4

LEMMA SamplesFit ==
  ASSUME NEW b \in Builds, NEW t \in CTypes, NEW v \in SampleValues(b, t)
  PROVE  NativeFits(b, t, v)
  <1>1. CASE t \in Integrals
    <2> DEFINE ends == {0, 1, -1, 2^(Bits(b, t) - 1), 2^(Bits(b, t) - 1) - 1}
    <2>1. v \in {Wrap(b, t, n) : n \in ends} \cup {d \in Digits : t = "char"}
      BY <1>1 DEF SampleValues, Floats, Integrals, Signeds, Unsigneds
    <2>2. ASSUME NEW n \in ends, v = Wrap(b, t, n) PROVE v \in Int /\ FitsType(b, t, v)
      <3>1. 2^(Bits(b, t) - 1) \in Int
        BY <1>1, BitsAreWidths, PowersOfWidths
      <3>2. n \in Int
        BY <3>1
      <3> QED
        BY <1>1, <2>2, <3>2, WrapFits
    <2>3. ASSUME v \in Digits PROVE v \in Int /\ FitsType(b, t, v)
      BY <1>1, <2>3, DigitsAreSmall, SmallFits
    <2>4. v \in Int /\ FitsType(b, t, v)
      <3> HIDE DEF ends
      <3> QED
        BY <2>1, <2>2, <2>3
    <2>5. t \notin ObjectTypes \cup {"bool", "pointer", "mfp"}
      BY <1>1 DEF ObjectTypes, Handles, Integrals, Signeds, Unsigneds
    <2> QED
      BY <1>1, <2>4, <2>5 DEF NativeFits
  <1>2. CASE t \in Floats \cup {"bool", "string"}
    <2>1. v \in Int /\ (t = "bool" => v \in {0, 1})
      <3>1. LongText \in Int
        BY PowersOfWidths DEF LongText, Widths
      <3>2. Digits \subseteq Int
        BY DigitsAreSmall
      <3>3. CASE t = "bool"
        <4>1. v \in {0, 1}
          BY <3>3 DEF SampleValues, Floats, Integrals, Signeds, Unsigneds
        <4> QED
          BY <4>1
      <3>4. CASE t \in Floats
        <4>1. v \in {-3, 0, 1, 2} /\ t # "bool"
          BY <3>4 DEF SampleValues, Floats, Integrals, Signeds, Unsigneds
        <4> QED
          BY <4>1
      <3>5. CASE t = "string"
        <4>1. v \in {0, 1, LongText} \cup Digits
          BY <3>5 DEF SampleValues, Floats, Integrals, Signeds, Unsigneds
        <4> QED
          BY <3>1, <3>2, <3>5, <4>1
      <3> QED
        BY <1>2, <3>3, <3>4, <3>5
    <2>2. t \notin ObjectTypes \cup Integrals \cup {"pointer", "mfp"}
      BY <1>2 DEF ObjectTypes, Handles, Floats, Integrals, Signeds, Unsigneds
    <2> QED
      BY <2>1, <2>2 DEF NativeFits
  <1>3. CASE t = "pointer"
    <2> DEFINE m == 2^Bits(b, "ulong")   h == 2^(Bits(b, "ulong") - 1)
    <2>1. v \in {0, 1, h}
      BY <1>3 DEF SampleValues, Floats, Integrals, Signeds, Unsigneds
    <2>2. h \in Nat /\ m = 2 * h /\ m > 1
      BY UlongFits, PowersOfWidths
    <2>3. v \in Int /\ v \in 0 .. m - 1
      <3> HIDE DEF m, h
      <3> QED
        BY <2>1, <2>2
    <2>4. FitsType(b, "ulong", v)
      BY <2>3, UlongFits
    <2>5. t \notin ObjectTypes \cup Integrals \cup {"bool", "mfp"}
      BY <1>3 DEF ObjectTypes, Handles, Integrals, Signeds, Unsigneds
    <2> QED
      BY <2>3, <2>4, <2>5 DEF NativeFits
  <1>4. CASE t = "mfp"
    <2>1. v \in {0, Mfp(b, 1, 0), Mfp(b, 1, 1)}
      BY <1>4 DEF SampleValues, Floats, Integrals, Signeds, Unsigneds
    <2>2. Mfp(b, 1, 0) \in Int /\ Mfp(b, 1, 1) \in Int
      BY UlongFits DEF Mfp
    <2>3. t \notin ObjectTypes \cup Integrals \cup {"bool", "pointer"}
      BY <1>4 DEF ObjectTypes, Handles, Integrals, Signeds, Unsigneds
    <2> QED
      BY <2>1, <2>2, <2>3 DEF NativeFits
  <1>5. CASE t \in ObjectTypes
    <2>1. v \in {0} \cup ObjectsOf(t)
      <3>1. {IdentityOf(k) : k \in ObjectKinds} = {1, 2, 3, 4, 5}
        BY Identities DEF ObjectKinds
      <3>2. {IdentityOf(k) : k \in {"instance", "entity"}} = {4, 5}
        BY Identities
      <3>3. 1 .. 5 = {1, 2, 3, 4, 5}
        OBVIOUS
      <3>4. CASE t \in {"object_ref", "instance_ref"}
        BY <3>1, <3>2, <3>3, <3>4 DEF SampleValues, ObjectsOf, Integrals, Signeds, Unsigneds, Floats
      <3>5. CASE t \in {"function_ref", "table_ref", "array_ref"}
        BY <3>5, Identities DEF SampleValues, ObjectsOf, Integrals, Signeds, Unsigneds, Floats
      <3>6. CASE t \in {"entity", "vector", "qangle"}
        BY <3>6, Identities DEF SampleValues, ObjectsOf, Integrals, Signeds, Unsigneds, Floats
      <3> QED
        BY <1>5, <3>4, <3>5, <3>6 DEF ObjectTypes, Handles
    <2>2. ObjectsOf(t) \subseteq Int
      BY <1>5 DEF ObjectTypes, Handles, ObjectsOf
    <2>3. t \notin Integrals \cup {"bool", "pointer", "mfp"}
      BY <1>5 DEF ObjectTypes, Handles, Integrals, Signeds, Unsigneds
    <2> QED
      BY <2>1, <2>2, <2>3 DEF NativeFits
  <1> QED
    BY <1>1, <1>2, <1>3, <1>4, <1>5 DEF CTypes, Pointers, ObjectTypes

LEMMA ModOfAlike ==
  ASSUME NEW m \in Nat, m > 0, NEW x \in Int, NEW y \in Int, Alike(x, y, m)
  PROVE  x % m = y % m
  <1>1. x % m \in 0 .. 0 + m - 1 /\ y % m \in 0 .. 0 + m - 1 /\ Alike(x % m, x, m) /\ Alike(y % m, y, m)
    BY ModIsAlike
  <1> DEFINE p == x % m   q == y % m
  <1>2. p \in 0 .. 0 + m - 1 /\ q \in 0 .. 0 + m - 1 /\ Alike(p, x, m) /\ Alike(q, y, m)
    BY <1>1
  <1> HIDE DEF p, q
  <1>3. Alike(p, y, m) /\ Alike(y, q, m)
    BY <1>2, AlikeIsEquivalence
  <1>4. Alike(p, q, m)
    BY <1>2, <1>3, AlikeIsEquivalence
  <1>5. p = q
    <2>1. PICK z \in Int : z = 0
      OBVIOUS
    <2>2. p \in z .. z + m - 1 /\ q \in z .. z + m - 1
      BY <1>2, <2>1
    <2> QED
      BY <1>4, <2>2, AlikeIsSame
  <1> QED
    BY <1>5 DEF p, q

LEMMA PointerKept ==
  ASSUME NEW b \in Builds, NEW v \in Int
  PROVE  /\ ReadPtr(b, v) \in Int /\ FitsType(b, "ulong", ReadPtr(b, v))
         /\ FitsType(b, "ulong", v) => ReadPtr(b, v) = v
  BY UlongFits, WrapFits, WrapOfFitting DEF ReadPtr, ReadMember

\* The address of a pointer to a member, beside its adjustment.
LEMMA MfpParts ==
  ASSUME NEW b \in Builds, NEW v \in Int, v = 0 \/ \E a \in {0, 1} : v = Mfp(b, 1, a)
  PROVE  /\ AddrOf(b, v) \in Int /\ FitsType(b, "ulong", AddrOf(b, v))
         /\ v = 0 => AddrOf(b, v) = 0
         /\ v # 0 => AddrOf(b, v) = 1
         /\ AdjustorOf(b, v) = 0 => v \in {0, 1}
         /\ ReadPtr(b, StoreMember(b, "ulonglong", v)) = AddrOf(b, v)
  <1> DEFINE m == 2^Bits(b, "ulong")
  <1>1. m \in Nat /\ m > 1
    BY UlongFits
  <1>2. AddrOf(b, v) \in 0 .. m - 1 /\ AddrOf(b, v) \in Int /\ Alike(AddrOf(b, v), v, m)
    <2> HIDE DEF m
    <2>1. v % m \in 0 .. m - 1 /\ v % m \in Int /\ Alike(v % m, v, m)
      BY <1>1, ModIsAlike
    <2> QED
      BY <2>1 DEF AddrOf, m
  <1>3. FitsType(b, "ulong", AddrOf(b, v))
    BY <1>2, UlongFits
  <1>4. ASSUME v = 0 PROVE AddrOf(b, v) = 0 /\ AdjustorOf(b, v) = 0
    <2>1. 0 % m = 0 /\ 0 \div m = 0
      <3> HIDE DEF m
      <3> QED
        BY <1>1
    <2> QED
      BY <1>4, <2>1 DEF AddrOf, AdjustorOf
  <1>5. ASSUME NEW a \in {0, 1}, v = Mfp(b, 1, a) PROVE AddrOf(b, v) = 1 /\ AdjustorOf(b, v) = a /\ v # 0 /\ (a = 0 => v = 1)
    <2>1. v = 1 + a * m
      BY <1>5 DEF Mfp
    <2>2. v % m = 1 /\ v \div m = a /\ v # 0 /\ (a = 0 => v = 1)
      <3> HIDE DEF m
      <3>1. CASE a = 0
        <4>1. v = 1
          BY <1>1, <2>1, <3>1
        <4> QED
          BY <1>1, <3>1, <4>1
      <3>2. CASE a = 1
        <4>1. v = 1 + m
          BY <1>1, <2>1, <3>2
        <4> QED
          BY <1>1, <3>2, <4>1
      <3> QED
        BY <3>1, <3>2
    <2> QED
      BY <2>2 DEF AddrOf, AdjustorOf
  <1>6. ReadPtr(b, StoreMember(b, "ulonglong", v)) = AddrOf(b, v)
    <2> DEFINE d == StoreMember(b, "ulonglong", v)
    <2>1. "ulonglong" \in Integrals /\ Bits(b, "ulong") <= Bits(b, Member(b, "ulonglong"))
          /\ Bits(b, "ulong") \in Nat /\ Bits(b, Member(b, "ulonglong")) \in Nat
      BY WidthsInOrder DEF Integrals, Unsigneds, Bits, Member, Has64BitMember, Builds
    <2>2. d \in Int /\ Alike(d, v, 2^Bits(b, Member(b, "ulonglong"))) /\ Bits(b, Member(b, "ulonglong")) \in Widths
      BY <2>1, MemberKeeps, BitsAreWidths
    <2>3. Alike(d, v, m)
      <3> HIDE DEF d
      <3> QED
        BY <2>1, <2>2, UlongFits, PowersAlike
    <2>4. Alike(AddrOf(b, v), d, m)
      <3>1. Alike(v, d, m)
        BY <1>1, <2>2, <2>3, AlikeIsEquivalence
      <3> HIDE DEF d, m
      <3> QED
        BY <1>1, <1>2, <2>2, <3>1, AlikeIsEquivalence
    <2>5. Wrap(b, "ulong", d) = AddrOf(b, v)
      <3> HIDE DEF d
      <3> QED
        BY <1>2, <1>3, <2>2, <2>4, UlongFits, WrapUnique
    <2> QED
      BY <2>5, UlongFits DEF ReadPtr, ReadMember
  <1>7. v # 0 => AddrOf(b, v) = 1
    BY <1>5
  <1>8. AdjustorOf(b, v) = 0 => v \in {0, 1}
    BY <1>5
  <1> QED
    BY <1>2, <1>3, <1>4, <1>6, <1>7, <1>8

\* What the script sees of a returned value.
SeenObject(b, t, v) ==
    CASE t \in Integrals \ {"char"} -> Obj("integer", SeenAs(b, t, v))
      [] t = "char"      -> Obj("string", v % 2^CharBits)
      [] t \in Floats    -> Obj("float", v)
      [] t = "bool"      -> Obj("bool", v)
      [] t = "string"    -> Obj("string", v)
      [] t = "pointer"   -> IF v = 0 THEN Null ELSE Obj("userpointer", v)
      [] t = "mfp"       -> IF v = 0 \/ (b = "portal2" /\ AdjustorOf(b, v) # 0)
                            THEN Null ELSE Obj("userpointer", AddrOf(b, v))
      [] OTHER           -> IF v = 0 THEN Null ELSE Obj(Objects[v], v)

LEMMA VariantFields ==
  ASSUME NEW f, NEW d
  PROVE  Variant(f, d).type = f /\ Variant(f, d).data = d
  BY DEF Variant

\* The kinds of type are disjoint.
LEMMA TypesDisjoint ==
  ASSUME NEW t
  PROVE  /\ t \in Integrals => t \notin Floats /\ t \notin Pointers /\ t \notin Handles /\ t \notin ObjectTypes
                                /\ t # "bool" /\ t # "string"
         /\ t \in Floats => t \notin Pointers /\ t \notin Handles /\ t \notin ObjectTypes /\ t # "bool" /\ t # "string"
         /\ t \in Pointers => t \notin Handles /\ t \notin ObjectTypes /\ t # "bool" /\ t # "string"
         /\ t \in ObjectTypes => t # "bool" /\ t # "string"
         /\ t \in Handles => t \in ObjectTypes /\ t \notin {"entity", "vector", "qangle"}
         /\ t \in CTypes => t \in Integrals \/ t \in Floats \/ t \in Pointers \/ t \in ObjectTypes \/ t = "bool" \/ t = "string"
  BY DEF Integrals, Signeds, Unsigneds, Floats, Pointers, Handles, ObjectTypes, CTypes

LEMMA ReturnedIsSeen ==
  ASSUME NEW b \in Builds, NEW t, NEW v, NativeFits(b, t, v)
  PROVE  push(b, to_variant(b, t, v)) = SeenObject(b, t, v)
  <1>1. CASE t \in Integrals \ {"char"}
    <2>1. to_variant(b, t, v) = NumberVariant(b, t, v)
      BY <1>1, TypesDisjoint DEF to_variant, Pointers, ObjectTypes
    <2>2. SeenObject(b, t, v) = Obj("integer", SeenAs(b, t, v))
      BY <1>1, TypesDisjoint DEF SeenObject, Pointers, ObjectTypes
    <2>3. v \in Int /\ FitsType(b, t, v)
      BY <1>1 DEF NativeFits
    <2> QED
      BY <1>1, <2>1, <2>2, <2>3, NumberSeen
  <1>2. CASE t = "char"
    <2> DEFINE d == StoreMember(b, "char", v)   r == ReadMember(b, "char", d)
    <2>1. to_variant(b, t, v) = Variant("CHARACTER", d)
      BY <1>2 DEF to_variant, NumberVariant, NumberField, Pointers, Handles, Integrals, Signeds
    <2>2. push(b, to_variant(b, t, v)) = Obj("string", r % 2^CharBits)
      BY <2>1, PushOf, VariantFields
    <2>3. "char" \in Integrals /\ Member(b, "char") = "char" /\ Bits(b, "char") = CharBits /\ CharBits \in Widths
      BY DEF Integrals, Signeds, Member, Bits, Widths
    <2>4. 2^CharBits \in Nat /\ 2^CharBits > 0 /\ v \in Int
      BY <2>3, PowersOfWidths DEF NativeFits
    <2>5. d \in Int /\ Alike(d, v, 2^CharBits)
      BY <2>3, <2>4, MemberKeeps
    <2>6. r \in Int /\ Alike(r, d, 2^CharBits)
      <3> HIDE DEF d
      <3> QED
        BY <2>3, <2>5, MemberGives
    <2>7. r % 2^CharBits = v % 2^CharBits
      <3> HIDE DEF d, r
      <3>1. Alike(r, v, 2^CharBits)
        BY <2>4, <2>5, <2>6, AlikeIsEquivalence
      <3> QED
        BY <2>4, <2>6, <3>1, ModOfAlike
    <2>8. SeenObject(b, t, v) = Obj("string", v % 2^CharBits)
      BY <1>2 DEF SeenObject, Floats
    <2> QED
      BY <2>2, <2>7, <2>8
  <1>3. CASE t \in Floats
    <2>1. to_variant(b, t, v) = Variant(NumberField(b, t), v)
      BY <1>3, TypesDisjoint DEF to_variant, NumberVariant, Pointers, ObjectTypes
    <2>2. NumberField(b, t) \in {"FLOAT", "FLOAT64"}
      BY <1>3 DEF NumberField, Floats
    <2>3. SeenObject(b, t, v) = Obj("float", v)
      BY <1>3 DEF SeenObject, Floats, Integrals, Signeds, Unsigneds
    <2> QED
      BY <2>1, <2>2, <2>3, PushOf, VariantFields
  <1>4. CASE t = "bool"
    <2>1. to_variant(b, t, v) = Variant("BOOLEAN", v)
      BY <1>4 DEF to_variant, NumberVariant, NumberField, Handles, Integrals, Signeds, Unsigneds
    <2>2. SeenObject(b, t, v) = Obj("bool", v)
      BY <1>4 DEF SeenObject, Floats, Integrals, Signeds, Unsigneds
    <2> QED
      BY <2>1, <2>2, PushOf, VariantFields
  <1>5. CASE t = "string"
    <2>1. to_variant(b, t, v) = Variant("CSTRING", v)
      BY <1>5 DEF to_variant, FieldOf, Pointers, Handles, Integrals, Signeds, Unsigneds, Floats
    <2>2. SeenObject(b, t, v) = Obj("string", v)
      BY <1>5 DEF SeenObject, Floats, Integrals, Signeds, Unsigneds
    <2> QED
      BY <2>1, <2>2, PushOf, VariantFields
  <1>6. CASE t = "pointer"
    <2>1. to_variant(b, t, v) = PointerVariant(b, v)
      BY <1>6 DEF to_variant, Handles, Integrals, Signeds, Unsigneds, Floats
    <2>2. SeenObject(b, t, v) = IF v = 0 THEN Null ELSE Obj("userpointer", v)
      BY <1>6 DEF SeenObject, Floats, Integrals, Signeds, Unsigneds
    <2>3. v \in Int /\ ReadPtr(b, v) = v
      BY <1>6, PointerKept DEF NativeFits
    <2> QED
      BY <2>1, <2>2, <2>3, PushOf, VariantFields DEF PointerVariant, Void
  <1>7. CASE t = "mfp"
    <2>1. to_variant(b, t, v) = MfpVariant(b, v)
      BY <1>7 DEF to_variant, Handles, Integrals, Signeds, Unsigneds, Floats
    <2>2. SeenObject(b, t, v) = IF v = 0 \/ (b = "portal2" /\ AdjustorOf(b, v) # 0)
                                THEN Null ELSE Obj("userpointer", AddrOf(b, v))
      BY <1>7 DEF SeenObject, Floats, Integrals, Signeds, Unsigneds
    <2>3. /\ AddrOf(b, v) \in Int /\ FitsType(b, "ulong", AddrOf(b, v))
          /\ v = 0 => AddrOf(b, v) = 0
          /\ v # 0 => AddrOf(b, v) # 0
          /\ ReadPtr(b, StoreMember(b, "ulonglong", v)) = AddrOf(b, v)
      BY <1>7, MfpParts DEF NativeFits
    <2>4. ReadPtr(b, AddrOf(b, v)) = AddrOf(b, v)
      BY <2>3, PointerKept
    <2>5. push(b, Void) = Null
      BY PushOf, VariantFields DEF Void
    <2>6. CASE v = 0
      BY <2>1, <2>2, <2>3, <2>5, <2>6 DEF MfpVariant
    <2>7. CASE v # 0 /\ Has64BitMember(b)
      <3>1. MfpVariant(b, v) = Variant("CLASSPTR", StoreMember(b, "ulonglong", v))
        BY <2>3, <2>7 DEF MfpVariant
      <3>2. push(b, Variant("CLASSPTR", StoreMember(b, "ulonglong", v))) = Obj("userpointer", AddrOf(b, v))
        BY <2>3, PushOf, VariantFields
      <3> QED
        BY <2>1, <2>2, <2>7, <3>1, <3>2 DEF Has64BitMember
    <2>8. CASE v # 0 /\ ~Has64BitMember(b)
      <3>1. MfpVariant(b, v) = IF AdjustorOf(b, v) = 0 THEN Variant("CLASSPTR", AddrOf(b, v)) ELSE Void
        BY <2>3, <2>8 DEF MfpVariant
      <3>2. push(b, Variant("CLASSPTR", AddrOf(b, v))) = Obj("userpointer", AddrOf(b, v))
        BY <2>4, PushOf, VariantFields
      <3> QED
        BY <2>1, <2>2, <2>5, <2>8, <3>1, <3>2 DEF Has64BitMember
    <2> QED
      BY <2>6, <2>7, <2>8
  <1>8. CASE t \in ObjectTypes
    <2>1. FieldOf(b, t) \in {"VECTOR", "QANGLE"} \cup ObjectFields
      BY <1>8 DEF FieldOf, HandleField, ObjectFields, ObjectTypes, Handles, Integrals, Signeds, Unsigneds, Floats, Pointers
    <2>2. to_variant(b, t, v) = Variant(FieldOf(b, t), v) \/ (v = 0 /\ to_variant(b, t, v) = Void)
      <3>1. CASE t \in Handles
        BY <3>1 DEF to_variant, Handles, Integrals, Signeds, Unsigneds, Floats
      <3>2. CASE t \in {"entity", "vector", "qangle"}
        BY <3>2 DEF to_variant, ObjectVariant, Handles, Integrals, Signeds, Unsigneds, Floats
      <3> QED
        BY <1>8, <3>1, <3>2 DEF ObjectTypes
    <2>3. SeenObject(b, t, v) = IF v = 0 THEN Null ELSE Obj(Objects[v], v)
      BY <1>8 DEF SeenObject, ObjectTypes, Handles, Integrals, Signeds, Unsigneds, Floats
    <2>4. push(b, Void) = Null
      BY PushOf, VariantFields DEF Void
    <2>5. push(b, Variant(FieldOf(b, t), v)) = IF v = 0 THEN Null ELSE Obj(Objects[v], v)
      BY <2>1, PushOf, VariantFields
    <2> QED
      BY <2>2, <2>3, <2>4, <2>5
  <1>9. t \in CTypes
    BY DEF NativeFits
  <1> QED
    BY <1>1, <1>2, <1>3, <1>4, <1>5, <1>6, <1>7, <1>8, <1>9, TypesDisjoint DEF Pointers

-----------------------------------------------------------------------------
(* What a script holds, and what is taken from it. *)

PlainKinds == {"null", "integer", "float", "bool", "string", "userpointer"}
AllKinds == ObjectKinds \cup {"vector", "qangle"}

\* What a script can hold.
GoodObject(s) ==
    /\ s.kind \in PlainKinds \cup AllKinds /\ s.n \in Int
    /\ s.kind = "bool" => s.n \in {0, 1}
    /\ s.kind \in AllKinds => s.n \in 1 .. 7 /\ s.kind = Objects[s.n]

LEMMA ObjectFieldsOf ==
  ASSUME NEW k, NEW n
  PROVE  Obj(k, n).kind = k /\ Obj(k, n).n = n
  BY DEF Obj

LEMMA SeenIsGood ==
  ASSUME NEW b \in Builds, NEW t, NEW v, NativeFits(b, t, v)
  PROVE  GoodObject(SeenObject(b, t, v))
  <1> DEFINE s == SeenObject(b, t, v)
  <1> SUFFICES GoodObject(s)
    OBVIOUS
  <1>0. v \in Int /\ t \in CTypes
    BY DEF NativeFits
  <1>1. Null.kind = "null" /\ Null.n = 0 /\ GoodObject(Null)
    BY ObjectFieldsOf DEF Null, GoodObject, PlainKinds, AllKinds, ObjectKinds
  <1>2. ASSUME NEW k \in {"integer", "float", "string", "userpointer"}, NEW n \in Int, s = Obj(k, n)
        PROVE  GoodObject(s)
    BY <1>2, ObjectFieldsOf DEF GoodObject, PlainKinds, AllKinds, ObjectKinds
  <1>3. CASE t \in Integrals \ {"char"}
    <2>1. s = Obj("integer", SeenAs(b, t, v))
      BY <1>3 DEF SeenObject, Floats, Integrals, Signeds, Unsigneds
    <2>2. CharBits \in Widths /\ CharBits <= Bits(b, t) /\ CharBits <= IntBits
      <3>1. Bits(b, t) \in Widths
        BY <1>3, BitsAreWidths
      <3> QED
        BY <3>1, WidthsInOrder DEF Widths
    <2>3. SeenAs(b, t, v) \in Int
      BY <1>0, <1>3, <2>2, SeenAlike
    <2> HIDE DEF s
    <2> QED
      BY <1>2, <2>1, <2>3
  <1>4. CASE t = "char"
    <2>1. s = Obj("string", v % 2^CharBits)
      BY <1>4 DEF SeenObject, Floats
    <2>2. v % 2^CharBits \in Int
      <3>1. 2^CharBits \in Nat /\ 2^CharBits > 0
        BY PowersOfWidths DEF Widths
      <3> QED
        BY <1>0, <3>1, ModIsAlike
    <2> HIDE DEF s
    <2> QED
      BY <1>2, <2>1, <2>2
  <1>5. CASE t \in Floats \cup {"string"}
    <2>1. s = Obj("string", v) \/ s = Obj("float", v)
      BY <1>5 DEF SeenObject, Floats, Integrals, Signeds, Unsigneds
    <2> HIDE DEF s
    <2> QED
      BY <1>0, <1>2, <2>1
  <1>6. CASE t = "bool"
    <2>1. s = Obj("bool", v) /\ v \in {0, 1}
      BY <1>6 DEF SeenObject, Floats, Integrals, Signeds, Unsigneds, NativeFits
    <2> QED
      BY <1>0, <2>1, ObjectFieldsOf DEF GoodObject, PlainKinds, AllKinds, ObjectKinds
  <1>7. CASE t \in Pointers
    <2>1. s = Null \/ s = Obj("userpointer", v) \/ (t = "mfp" /\ s = Obj("userpointer", AddrOf(b, v)))
      BY <1>7 DEF SeenObject, Floats, Integrals, Signeds, Unsigneds, Pointers
    <2>2. t = "mfp" => AddrOf(b, v) \in Int
      BY <1>0, MfpParts DEF NativeFits
    <2> HIDE DEF s
    <2> QED
      BY <1>0, <1>1, <1>2, <2>1, <2>2
  <1>8. CASE t \in ObjectTypes
    <2>1. s = IF v = 0 THEN Null ELSE Obj(Objects[v], v)
      BY <1>8 DEF SeenObject, ObjectTypes, Handles, Floats, Integrals, Signeds, Unsigneds
    <2>2. v = 0 \/ v \in {1, 2, 3, 4, 5, 6, 7}
      <3>1. v \in {0} \cup ObjectsOf(t)
        BY <1>8 DEF NativeFits
      <3>2. ObjectsOf(t) \subseteq {1, 2, 3, 4, 5, 6, 7}
        <4>1. 1 .. 5 = {1, 2, 3, 4, 5}
          OBVIOUS
        <4> QED
          BY <1>8, <4>1 DEF ObjectTypes, Handles, ObjectsOf
      <3> QED
        BY <3>1, <3>2
    <2>3. ASSUME v \in {1, 2, 3, 4, 5, 6, 7} PROVE GoodObject(Obj(Objects[v], v))
      <3>1. Objects[v] \in AllKinds
        BY <2>3, Identities DEF AllKinds, ObjectKinds
      <3>2. v \in 1 .. 7
        BY <2>3
      <3>3. Obj(Objects[v], v).kind = Objects[v] /\ Obj(Objects[v], v).n = v
        BY ObjectFieldsOf
      <3>4. Objects[v] # "bool"
        BY <3>1 DEF AllKinds, ObjectKinds
      <3> QED
        BY <1>0, <3>1, <3>2, <3>3, <3>4 DEF GoodObject
    <2> HIDE DEF s
    <2> QED
      BY <1>1, <2>1, <2>2, <2>3
  <1> QED
    BY <1>0, <1>3, <1>4, <1>5, <1>6, <1>7, <1>8, TypesDisjoint

\* get, for each kind of what a script holds.
LEMMA GetOf ==
  ASSUME NEW b, NEW s
  PROVE  /\ s.kind = "null" => get(b, s) = Void
         /\ s.kind = "integer" => get(b, s) = Variant("INTEGER", StoreMember(b, GetMember(b), s.n))
         /\ s.kind = "float" => get(b, s) = Variant("FLOAT", s.n)
         /\ s.kind = "bool" => get(b, s) = Variant("BOOLEAN", s.n)
         /\ s.kind = "string" => get(b, s) = Variant("CSTRING", s.n)
         /\ s.kind = "userpointer" => get(b, s) = Variant("CLASSPTR", s.n)
         /\ s.kind = "vector" => get(b, s) = Variant("VECTOR", s.n)
         /\ s.kind = "qangle" => get(b, s) = Variant("QANGLE", s.n)
         /\ s.kind \in {"instance", "entity"} => get(b, s) = Variant("HSCRIPT_NEW_INSTANCE", s.n)
         /\ s.kind = "function" => get(b, s) = Variant("FUNCTION", s.n)
         /\ s.kind = "array" => get(b, s) = Variant("CUSTOM", s.n)
         /\ s.kind = "table" => get(b, s) = Variant("EMBEDDED", s.n)
  BY DEF get, GetMember

\* The type and the bytes that get leaves.
LEMMA GetLeaves ==
  ASSUME NEW b \in Builds, NEW s, GoodObject(s)
  PROVE  LET x == get(b, s)
         IN  /\ s.kind = "null" <=> x.type = "VOID"
             /\ s.kind = "integer" <=> x.type = "INTEGER"
             /\ s.kind = "float" <=> x.type = "FLOAT"
             /\ s.kind = "bool" <=> x.type = "BOOLEAN"
             /\ s.kind = "string" <=> x.type = "CSTRING"
             /\ s.kind = "userpointer" <=> x.type = "CLASSPTR"
             /\ s.kind = "vector" <=> x.type = "VECTOR"
             /\ s.kind = "qangle" <=> x.type = "QANGLE"
             /\ s.kind \in {"instance", "entity"} <=> x.type = "HSCRIPT_NEW_INSTANCE"
             /\ s.kind \in ObjectKinds <=> x.type \in ObjectFields
             /\ s.kind = "function" <=> x.type = "FUNCTION"
             /\ x.type # "HSCRIPT"
             /\ s.kind \notin {"null", "integer"} => x.data = s.n
             /\ s.kind = "null" => x.data = 0
             /\ s.kind = "integer" => x.data = StoreMember(b, GetMember(b), s.n)
             /\ x.data \in Int
  <1> DEFINE x == get(b, s)
  <1>1. s.kind \in PlainKinds \cup AllKinds /\ s.n \in Int
    BY DEF GoodObject
  <1>2. StoreMember(b, GetMember(b), s.n) \in Int
    <2>1. GetMember(b) \in Integrals
      BY DEF GetMember, Integrals, Signeds
    <2> QED
      BY <1>1, <2>1, MemberKeeps
  <1>3. \A k \in {"null"} : s.kind = k => x.type = "VOID" /\ x.data = 0
    BY GetOf, VariantFields DEF Void
  <1>4. s.kind = "integer" => x.type = "INTEGER" /\ x.data = StoreMember(b, GetMember(b), s.n)
    BY GetOf, VariantFields
  <1>5. /\ s.kind = "float" => x.type = "FLOAT" /\ x.data = s.n
        /\ s.kind = "bool" => x.type = "BOOLEAN" /\ x.data = s.n
        /\ s.kind = "string" => x.type = "CSTRING" /\ x.data = s.n
        /\ s.kind = "userpointer" => x.type = "CLASSPTR" /\ x.data = s.n
        /\ s.kind = "vector" => x.type = "VECTOR" /\ x.data = s.n
        /\ s.kind = "qangle" => x.type = "QANGLE" /\ x.data = s.n
    BY GetOf, VariantFields
  <1>6. /\ s.kind \in {"instance", "entity"} => x.type = "HSCRIPT_NEW_INSTANCE" /\ x.data = s.n
        /\ s.kind = "function" => x.type = "FUNCTION" /\ x.data = s.n
        /\ s.kind = "array" => x.type = "CUSTOM" /\ x.data = s.n
        /\ s.kind = "table" => x.type = "EMBEDDED" /\ x.data = s.n
    BY GetOf, VariantFields
  <1> HIDE DEF x
  <1>7. x.data \in Int
    BY <1>1, <1>2, <1>3, <1>4, <1>5, <1>6 DEF PlainKinds, AllKinds, ObjectKinds
  <1>8. s.kind \notin {"null", "integer"} => x.data = s.n
    BY <1>1, <1>5, <1>6 DEF PlainKinds, AllKinds, ObjectKinds
  <1>9. /\ s.kind = "null" <=> x.type = "VOID"
        /\ s.kind = "integer" <=> x.type = "INTEGER"
        /\ s.kind = "float" <=> x.type = "FLOAT"
        /\ s.kind = "bool" <=> x.type = "BOOLEAN"
        /\ s.kind = "string" <=> x.type = "CSTRING"
        /\ s.kind = "userpointer" <=> x.type = "CLASSPTR"
        /\ s.kind = "vector" <=> x.type = "VECTOR"
        /\ s.kind = "qangle" <=> x.type = "QANGLE"
        /\ s.kind \in {"instance", "entity"} <=> x.type = "HSCRIPT_NEW_INSTANCE"
        /\ s.kind \in ObjectKinds <=> x.type \in ObjectFields
        /\ s.kind = "function" <=> x.type = "FUNCTION"
        /\ x.type # "HSCRIPT"
    BY <1>1, <1>3, <1>4, <1>5, <1>6 DEF PlainKinds, AllKinds, ObjectKinds, ObjectFields
  <1> QED
    BY <1>3, <1>4, <1>7, <1>8, <1>9 DEF x

\* to_value, for each kind of type.
LEMMA ToValueOf ==
  ASSUME NEW b, NEW t, NEW x
  PROVE  /\ t = "bool" => to_value(b, t, x) = to_bool(b, x)
         /\ t \in Integrals => to_value(b, t, x) = to_int_impl(b, t, x)
         /\ t \in Floats => to_value(b, t, x) = to_float_impl(b, x)
         /\ t = "string" => to_value(b, t, x) = to_string_impl(b, x)
         /\ t \in Pointers => to_value(b, t, x) = to_pointer(b, t, x)
         /\ t \in Handles => to_value(b, t, x) = to_handle(x)
         /\ t = "entity" => to_value(b, t, x) = to_entity(x)
         /\ t \in {"vector", "qangle"} => to_value(b, t, x) = to_vector(b, t, x)
  BY DEF to_value, Integrals, Signeds, Unsigneds, Floats, Pointers, Handles

\* A number is taken from everything, and fits.
LEMMA NumberTaken ==
  ASSUME NEW b \in Builds, NEW t \in Integrals, NEW s, GoodObject(s), NEW a \in to_int_impl(b, t, get(b, s))
  PROVE  /\ a \in Int /\ FitsType(b, t, a)
         /\ s.kind = "integer" => a = Wrap(b, t, Wrap(b, "int", s.n))
  <1> DEFINE x == get(b, s)
  <1>0. s.n \in Int /\ x.data \in Int
    BY GetLeaves DEF GoodObject
  <1>1. ASSUME NEW k \in Int, a = Wrap(b, t, k) PROVE a \in Int /\ FitsType(b, t, a)
    BY <1>1, WrapFits
  <1>2. 2^(CharBits - 1) \in Nat /\ 1 < 2^(CharBits - 1)
    <2>1. 2^(CharBits - 1) \in Nat \ {0, 1}
      BY PowersOfWidths DEF Widths
    <2> QED
      BY <2>1
  <1>3. ASSUME a \in {0, 1} PROVE a \in Int /\ FitsType(b, t, a)
    BY <1>2, <1>3, SmallFits
  <1>4. CASE s.kind = "integer"
    <2>1. x.type = "INTEGER" /\ x.data = StoreMember(b, GetMember(b), s.n)
      BY <1>4, GetLeaves
    <2>2. a = Wrap(b, t, ReadMember(b, "int", x.data))
      BY <2>1 DEF to_int_impl, IntegerMember
    <2>3. a = Wrap(b, t, Wrap(b, "int", s.n)) /\ Wrap(b, "int", s.n) \in Int
      BY <1>0, <2>1, <2>2, IntegerTaken
    <2> QED
      BY <1>1, <2>3
  <1>5. CASE s.kind = "float"
    <2>1. a = Wrap(b, t, Trunc(x.data))
      BY <1>5, GetLeaves DEF to_int_impl
    <2>2. Trunc(x.data) \in Int
      <3> HIDE DEF x
      <3> QED
        BY <1>0 DEF Trunc
    <2> QED
      BY <1>1, <1>5, <2>1, <2>2
  <1>6. CASE s.kind = "bool"
    <2>1. a = x.data /\ x.data = s.n
      BY <1>6, GetLeaves DEF to_int_impl
    <2> QED
      BY <1>3, <1>6, <2>1 DEF GoodObject
  <1>7. CASE s.kind = "string"
    <2>1. a \in IF x.data \in Digits THEN {DigitValue(x.data)} ELSE Anything(b, t)
      BY <1>7, GetLeaves DEF to_int_impl
    <2>2. CASE x.data \in Digits
      <3>1. a = DigitValue(x.data)
        BY <2>1, <2>2
      <3>2. a \in Int /\ 0 <= a /\ a < 2^(CharBits - 1)
        BY <2>2, <3>1, DigitsAreSmall
      <3> QED
        BY <1>7, <3>2, SmallFits
    <2>3. CASE x.data \notin Digits
      <3>1. PICK k \in {0, 1, 2^(CharBits - 1)} : a = Wrap(b, t, k)
        BY <2>1, <2>3 DEF Anything
      <3> QED
        BY <1>1, <1>2, <1>7, <3>1
    <2> QED
      BY <2>2, <2>3
  <1>8. CASE s.kind \notin {"integer", "float", "bool", "string"}
    <2>1. x.type \notin {"INTEGER", "FLOAT", "BOOLEAN", "CSTRING"}
      BY <1>8, GetLeaves
    <2>2. a = 0
      BY <2>1 DEF to_int_impl
    <2> QED
      BY <1>3, <1>8, <2>2
  <1> QED
    BY <1>4, <1>5, <1>6, <1>7, <1>8

\* An argument of a C++ function.
ArgFits(b, t, a) ==
    /\ t \in Integrals => a \in Int /\ FitsType(b, t, a)
    /\ t = "pointer" => a \in Int /\ FitsType(b, "ulong", a)
    /\ t = "entity" => a \in {0, WildEntity, 5}

LEMMA TakenFits ==
  ASSUME NEW b \in Builds, NEW t \in CTypes, NEW s, GoodObject(s), NEW a \in to_value(b, t, get(b, s))
  PROVE  ArgFits(b, t, a)
  <1> DEFINE x == get(b, s)
  <1>1. ASSUME t \in Integrals PROVE a \in Int /\ FitsType(b, t, a)
    BY <1>1, NumberTaken, ToValueOf
  <1>2. ASSUME t = "pointer" PROVE a \in Int /\ FitsType(b, "ulong", a)
    <2>1. a \in to_pointer(b, t, x)
      BY <1>2, ToValueOf DEF Pointers
    <2>2. a = ReadPtr(b, x.data) \/ a = 0
      BY <2>1 DEF to_pointer
    <2>3. x.data \in Int
      BY GetLeaves
    <2>4. 0 \in 0 .. 2^Bits(b, "ulong") - 1 /\ 0 \in Int
      BY UlongFits
    <2>5. FitsType(b, "ulong", 0)
      BY <2>4, UlongFits
    <2> QED
      BY <2>2, <2>3, <2>5, PointerKept
  <1>3. ASSUME t = "entity" PROVE a \in {0, WildEntity, 5}
    <2>1. a \in to_entity(x)
      BY <1>3, ToValueOf
    <2> QED
      BY <2>1, Identities DEF to_entity
  <1> QED
    BY <1>1, <1>2, <1>3 DEF ArgFits

\* What is taken is a conversion of what the script held: the consequent of ArgumentsConvert.
Converted(b, s, t, a) ==
    CASE s.kind = "integer" /\ t = "bool" -> a = IF Wrap(b, "int", s.n) > 0 THEN 1 ELSE 0
      [] s.kind = "integer" /\ t \in Integrals ->
           /\ InRange(b, t, a)
           /\ \/ a = Wrap(b, t, s.n)
              \/ ~InRange(b, "int", s.n) /\ Bits(b, t) > IntBits
      [] t \in Handles /\ s.kind \in ObjectKinds -> a = s.n
      [] t \in Handles /\ s.kind \notin ObjectKinds -> a = 0
      [] t \in {"entity", "vector", "qangle"} /\ s.kind \in InstanceKinds ->
           a = IF s.kind = t THEN s.n ELSE 0
      [] OTHER -> TRUE

LEMMA TakenIsConverted ==
  ASSUME NEW b \in Builds, NEW t \in CTypes, NEW s, GoodObject(s), NEW a \in to_value(b, t, get(b, s))
  PROVE  Converted(b, s, t, a)
  <1> DEFINE x == get(b, s)
  <1>0. s.n \in Int /\ s.kind \in PlainKinds \cup AllKinds
    BY DEF GoodObject
  <1>1. CASE s.kind = "integer" /\ t = "bool"
    <2>1. a \in to_bool(b, x)
      BY <1>1, ToValueOf
    <2>2. x.type = "INTEGER" /\ x.data = StoreMember(b, GetMember(b), s.n)
      BY <1>1, GetLeaves
    <2>3. a = IF ReadMember(b, "int", x.data) > 0 THEN 1 ELSE 0
      BY <2>1, <2>2 DEF to_bool, ObjectFields
    <2>4. a = IF Wrap(b, "int", s.n) > 0 THEN 1 ELSE 0
      BY <1>0, <2>2, <2>3, IntegerTaken
    <2> QED
      BY <1>1, <2>4 DEF Converted, Handles, Integrals, Signeds, Unsigneds
  <1>2. CASE s.kind = "integer" /\ t \in Integrals
    <2>1. a = Wrap(b, t, Wrap(b, "int", s.n))
      BY <1>2, NumberTaken, ToValueOf
    <2>2. InRange(b, t, a) /\ (a = Wrap(b, t, s.n) \/ (~InRange(b, "int", s.n) /\ Bits(b, t) > IntBits))
      BY <1>0, <1>2, <2>1, NumberArrives
    <2>3. Converted(b, s, t, a) <=>
            InRange(b, t, a) /\ (a = Wrap(b, t, s.n) \/ (~InRange(b, "int", s.n) /\ Bits(b, t) > IntBits))
      BY <1>2 DEF Converted, Handles, Integrals, Signeds, Unsigneds
    <2> QED
      BY <2>2, <2>3
  <1>3. CASE t \in Handles
    <2>1. a = IF x.type \in ObjectFields THEN x.data ELSE 0
      BY <1>3, ToValueOf DEF to_handle
    <2>2. a = IF s.kind \in ObjectKinds THEN s.n ELSE 0
      BY <2>1, GetLeaves DEF ObjectKinds
    <2> QED
      BY <1>3, <2>2 DEF Converted, Handles, Integrals, Signeds, Unsigneds
  <1>4. CASE t = "entity" /\ s.kind \in InstanceKinds
    <2>1. a \in to_entity(x)
      BY <1>4, ToValueOf
    <2>2. CASE s.kind \in {"instance", "entity"}
      <3>1. x.type = "HSCRIPT_NEW_INSTANCE" /\ x.data = s.n
        BY <2>2, GetLeaves
      <3>2. a = IF s.n = 5 THEN s.n ELSE 0
        BY <2>1, <3>1, Identities DEF to_entity
      <3>3. s.kind = "entity" <=> s.n = 5
        <4>1. s.n \in 1 .. 7 /\ s.kind = Objects[s.n]
          BY <2>2 DEF GoodObject, AllKinds, ObjectKinds
        <4>2. s.n \in {1, 2, 3, 4, 5, 6, 7}
          BY <4>1
        <4> QED
          BY <4>1, <4>2, Identities
      <3>4. a = IF s.kind = t THEN s.n ELSE 0
        BY <1>4, <3>2, <3>3
      <3> QED
        BY <1>4, <3>4 DEF Converted, Handles, Integrals, Signeds, Unsigneds
    <2>3. CASE s.kind \in {"vector", "qangle"}
      <3>1. x.type \in {"VECTOR", "QANGLE"}
        BY <2>3, GetLeaves
      <3>2. a = 0 /\ s.kind # t
        BY <1>4, <2>1, <2>3, <3>1 DEF to_entity
      <3> QED
        BY <1>4, <3>2 DEF Converted, Handles, Integrals, Signeds, Unsigneds
    <2> QED
      BY <1>4, <2>2, <2>3 DEF InstanceKinds
  <1>5. CASE t \in {"vector", "qangle"} /\ s.kind \in InstanceKinds
    <2>1. a \in to_vector(b, t, x)
      BY <1>5, ToValueOf
    <2>2. FieldOf(b, t) = IF t = "vector" THEN "VECTOR" ELSE "QANGLE"
      BY <1>5 DEF FieldOf, Integrals, Signeds, Unsigneds, Floats, Pointers, Handles
    <2>3. x.type = FieldOf(b, t) <=> s.kind = t
      BY <1>5, <2>2, GetLeaves
    <2>4. x.data = s.n
      BY <1>5, GetLeaves DEF InstanceKinds
    <2>5. a = IF s.kind = t THEN s.n ELSE 0
      BY <2>1, <2>3, <2>4 DEF to_vector
    <2> QED
      BY <1>5, <2>5 DEF Converted, Handles, Integrals, Signeds, Unsigneds
  <1>6. CASE /\ ~(s.kind = "integer" /\ (t = "bool" \/ t \in Integrals)) /\ t \notin Handles
             /\ ~(t \in {"entity", "vector", "qangle"} /\ s.kind \in InstanceKinds)
    BY <1>6 DEF Converted
  <1> QED
    BY <1>1, <1>2, <1>3, <1>4, <1>5, <1>6

\* What a script passes to the type it had it from.
LEMMA SeenIsAdmitted ==
  ASSUME NEW b \in Builds, NEW t, NEW v, NativeFits(b, t, v)
  PROVE  SeenObject(b, t, v).kind \in {"null"} \cup typemask_for_type(FieldOf(b, t))
  <1> DEFINE s == SeenObject(b, t, v)
  <1> SUFFICES s.kind \in {"null"} \cup typemask_for_type(FieldOf(b, t))
    OBVIOUS
  <1>0. t \in CTypes /\ Null.kind = "null"
    BY ObjectFieldsOf DEF NativeFits, Null
  <1>1. CASE t \in Integrals \ {"char"}
    <2>1. s.kind = "integer"
      BY <1>1, ObjectFieldsOf DEF SeenObject, Floats, Integrals, Signeds, Unsigneds
    <2>2. FieldOf(b, t) \in {"SHORT", "INTEGER", "INTEGER64", "UINT32", "UINT64"}
      BY <1>1 DEF FieldOf, NumberField, Integrals, Signeds, Unsigneds, Pointers, Handles
    <2>3. typemask_for_type(FieldOf(b, t)) = {"integer"}
      BY <2>2 DEF typemask_for_type
    <2> HIDE DEF s
    <2> QED
      BY <2>1, <2>3
  <1>2. CASE t \in {"char", "string"}
    <2>1. s.kind = "string"
      BY <1>2, ObjectFieldsOf DEF SeenObject, Floats, Integrals, Signeds, Unsigneds
    <2>2. FieldOf(b, t) \in {"CHARACTER", "CSTRING"}
      BY <1>2 DEF FieldOf, NumberField, Integrals, Signeds, Unsigneds, Floats, Pointers, Handles
    <2>3. typemask_for_type(FieldOf(b, t)) = {"string"}
      BY <2>2 DEF typemask_for_type
    <2> HIDE DEF s
    <2> QED
      BY <2>1, <2>3
  <1>3. CASE t \in Floats
    <2>1. s.kind = "float"
      BY <1>3, ObjectFieldsOf DEF SeenObject, Floats, Integrals, Signeds, Unsigneds
    <2>2. FieldOf(b, t) \in {"FLOAT", "FLOAT64"}
      BY <1>3 DEF FieldOf, NumberField, Integrals, Signeds, Unsigneds, Floats, Pointers, Handles
    <2>3. typemask_for_type(FieldOf(b, t)) = {"float"}
      BY <2>2 DEF typemask_for_type
    <2> HIDE DEF s
    <2> QED
      BY <2>1, <2>3
  <1>4. CASE t = "bool"
    <2>1. s.kind = "bool"
      BY <1>4, ObjectFieldsOf DEF SeenObject, Floats, Integrals, Signeds, Unsigneds
    <2>2. FieldOf(b, t) = "BOOLEAN"
      BY <1>4 DEF FieldOf, NumberField, Integrals, Signeds, Unsigneds, Floats, Pointers, Handles
    <2>3. typemask_for_type(FieldOf(b, t)) = {"bool"}
      BY <2>2 DEF typemask_for_type
    <2> HIDE DEF s
    <2> QED
      BY <2>1, <2>3
  <1>5. CASE t \in Pointers
    <2>1. s.kind \in {"null", "userpointer"}
      BY <1>0, <1>5, ObjectFieldsOf DEF SeenObject, Floats, Integrals, Signeds, Unsigneds, Pointers
    <2>2. FieldOf(b, t) = "CLASSPTR"
      BY <1>5 DEF FieldOf, Integrals, Signeds, Unsigneds, Floats, Pointers, Handles
    <2>3. typemask_for_type(FieldOf(b, t)) = {"userpointer"}
      BY <2>2 DEF typemask_for_type
    <2> HIDE DEF s
    <2> QED
      BY <2>1, <2>3
  <1>6. CASE t \in ObjectTypes
    <2>1. s = IF v = 0 THEN Null ELSE Obj(Objects[v], v)
      BY <1>6 DEF SeenObject, ObjectTypes, Handles, Floats, Integrals, Signeds, Unsigneds
    <2>2. v \in {0} \cup ObjectsOf(t)
      BY <1>6 DEF NativeFits
    <2>3. s.kind = IF v = 0 THEN "null" ELSE Objects[v]
      BY <1>0, <2>1, ObjectFieldsOf
    <2>4. \A o \in ObjectsOf(t) : Objects[o] \in typemask_for_type(FieldOf(b, t))
      <3>1. 1 .. 5 = {1, 2, 3, 4, 5}
        OBVIOUS
      <3>2. CASE t \in Handles
        <4>1. FieldOf(b, t) = HandleField(t)
          BY <3>2 DEF FieldOf, Integrals, Signeds, Unsigneds, Floats, Pointers, Handles
        <4>2. CASE t \in {"function_ref", "table_ref", "array_ref"}
          BY <4>1, <4>2, Identities DEF ObjectsOf, HandleField, typemask_for_type
        <4>3. CASE t = "instance_ref"
          BY <4>1, <4>3, Identities DEF ObjectsOf, HandleField, typemask_for_type, InstanceKinds
        <4>4. CASE t = "object_ref"
          <5>1. ObjectsOf(t) = {1, 2, 3, 4, 5}
            BY <3>1, <4>4 DEF ObjectsOf
          <5>2. typemask_for_type(FieldOf(b, t)) = {"table", "array", "function"} \cup InstanceKinds
            BY <4>1, <4>4 DEF HandleField, typemask_for_type
          <5> QED
            BY <5>1, <5>2, Identities DEF InstanceKinds
        <4> QED
          BY <3>2, <4>2, <4>3, <4>4 DEF Handles
      <3>3. CASE t \in {"entity", "vector", "qangle"}
        <4>1. FieldOf(b, t) \in {"HSCRIPT_NEW_INSTANCE", "VECTOR", "QANGLE"}
          BY <3>3 DEF FieldOf, Integrals, Signeds, Unsigneds, Floats, Pointers, Handles
        <4>2. typemask_for_type(FieldOf(b, t)) = InstanceKinds
          BY <4>1 DEF typemask_for_type
        <4> QED
          BY <3>3, <4>2, Identities DEF ObjectsOf, InstanceKinds
      <3> QED
        BY <1>6, <3>2, <3>3 DEF ObjectTypes
    <2> HIDE DEF s
    <2> QED
      BY <2>2, <2>3, <2>4
  <1> QED
    BY <1>0, <1>1, <1>2, <1>3, <1>4, <1>5, <1>6, TypesDisjoint

LEMMA TakenReturns ==
  ASSUME NEW b \in Builds, NEW t, NEW v, NativeFits(b, t, v),
         NEW a \in to_value(b, t, get(b, SeenObject(b, t, v)))
  PROVE  \/ a = v
         \/ t = "char"
         \/ t \in {"long", "longlong", "ulong", "ulonglong"} /\ ~InRange(b, "int", v)
         \/ t = "mfp" /\ AdjustorOf(b, v) # 0
  <1> DEFINE s == SeenObject(b, t, v)   x == get(b, s)
  <1>0. t \in CTypes /\ GoodObject(s) /\ a \in to_value(b, t, x)
    BY SeenIsGood DEF NativeFits
  <1>1. CASE t \in Integrals \ {"char"}
    <2>1. s = Obj("integer", SeenAs(b, t, v))
      BY <1>1 DEF SeenObject, Floats, Integrals, Signeds, Unsigneds
    <2>2. s.kind = "integer" /\ s.n = SeenAs(b, t, v)
      BY <2>1, ObjectFieldsOf
    <2>3. a = Wrap(b, t, Wrap(b, "int", SeenAs(b, t, v)))
      <3>1. a \in to_int_impl(b, t, x)
        BY <1>0, <1>1, ToValueOf
      <3> HIDE DEF s
      <3> QED
        BY <1>0, <1>1, <2>2, <3>1, NumberTaken
    <2>4. v \in Int /\ FitsType(b, t, v)
      BY <1>1 DEF NativeFits
    <2> QED
      BY <1>1, <2>3, <2>4, NumberReturns DEF Wide
  <1>2. CASE t \in Floats
    <2>1. s.kind = "float" /\ s.n = v
      BY <1>2, ObjectFieldsOf DEF SeenObject, Floats, Integrals, Signeds, Unsigneds
    <2>2. x.type = "FLOAT" /\ x.data = v
      BY <1>0, <2>1, GetLeaves
    <2>3. a \in to_float_impl(b, x)
      BY <1>0, <1>2, ToValueOf
    <2> HIDE DEF s, x
    <2> QED
      BY <2>2, <2>3 DEF to_float_impl
  <1>3. CASE t = "bool"
    <2>1. s.kind = "bool" /\ s.n = v
      BY <1>3, ObjectFieldsOf DEF SeenObject, Floats, Integrals, Signeds, Unsigneds
    <2>2. x.type = "BOOLEAN" /\ x.data = v
      BY <1>0, <2>1, GetLeaves
    <2>3. a \in to_bool(b, x)
      BY <1>0, <1>3, ToValueOf
    <2> HIDE DEF s, x
    <2> QED
      BY <2>2, <2>3 DEF to_bool, ObjectFields
  <1>4. CASE t = "string"
    <2>1. s.kind = "string" /\ s.n = v
      BY <1>4, ObjectFieldsOf DEF SeenObject, Floats, Integrals, Signeds, Unsigneds
    <2>2. x.type = "CSTRING" /\ x.data = v
      BY <1>0, <2>1, GetLeaves
    <2>3. a \in to_string_impl(b, x)
      BY <1>0, <1>4, ToValueOf
    <2> HIDE DEF s, x
    <2> QED
      BY <2>2, <2>3 DEF to_string_impl, ObjectFields
  <1>5. CASE t \in Pointers
    <2>1. v \in Int
      BY DEF NativeFits
    <2>2. a \in to_pointer(b, t, x)
      BY <1>0, <1>5, ToValueOf
    <2>3. ASSUME s = Null PROVE a = 0
      <3>1. x.type = "VOID"
        BY <1>0, <2>3, GetLeaves, ObjectFieldsOf DEF Null
      <3> HIDE DEF s, x
      <3> QED
        BY <2>2, <3>1 DEF to_pointer
    <2>4. ASSUME NEW p \in Int, FitsType(b, "ulong", p), s = Obj("userpointer", p) PROVE a = p
      <3>1. s.kind = "userpointer" /\ s.n = p
        BY <2>4, ObjectFieldsOf
      <3>2. x.type = "CLASSPTR" /\ x.data = p
        BY <1>0, <3>1, GetLeaves
      <3>3. a = ReadPtr(b, p)
        <4> HIDE DEF s, x
        <4> QED
          BY <2>2, <3>2 DEF to_pointer
      <3> QED
        BY <2>4, <3>3, PointerKept
    <2>5. CASE t = "pointer"
      <3>1. s = IF v = 0 THEN Null ELSE Obj("userpointer", v)
        BY <2>5 DEF SeenObject, Floats, Integrals, Signeds, Unsigneds
      <3>2. FitsType(b, "ulong", v)
        BY <2>5 DEF NativeFits
      <3> HIDE DEF s
      <3> QED
        BY <2>1, <2>3, <2>4, <3>1, <3>2
    <2>6. CASE t = "mfp" /\ AdjustorOf(b, v) = 0
      <3>1. /\ AddrOf(b, v) \in Int /\ FitsType(b, "ulong", AddrOf(b, v))
            /\ v = 0 => AddrOf(b, v) = 0
            /\ v # 0 => AddrOf(b, v) = 1
            /\ v \in {0, 1}
        BY <2>1, <2>6, MfpParts DEF NativeFits
      <3>2. s = IF v = 0 THEN Null ELSE Obj("userpointer", AddrOf(b, v))
        BY <2>6 DEF SeenObject, Floats, Integrals, Signeds, Unsigneds
      <3> HIDE DEF s
      <3> QED
        BY <2>3, <2>4, <3>1, <3>2
    <2> QED
      BY <1>5, <2>5, <2>6 DEF Pointers
  <1>6. CASE t \in ObjectTypes
    <2>1. s = IF v = 0 THEN Null ELSE Obj(Objects[v], v)
      BY <1>6 DEF SeenObject, ObjectTypes, Handles, Floats, Integrals, Signeds, Unsigneds
    <2>2. v \in {0} \cup ObjectsOf(t)
      BY <1>6 DEF NativeFits
    <2>3. Converted(b, s, t, a)
      BY <1>0, TakenIsConverted
    <2>4. CASE v = 0
      <3>1. s.kind = "null"
        BY <2>1, <2>4, ObjectFieldsOf DEF Null
      <3>2. x.type = "VOID"
        BY <1>0, <3>1, GetLeaves
      <3> HIDE DEF s, x
      <3>3. CASE t \in Handles
        BY <1>0, <2>4, <3>2, <3>3, ToValueOf DEF to_handle, ObjectFields
      <3>4. CASE t = "entity"
        BY <1>0, <2>4, <3>2, <3>4, ToValueOf DEF to_entity
      <3>5. CASE t \in {"vector", "qangle"}
        <4>1. FieldOf(b, t) # "VOID"
          BY <3>5 DEF FieldOf, Integrals, Signeds, Unsigneds, Floats, Pointers, Handles
        <4> QED
          BY <1>0, <2>4, <3>2, <3>5, <4>1, ToValueOf DEF to_vector
      <3> QED
        BY <1>6, <3>3, <3>4, <3>5 DEF ObjectTypes
    <2>5. CASE v # 0
      <3>1. s.kind = Objects[v] /\ s.n = v /\ v \in ObjectsOf(t)
        BY <2>1, <2>2, <2>5, ObjectFieldsOf
      <3> HIDE DEF s, x
      <3>2. CASE t \in Handles
        <4>1. 1 .. 5 = {1, 2, 3, 4, 5}
          OBVIOUS
        <4>2. ObjectsOf(t) \subseteq {1, 2, 3, 4, 5}
          BY <3>2, <4>1 DEF Handles, ObjectsOf
        <4>3. s.kind \in ObjectKinds
          BY <3>1, <4>2, Identities DEF ObjectKinds
        <4>4. a = s.n
          BY <2>3, <3>2, <4>3 DEF Converted, Handles, ObjectKinds, Integrals, Signeds, Unsigneds
        <4> QED
          BY <3>1, <4>4
      <3>3. CASE t \in {"entity", "vector", "qangle"}
        <4>1. s.kind = t /\ t \in InstanceKinds
          BY <3>1, <3>3, Identities DEF ObjectsOf, InstanceKinds
        <4>2. a = s.n
          BY <2>3, <3>3, <4>1 DEF Converted, Handles, Integrals, Signeds, Unsigneds, InstanceKinds
        <4> QED
          BY <3>1, <4>2
      <3> QED
        BY <1>6, <3>2, <3>3 DEF ObjectTypes
    <2> QED
      BY <2>4, <2>5
  <1> QED
    BY <1>0, <1>1, <1>2, <1>3, <1>4, <1>5, <1>6, TypesDisjoint

-----------------------------------------------------------------------------
(* Memory. *)

\* What is read back of what was written to memory: the consequent of ReadBackFromMemory.
SeenInMemory(b, f, t, v, s) ==
    CASE f \in {"uint8", "sint8"}  -> s = Obj("string", v % 2^CharBits)
      [] Overruns(b, f)            -> s.kind \in {"integer", "float"}
      [] t \in Integrals /\ ~Overruns(b, f) /\ f \notin {"uint8", "sint8"} -> s = Obj("integer", SeenAs(b, t, v))
      [] t = "entity"              -> s = Obj("entity", v)
      [] t = "pointer"             -> s = Obj("userpointer", v)
      [] OTHER                     -> TRUE

LEMMA FfiAreCTypes ==
  ASSUME NEW f \in FfiTypes
  PROVE  /\ CTypeOf(f) \in CTypes
         /\ CTypeOf(f) = "entity" <=> f = "ent_ptr"
         /\ CTypeOf(f) = "pointer" <=> f = "pointer"
         /\ CTypeOf(f) \in Integrals <=> f \notin {"float", "double", "pointer", "ent_ptr", "vector"}
  <1>1. CASE f \in {"uint8", "sint8", "uint16", "sint16"}
    BY <1>1 DEF CTypeOf, CTypes, Integrals, Signeds, Unsigneds
  <1>2. CASE f \in {"uint32", "sint32", "uint64", "sint64"}
    BY <1>2 DEF CTypeOf, CTypes, Integrals, Signeds, Unsigneds
  <1>3. CASE f \in {"float", "double", "pointer", "ent_ptr", "vector"}
    BY <1>3 DEF CTypeOf, CTypes, Integrals, Signeds, Unsigneds, Floats, Pointers
  <1> QED
    BY <1>1, <1>2, <1>3 DEF FfiTypes

LEMMA MemoryIsSeen ==
  ASSUME NEW b \in Builds, NEW f \in FfiTypes, NEW v, ArgFits(b, CTypeOf(f), v),
         f = "ent_ptr" => script_var_to_ptr(b, f, v) = IdentityOf("entity")
  PROVE  SeenInMemory(b, f, CTypeOf(f), v, push(b, ptr_to_script_var(b, f, script_var_to_ptr(b, f, v))))
  <1> DEFINE t == CTypeOf(f)   bytes == script_var_to_ptr(b, f, v)   x == ptr_to_script_var(b, f, bytes)
             s == push(b, x)
  <1>0. x.type = to_field_type(b, f) /\ (~Overruns(b, f) => x = Variant(to_field_type(b, f), bytes))
    BY VariantFields DEF ptr_to_script_var
  <1>1. CASE f \in {"uint8", "sint8"}
    <2>1. t \in {"uchar", "schar"} /\ t \in Integrals /\ Bits(b, t) = CharBits /\ CharBits \in Widths
      BY <1>1 DEF CTypeOf, Integrals, Signeds, Unsigneds, Bits, Widths
    <2>2. v \in Int /\ 2^CharBits \in Nat /\ 2^CharBits > 0
      BY <2>1, PowersOfWidths DEF ArgFits
    <2>3. bytes = v % 2^CharBits
      BY <1>1, <2>1 DEF script_var_to_ptr
    <2>4. bytes \in Int /\ Alike(bytes, v, 2^CharBits)
      <3> HIDE DEF bytes
      <3> QED
        BY <2>2, <2>3, ModIsAlike
    <2>5. x.type = "CHARACTER" /\ x.data = bytes
      <3>1. ~Overruns(b, f)
        BY <1>1 DEF Overruns
      <3>2. to_field_type(b, f) = "CHARACTER"
        BY <1>1 DEF to_field_type
      <3> HIDE DEF x, bytes
      <3> QED
        BY <1>0, <3>1, <3>2, VariantFields
    <2> DEFINE r == ReadMember(b, "char", bytes)
    <2>6. s = Obj("string", r % 2^CharBits)
      <3> HIDE DEF x, bytes
      <3> QED
        BY <2>5, PushOf
    <2>7. r \in Int /\ Alike(r, bytes, 2^CharBits)
      <3>1. "char" \in Integrals /\ Member(b, "char") = "char" /\ Bits(b, "char") = CharBits
        BY DEF Integrals, Signeds, Member, Bits
      <3> HIDE DEF bytes
      <3> QED
        BY <2>4, <3>1, MemberGives
    <2>8. r % 2^CharBits = v % 2^CharBits
      <3> HIDE DEF r, bytes
      <3>1. Alike(r, v, 2^CharBits)
        BY <2>2, <2>4, <2>7, AlikeIsEquivalence
      <3> QED
        BY <2>2, <2>7, <3>1, ModOfAlike
    <2>9. s = Obj("string", v % 2^CharBits) /\ ~Overruns(b, f)
      BY <1>1, <2>6, <2>8 DEF Overruns
    <2> HIDE DEF s, t
    <2>10. SeenInMemory(b, f, t, v, s)
      BY <1>1, <2>1, <2>9 DEF SeenInMemory
    <2> QED
      BY <2>10 DEF s, t
  <1>2. CASE Overruns(b, f)
    <2>1. f \in {"double", "uint64", "sint64"} /\ f \notin {"uint8", "sint8"}
      BY <1>2 DEF Overruns
    <2>2. to_field_type(b, f) \in {"FLOAT64", "UINT64", "INTEGER64", "INTEGER"}
      BY <2>1 DEF to_field_type
    <2>3. s.kind \in {"integer", "float"}
      <3> HIDE DEF x
      <3> QED
        BY <1>0, <2>2, PushOf, ObjectFieldsOf DEF Integer
    <2> HIDE DEF s, t
    <2>4. t \notin {"entity", "pointer"}
      BY <2>1, FfiAreCTypes DEF t
    <2>5. SeenInMemory(b, f, t, v, s)
      BY <1>2, <2>1, <2>3, <2>4 DEF SeenInMemory
    <2> QED
      BY <2>5 DEF s, t
  <1>3. CASE ~Overruns(b, f) /\ f \notin {"uint8", "sint8"} /\ t \in Integrals
    <2>1. f \in {"uint16", "sint16", "uint32", "sint32", "uint64", "sint64"}
      BY <1>3, FfiAreCTypes DEF FfiTypes
    <2>2. t # "char" /\ Member(b, t) = t /\ NumberField(b, t) = to_field_type(b, f)
      <3>1. CASE f \in {"uint16", "sint16", "uint32", "sint32"}
        BY <3>1 DEF CTypeOf, Member, NumberField, to_field_type
      <3>2. CASE f \in {"uint64", "sint64"}
        BY <1>3, <3>2 DEF CTypeOf, Member, NumberField, to_field_type, Overruns
      <3> QED
        BY <2>1, <3>1, <3>2
    <2>3. bytes = StoreMember(b, t, v)
      BY <1>3, <2>1, <2>2 DEF script_var_to_ptr, StoreMember
    <2>4. x = NumberVariant(b, t, v)
      <3> HIDE DEF x, bytes, t
      <3> QED
        BY <1>0, <1>3, <2>2, <2>3 DEF NumberVariant
    <2>5. v \in Int /\ FitsType(b, t, v)
      BY <1>3 DEF ArgFits
    <2>6. s = Obj("integer", SeenAs(b, t, v))
      <3> HIDE DEF x, t
      <3> QED
        BY <1>3, <2>2, <2>4, <2>5, NumberSeen
    <2> HIDE DEF s, t
    <2>7. SeenInMemory(b, f, t, v, s)
      BY <1>3, <2>6 DEF SeenInMemory, Integrals, Signeds, Unsigneds
    <2> QED
      BY <2>7 DEF s, t
  <1>4. CASE f = "ent_ptr"
    <2>1. t = "entity" /\ to_field_type(b, f) = "HSCRIPT" /\ ~Overruns(b, f) /\ bytes = v
      BY <1>4, FfiAreCTypes DEF to_field_type, Overruns, script_var_to_ptr, Integrals, Signeds, Unsigneds
    <2>2. v = 5
      BY <1>4, <2>1, Identities
    <2>3. x.type = "HSCRIPT" /\ x.data = 5
      <3> HIDE DEF x, bytes
      <3> QED
        BY <1>0, <2>1, <2>2, VariantFields
    <2>4. s = Obj("entity", v)
      <3> HIDE DEF x
      <3> QED
        BY <2>2, <2>3, PushOf, Identities DEF ObjectFields
    <2> HIDE DEF s, t
    <2>5. SeenInMemory(b, f, t, v, s)
      BY <1>4, <2>1, <2>4 DEF SeenInMemory, Integrals, Signeds, Unsigneds
    <2> QED
      BY <2>5 DEF s, t
  <1>5. CASE f = "pointer"
    <2>1. t = "pointer" /\ to_field_type(b, f) = "CLASSPTR" /\ ~Overruns(b, f) /\ bytes = v
      BY <1>5, FfiAreCTypes DEF to_field_type, Overruns, script_var_to_ptr, Integrals, Signeds, Unsigneds
    <2>2. v \in Int /\ ReadPtr(b, v) = v
      BY <2>1, PointerKept DEF ArgFits
    <2>3. x.type = "CLASSPTR" /\ x.data = v
      <3> HIDE DEF x, bytes
      <3> QED
        BY <1>0, <2>1, VariantFields
    <2>4. s = Obj("userpointer", v)
      <3> HIDE DEF x
      <3> QED
        BY <2>2, <2>3, PushOf
    <2> HIDE DEF s, t
    <2>5. SeenInMemory(b, f, t, v, s)
      BY <1>5, <2>1, <2>4 DEF SeenInMemory, Integrals, Signeds, Unsigneds
    <2> QED
      BY <2>5 DEF s, t
  <1>6. CASE f \in {"float", "double", "vector"} /\ ~Overruns(b, f)
    <2>1. t \notin Integrals /\ t \notin {"entity", "pointer"} /\ f \notin {"uint8", "sint8"}
      BY <1>6, FfiAreCTypes
    <2> HIDE DEF s, t
    <2>2. SeenInMemory(b, f, t, v, s)
      BY <1>6, <2>1 DEF SeenInMemory
    <2> QED
      BY <2>2 DEF s, t
  <1> QED
    BY <1>1, <1>2, <1>3, <1>4, <1>5, <1>6, FfiAreCTypes

-----------------------------------------------------------------------------
(* The invariant of values. *)

\* What was written to memory.
StoredFits ==
    /\ mem.type \in FfiTypes /\ arg.type = CTypeOf(mem.type)
    /\ ArgFits(build, arg.type, arg.value)
    /\ mem.bytes = script_var_to_ptr(build, mem.type, arg.value)

\* Where the value is, and what it is there.
ValuesInv ==
    /\ build \in Builds /\ NativeFits(build, native.type, native.value)
    /\ step = "returned" => var = to_variant(build, native.type, native.value)
    /\ step \in {"script", "passed", "stored"} => sq = SeenObject(build, native.type, native.value)
    /\ step = "passed" => arg.type \in CTypes /\ arg.value \in to_value(build, arg.type, get(build, sq))
    /\ step \in {"stored", "crashed", "loaded", "seen"} => StoredFits
    /\ step = "crashed" => mem.type = "ent_ptr" /\ mem.bytes # IdentityOf("entity")
    /\ step \in {"loaded", "seen"} /\ mem.type = "ent_ptr" => mem.bytes = IdentityOf("entity")
    /\ step = "loaded" => var = ptr_to_script_var(build, mem.type, mem.bytes)
    /\ step = "seen" => sq = push(build, ptr_to_script_var(build, mem.type, mem.bytes))

LEMMA TypedFields ==
  ASSUME NEW t, NEW v
  PROVE  Typed(t, v).type = t /\ Typed(t, v).value = v
  BY DEF Typed

LEMMA ValuesStart ==
  ASSUME ValuesInit
  PROVE  ValuesInv
  <1>1. build \in Builds /\ step = "native"
    BY DEF ValuesInit
  <1>2. PICK t \in CTypes : native \in {Typed(t, v) : v \in SampleValues(build, t)}
    BY DEF ValuesInit
  <1>3. PICK v \in SampleValues(build, t) : native = Typed(t, v)
    BY <1>2
  <1>4. NativeFits(build, native.type, native.value)
    BY <1>1, <1>3, SamplesFit, TypedFields
  <1> QED
    BY <1>1, <1>4 DEF ValuesInv

LEMMA ValuesKeep ==
  ASSUME ValuesInv, [ValuesNext]_valuevars
  PROVE  ValuesInv'
  <1>0. build \in Builds /\ NativeFits(build, native.type, native.value)
    BY DEF ValuesInv
  <1>1. CASE Return
    BY <1>1 DEF ValuesInv, Return
  <1>2. CASE Push /\ step = "returned"
    <2>1. /\ build' = build /\ native' = native /\ step' = "script"
          /\ sq' = push(build, to_variant(build, native.type, native.value))
      BY <1>2 DEF ValuesInv, Push
    <2>2. sq' = SeenObject(build, native.type, native.value)
      BY <1>0, <2>1, ReturnedIsSeen
    <2> QED
      BY <1>0, <2>1, <2>2 DEF ValuesInv
  <1>3. CASE Push /\ step = "loaded"
    BY <1>3 DEF ValuesInv, Push, StoredFits
  <1>4. ASSUME NEW t \in CTypes, NEW anything \in BOOLEAN, Pass(t, anything)
        PROVE  ValuesInv'
    <2>1. /\ step = "script" /\ step' = "passed" /\ build' = build /\ native' = native /\ sq' = sq
          /\ sq = SeenObject(build, native.type, native.value)
      BY <1>4 DEF ValuesInv, Pass
    <2>2. PICK v \in to_value(build, t, get(build, sq)) : arg' = Typed(t, v)
      BY <1>4 DEF Pass
    <2>3. arg'.type = t /\ arg'.value = v
      BY <2>2, TypedFields
    <2> QED
      BY <1>0, <2>1, <2>2, <2>3 DEF ValuesInv
  <1>5. ASSUME NEW f \in FfiTypes, script_write(f)
        PROVE  ValuesInv'
    <2>1. /\ step = "script" /\ step' = "stored" /\ build' = build /\ native' = native /\ sq' = sq
          /\ sq = SeenObject(build, native.type, native.value)
      BY <1>5 DEF ValuesInv, script_write
    <2>2. PICK v \in to_value(build, CTypeOf(f), get(build, sq)) :
            arg' = Typed(CTypeOf(f), v) /\ mem' = [type |-> f, bytes |-> script_var_to_ptr(build, f, v)]
      BY <1>5 DEF script_write
    <2>3. arg'.type = CTypeOf(f) /\ arg'.value = v /\ mem'.type = f /\ mem'.bytes = script_var_to_ptr(build, f, v)
      BY <2>2, TypedFields
    <2>4. ArgFits(build, CTypeOf(f), v)
      <3>1. GoodObject(sq)
        BY <1>0, <2>1, SeenIsGood
      <3> QED
        BY <1>0, <2>2, <3>1, FfiAreCTypes, TakenFits
    <2>5. StoredFits'
      BY <2>1, <2>3, <2>4 DEF StoredFits
    <2> QED
      BY <1>0, <2>1, <2>5 DEF ValuesInv
  <1>6. CASE script_read
    <2>1. step = "stored" /\ StoredFits /\ UNCHANGED <<build, native, sq, arg, mem>> /\ step' \in {"crashed", "loaded"}
      BY <1>6 DEF ValuesInv, script_read
    <2>2. StoredFits'
      BY <2>1 DEF StoredFits
    <2>3. step' = "crashed" => mem.type = "ent_ptr" /\ mem.bytes # IdentityOf("entity")
      BY <1>6 DEF script_read
    <2>4. step' = "loaded" => /\ var' = ptr_to_script_var(build, mem.type, mem.bytes)
                              /\ mem.type = "ent_ptr" => mem.bytes = IdentityOf("entity")
      BY <1>6 DEF script_read
    <2> QED
      BY <1>0, <2>1, <2>2, <2>3, <2>4 DEF ValuesInv
  <1>7. CASE UNCHANGED valuevars
    BY <1>7 DEF ValuesInv, valuevars, StoredFits
  <1>8. Push => step \in {"returned", "loaded"}
    BY DEF Push
  <1> QED
    BY <1>1, <1>2, <1>3, <1>4, <1>5, <1>6, <1>7, <1>8 DEF ValuesNext

LEMMA ValuesHold ==
  ASSUME ValuesInv
  PROVE  ScriptSeesTheValue /\ RoundTrip /\ ReadBackFromMemory /\ ArgumentsConvert
  <1>0. build \in Builds /\ NativeFits(build, native.type, native.value)
    BY DEF ValuesInv
  <1>1. ScriptSeesTheValue
    <2>1. SUFFICES ASSUME step = "script" PROVE ScriptSeesTheValue
      BY DEF ScriptSeesTheValue
    <2>2. sq = SeenObject(build, native.type, native.value)
      BY <2>1 DEF ValuesInv
    <2>3. PICK t : t = native.type
      OBVIOUS
    <2>4. t \in CTypes
      BY <1>0, <2>3 DEF NativeFits
    <2>5. CASE t \in Integrals \ {"char"}
      BY <2>2, <2>3, <2>5 DEF ScriptSeesTheValue, SeenObject, Floats, Integrals, Signeds, Unsigneds
    <2>6. CASE t = "char"
      BY <2>2, <2>3, <2>6 DEF ScriptSeesTheValue, SeenObject, Floats, Integrals, Signeds, Unsigneds
    <2>7. CASE t \notin Integrals
      BY <2>2, <2>3, <2>7 DEF ScriptSeesTheValue, SeenObject, Floats, Integrals, Signeds
    <2> QED
      BY <2>5, <2>6, <2>7
  <1>2. RoundTrip
    <2>1. step = "script" => sq.kind \in {"null"} \cup typemask_for_type(FieldOf(build, native.type))
      BY <1>0, SeenIsAdmitted DEF ValuesInv
    <2>2. ASSUME step = "passed", arg.type = native.type
          PROVE  \/ arg.value = native.value
                 \/ native.type = "char"
                 \/ /\ native.type \in {"long", "longlong", "ulong", "ulonglong"}
                    /\ ~InRange(build, "int", native.value)
                 \/ native.type = "mfp" /\ AdjustorOf(build, native.value) # 0
      <3>1. arg.value \in to_value(build, native.type, get(build, SeenObject(build, native.type, native.value)))
        BY <2>2 DEF ValuesInv
      <3> QED
        BY <1>0, <3>1, TakenReturns
    <2> QED
      BY <2>1, <2>2 DEF RoundTrip
  <1>3. ReadBackFromMemory
    <2>1. ASSUME step = "seen"
          PROVE  SeenInMemory(build, mem.type, arg.type, arg.value, sq)
      <3>1. /\ StoredFits /\ (mem.type = "ent_ptr" => mem.bytes = IdentityOf("entity"))
            /\ sq = push(build, ptr_to_script_var(build, mem.type, mem.bytes))
        BY <2>1 DEF ValuesInv
      <3> QED
        BY <1>0, <3>1, MemoryIsSeen DEF StoredFits
    <2>2. ASSUME step = "crashed"
          PROVE  arg.type = "entity" /\ arg.value # IdentityOf("entity")
      <3>1. StoredFits /\ mem.type = "ent_ptr" /\ mem.bytes # IdentityOf("entity")
        BY <2>2 DEF ValuesInv
      <3> QED
        BY <3>1, FfiAreCTypes DEF StoredFits, script_var_to_ptr, Integrals, Signeds, Unsigneds
    <2> QED
      BY <2>1, <2>2 DEF ReadBackFromMemory, SeenInMemory
  <1>4. ArgumentsConvert
    <2>1. ASSUME step = "passed"
          PROVE  Converted(build, sq, arg.type, arg.value)
      <3>1. /\ sq = SeenObject(build, native.type, native.value)
            /\ arg.type \in CTypes /\ arg.value \in to_value(build, arg.type, get(build, sq))
        BY <2>1 DEF ValuesInv
      <3>2. GoodObject(sq)
        BY <1>0, <3>1, SeenIsGood
      <3> QED
        BY <1>0, <3>1, <3>2, TakenIsConverted
    <2> QED
      BY <2>1 DEF ArgumentsConvert, Converted
  <1> QED
    BY <1>1, <1>2, <1>3, <1>4

LEMMA ValuesAlways == MCSpec => []ValuesInv
  <1>1. MCInit => ValuesInv
    BY ValuesStart, Zenon DEF MCInit
  <1>2. ValuesInv /\ [MCNext]_<<part, valuevars, cvars, xvars, mvars, hvars>> => ValuesInv'
    <2>1. [MCNext]_<<part, valuevars, cvars, xvars, mvars, hvars>> => [ValuesNext]_valuevars
      BY Zenon DEF MCNext
    <2> QED
      BY <2>1, ValuesKeep, Zenon
  <1> QED
    BY <1>1, <1>2, PTL DEF MCSpec

\* A value comes to a script, back from it, and back from memory as what it was, with the
\* exceptions that ScriptSeesTheValue, RoundTrip and ReadBackFromMemory name, for any widths of the
\* types: to_variant and to_value of variant.tpp against push and get of vm.cpp and the
\* reads and writes of ffi.cpp.
THEOREM ValuesThrough == MCSpec => []ValuesComeThrough
  <1>1. ValuesInv => ValuesComeThrough
    BY ValuesHold, Zenon DEF ValuesComeThrough
  <1> QED
    BY <1>1, ValuesAlways, PTL

\* An argument that a function gets is the one that was passed, converted as its type
\* says, and none is left out: to_value and the counts of Calls.
THEOREM Arrive == MCSpec => []ArgumentsArrive
  <1>1. ValuesInv => ArgumentsConvert
    BY ValuesHold, Zenon
  <1>2. ArgumentsArrive <=> ArgumentsConvert /\ C!CalledWithAll /\ C!OptionalIsRefused
    BY Zenon DEF ArgumentsArrive
  <1> QED
    BY <1>1, <1>2, ValuesAlways, CallsComplete, PTL
=============================================================================
