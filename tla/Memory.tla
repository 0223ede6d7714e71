------------------------------- MODULE Memory --------------------------------
(***************************************************************************)
(* The objects that a plugin's script creates and that hold memory or call *)
(* native code: mem::container (bindings/mem), the blocks of memory behind *)
(* it, and ffi::caller (bindings/ffi/cif.cpp). A script deletes them, the  *)
(* destruction of the plugin deletes those that are left, and both run     *)
(* script functions in the middle, which can delete and create others.     *)
(***************************************************************************)
EXTENDS Integers, Sequences, FiniteSets

CONSTANTS Containers, Callers,   \* bound: the objects that may be created
          MaxDepth               \* bound: destructors and calls within each other

Objects == Containers \cup Callers

VARIABLES life,     \* none, alive or deleted
          block,    \* the memory of a container: none, held, given to the script, freed
          hook,     \* free_callback of a container
          func,     \* of a caller: target_ptr or target_idx is set, virt, its number of arguments
          reached,  \* the instance_ is registered: scripts reach the object
          owned,    \* owned_instances of the plugin
          stack,    \* the destructors, calls and unloading that wait for a script function
          called,   \* the containers whose callback was called
          early,    \* the objects deleted while a frame or the list still had them
          broken    \* what was read, written or deleted after it was deleted

vars == <<life, block, hook, func, reached, owned, stack, called, early, broken>>

NoFunc == [set |-> FALSE, virt |-> FALSE, params |-> 0]

Init ==
  /\ life = [o \in Objects |-> "none"]
  /\ block = [c \in Containers |-> "none"] /\ hook = [c \in Containers |-> FALSE]
  /\ func = [f \in Callers |-> NoFunc]
  /\ reached = {} /\ owned = <<>> /\ stack = <<>> /\ called = {} /\ early = {} /\ broken = {}

Frame(kind, o, n) == [kind |-> kind, obj |-> o, next |-> n]
Top == stack[Len(stack)]
Below == SubSeq(stack, 1, Len(stack) - 1)
InStack(kind, o) == \E k \in DOMAIN stack : stack[k].kind = kind /\ stack[k].obj = o
Unloading == \E k \in DOMAIN stack : stack[k].kind = "unload"

\* A script runs when nothing waits for it to end, or as the function that a
\* destructor or a native function called; while the destruction of the plugin
\* goes through its list, only in a callback.
ScriptRuns == stack # <<>> => Top.kind # "unload"

\* The methods of an object, for an instance that is registered.
Method(o) == ScriptRuns /\ o \in reached /\ life[o] = "alive"

-----------------------------------------------------------------------------
(* Creation.                                                               *)

\* owned_instance::register_instance and set_plugin: the plugin that is assumed
\* to be running owns the object. A list that grows in the middle of
\* clear_instances may move away from under it.
Register(o, owner) ==
  /\ reached' = reached \cup {o}
  /\ owned' = IF owner THEN Append(owned, o) ELSE owned
  /\ broken' = IF owner /\ Unloading THEN broken \cup {"list"} ELSE broken

\* script_allocate, script_allocate_ent, script_allocate_aligned,
\* script_allocate_type and script_allocate_zero: a container, with its block
\* unless the allocator had none to give. When it cannot be registered it is
\* deleted, with its block, before a script has seen it.
script_allocate(c, owner, registers, allocated) ==
  /\ ScriptRuns /\ life[c] = "none"
  /\ IF registers
     THEN /\ life' = [life EXCEPT ![c] = "alive"]
          /\ block' = [block EXCEPT ![c] = IF allocated THEN "held" ELSE "none"]
          /\ Register(c, owner)
     ELSE /\ life' = [life EXCEPT ![c] = "deleted"]
          /\ block' = [block EXCEPT ![c] = IF allocated THEN "freed" ELSE "none"]
          /\ UNCHANGED <<reached, owned, broken>>
  /\ UNCHANGED <<hook, func, stack, called, early>>

\* script_create_static_cif and script_create_member_cif, caller::initialize.
script_create_cif(f, owner, registers, params) ==
  /\ ScriptRuns /\ life[f] = "none"
  /\ IF registers
     THEN life' = [life EXCEPT ![f] = "alive"] /\ Register(f, owner)
     ELSE life' = [life EXCEPT ![f] = "deleted"] /\ UNCHANGED <<reached, owned, broken>>
  /\ func' = [func EXCEPT ![f] = [NoFunc EXCEPT !.params = params]]
  /\ UNCHANGED <<block, hook, stack, called, early>>

-----------------------------------------------------------------------------
(* Destruction.                                                            *)

\* What waits will come back to the object.
InUse(o, frames) ==
  \E k \in DOMAIN frames :
    \/ frames[k].obj = o
    \/ frames[k].kind = "unload" /\ \E j \in frames[k].next .. Len(owned) : owned[j] = o

\* The end of ~container: the block is freed by the allocator it came from.
FreeBlock(o, frames) ==
  /\ block' = IF o \in Containers /\ block[o] = "held" THEN [block EXCEPT ![o] = "freed"] ELSE block
  /\ life' = [life EXCEPT ![o] = "deleted"]
  /\ hook' = IF o \in Containers THEN [hook EXCEPT ![o] = FALSE] ELSE hook
  /\ early' = IF InUse(o, frames) THEN early \cup {o} ELSE early

\* ~container until it calls free_callback: only a container that has its block does.
CallsBack(o) == o \in Containers /\ hook[o] /\ block[o] = "held"

\* ~owned_instance: out of the list, unless the list is being gone through.
Erase(k) == SubSeq(owned, 1, k - 1) \o SubSeq(owned, k + 1, Len(owned))
Forget(o) ==
  IF Unloading \/ \A k \in DOMAIN owned : owned[k] # o
  THEN owned
  ELSE Erase(CHOOSE k \in DOMAIN owned : owned[k] = o)

\* delete this. A second delete of the object ends here, as broken.
Delete(o, frames) ==
  IF life[o] = "deleted"
  THEN /\ broken' = broken \cup {o} /\ stack' = frames
       /\ UNCHANGED <<life, block, hook, owned, called, early>>
  ELSE /\ UNCHANGED broken
       /\ IF CallsBack(o)
          THEN /\ Len(stack) < MaxDepth
               /\ stack' = Append(frames, Frame("destructor", o, 0))
               /\ called' = called \cup {o}
               /\ UNCHANGED <<life, block, hook, owned, early>>
          ELSE /\ FreeBlock(o, frames) /\ stack' = frames
               /\ owned' = Forget(o)
               /\ UNCHANGED called

\* script_free of the object, and the release hook of its instance.
script_free(o) ==
  /\ Method(o)
  /\ Delete(o, stack)
  /\ reached' = IF CallsBack(o) THEN reached ELSE reached \ {o}
  /\ UNCHANGED func

\* ~container goes on when the callback is back. If the callback deleted the
\* object, free_callback, type and ptr are read from freed memory, and the
\* object is deleted again.
CallbackReturns ==
  /\ stack # <<>> /\ Top.kind = "destructor"
  /\ LET c == Top.obj
     IN  IF life[c] = "deleted"
         THEN /\ broken' = broken \cup {c} /\ UNCHANGED <<life, block, hook, owned, early>>
         ELSE /\ FreeBlock(c, Below) /\ UNCHANGED broken
              /\ owned' = Forget(c)
  /\ reached' = reached \ {Top.obj}
  /\ stack' = Below
  /\ UNCHANGED <<func, called>>

\* script_release keeps the block from the destructor.
MutantReleased(c) == IF block[c] = "held" THEN [block EXCEPT ![c] = "freed"] ELSE block
Released(c) == IF block[c] = "held" THEN [block EXCEPT ![c] = "given"] ELSE block

\* script_release: the script gets the block, and the container is deleted without a callback.
script_release(c) ==
  /\ Method(c)
  /\ block' = Released(c)
  /\ life' = [life EXCEPT ![c] = "deleted"]
  /\ hook' = [hook EXCEPT ![c] = FALSE]
  /\ owned' = Forget(c) /\ reached' = reached \ {c}
  /\ early' = IF InUse(c, stack) THEN early \cup {c} ELSE early
  /\ UNCHANGED <<func, stack, called, broken>>

\* script_set_free_callback
script_set_free_callback(c) ==
  /\ Method(c)
  /\ hook' = [hook EXCEPT ![c] = TRUE]
  /\ UNCHANGED <<life, block, func, reached, owned, stack, called, early, broken>>

-----------------------------------------------------------------------------
(* Calls through libffi.                                                   *)

\* script_set_func, script_set_mfp and script_set_vidx, which share a union.
script_set_func(f, virt) ==
  /\ Method(f)
  /\ func' = [func EXCEPT ![f].set = TRUE, ![f].virt = virt]
  /\ UNCHANGED <<life, block, hook, reached, owned, stack, called, early, broken>>

\* The checks of script_call. The machine gives no array at all for no
\* arguments, which is refused as the wrong number even when it is the right one.
CallAdmits(f, num_args) ==
  num_args # 0 /\ func[f].set /\ num_args = func[f].params

\* script_call up to ffi_call: the function that is called can run scripts.
script_call(f, num_args) ==
  /\ Method(f) /\ Len(stack) < MaxDepth
  /\ CallAdmits(f, num_args)
  /\ stack' = Append(stack, Frame("call", f, num_args))
  /\ UNCHANGED <<life, block, hook, func, reached, owned, called, early, broken>>

\* ffi_call writes the result to ret_storage, and script_call reads it from there.
CallReturns ==
  /\ stack # <<>> /\ Top.kind = "call"
  /\ broken' = IF life[Top.obj] = "deleted" THEN broken \cup {Top.obj} ELSE broken
  /\ stack' = Below
  /\ UNCHANGED <<life, block, hook, func, reached, owned, called, early>>

-----------------------------------------------------------------------------
(* The plugin is destroyed.                                                *)

\* plugin::unload, the loop over owned_instances, with clearing_instances set.
unload ==
  /\ ScriptRuns /\ ~Unloading /\ Len(stack) < MaxDepth /\ owned # <<>>
  /\ stack' = Append(stack, Frame("unload", "plugin", 1))
  /\ UNCHANGED <<life, block, hook, func, reached, owned, called, early, broken>>

\* owned_instance::plugin_unloaded of the next: the instance is removed before
\* the object is deleted, so that a callback gets no instance.
plugin_unloaded ==
  /\ stack # <<>> /\ Top.kind = "unload" /\ Top.next <= Len(owned)
  /\ reached' = reached \ {owned[Top.next]}
  /\ Delete(owned[Top.next], Append(Below, Frame("unload", "plugin", Top.next + 1)))
  /\ UNCHANGED func

\* The list is cleared after the last.
unloaded ==
  /\ stack # <<>> /\ Top.kind = "unload" /\ Top.next > Len(owned)
  /\ stack' = Below /\ owned' = <<>>
  /\ UNCHANGED <<life, block, hook, func, reached, called, early, broken>>

-----------------------------------------------------------------------------
ContainerMethods(c) ==
  \/ \E owner, registers, allocated \in BOOLEAN : script_allocate(c, owner, registers, allocated)
  \/ script_release(c) \/ script_set_free_callback(c)

CallerMethods(f) ==
  \/ \E owner, registers \in BOOLEAN, n \in 0 .. 1 : script_create_cif(f, owner, registers, n)
  \/ \E virt \in BOOLEAN : script_set_func(f, virt)
  \/ \E n \in 0 .. 1 : script_call(f, n)

Next ==
  \/ \E c \in Containers : ContainerMethods(c)
  \/ \E f \in Callers : CallerMethods(f)
  \/ \E o \in Objects : script_free(o)
  \/ CallbackReturns \/ CallReturns \/ unload \/ plugin_unloaded \/ unloaded

Spec == Init /\ [][Next]_vars

-----------------------------------------------------------------------------
(* Properties.                                                             *)

\* A deleted object is used again exactly when it was deleted too early: by its
\* own callback, by what its own call called, or by the callback of another
\* object while the plugin that owns both is destroyed (~container, script_call
\* and the loop of plugin::unload go on with what they had before a script
\* ran). The list of the plugin moves only when a callback creates an object.
DeadUsedIfDeletedEarly ==
  /\ broken \ {"list"} \subseteq early
  /\ stack = <<>> => early \subseteq broken
  /\ early # {} => called # {} \/ Callers \cap early # {}

\* A block that was given to the script is never freed by its container, and one
\* that a container frees was first shown to the callback, which is called a
\* second time only for a container that the callback itself deletes.
BlocksShownThenFreed ==
  [][\A c \in Containers :
       /\ block[c] = "given" => block'[c] = "given"
       /\ block[c] = "held" /\ block'[c] = "freed" /\ hook[c] => c \in called
       /\ life[c] # "none" /\ life'[c] = "deleted" /\ life[c] # "deleted" =>
            block'[c] # "held"
       /\ (stack' # stack /\ Len(stack') > Len(stack) /\ stack'[Len(stack')] = Frame("destructor", c, 0)) =>
            c \notin called \/ InStack("destructor", c)]_vars
=============================================================================
