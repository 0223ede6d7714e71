------------------------------- MODULE Detour -------------------------------
(***************************************************************************)
(* Detours of game functions, and the script callbacks they call.          *)
(*                                                                         *)
(* A detour overwrites the first bytes of its function with a jump to its  *)
(* closure while some callback is hooked, and restores the bytes it saved  *)
(* when it was created.  The closure calls the callbacks of the pre list,  *)
(* the function itself with the bytes restored, and the post list.         *)
(* Everything happens on one thread, but the calls nest: a callback hooks, *)
(* frees, releases and calls other hooked functions, and so may whatever   *)
(* runs while the function itself does.                                    *)
(*                                                                         *)
(* Functions of plugins do not nest here (PluginScopes is about that), and *)
(* addresses are not reused: a deleted detour stays deleted.               *)
(***************************************************************************)
EXTENDS Naturals, Sequences, FiniteSets

CONSTANTS Targets,    \* functions of the game
          Detours,    \* detour objects that may be created
          Key,        \* Key[d]: the function of d, and the map that d is kept in
          Callbacks,  \* callback instances that may be created
          Plugins, None,
          MaxDepth    \* bound on the nesting of calls

ASSUME ConstAssumption ==
  /\ Key \in [Detours -> Targets \X {"static", "member"}]
  /\ None \notin Targets \cup Detours \cup Callbacks \cup Plugins
  /\ MaxDepth \in Nat

VARIABLES
  code,     \* first bytes of a function: None when original, or a jump to d
  det,      \* det[d]: a detour
  cb,       \* cb[c]: a callback_instance
  stack,    \* functions of plugins and calls of detours, the innermost last
  sargs,    \* the call that filled the static argument vector, a place in stack
  \* history, read by the properties only:
  overlap,  \* functions of which a detour saved or overwrote the jump of another
  stirred,  \* detours called by script, or put to sleep during a call
  touched   \* deleted objects that were read or written

vars == <<code, det, cb, stack, sargs, overlap, stirred, touched>>

Target(d) == Key[d][1]
Live(d) == det[d].st = "live"
Hooked(d, post) == {c \in Callbacks : cb[c].st = "live" /\ cb[c].det = d /\ cb[c].post = post}
Empty(d) == Hooked(d, FALSE) \cup Hooked(d, TRUE) = {}

NoCallback == [st |-> "none", det |-> None, post |-> FALSE, enabled |-> FALSE, owner |-> None]
NoFrame == [kind |-> "plugin", of |-> None, phase |-> "script", todo |-> {}, cur |-> None,
            due |-> {}, called |-> {}, grown |-> FALSE, flags |-> {},
            nested |-> FALSE, foreign |-> FALSE]
Top == stack[Len(stack)]
SetTop(f) == [stack EXCEPT ![Len(stack)] = f]
Pop == SubSeq(stack, 1, Len(stack) - 1)
InScript == stack # <<>> /\ (Top.kind = "plugin" \/ Top.cur # None)
InGame == stack # <<>> => Top.phase = "original"

\* Frames with a scope_enable of d: its function runs unhooked.
Scoped(d) == {k \in 1..Len(stack) : stack[k].of = d /\ stack[k].phase \in {"jump", "original"}}
\* Frames that walk a list of d.
Walking(d, post) ==
  {k \in 1..Len(stack) : /\ stack[k].of = d /\ stack[k].cur # None
                         /\ stack[k].phase = (IF post THEN "post" ELSE "pre")}
Running ==
  LET ps == {k \in 1..Len(stack) : stack[k].kind = "plugin"}
  IN IF ps = {} THEN None ELSE stack[CHOOSE k \in ps : TRUE].of

Init ==
  /\ code = [t \in Targets |-> None]
  /\ det = [d \in Detours |-> [st |-> "none", enabled |-> FALSE, old_bytes |-> None, owners |-> {}]]
  /\ cb = [c \in Callbacks |-> NoCallback]
  /\ stack = <<>> /\ sargs = 0
  /\ overlap = {} /\ stirred = {} /\ touched = {}

-----------------------------------------------------------------------------
(* The bytes of the function *)

Enable(d) ==
  /\ det' = [det EXCEPT ![d].enabled = TRUE]
  /\ code' = IF det[d].enabled THEN code ELSE [code EXCEPT ![Target(d)] = d]
  /\ overlap' = overlap \cup {t \in {Target(d)} : ~det[d].enabled /\ code[t] # None}
\* Mutant: the saved bytes are never written back.
MutantRestored(d) == code
Restored(d) ==
  IF det[d].enabled THEN [code EXCEPT ![Target(d)] = det[d].old_bytes] ELSE code
\* Mutant: only the flag is cleared.
MutantDisable(d) ==
  /\ det' = [det EXCEPT ![d].enabled = FALSE]
  /\ UNCHANGED code
Disable(d) ==
  /\ det' = [det EXCEPT ![d].enabled = FALSE]
  /\ code' = Restored(d)

\* Phase of a call of the function of d from a scope_enable: with the bytes of
\* another detour in place of its own, the call jumps there.
CallPhase(d) == IF Restored(d)[Target(d)] = None THEN "original" ELSE "jump"

-----------------------------------------------------------------------------
(* What a script does *)

EnterPlugin(p) ==
  /\ InGame /\ Running = None /\ Len(stack) < MaxDepth
  /\ stack' = Append(stack, [NoFrame EXCEPT !.of = p])
  /\ UNCHANGED <<code, det, cb, sargs, overlap, stirred, touched>>
LeavePlugin ==
  /\ stack # <<>> /\ Top.kind = "plugin"
  /\ stack' = Pop
  /\ UNCHANGED <<code, det, cb, sargs, overlap, stirred, touched>>

\* create_detour: a function has one detour in each map.
Create(d) ==
  /\ InScript
  /\ \A e \in Detours : Key[e] = Key[d] /\ e # d => ~Live(e)
  /\ \/ /\ det[d].st = "none"
        /\ det' = [det EXCEPT ![d] = [st |-> "live", enabled |-> FALSE,
                                      old_bytes |-> code[Target(d)],
                                      owners |-> {Running} \ {None}]]
        /\ overlap' = overlap \cup {t \in {Target(d)} : code[t] # None}
     \/ /\ Live(d)
        /\ det' = [det EXCEPT ![d].owners = @ \cup ({Running} \ {None})]
        /\ UNCHANGED overlap
  /\ UNCHANGED <<code, cb, stack, sargs, stirred, touched>>

\* script_hook.  A list that grows while it is walked may be rehashed: what
\* is left of the walk is then any part of the list.
Hook(d, c, post) ==
  /\ InScript /\ Live(d) /\ cb[c].st = "none"
  /\ cb' = [cb EXCEPT ![c] = [st |-> "live", det |-> d, post |-> post,
                              enabled |-> TRUE, owner |-> Running]]
  /\ IF Hooked(d, post) = {} THEN Enable(d) ELSE UNCHANGED <<det, code, overlap>>
  /\ \E left \in [Walking(d, post) -> SUBSET (Hooked(d, post) \cup {c})] :
       stack' = [k \in DOMAIN stack |->
                   IF k \in Walking(d, post)
                   THEN [stack[k] EXCEPT !.todo = left[k], !.grown = TRUE] ELSE stack[k]]
  /\ UNCHANGED <<sargs, stirred, touched>>

\* script_toggle, script_enable and script_disable of the callback.
Toggle(c) ==
  /\ InScript /\ cb[c].st = "live"
  /\ cb' = [cb EXCEPT ![c].enabled = ~@]
  /\ UNCHANGED <<code, det, stack, sargs, overlap, stirred, touched>>

\* ~callback_instance of the callbacks in cs.
Erase(cs) ==
  /\ cb' = [c \in Callbacks |-> IF c \in cs THEN [NoCallback EXCEPT !.st = "freed"] ELSE cb[c]]
  /\ stack' = [k \in DOMAIN stack |-> [stack[k] EXCEPT !.todo = @ \ cs]]
Sleepers(cs) == {d \in {cb[c].det : c \in cs} : Hooked(d, FALSE) \cup Hooked(d, TRUE) \subseteq cs}
\* Of the detours of one function that go to sleep, any may be the last to write
\* back its bytes.
Sleep(ds) ==
  /\ det' = [d \in Detours |-> IF d \in ds THEN [det[d] EXCEPT !.enabled = FALSE] ELSE det[d]]
  /\ \E last \in [Targets -> ds \cup {None}] :
       /\ \A t \in Targets :
            LET armed == {d \in ds : det[d].enabled /\ Target(d) = t}
            IN last[t] \in IF armed = {} THEN {None} ELSE armed
       /\ code' = [t \in Targets |-> IF last[t] = None THEN code[t] ELSE det[last[t]].old_bytes]
  /\ stirred' = {d \in stirred : d \notin ds} \cup {d \in ds : Scoped(d) # {}}

\* free() of a callback.
FreeCallback(c) ==
  /\ InScript /\ cb[c].st = "live"
  /\ Erase({c}) /\ Sleep(Sleepers({c}))
  /\ UNCHANGED <<sargs, overlap, touched>>

\* plugin::unload frees what the plugin owns; it has no list of its detours.
Unload(p) ==
  /\ (~InGame => InScript) /\ Running # p
  /\ LET cs == {c \in Callbacks : cb[c].st = "live" /\ cb[c].owner = p}
     IN cs # {} /\ Erase(cs) /\ Sleep(Sleepers(cs))
  /\ UNCHANGED <<sargs, overlap, touched>>

\* release() of a detour: remove_plugin, and delete when it was the last one.
Release(d) ==
  /\ InScript /\ Live(d) /\ Running # None
  /\ LET owners == det[d].owners \ {Running}
         cs == Hooked(d, FALSE) \cup Hooked(d, TRUE)
     IN IF owners # {}
        THEN /\ det' = [det EXCEPT ![d].owners = owners]
             /\ UNCHANGED <<code, cb, stack>>
        ELSE /\ det' = [det EXCEPT ![d] = [st |-> "dead", enabled |-> FALSE,
                                           old_bytes |-> None, owners |-> {}]]
             /\ code' = Restored(d)
             /\ Erase(cs)
  /\ UNCHANGED <<sargs, overlap, stirred, touched>>

\* script_call: the function itself, called by a script.
ScriptCall(d) ==
  /\ InScript /\ Live(d) /\ Len(stack) < MaxDepth
  /\ stack' = Append(stack, [NoFrame EXCEPT !.kind = "direct", !.of = d, !.phase = CallPhase(d)])
  /\ Disable(d)
  /\ stirred' = stirred \cup {d}
  /\ UNCHANGED <<cb, sargs, overlap, touched>>
ScriptCallReturns ==
  /\ stack # <<>> /\ Top.kind = "direct" /\ Top.phase = "original"
  /\ IF Live(Top.of)
     THEN Enable(Top.of) /\ stack' = Pop /\ UNCHANGED touched
     ELSE touched' = touched \cup {Top.of} /\ UNCHANGED <<det, code, stack, overlap>>
  /\ UNCHANGED <<cb, sargs, stirred>>

-----------------------------------------------------------------------------
(* closure_binding *)

Walk(f, phase) == [f EXCEPT !.phase = phase, !.todo = Hooked(f.of, phase = "post"),
                            !.due = Hooked(f.of, phase = "post"), !.called = {}, !.grown = FALSE]
Idle(f, phase) == [f EXCEPT !.phase = phase, !.due = {}, !.called = {}, !.grown = FALSE]
Fill == sargs' = Len(stack) + 1

\* The game or a script calls a function that jumps to the closure of d.
Invoke(t) ==
  /\ \/ InScript \/ InGame
     \/ stack # <<>> /\ Top.phase = "jump" /\ Target(Top.of) = t
  /\ code[t] # None /\ Len(stack) < MaxDepth
  /\ IF Live(code[t])
     THEN /\ LET below == [k \in DOMAIN stack |->
                   [stack[k] EXCEPT !.nested = TRUE,
                      !.phase = IF @ = "jump" /\ k = Len(stack) THEN "original" ELSE @]]
             IN stack' = Append(below, Walk([NoFrame EXCEPT !.kind = "hook", !.of = code[t]], "pre"))
          /\ Fill /\ UNCHANGED touched
     ELSE touched' = touched \cup {code[t]} /\ UNCHANGED <<stack, sargs>>
  /\ UNCHANGED <<code, det, cb, overlap, stirred>>

WalkingTop == stack # <<>> /\ Top.kind = "hook" /\ Top.phase \in {"pre", "post"}

\* Mutant: a disabled callback ends the walk.
MutantCallNext(c) ==
  /\ WalkingTop /\ Top.cur = None /\ c \in Top.todo
  /\ stack' = SetTop([Top EXCEPT !.todo = IF cb[c].enabled THEN @ \ {c} ELSE {},
                                 !.called = @ \cup {c},
                                 !.cur = IF cb[c].enabled THEN c ELSE None])
  /\ UNCHANGED <<code, det, cb, sargs, overlap, stirred, touched>>
\* callable::call: the next callback of the walk.
CallNext(c) ==
  /\ WalkingTop /\ Top.cur = None /\ c \in Top.todo
  /\ stack' = SetTop([Top EXCEPT !.todo = @ \ {c}, !.called = @ \cup {c},
                                 !.cur = IF cb[c].enabled THEN c ELSE None])
  /\ UNCHANGED <<code, det, cb, sargs, overlap, stirred, touched>>

\* The walk goes on from the callback that returns, unless it halts the walk.
CallbackReturns(flags) ==
  /\ WalkingTop /\ Top.cur # None
  /\ IF cb[Top.cur].st = "live"
     THEN /\ \E on \in BOOLEAN :
               stack' = SetTop([Top EXCEPT !.cur = None, !.flags = @ \cup flags,
                                           !.todo = IF on THEN @ ELSE {},
                                           !.due = IF on THEN @ ELSE {}])
          /\ UNCHANGED touched
     ELSE touched' = touched \cup {Top.cur} /\ UNCHANGED stack
  /\ UNCHANGED <<code, det, cb, sargs, overlap, stirred>>

Walked == WalkingTop /\ Top.cur = None /\ Top.todo = {}
Foreign == sargs # Len(stack)

\* The arguments go back to the call if a callback changed them, and the
\* function is called, unless one handled it.
CallOriginal ==
  /\ Walked /\ Top.phase = "pre" /\ "handled" \notin Top.flags
  /\ stack' = SetTop(Idle([Top EXCEPT !.foreign = Foreign /\ "changed" \in Top.flags, !.flags = {}],
                        CallPhase(Top.of)))
  /\ Disable(Top.of)
  /\ UNCHANGED <<cb, sargs, overlap, stirred, touched>>
SkipOriginal ==
  /\ Walked /\ Top.phase = "pre" /\ "handled" \in Top.flags
  /\ stack' = SetTop(Walk([Top EXCEPT !.foreign = Foreign, !.flags = {}], "post"))
  /\ UNCHANGED <<code, det, cb, sargs, overlap, stirred, touched>>
OriginalReturns ==
  /\ stack # <<>> /\ Top.kind = "hook" /\ Top.phase = "original"
  /\ IF Live(Top.of)
     THEN /\ Enable(Top.of) /\ UNCHANGED touched
          /\ stack' = SetTop(Walk([Top EXCEPT !.foreign = @ \/ Foreign], "post"))
     ELSE touched' = touched \cup {Top.of} /\ UNCHANGED <<det, code, stack, overlap>>
  /\ UNCHANGED <<cb, sargs, stirred>>
Return ==
  /\ Walked /\ Top.phase = "post"
  /\ stack' = Pop
  /\ UNCHANGED <<code, det, cb, sargs, overlap, stirred, touched>>

\* What follows the use of a deleted object is undefined.
Next ==
  /\ touched = {}
  /\ \/ \E p \in Plugins : EnterPlugin(p) \/ Unload(p)
     \/ LeavePlugin
     \/ \E d \in Detours : Create(d) \/ Release(d) \/ ScriptCall(d)
     \/ \E d \in Detours, c \in Callbacks, post \in BOOLEAN : Hook(d, c, post)
     \/ \E c \in Callbacks : Toggle(c) \/ FreeCallback(c) \/ CallNext(c)
     \/ \E t \in Targets : Invoke(t)
     \/ \E flags \in SUBSET {"changed", "handled"} : CallbackReturns(flags)
     \/ ScriptCallReturns \/ CallOriginal \/ SkipOriginal \/ OriginalReturns \/ Return

Spec == Init /\ [][Next]_vars

-----------------------------------------------------------------------------
(* Properties *)

Phases == {"script", "pre", "jump", "original", "post"}
Frames ==
  [kind : {"plugin", "direct", "hook"}, of : Plugins \cup Detours, phase : Phases,
   todo : SUBSET Callbacks, cur : Callbacks \cup {None}, due : SUBSET Callbacks,
   called : SUBSET Callbacks, grown : BOOLEAN, flags : SUBSET {"changed", "handled"},
   nested : BOOLEAN, foreign : BOOLEAN]
TypeOK ==
  /\ code \in [Targets -> Detours \cup {None}]
  /\ det \in [Detours -> [st : {"none", "live", "dead"}, enabled : BOOLEAN,
                          old_bytes : Detours \cup {None}, owners : SUBSET Plugins]]
  /\ cb \in [Callbacks -> [st : {"none", "live", "freed"}, det : Detours \cup {None},
                           post : BOOLEAN, enabled : BOOLEAN, owner : Plugins \cup {None}]]
  /\ stack \in Seq(Frames) /\ Len(stack) <= MaxDepth
  /\ sargs \in 0..MaxDepth
  /\ overlap \subseteq Targets /\ stirred \subseteq Detours
  /\ touched \subseteq Detours \cup Callbacks

\* A detour with a callback is enabled whenever its function is not being
\* called through it, and its jump is then in place: no order of hooking and
\* freeing loses a hook.  (Two detours of one function can lose one: overlap.)
\* One without is enabled only after a script called its function through it, or
\* its last callback was freed while the function was being called:
\* scope_enable enables whatever it found.
HookedIsArmed ==
  \A d \in Detours :
    Live(d) =>
      IF Empty(d) THEN det[d].enabled => d \in stirred
      ELSE Scoped(d) = {} =>
             det[d].enabled /\ (Target(d) \notin overlap => code[Target(d)] = d)

\* The bytes of a function are those the flags of its detours say, and no jump
\* to a deleted detour is left behind, as long as no detour was created while
\* another was enabled on the same function: backup_bytes then saves the jump.
CodeAgrees ==
  \A t \in Targets \ overlap :
    \/ code[t] = None /\ \A d \in Detours : Target(d) = t => ~det[d].enabled
    \/ \E d \in Detours : Target(d) = t /\ Live(d) /\ det[d].enabled /\ code[t] = d

\* A callback that is in the list from the start of a walk to its end is called
\* or skipped exactly once, whatever other callbacks free meanwhile, unless one
\* of them hooks and the list is rehashed, or halts the walk.
EachCalledOnce ==
  \A k \in 1..Len(stack) :
    LET f == stack[k]
        alive == {c \in f.due : cb[c].st = "live"}
    IN f.kind = "hook" /\ f.phase \in {"pre", "post"} /\ ~f.grown =>
         /\ f.todo \cap f.called = {}
         /\ alive \subseteq f.todo \cup f.called

\* The arguments written back to a call, and those its post callbacks see, are
\* those of that very call, unless another hooked call ran inside it: the
\* vector of arguments is one for all calls.
ArgsAreOwn ==
  \A k \in 1..Len(stack) :
    stack[k].kind = "hook" =>
      /\ stack[k].foreign => stack[k].nested
      /\ ~stack[k].nested => sargs = k

\* A deleted object is used only when a callback is freed while it runs, a
\* detour is deleted while it is being called, or two detours overlap.
DeadTouchedOnlyBy ==
  \A x \in touched :
    \/ x \in Callbacks /\ \E k \in 1..Len(stack) : stack[k].cur = x
    \/ x \in Detours /\ (x \in {stack[k].of : k \in 1..Len(stack)} \/ Target(x) \in overlap)

\* Hooking, freeing, calling and unloading in any order leave the bytes of the
\* functions, the flags of the detours and their callbacks in agreement.
HooksInPlace == TypeOK /\ HookedIsArmed /\ CodeAgrees

\* A hooked call calls each callback once, and hands over its own arguments.
CallsAreFaithful == EachCalledOnce /\ ArgsAreOwn
=============================================================================
