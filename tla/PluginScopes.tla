---------------------------- MODULE PluginScopes ----------------------------
(***************************************************************************)
(* Plugin objects, the script functions that run on their behalf, and the  *)
(* instances those functions create.                                       *)
(*                                                                         *)
(* While a function of a plugin runs, the plugin is the one that is        *)
(* assumed to be running, and what is created meanwhile becomes its own    *)
(* and is freed when it is unloaded.  A script may run a console command,  *)
(* and so load, unload or call other plugins, or its own, from inside a    *)
(* function: the calls nest.  The previous value is kept in a static       *)
(* variable, one for all levels, so that a scope in which another was      *)
(* entered puts the wrong value back.  Callbacks of console commands and   *)
(* of detours make no scope: what was assumed before them stays.           *)
(*                                                                         *)
(* Addresses are not reused in this model: a dead object stays dead.       *)
(***************************************************************************)
EXTENDS Naturals, Sequences, FiniteSets

CONSTANTS Paths,      \* paths of scripts
          Objects,    \* plugin objects that may be created
          Instances,  \* owned instances that may be created
          Shared,     \* shared instances: detours, named by their target
          None,
          MaxDepth    \* bound on the nesting of calls

ASSUME ConstAssumption ==
  None \notin Objects \cup Instances /\ MaxDepth \in Nat

VARIABLES
  alive,            \* plugin objects
  made,             \* objects created so far
  path,             \* path[o]
  path_plugin_map,  \* plugin::path_plugin_map
  running,
  assumed_currently_running_, old_running,
  stack,            \* calls of script functions, the innermost last
  owned_instances,  \* owned_instances[o]
  owner_plugin,     \* owner_plugin[i]
  live,             \* instances not freed
  owner_plugins,    \* owner_plugins[s] of a shared instance
  detours,          \* shared instances that exist
  callback, holder, \* owner of a function that read_function made, or "none";
                    \* the plugin that owns the instance which holds it
  \* history, read by the properties only:
  creator,          \* creator[i]: the plugin of whose script the function is that made i
  strayed,          \* instances made while that plugin was not the current one
  fresh,            \* no scope was entered since the innermost one that is open
  astray,           \* levels of calls back to which a scope returned that had another
                    \* one entered inside it
  pulled,           \* objects destroyed during a call of their own script
  touched           \* dead objects that were read or written

objs  == <<alive, made, path, path_plugin_map>>
scope == <<assumed_currently_running_, old_running>>
owns  == <<owned_instances, owner_plugin, live, creator, strayed>>
share == <<owner_plugins, detours>>
calls == <<callback, holder>>
order == <<fresh, astray>>
vars  == <<objs, running, scope, stack, owns, share, calls, order, pulled, touched>>

Kinds == {"load", "function", "unload", "unscoped"}

Init ==
  /\ alive = {} /\ made = {} /\ running = {}
  /\ path = [o \in Objects |-> None]
  /\ path_plugin_map = [p \in Paths |-> None]
  /\ assumed_currently_running_ = None /\ old_running = None
  /\ stack = <<>>
  /\ owned_instances = [o \in Objects |-> {}]
  /\ owner_plugin = [i \in Instances |-> None]
  /\ live = {} /\ creator = [i \in Instances |-> None] /\ strayed = {}
  /\ owner_plugins = [s \in Shared |-> {}] /\ detours = {}
  /\ callback = "none" /\ holder = None
  /\ fresh = FALSE /\ astray = {} /\ pulled = {} /\ touched = {}

Level == Len(stack)
Top == stack[Level]
InScript == stack # <<>>
OnStack(kind, o) == \E k \in 1..Level : stack[k].kind = kind /\ stack[k].plugin = o
\* The plugin for which the innermost scope was made that was made for one.
Current == IF InScript THEN Top.current ELSE None

Touch(os) == touched' = touched \cup (os \ (alive \cup {None}))

-----------------------------------------------------------------------------
(* Calls *)

\* A call of a script's function.  One that makes no scope, or a scope for no
\* plugin, runs with what is assumed already.
Push(kind, o, current) ==
  /\ Level < MaxDepth
  /\ stack' = Append(stack, [kind |-> kind, plugin |-> o, current |-> current])
  /\ astray' = astray \cup {n \in {Level + 1} : Level \in astray /\ (kind = "unscoped" \/ o = None)}
\* scope_assume_current, and the call it is for
Enter(kind, o) ==
  /\ Push(kind, o, IF o = None THEN Current ELSE o)
  /\ old_running' = assumed_currently_running_
  /\ assumed_currently_running_' = IF o = None THEN assumed_currently_running_ ELSE o
  /\ fresh' = TRUE

\* plugin::load runs the script.
Load(o) ==
  /\ o \in alive \ running /\ ~OnStack("load", o)
  /\ Enter("load", o)
  /\ UNCHANGED <<objs, running, owns, share, calls, pulled, touched>>

\* A function of a running plugin: an event, a frame.
Call(o) ==
  /\ o \in running
  /\ Enter("function", o)
  /\ UNCHANGED <<objs, running, owns, share, calls, pulled, touched>>

\* A callback that was read by read_function, with the owner it found.
CallBack ==
  /\ callback # "none"
  /\ Enter("function", callback)
  /\ Touch({callback})
  /\ UNCHANGED <<objs, running, owns, share, calls, pulled>>

\* A script's console command, or its hook of a detour.
CallUnscoped(o) ==
  /\ o \in running
  /\ Push("unscoped", o, Current)
  /\ UNCHANGED <<objs, running, scope, owns, share, calls, fresh, pulled, touched>>

\* plugin::unload calls plugin_unloaded.
Unload(o) ==
  /\ o \in running
  /\ Enter("unload", o)
  /\ UNCHANGED <<objs, running, owns, share, calls, pulled, touched>>

\* owned_instance::plugin_unloaded for all of them.  The one that holds a
\* callback drops it.
Drop(o) ==
  /\ callback' = IF holder = o THEN "none" ELSE callback
  /\ holder' = IF holder = o THEN None ELSE holder
MutantClear(o) ==
  /\ live' = live \ {i \in owned_instances[o] : creator[i] # o}
  /\ owner_plugin' = [i \in Instances |-> IF i \in owned_instances[o] THEN None ELSE owner_plugin[i]]
  /\ owned_instances' = [owned_instances EXCEPT ![o] = {}]
  /\ Drop(o)
MutantClearList(o) ==
  /\ owned_instances' = [owned_instances EXCEPT ![o] = {}]
  /\ Drop(o)
  /\ UNCHANGED <<live, owner_plugin>>
Clear(o) ==
  /\ live' = live \ owned_instances[o]
  /\ owner_plugin' = [i \in Instances |-> IF i \in owned_instances[o] THEN None ELSE owner_plugin[i]]
  /\ owned_instances' = [owned_instances EXCEPT ![o] = {}]
  /\ Drop(o)

\* The end of a call: load goes on, unload frees what the plugin owns.
MutantRestored == old_running
Restored == IF Top.kind = "unscoped" THEN assumed_currently_running_ ELSE old_running
Strays == IF Top.kind = "unscoped" THEN Level \in astray ELSE ~fresh
Return ==
  /\ InScript
  /\ stack' = SubSeq(stack, 1, Level - 1)
  /\ assumed_currently_running_' = Restored
  /\ fresh' = (fresh /\ Top.kind = "unscoped")
  /\ astray' = (astray \ {Level}) \cup {n \in {Level - 1} : Strays}
  /\ UNCHANGED <<objs, old_running, share, creator, strayed, pulled>>
  /\ LET o == Top.plugin IN
     CASE Top.kind = "load" ->
            /\ Touch({o})
            /\ \/ running' = running \cup ({o} \cap alive)
                  /\ UNCHANGED <<owned_instances, owner_plugin, live, calls>>
               \/ UNCHANGED <<running, owned_instances, owner_plugin, live, calls>>  \* it failed
               \/ UNCHANGED running /\ Clear(o)                                     \* VMOD_DISABLED
       [] Top.kind = "unload" ->
            running' = running \ {o} /\ Touch({o}) /\ Clear(o)
       [] OTHER -> UNCHANGED <<running, touched, owned_instances, owner_plugin, live, calls>>

-----------------------------------------------------------------------------
(* Objects *)

\* plugin::plugin.  emplace leaves an entry of the path alone.
Remember(p, o) ==
  path_plugin_map' = [path_plugin_map EXCEPT ![p] = IF @ = None THEN o ELSE @]
Create(p) ==
  /\ \A o \in alive : path[o] # p
  /\ \E o \in Objects \ made :
       /\ alive' = alive \cup {o} /\ made' = made \cup {o}
       /\ path' = [path EXCEPT ![o] = p]
       /\ Remember(p, o)
  /\ UNCHANGED <<running, scope, stack, owns, share, calls, order, pulled, touched>>

\* plugin::~plugin, of an object that has been unloaded.  The entry of its path
\* is looked up, and left where it is.
Destroy(o) ==
  /\ o \in alive \ running
  /\ alive' = alive \ {o}
  /\ Clear(o)
  /\ pulled' = pulled \cup {q \in {o} : \E k \in 1..Level : stack[k].plugin = q}
  /\ UNCHANGED <<made, path, path_plugin_map, running, scope, stack, share, creator, strayed,
                 order, touched>>

\* plugin::read_function of a closure of the script p
ReadFunction(p) ==
  /\ InScript
  /\ callback' = path_plugin_map[p] /\ holder' = assumed_currently_running_
  /\ Touch({callback'})
  /\ UNCHANGED <<objs, running, scope, stack, owns, share, order, pulled>>

-----------------------------------------------------------------------------
(* Instances *)

\* owned_instance::set_plugin
Register(i) ==
  /\ InScript /\ i \notin live
  /\ LET pl == assumed_currently_running_ IN
     /\ owner_plugin' = [owner_plugin EXCEPT ![i] = pl]
     /\ owned_instances' =
          IF pl = None THEN owned_instances ELSE [owned_instances EXCEPT ![pl] = @ \cup {i}]
     /\ Touch({pl})
  /\ live' = live \cup {i}
  /\ creator' = [creator EXCEPT ![i] = Top.plugin]
  /\ strayed' = (strayed \ {i}) \cup {j \in {i} : Current # Top.plugin \/ Level \in astray}
  /\ UNCHANGED <<objs, running, scope, stack, share, calls, order, pulled>>

\* script_delete, ~owned_instance
MutantForget(i, pl) == owned_instances
Forget(i, pl) ==
  IF pl = None THEN owned_instances ELSE [owned_instances EXCEPT ![pl] = @ \ {i}]
Free(i) ==
  /\ InScript /\ i \in live
  /\ live' = live \ {i}
  /\ owned_instances' = Forget(i, owner_plugin[i])
  /\ owner_plugin' = [owner_plugin EXCEPT ![i] = None]
  /\ Touch({owner_plugin[i]})
  /\ UNCHANGED <<objs, running, scope, stack, share, calls, creator, strayed, order, pulled>>

\* shared_instance::add_plugin: the plugin is not told of the instance.
Acquire(s) ==
  /\ InScript
  /\ detours' = detours \cup {s}
  /\ owner_plugins' = [owner_plugins EXCEPT ![s] = @ \cup ({assumed_currently_running_} \ {None})]
  /\ UNCHANGED <<objs, running, scope, stack, owns, calls, order, pulled, touched>>

\* shared_instance::remove_plugin: the last owner deletes it.
Left(s, pl) == owner_plugins[s] \ {pl}
Release(s) ==
  /\ InScript /\ s \in detours /\ assumed_currently_running_ # None
  /\ LET pl == assumed_currently_running_
         left == Left(s, pl)
     IN /\ owner_plugins' = [owner_plugins EXCEPT ![s] = left]
        /\ detours' = IF left = {} THEN detours \ {s} ELSE detours
        /\ Touch({pl})
  /\ UNCHANGED <<objs, running, scope, stack, owns, calls, order, pulled>>

\* Touching a dead object is undefined behaviour: nothing is said of what follows.
Step ==
  \/ Return \/ CallBack
  \/ \E o \in Objects : Load(o) \/ Call(o) \/ CallUnscoped(o) \/ Unload(o) \/ Destroy(o)
  \/ \E p \in Paths : Create(p) \/ ReadFunction(p)
  \/ \E i \in Instances : Register(i) \/ Free(i)
  \/ \E s \in Shared : Acquire(s) \/ Release(s)

Next == touched = {} /\ Step

Spec == Init /\ [][Next]_vars

-----------------------------------------------------------------------------
(* Who owns what *)

Plugin == Objects \cup {None}

\* The types of the variables.
TypeOK ==
  /\ running \subseteq alive /\ alive \subseteq made /\ made \subseteq Objects
  /\ path \in [Objects -> Paths \cup {None}]
  /\ path_plugin_map \in [Paths -> Plugin]
  /\ assumed_currently_running_ \in Plugin /\ old_running \in Plugin
  /\ stack \in Seq([kind : Kinds, plugin : Plugin, current : Plugin])
  /\ owned_instances \in [Objects -> SUBSET Instances]
  /\ owner_plugin \in [Instances -> Plugin] /\ creator \in [Instances -> Plugin]
  /\ live \subseteq Instances /\ strayed \subseteq Instances
  /\ owner_plugins \in [Shared -> SUBSET Objects] /\ detours \subseteq Shared
  /\ callback \in Plugin \cup {"none"} /\ holder \in Plugin
  /\ fresh \in BOOLEAN /\ astray \subseteq 0..Level
  /\ pulled \subseteq Objects /\ touched \subseteq Objects

\* However calls nest, the plugin assumed to run is the one of the innermost
\* scope, and none outside of all scopes, save at a level to which a scope
\* returned that had another one entered inside it: a function that a script's
\* command makes another plugin run is that plugin's, also after such a return,
\* and the caller's level is in order again when it comes back.
AssumedIsRunning == Level \notin astray => assumed_currently_running_ = Current

\* The list of a plugin and the owners of the instances agree, and an owner is
\* alive, however the calls nest and whichever plugin is assumed to run.
OwnersAgree ==
  touched = {} =>
    /\ \A i \in live : owner_plugin[i] # None => owner_plugin[i] \in alive
    /\ \A o \in Objects : owned_instances[o] = {i \in live : owner_plugin[i] = o}

\* What the functions of a plugin created and left when it is unloaded was made
\* while another plugin or none was the current one, as in its console
\* commands and hooks, or at a level that had gone astray.
UnloadFreesAll ==
  [][\A o \in Objects : o \in running /\ o \notin running' =>
       \A i \in live' : creator[i] = o => i \in strayed]_vars

\* An instance that was made with no plugin assumed is freed by no unload, no
\* failed load and no destruction of a plugin: only a script's own call does.
FreedByScript ==
  [][\A i \in live \ live' : owner_plugin[i] = None => InScript /\ UNCHANGED <<objs, running, stack>>]_vars

\* A dead object is touched only because it was destroyed during a call of its
\* own script, because the entry of its path outlived it and was read for a
\* callback, or at a level gone astray, where it is still assumed to run.
DeadTouchedOnlyBy ==
  \A o \in touched :
    o \in pulled \/ callback = o \/ (Level \in astray /\ assumed_currently_running_ = o)

\* A shared instance that a plugin had not released when it was destroyed is
\* there for good, unless the dead plugin is taken for the one that runs.
NeverReleased ==
  [][\A s \in detours : ~(owner_plugins[s] \subseteq alive) =>
       s \in detours' \/ assumed_currently_running_ \notin alive]_vars

\* What stays behind when a plugin goes: what its functions created while it was
\* not the current plugin, which only a script can free when no plugin was, and
\* for good a shared instance that it did not release.
LeavesBehindOnly == UnloadFreesAll /\ FreedByScript /\ NeverReleased
=============================================================================
