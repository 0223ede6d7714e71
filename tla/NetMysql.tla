------------------------------ MODULE NetMysql ------------------------------
(***************************************************************************)
(* The non-blocking MySQL client of bindings/net.  Two threads share the   *)
(* connections: the runner thread drives the client library                *)
(* (singleton::handle_mysqls, handle_stmts), the game thread delivers the  *)
(* results to the scripts once a frame (run_callbacks,                     *)
(* run_stmt_callbacks) and executes what the scripts ask for.  A           *)
(* connection and a statement are each a small machine held in an atomic   *)
(* step_; both threads load it, act on it and store the next step, and     *)
(* nothing makes the load and the store one.                               *)
(*                                                                         *)
(* The actions follow the accesses the other thread can observe: a lock,   *)
(* an atomic load or store, a library call made under a lock.  The vectors *)
(* are sets: a pass visits every element once, in any order.               *)
(***************************************************************************)
EXTENDS Naturals, FiniteSets

CONSTANTS Conns,        \* connections a script may create
          Stmts,        \* statements a script may prepare
          CallbackOps,  \* what scripts do inside a callback: see ScriptOps
          FrameOps,     \* and between the callbacks, in a command or a game frame
          MayLackOwner, \* objects that may be registered with nobody assumed to run
          MaxFrees      \* bound: how often scripts free one object

ScriptOps == {"free", "use", "connect", "prepare"}
Objs == Conns \cup Stmts

ASSUME ConstAssumption ==
  /\ Conns \cap Stmts = {}
  /\ CallbackOps \subseteq ScriptOps /\ FrameOps \subseteq ScriptOps
  /\ MayLackOwner \subseteq Objs
  /\ MaxFrees \in Nat

Threads == {"runner", "game"}
None == "none"
ASSUME NoneAssumption == None \notin Objs

VARIABLES
  mysqls,           \* connections in singleton::mysqls
  stmts,            \* stmts[c]: statements in mysql::stmts of c
  step_,            \* step_[o]: the atomic step; absent before new, gone after delete
  callback,         \* callback[o]: the script function is still referenced
  mysqls_mx, obj_mx, stmts_mx,    \* mutexes: None or the thread that holds it
  done,             \* singleton::done
  owned_instances,  \* plugin::owned_instances: what ~owned_instance did not take out
  handles,          \* instances scripts can still reach (instance_ not freed)
  loaded,           \* the plugin is loaded
  \* history, read by the properties only:
  delivered,        \* delivered[o]: the callback of o has run
  freed,            \* freed[o]: stores of close_start by the game thread
  belonged          \* objects the plugin has owned while it was loaded

\* The runner thread: its control point, the connections and statements left
\* in the pass, the connection and object in hand, and the step it loaded or,
\* after the library call, is about to store.
VARIABLES rpc, rconns, rstmts, rconn, robj, rstep

\* The game thread: likewise, with the object whose callback is running and
\* the objects a script operation is working on.
VARIABLES gpc, gconns, gstmts, gconn, gobj, gstep, in_callback, sconn, sobj

lists     == <<mysqls, stmts>>
locks     == <<mysqls_mx, obj_mx, stmts_mx>>
instances == <<callback, owned_instances, handles>>
history   == <<delivered, freed, belonged>>
flags     == <<done, loaded>>
shared    == <<lists, step_, instances, locks, flags, history>>
rvisit    == <<rconns, rstmts, rconn, robj, rstep>>
runner    == <<rpc, rvisit>>
gvisit    == <<gconns, gstmts, gconn, gobj, gstep>>
script    == <<in_callback, sconn, sobj>>
game      == <<gpc, gvisit, script>>
vars      == <<shared, runner, game>>

ConnSteps == {"connect_start", "connect_continue", "connect_done",
              "connect_idle", "connect_fail", "close_start", "close_wait",
              "close_done"}
StmtSteps == {"prepare_start", "prepare_continue", "prepare_done",
              "prepare_idle", "prepare_fail", "close_start", "close_done"}
Steps == ConnSteps \cup StmtSteps \cup {"absent", "gone"}

Opening == {"connect_start", "connect_continue", "prepare_start", "prepare_continue"}
Opened  == {"connect_done", "prepare_done"}
Failed  == {"connect_fail", "prepare_fail"}
Idle    == {"connect_idle", "prepare_idle"}
Closing == {"close_start", "close_wait", "close_done", "gone"}

StepFor(o, what) ==
  CASE what = "wait"     -> IF o \in Conns THEN "connect_continue" ELSE "prepare_continue"
    [] what = "ok"       -> IF o \in Conns THEN "connect_done" ELSE "prepare_done"
    [] what = "fail"     -> IF o \in Conns THEN "connect_fail" ELSE "prepare_fail"
    [] what = "idle"     -> IF o \in Conns THEN "connect_idle" ELSE "prepare_idle"

Live(o) == step_[o] \notin {"absent", "gone"}

Init ==
  /\ mysqls = {}
  /\ stmts = [c \in Conns |-> {}]
  /\ step_ = [o \in Objs |-> "absent"]
  /\ callback = [o \in Objs |-> FALSE]
  /\ mysqls_mx = None
  /\ obj_mx = [o \in Objs |-> None]
  /\ stmts_mx = [c \in Conns |-> None]
  /\ done = FALSE
  /\ owned_instances = {}
  /\ handles = {}
  /\ loaded = TRUE
  /\ delivered = [o \in Objs |-> FALSE]
  /\ freed = [o \in Objs |-> 0]
  /\ belonged = {}
  /\ rpc = "top" /\ rconns = {} /\ rstmts = {} /\ rconn = None /\ robj = None
  /\ rstep = "absent"
  /\ gpc = "idle" /\ gconns = {} /\ gstmts = {} /\ gconn = None /\ gobj = None
  /\ gstep = "absent" /\ in_callback = None /\ sconn = None /\ sobj = None

\* mysql::free and stmt::free: one store, whatever the step was.
Free(o) ==
  /\ step_' = [step_ EXCEPT ![o] = "close_start"]
  /\ freed' = [freed EXCEPT ![o] = @ + 1]

-----------------------------------------------------------------------------
(* The runner thread *)

\* for(;!done.load();)
KeepRunning == ~ done

RunnerLoop ==
  /\ rpc = "top"
  /\ rpc' = IF KeepRunning THEN "lock" ELSE "exited"
  /\ UNCHANGED <<shared, game, rconns, rstmts, rconn, robj, rstep>>

BeginPass ==
  /\ rpc = "lock" /\ mysqls_mx = None
  /\ mysqls_mx' = "runner"
  /\ rconns' = mysqls
  /\ rpc' = "conns"
  /\ UNCHANGED <<lists, step_, instances, obj_mx, stmts_mx, flags, history,
                 rstmts, rconn, robj, rstep, game>>

EndPass ==
  /\ rpc = "conns" /\ rconns = {}
  /\ mysqls_mx' = None
  /\ rpc' = "top"
  /\ UNCHANGED <<lists, step_, instances, obj_mx, stmts_mx, flags, history, rvisit, game>>

\* Where the switch on the loaded step goes next.
MutantStmtsInCloseWait(st) ==
  CASE st \in Opening        -> "lock_obj"
    [] st \in {"connect_idle", "close_wait"} -> "lock_stmts"
    [] st = "close_start"    -> "can_close"
    [] st = "close_done"     -> "erase"
    [] OTHER                 -> "conns"
ConnBranch(st) ==
  CASE st \in Opening        -> "lock_obj"
    [] st = "connect_idle"   -> "lock_stmts"
    [] st = "close_start"    -> "can_close"
    [] st = "close_wait"     -> "prepare_close"
    [] st = "close_done"     -> "erase"
    [] OTHER                 -> "conns"

LoadConn(c) ==
  /\ rpc = "conns" /\ c \in rconns
  /\ rconns' = rconns \ {c}
  /\ rconn' = c /\ robj' = c
  /\ rstep' = step_[c]
  /\ rpc' = ConnBranch(step_[c])
  /\ UNCHANGED <<shared, game, rstmts>>

\* obj_mx is taken around one library call
LockObj ==
  /\ rpc = "lock_obj" /\ obj_mx[robj] = None
  /\ obj_mx' = [obj_mx EXCEPT ![robj] = "runner"]
  /\ rpc' = "call"
  /\ UNCHANGED <<lists, step_, instances, mysqls_mx, stmts_mx, flags, history, rvisit, game>>

\* The control point to which the visit of an object returns.
NextObj == IF robj \in Conns THEN "conns" ELSE "stmts"

\* The call has something to wait for, or ends with one of its outcomes.  A
\* *_cont that still waits and a close that has to wait store nothing.
Outcomes(o, st) ==
  IF st \in Opening THEN {StepFor(o, out) : out \in {"wait", "ok", "fail"}}
  ELSE {"close_start", "close_done"}

LibraryCall ==
  /\ rpc = "call"
  /\ rstep' \in Outcomes(robj, rstep)
  /\ rpc' = IF rstep' = rstep THEN NextObj ELSE "store"
  /\ obj_mx' = [obj_mx EXCEPT ![robj] = None]
  /\ UNCHANGED <<lists, step_, instances, mysqls_mx, stmts_mx, flags, history,
                 rconns, rstmts, rconn, robj, game>>

StoreOutcome ==
  /\ rpc = "store"
  /\ step_' = [step_ EXCEPT ![robj] = rstep]
  /\ rpc' = NextObj
  /\ UNCHANGED <<lists, instances, locks, flags, history, rvisit, game>>

\* can_close() reads stmts without stmts_mx
MutantCanClose(c) == TRUE
can_close(c) == stmts[c] = {}

CanClose ==
  /\ rpc = "can_close"
  /\ IF can_close(rconn)
     THEN /\ rpc' = "lock_obj"
          /\ UNCHANGED step_
     ELSE /\ step_' = [step_ EXCEPT ![rconn] = "close_wait"]
          /\ rpc' = "conns"
  /\ UNCHANGED <<lists, instances, locks, flags, history, rvisit, game>>

\* prepare_close() and the can_close() after it, both without stmts_mx
PrepareClose ==
  /\ rpc = "prepare_close"
  /\ step_' = [o \in Objs |->
       IF o \in stmts[rconn] /\ step_[o] = "prepare_idle" THEN "close_start"
       ELSE IF o = rconn /\ can_close(rconn) THEN "close_start"
       ELSE step_[o]]
  /\ rpc' = "conns"
  /\ UNCHANGED <<lists, instances, locks, flags, history, rvisit, game>>

\* plugin::unload has set clearing_instances
clearing_instances == gpc = "unload"

\* The script instance and the callback are released.
Detach(o) ==
  /\ handles' = handles \ {o}
  /\ callback' = [callback EXCEPT ![o] = FALSE]

\* ~owned_instance leaves the owner's list unless that list is being cleared.
MutantLeaveOwner(o) == UNCHANGED owned_instances
LeaveOwner(o) ==
  owned_instances' = IF clearing_instances THEN owned_instances ELSE owned_instances \ {o}

\* ~mysql and ~stmt, on the runner thread
Destroy(o) ==
  /\ step_' = [step_ EXCEPT ![o] = "gone"]
  /\ LeaveOwner(o)
  /\ Detach(o)

EraseConn ==
  /\ rpc = "erase"
  /\ Destroy(rconn)
  /\ mysqls' = mysqls \ {rconn}
  /\ rpc' = "conns"
  /\ UNCHANGED <<stmts, locks, flags, history, rvisit, game>>

LockStmts ==
  /\ rpc = "lock_stmts" /\ stmts_mx[rconn] = None
  /\ stmts_mx' = [stmts_mx EXCEPT ![rconn] = "runner"]
  /\ rstmts' = stmts[rconn]
  /\ rpc' = "stmts"
  /\ UNCHANGED <<lists, step_, instances, mysqls_mx, obj_mx, flags, history,
                 rconns, rconn, robj, rstep, game>>

StmtBranch(st) ==
  CASE st \in Opening \cup {"close_start"} -> "lock_obj"
    [] st = "close_done"                   -> "erase_stmt"
    [] OTHER                               -> "stmts"

LoadStmt(s) ==
  /\ rpc = "stmts" /\ s \in rstmts
  /\ rstmts' = rstmts \ {s}
  /\ robj' = s
  /\ rstep' = step_[s]
  /\ rpc' = StmtBranch(step_[s])
  /\ UNCHANGED <<shared, game, rconns, rconn>>

EraseStmt ==
  /\ rpc = "erase_stmt"
  /\ Destroy(robj)
  /\ stmts' = [stmts EXCEPT ![rconn] = @ \ {robj}]
  /\ rpc' = "stmts"
  /\ UNCHANGED <<mysqls, locks, flags, history, rvisit, game>>

EndStmts ==
  /\ rpc = "stmts" /\ rstmts = {}
  /\ stmts_mx' = [stmts_mx EXCEPT ![rconn] = None]
  /\ rpc' = "conns"
  /\ UNCHANGED <<lists, step_, instances, mysqls_mx, obj_mx, flags, history, rvisit, game>>

RunnerNext ==
  \/ RunnerLoop \/ BeginPass \/ EndPass
  \/ LockObj \/ LibraryCall \/ StoreOutcome
  \/ CanClose \/ PrepareClose \/ EraseConn
  \/ LockStmts \/ EraseStmt \/ EndStmts
  \/ \E c \in Conns : LoadConn(c)
  \/ \E s \in Stmts : LoadStmt(s)

-----------------------------------------------------------------------------
(* The game thread: delivering results, singleton::run_callbacks *)

\* Each frame: mysqls.empty() is read before mysqls_mx is taken.
FrameBegin ==
  /\ gpc = "idle" /\ mysqls # {}
  /\ gpc' = "lock"
  /\ UNCHANGED <<shared, runner, gvisit, script>>

FrameLock ==
  /\ gpc = "lock" /\ mysqls_mx = None
  /\ mysqls_mx' = "game"
  /\ gconns' = mysqls
  /\ gpc' = "conns"
  /\ UNCHANGED <<lists, step_, instances, obj_mx, stmts_mx, flags, history, runner,
                 gstmts, gconn, gobj, gstep, script>>

FrameEnd ==
  /\ gpc = "conns" /\ gconns = {}
  /\ mysqls_mx' = None
  /\ gpc' = "idle"
  /\ UNCHANGED <<lists, step_, instances, obj_mx, stmts_mx, flags, history, runner,
                 gvisit, script>>

\* Where a loaded step leads: a result with a callback is delivered, a result
\* without one only moves the object on, an idle connection has its
\* statements looked at, everything else is passed over.
MutantDeliver(o, st, otherwise) ==
  IF st \in Opened THEN IF callback[o] THEN "lock_obj" ELSE "store"
  ELSE otherwise
Deliver(o, st, otherwise) ==
  IF st \in Opened \cup Failed THEN IF callback[o] THEN "lock_obj" ELSE "store"
  ELSE otherwise

FrameConn(c) ==
  /\ gpc = "conns" /\ c \in gconns
  /\ gconns' = gconns \ {c}
  /\ gconn' = c /\ gobj' = c
  /\ gstep' = step_[c]
  /\ gpc' = Deliver(c, step_[c], IF step_[c] = "connect_idle" THEN "lock_stmts" ELSE "conns")
  /\ UNCHANGED <<shared, runner, gstmts, script>>

FrameLockStmts ==
  /\ gpc = "lock_stmts" /\ stmts_mx[gconn] = None
  /\ stmts_mx' = [stmts_mx EXCEPT ![gconn] = "game"]
  /\ gstmts' = stmts[gconn]
  /\ gpc' = "stmts"
  /\ UNCHANGED <<lists, step_, instances, mysqls_mx, obj_mx, flags, history, runner,
                 gconns, gconn, gobj, gstep, script>>

FrameStmt(s) ==
  /\ gpc = "stmts" /\ s \in gstmts
  /\ gstmts' = gstmts \ {s}
  /\ gobj' = s
  /\ gstep' = step_[s]
  /\ gpc' = Deliver(s, step_[s], "stmts")
  /\ UNCHANGED <<shared, runner, gconns, gconn, script>>

FrameEndStmts ==
  /\ gpc = "stmts" /\ gstmts = {}
  /\ stmts_mx' = [stmts_mx EXCEPT ![gconn] = None]
  /\ gpc' = "conns"
  /\ UNCHANGED <<lists, step_, instances, mysqls_mx, obj_mx, flags, history, runner,
                 gvisit, script>>

\* The callback runs under obj_mx with in_callback set ...
MutantCallbackBegin ==
  /\ gpc = "lock_obj" /\ obj_mx[gobj] = None
  /\ obj_mx' = [obj_mx EXCEPT ![gobj] = "game"]
  /\ mysqls_mx' = None
  /\ in_callback' = gobj
  /\ delivered' = [delivered EXCEPT ![gobj] = TRUE]
  /\ gpc' = "callback"
  /\ UNCHANGED <<lists, step_, instances, stmts_mx, flags, freed, belonged,
                 runner, gvisit, sconn, sobj>>
CallbackBegin ==
  /\ gpc = "lock_obj" /\ obj_mx[gobj] = None
  /\ obj_mx' = [obj_mx EXCEPT ![gobj] = "game"]
  /\ in_callback' = gobj
  /\ delivered' = [delivered EXCEPT ![gobj] = TRUE]
  /\ gpc' = "callback"
  /\ UNCHANGED <<lists, step_, instances, mysqls_mx, stmts_mx, flags, freed, belonged,
                 runner, gvisit, sconn, sobj>>

CallbackEnd ==
  /\ gpc = "callback"
  /\ obj_mx' = [obj_mx EXCEPT ![gobj] = None]
  /\ in_callback' = None
  /\ gpc' = "store"
  /\ UNCHANGED <<lists, step_, instances, mysqls_mx, stmts_mx, flags, history, runner,
                 gvisit, sconn, sobj>>

\* ... and the step loaded before it decides what is stored after it.
MutantStaysDelivered(o, st) == st
MutantAlwaysIdle(o, st) == StepFor(o, "idle")
AfterDelivery(o, st) == IF st \in Opened THEN StepFor(o, "idle") ELSE "close_start"

StoreDelivered ==
  /\ gpc = "store"
  /\ step_' = [step_ EXCEPT ![gobj] = AfterDelivery(gobj, gstep)]
  /\ freed' = [freed EXCEPT ![gobj] = IF gstep \in Failed THEN @ + 1 ELSE @]
  /\ gpc' = IF gobj \in Conns THEN "conns" ELSE "stmts"
  /\ UNCHANGED <<lists, instances, locks, flags, delivered, belonged, runner, gvisit,
                 script>>

-----------------------------------------------------------------------------
(* The game thread: what scripts do, inside a callback or between frames *)

InScript(op) == \/ gpc = "callback" /\ op \in CallbackOps
                \/ gpc = "idle" /\ loaded /\ op \in FrameOps
AfterScript == IF in_callback = None THEN "idle" ELSE "callback"

\* free(), owned_instance::script_delete
ScriptFree(o) ==
  /\ InScript("free") /\ o \in handles
  /\ freed[o] < MaxFrees
  /\ Free(o)
  /\ UNCHANGED <<lists, instances, locks, flags, delivered, belonged, runner, game>>

\* errmsg(), errno(), param_count() and bind() take obj_mx unless the object's
\* own callback is running (mysql::lock_guard).
MutantTakesLock(o) == TRUE
TakesLock(o) == in_callback # o

ScriptUse(o) ==
  /\ InScript("use") /\ o \in handles
  /\ TakesLock(o)
  /\ sobj' = o
  /\ gpc' = "use_lock"
  /\ UNCHANGED <<shared, runner, gvisit, in_callback, sconn>>

UseLock ==
  /\ gpc = "use_lock" /\ obj_mx[sobj] = None
  /\ obj_mx' = [obj_mx EXCEPT ![sobj] = "game"]
  /\ gpc' = "use"
  /\ UNCHANGED <<lists, step_, instances, mysqls_mx, stmts_mx, flags, history, runner,
                 gvisit, script>>

UseEnd ==
  /\ gpc = "use"
  /\ obj_mx' = [obj_mx EXCEPT ![sobj] = None]
  /\ gpc' = AfterScript
  /\ UNCHANGED <<lists, step_, instances, mysqls_mx, stmts_mx, flags, history, runner,
                 gvisit, script>>

\* mysql_conn(): the object is in mysqls, where the runner can see it, before
\* its script instance exists.
ScriptConn(c) ==
  /\ InScript("connect") /\ step_[c] = "absent"
  /\ step_' = [step_ EXCEPT ![c] = "connect_start"]
  /\ callback' = [callback EXCEPT ![c] = TRUE]
  /\ sobj' = c
  /\ gpc' = "conn_lock"
  /\ UNCHANGED <<lists, owned_instances, handles, locks, flags, history, runner, gvisit,
                 in_callback, sconn>>

ConnEmplace ==
  /\ gpc = "conn_lock" /\ mysqls_mx = None
  /\ mysqls' = mysqls \cup {sobj}
  /\ gpc' = "initialize"
  /\ UNCHANGED <<stmts, step_, instances, locks, flags, history, runner, gvisit, script>>

\* set_plugin(): the owner is the plugin assumed to be running.  That may be
\* nobody, or another one: in a console command or a detour, after nested scopes,
\* or in the callback of what had no owner.  Then this plugin's list stays as it is.
SetPlugin(o, assumed) ==
  /\ owned_instances' = IF assumed THEN owned_instances \cup {o} ELSE owned_instances
  /\ belonged' = IF assumed /\ loaded THEN belonged \cup {o} ELSE belonged

\* initialize(): register_instance() fails, and the object is freed, or the
\* script gets its handle and the object the owner it is given.
Initialize ==
  /\ gpc = "initialize"
  /\ \/ /\ handles' = handles \cup {sobj}
        /\ \/ SetPlugin(sobj, TRUE)
           \/ sobj \in MayLackOwner /\ SetPlugin(sobj, FALSE)
        /\ UNCHANGED <<step_, freed>>
     \/ /\ Free(sobj)
        /\ UNCHANGED <<handles, owned_instances, belonged>>
  /\ gpc' = AfterScript
  /\ UNCHANGED <<lists, callback, locks, flags, delivered, runner, gvisit, script>>

\* prepare(): is_available() is checked first, with no lock held.
MutantAvailable(c) == TRUE
is_available(c) == step_[c] = "connect_idle"

ScriptPrepare(c, s) ==
  /\ InScript("prepare") /\ c \in handles
  /\ is_available(c)
  /\ step_[s] = "absent"
  /\ sconn' = c /\ sobj' = s
  /\ gpc' = "prepare_lock"
  /\ UNCHANGED <<shared, runner, gvisit, in_callback>>

\* mysql_stmt_init() on the connection, under its obj_mx
PrepareNew ==
  /\ gpc = "prepare_lock" /\ obj_mx[sconn] = None
  /\ obj_mx' = [obj_mx EXCEPT ![sconn] = "game"]
  /\ step_' = [step_ EXCEPT ![sobj] = "prepare_start"]
  /\ callback' = [callback EXCEPT ![sobj] = TRUE]
  /\ gpc' = "prepare_new"
  /\ UNCHANGED <<lists, owned_instances, handles, mysqls_mx, stmts_mx, flags, history,
                 runner, gvisit, script>>

PrepareUnlock ==
  /\ gpc = "prepare_new"
  /\ obj_mx' = [obj_mx EXCEPT ![sconn] = None]
  /\ gpc' = "stmts_lock"
  /\ UNCHANGED <<lists, step_, instances, mysqls_mx, stmts_mx, flags, history, runner,
                 gvisit, script>>

PrepareLockStmts ==
  /\ gpc = "stmts_lock" /\ stmts_mx[sconn] = None
  /\ stmts_mx' = [stmts_mx EXCEPT ![sconn] = "game"]
  /\ gpc' = "emplace"
  /\ UNCHANGED <<lists, step_, instances, mysqls_mx, obj_mx, flags, history, runner,
                 gvisit, script>>

PrepareEmplace ==
  /\ gpc = "emplace"
  /\ stmts' = [stmts EXCEPT ![sconn] = @ \cup {sobj}]
  /\ stmts_mx' = [stmts_mx EXCEPT ![sconn] = None]
  /\ gpc' = "initialize"
  /\ UNCHANGED <<mysqls, step_, instances, mysqls_mx, obj_mx, flags, history, runner,
                 gvisit, script>>

-----------------------------------------------------------------------------
(* The game thread: the plugin and the process *)

\* plugin::unload sets clearing_instances and walks owned_instances;
UnloadBegin ==
  /\ gpc = "idle" /\ loaded
  /\ gpc' = "unload"
  /\ UNCHANGED <<shared, runner, gvisit, script>>

\* plugin_unloaded() is called on every pointer of the list: the instance loses
\* its callback, its script instance and its owner and is freed;
UnloadOne(o) ==
  /\ gpc = "unload" /\ o \in owned_instances /\ Live(o)
  /\ owned_instances' = owned_instances \ {o}
  /\ Detach(o)
  /\ Free(o)
  /\ UNCHANGED <<lists, locks, flags, delivered, belonged, runner, game>>

\* or the runner thread has deleted it since the list is being cleared, and the
\* call goes through freed memory: nothing is said of the game thread after that.
UnloadDeleted(o) ==
  /\ gpc = "unload" /\ o \in owned_instances /\ ~Live(o)
  /\ gpc' = "crash"
  /\ UNCHANGED <<shared, runner, gvisit, script>>

UnloadEnd ==
  /\ gpc = "unload" /\ owned_instances = {}
  /\ loaded' = FALSE
  /\ gpc' = "idle"
  /\ UNCHANGED <<lists, step_, instances, locks, done, history, runner, gvisit, script>>

\* A callback that outlived the unload may have given the plugin instances since.
Load ==
  /\ gpc = "idle" /\ ~loaded /\ ~done
  /\ loaded' = TRUE
  /\ belonged' = belonged \cup owned_instances
  /\ UNCHANGED <<lists, step_, instances, locks, done, delivered, freed, runner, game>>

\* main::unload unloads the mods and then shuts the singleton down.
Shutdown ==
  /\ gpc = "idle" /\ ~loaded
  /\ done' = TRUE
  /\ gpc' = "join"
  /\ UNCHANGED <<lists, step_, instances, locks, loaded, history, runner, gvisit, script>>

Join ==
  /\ gpc = "join" /\ rpc = "exited"
  /\ gpc' = "end"
  /\ UNCHANGED <<shared, runner, gvisit, script>>

FrameNext ==
  \/ FrameBegin \/ FrameLock \/ FrameEnd
  \/ FrameLockStmts \/ FrameEndStmts
  \/ CallbackBegin \/ CallbackEnd \/ StoreDelivered
  \/ \E c \in Conns : FrameConn(c)
  \/ \E s \in Stmts : FrameStmt(s)

\* The steps that finish a script operation once it has begun.
ScriptStep ==
  \/ UseLock \/ UseEnd \/ ConnEmplace \/ Initialize
  \/ PrepareNew \/ PrepareUnlock \/ PrepareLockStmts \/ PrepareEmplace

ScriptCall ==
  \/ \E o \in Objs : ScriptFree(o) \/ ScriptUse(o)
  \/ \E c \in Conns : ScriptConn(c)
  \/ \E c \in Conns, s \in Stmts : ScriptPrepare(c, s)

UnloadStep == UnloadEnd \/ \E o \in Objs : UnloadOne(o) \/ UnloadDeleted(o)

GameNext ==
  \/ FrameNext \/ ScriptStep \/ ScriptCall
  \/ UnloadBegin \/ UnloadStep \/ Load
  \/ Shutdown \/ Join

Next == RunnerNext \/ GameNext

Spec == Init /\ [][Next]_vars

\* A thread that keeps asking for a mutex gets it, the engine keeps calling
\* game_frame, what the game thread has begun returns, and a library call does not
\* report something to wait for on every attempt.  Each thread is at one control
\* point, so fairness of its steps as a whole is fairness of every one of them.
\* Nothing is assumed of what scripts start, nor of unloading and shutting down.
Fairness ==
  /\ SF_vars(RunnerNext)
  /\ SF_vars(LibraryCall /\ rstep' \notin Opening \cup {"close_start"})
  /\ SF_vars(FrameNext)
  /\ SF_vars(ScriptStep \/ UnloadStep \/ Join)

FairSpec == Spec /\ Fairness

-----------------------------------------------------------------------------
(* What the two threads promise *)

Mutex == Threads \cup {None}

\* The types of the variables.
TypeOK ==
  /\ mysqls \subseteq Conns /\ stmts \in [Conns -> SUBSET Stmts]
  /\ step_ \in [Objs -> Steps] /\ callback \in [Objs -> BOOLEAN]
  /\ mysqls_mx \in Mutex /\ obj_mx \in [Objs -> Mutex] /\ stmts_mx \in [Conns -> Mutex]
  /\ done \in BOOLEAN /\ loaded \in BOOLEAN
  /\ owned_instances \subseteq Objs /\ handles \subseteq Objs
  /\ delivered \in [Objs -> BOOLEAN] /\ freed \in [Objs -> Nat] /\ belonged \subseteq Objs
  /\ rconns \subseteq Conns /\ rstmts \subseteq Stmts
  /\ rconn \in Conns \cup {None} /\ robj \in Objs \cup {None} /\ rstep \in Steps
  /\ rpc \in {"top", "lock", "conns", "lock_obj", "call", "store", "can_close",
              "prepare_close", "erase", "lock_stmts", "stmts", "erase_stmt", "exited"}
  /\ gconns \subseteq Conns /\ gstmts \subseteq Stmts
  /\ gconn \in Conns \cup {None} /\ gobj \in Objs \cup {None} /\ gstep \in Steps
  /\ gpc \in {"idle", "lock", "conns", "lock_stmts", "stmts", "lock_obj", "callback",
              "store", "use_lock", "use", "conn_lock", "initialize", "prepare_lock",
              "prepare_new", "stmts_lock", "emplace", "unload", "join", "end", "crash"}
  /\ in_callback \in Objs \cup {None}
  /\ sconn \in Conns \cup {None} /\ sobj \in Objs \cup {None}

\* Control points of prepare() before the statement is in its connection.
Preparing == gpc \in {"prepare_lock", "prepare_new", "stmts_lock", "emplace"}

\* The runner is in handle_stmts().
VisitingStmts == \/ rpc \in {"lock_stmts", "stmts", "erase_stmt"}
                 \/ rpc \in {"lock_obj", "call", "store"} /\ robj \in Stmts

\* The mutex a thread is about to take.
RunnerWaitsFor == CASE rpc = "lock"       -> mysqls_mx
                    [] rpc = "lock_obj"   -> obj_mx[robj]
                    [] rpc = "lock_stmts" -> stmts_mx[rconn]
                    [] OTHER              -> None
GameWaitsFor == CASE gpc \in {"lock", "conn_lock"} -> mysqls_mx
                  [] gpc = "lock_obj"              -> obj_mx[gobj]
                  [] gpc = "lock_stmts"            -> stmts_mx[gconn]
                  [] gpc = "use_lock"              -> obj_mx[sobj]
                  [] gpc = "prepare_lock"          -> obj_mx[sconn]
                  [] gpc = "stmts_lock"            -> stmts_mx[sconn]
                  [] OTHER                         -> None

\* The three kinds of mutex are taken in different orders by the frame, the
\* script functions and the runner, yet the two threads never wait for each
\* other.
NoDeadlyEmbrace == ~ (RunnerWaitsFor = "game" /\ GameWaitsFor = "runner")

\* The only mutexes the game thread can wait for while it holds them itself
\* are mysqls_mx, when mysql_conn() is called in a callback, and stmts_mx, when
\* prepare() is called on a connection in the callback of one of its own
\* statements.
SelfDeadlockOnlyInCallback ==
  GameWaitsFor = "game" =>
    /\ in_callback # None
    /\ \/ gpc = "conn_lock"
       \/ gpc = "stmts_lock" /\ in_callback \in stmts[sconn]

\* can_close() and prepare_close() walk mysql::stmts without its mutex: no
\* prepare() is growing that vector meanwhile, because prepare() needs an idle
\* connection and a connection the runner closes does not become idle again.
StmtVectorNotShared ==
  rpc \in {"can_close", "prepare_close"} => ~ (gpc = "emplace" /\ sconn = rconn)

\* A statement keeps a bare pointer to its connection (mysql::stmt::owner): a
\* connection is not deleted while it has statements or one is being prepared.
OwnerOutlivesStatements ==
  \A c \in Conns : step_[c] = "gone" => stmts[c] = {} /\ ~ (Preparing /\ sconn = c)

\* The runner thread does the deleting, but a plugin's owned_instances hold a
\* deleted object only while the plugin is being unloaded, or after that loop has
\* touched one: and then it is one that was let go of earlier and whose deletion
\* the runner came to during the loop.
OwnedAreAlive ==
  \A o \in owned_instances : ~Live(o) => gpc \in {"unload", "crash"} /\ freed[o] > 0

\* The client library closes a handle a second time only if the object was
\* freed a second time.
ClosedTwiceOnlyIfFreedTwice ==
  [][\A o \in Objs : step_[o] = "close_done" /\ step_'[o] = "close_start"
                     => freed'[o] > 1]_vars

\* Once its plugin is unloaded, the callback of an object does not run, unless
\* the object was never among the plugin's while that was loaded: it was registered
\* with nobody assumed to be running, or in a callback that outlived the unload.
NoCallbackAfterUnload ==
  \A o \in belonged : callback[o] => loaded /\ o \in owned_instances

\* Unloading a plugin while the runner thread deletes what it owns: its list
\* holds deleted objects in the named case only, and what the plugin owned does
\* not call it back afterwards.
UnloadIsClean == OwnedAreAlive /\ NoCallbackAfterUnload

\* A free is undone in two places only: by the runner, which stores the outcome
\* of an opening call it began before the free, and by the frame, which stores
\* the idle step after a callback that did the freeing.
FreeUndoneOnlyByStaleStore ==
  [][\A o \in Objs : step_[o] \in Closing /\ step_'[o] \notin Closing =>
       \/ rpc = "store" /\ robj = o /\ rstep \notin Closing
       \/ gpc = "store" /\ gobj = o /\ gstep \in Opened /\ delivered[o]]_vars

\* step_ goes back for no other reason: neither thread repeats, with a step it
\* loaded earlier, what the other has done.
StepsGoBackOnlyBy == FreeUndoneOnlyByStaleStore /\ ClosedTwiceOnlyIfFreedTwice

\* Somebody is between the load of an opening step, or the delivery of a result,
\* and the store that will undo a free of o.
StaleStorePending(o) ==
  \/ rpc \in {"lock_obj", "call", "store"} /\ robj = o /\ rstep \notin Closing
  \/ gpc = "store" /\ gobj = o
  \/ in_callback = o

\* A connection that is closing while it has statements is closing for ever:
\* handle_stmts() runs for idle connections only, so the statements that
\* prepare_close() marks are never closed and can_close() never holds.
StuckClosing(c) ==
  /\ step_[c] \in {"close_start", "close_wait"} /\ stmts[c] # {}
  /\ ~ StaleStorePending(c) /\ ~ (VisitingStmts /\ rconn = c)
ClosingWithStatementsIsStuck ==
  [][\A c \in Conns : StuckClosing(c) => StuckClosing(c)']_vars

\* A connection in the list is resolved: its result is delivered, or somebody
\* has freed it, or the process goes down or has crashed in unload().
ConnectionResolved ==
  \A c \in Conns : c \in mysqls ~> delivered[c] \/ freed[c] > 0 \/ done \/ gpc = "crash"

\* A free that no stale store undoes is carried out: a connection without
\* statements is deleted, also when it was freed for having failed, and a
\* statement as long as its connection stays idle.
FreedIsDeleted ==
  \A c \in Conns :
    /\ (c \in mysqls /\ step_[c] = "close_start" /\ stmts[c] = {} /\ ~ StaleStorePending(c))
         ~> (step_[c] = "gone" \/ done \/ gpc = "crash")
    /\ \A s \in Stmts :
         (s \in stmts[c] /\ step_[s] = "close_start" /\ ~ StaleStorePending(s))
           ~> (step_[s] = "gone" \/ step_[c] # "connect_idle" \/ done \/ gpc = "crash")

\* What a script asks for ends: with a result it is told and, once it is freed,
\* with its deletion.
RequestsEnd == ConnectionResolved /\ FreedIsDeleted

-----------------------------------------------------------------------------
(* What a script sees of the two threads *)

\* The statements on a connection, the one prepare() is making included, which
\* is a statement with a pointer to its owner before it is in the owner's list.
Children(c) ==
  stmts[c] \cup (IF gpc \in {"prepare_new", "stmts_lock", "emplace"} /\ sconn = c
                THEN {sobj} ELSE {})

R == INSTANCE Requests WITH
       alive     <- {o \in Objs : Live(o)},
       asked     <- {o \in Objs : step_[o] # "absent"},
       children  <- [c \in Conns |-> Children(c)],
       listening <- {o \in Objs : callback[o]},
       told      <- {o \in Objs : delivered[o]},
       telling   <- in_callback,
       released  <- {o \in Objs : freed[o] > 0}

\* The stores of the two threads, in whatever order they come, look to a script
\* like requests that are answered at most once and live until they are let go.
ImplementsRequests == R!Spec

=============================================================================
