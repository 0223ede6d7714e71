--------------------------- MODULE NetMysqlProofs ---------------------------
(***************************************************************************)
(* What holds of NetMysql for every set of connections and statements,     *)
(* of its locks, then of what lives, and that it implements Requests.      *)
(* The invariant ties the mutexes to the control points of the two         *)
(* threads (a mutex is held exactly inside its scope), and the step of the *)
(* connection in hand to what each thread is about to do with it.          *)
(***************************************************************************)
EXTENDS NetMysql, TLAPS

\* The operands of a control point are what the code there works on.
RunnerControl ==
  /\ rpc \notin {"top", "lock", "conns", "exited"} => rconn \in Conns
  /\ rpc \in {"lock_obj", "call", "store"} => robj \in Stmts \/ robj = rconn
  /\ rpc = "can_close" => robj = rconn /\ rstep = "close_start"
  /\ rpc = "erase_stmt" => robj \in Stmts

\* The game thread is in run_stmt_callbacks().
DeliveringStmts ==
  \/ gpc = "stmts"
  \/ gobj \in Stmts /\ (gpc \in {"lock_obj", "callback", "store"} \/ in_callback # None)

GameControl ==
  /\ gpc = "lock_stmts" \/ DeliveringStmts => gconn \in Conns
  /\ gpc \in {"lock_obj", "callback", "store"} => gobj \in Objs
  /\ gpc = "callback" => in_callback = gobj
  /\ gpc \in {"idle", "lock", "conns", "lock_stmts", "stmts", "lock_obj", "store",
              "unload", "join", "end", "crash"} => in_callback = None
  /\ in_callback # None => gobj = in_callback
  /\ gpc \in {"use_lock", "use", "initialize"} => sobj \in Objs
  /\ gpc = "conn_lock" => sobj \in Conns
  /\ Preparing => sconn \in Conns /\ sobj \in Stmts

\* mysqls_mx is held by the runner for its whole pass and by the game thread
\* for the whole frame, the callbacks included.
ListLocked ==
  /\ mysqls_mx = "runner" <=> rpc \notin {"top", "lock", "exited"}
  /\ mysqls_mx = "game" <=>
       \/ gpc \in {"conns", "lock_stmts", "stmts", "lock_obj", "callback", "store"}
       \/ in_callback # None

\* The runner holds one obj_mx, for the duration of a library call, and the
\* game thread that of the object whose callback runs and of the one it uses.
ObjLocked ==
  /\ \A o \in Objs :
       /\ obj_mx[o] = "runner" <=> rpc = "call" /\ robj = o
       /\ obj_mx[o] = "game" <=>
            \/ in_callback = o
            \/ gpc = "use" /\ sobj = o
            \/ gpc = "prepare_new" /\ sconn = o
  /\ gpc = "use" => in_callback # sobj
  /\ gpc = "prepare_new" => in_callback # sconn

\* stmts_mx is held around each thread's statement loop and around emplace.
StmtsLocked ==
  /\ \A c \in Conns :
       /\ stmts_mx[c] = "runner" <=> rconn = c /\ VisitingStmts /\ rpc # "lock_stmts"
       /\ stmts_mx[c] = "game" =>
            \/ gpc = "emplace" /\ sconn = c
            \/ gconn = c /\ DeliveringStmts
  /\ gpc = "emplace" => stmts_mx[sconn] = "game"

\* What the runner is about to do with a connection fits the connection's step:
\* it opens one that is opening or has been freed since, and closes one that
\* has been freed and has no statements.
ConnInHand ==
  /\ rpc \in {"lock_obj", "call", "store"} /\ robj \in Conns =>
       /\ step_[robj] \in Opening \cup Closing
       /\ rpc # "store" => rstep \in Opening \cup Closing
       /\ rstep \in Closing => step_[robj] \in Closing /\ stmts[robj] = {}
  /\ rpc \in {"can_close", "prepare_close", "erase"} => step_[rconn] \in Closing
  /\ rpc = "erase" => stmts[rconn] = {}

\* prepare() runs on an idle connection from its check to its emplace.
PreparingIdle == Preparing => step_[sconn] = "connect_idle"

ClosedEmpty == \A c \in Conns : step_[c] \in {"close_done", "gone"} => stmts[c] = {}

IInv == /\ TypeOK /\ RunnerControl /\ GameControl
        /\ ListLocked /\ ObjLocked /\ StmtsLocked
        /\ ConnInHand /\ PreparingIdle /\ ClosedEmpty

-----------------------------------------------------------------------------
USE ConstAssumption, NoneAssumption DEF Objs

LEMMA InitInv == Init => IInv
<1> SUFFICES ASSUME Init PROVE IInv
  OBVIOUS
<1>1. TypeOK
  BY DEF Init, TypeOK, Steps, Mutex, None
<1>2. RunnerControl /\ GameControl /\ ListLocked
  BY DEF Init, RunnerControl, GameControl, DeliveringStmts, ListLocked, Preparing, None
<1>3. ObjLocked /\ StmtsLocked /\ ConnInHand /\ PreparingIdle /\ ClosedEmpty
  BY DEF Init, ObjLocked, StmtsLocked, VisitingStmts, DeliveringStmts, ConnInHand, PreparingIdle, Preparing, ClosedEmpty, None
<1> QED
  BY <1>1, <1>2, <1>3 DEF IInv

USE DEF IInv, TypeOK, Mutex, Threads, None, Steps, ConnSteps, StmtSteps, RunnerControl,
        GameControl, ListLocked, ObjLocked, StmtsLocked, VisitingStmts, DeliveringStmts,
        ConnInHand, PreparingIdle, ClosedEmpty, Preparing, lists, locks, instances, history, flags, shared, rvisit, gvisit, script

LEMMA RunnerInv == IInv /\ RunnerNext => IInv'
<1> SUFFICES ASSUME IInv, RunnerNext PROVE IInv'
  OBVIOUS
<1> USE DEF game
<1>1. CASE RunnerLoop
  BY <1>1 DEF RunnerLoop, KeepRunning
<1>2. CASE BeginPass
  BY <1>2 DEF BeginPass
<1>3. CASE EndPass
  BY <1>3 DEF EndPass
<1>4. CASE LockObj
  BY <1>4 DEF LockObj
<1>5. CASE LibraryCall
  BY <1>5 DEF LibraryCall, Outcomes, StepFor, NextObj, Opening, Closing
<1>6. CASE StoreOutcome
  BY <1>6 DEF StoreOutcome, NextObj, Opening, Closing
<1>7. CASE CanClose
  BY <1>7 DEF CanClose, can_close, Closing
<1>8. CASE PrepareClose
  BY <1>8 DEF PrepareClose, can_close, Closing
<1>9. CASE EraseConn
  BY <1>9 DEF EraseConn, Destroy, Detach, LeaveOwner, Closing
<1>10. CASE LockStmts
  BY <1>10 DEF LockStmts
<1>11. CASE EraseStmt
  BY <1>11 DEF EraseStmt, Destroy, Detach, LeaveOwner
<1>12. CASE EndStmts
  BY <1>12 DEF EndStmts
<1>13. ASSUME NEW c \in Conns, LoadConn(c) PROVE IInv'
  BY <1>13 DEF LoadConn, ConnBranch, Opening, Closing
<1>14. ASSUME NEW s \in Stmts, LoadStmt(s) PROVE IInv'
  BY <1>14 DEF LoadStmt, StmtBranch, Opening
<1> QED
  BY <1>1, <1>2, <1>3, <1>4, <1>5, <1>6, <1>7, <1>8, <1>9, <1>10, <1>11, <1>12, <1>13, <1>14 DEF RunnerNext

LEMMA FrameInv == IInv /\ FrameNext => IInv'
<1> SUFFICES ASSUME IInv, FrameNext PROVE IInv'
  OBVIOUS
<1> USE DEF runner
<1>1. CASE FrameBegin
  BY <1>1 DEF FrameBegin
<1>2. CASE FrameLock
  BY <1>2 DEF FrameLock
<1>3. CASE FrameEnd
  BY <1>3 DEF FrameEnd
<1>4. CASE FrameLockStmts
  BY <1>4 DEF FrameLockStmts
<1>5. CASE FrameEndStmts
  BY <1>5 DEF FrameEndStmts
<1>6. CASE CallbackBegin
  BY <1>6 DEF CallbackBegin
<1>7. CASE CallbackEnd
  BY <1>7 DEF CallbackEnd
<1>8. CASE StoreDelivered
  <2>1. TypeOK'
    BY <1>8 DEF StoreDelivered, AfterDelivery, StepFor, Opened, Opening, Closing, Failed
  <2>2. (RunnerControl /\ GameControl)'
    BY <1>8 DEF StoreDelivered, AfterDelivery, StepFor, Opened, Opening, Closing, Failed
  <2>3. (ListLocked /\ ObjLocked)'
    BY <1>8 DEF StoreDelivered, AfterDelivery, StepFor, Opened, Opening, Closing, Failed
  <2>4. StmtsLocked'
    BY <1>8 DEF StoreDelivered, AfterDelivery, StepFor, Opened, Opening, Closing, Failed
  <2>5. ConnInHand'
    BY <1>8 DEF StoreDelivered, AfterDelivery, StepFor, Opened, Opening, Closing, Failed
  <2>6. (PreparingIdle /\ ClosedEmpty)'
    BY <1>8 DEF StoreDelivered, AfterDelivery, StepFor, Opened, Opening, Closing, Failed
  <2> QED
    BY <2>1, <2>2, <2>3, <2>4, <2>5, <2>6
<1>9. ASSUME NEW c \in Conns, FrameConn(c) PROVE IInv'
  BY <1>9 DEF FrameConn, Deliver
<1>10. ASSUME NEW s \in Stmts, FrameStmt(s) PROVE IInv'
  BY <1>10 DEF FrameStmt, Deliver
<1> QED
  BY <1>1, <1>2, <1>3, <1>4, <1>5, <1>6, <1>7, <1>8, <1>9, <1>10 DEF FrameNext

LEMMA ScriptStepInv == IInv /\ ScriptStep => IInv'
<1> SUFFICES ASSUME IInv, ScriptStep PROVE IInv'
  OBVIOUS
<1> USE DEF runner
<1>1. CASE UseLock
  BY <1>1 DEF UseLock
<1>2. CASE UseEnd
  BY <1>2 DEF UseEnd, AfterScript
<1>3. CASE ConnEmplace
  BY <1>3 DEF ConnEmplace
<1>4. CASE Initialize
  BY <1>4 DEF Initialize, SetPlugin, Free, AfterScript, Opening, Closing
<1>5. CASE PrepareNew
  BY <1>5 DEF PrepareNew, Opening, Closing
<1>6. CASE PrepareUnlock
  BY <1>6 DEF PrepareUnlock
<1>7. CASE PrepareLockStmts
  BY <1>7 DEF PrepareLockStmts
<1>8. CASE PrepareEmplace
  <2>1. TypeOK'
    BY <1>8 DEF PrepareEmplace, Opening, Closing
  <2>2. (RunnerControl /\ GameControl)'
    BY <1>8 DEF PrepareEmplace, Opening, Closing
  <2>3. (ListLocked /\ ObjLocked)'
    BY <1>8 DEF PrepareEmplace, Opening, Closing
  <2>4. StmtsLocked'
    BY <1>8 DEF PrepareEmplace, Opening, Closing
  <2>5. ConnInHand'
    BY <1>8 DEF PrepareEmplace, Opening, Closing
  <2>6. (PreparingIdle /\ ClosedEmpty)'
    BY <1>8 DEF PrepareEmplace, Opening, Closing
  <2> QED
    BY <2>1, <2>2, <2>3, <2>4, <2>5, <2>6
<1> QED
  BY <1>1, <1>2, <1>3, <1>4, <1>5, <1>6, <1>7, <1>8 DEF ScriptStep

LEMMA ScriptCallInv == IInv /\ ScriptCall => IInv'
<1> SUFFICES ASSUME IInv, ScriptCall PROVE IInv'
  OBVIOUS
<1> USE DEF runner
<1>1. ASSUME NEW o \in Objs, ScriptFree(o) PROVE IInv'
  BY <1>1 DEF ScriptFree, game, Free, InScript, Closing, Opening
<1>2. ASSUME NEW o \in Objs, ScriptUse(o) PROVE IInv'
  BY <1>2 DEF ScriptUse, InScript, TakesLock
<1>3. ASSUME NEW c \in Conns, ScriptConn(c) PROVE IInv'
  BY <1>3 DEF ScriptConn, InScript, Opening, Closing
<1>4. ASSUME NEW c \in Conns, NEW s \in Stmts, ScriptPrepare(c, s) PROVE IInv'
  BY <1>4 DEF ScriptPrepare, InScript, is_available
<1> QED
  BY <1>1, <1>2, <1>3, <1>4 DEF ScriptCall

LEMMA PluginInv ==
  IInv /\ (UnloadBegin \/ UnloadStep \/ Load \/ Shutdown \/ Join) => IInv'
<1> SUFFICES ASSUME IInv, UnloadBegin \/ UnloadStep \/ Load \/ Shutdown \/ Join PROVE IInv'
  OBVIOUS
<1> USE DEF runner
<1>1. CASE UnloadBegin
  BY <1>1 DEF UnloadBegin
<1>2. CASE UnloadEnd
  <2>1. TypeOK'
    <3>1. loaded' \in BOOLEAN
      BY <1>2, Zenon DEF UnloadEnd
    <3> QED
      BY <1>2, <3>1 DEF UnloadEnd
  <2>2. (RunnerControl /\ GameControl)'
    BY <1>2 DEF UnloadEnd
  <2>3. (ListLocked /\ ObjLocked)'
    BY <1>2 DEF UnloadEnd
  <2>4. StmtsLocked'
    BY <1>2 DEF UnloadEnd
  <2>5. ConnInHand'
    BY <1>2 DEF UnloadEnd
  <2>6. (PreparingIdle /\ ClosedEmpty)'
    BY <1>2 DEF UnloadEnd
  <2> QED
    BY <2>1, <2>2, <2>3, <2>4, <2>5, <2>6
<1>3. ASSUME NEW o \in Objs, UnloadOne(o) PROVE IInv'
  BY <1>3 DEF UnloadOne, game, Free, Detach, Live, Closing, Opening
<1>4. CASE Load
  BY <1>4 DEF Load, game
<1>5. CASE Shutdown
  BY <1>5 DEF Shutdown
<1>6. CASE Join
  BY <1>6 DEF Join
<1>7. ASSUME NEW o \in Objs, UnloadDeleted(o) PROVE IInv'
  BY <1>7 DEF UnloadDeleted, Live
<1> QED
  BY <1>1, <1>2, <1>3, <1>4, <1>5, <1>6, <1>7 DEF UnloadStep

-----------------------------------------------------------------------------
HIDE DEF IInv, TypeOK

\* The strengthening is an invariant of the two threads.
THEOREM Invariance == Spec => []IInv
<1>1. IInv /\ UNCHANGED vars => IInv'
  BY DEF IInv, TypeOK, vars, runner, game
<1>2. IInv /\ [Next]_vars => IInv'
  BY <1>1, RunnerInv, FrameInv, ScriptStepInv, ScriptCallInv, PluginInv DEF Next, GameNext
<1> QED
  BY InitInv, <1>2, PTL DEF Spec

\* Every variable keeps its type; close_continue is never stored.
THEOREM TypeCorrect == Spec => []TypeOK
<1>1. IInv => TypeOK
  BY DEF IInv
<1> QED
  BY Invariance, <1>1, PTL

\* The runner and the game thread never wait for a mutex of each other, although
\* handle_mysqls, run_callbacks and the script functions take the mutexes of the
\* singleton, the connections and the statements in different orders.
THEOREM NeverDeadlyEmbrace == Spec => []NoDeadlyEmbrace
<1>1. IInv => NoDeadlyEmbrace
  <2> SUFFICES ASSUME IInv, RunnerWaitsFor = "game" PROVE GameWaitsFor # "runner"
    BY DEF NoDeadlyEmbrace
  <2>1. CASE rpc = "lock"
    <3> USE DEF IInv, TypeOK
    <3>1. /\ mysqls_mx # "runner"
          /\ \A o \in Objs : obj_mx[o] # "runner"
          /\ \A c \in Conns : stmts_mx[c] # "runner"
      BY <2>1
    <3> QED
      BY <3>1 DEF GameWaitsFor
  <2>2. CASE rpc = "lock_obj"
    <3>1. gpc \in {"use", "prepare_new"}
      BY <2>2 DEF RunnerWaitsFor, IInv, TypeOK
    <3> QED
      BY <3>1 DEF GameWaitsFor
  <2>3. CASE rpc = "lock_stmts"
    <3>1. gpc = "emplace"
      BY <2>3 DEF RunnerWaitsFor, IInv, TypeOK
    <3> QED
      BY <3>1 DEF GameWaitsFor
  <2> QED
    BY <2>1, <2>2, <2>3 DEF RunnerWaitsFor
<1> QED
  BY Invariance, <1>1, PTL

\* can_close() and prepare_close() never walk a statement vector that prepare()
\* is growing, although they do not take its mutex.
THEOREM StmtVectorSafe == Spec => []StmtVectorNotShared
<1>1. IInv => StmtVectorNotShared
  BY DEF IInv, StmtVectorNotShared, Closing
<1> QED
  BY Invariance, <1>1, PTL

\* No connection is deleted while a statement, or one being prepared, points at
\* it.
THEOREM OwnerPointerSafe == Spec => []OwnerOutlivesStatements
<1>1. IInv => OwnerOutlivesStatements
  BY DEF IInv, TypeOK, OwnerOutlivesStatements
<1> QED
  BY Invariance, <1>1, PTL

-----------------------------------------------------------------------------
(* What the game thread can wait for while it holds it *)

\* While statements are looked at the game thread holds their mutex, and they
\* stay where they are; prepare() in a callback is on another connection.
StmtInHand ==
  DeliveringStmts =>
    /\ stmts_mx[gconn] = "game" /\ gstmts \subseteq stmts[gconn]
    /\ gpc # "stmts" => gobj \in stmts[gconn]
    /\ gpc = "emplace" => sconn # gconn

\* A connection is not idle before its callback has returned.
ConnDelivering ==
  (gpc = "lock_obj" \/ in_callback # None) /\ gobj \in Conns => step_[gobj] # "connect_idle"

\* A script function waits for the obj_mx of something else than what calls back.
WaitsForOther ==
  /\ gpc = "use_lock" => in_callback # sobj
  /\ gpc = "prepare_lock" => in_callback # sconn

JInv == StmtInHand /\ ConnDelivering /\ WaitsForOther

\* The runner edits statements under their mutex only, and is out of its pass
\* while a callback runs.
LEMMA RunnerKeepsInHand == IInv /\ JInv /\ RunnerNext => JInv'
<1> SUFFICES ASSUME IInv, JInv, RunnerNext PROVE JInv'
  OBVIOUS
<1>1. UNCHANGED game
  BY DEF RunnerNext, RunnerLoop, BeginPass, EndPass, LockObj, LibraryCall, StoreOutcome,
         CanClose, PrepareClose, EraseConn, LockStmts, EraseStmt, EndStmts, LoadConn, LoadStmt
<1>2. WaitsForOther'
  BY <1>1 DEF JInv, WaitsForOther, game
<1>3. CASE mysqls_mx = "game"
  <2>1. RunnerLoop
    BY <1>3 DEF IInv, TypeOK, RunnerNext, RunnerLoop, BeginPass, EndPass, LockObj, LibraryCall,
                StoreOutcome, CanClose, PrepareClose, EraseConn, LockStmts, EraseStmt,
                EndStmts, LoadConn, LoadStmt
  <2> QED
    BY <2>1 DEF RunnerLoop, JInv, StmtInHand, ConnDelivering, WaitsForOther, game
<1>4. CASE mysqls_mx # "game"
  <2>1. ~DeliveringStmts /\ gpc # "lock_obj" /\ in_callback = None
    BY <1>4 DEF IInv, TypeOK
  <2> QED
    BY <1>1, <1>2, <2>1 DEF JInv, StmtInHand, ConnDelivering, game
<1> QED
  BY <1>3, <1>4

LEMMA FrameKeepsInHand == IInv /\ JInv /\ FrameNext => JInv'
<1> SUFFICES ASSUME IInv, JInv, FrameNext PROVE JInv'
  OBVIOUS
<1> USE DEF JInv, StmtInHand, ConnDelivering, WaitsForOther, IInv, TypeOK
<1>1. CASE FrameBegin \/ FrameLock \/ FrameEnd
  BY <1>1 DEF FrameBegin, FrameLock, FrameEnd
<1>2. CASE FrameLockStmts
  BY <1>2 DEF FrameLockStmts
<1>3. CASE FrameEndStmts
  BY <1>3 DEF FrameEndStmts
<1>4. CASE CallbackBegin
  BY <1>4 DEF CallbackBegin
<1>5. CASE CallbackEnd
  BY <1>5 DEF CallbackEnd
<1>6. CASE StoreDelivered
  BY <1>6 DEF StoreDelivered
<1>7. ASSUME NEW c \in Conns, FrameConn(c) PROVE JInv'
  BY <1>7 DEF FrameConn, Deliver, Opened, Failed
<1>8. ASSUME NEW s \in Stmts, FrameStmt(s) PROVE JInv'
  BY <1>8 DEF FrameStmt, Deliver
<1> QED
  BY <1>1, <1>2, <1>3, <1>4, <1>5, <1>6, <1>7, <1>8 DEF FrameNext

LEMMA ScriptKeepsInHand == IInv /\ JInv /\ (ScriptStep \/ ScriptCall) => JInv'
<1> SUFFICES ASSUME IInv, JInv, ScriptStep \/ ScriptCall PROVE JInv'
  OBVIOUS
<1> USE DEF JInv, StmtInHand, ConnDelivering, WaitsForOther, IInv, TypeOK, game
<1>1. CASE UseLock \/ UseEnd \/ ConnEmplace
  BY <1>1 DEF UseLock, UseEnd, ConnEmplace, AfterScript
<1>2. CASE Initialize
  BY <1>2 DEF Initialize, Free, AfterScript
<1>3. CASE PrepareNew
  BY <1>3 DEF PrepareNew
<1>4. CASE PrepareUnlock \/ PrepareLockStmts
  BY <1>4 DEF PrepareUnlock, PrepareLockStmts
<1>5. CASE PrepareEmplace
  BY <1>5 DEF PrepareEmplace
<1>6. ASSUME NEW o \in Objs, ScriptFree(o) \/ ScriptUse(o) PROVE JInv'
  BY <1>6 DEF ScriptFree, ScriptUse, Free, InScript, TakesLock
<1>7. ASSUME NEW c \in Conns, ScriptConn(c) PROVE JInv'
  BY <1>7 DEF ScriptConn, InScript
<1>8. ASSUME NEW c \in Conns, NEW s \in Stmts, ScriptPrepare(c, s) PROVE JInv'
  BY <1>8 DEF ScriptPrepare, InScript, is_available
<1> QED
  BY <1>1, <1>2, <1>3, <1>4, <1>5, <1>6, <1>7, <1>8 DEF ScriptStep, ScriptCall

LEMMA PluginKeepsInHand ==
  IInv /\ JInv /\ (UnloadBegin \/ UnloadStep \/ Load \/ Shutdown \/ Join) => JInv'
<1> SUFFICES ASSUME IInv, UnloadBegin \/ UnloadStep \/ Load \/ Shutdown \/ Join PROVE JInv'
  OBVIOUS
<1>1. gpc \in {"idle", "unload", "join"} /\ in_callback = None
  BY DEF IInv, TypeOK, UnloadBegin, UnloadStep, UnloadEnd, UnloadOne, UnloadDeleted, Load,
     Shutdown, Join
<1>2. gpc' \in {"idle", "unload", "join", "end", "crash"} /\ in_callback' = None
  BY <1>1 DEF UnloadBegin, UnloadStep, UnloadEnd, UnloadOne, UnloadDeleted, Load, Shutdown, Join, game
<1> QED
  BY <1>2 DEF JInv, StmtInHand, ConnDelivering, WaitsForOther

\* The game thread waits for itself in two places only: mysql_conn() in any
\* callback, and prepare() in the callback of a statement of the same
\* connection.
THEOREM SelfDeadlocks == Spec => []SelfDeadlockOnlyInCallback
<1>1. Init => JInv
  BY DEF Init, JInv, StmtInHand, ConnDelivering, WaitsForOther
<1>2. IInv /\ JInv /\ [Next]_vars => JInv'
  <2>1. JInv /\ UNCHANGED vars => JInv'
    BY DEF JInv, StmtInHand, ConnDelivering, WaitsForOther, vars, runner, game
  <2> QED
    BY <2>1, RunnerKeepsInHand, FrameKeepsInHand, ScriptKeepsInHand, PluginKeepsInHand
       DEF Next, GameNext
<1>3. IInv /\ JInv => SelfDeadlockOnlyInCallback
  <2> SUFFICES ASSUME IInv, JInv, GameWaitsFor = "game"
               PROVE  /\ in_callback # None
                      /\ \/ gpc = "conn_lock"
                         \/ gpc = "stmts_lock" /\ in_callback \in stmts[sconn]
    BY DEF SelfDeadlockOnlyInCallback
  <2>1. gpc \in {"conn_lock", "stmts_lock"}
    BY DEF GameWaitsFor, IInv, TypeOK, JInv, WaitsForOther
  <2>2. CASE gpc = "conn_lock"
    BY <2>2 DEF GameWaitsFor, IInv, TypeOK
  <2>3. CASE gpc = "stmts_lock"
    BY <2>3 DEF GameWaitsFor, IInv, TypeOK, JInv, StmtInHand
  <2> QED
    BY <2>1, <2>2, <2>3
<1> QED
  BY Invariance, <1>1, <1>2, <1>3, PTL DEF Spec

-----------------------------------------------------------------------------
(* NetMysql implements Requests, and what follows from the same invariant. *)
(* It says who can still reach an object: the lists hold live objects      *)
(* only, a thread that has one in hand took it from a list, and the step   *)
(* it took from the object is no longer true in the ways the invariant     *)
(* names only.                                                             *)

\* The runner visits a connection, or is about to act on the step it loaded.
Visiting == rpc \notin {"top", "lock", "conns", "exited"}
Handling == rpc \in {"lock_obj", "call", "store"}

\* What the lists hold is not deleted, and a statement has one owner.
ListsLive ==
  /\ \A c \in mysqls : Live(c)
  /\ \A c \in Conns : \A s \in stmts[c] : Live(s)
  /\ \A c, d \in Conns : c # d => stmts[c] \cap stmts[d] = {}
  /\ Preparing => \A c \in Conns : sobj \notin stmts[c]

\* What the runner has in hand is in a list, and will not be met again.
RunnerVisit ==
  /\ rpc = "conns" \/ Visiting => rconns \subseteq mysqls
  /\ Visiting => rconn \in mysqls \ rconns
  /\ VisitingStmts /\ rpc # "lock_stmts" => rstmts \subseteq stmts[rconn]
  /\ (Handling /\ robj \in Stmts) \/ rpc = "erase_stmt" => robj \in stmts[rconn] \ rstmts

\* The runner opens what was not yet delivered, and closes and deletes what
\* was freed.
RunnerStores ==
  /\ rpc \in {"lock_obj", "call"} => rstep \in Opening \cup {"close_start"}
  /\ rpc = "store" => rstep \in Opening \cup Opened \cup Failed \cup {"close_done"}
  /\ Handling => IF rstep \in Closing THEN freed[robj] > 0 ELSE ~delivered[robj]
  /\ rpc \in {"can_close", "erase"} => freed[rconn] > 0
  /\ rpc = "erase_stmt" => freed[robj] > 0
  /\ rpc = "prepare_close" => step_[rconn] \in {"close_wait", "close_start"}

Delivering == gpc = "store" \/ in_callback # None

\* While the frame delivers a result nobody but its callback changes the step.
GameVisit ==
  /\ gpc = "lock_obj" => callback[gobj] /\ step_[gobj] = gstep
  /\ gpc = "lock_obj" \/ Delivering =>
       gstep \in Opened \cup Failed /\ step_[gobj] \in {gstep, "close_start"}
  /\ in_callback # None => delivered[in_callback]
  /\ gpc = "store" => delivered[gobj] \/ (~callback[gobj] /\ step_[gobj] = gstep)

\* A result that was delivered is never the step of its object again.
ToldOnce ==
  \A o \in Objs :
    /\ delivered[o] => step_[o] \in Idle \cup Closing \/ (Delivering /\ gobj = o)
    /\ step_[o] \in Idle /\ callback[o] => delivered[o]

\* Nobody frees or is told of what mysql_conn() and prepare() are making.
Fresh ==
  /\ gpc = "prepare_lock" => step_[sobj] = "absent"
  /\ gpc \in {"conn_lock", "prepare_new", "stmts_lock", "emplace", "initialize"} =>
       /\ step_[sobj] \in Opening \cup Opened \cup Failed
       /\ callback[sobj] /\ freed[sobj] = 0 /\ sobj \notin belonged
  /\ \A o \in Objs : step_[o] = "absent" =>
       freed[o] = 0 /\ ~delivered[o] /\ o \notin belonged /\ o \notin owned_instances

\* What scripts can reach is alive and has its callback.
Reached ==
  /\ \A o \in Objs : callback[o] => Live(o)
  /\ \A o \in handles : callback[o]
  /\ Preparing => callback[sconn]

\* What is being closed was freed, but for the statements prepare_close() marks,
\* whose connection is then closing for ever.
ReleasedFirst ==
  /\ \A c \in Conns : step_[c] \in Closing => freed[c] > 0
  /\ \A o \in Objs : step_[o] = "close_done" => freed[o] > 0
  /\ \A c \in Conns : \A s \in stmts[c] :
       step_[s] \in Closing => freed[s] > 0 \/ StuckClosing(c)

\* The plugin's list names every object it owns that can still call back, and
\* deleted ones, let go of before, only while it is being cleared.
OwnedByPlugin ==
  /\ OwnedAreAlive /\ NoCallbackAfterUnload
  /\ loaded => owned_instances \subseteq belonged
  /\ gpc \in {"unload", "crash"} => loaded

LInv == /\ ListsLive /\ RunnerVisit /\ RunnerStores /\ GameVisit /\ ToldOnce
        /\ Fresh /\ Reached /\ ReleasedFirst /\ OwnedByPlugin

-----------------------------------------------------------------------------
(* The invariant is inductive relative to IInv *)

USE ConstAssumption, NoneAssumption DEF Objs
USE DEF IInv, TypeOK, Mutex, Threads, None, Steps, ConnSteps, StmtSteps, RunnerControl,
        GameControl, ListLocked, ObjLocked, StmtsLocked, VisitingStmts, DeliveringStmts,
        ConnInHand, PreparingIdle, ClosedEmpty, Preparing,
        lists, locks, instances, history, flags, shared, rvisit, gvisit, script
USE DEF LInv, ListsLive, RunnerVisit, RunnerStores, GameVisit, ToldOnce, Fresh, Reached,
        ReleasedFirst, OwnedByPlugin, OwnedAreAlive, NoCallbackAfterUnload, Visiting, Handling, Delivering,
        Live, StuckClosing, StaleStorePending, Opening, Opened, Failed, Idle, Closing

\* Before anything is asked for, nothing can be reached.
LEMMA InitLife == Init => LInv
  BY DEF Init

\* The runner keeps to what it took from the lists (handle_mysqls, handle_stmts).
LEMMA RunnerKeepsLife == IInv /\ IInv' /\ LInv /\ RunnerNext => LInv'
<1> SUFFICES ASSUME IInv, IInv', LInv, RunnerNext PROVE LInv'
  OBVIOUS
<1> USE DEF game
<1>1. CASE RunnerLoop
  BY <1>1 DEF RunnerLoop, KeepRunning
<1>2. CASE BeginPass
  BY <1>2 DEF BeginPass
<1>3. CASE EndPass
  BY <1>3 DEF EndPass
<1>4. CASE LockObj
  BY <1>4 DEF LockObj
<1>5. CASE LibraryCall
  BY <1>5 DEF LibraryCall, Outcomes, StepFor, NextObj
<1>6. CASE StoreOutcome
  BY <1>6 DEF StoreOutcome, NextObj
<1>7. CASE CanClose
  BY <1>7 DEF CanClose, can_close
<1>8. CASE PrepareClose
  BY <1>8 DEF PrepareClose, can_close
<1>9. CASE EraseConn
  BY <1>9 DEF EraseConn, Destroy, Detach, LeaveOwner, clearing_instances
<1>10. CASE LockStmts
  BY <1>10 DEF LockStmts
<1>11. CASE EraseStmt
  BY <1>11 DEF EraseStmt, Destroy, Detach, LeaveOwner, clearing_instances
<1>12. CASE EndStmts
  BY <1>12 DEF EndStmts
<1>13. ASSUME NEW c \in Conns, LoadConn(c) PROVE LInv'
  BY <1>13 DEF LoadConn, ConnBranch
<1>14. ASSUME NEW s \in Stmts, LoadStmt(s) PROVE LInv'
  BY <1>14 DEF LoadStmt, StmtBranch
<1> QED
  BY <1>1, <1>2, <1>3, <1>4, <1>5, <1>6, <1>7, <1>8, <1>9, <1>10, <1>11, <1>12, <1>13, <1>14
     DEF RunnerNext

\* The frame delivers what it found in the lists (run_callbacks).
LEMMA FrameKeepsLife == IInv /\ IInv' /\ LInv /\ FrameNext => LInv'
<1> SUFFICES ASSUME IInv, IInv', LInv, FrameNext PROVE LInv'
  OBVIOUS
<1> USE DEF runner
<1>1. CASE FrameBegin
  BY <1>1 DEF FrameBegin
<1>2. CASE FrameLock
  BY <1>2 DEF FrameLock
<1>3. CASE FrameEnd
  BY <1>3 DEF FrameEnd
<1>4. CASE FrameLockStmts
  BY <1>4 DEF FrameLockStmts
<1>5. CASE FrameEndStmts
  BY <1>5 DEF FrameEndStmts
<1>6. CASE CallbackBegin
  BY <1>6 DEF CallbackBegin
<1>7. CASE CallbackEnd
  BY <1>7 DEF CallbackEnd
<1>8. CASE StoreDelivered
  BY <1>8 DEF StoreDelivered, AfterDelivery, StepFor
<1>9. ASSUME NEW c \in Conns, FrameConn(c) PROVE LInv'
  BY <1>9 DEF FrameConn, Deliver
<1>10. ASSUME NEW s \in Stmts, FrameStmt(s) PROVE LInv'
  BY <1>10 DEF FrameStmt, Deliver
<1> QED
  BY <1>1, <1>2, <1>3, <1>4, <1>5, <1>6, <1>7, <1>8, <1>9, <1>10 DEF FrameNext

\* What mysql_conn() and prepare() make is in a list before a script can reach it.
LEMMA ScriptStepKeepsLife == IInv /\ IInv' /\ LInv /\ ScriptStep => LInv'
<1> SUFFICES ASSUME IInv, IInv', LInv, ScriptStep PROVE LInv'
  OBVIOUS
<1> USE DEF runner
<1>1. CASE UseLock
  BY <1>1 DEF UseLock
<1>2. CASE UseEnd
  BY <1>2 DEF UseEnd, AfterScript
<1>3. CASE ConnEmplace
  BY <1>3 DEF ConnEmplace
<1>4. CASE Initialize
  BY <1>4 DEF Initialize, SetPlugin, Free, AfterScript
<1>5. CASE PrepareNew
  BY <1>5 DEF PrepareNew
<1>6. CASE PrepareUnlock
  BY <1>6 DEF PrepareUnlock
<1>7. CASE PrepareLockStmts
  BY <1>7 DEF PrepareLockStmts
<1>8. CASE PrepareEmplace
  BY <1>8 DEF PrepareEmplace
<1> QED
  BY <1>1, <1>2, <1>3, <1>4, <1>5, <1>6, <1>7, <1>8 DEF ScriptStep

\* A script works on what it has a handle to.
LEMMA ScriptCallKeepsLife == IInv /\ IInv' /\ LInv /\ ScriptCall => LInv'
<1> SUFFICES ASSUME IInv, IInv', LInv, ScriptCall PROVE LInv'
  OBVIOUS
<1> USE DEF runner
<1>1. ASSUME NEW o \in Objs, ScriptFree(o) PROVE LInv'
  BY <1>1 DEF ScriptFree, Free, InScript, game
<1>2. ASSUME NEW o \in Objs, ScriptUse(o) PROVE LInv'
  BY <1>2 DEF ScriptUse, InScript, TakesLock
<1>3. ASSUME NEW c \in Conns, ScriptConn(c) PROVE LInv'
  BY <1>3 DEF ScriptConn, InScript
<1>4. ASSUME NEW c \in Conns, NEW s \in Stmts, ScriptPrepare(c, s) PROVE LInv'
  BY <1>4 DEF ScriptPrepare, InScript, is_available
<1> QED
  BY <1>1, <1>2, <1>3, <1>4 DEF ScriptCall

\* unload() takes the callbacks with the list that names them.
LEMMA PluginKeepsLife ==
  IInv /\ IInv' /\ LInv /\ (UnloadBegin \/ UnloadStep \/ Load \/ Shutdown \/ Join) => LInv'
<1> SUFFICES ASSUME IInv, IInv', LInv, UnloadBegin \/ UnloadStep \/ Load \/ Shutdown \/ Join
             PROVE  LInv'
  OBVIOUS
<1> USE DEF runner
<1>1. CASE UnloadBegin
  BY <1>1 DEF UnloadBegin
<1>2. CASE UnloadEnd
  BY <1>2 DEF UnloadEnd, clearing_instances
<1>3. ASSUME NEW o \in Objs, UnloadOne(o) PROVE LInv'
  BY <1>3 DEF UnloadOne, Free, Detach, game
<1>4. CASE Load
  BY <1>4 DEF Load, game
<1>5. CASE Shutdown
  BY <1>5 DEF Shutdown
<1>6. CASE Join
  BY <1>6 DEF Join
<1>7. ASSUME NEW o \in Objs, UnloadDeleted(o) PROVE LInv'
  BY <1>7 DEF UnloadDeleted, game
<1> QED
  BY <1>1, <1>2, <1>3, <1>4, <1>5, <1>6, <1>7 DEF UnloadStep

-----------------------------------------------------------------------------
HIDE DEF IInv, TypeOK, RunnerControl, GameControl, ListLocked, ObjLocked, StmtsLocked,
         ConnInHand, PreparingIdle, ClosedEmpty, LInv, ListsLive, RunnerVisit, RunnerStores,
         GameVisit, ToldOnce, Fresh, Reached, ReleasedFirst, OwnedByPlugin, OwnedAreAlive,
         NoCallbackAfterUnload, StuckClosing, StaleStorePending

\* Every step of the two threads keeps the invariant.
LEMMA LifeStep == IInv /\ IInv' /\ LInv /\ [Next]_vars => LInv'
<1>1. LInv /\ UNCHANGED vars => LInv'
  BY DEF LInv, ListsLive, RunnerVisit, RunnerStores, GameVisit, ToldOnce, Fresh, Reached,
         ReleasedFirst, OwnedByPlugin, OwnedAreAlive, NoCallbackAfterUnload, StuckClosing,
         StaleStorePending, vars, runner, game
<1> QED
  BY <1>1, RunnerKeepsLife, FrameKeepsLife, ScriptStepKeepsLife, ScriptCallKeepsLife,
     PluginKeepsLife DEF Next, GameNext

\* What the threads have in hand is what they may act on, always.
THEOREM LifeInvariance == Spec => []LInv
  BY InitLife, LifeStep, Invariance, PTL DEF Spec

\* The loop of plugin::unload meets a deleted object in one case only, one that
\* was let go of before and that the runner deleted during the loop; and what the
\* plugin owned when it was loaded does not call it back after the unload.
THEOREM UnloadClean == Spec => []UnloadIsClean
<1>1. IInv /\ LInv => UnloadIsClean
  BY DEF LInv, OwnedByPlugin, UnloadIsClean
<1> QED
  BY <1>1, Invariance, LifeInvariance, PTL

-----------------------------------------------------------------------------
(* How a step goes back *)

\* Whoever changes a step, and from which to which.
LEMMA Stores ==
  ASSUME IInv, LInv, Next, NEW o \in Objs
  PROVE  \/ step_'[o] = step_[o] \/ step_[o] = "absent"
         \/ StoreOutcome /\ o = robj
         \/ StoreDelivered /\ o = gobj
         \/ ((EraseConn /\ o = rconn) \/ (EraseStmt /\ o = robj)) /\ step_'[o] = "gone"
         \/ CanClose /\ step_'[o] = "close_wait"
         \/ /\ PrepareClose /\ step_'[o] = "close_start"
            /\ step_[o] \in {"prepare_idle", "close_wait", "close_start"}
         \/ step_'[o] = "close_start" /\ freed'[o] = freed[o] + 1
<1> USE DEF IInv, TypeOK
<1>1. CASE UNCHANGED step_
  BY <1>1
<1>2. CASE StoreOutcome
  BY <1>2 DEF StoreOutcome
<1>3. CASE StoreDelivered
  BY <1>3 DEF StoreDelivered
<1>4. CASE EraseConn
  <2>1. step_'[o] = IF o = rconn THEN "gone" ELSE step_[o]
    BY <1>4 DEF EraseConn, Destroy, RunnerControl
  <2> QED
    BY <1>4, <2>1
<1>10. CASE EraseStmt
  <2>1. step_'[o] = IF o = robj THEN "gone" ELSE step_[o]
    BY <1>10 DEF EraseStmt, Destroy, RunnerControl
  <2> QED
    BY <1>10, <2>1
<1>5. CASE CanClose
  BY <1>5 DEF CanClose
<1>6. CASE PrepareClose
  BY <1>6 DEF PrepareClose, LInv, RunnerStores
<1>7. CASE Initialize \/ \E q \in Objs : ScriptFree(q) \/ UnloadOne(q)
  <2>1. UNCHANGED step_ \/ \E q \in Objs : Free(q)
    BY <1>7 DEF Initialize, ScriptFree, UnloadOne, GameControl
  <2> QED
    BY <2>1 DEF Free
<1>8. CASE PrepareNew \/ \E c \in Conns : ScriptConn(c)
  BY <1>8 DEF PrepareNew, ScriptConn, LInv, Fresh
<1>9. \/ UNCHANGED step_ \/ StoreOutcome \/ StoreDelivered \/ EraseConn \/ EraseStmt
      \/ CanClose \/ PrepareClose \/ Initialize \/ PrepareNew
      \/ \E q \in Objs : ScriptFree(q) \/ UnloadOne(q)
      \/ \E c \in Conns : ScriptConn(c)
  <2>1. CASE RunnerNext
    BY <2>1 DEF RunnerNext, RunnerLoop, BeginPass, EndPass, LockObj, LibraryCall, LockStmts,
                EndStmts, LoadConn, LoadStmt
  <2>2. CASE FrameNext
    BY <2>2 DEF FrameNext, FrameBegin, FrameLock, FrameEnd, FrameLockStmts, FrameEndStmts,
                CallbackBegin, CallbackEnd, FrameConn, FrameStmt
  <2>3. CASE ScriptStep \/ ScriptCall
    BY <2>3 DEF ScriptStep, ScriptCall, UseLock, UseEnd, ConnEmplace, PrepareUnlock,
                PrepareLockStmts, PrepareEmplace, ScriptUse, ScriptPrepare
  <2>4. CASE UnloadBegin \/ UnloadStep \/ Load \/ Shutdown \/ Join
    BY <2>4 DEF UnloadStep, UnloadBegin, UnloadEnd, UnloadDeleted, Load, Shutdown, Join
  <2> QED
    BY <2>1, <2>2, <2>3, <2>4 DEF Next, GameNext
<1> QED
  BY <1>1, <1>2, <1>3, <1>4, <1>5, <1>6, <1>7, <1>8, <1>9, <1>10

\* The steps of the two threads go back for the reasons the property names: a
\* stale store of either undoes a free, and a handle is closed again only for a
\* second free (the stores of handle_mysqls, run_callbacks and free()).
THEOREM StepsGoBack == Spec => StepsGoBackOnlyBy
<1> DEFINE Undone(o) == \/ rpc = "store" /\ robj = o /\ rstep \notin Closing
                        \/ gpc = "store" /\ gobj = o /\ gstep \in Opened /\ delivered[o]
           UndoneRight(o) == step_[o] \in Closing /\ step_'[o] \notin Closing => Undone(o)
           ClosedRight(o) == step_[o] = "close_done" /\ step_'[o] = "close_start" => freed'[o] > 1
<1>1. ASSUME IInv, LInv, Next, NEW o \in Objs PROVE UndoneRight(o)
  BY <1>1, Stores DEF StoreOutcome, StoreDelivered, AfterDelivery, IInv, TypeOK, LInv, GameVisit,
     Closing, Opened, Failed
<1>2. ASSUME IInv, LInv, Next, NEW o \in Objs PROVE ClosedRight(o)
  BY <1>2, Stores DEF StoreOutcome, StoreDelivered, AfterDelivery, StepFor, IInv, TypeOK, LInv,
     GameVisit, Delivering, RunnerStores, ReleasedFirst, Closing, Opening, Opened, Failed
<1>3. IInv /\ LInv /\ [Next]_vars => \A o \in Objs : UndoneRight(o) /\ ClosedRight(o)
  BY <1>1, <1>2 DEF vars, shared
<1>4. IInv /\ LInv /\ [Next]_vars =>
        [\A o \in Objs : UndoneRight(o)]_vars /\ [\A o \in Objs : ClosedRight(o)]_vars
  BY <1>3
<1> QED
  BY <1>4, Invariance, LifeInvariance, PTL
     DEF Spec, StepsGoBackOnlyBy, FreeUndoneOnlyByStaleStore, ClosedTwiceOnlyIfFreedTwice

\* A connection that closes while it has statements never gets out of it
\* (handle_mysqls looks at the statements of idle connections only).
LEMMA StaysStuck ==
  ASSUME IInv, LInv, Next, NEW c \in Conns, StuckClosing(c)
  PROVE  StuckClosing(c)'
<1> USE DEF StuckClosing, StaleStorePending
<1>1. step_'[c] \in {"close_start", "close_wait"}
  BY Stores DEF StoreOutcome, StoreDelivered, EraseConn, EraseStmt, IInv, TypeOK, ConnInHand,
     RunnerControl, Closing
<1>2. CASE RunnerNext
  <2> USE DEF IInv, TypeOK, RunnerControl, GameControl, game, shared
  <2>1. CASE LoadConn(c)
    BY <1>1, <2>1 DEF LoadConn, ConnBranch, Closing, Opening
  <2>2. ASSUME NEW d \in Conns \ {c}, LoadConn(d) PROVE StuckClosing(c)'
    BY <1>1, <2>2 DEF LoadConn
  <2>3. ASSUME NEW s \in Stmts, LoadStmt(s) PROVE StuckClosing(c)'
    BY <1>1, <2>3 DEF LoadStmt
  <2>4. CASE RunnerLoop \/ BeginPass \/ EndPass \/ LockObj \/ LockStmts \/ EndStmts
    BY <1>1, <2>4 DEF RunnerLoop, BeginPass, EndPass, LockObj, LockStmts, EndStmts
  <2>5. CASE LibraryCall
    BY <1>1, <2>5 DEF LibraryCall, Outcomes, NextObj, Closing, Opening
  <2>6. CASE StoreOutcome
    BY <1>1, <2>6 DEF StoreOutcome, NextObj
  <2>7. CASE CanClose \/ PrepareClose
    BY <1>1, <2>7 DEF CanClose, PrepareClose, Closing
  <2>8. CASE EraseConn
    BY <1>1, <2>8 DEF EraseConn
  <2>9. CASE EraseStmt
    BY <1>1, <2>9 DEF EraseStmt
  <2> QED
    BY <1>2, <2>1, <2>2, <2>3, <2>4, <2>5, <2>6, <2>7, <2>8, <2>9 DEF RunnerNext
<1>3. CASE FrameNext
  <2> USE DEF IInv, TypeOK, GameControl, shared, runner
  <2>1. CASE FrameBegin \/ FrameLock \/ FrameEnd \/ FrameLockStmts \/ FrameEndStmts
    BY <1>1, <2>1 DEF FrameBegin, FrameLock, FrameEnd, FrameLockStmts, FrameEndStmts
  <2>2. CASE CallbackBegin
    BY <1>1, <2>2 DEF CallbackBegin, LInv, GameVisit, Opened, Failed
  <2>3. CASE CallbackEnd
    BY <1>1, <2>3 DEF CallbackEnd
  <2>4. CASE StoreDelivered
    BY <1>1, <2>4 DEF StoreDelivered
  <2>5. ASSUME NEW d \in Conns, FrameConn(d) PROVE StuckClosing(c)'
    BY <1>1, <2>5 DEF FrameConn, Deliver, Opened, Failed
  <2>6. ASSUME NEW s \in Stmts, FrameStmt(s) PROVE StuckClosing(c)'
    BY <1>1, <2>6 DEF FrameStmt, Deliver
  <2> QED
    BY <1>3, <2>1, <2>2, <2>3, <2>4, <2>5, <2>6 DEF FrameNext
<1>4. CASE GameNext /\ ~FrameNext
  <2> DEFINE Aside == /\ UNCHANGED runner /\ UNCHANGED <<gvisit, in_callback>>
                      /\ gpc' # "store" /\ stmts[c] \subseteq stmts'[c]
  <2>1. ASSUME ScriptStep PROVE Aside
    <3>1. CASE Initialize
      BY <3>1 DEF Initialize, AfterScript
    <3>2. CASE PrepareEmplace
      BY <3>2 DEF PrepareEmplace, IInv, TypeOK
    <3> QED
      BY <2>1, <3>1, <3>2 DEF ScriptStep, UseLock, UseEnd, ConnEmplace, PrepareNew, PrepareUnlock,
         PrepareLockStmts, AfterScript
  <2>2. ASSUME ScriptCall PROVE Aside
    BY <2>2 DEF ScriptCall, ScriptFree, ScriptUse, ScriptConn, ScriptPrepare, InScript, IInv,
       TypeOK, game
  <2>3. ASSUME UnloadBegin \/ UnloadStep \/ Load \/ Shutdown \/ Join PROVE Aside
    BY <2>3 DEF UnloadBegin, UnloadStep, UnloadEnd, UnloadOne, UnloadDeleted, Load, Shutdown,
       Join, IInv, TypeOK, game
  <2>4. Aside
    BY <1>4, <2>1, <2>2, <2>3 DEF GameNext
  <2> QED
    BY <1>1, <2>4 DEF runner
<1> QED
  BY <1>2, <1>3, <1>4 DEF Next

\* A connection that closes while it has statements is closing for ever, whatever
\* the scripts, the runner and the frame do (handle_mysqls, prepare_close).
THEOREM StuckForEver == Spec => ClosingWithStatementsIsStuck
<1>1. IInv /\ LInv /\ [Next]_vars => \A c \in Conns : StuckClosing(c) => StuckClosing(c)'
  <2>1. UNCHANGED vars => \A c \in Conns : StuckClosing(c) => StuckClosing(c)'
    BY DEF vars, shared, runner, game, StuckClosing, StaleStorePending
  <2> QED
    BY <2>1, StaysStuck
<1> QED
  BY <1>1, Invariance, LifeInvariance, PTL DEF Spec, ClosingWithStatementsIsStuck

-----------------------------------------------------------------------------
(* The refinement *)

\* What a script cannot see is no step of Requests.
LEMMA Stutters ==
  ASSUME \A o \in Objs : /\ Live(o)' <=> Live(o)
                         /\ step_'[o] = "absent" <=> step_[o] = "absent"
                         /\ callback'[o] <=> callback[o]
                         /\ delivered'[o] <=> delivered[o]
                         /\ freed'[o] > 0 <=> freed[o] > 0,
         \A c \in Conns : Children(c)' = Children(c),
         in_callback' = in_callback
  PROVE  UNCHANGED R!vars
  BY DEF R!vars

\* Nothing is asked for in the beginning.
LEMMA InitRefines == Init => R!Init
  BY DEF Init, R!Init, Live, Children

\* To a script, the runner deletes and does nothing else.
LEMMA RunnerImplements == IInv /\ LInv /\ RunnerNext => [R!Next]_(R!vars)
<1> SUFFICES ASSUME IInv, LInv, RunnerNext PROVE [R!Next]_(R!vars)
  OBVIOUS
<1> USE DEF lists, locks, instances, history, flags, shared, rvisit, game, gvisit, script
<1>1. CASE RunnerLoop \/ BeginPass \/ EndPass \/ LockObj \/ LibraryCall \/ LockStmts \/ EndStmts
           \/ (\E c \in Conns : LoadConn(c)) \/ (\E s \in Stmts : LoadStmt(s))
  <2>1. UNCHANGED <<step_, callback, delivered, freed, in_callback, stmts, gpc, sconn, sobj>>
    BY <1>1
       DEF RunnerLoop, BeginPass, EndPass, LockObj, LibraryCall, LockStmts, EndStmts,
           LoadConn, LoadStmt
  <2> QED
    BY <2>1, Stutters DEF Live, Children
<1>2. CASE StoreOutcome
  <2>1. /\ step_' = [step_ EXCEPT ![robj] = rstep] /\ robj \in Objs
        /\ UNCHANGED <<callback, delivered, freed, in_callback, stmts, gpc, sconn, sobj>>
        /\ rstep \notin {"absent", "gone"} /\ Live(robj)
    BY <1>2
       DEF StoreOutcome, IInv, TypeOK, RunnerControl, LInv, ListsLive, RunnerVisit,
           RunnerStores, Visiting, Handling, Opening, Opened, Failed, Live
  <2> QED
    BY <2>1, Stutters DEF IInv, TypeOK, Live, Children
<1>3. CASE CanClose
  <2>1. /\ step_' = step_ \/ step_' = [step_ EXCEPT ![rconn] = "close_wait"]
        /\ UNCHANGED <<callback, delivered, freed, in_callback, stmts, gpc, sconn, sobj>>
        /\ rconn \in Objs /\ Live(rconn)
    BY <1>3 DEF CanClose, IInv, TypeOK, RunnerControl, LInv, ListsLive, RunnerVisit, Visiting
  <2> QED
    BY <2>1, Stutters DEF IInv, TypeOK, Live, Children
<1>4. CASE PrepareClose
  <2>1. /\ \A o \in Objs : step_'[o] = step_[o] \/ (step_'[o] = "close_start" /\ Live(o))
        /\ UNCHANGED <<callback, delivered, freed, in_callback, stmts, gpc, sconn, sobj>>
    BY <1>4
       DEF PrepareClose, IInv, TypeOK, RunnerControl, LInv, ListsLive, RunnerVisit, Visiting,
           Live
  <2> QED
    BY <2>1, Stutters DEF Live, Children
<1>5. CASE EraseConn
  <2>0. PICK c \in Conns : c = rconn
    BY <1>5 DEF EraseConn, IInv, RunnerControl
  <2>1. R!Delete(c)
    BY <1>5, <2>0
       DEF R!Delete, EraseConn, Destroy, Detach, Live, Children, IInv, TypeOK, RunnerControl,
           GameControl, ListLocked, ConnInHand, PreparingIdle, LInv, ListsLive, RunnerVisit,
           RunnerStores, Visiting, Closing, R!Objs
  <2> QED
    BY <2>1 DEF R!Next, R!Objs
<1>6. CASE EraseStmt
  <2>0. PICK s \in Stmts : s = robj
    BY <1>6 DEF EraseStmt, IInv, RunnerControl
  <2>1. R!Delete(s)
    BY <1>6, <2>0
       DEF R!Delete, EraseStmt, Destroy, Detach, Live, Children, IInv, TypeOK, RunnerControl,
           GameControl, ListLocked, ConnInHand, PreparingIdle, LInv, ListsLive, RunnerVisit,
           RunnerStores, Visiting, Closing, R!Objs
  <2> QED
    BY <2>1 DEF R!Next, R!Objs
<1> QED
  BY <1>1, <1>2, <1>3, <1>4, <1>5, <1>6 DEF RunnerNext

\* To a script, the game thread asks, tells, returns and releases.
LEMMA GameImplements == IInv /\ LInv /\ GameNext => [R!Next]_(R!vars)
<1> SUFFICES ASSUME IInv, LInv, GameNext PROVE [R!Next]_(R!vars)
  OBVIOUS
<1> USE DEF lists, locks, instances, history, flags, shared, gvisit, script, game
<1>1. CASE FrameBegin \/ FrameLock \/ FrameEnd \/ FrameLockStmts \/ FrameEndStmts
           \/ (\E c \in Conns : FrameConn(c)) \/ (\E s \in Stmts : FrameStmt(s))
  <2>1. /\ UNCHANGED <<step_, callback, delivered, freed, in_callback, stmts, sconn, sobj>>
        /\ gpc \notin {"prepare_new", "stmts_lock", "emplace"}
        /\ gpc' \notin {"prepare_new", "stmts_lock", "emplace"}
    BY <1>1
       DEF FrameBegin, FrameLock, FrameEnd, FrameLockStmts, FrameEndStmts, FrameConn,
           FrameStmt, Deliver
  <2> QED
    BY <2>1, Stutters DEF Live, Children
<1>2. CASE CallbackBegin
  <2>0. PICK o \in Objs : o = gobj
    BY <1>2 DEF CallbackBegin, IInv, GameControl
  <2>1. R!Tell(o)
    BY <1>2, <2>0
       DEF R!Tell, R!Objs, CallbackBegin, IInv, TypeOK, GameControl, Children, LInv,
           GameVisit, ToldOnce, Live, Opened, Failed, Idle, Closing, Delivering
  <2> QED
    BY <2>1 DEF R!Next, R!Objs
<1>3. CASE CallbackEnd
  <2>1. R!Return
    BY <1>3 DEF R!Return, CallbackEnd, IInv, GameControl, Live, Children
  <2> QED
    BY <2>1 DEF R!Next
<1>4. CASE StoreDelivered
  <2> DEFINE st == AfterDelivery(gobj, gstep)
  <2>1. /\ gpc = "store" /\ gpc' \in {"conns", "stmts"}
        /\ gobj \in Objs /\ Live(gobj) /\ st \notin {"absent", "gone"}
        /\ step_' = [step_ EXCEPT ![gobj] = st]
        /\ UNCHANGED <<callback, delivered, in_callback, stmts, sconn, sobj>>
    BY <1>4
       DEF StoreDelivered, AfterDelivery, StepFor, IInv, TypeOK, GameControl, LInv, GameVisit,
           Delivering, Live, Opened, Failed
  <2>2. CASE gstep \in Failed
    <3>1. freed' = [freed EXCEPT ![gobj] = @ + 1]
      BY <1>4, <2>2 DEF StoreDelivered
    <3>0. PICK o \in Objs : o = gobj
      BY <2>1
    <3>2. R!Release(o)
      BY <2>1, <3>0, <3>1 DEF R!Release, R!Objs, IInv, TypeOK, Live, Children
    <3> QED
      BY <3>2 DEF R!Next, R!Objs
  <2>3. CASE gstep \notin Failed
    <3>1. \A o \in Objs : freed'[o] = freed[o]
      BY <1>4, <2>3 DEF StoreDelivered, IInv, TypeOK
    <3> QED
      BY <2>1, <3>1, Stutters DEF IInv, TypeOK, Live, Children
  <2> QED
    BY <2>2, <2>3
<1>5. CASE \/ UseLock \/ UseEnd \/ ConnEmplace \/ UnloadBegin \/ UnloadEnd \/ Load \/ Shutdown \/ Join
           \/ \E o \in Objs : ScriptUse(o) \/ UnloadDeleted(o)
  <2>1. /\ UNCHANGED <<step_, callback, delivered, freed, in_callback, stmts, sconn>>
        /\ gpc \notin {"prepare_new", "stmts_lock", "emplace"}
        /\ gpc' \notin {"prepare_new", "stmts_lock", "emplace"}
    BY <1>5
       DEF UseLock, UseEnd, ConnEmplace, UnloadBegin, UnloadEnd, UnloadDeleted, Load, Shutdown,
           Join, ScriptUse, InScript, AfterScript
  <2> QED
    BY <2>1, Stutters DEF Live, Children
<1>6. CASE Initialize
  <2>1. /\ gpc = "initialize" /\ gpc' \in {"idle", "callback"}
        /\ UNCHANGED <<callback, delivered, in_callback, stmts, sconn, sobj>>
        /\ UNCHANGED <<step_, freed>> \/ Free(sobj)
        /\ sobj \in Objs /\ Live(sobj)
    BY <1>6
       DEF Initialize, AfterScript, IInv, TypeOK, GameControl, LInv, Fresh, Live, Opening,
           Opened, Failed
  <2>2. CASE UNCHANGED <<step_, freed>>
    BY <2>1, <2>2, Stutters DEF Live, Children
  <2>3. CASE Free(sobj)
    <3>0. PICK o \in Objs : o = sobj
      BY <2>1
    <3>1. R!Release(o)
      BY <2>1, <2>3, <3>0 DEF Free, R!Release, R!Objs, IInv, TypeOK, Live, Children
    <3> QED
      BY <3>1 DEF R!Next, R!Objs
  <2> QED
    BY <2>1, <2>2, <2>3
<1>7. CASE PrepareNew
  <2>0. PICK c \in Conns, s \in Stmts : c = sconn /\ s = sobj
    BY <1>7 DEF PrepareNew, IInv, GameControl, Preparing
  <2>1. /\ step_[c] = "connect_idle" /\ delivered[c] /\ step_[s] = "absent"
        /\ gpc = "prepare_lock" /\ gpc' = "prepare_new"
        /\ step_' = [step_ EXCEPT ![s] = "prepare_start"]
        /\ callback' = [callback EXCEPT ![s] = TRUE]
        /\ UNCHANGED <<delivered, freed, in_callback, stmts, sconn, sobj>>
    BY <1>7, <2>0
       DEF PrepareNew, IInv, PreparingIdle, Preparing, LInv, Fresh, Reached, ToldOnce, Idle
  <2>2. R!New(s)
    BY <2>1 DEF R!New, IInv, TypeOK, Live
  <2>3. [d \in Conns |-> Children(d)]' = [[d \in Conns |-> Children(d)] EXCEPT ![c] = @ \cup {s}]
    BY <2>0, <2>1 DEF Children
  <2>4. R!AskStmt(c, s)
    BY <2>1, <2>2, <2>3 DEF R!AskStmt, IInv, TypeOK, Live
  <2> QED
    BY <2>4 DEF R!Next
<1>8. CASE PrepareUnlock \/ PrepareLockStmts
  <2>1. /\ UNCHANGED <<step_, callback, delivered, freed, in_callback, stmts, sconn, sobj>>
        /\ gpc \in {"prepare_new", "stmts_lock"} /\ gpc' \in {"stmts_lock", "emplace"}
    BY <1>8 DEF PrepareUnlock, PrepareLockStmts
  <2> QED
    BY <2>1, Stutters DEF Live, Children
<1>9. CASE PrepareEmplace
  <2>1. \A c \in Conns : Children(c)' = Children(c)
    BY <1>9 DEF PrepareEmplace, Children, IInv, TypeOK
  <2> QED
    BY <1>9, <2>1, Stutters DEF PrepareEmplace, Live
<1>10. ASSUME NEW o \in Objs, ScriptFree(o) PROVE R!Next
  <2>1. R!Release(o)
    BY <1>10 DEF R!Release, R!Objs, ScriptFree, Free, IInv, TypeOK, LInv, Reached, Live, Children
  <2> QED
    BY <2>1 DEF R!Next, R!Objs
<1>11. ASSUME NEW c \in Conns, ScriptConn(c) PROVE R!Next
  <2>1. R!AskConn(c)
    BY <1>11 DEF R!AskConn, R!New, ScriptConn, InScript, IInv, TypeOK, Live, Children
  <2> QED
    BY <2>1 DEF R!Next
<1>12. ASSUME NEW c \in Conns, NEW s \in Stmts, ScriptPrepare(c, s) PROVE UNCHANGED R!vars
  <2>1. /\ UNCHANGED <<step_, callback, delivered, freed, in_callback, stmts>>
        /\ gpc \notin {"prepare_new", "stmts_lock", "emplace"} /\ gpc' = "prepare_lock"
    BY <1>12 DEF ScriptPrepare, InScript
  <2> QED
    BY <2>1, Stutters DEF Live, Children
<1>13. ASSUME NEW o \in Objs, UnloadOne(o) PROVE R!Next
  <2>1. R!Release(o)
    BY <1>13 DEF R!Release, R!Objs, UnloadOne, Detach, Free, IInv, TypeOK, Live, Children
  <2> QED
    BY <2>1 DEF R!Next, R!Objs
<1> QED
  BY <1>1, <1>2, <1>3, <1>4, <1>5, <1>6, <1>7, <1>8, <1>9, <1>10, <1>11, <1>12, <1>13
     DEF GameNext, FrameNext, ScriptStep, ScriptCall, UnloadStep

\* net::mysql does what Requests promises: a script is told each result once, of
\* what lives, and nothing is deleted before it is let go of, or while its
\* callback runs (handle_mysqls, run_callbacks, plugin::unload).
THEOREM Refinement == Spec => ImplementsRequests
<1>1. IInv /\ LInv /\ [Next]_vars => [R!Next]_(R!vars)
  <2>1. ASSUME UNCHANGED vars PROVE UNCHANGED R!vars
    BY <2>1, Stutters DEF vars, game, Live, Children
  <2> QED
    BY <2>1, RunnerImplements, GameImplements DEF Next
<1> QED
  BY InitRefines, <1>1, Invariance, LifeInvariance, PTL DEF Spec, ImplementsRequests, R!Spec
=============================================================================
