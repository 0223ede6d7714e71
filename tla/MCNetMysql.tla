---------------------------- MODULE MCNetMysql ----------------------------
(* Instances of NetMysql for TLC. *)
EXTENDS NetMysql, TLC

CONSTANTS c1, c2, s1

AllOps == ScriptOps
\* scripts that do not call mysql_conn() or prepare() inside a callback
TameOps == {"free", "use"}
\* scripts that hold no mutex take none: outside a callback, use is one lock alone
LockFreeOps == {"free", "connect", "prepare"}
OneConn == {c1}
TwoConns == {c1, c2}
OneStmt == {s1}

\* The state without the local variables that are written again before they
\* are read: rstmts outside the statement loop, the object in hand and its step
\* outside a visit, the script operands outside an operation; and without the
\* history of what is not in hand, cannot call back, or be found deleted any more.
RunnerView ==
  <<rpc, rconns, IF VisitingStmts THEN rstmts ELSE {},
    IF rpc \in {"top", "lock", "conns", "exited"} THEN None ELSE rconn,
    IF rpc \in {"lock_obj", "call", "store", "erase_stmt"} THEN <<robj, rstep>> ELSE <<>> >>
FrameView ==
  <<gpc, gconns, in_callback,
    IF gpc \in {"lock_obj", "store"} \/ in_callback # None THEN <<gstmts, gconn, gobj, gstep>>
    ELSE IF gpc = "stmts" THEN <<gstmts, gconn>>
    ELSE IF gpc = "lock_stmts" THEN <<gconn>> ELSE <<>>,
    IF gpc \in {"use_lock", "use", "conn_lock", "initialize"} THEN <<sobj>>
    ELSE IF Preparing THEN <<sconn, sobj>> ELSE <<>> >>
HistoryView ==
  <<{o \in belonged : callback[o]},
    (gpc \in {"lock_obj", "store"} \/ in_callback # None) /\ delivered[gobj],
    [o \in Objs |-> IF ~Live(o) /\ o \notin owned_instances THEN 0
                    ELSE IF freed[o] > 1 THEN 2 ELSE freed[o]]>>
View == <<lists, step_, instances, locks, flags, HistoryView, RunnerView, FrameView>>

Symmetry == Permutations(Conns) \cup Permutations(Stmts)
=============================================================================
