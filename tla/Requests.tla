------------------------------ MODULE Requests ------------------------------
(***************************************************************************)
(* What net::mysql promises a script, without threads, locks or steps: a   *)
(* script asks for a connection and, on a connection it was told about,    *)
(* for statements; it is told the result of each at most once; what was    *)
(* asked for lives until it is released, a connection also while one of    *)
(* its statements lives, and nothing is deleted while its callback runs.   *)
(* NetMysql implements this.                                               *)
(***************************************************************************)
EXTENDS FiniteSets

CONSTANTS Conns, Stmts,   \* connections and statements scripts may ask for
          None            \* no object

Objs == Conns \cup Stmts

VARIABLES
  alive,      \* asked for and not yet deleted
  asked,      \* asked for, ever
  children,   \* children[c]: the statements that live on c
  listening,  \* objects with a callback to tell
  told,       \* objects whose callback has run or runs
  telling,    \* the object whose callback runs, or None
  released    \* objects somebody let go of

vars == <<alive, asked, children, listening, told, telling, released>>

Init ==
  /\ alive = {} /\ asked = {} /\ listening = {}
  /\ children = [c \in Conns |-> {}]
  /\ told = {} /\ telling = None /\ released = {}

New(o) ==
  /\ o \notin asked
  /\ asked' = asked \cup {o} /\ alive' = alive \cup {o}
  /\ listening' = listening \cup {o}
  /\ UNCHANGED <<told, telling, released>>

AskConn(c) == New(c) /\ UNCHANGED children

\* A statement is asked for on a connection whose result the script knows.
AskStmt(c, s) ==
  /\ c \in alive \cap told
  /\ New(s)
  /\ children' = [children EXCEPT ![c] = @ \cup {s}]

Tell(o) ==
  /\ telling = None
  /\ o \in (alive \cap listening) \ told
  /\ told' = told \cup {o} /\ telling' = o
  /\ UNCHANGED <<alive, asked, children, listening, released>>

Return ==
  /\ telling # None /\ telling' = None
  /\ UNCHANGED <<alive, asked, children, listening, told, released>>

\* By the script, or by the plugin it ran in, which then hears no more of it.
Release(o) ==
  /\ o \in alive
  /\ released' = released \cup {o}
  /\ listening' \in {listening, listening \ {o}}
  /\ UNCHANGED <<alive, asked, children, told, telling>>

\* Only what was let go of is deleted, and a connection after its statements.
Delete(o) ==
  /\ o \in alive /\ o # telling
  /\ o \in released
  /\ o \in Conns => children[o] = {}
  /\ alive' = alive \ {o} /\ listening' = listening \ {o}
  /\ children' = [c \in Conns |-> children[c] \ {o}]
  /\ UNCHANGED <<asked, told, telling, released>>

Next ==
  \/ \E c \in Conns : AskConn(c)
  \/ \E c \in Conns, s \in Stmts : AskStmt(c, s)
  \/ \E o \in Objs : Tell(o) \/ Release(o) \/ Delete(o)
  \/ Return

Spec == Init /\ [][Next]_vars

=============================================================================
