------------------------------ MODULE Console --------------------------------
(***************************************************************************)
(* Console variables and commands that scripts make and find               *)
(* (bindings/cvar/singleton.cpp, convar.cpp, concommand.cpp, convar.hpp):  *)
(* the list of the engine they are registered in, the wrappers of those    *)
(* that were found, which are kept by name, and commands that run commands.*)
(***************************************************************************)
EXTENDS Integers, Sequences, FiniteSets

CONSTANTS Ours,      \* bound: the ConVars and ConCommands that scripts make
          Theirs,    \* those that the engine has
          Names,     \* the names, as they may be written
          Same,      \* Same[n]: n in lower case; names that agree in it are one to the engine
          MaxDepth   \* bound: commands within commands

VARIABLES base,        \* a ConCommandBase: what it is, or was, and its name
          registered,  \* the list of the engine
          convars,     \* the wrappers of found variables, by the name that was asked for
          concommands, \* the wrappers of found commands
          argv_buffer, \* the call whose arguments are in the static array
          running,     \* the commands that are being dispatched
          calls,       \* history: the number of script_exec
          stale,       \* history: what the engine, or another plugin of it, took away
          mixed,       \* history: a command read the arguments of a call below another one
          down         \* the server went down

cvars == <<base, registered, convars, concommands, argv_buffer, running, calls, stale, mixed, down>>

NoBase == [is |-> "none", name |-> "none"]

CInit ==
  /\ \E has \in [Theirs -> [is : {"var", "cmd"}, name : Names]] :
       base = [o \in Ours \cup Theirs |-> IF o \in Ours THEN NoBase ELSE has[o]]
  /\ \A t, u \in Theirs : t # u => Same[base[t].name] # Same[base[u].name]
  /\ registered = Theirs
  /\ convars = <<>> /\ concommands = <<>>
  /\ argv_buffer = 0 /\ running = <<>> /\ calls = 0 /\ stale = {} /\ mixed = FALSE /\ down = FALSE

\* FindCommandBase, FindVar and FindCommand of the engine, which know no case.
Find(n) == {o \in registered : Same[base[o].name] = Same[n]}
FindOf(kind, n) == {o \in Find(n) : base[o].is = kind}

With(f, key, value) == [k \in DOMAIN f \cup {key} |-> IF k = key THEN value ELSE f[k]]
Without(f, key) == [k \in DOMAIN f \ {key} |-> f[k]]

\* A name that is in use is refused.
Free(n) == Find(n) = {}

\* script_create_cvar and script_create_concmd. The object gets its name after its
\* instance is registered: when that fails, the destructor makes a string of no name.
script_create(o, kind, n, registers) ==
  /\ ~down /\ base[o] = NoBase
  /\ Free(n)
  /\ IF registers
     THEN /\ base' = [base EXCEPT ![o] = [is |-> kind, name |-> n]]
          /\ registered' = registered \cup {o}
          /\ UNCHANGED down
     ELSE down' = TRUE /\ UNCHANGED <<base, registered>>
  /\ UNCHANGED <<convars, concommands, argv_buffer, running, calls, stale, mixed>>

\* script_find_cvar
script_find_cvar(n) ==
  /\ ~down /\ n \notin DOMAIN convars
  /\ \E o \in FindOf("var", n) : convars' = With(convars, n, o)
  /\ UNCHANGED <<base, registered, concommands, argv_buffer, running, calls, stale, mixed, down>>

\* script_find_concmd
script_find_concmd(n) ==
  /\ ~down /\ n \notin DOMAIN concommands
  /\ \E o \in FindOf("cmd", n) : concommands' = With(concommands, n, o)
  /\ UNCHANGED <<base, registered, convars, argv_buffer, running, calls, stale, mixed, down>>

MutantErased(cached, o) == cached

\* The wrapper that was found under the very name of the object goes with it.
Erased(cached, o) == Without(cached, base[o].name)

\* ~convar and ~concommand, when the script frees them or their plugin is unloaded,
\* with the ~ConVar and ~ConCommand that take them out of the list.
destroy(o) ==
  /\ ~down /\ o \in Ours /\ base[o].is \in {"var", "cmd"}
  /\ convars' = IF base[o].is = "var" THEN Erased(convars, o) ELSE convars
  /\ concommands' = IF base[o].is = "cmd" THEN Erased(concommands, o) ELSE concommands
  /\ registered' = registered \ {o}
  /\ base' = [base EXCEPT ![o].is = "deleted"]
  /\ UNCHANGED <<argv_buffer, running, calls, stale, mixed, down>>

\* Another plugin of the engine unregisters its own.
engine_removes(t) ==
  /\ ~down /\ t \in Theirs \cap registered
  /\ registered' = registered \ {t} /\ stale' = stale \cup {t}
  /\ UNCHANGED <<base, convars, concommands, argv_buffer, running, calls, mixed, down>>

-----------------------------------------------------------------------------
(* Commands.                                                               *)

\* The strings of a call go into the array that all calls share.
Buffer(call) == call

\* script_exec of a command, by its own wrapper or one that was found.
script_exec(o) ==
  /\ ~down /\ o \in registered /\ base[o].is = "cmd"
  /\ Len(running) < MaxDepth
  /\ calls' = calls + 1
  /\ argv_buffer' = Buffer(calls + 1)
  /\ running' = Append(running, [cmd |-> o, call |-> calls + 1, nested |-> FALSE])
  /\ UNCHANGED <<base, registered, convars, concommands, stale, mixed, down>>

\* A command of the engine, which got pointers into the array, reads its arguments,
\* at the start or after it ran scripts. One of a script had them copied to an
\* array for its callback before that was called.
command_reads ==
  /\ ~down /\ running # <<>>
  /\ LET top == running[Len(running)]
     IN  /\ top.cmd \in Theirs
         /\ mixed' = (mixed \/ (argv_buffer # top.call /\ ~top.nested))
  /\ UNCHANGED <<base, registered, convars, concommands, argv_buffer, running, calls, stale, down>>

\* Dispatch returns to the script, or to the command whose script it was.
command_returns ==
  /\ ~down /\ running # <<>>
  /\ running' = [i \in 1 .. Len(running) - 1 |-> [running[i] EXCEPT !.nested = TRUE]]
  /\ UNCHANGED <<base, registered, convars, concommands, argv_buffer, calls, stale, mixed, down>>

CNext ==
  \/ \E o \in Ours, kind \in {"var", "cmd"}, n \in Names, registers \in BOOLEAN : script_create(o, kind, n, registers)
  \/ \E n \in Names : script_find_cvar(n) \/ script_find_concmd(n)
  \/ \E o \in Ours : destroy(o)
  \/ \E t \in Theirs : engine_removes(t)
  \/ \E o \in Ours \cup Theirs : calls < MaxDepth /\ script_exec(o)
  \/ command_reads
  \/ command_returns

CSpec == CInit /\ [][CNext]_cvars

-----------------------------------------------------------------------------
(* Properties.                                                             *)

\* A wrapper that a script finds by name leads to the variable or command that
\* has that name and is registered, unless the engine took it away, or the name
\* was once written in other letters than the object's own (~convar erases the
\* wrapper under its own name only).
FoundIsRegistered ==
  /\ \A n \in DOMAIN convars :
       LET o == convars[n]
       IN  \/ o \in registered /\ base[o].is = "var" /\ Same[base[o].name] = Same[n]
           \/ o \in stale
           \/ (base[o].is = "deleted" /\ base[o].name # n)
  /\ \A o, p \in registered : o # p => Same[base[o].name] # Same[base[p].name]

\* A command of the engine reads the arguments it was given as long as no other
\* command was run by a script in between.
ArgumentsStay == ~mixed

\* What scripts found and the arguments that commands were given are still there
\* when they are used (script_find_cvar, script_find_concmd, script_exec).
ConsoleKept == FoundIsRegistered /\ ArgumentsStay
=============================================================================
