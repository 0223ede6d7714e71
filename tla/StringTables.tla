---------------------------- MODULE StringTables -----------------------------
(***************************************************************************)
(* The string tables of the engine as scripts see them                     *)
(* (bindings/strtables, CreateNetworkStringTables and RemoveAllTables of   *)
(* main.cpp): one wrapper for each name, made when the bindings are, whose *)
(* pointer is set when the engine makes its tables and cleared when it     *)
(* removes them, and the index that a script reads a string at.            *)
(***************************************************************************)
EXTENDS Integers, FiniteSets

CONSTANTS TableNames,  \* the names that vmod knows
          IntBits,     \* bound: of an int of the engine
          SizeBits,    \* bound: of a std::size_t
          MaxStrings,  \* bound: of a table
          MaxMaps      \* bound: the times the engine makes its tables

NULL == 0

VARIABLES engine,   \* the tables the engine has: the map each was made for, and its strings
          maps,     \* the times it made them
          hooked,   \* vmod is loaded: the two functions of the engine are hooked
          wrappers, \* script_stringtables: the map whose table the wrapper points to, or NULL
          created,  \* are_string_tables_created
          last      \* the last call of a script

svars == <<engine, maps, hooked, wrappers, created, last>>

NoCall == [call |-> "none", at |-> NULL, index |-> 0, arg |-> 0, outcome |-> "none"]

SInit ==
  /\ engine = <<>> /\ maps = 0
  /\ hooked = FALSE /\ wrappers = <<>> /\ created = FALSE
  /\ last = NoCall

With(f, key, value) == [k \in DOMAIN f \cup {key} |-> IF k = key THEN value ELSE f[k]]

\* create_script_stringtables: a wrapper for each name, without a table; when one
\* cannot be registered the load goes on without vmod.
load(registers) ==
  /\ ~hooked
  /\ hooked' = registers
  /\ wrappers' = [t \in (IF registers THEN TableNames ELSE {}) |-> NULL]
  /\ created' = FALSE
  /\ UNCHANGED <<engine, maps, last>>

\* recreate_script_stringtables: a wrapper that is missing is made; all get what
\* FindTable found.
Recreated(found) == [t \in DOMAIN wrappers \cup TableNames |-> IF t \in DOMAIN found THEN maps' ELSE NULL]

\* CreateNetworkStringTables_detour_callback. The game may lack some of the tables.
CreateNetworkStringTables(present) ==
  /\ engine = <<>> /\ maps < MaxMaps
  /\ maps' = maps + 1
  /\ engine' = [t \in present |-> [map |-> maps', strings |-> 1]]
  /\ IF hooked THEN wrappers' = Recreated(engine') /\ created' = TRUE ELSE UNCHANGED <<wrappers, created>>
  /\ UNCHANGED <<hooked, last>>

MutantCleared == wrappers

\* clear_script_stringtables
Cleared == [t \in DOMAIN wrappers |-> NULL]

\* RemoveAllTables_detour_callback clears the wrappers before the tables go.
RemoveAllTables ==
  /\ engine # <<>>
  /\ engine' = <<>>
  /\ IF hooked THEN wrappers' = Cleared /\ created' = FALSE ELSE UNCHANGED <<wrappers, created>>
  /\ UNCHANGED <<maps, hooked, last>>

\* main::unbindings, and the rest of main::unload: the wrappers are deleted and the
\* functions of the engine are its own again.
unbindings ==
  /\ hooked /\ last.outcome \notin {"crash", "out of bounds"}
  /\ hooked' = FALSE /\ wrappers' = <<>>
  /\ UNCHANGED <<engine, maps, created, last>>

-----------------------------------------------------------------------------
(* Calls of scripts.                                                       *)

Call(t, call, index, arg, outcome) ==
  /\ last' = [call |-> call, at |-> wrappers[t], index |-> index, arg |-> arg, outcome |-> outcome]
  /\ UNCHANGED <<maps, hooked, wrappers, created>>

Running == hooked /\ last.outcome \notin {"crash", "out of bounds"}

Alive(t) == wrappers[t] # NULL

\* script_find_index and script_num_strings check for a table.
script_find_index(t) ==
  /\ Running /\ t \in DOMAIN wrappers
  /\ Call(t, "find", 0, 0, IF Alive(t) THEN "answered" ELSE "exception")
  /\ UNCHANGED engine

\* A script's number as a std::size_t, and that as an int.
ToSize(n) == n % 2^SizeBits
ToInt(i) == LET low == i % 2^IntBits IN IF low >= 2^(IntBits - 1) THEN low - 2^IntBits ELSE low

\* The check of the index compares it as an int.
Refused(i, strings) == i = ToSize(-1) \/ ToInt(i) >= strings

\* script_get_string asks the table for its size before it looks whether there is one.
script_get_string(t, n) ==
  /\ Running /\ t \in DOMAIN wrappers
  /\ LET i == ToSize(n)
         strings == engine[t].strings
     IN  Call(t, "get", ToInt(i), n,
              IF i = ToSize(-1) THEN "exception"
              ELSE IF ~Alive(t) THEN "crash"
              ELSE IF Refused(i, strings) THEN "exception"
              ELSE IF ToInt(i) \in 0 .. strings - 1 THEN "answered" ELSE "out of bounds")
  /\ UNCHANGED engine

\* script_add_string
script_add_string(t) ==
  /\ Running /\ t \in DOMAIN wrappers
  /\ Call(t, "add", 0, 0, IF Alive(t) THEN "answered" ELSE "exception")
  /\ IF Alive(t)
     THEN engine[t].strings < MaxStrings /\ engine' = [engine EXCEPT ![t].strings = @ + 1]
     ELSE UNCHANGED engine

SNext ==
  \/ \E registers \in BOOLEAN : load(registers)
  \/ \E present \in SUBSET TableNames : CreateNetworkStringTables(present)
  \/ RemoveAllTables
  \/ unbindings
  \/ \E t \in TableNames :
       \/ script_find_index(t)
       \/ script_add_string(t)
       \/ \E n \in -(2^(SizeBits - 1)) .. 2^(SizeBits - 1) - 1 : script_get_string(t, n)

SSpec == SInit /\ [][SNext]_svars

-----------------------------------------------------------------------------
(* Properties.                                                             *)

\* A script reaches the tables of this map only: a wrapper never keeps one that
\* was removed, and has the one there is once vmod has seen the engine make it. A
\* string is read at an index of the table, or the script gets an exception,
\* except by get() while there is no table, which takes the server down, and for a
\* number whose low half is negative, which passes the check of the index.
ReadsThisMap ==
  /\ \A t \in DOMAIN wrappers :
       /\ wrappers[t] # NULL => t \in DOMAIN engine /\ engine[t].map = wrappers[t]
       /\ created /\ t \in DOMAIN engine => wrappers[t] = engine[t].map
  /\ last.outcome = "crash" => last.call = "get" /\ last.at = NULL
  /\ last.outcome = "out of bounds" => last.arg # -1 /\ last.index < 0
=============================================================================
