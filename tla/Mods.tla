-------------------------------- MODULE Mods --------------------------------
(***************************************************************************)
(* The mods of vmod::main, their plugins, and what the plugins are told.   *)
(* A mod is a directory; each script in its plugins directory becomes a    *)
(* plugin, whose functions plugin_loaded, map_loaded, ... are called as    *)
(* the engine goes from map to map.  Console commands load, reload and     *)
(* unload mods at any time, a plugin may reload itself when its file is    *)
(* saved, and vmod itself may be loaded in the middle of a map, so that    *)
(* what a plugin has been told has to be caught up with.                   *)
(*                                                                         *)
(* Everything runs on the game thread.  A handler of the engine is one     *)
(* action; the commands that load every mod take one step per mod, with    *)
(* nothing else in between.  Scripts that run commands from inside their   *)
(* own functions are the subject of module PluginScopes.                   *)
(***************************************************************************)
EXTENDS Naturals, FiniteSets

CONSTANTS Dirs,       \* directories of mods
          Plugins,    \* paths of plugin scripts
          ModOf,      \* ModOf[p]: the directory p lies in
          Assets,     \* directories with an assets directory
          AutoReload  \* scripts that set VMOD_AUTO_RELOAD

ASSUME ConstAssumption ==
  /\ ModOf \in [Plugins -> Dirs]
  /\ Assets \subseteq Dirs /\ AutoReload \subseteq Plugins

Events == {"plugin_loaded", "plugin_unloaded", "map_loaded", "map_active",
           "map_unloaded", "string_tables_created", "all_mods_loaded"}

VARIABLES
  vmod,       \* the server plugin is loaded: "off", "on"
  level,      \* the server: "none", "loading" a map, or playing it, "active"
  tables,     \* the server has its string tables
  is_map_loaded, is_map_active, are_string_tables_created,
  mods,       \* directories in main::mods
  loaded,     \* those of them whose load() succeeded
  mods_loaded,
  objects,    \* plugins that have an object, in the map of their mod
  running,    \* plugin::running
  watching,   \* plugins with an inotify descriptor
  functions,  \* functions[p]: the looked up functions p holds
  command, left,  \* the command that is walking mods, and what it has left
  crashed,    \* the walk over the plugins went on from an erased one
  \* history, read by the properties only:
  told,       \* told[p]: what p knows from the calls of its functions
  strange,    \* <<p, e>>: p was told e when it could not make sense of it
  autoreloaded, \* plugins that reloaded themselves
  late        \* what the server had when vmod was loaded: a level, its tables

flags   == <<is_map_loaded, is_map_active, are_string_tables_created>>
scripts == <<objects, running, watching, functions, told, strange>>
vars    == <<vmod, level, tables, flags, mods, loaded, mods_loaded, scripts,
             command, left, crashed, autoreloaded, late>>

Of(m, ps) == {p \in ps : ModOf[p] = m}

Init ==
  /\ vmod = "off" /\ level = "none" /\ tables = FALSE
  /\ is_map_loaded = FALSE /\ is_map_active = FALSE /\ are_string_tables_created = FALSE
  /\ mods = {} /\ loaded = {} /\ mods_loaded = FALSE
  /\ objects = {} /\ running = {} /\ watching = {}
  /\ functions = [p \in Plugins |-> {}]
  /\ command = "none" /\ left = {} /\ crashed = FALSE
  /\ told = [p \in Plugins |-> {}] /\ strange = {} /\ autoreloaded = {} /\ late = {}

\* What a handler does to the plugins is computed on a record.
World == [objects |-> objects, running |-> running, watching |-> watching,
          functions |-> functions, told |-> told, strange |-> strange]
Commit(w) ==
  /\ objects' = w.objects /\ running' = w.running /\ watching' = w.watching
  /\ functions' = w.functions /\ told' = w.told /\ strange' = w.strange

-----------------------------------------------------------------------------
(* Calling the functions of plugins *)

\* What an event means to a plugin that knows t, and what it knows then.
Expected(e, t) ==
  CASE e = "plugin_loaded"  -> t = {}
    [] e = "map_active"     -> "map_loaded" \in t /\ e \notin t
    [] e = "map_unloaded"   -> "map_loaded" \in t
    [] e = "plugin_unloaded" -> "plugin_loaded" \in t
    [] OTHER                -> "plugin_loaded" \in t /\ e \notin t
Knowing(e, t) ==
  CASE e = "plugin_unloaded" -> {}
    [] e = "map_unloaded"    -> t \ {"map_loaded", "map_active"}
    [] OTHER                 -> t \cup {e}

\* typed_function::operator(), for every plugin of ps that has the function
Call(w, ps, e) ==
  LET hearing == {p \in ps : e \in w.functions[p]} IN
  [w EXCEPT !.told = [p \in Plugins |-> IF p \in hearing THEN Knowing(e, @[p]) ELSE @[p]],
            !.strange = @ \cup {<<p, e>> : p \in {q \in hearing : ~Expected(e, w.told[q])}}]

\* mod::call_func_on_plugins
CallOnPlugins(w, m, e) == Call(w, Of(m, w.objects) \cap w.running, e)

\* The same for every loaded mod.
MutantNotify(w, e) == Call(w, w.objects \cap w.running, e)
Notify(w, e) == Call(w, {p \in w.objects \cap w.running : ModOf[p] \in loaded}, e)

-----------------------------------------------------------------------------
(* A plugin: load, unload *)

\* plugin::unload.  The functions string_tables_created and game_frame are
\* not freed.
unload(w, ps) ==
  LET gone == Call(w, ps, "plugin_unloaded") IN
  [gone EXCEPT !.running = @ \ ps, !.watching = @ \ ps,
               !.functions = [p \in Plugins |->
                  IF p \in ps THEN @[p] \cap {"string_tables_created"} ELSE @[p]]]

\* plugin::load as it succeeds for the plugins ps: a plugin loaded late is told
\* what it has missed.
MutantLoad(w, ps) ==
  LET on == [w EXCEPT !.running = @ \cup ps, !.watching = @ \cup (ps \cap AutoReload),
                      !.functions = [p \in Plugins |-> IF p \in ps THEN Events ELSE @[p]]]
      born   == Call(on, ps, "plugin_loaded")
      mapped == IF is_map_loaded THEN Call(born, ps, "map_loaded") ELSE born
  IN IF are_string_tables_created THEN Call(mapped, ps, "string_tables_created") ELSE mapped
load(w, ps) ==
  LET on == [w EXCEPT !.running = @ \cup ps, !.watching = @ \cup (ps \cap AutoReload),
                      !.functions = [p \in Plugins |-> IF p \in ps THEN Events ELSE @[p]]]
      born   == Call(on, ps, "plugin_loaded")
      mapped == IF is_map_loaded THEN Call(born, ps, "map_loaded") ELSE born
      played == IF is_map_active THEN Call(mapped, ps, "map_active") ELSE mapped
  IN IF are_string_tables_created THEN Call(played, ps, "string_tables_created") ELSE played

\* ~plugin unloads once more; the object's functions go with it.
Destroyed(w, ps) ==
  LET gone == unload(w, ps) IN
  [gone EXCEPT !.objects = @ \ ps,
               !.functions = [p \in Plugins |-> IF p \in ps THEN {} ELSE @[p]],
               !.told = [p \in Plugins |-> IF p \in ps THEN {} ELSE @[p]]]

-----------------------------------------------------------------------------
(* A mod: init, load, unload *)

\* mod::unload, and what follows when the plugins map is cleared or the mod
\* destroyed: every plugin is unloaded, then destroyed.
ModUnload(w, m) == unload(w, Of(m, w.objects))
ModCleared(w, m) == LET gone == ModUnload(w, m) IN Destroyed(gone, Of(m, gone.objects))

\* mod::init finds the scripts ps, mod::load loads them in the order of an
\* unordered_map: those of good succeed, and then the walk ends.  A script
\* with VMOD_DISABLED set is erased from the map that is being walked; the
\* walk goes on from the erased element, into a crash or a failed load.
ModLoad(w, ps, good) == load([w EXCEPT !.objects = @ \cup ps], good)

\* How load() of mod m ends, with the scripts of good running.  Registering the
\* mod's own instance may fail before any script is loaded.
Ends(m, ps, good, erased, status) ==
  CASE status = "error"    -> good = {} \/ good # ps
    [] status = "disabled" -> ps = {} /\ erased = {} /\ m \notin Assets
    [] OTHER               -> good = ps /\ erased = {} /\ (ps # {} \/ m \in Assets)

\* One mod through init and load; what follows is finish(status, world).
LoadMod(m, w, finish(_, _)) ==
  \E ps \in SUBSET Of(m, Plugins) : \E good \in SUBSET ps :
  \E erased \in {{}} \cup {{p} : p \in ps \ good}, status \in {"success", "disabled", "error"} :
    /\ Ends(m, ps, good, erased, status)
    /\ crashed' \in IF erased = {} THEN {FALSE} ELSE BOOLEAN
    /\ finish(status, ModLoad(w, ps \ erased, good))

\* The map of mods after one was loaded or reloaded.
Settled(m, w, status) ==
  IF status = "disabled"
  THEN Commit(ModCleared(w, m)) /\ mods' = mods \ {m} /\ loaded' = loaded \ {m}
  ELSE /\ Commit(w) /\ mods' = mods \cup {m}
       /\ loaded' = IF status = "success" THEN loaded \cup {m} ELSE loaded \ {m}

-----------------------------------------------------------------------------
(* The commands *)

On == vmod = "on" /\ ~crashed
Idle == On /\ command = "none"

server == <<vmod, level, tables, late>>

AllCleared(w) == Destroyed(unload(w, w.objects), w.objects)

\* vmod_unload_mods
UnloadMods ==
  /\ Idle
  /\ Commit(AllCleared(World))
  /\ mods' = {} /\ loaded' = {} /\ mods_loaded' = FALSE /\ autoreloaded' = {}
  /\ UNCHANGED <<server, flags, command, left, crashed>>

\* vmod_unload_mod
UnloadMod(m) ==
  /\ Idle /\ m \in mods
  /\ Commit(ModCleared(World, m))
  /\ mods' = mods \ {m} /\ loaded' = loaded \ {m} /\ autoreloaded' = autoreloaded \ Of(m, Plugins)
  /\ UNCHANGED <<server, flags, mods_loaded, command, left, crashed>>

\* vmod_load_mod, which reloads a mod that is there
Announced(m, w, status) ==
  IF mods_loaded /\ status = "success" THEN CallOnPlugins(w, m, "all_mods_loaded") ELSE w
LoadModCommand(m) ==
  /\ Idle
  /\ autoreloaded' = autoreloaded \ Of(m, Plugins)
  /\ LoadMod(m, ModCleared(World, m),
             LAMBDA status, w : Settled(m, Announced(m, w, status), status))
  /\ UNCHANGED <<server, flags, mods_loaded, command, left>>

\* vmod_refresh_mods: unload every mod, load what the mods directory holds,
\* then tell everyone.
Refresh ==
  /\ Commit(AllCleared(World))
  /\ mods' = {} /\ loaded' = {} /\ mods_loaded' = FALSE /\ autoreloaded' = {}
  /\ command' = "refresh" /\ left' \in SUBSET Dirs

RefreshMods ==
  /\ Idle /\ Refresh
  /\ UNCHANGED <<server, flags, crashed>>

RefreshOne(m) ==
  /\ On /\ command = "refresh" /\ m \in left
  /\ left' = left \ {m}
  /\ LoadMod(m, World, LAMBDA status, w : Settled(m, w, status))
  /\ UNCHANGED <<server, flags, mods_loaded, command, autoreloaded>>

RefreshDone ==
  /\ On /\ command = "refresh" /\ left = {}
  /\ command' = "none" /\ mods_loaded' = TRUE
  /\ Commit(Notify(World, "all_mods_loaded"))
  /\ UNCHANGED <<server, flags, mods, loaded, left, crashed, autoreloaded>>

\* vmod_reload_mods
ReloadMods ==
  /\ Idle /\ mods # {}
  /\ command' = "reload" /\ left' = mods
  /\ UNCHANGED <<server, flags, mods, loaded, mods_loaded, scripts, crashed, autoreloaded>>

MutantReloadOne(m) ==
  /\ On /\ command = "reload" /\ m \in left
  /\ LoadMod(m, ModCleared(World, m), LAMBDA status, w :
       Settled(m, w, status) /\ left' = IF status = "error" THEN left ELSE left \ {m})
  /\ autoreloaded' = autoreloaded \ Of(m, Plugins)
  /\ UNCHANGED <<server, flags, mods_loaded, command>>
ReloadOne(m) ==
  /\ On /\ command = "reload" /\ m \in left
  /\ left' = left \ {m}
  /\ autoreloaded' = autoreloaded \ Of(m, Plugins)
  /\ LoadMod(m, ModCleared(World, m), LAMBDA status, w : Settled(m, w, status))
  /\ UNCHANGED <<server, flags, mods_loaded, command>>

\* The loop that tells everyone never goes on to the next mod.
ReloadDone ==
  /\ On /\ command = "reload" /\ left = {}
  /\ IF mods_loaded /\ mods # {}
     THEN command' = "announce" /\ left' \in {{m} : m \in mods}
     ELSE command' = "none" /\ UNCHANGED left
  /\ UNCHANGED <<server, flags, mods, loaded, mods_loaded, scripts, crashed, autoreloaded>>

AnnounceAgain(m) ==
  /\ On /\ command = "announce" /\ m \in left
  /\ Commit(IF m \in loaded THEN CallOnPlugins(World, m, "all_mods_loaded") ELSE World)
  /\ UNCHANGED <<server, flags, mods, loaded, mods_loaded, command, left, crashed, autoreloaded>>

\* plugin::game_frame: the script of a watched plugin has been saved.
AutoReloads(p) ==
  /\ Idle /\ p \in objects \cap watching /\ ModOf[p] \in loaded
  /\ \/ Commit(load(unload(World, {p}), {p}))
     \/ Commit(unload(World, {p}))     \* it failed, or is now disabled
  /\ autoreloaded' = autoreloaded \cup {p}
  /\ UNCHANGED <<server, flags, mods, loaded, mods_loaded, command, left, crashed>>

-----------------------------------------------------------------------------
(* The engine *)

others == <<mods, loaded, mods_loaded, command, left, crashed, autoreloaded>>
Between == ~crashed /\ command = "none"

\* vsp::Load ends with vmod_refresh_mods; plugin_load runs between maps or in
\* the middle of one.
Load ==
  /\ vmod = "off" /\ level # "loading"
  /\ vmod' = "on"
  /\ late' = (IF level # "none" THEN {"level"} ELSE {}) \cup (IF tables THEN {"tables"} ELSE {})
  /\ Refresh
  /\ UNCHANGED <<level, tables, flags, crashed>>

\* vsp::Unload; a library that is loaded again starts from its initial state.
Unload ==
  /\ Idle
  /\ vmod' = "off" /\ late' = {}
  /\ Commit(AllCleared(World))
  /\ mods' = {} /\ loaded' = {} /\ mods_loaded' = FALSE /\ autoreloaded' = {}
  /\ is_map_loaded' = FALSE /\ is_map_active' = FALSE /\ are_string_tables_created' = FALSE
  /\ UNCHANGED <<level, tables, command, left, crashed>>

\* vsp::LevelInit, main::map_loaded
LevelInit ==
  /\ Between /\ level = "none"
  /\ level' = "loading"
  /\ IF vmod = "on"
     THEN is_map_loaded' = TRUE /\ Commit(Notify(World, "map_loaded"))
     ELSE UNCHANGED <<is_map_loaded, scripts>>
  /\ UNCHANGED <<vmod, tables, is_map_active, are_string_tables_created, others, late>>

\* vsp::ServerActivate, main::map_active
ServerActivate ==
  /\ Between /\ level = "loading"
  /\ level' = "active"
  /\ IF vmod = "on"
     THEN is_map_active' = TRUE /\ Commit(Notify(World, "map_active"))
     ELSE UNCHANGED <<is_map_active, scripts>>
  /\ UNCHANGED <<vmod, tables, is_map_loaded, are_string_tables_created, others, late>>

\* vsp::LevelShutdown, main::map_unloaded; the engine may shut down a level it
\* has not loaded.
Unloaded ==
  IF is_map_loaded THEN Commit(Notify(World, "map_unloaded")) ELSE UNCHANGED scripts

LevelShutdown ==
  /\ Between
  /\ level' = "none"
  /\ late' = late \ {"level"}
  /\ Unloaded
  /\ is_map_loaded' = FALSE /\ is_map_active' = FALSE
  /\ UNCHANGED <<vmod, tables, are_string_tables_created, others>>

\* The detours of CreateNetworkStringTables and RemoveAllTables.
CreateTables ==
  /\ Between /\ ~tables
  /\ tables' = TRUE
  /\ IF vmod = "on"
     THEN are_string_tables_created' = TRUE /\ Commit(Notify(World, "string_tables_created"))
     ELSE UNCHANGED <<are_string_tables_created, scripts>>
  /\ UNCHANGED <<vmod, level, is_map_loaded, is_map_active, others, late>>

\* No plugin is told of the removal.
Forget(e) == told' = [p \in Plugins |-> told[p] \ {e}]
RemoveTables ==
  /\ Between /\ tables
  /\ tables' = FALSE /\ are_string_tables_created' = FALSE
  /\ late' = late \ {"tables"}
  /\ Forget("string_tables_created")
  /\ UNCHANGED <<vmod, level, is_map_loaded, is_map_active, objects, running, watching,
                 functions, strange, others>>

CommandStep ==
  \/ RefreshDone \/ ReloadDone
  \/ \E m \in Dirs : RefreshOne(m) \/ ReloadOne(m) \/ AnnounceAgain(m)

Next ==
  \/ Load \/ Unload \/ LevelInit \/ ServerActivate \/ LevelShutdown
  \/ CreateTables \/ RemoveTables
  \/ UnloadMods \/ RefreshMods \/ ReloadMods \/ CommandStep
  \/ \E m \in Dirs : UnloadMod(m) \/ LoadModCommand(m)
  \/ \E p \in Plugins : AutoReloads(p)

Spec == Init /\ [][Next]_vars
FairSpec == Spec /\ WF_vars(CommandStep)

-----------------------------------------------------------------------------
(* What the plugins can rely on *)

\* The types of the variables; a plugin that runs has an object.
TypeOK ==
  /\ vmod \in {"off", "on"} /\ level \in {"none", "loading", "active"}
  /\ {tables, is_map_loaded, is_map_active, are_string_tables_created,
      mods_loaded, crashed} \subseteq BOOLEAN
  /\ loaded \subseteq mods /\ mods \subseteq Dirs
  /\ running \subseteq objects /\ objects \subseteq Plugins
  /\ watching \subseteq Plugins /\ autoreloaded \subseteq Plugins
  /\ functions \in [Plugins -> SUBSET Events] /\ told \in [Plugins -> SUBSET Events]
  /\ strange \subseteq Plugins \X Events
  /\ command \in {"none", "refresh", "reload", "announce"} /\ left \subseteq Dirs
  /\ late \subseteq {"level", "tables"}

\* What happened in the engine while vmod was there.
Happened ==
  (IF level # "none" /\ "level" \notin late THEN {"map_loaded"} ELSE {})
  \cup (IF level = "active" /\ "level" \notin late THEN {"map_active"} ELSE {})
  \cup (IF tables /\ "tables" \notin late THEN {"string_tables_created"} ELSE {})

\* A running plugin of a loaded mod has been told exactly what has become of the
\* map and of the string tables, whenever and however it was loaded, as far as
\* vmod itself was there: what vmod missed it never catches up with.
InformedOfMap ==
  \A p \in running : ModOf[p] \in loaded =>
    told[p] \ {"all_mods_loaded"} = {"plugin_loaded"} \cup Happened

\* No plugin is told what makes no sense to it - a second plugin_unloaded from
\* the three unload() of an erased mod, the end of a map it has not heard of -
\* except that vmod_reload_mods announces the mods for ever.
EventsInOrder ==
  strange \subseteq IF command = "announce" THEN Plugins \X {"all_mods_loaded"} ELSE {}

\* Once the mods were announced, a running plugin of a loaded mod has heard of
\* it, unless it has reloaded itself since.
AnnouncedToAll ==
  mods_loaded /\ command = "none" =>
    \A p \in running : ModOf[p] \in loaded =>
      "all_mods_loaded" \in told[p] \/ p \in autoreloaded

\* A plugin that runs although its mod failed to load is told nothing of the
\* engine: neither of the next map nor that the one it was told of is over.
FailedModHearsNothing ==
  [][\A p \in running :
       ModOf[p] \notin loaded /\ (level' # level \/ tables' # tables) =>
         told'[p] \cup {"string_tables_created"} = told[p] \cup {"string_tables_created"}]_vars

\* A command that loads mods comes to its end, unless it crashes or is
\* vmod_reload_mods, which never returns once the mods were announced.
CommandsEnd ==
  (command \in {"refresh", "reload"}) ~> (command \in {"none", "announce"} \/ crashed)

\* What a running plugin knows of the engine and of the other mods is what has
\* happened there, whatever order of loads, reloads and maps led to it.
KnowsWhatHappened == TypeOK /\ InformedOfMap /\ AnnouncedToAll

\* The functions of a plugin are called in an order that makes sense to it, and
\* not at all for a mod that did not load.
EventsMakeSense == []EventsInOrder /\ FailedModHearsNothing
=============================================================================
