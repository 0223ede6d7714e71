------------------------------ MODULE Takeover ------------------------------
(***************************************************************************)
(* How vmod puts itself between the game and its script machine: the       *)
(* stages of main::load and main::load_late, the engine's events that run  *)
(* through what they installed, main::unload, and the closing of the       *)
(* library (src/main.cpp).  The library may be loaded again.               *)
(*                                                                         *)
(* Three things are patched.  A slot is a pointer in an object of the      *)
(* engine (a vtable entry or a callback); swapping it keeps what it held   *)
(* in a static of the library.  A detour is a jump written over a          *)
(* function's first bytes; the bytes come back when it is disabled, at     *)
(* the latest by its destructor.  A VM is an object whose code belongs to  *)
(* its maker.  Everything runs on the game thread, so an event of the      *)
(* engine is one action, and a stage of the load is another.               *)
(***************************************************************************)
EXTENDS Integers, FiniteSets

CONSTANTS VMs,         \* objects a script machine can be made at
          None,        \* no VM
          MaxLoads,    \* bound: how often the library is opened
          Branches,    \* engines vmod is built for: "tf2" (2007), "l4d2" (2010)
          HasClient    \* the process is a listen server, with a VM of the client

ASSUME TakeoverAssumption ==
    /\ None \notin VMs
    /\ MaxLoads \in Nat \ {0}
    /\ Branches \subseteq {"tf2", "l4d2"}
    /\ HasClient \in BOOLEAN

VARIABLES
    branch,      \* the engine, GSDK_ENGINE
    phase,       \* of the library
    stage,       \* of load(): the one that runs next, or the one that failed
    gen,         \* how often the library was opened: names its code
    found,       \* the objects of the engine whose pointers load() has set
    slot,        \* what each slot of the engine points to: code of a load, 0 its own
    saved,       \* the statics that keep what a slot held before
    armed,       \* the functions whose first bytes jump into the library
    maker,       \* whose code a VM runs: of a load, 0 the engine, Dead if there is none
    own,         \* vm_
    current,     \* g_pScriptVM of the game
    mirror,      \* gsdk::g_pScriptVM of the library
    client,      \* the VM of the client
    called,      \* vscript_server_init_called
    level,       \* whether a level runs
    mapspawn,    \* how often mapspawn ran in each VM in this level
    crash,       \* what the game crashed of, or "no"
    failures,    \* history: stages at which loads stopped
    joined,      \* history: vmod took or dropped the VM since the level began
    crossed      \* history: VMs whose maker is not the one in effect any more

engine  == <<branch, phase, stage, gen, called, failures>>
patches == <<found, slot, saved, armed>>
machines == <<maker, own, current, mirror, client>>
game    == <<level, mapspawn, joined>>
vars == <<engine, patches, machines, game, crash, crossed>>

Null == -1            \* a null pointer in a slot
Dead == -1            \* no VM
Slots == {"CreateVM", "DestroyVM", "CreateNetworkStringTables", "RemoveAllTables",
          "PvAllocEntPrivateData", "Log", "path", "Spew"}
Functions == {"Register", "ScriptCreate", "ScriptDestroy", "VScriptServerInit",
              "VScriptServerTerm", "LevelShutdownPostEntity", "RunScript", "Print",
              "RemoteStorage"}
Stages == 1..21
LiveVMs == {v \in VMs : maker[v] # Dead}

-----------------------------------------------------------------------------
(* Slots and detours. *)

swap_vfunc(s) ==
    /\ slot' = [x \in Slots |-> IF x \in s THEN gen ELSE slot[x]]
    /\ saved' = [x \in Slots |-> IF x \in s THEN slot[x] ELSE saved[x]]

\* A call through a slot ends in the engine: its own code, or vmod's and then that.
Works(s) == \/ slot[s] = 0
            \/ slot[s] = gen /\ phase # "absent" /\ saved[s] = 0

\* What a call through a slot that does not work does.
Broken(s) == IF slot[s] = Null \/ (slot[s] = gen /\ phase # "absent" /\ saved[s] = Null)
             THEN "null" ELSE "dangling"

\* The routines of the engine's library, or vmod's in their place.
Makes == IF "ScriptCreate" \in armed THEN gen ELSE 0
MutantFrees == 0
Frees == IF "ScriptDestroy" \in armed THEN gen ELSE 0

\* A VM that was made under other routines than those in effect in the next state.
Crossing == crossed' = {v \in VMs : maker'[v] # Dead /\ (v \in crossed \/ maker'[v] #
                            (IF "ScriptDestroy" \in armed' THEN gen' ELSE 0))}

\* IScriptManager::DestroyVM of the engine, with the routine in effect.
DestroyedBy(v) == IF maker[v] = Frees THEN "no" ELSE "mismatch"

-----------------------------------------------------------------------------
(* Loading.  A stage proceeds to the next or fails, and what it did remains. *)

At(n) == crash = "no" /\ phase = "loading" /\ stage = n
Proceed == stage' = stage + 1 /\ UNCHANGED <<branch, phase, failures>>
Fail == phase' = "failed" /\ failures' = failures \cup {stage} /\ UNCHANGED <<branch, stage>>
Stop == Proceed \/ Fail

\* The engine opens the library: its statics are fresh.
Open ==
    /\ crash = "no" /\ phase = "absent" /\ gen < MaxLoads
    /\ phase' = "loading" /\ stage' = 1 /\ gen' = gen + 1
    /\ found' = {} /\ armed' = {} /\ saved' = [s \in Slots |-> Null]
    /\ own' = None /\ mirror' = None /\ called' = FALSE
    /\ UNCHANGED <<branch, slot, maker, current, client, game, crash, failures, crossed>>

\* Symbol cache, name of the executable.
Environment ==
    /\ At(1) /\ Stop
    /\ UNCHANGED <<gen, called, patches, machines, game, crash, crossed>>

\* tier0, then the output function (2007) or the channels (2010).
LoadTier0 ==
    /\ At(2)
    /\ \/ /\ branch = "tf2" /\ Proceed /\ swap_vfunc({"Spew"})
       \/ branch = "l4d2" /\ Stop /\ UNCHANGED <<slot, saved>>
    /\ UNCHANGED <<gen, called, found, armed, machines, game, crash, crossed>>

LoadLauncher ==
    /\ At(3) /\ Stop
    /\ UNCHANGED <<gen, called, patches, machines, game, crash, crossed>>

\* A library of the engine (gsdk.cpp): a failed load may have set its pointers.
engine_library(ok) == \E f \in SUBSET {"sv_stringtables"} :
    (ok => f # {}) /\ found' = found \cup f
vscript_library(ok) == \E f \in SUBSET {"vsmgr"} :
    (ok => f # {}) /\ found' = found \cup f
server_library(ok) == \E f \in SUBSET {"gamedll"} :
    (ok => f # {}) /\ found' = found \cup f

\* The log listener and the function of Steam are hooked if their symbols are there.
LoadEngine ==
    /\ At(4)
    /\ \/ Fail /\ engine_library(FALSE) /\ UNCHANGED <<slot, saved, armed>>
       \/ /\ Proceed /\ engine_library(TRUE)
          /\ \E s \in SUBSET {"Log"} : (s = {} \/ branch = "l4d2") /\ swap_vfunc(s)
          /\ \E d \in SUBSET {"RemoteStorage"} : armed' = armed \cup d
    /\ UNCHANGED <<gen, called, machines, game, crash, crossed>>

LoadVstdlib ==
    /\ At(5) /\ Stop
    /\ UNCHANGED <<gen, called, patches, machines, game, crash, crossed>>

LoadFilesystem ==
    /\ At(6) /\ Stop
    /\ UNCHANGED <<gen, called, patches, machines, game, crash, crossed>>

LoadVScript ==
    /\ At(7)
    /\ \/ Fail /\ vscript_library(FALSE)
       \/ Proceed /\ vscript_library(TRUE)
    /\ UNCHANGED <<gen, called, slot, saved, armed, machines, game, crash, crossed>>

VScriptSymbols ==
    /\ At(8) /\ Stop
    /\ UNCHANGED <<gen, called, patches, machines, game, crash, crossed>>

LoadServer ==
    /\ At(9)
    /\ \/ Fail /\ server_library(FALSE)
       \/ Proceed /\ server_library(TRUE)
    /\ UNCHANGED <<gen, called, slot, saved, armed, machines, game, crash, crossed>>

ServerSymbols ==
    /\ At(10) /\ Stop
    /\ UNCHANGED <<gen, called, patches, machines, game, crash, crossed>>

\* Classes of entities and of scripts; the pointer to the game's VM is found.
ServerClasses ==
    /\ At(11) /\ Stop
    /\ mirror' = IF phase' = "failed" THEN mirror ELSE current
    /\ UNCHANGED <<gen, called, patches, maker, own, current, client, game, crash, crossed>>

\* The symbols these need were found before, so this stage does not fail.
detours_prevm ==
    /\ At(12) /\ Proceed
    /\ armed' = armed \cup {"Register", "ScriptCreate", "ScriptDestroy"}
    /\ UNCHANGED <<gen, called, found, slot, saved, machines, game, crash>>
    /\ Crossing

\* Flags of the variables, an identifier for the commands, the preprocessor.
Preprocessor ==
    /\ At(13) /\ Stop
    /\ UNCHANGED <<gen, called, patches, machines, game, crash, crossed>>

\* vsmgr->CreateVM; a VM that does not initialise is deleted by the engine.
MakeVM ==
    /\ At(14)
    /\ \/ /\ ~Works("CreateVM") /\ crash' = Broken("CreateVM")
          /\ UNCHANGED <<branch, phase, stage, failures, maker, own>>
       \/ /\ Works("CreateVM") /\ Fail /\ UNCHANGED <<maker, own, crash>>
       \/ /\ Works("CreateVM") /\ Proceed /\ UNCHANGED crash
          /\ \E v \in VMs \ LiveVMs : maker' = [maker EXCEPT ![v] = Makes] /\ own' = v
    /\ UNCHANGED <<gen, called, patches, current, mirror, client, game, crossed>>

\* Entity factories and classes; neither this nor detours() can fail here.
detours ==
    /\ At(15) /\ Proceed
    /\ armed' = (armed \ {"Register"}) \cup {"Print", "VScriptServerInit", "VScriptServerTerm",
                    "RunScript"} \cup (IF branch = "tf2" THEN {"LevelShutdownPostEntity"} ELSE {})
    /\ swap_vfunc({"CreateVM", "DestroyVM", "CreateNetworkStringTables", "RemoveAllTables",
                   "PvAllocEntPrivateData"})
    /\ UNCHANGED <<gen, called, found, machines, game, crash, crossed>>

\* Bindings of mods, the MySQL runner, the base script and its six functions.
Bindings ==
    /\ At(16) /\ Stop
    /\ UNCHANGED <<gen, called, patches, machines, game, crash, crossed>>

BaseScript ==
    /\ At(17) /\ Stop
    /\ UNCHANGED <<gen, called, patches, machines, game, crash, crossed>>

\* VScriptServerInit_detour_callback: between two assignments of its own VM the
\* game's function runs, once, which is given that VM and may not run its scripts.
VScriptServerInit_detour_callback(c) ==
    /\ current' = own
    /\ mirror' = own
    /\ mapspawn' = IF c THEN [mapspawn EXCEPT ![own] = @ + 1] ELSE mapspawn

\* The callback by hand, then the server's script compiled and run.
ServerInit ==
    /\ At(18) /\ Stop
    /\ VScriptServerInit_detour_callback(FALSE)
    /\ called' = (phase' = "loading")
    /\ joined' = (level = "running")
    /\ UNCHANGED <<gen, patches, maker, own, client, level, crash, crossed>>

LateScript ==
    /\ At(19) /\ Stop
    /\ UNCHANGED <<gen, called, patches, machines, game, crash, crossed>>

\* The commands are created, search paths added, the command `path` taken over.
Commands ==
    /\ At(20) /\ Proceed
    /\ swap_vfunc({"path"})
    /\ UNCHANGED <<gen, called, found, armed, machines, game, crash, crossed>>

\* The bindings and the last script.
load_late ==
    /\ At(21)
    /\ \/ Fail
       \/ phase' = "running" /\ UNCHANGED <<branch, stage, failures>>
    /\ UNCHANGED <<gen, called, patches, machines, game, crash, crossed>>

-----------------------------------------------------------------------------
(* Events of the engine, outside of a load. *)

Quiet == crash = "no" /\ phase # "loading"

\* The game's VScriptServerInit: a VM, the server's script, mapspawn.
GameInit ==
    IF ~Works("CreateVM")
    THEN crash' = Broken("CreateVM") /\ UNCHANGED <<maker, current, mapspawn>>
    ELSE /\ UNCHANGED crash
         /\ \E v \in VMs \ LiveVMs :
               /\ maker' = [maker EXCEPT ![v] = Makes]
               /\ current' = v
               /\ mapspawn' = [x \in VMs |-> IF x = v THEN 1 ELSE 0]

\* A level begins: tables, script machine, entities.
LevelInit ==
    /\ Quiet /\ level = "none"
    /\ level' = "running" /\ joined' = FALSE
    /\ LET bad == {s \in {"CreateNetworkStringTables", "PvAllocEntPrivateData"} : ~Works(s)} IN
       IF bad # {}
       THEN /\ \E s \in bad : crash' = Broken(s)
            /\ UNCHANGED <<maker, current, mirror, mapspawn>>
       ELSE IF "VScriptServerInit" \in armed
       THEN VScriptServerInit_detour_callback(called) /\ UNCHANGED <<maker, crash>>
       ELSE GameInit /\ UNCHANGED mirror
    /\ UNCHANGED <<engine, patches, own, client, crossed>>

\* VScriptServerTerm: the game's destroys the VM through the manager, vmod's
\* collects garbage and puts its own VM back.
VScriptServerTerm_detour_callback ==
    /\ current' = own /\ mirror' = own
    /\ UNCHANGED <<maker, crash>>

\* The manager's DestroyVM as the game calls it, with vmod's in its slot or not.
DestroyVM(inTerm) ==
    IF ~Works("DestroyVM")
    THEN crash' = Broken("DestroyVM") /\ UNCHANGED maker
    ELSE IF inTerm /\ slot["DestroyVM"] = gen /\ current = own
    THEN UNCHANGED <<maker, crash>>
    ELSE crash' = DestroyedBy(current) /\ maker' = [maker EXCEPT ![current] = Dead]

GameTerm ==
    /\ IF current = None THEN UNCHANGED <<maker, crash>> ELSE DestroyVM(FALSE)
    /\ current' = None /\ UNCHANGED mirror

\* CVScriptGameSystem::LevelShutdownPostEntity calls VScriptServerTerm or has it
\* inlined: then it calls the manager itself.  Either way vmod's VM is put back.
MutantShutdown ==
    /\ \/ UNCHANGED <<maker, crash, current, mirror>>
       \/ /\ IF current = None THEN UNCHANGED <<maker, crash>> ELSE DestroyVM(TRUE)
          /\ current' = None /\ UNCHANGED mirror
LevelShutdownPostEntity_detour_callback ==
    /\ \/ UNCHANGED <<maker, crash>>
       \/ IF current = None THEN UNCHANGED <<maker, crash>> ELSE DestroyVM(TRUE)
    /\ current' = own /\ mirror' = own

\* A level ends: script machine, then the tables.
LevelShutdown ==
    /\ Quiet /\ level = "running"
    /\ level' = "none" /\ joined' = FALSE
    /\ mapspawn' = [v \in VMs |-> 0]
    /\ IF ~Works("RemoveAllTables")
       THEN crash' = Broken("RemoveAllTables") /\ UNCHANGED <<maker, current, mirror>>
       ELSE IF "LevelShutdownPostEntity" \in armed THEN LevelShutdownPostEntity_detour_callback
       ELSE IF "VScriptServerTerm" \in armed THEN VScriptServerTerm_detour_callback
       ELSE GameTerm
    /\ crossed' = {v \in crossed : maker'[v] # Dead}
    /\ UNCHANGED <<engine, patches, own, client>>

\* The client's VM, on a listen server.
ClientInit ==
    /\ Quiet /\ HasClient /\ client = None
    /\ IF ~Works("CreateVM")
       THEN crash' = Broken("CreateVM") /\ UNCHANGED <<maker, client>>
       ELSE /\ UNCHANGED crash
            /\ \E v \in VMs \ LiveVMs : maker' = [maker EXCEPT ![v] = Makes] /\ client' = v
    /\ UNCHANGED <<engine, patches, own, current, mirror, game, crossed>>

ClientTerm ==
    /\ Quiet /\ client # None
    /\ IF ~Works("DestroyVM")
       THEN crash' = Broken("DestroyVM") /\ UNCHANGED <<maker, client, crossed>>
       ELSE /\ crash' = DestroyedBy(client) /\ maker' = [maker EXCEPT ![client] = Dead]
            /\ client' = None /\ crossed' = crossed \ {client}
    /\ UNCHANGED <<engine, patches, own, current, mirror, game>>

\* A line for the log, the command `path`: what is broken is noticed.
Use ==
    /\ Quiet
    /\ \E s \in {"Log", "path"} : ~Works(s) /\ crash' = Broken(s)
    /\ UNCHANGED <<engine, patches, machines, game, crossed>>

-----------------------------------------------------------------------------
(* Unloading. *)

\* The slots main::unload gives back what was saved of them, saved or not.
MutantRestored == {s \in Slots : s = "Spew" /\ saved[s] # Null}
             \cup (IF "vsmgr" \in found THEN {"CreateVM"} ELSE {})
             \cup (IF "gamedll" \in found THEN {"CreateNetworkStringTables"} ELSE {})
             \cup (IF "sv_stringtables" \in found THEN {"RemoveAllTables"} ELSE {})
Restored == {s \in Slots : s = "Spew" /\ saved[s] # Null}
       \cup (IF "vsmgr" \in found THEN {"CreateVM", "DestroyVM"} ELSE {})
       \cup (IF "gamedll" \in found THEN {"CreateNetworkStringTables"} ELSE {})
       \cup (IF "sv_stringtables" \in found THEN {"RemoveAllTables"} ELSE {})

\* main::unload destroys its VM while the routines are still its own, then gives
\* the slots back.  vm_ keeps the address, at which a VM may be made again.
unload(kept) ==
    /\ IF own = None THEN UNCHANGED <<maker, crash>>
       ELSE IF ~Works("DestroyVM") THEN crash' = Broken("DestroyVM") /\ UNCHANGED maker
       ELSE crash' = DestroyedBy(own) /\ maker' = [maker EXCEPT ![own] = Dead]
    /\ current' = IF current = own THEN None ELSE current
    /\ mirror' = IF mirror = own THEN None ELSE mirror
    /\ own' = own
    /\ joined' = (joined \/ (level = "running" /\ own # None /\ current = own))
    /\ slot' = [s \in Slots |-> IF s \in Restored THEN saved[s] ELSE slot[s]]
    /\ armed' = armed \cap kept

\* The engine unloads the plugin.
Unload ==
    /\ Quiet /\ phase = "running"
    /\ unload({"RemoteStorage"})
    /\ phase' = "unloaded"
    /\ UNCHANGED <<branch, stage, gen, called, failures, found, saved, client, level, mapspawn>>
    /\ Crossing

\* The engine closes the library.  ~vsp unloads what was not unloaded, and the
\* destructors of the detours give the last bytes back.
Close ==
    /\ Quiet /\ phase \in {"failed", "unloaded"}
    /\ IF phase = "failed" THEN unload({})
       ELSE armed' = {} /\ UNCHANGED <<maker, crash, current, mirror, own, slot, joined>>
    /\ phase' = "absent"
    /\ UNCHANGED <<branch, stage, gen, called, failures, found, saved, client, level, mapspawn>>
    /\ Crossing

-----------------------------------------------------------------------------
Load == \/ Open \/ Environment \/ LoadTier0 \/ LoadLauncher \/ LoadEngine \/ LoadVstdlib
        \/ LoadFilesystem \/ LoadVScript \/ VScriptSymbols \/ LoadServer \/ ServerSymbols \/ ServerClasses
        \/ detours_prevm \/ Preprocessor \/ MakeVM \/ detours \/ Bindings \/ BaseScript
        \/ ServerInit \/ LateScript \/ Commands \/ load_late

Init ==
    /\ branch \in Branches
    /\ phase = "absent" /\ stage = 1 /\ gen = 0 /\ called = FALSE /\ failures = {}
    /\ found = {} /\ armed = {}
    /\ slot = [s \in Slots |-> 0] /\ saved = [s \in Slots |-> Null]
    /\ maker = [v \in VMs |-> Dead] /\ own = None /\ current = None /\ mirror = None
    /\ client = None /\ level = "none" /\ mapspawn = [v \in VMs |-> 0] /\ joined = FALSE
    /\ crash = "no" /\ crossed = {}

Next == Load \/ LevelInit \/ LevelShutdown \/ ClientInit \/ ClientTerm \/ Use \/ Unload \/ Close

Spec == Init /\ [][Next]_vars

-----------------------------------------------------------------------------
(* Properties. *)

TypeOK ==
    /\ branch \in Branches /\ phase \in {"absent", "loading", "running", "failed", "unloaded"}
    /\ stage \in Stages /\ gen \in 0..MaxLoads /\ called \in BOOLEAN /\ failures \subseteq Stages
    /\ found \subseteq {"sv_stringtables", "vsmgr", "gamedll"} /\ armed \subseteq Functions
    /\ slot \in [Slots -> Null..MaxLoads] /\ saved \in [Slots -> Null..MaxLoads]
    /\ maker \in [VMs -> Dead..MaxLoads]
    /\ {own, current, mirror, client} \subseteq VMs \cup {None}
    /\ level \in {"none", "running"} /\ mapspawn \in [VMs -> Nat] /\ joined \in BOOLEAN
    /\ crash \in {"no", "null", "dangling", "mismatch"} /\ crossed \subseteq VMs

\* Every variable has its type, and what vmod, the game and the client hold is alive,
\* the client's another one than those of vmod and of the game.  vm_ is left as it
\* was when an unload has freed its VM, and the copy of the game's pointer is kept
\* up only by the functions a load has hooked.
HeldAreAlive ==
    /\ TypeOK
    /\ crash = "no" =>
        /\ {current, client} \subseteq LiveVMs \cup {None}
        /\ client # None => client # current
        /\ \/ phase \in {"unloaded", "absent"}
           \/ own \in LiveVMs \cup {None} /\ (client # None => client # own)
        /\ phase \in {"failed", "unloaded", "absent"} \/ mirror \in LiveVMs \cup {None}

\* While vmod runs, the VM it made is alive, made and to be freed by its own code,
\* and it is the machine the game uses, in a level and between levels.
OwnInCharge ==
    phase = "running" /\ crash = "no" =>
        /\ own # None /\ maker[own] = gen /\ Frees = gen
        /\ current = own /\ mirror = own

\* unload writes to the slots of every object that was found what detours() saved
\* of them: a load that stops in between leaves null pointers, and nothing else does.
NullSlotsOnlyBy ==
    \A s \in Slots : slot[s] = Null =>
        \/ s \in {"CreateVM", "DestroyVM"} /\ failures \cap 7..14 # {}
        \/ s = "CreateNetworkStringTables" /\ failures \cap 9..14 # {}
        \/ s = "RemoveAllTables" /\ failures \cap 4..14 # {}

\* When the library is closed nothing points into it but the three slots that are
\* never given back, a VM of the client, and the VM of a level that began between
\* the two sets of patches of a failed load.
DanglingOnlyBy ==
    phase = "absent" /\ crash = "no" =>
        /\ {s \in Slots : slot[s] > 0} \subseteq {"Log", "path", "PvAllocEntPrivateData"}
        /\ armed = {}
        /\ \A v \in LiveVMs : maker[v] > 0 => v = client \/ failures \cap {13, 14} # {}

\* mapspawn runs once in a level, in the machine the level uses.  It is left out
\* only in a level in which vmod put its VM in or took it away, or that began with the functions
\* patched by a load that stopped before the server's script ran.
MapspawnOnce ==
    level = "running" /\ crash = "no" =>
        /\ \A v \in VMs : mapspawn[v] <= 1
        /\ \/ joined
           \/ current # None /\ mapspawn[current] = 1
           \/ phase = "failed" /\ stage \in 16..18

\* A VM is freed by the routine of the library that made it, unless the routines
\* changed while it was alive, which happens to VMs vmod did not ask for.
MismatchOnlyBy ==
    [][crash' = "mismatch" =>
          \E v \in crossed : v # own /\ maker[v] # Dead /\ maker'[v] = Dead]_vars

\* The VM of vmod is in charge of the game while vmod runs, and nobody holds one
\* that was freed but for vm_ and the copy once they are out of use.
VMInCharge == HeldAreAlive /\ OwnInCharge

\* What an unload, or a load that stops at any of its stages, leaves in the
\* game: null slots, slots and VMs of the closed library, as named above only.
LeavesBehindOnly == NullSlotsOnlyBy /\ DanglingOnlyBy

\* A machine runs the script of its level once and is freed by who made it, as
\* far as vmod put it in place.
MachinesTreatedRight == []MapspawnOnce /\ MismatchOnlyBy
=============================================================================
