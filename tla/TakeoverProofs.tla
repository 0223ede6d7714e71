--------------------------- MODULE TakeoverProofs ---------------------------
(***************************************************************************)
(* The takeover of the game's script machine, for any number of machines   *)
(* and of loads: what each stage of a load has patched, what an unload or  *)
(* a load that stops can therefore give back, and whose machine is where.  *)
(***************************************************************************)
EXTENDS Takeover, TLAPS

USE TakeoverAssumption

\* A load is under way, stopped, or done, and not unloaded yet; stage n is behind it.
Loaded == phase \in {"loading", "failed", "running"}
Done(n) == Loaded /\ stage > n

\* Where a load can be, and that a stage at which it stopped is remembered.
Progress ==
    /\ phase = "running" => stage = 21
    /\ phase = "failed" => stage \in failures \ {12, 15, 20}
    /\ phase # "absent" => gen > 0

\* Which functions jump into the library after which stage.
ArmedRight ==
    /\ phase = "absent" => armed = {}
    /\ \A f \in {"ScriptCreate", "ScriptDestroy"} : f \in armed <=> Done(12)
    /\ \A f \in {"VScriptServerInit", "VScriptServerTerm"} : f \in armed <=> Done(15)
    /\ "LevelShutdownPostEntity" \in armed => Done(15)

\* Which objects of the engine a load has found after which stage.
FoundRight ==
    Loaded =>
        /\ "sv_stringtables" \in found => stage >= 4
        /\ "vsmgr" \in found => stage >= 7
        /\ "gamedll" \in found => stage >= 9
        /\ stage > 4 => "sv_stringtables" \in found
        /\ stage > 7 => "vsmgr" \in found
        /\ stage > 9 => "gamedll" \in found

\* The slots an unload gives back, those vmod is in, and the failures that
\* excuse a null pointer.
Own == {"Log", "path", "PvAllocEntPrivateData"}
Lent == Slots \ Own
Swapped(s) == IF s = "Spew" THEN branch = "tf2" /\ Done(2) ELSE Done(15)
Excused(s) ==
    \/ s \in {"CreateVM", "DestroyVM"} /\ failures \cap 7..14 # {}
    \/ s = "CreateNetworkStringTables" /\ failures \cap 9..14 # {}
    \/ s = "RemoveAllTables" /\ failures \cap 4..14 # {}

SlotsRight ==
    /\ \A s \in Own : slot[s] # Null
    /\ \A s \in Lent :
        /\ saved[s] \in {0, Null}
        /\ slot[s] = IF Swapped(s) THEN gen ELSE IF slot[s] = Null THEN Null ELSE 0
        /\ slot[s] = Null => Excused(s)
        /\ Swapped(s) /\ saved[s] = Null => Excused(s)

\* vm_, as long as no unload has freed what it holds.
Mine == IF Loaded THEN own ELSE None

\* Who holds which VM, and whose code frees it.  At what vm_ holds after an unload
\* there is no VM that saw a change of the routines.
Held == /\ {Mine, current, client} \subseteq LiveVMs \cup {None}
        /\ client # None => client \notin {Mine, current}
        /\ phase \in {"loading", "running"} => mirror \in LiveVMs \cup {None}
Charge == /\ Mine # None <=> Done(14)
          /\ Mine # None => maker[Mine] = gen
          /\ Done(18) => called
          /\ Done(18) /\ phase # "failed" => current = Mine /\ mirror = Mine
          /\ ~Loaded => own \notin crossed
Made == \A v \in LiveVMs :
           /\ maker[v] > 0 => v \in {client, Mine} \/ failures \cap {13, 14} # {}
           /\ v \notin crossed => maker[v] = Frees
\* What ran in which machine.
Ran == /\ \A v \in VMs : mapspawn[v] <= 1
       /\ level = "none" => \A v \in VMs : mapspawn[v] = 0
       /\ level = "running" =>
            \/ joined
            \/ current # None /\ mapspawn[current] = 1
            \/ phase = "failed" /\ stage \in 16..18 /\ Mine # None /\ current = Mine
VMsRight == crash = "no" => Held /\ Charge /\ Made /\ Ran

\* All of it, the inductive invariant.
TInv == TypeOK /\ Progress /\ ArmedRight /\ FoundRight /\ SlotsRight /\ VMsRight

\* The library was never open.
LEMMA InitOK == Init => TInv
<1> SUFFICES ASSUME Init PROVE TInv
  OBVIOUS
<1> USE DEF Init, Null, Dead
<1>1. TypeOK
  <2>1. called \in BOOLEAN /\ joined \in BOOLEAN
    BY Zenon
  <2> QED
    BY <2>1 DEF TypeOK, Stages
<1>2. Progress /\ ArmedRight /\ FoundRight
  BY DEF Progress, ArmedRight, FoundRight, Done, Loaded
<1>3. SlotsRight
  BY DEF SlotsRight, Own, Lent, Slots, Swapped, Done, Loaded
<1>4. VMsRight
  BY DEF VMsRight, Held, Charge, Made, Ran, LiveVMs, Done, Loaded, Mine
<1> QED
  BY <1>1, <1>2, <1>3, <1>4 DEF TInv

-----------------------------------------------------------------------------
(* How the load goes on, and what the stages share *)

\* A stage of the load proceeds, fails, or ends the load.
Moves ==
    /\ crash = "no" /\ phase = "loading" /\ UNCHANGED <<branch, gen>>
    /\ (stage = 2 /\ branch = "tf2") => phase' = "loading"
    /\ \/ phase' = "loading" /\ stage' = stage + 1 /\ stage # 21 /\ failures' = failures
       \/ /\ phase' = "failed" /\ stage' = stage /\ stage \notin {12, 15, 20}
          /\ failures' = failures \cup {stage}
       \/ phase' = "running" /\ stage = 21 /\ stage' = 21 /\ failures' = failures
       \/ phase' = "loading" /\ stage' = stage /\ stage = 14 /\ failures' = failures /\ crash' # "no"

\* The stages that do nothing the model sees but proceed or fail.
Plain == \/ Environment \/ LoadLauncher \/ LoadVstdlib \/ LoadFilesystem \/ VScriptSymbols
         \/ ServerSymbols \/ Preprocessor \/ Bindings \/ BaseScript \/ LateScript \/ load_late

Stage == \/ Plain \/ LoadTier0 \/ LoadEngine \/ LoadVScript \/ LoadServer \/ ServerClasses
         \/ detours_prevm \/ MakeVM \/ detours \/ ServerInit \/ Commands

\* Events of the engine, while no load is under way.
Event == LevelInit \/ LevelShutdown \/ ClientInit \/ ClientTerm \/ Use

\* The plain stages move on and leave all that is patched as it is.
LEMMA PlainIs ==
  ASSUME TypeOK, Plain
  PROVE  /\ Moves /\ stage \notin {2, 4, 7, 9, 11, 12, 14, 15, 18, 20}
         /\ UNCHANGED <<called, patches, machines, game, crash, crossed>>
  BY DEF Plain, Environment, LoadLauncher, LoadVstdlib, LoadFilesystem, VScriptSymbols,
     ServerSymbols, Preprocessor, Bindings, BaseScript, LateScript, load_late, At, Stop, Proceed,
     Fail, Moves

\* The other stages move on, too, or crash where they call into a VM.
LEMMA StageMoves == ASSUME TypeOK, Stage PROVE Moves
<1>1. CASE Plain
  BY <1>1, PlainIs
<1>2. CASE LoadTier0
  BY <1>2 DEF LoadTier0, At, Stop, Proceed, Fail, Moves
<1>3. CASE LoadEngine
  <2>1. At(4) /\ gen' = gen /\ Stop
    BY <1>3 DEF LoadEngine, Stop
  <2> QED
    BY <2>1 DEF At, Stop, Proceed, Fail, Moves
<1>4. CASE LoadVScript \/ LoadServer \/ ServerClasses
  <2>1. (At(7) \/ At(9) \/ At(11)) /\ gen' = gen /\ Stop
    BY <1>4 DEF LoadVScript, LoadServer, ServerClasses, Stop
  <2> QED
    BY <2>1 DEF At, Stop, Proceed, Fail, Moves
<1>5. CASE detours_prevm \/ detours \/ Commands
  BY <1>5 DEF detours_prevm, detours, Commands, At, Stop, Proceed, Fail, Moves
<1>6. CASE MakeVM
  <2>1. /\ At(14) /\ gen' = gen
        /\ Stop \/ (crash' = Broken("CreateVM") /\ UNCHANGED <<branch, phase, stage, failures>>)
    BY <1>6 DEF MakeVM, Stop
  <2> QED
    BY <2>1 DEF At, Stop, Proceed, Fail, Moves, Broken
<1>7. CASE ServerInit
  BY <1>7 DEF ServerInit, At, Stop, Proceed, Fail, Moves
<1> QED
  BY <1>1, <1>2, <1>3, <1>4, <1>5, <1>6, <1>7 DEF Stage

\* An event of the engine patches nothing.
LEMMA EventIs == Event => Quiet /\ UNCHANGED <<engine, patches, own>>
  BY DEF Event, LevelInit, LevelShutdown, ClientInit, ClientTerm, Use, machines

\* The load goes through its stages in order.
LEMMA ProgressKept ==
  ASSUME TInv, [Next]_vars
  PROVE  /\ Progress'
         /\ branch' \in Branches /\ phase' \in {"absent", "loading", "running", "failed", "unloaded"}
         /\ stage' \in Stages /\ gen' \in 0..MaxLoads /\ failures' \subseteq Stages
<1> USE DEF TInv, TypeOK, Progress, Stages
<1>1. CASE Open
  BY <1>1 DEF Open
<1>2. CASE Stage
  <2>1. Moves
    BY <1>2, StageMoves
  <2>2. stage \in 1..21 /\ stage' \in 1..21
    BY <2>1 DEF Moves
  <2>3. failures' \subseteq 1..21
    BY <2>1, <2>2 DEF Moves
  <2> QED
    BY <2>1, <2>2, <2>3 DEF Moves
<1>3. CASE Event
  BY <1>3, EventIs DEF engine
<1>4. CASE Unload
  BY <1>4 DEF Unload
<1>5. CASE Close
  BY <1>5 DEF Close
<1>6. CASE UNCHANGED vars
  BY <1>6 DEF vars, engine
<1> QED
  BY <1>1, <1>2, <1>3, <1>4, <1>5, <1>6 DEF Next, Load, Stage, Plain, Event

-----------------------------------------------------------------------------
(* Detours and slots *)

\* A function jumps into the library between the stage that hooks it and the unload.
LEMMA ArmedKept ==
  ASSUME TInv, [Next]_vars
  PROVE  ArmedRight' /\ armed' \subseteq Functions
<1> USE DEF TInv, TypeOK, Progress, Stages, Functions, ArmedRight, Done, Loaded
<1>1. CASE Open
  BY <1>1 DEF Open
<1>2. CASE Stage
  <2>1. Moves
    BY <1>2, StageMoves
  <2>2. CASE stage \notin {12, 15} /\ armed' \in {armed, armed \cup {"RemoteStorage"}}
    BY <2>1, <2>2 DEF Moves
  <2>3. CASE stage = 12 /\ armed' = armed \cup {"Register", "ScriptCreate", "ScriptDestroy"}
    BY <2>1, <2>3 DEF Moves
  <2>4. CASE detours
    BY <2>1, <2>4 DEF Moves, detours, At
  <2>5. Plain => UNCHANGED armed /\ stage \notin {12, 15}
    BY PlainIs DEF patches
  <2>6. LoadEngine => stage = 4 /\ armed' \in {armed, armed \cup {"RemoteStorage"}}
    <3>1. ASSUME NEW d \in SUBSET {"RemoteStorage"}
          PROVE  armed \cup d \in {armed, armed \cup {"RemoteStorage"}}
      <4>1. d = {} \/ d = {"RemoteStorage"}
        OBVIOUS
      <4> QED
        BY <4>1
    <3> QED
      BY <3>1 DEF LoadEngine, At
  <2>7. CASE LoadTier0 \/ LoadVScript \/ LoadServer \/ ServerClasses \/ MakeVM \/ ServerInit \/ Commands
    <3>1. UNCHANGED armed /\ stage \notin {12, 15}
      <4>1. CASE LoadTier0
        BY <4>1 DEF LoadTier0, At, patches
      <4>2. CASE LoadVScript
        BY <4>2 DEF LoadVScript, At, patches
      <4>3. CASE LoadServer
        BY <4>3 DEF LoadServer, At, patches
      <4>4. CASE ServerClasses
        BY <4>4 DEF ServerClasses, At, patches
      <4>5. CASE MakeVM
        BY <4>5 DEF MakeVM, At, patches
      <4>6. CASE ServerInit
        BY <4>6 DEF ServerInit, At, patches
      <4>7. CASE Commands
        BY <4>7 DEF Commands, At, patches
      <4> QED
        BY <2>7, <4>1, <4>2, <4>3, <4>4, <4>5, <4>6, <4>7
    <3> QED
      BY <2>2, <3>1
  <2>8. CASE detours_prevm
    BY <2>3, <2>8 DEF detours_prevm, At
  <2> QED
    BY <1>2, <2>2, <2>4, <2>5, <2>6, <2>7, <2>8 DEF Stage
<1>3. CASE Event
  BY <1>3, EventIs DEF engine, patches
<1>4. CASE Unload
  BY <1>4 DEF Unload, unload
<1>5. CASE Close
  BY <1>5 DEF Close, unload
<1>6. CASE UNCHANGED vars
  BY <1>6 DEF vars, engine, patches
<1> QED
  BY <1>1, <1>2, <1>3, <1>4, <1>5, <1>6 DEF Next, Load, Stage, Plain, Event

\* A load past the stage of a library has found its objects.
LEMMA FoundKept ==
  ASSUME TInv, [Next]_vars
  PROVE  FoundRight' /\ found' \subseteq {"sv_stringtables", "vsmgr", "gamedll"}
<1> USE DEF TInv, TypeOK, Progress, Stages, FoundRight, Loaded
<1>1. CASE Open
  BY <1>1 DEF Open
<1>2. CASE Stage
  <2>1. Moves
    BY <1>2, StageMoves
  <2>2. CASE stage \notin {4, 7, 9} /\ found' = found
    BY <2>1, <2>2 DEF Moves
  <2>3. CASE LoadEngine
    <3>1. /\ stage = 4
          /\ \/ phase' = "failed" /\ engine_library(FALSE)
             \/ engine_library(TRUE)
      BY <2>3 DEF LoadEngine, At, Fail
    <3>2. found' \subseteq found \cup {"sv_stringtables"} /\ found \subseteq found'
          /\ (phase' = "loading" => "sv_stringtables" \in found')
      BY <3>1 DEF engine_library
    <3> QED
      BY <2>1, <3>1, <3>2 DEF Moves
  <2>4. CASE LoadVScript
    <3>1. stage = 7 /\ found' \subseteq found \cup {"vsmgr"} /\ found \subseteq found'
          /\ (phase' = "loading" => "vsmgr" \in found')
      BY <2>4 DEF LoadVScript, At, Fail, vscript_library
    <3> QED
      BY <2>1, <3>1 DEF Moves
  <2>5. CASE LoadServer
    <3>1. stage = 9 /\ found' \subseteq found \cup {"gamedll"} /\ found \subseteq found'
          /\ (phase' = "loading" => "gamedll" \in found')
      BY <2>5 DEF LoadServer, At, Fail, server_library
    <3> QED
      BY <2>1, <3>1 DEF Moves
  <2>6. Plain => UNCHANGED found /\ stage \notin {4, 7, 9}
    BY PlainIs DEF patches
  <2>7. CASE \/ LoadTier0 \/ ServerClasses \/ detours \/ detours_prevm \/ MakeVM \/ ServerInit
             \/ Commands
    <3>1. UNCHANGED found /\ stage \notin {4, 7, 9}
      <4>1. CASE LoadTier0
        BY <4>1 DEF LoadTier0, At, patches
      <4>2. CASE ServerClasses
        BY <4>2 DEF ServerClasses, At, patches
      <4>3. CASE detours
        BY <4>3 DEF detours, At, patches
      <4>4. CASE detours_prevm
        BY <4>4 DEF detours_prevm, At, patches
      <4>5. CASE MakeVM
        BY <4>5 DEF MakeVM, At, patches
      <4>6. CASE ServerInit
        BY <4>6 DEF ServerInit, At, patches
      <4>7. CASE Commands
        BY <4>7 DEF Commands, At, patches
      <4> QED
        BY <2>7, <4>1, <4>2, <4>3, <4>4, <4>5, <4>6, <4>7
    <3> QED
      BY <2>2, <3>1
  <2> QED
    BY <1>2, <2>2, <2>3, <2>4, <2>5, <2>6, <2>7 DEF Stage
<1>3. CASE Event
  BY <1>3, EventIs DEF engine, patches
<1>4. CASE Unload
  BY <1>4 DEF Unload
<1>5. CASE Close
  BY <1>5 DEF Close
<1>6. CASE UNCHANGED vars
  BY <1>6 DEF vars, engine, patches
<1> QED
  BY <1>1, <1>2, <1>3, <1>4, <1>5, <1>6 DEF Next, Load, Stage, Plain, Event

\* A stage puts vmod into these slots, and into no others.
Swaps(S) ==
    /\ S \subseteq Slots
    /\ slot' = [x \in Slots |-> IF x \in S THEN gen ELSE slot[x]]
    /\ saved' = [x \in Slots |-> IF x \in S THEN slot[x] ELSE saved[x]]
    /\ "Spew" \in S <=> stage = 2 /\ branch = "tf2"
    /\ \A s \in Lent \ {"Spew"} : s \in S <=> stage = 15

\* Every stage swaps some slots, most of them none.
LEMMA StageSwaps ==
  ASSUME TInv, Stage
  PROVE  \E S : Swaps(S)
<1> USE DEF TInv, TypeOK
<1>1. ASSUME UNCHANGED <<slot, saved>>, stage # 15, stage = 2 => branch # "tf2"
      PROVE  Swaps({})
  BY <1>1 DEF Swaps
<1>2. CASE Plain
  BY <1>1, <1>2, PlainIs DEF patches
<1>3. CASE LoadTier0
  <2>1. /\ stage = 2
        /\ \/ swap_vfunc({"Spew"}) /\ branch = "tf2"
           \/ slot' = slot /\ saved' = saved /\ branch = "l4d2"
    BY <1>3 DEF LoadTier0, At
  <2>2. CASE branch = "tf2"
    <3>1. Swaps({"Spew"})
      BY <2>1, <2>2 DEF Swaps, swap_vfunc, Slots
    <3> QED
      BY <3>1
  <2>3. CASE branch = "l4d2"
    BY <1>1, <2>1, <2>3
  <2> QED
    BY <2>1, <2>2, <2>3
<1>4. CASE LoadEngine
  <2>1. stage = 4 /\ (UNCHANGED <<slot, saved>> \/ \E l \in SUBSET {"Log"} : swap_vfunc(l))
    BY <1>4 DEF LoadEngine, At
  <2>2. ASSUME NEW l \in SUBSET {"Log"}, swap_vfunc(l) PROVE Swaps(l)
    BY <2>1, <2>2 DEF Swaps, swap_vfunc, Slots, Lent, Own
  <2> QED
    BY <1>1, <2>1, <2>2
<1>5. CASE detours
  <2> DEFINE S == {"CreateVM", "DestroyVM", "CreateNetworkStringTables", "RemoveAllTables",
                   "PvAllocEntPrivateData"}
  <2>1. stage = 15 /\ swap_vfunc(S)
    BY <1>5 DEF detours, At
  <2>2. Swaps(S)
    BY <2>1 DEF Swaps, swap_vfunc, Slots, Lent, Own
  <2> QED
    BY <2>2
<1>6. CASE Commands
  <2>1. stage = 20 /\ swap_vfunc({"path"})
    BY <1>6 DEF Commands, At
  <2>2. Swaps({"path"})
    BY <2>1 DEF Swaps, swap_vfunc, Slots, Lent, Own
  <2> QED
    BY <2>2
<1>7. CASE LoadVScript \/ LoadServer
  <2>1. UNCHANGED <<slot, saved>> /\ (stage = 7 \/ stage = 9)
    BY <1>7 DEF LoadVScript, LoadServer, At
  <2> QED
    BY <1>1, <2>1
<1>8. CASE ServerClasses \/ detours_prevm
  <2>1. UNCHANGED <<slot, saved>> /\ (stage = 11 \/ stage = 12)
    BY <1>8 DEF ServerClasses, detours_prevm, At, patches
  <2> QED
    BY <1>1, <2>1
<1>9. CASE MakeVM \/ ServerInit
  <2>1. UNCHANGED <<slot, saved>> /\ (stage = 14 \/ stage = 18)
    BY <1>9 DEF MakeVM, ServerInit, At, patches
  <2> QED
    BY <1>1, <2>1
<1> QED
  BY <1>2, <1>3, <1>4, <1>5, <1>6, <1>7, <1>8, <1>9 DEF Stage

\* A stage keeps what it replaces.
LEMMA StageSlots ==
  ASSUME TInv, Stage
  PROVE  SlotsRight' /\ slot' \in [Slots -> Null..MaxLoads] /\ saved' \in [Slots -> Null..MaxLoads]
<1> USE DEF TInv, TypeOK
<1>1. PICK S : Swaps(S)
  BY StageSwaps
<1>2. Moves /\ gen' = gen /\ branch' = branch /\ gen \in 1..MaxLoads /\ failures \subseteq failures'
  BY StageMoves DEF Moves, Progress
<1>3. slot' \in [Slots -> Null..MaxLoads] /\ saved' \in [Slots -> Null..MaxLoads]
  BY <1>1, <1>2 DEF Swaps, Null
<1>4. \A s \in Own : slot'[s] # Null
  BY <1>1, <1>2 DEF SlotsRight, Swaps, Slots, Own, Null
<1>5. ASSUME NEW s \in Lent
      PROVE  Swapped(s)' <=> Swapped(s) \/ s \in S
  <2>1. CASE s = "Spew"
    BY <1>1, <1>2, <2>1 DEF Moves, Swaps, Swapped, Done, Loaded, Stages
  <2>2. CASE s # "Spew"
    BY <1>1, <1>2, <2>2 DEF Moves, Swaps, Swapped, Done, Loaded, Stages
  <2> QED
    BY <2>1, <2>2
<1>6. ASSUME NEW s \in Lent, s \in S PROVE ~Swapped(s)
  BY <1>1, <1>6 DEF Swaps, Swapped, Done
<1>7. ASSUME NEW s \in Lent, Excused(s) PROVE Excused(s)'
  BY <1>2, <1>7 DEF Excused
<1>8. ASSUME NEW s \in Lent
      PROVE  /\ saved'[s] \in {0, Null}
             /\ slot'[s] = IF Swapped(s)' THEN gen' ELSE IF slot'[s] = Null THEN Null ELSE 0
             /\ slot'[s] = Null => Excused(s)'
             /\ (Swapped(s)' /\ saved'[s] = Null) => Excused(s)'
  <2>1. s \in Slots
    BY DEF Lent
  <2>2. CASE s \in S
    BY <1>1, <1>2, <1>5, <1>6, <1>7, <2>1, <2>2 DEF SlotsRight, Swaps, Null
  <2>3. CASE s \notin S
    BY <1>1, <1>2, <1>5, <1>7, <2>1, <2>3 DEF SlotsRight, Swaps, Null
  <2> QED
    BY <2>2, <2>3
<1> QED
  BY <1>3, <1>4, <1>8 DEF SlotsRight

\* What an unload gives back was the engine's own, or is excused.
LEMMA RestoredSlots ==
  ASSUME TInv, phase \in {"running", "failed"}, ~Loaded', failures' = failures, UNCHANGED <<branch, gen, saved>>,
         slot' = [s \in Slots |-> IF s \in Restored THEN saved[s] ELSE slot[s]]
  PROVE  SlotsRight' /\ slot' \in [Slots -> Null..MaxLoads]
<1> USE DEF TInv, TypeOK
<1>1. slot' \in [Slots -> Null..MaxLoads]
  OBVIOUS
<1>2. \A s \in Own : slot'[s] # Null
  BY DEF Own, Restored, Slots, SlotsRight
<1>3. ASSUME NEW s \in Lent
      PROVE  /\ saved'[s] \in {0, Null} /\ ~Swapped(s)'
             /\ slot'[s] \in {0, Null}
             /\ slot'[s] = Null => Excused(s)'
  <2>1. s \in Slots /\ saved'[s] \in {0, Null} /\ ~Swapped(s)'
    BY DEF Lent, SlotsRight, Swapped, Done
  <2>2. slot'[s] = IF s \in Restored THEN saved[s] ELSE slot[s]
    BY <2>1
  <2>3. Excused(s) => Excused(s)'
    BY DEF Excused
  <2>4. CASE s = "Spew"
    <3>1. ~Excused(s) /\ (s \in Restored <=> saved[s] # Null)
      BY <2>1, <2>4 DEF Excused, Restored
    <3> QED
      BY <2>1, <2>2, <3>1 DEF SlotsRight
  <2>5. CASE s # "Spew" /\ Done(15)
    <3>1. s \in Restored
      BY <2>1, <2>5 DEF Lent, Own, Slots, Restored, FoundRight, Done, Stages
    <3> QED
      BY <2>1, <2>2, <2>3, <2>5, <3>1 DEF SlotsRight, Swapped
  <2>6. CASE s # "Spew" /\ ~Done(15)
    <3>1. stage \in failures /\ stage \in 1..14
      BY <2>6 DEF Done, Loaded, Progress, Stages
    <3>2. s \in Restored => Excused(s)
      BY <2>1, <2>6, <3>1 DEF Restored, FoundRight, Excused, Loaded, Lent, Own, Slots
    <3> QED
      BY <2>1, <2>2, <2>3, <2>6, <3>2 DEF SlotsRight, Swapped
  <2> QED
    BY <2>4, <2>5, <2>6
<1> QED
  BY <1>1, <1>2, <1>3 DEF SlotsRight

\* The slots that are lent stay accounted for, whatever happens.
LEMMA SlotsKept ==
  ASSUME TInv, [Next]_vars
  PROVE  SlotsRight' /\ slot' \in [Slots -> Null..MaxLoads] /\ saved' \in [Slots -> Null..MaxLoads]
<1> USE DEF TInv, TypeOK
<1>1. ASSUME UNCHANGED <<slot, saved, branch, gen, failures>>, \A s \in Lent : Swapped(s)' <=> Swapped(s)
      PROVE  SlotsRight' /\ slot' \in [Slots -> Null..MaxLoads] /\ saved' \in [Slots -> Null..MaxLoads]
  BY <1>1 DEF SlotsRight, Excused
<1>2. CASE Open
  <2>1. /\ UNCHANGED <<slot, branch, failures>> /\ saved' = [s \in Slots |-> Null]
        /\ \A s \in Lent : ~Swapped(s) /\ ~Swapped(s)'
    BY <1>2 DEF Open, Swapped, Done, Loaded
  <2>2. saved' \in [Slots -> Null..MaxLoads]
    BY <2>1 DEF Null
  <2> QED
    BY <2>1, <2>2 DEF SlotsRight, Excused, Lent
<1>3. CASE Stage
  BY <1>3, StageSlots
<1>4. CASE Event
  BY <1>1, <1>4, EventIs DEF engine, patches, Swapped, Done, Loaded
<1>5. CASE Unload
  <2>1. ~Loaded'
    BY <1>5 DEF Unload, Loaded
  <2> QED
    BY <1>5, <2>1, RestoredSlots DEF Unload, unload
<1>6. CASE Close /\ phase = "failed"
  <2>1. ~Loaded'
    BY <1>6 DEF Close, Loaded
  <2> QED
    BY <1>6, <2>1, RestoredSlots DEF Close, unload
<1>7. CASE Close /\ phase # "failed"
  BY <1>1, <1>7 DEF Close, Swapped, Done, Loaded
<1>8. CASE UNCHANGED vars
  BY <1>1, <1>8 DEF vars, engine, patches, Swapped, Done, Loaded
<1> QED
  BY <1>2, <1>3, <1>4, <1>5, <1>6, <1>7, <1>8 DEF Next, Load, Stage, Plain, Event

-----------------------------------------------------------------------------
(* The machines *)

VMTypes ==
    /\ maker \in [VMs -> Dead..MaxLoads]
    /\ {own, current, mirror, client} \subseteq VMs \cup {None}
    /\ level \in {"none", "running"} /\ mapspawn \in [VMs -> Nat]
    /\ crash \in {"no", "null", "dangling", "mismatch"} /\ crossed \subseteq VMs

\* A VM that was just made by the routine in effect.
LEMMA MakerTypes ==
  ASSUME TypeOK, NEW v \in VMs
  PROVE  /\ [maker EXCEPT ![v] = Makes] \in [VMs -> Dead..MaxLoads]
         /\ [maker EXCEPT ![v] = Dead] \in [VMs -> Dead..MaxLoads]
  BY DEF TypeOK, Makes, Dead

\* What a broken call and a VM freed by the wrong routine are called.
LEMMA CrashTypes ==
  \A x : Broken(x) \in {"null", "dangling"} /\ DestroyedBy(x) \in {"no", "mismatch"}
  BY DEF Broken, DestroyedBy

\* The stages keep the types of what belongs to the machines.
LEMMA StageVMTypes == ASSUME TInv, Stage PROVE VMTypes'
<1> USE DEF TInv, TypeOK
<1>1. CASE UNCHANGED <<machines, game, crash, crossed>>
  BY <1>1 DEF VMTypes, machines, game
<1>2. CASE LoadTier0 \/ LoadEngine \/ LoadVScript \/ LoadServer \/ detours \/ Commands
  BY <1>1, <1>2 DEF LoadTier0, LoadEngine, LoadVScript, LoadServer, detours, Commands
<1>3. CASE Plain
  BY <1>1, <1>3, PlainIs
<1>4. CASE ServerClasses
  BY <1>4 DEF ServerClasses, VMTypes, game
<1>5. CASE detours_prevm
  BY <1>5 DEF detours_prevm, VMTypes, game, machines, Crossing
<1>6. CASE MakeVM
  BY <1>6, MakerTypes, CrashTypes DEF MakeVM, VMTypes, game
<1>7. CASE ServerInit
  <2>1. UNCHANGED <<maker, own, client, level, crash, crossed, mapspawn>> /\ current' = own /\ mirror' = own
    BY <1>7 DEF ServerInit, VScriptServerInit_detour_callback
  <2> QED
    BY <2>1 DEF VMTypes
<1> QED
  BY <1>2, <1>3, <1>4, <1>5, <1>6, <1>7 DEF Stage

\* So do the events of the engine.
LEMMA EventVMTypes == ASSUME TInv, Event PROVE VMTypes'
<1> USE DEF TInv, TypeOK
<1>1. ASSUME NEW c, VScriptServerInit_detour_callback(c)
      PROVE  current' \in VMs \cup {None} /\ mirror' \in VMs \cup {None} /\ mapspawn' \in [VMs -> Nat]
  <2>1. [mapspawn EXCEPT ![own] = @ + 1] \in [VMs -> Nat]
    <3>1. CASE own \in VMs
      BY <3>1
    <3>2. CASE own \notin VMs
      BY <3>2
    <3> QED
      BY <3>1, <3>2
  <2> QED
    BY <1>1, <2>1 DEF VScriptServerInit_detour_callback
<1>2. ASSUME GameInit
      PROVE  /\ current' \in VMs \cup {None} /\ maker' \in [VMs -> Dead..MaxLoads]
             /\ mapspawn' \in [VMs -> Nat] /\ crash' \in {"no", "null", "dangling", "mismatch"}
  BY <1>2, MakerTypes, CrashTypes DEF GameInit
<1>3. ASSUME NEW t \in BOOLEAN, current # None, DestroyVM(t)
      PROVE  maker' \in [VMs -> Dead..MaxLoads] /\ crash' \in {"no", "null", "dangling", "mismatch"}
  BY <1>3, MakerTypes, CrashTypes DEF DestroyVM
<1>4. CASE LevelInit
  <2>1. /\ UNCHANGED <<own, client, crossed>> /\ level' = "running"
        /\ \/ \E s : crash' = Broken(s) /\ UNCHANGED <<maker, current, mirror, mapspawn>>
           \/ VScriptServerInit_detour_callback(called) /\ UNCHANGED <<maker, crash>>
           \/ GameInit /\ UNCHANGED mirror
    BY <1>4 DEF LevelInit
  <2> QED
    BY <1>1, <1>2, <2>1, CrashTypes DEF VMTypes
<1>5. CASE LevelShutdown
  <2>1. /\ UNCHANGED <<own, client>> /\ level' = "none" /\ mapspawn' = [v \in VMs |-> 0]
        /\ crossed' = {v \in crossed : maker'[v] # Dead}
        /\ {current', mirror'} \subseteq {current, mirror, own, None}
        /\ \/ crash' = Broken("RemoveAllTables") /\ maker' = maker
           \/ UNCHANGED <<maker, crash>>
           \/ \E t \in BOOLEAN : current # None /\ DestroyVM(t)
    BY <1>5 DEF LevelShutdown, LevelShutdownPostEntity_detour_callback,
       VScriptServerTerm_detour_callback, GameTerm
  <2> QED
    BY <1>3, <2>1, CrashTypes DEF VMTypes
<1>6. CASE ClientInit
  BY <1>6, MakerTypes, CrashTypes DEF ClientInit, VMTypes, game
<1>7. CASE ClientTerm
  BY <1>7, MakerTypes, CrashTypes DEF ClientTerm, VMTypes, game
<1>8. CASE Use
  BY <1>8, CrashTypes DEF Use, VMTypes, game, machines
<1> QED
  BY <1>4, <1>5, <1>6, <1>7, <1>8 DEF Event

\* So does every step.
LEMMA VMTypesKept == ASSUME TInv, [Next]_vars PROVE VMTypes'
<1> USE DEF TInv, TypeOK
<1>1. CASE Stage
  BY <1>1, StageVMTypes
<1>2. CASE Event
  BY <1>2, EventVMTypes
<1>3. CASE Open
  BY <1>3 DEF Open, VMTypes, game
<1>4. ASSUME NEW k, unload(k), Crossing, UNCHANGED <<client, level, mapspawn>>
      PROVE  VMTypes'
  <2>1. maker' \in [VMs -> Dead..MaxLoads] /\ crash' \in {"no", "null", "dangling", "mismatch"}
    BY <1>4, MakerTypes, CrashTypes DEF unload
  <2>2. {own, current, mirror}' \subseteq VMs \cup {None}
    BY <1>4 DEF unload
  <2> QED
    BY <1>4, <2>1, <2>2 DEF VMTypes, Crossing
<1>5. CASE Unload
  BY <1>4, <1>5 DEF Unload
<1>6. CASE Close /\ phase = "failed"
  BY <1>4, <1>6 DEF Close
<1>7. CASE Close /\ phase # "failed"
  BY <1>7 DEF Close, VMTypes, Crossing
<1>8. CASE UNCHANGED vars
  BY <1>8 DEF vars, machines, game, VMTypes
<1> QED
  BY <1>1, <1>2, <1>3, <1>5, <1>6, <1>7, <1>8 DEF Next, Load, Stage, Plain, Event

\* And the types of all variables.
LEMMA TypesKept == ASSUME TInv, [Next]_vars PROVE TypeOK'
<1>1. called' \in BOOLEAN
  <2>1. CASE ServerInit
    BY <2>1, Zenon DEF ServerInit
  <2>2. CASE Open
    BY <2>2, Zenon DEF Open
  <2>3. CASE called' = called
    BY <2>3, Zenon DEF TInv, TypeOK
  <2>4. Stage /\ ~ServerInit => called' = called
    BY PlainIs DEF TInv, Stage, LoadTier0, LoadEngine, LoadVScript, LoadServer, ServerClasses,
       detours_prevm, MakeVM, detours, Commands
  <2>5. Event => called' = called
    BY EventIs DEF engine
  <2> QED
    BY <2>1, <2>2, <2>3, <2>4, <2>5 DEF Next, Load, Stage, Plain, Event, Unload, Close, vars, engine
<1>2. joined' \in BOOLEAN
  <2>1. CASE joined' = joined
    BY <2>1, Zenon DEF TInv, TypeOK
  <2>2. CASE LevelInit \/ LevelShutdown
    BY <2>2, Zenon DEF LevelInit, LevelShutdown
  <2>3. CASE ServerInit
    BY <2>3, Zenon DEF ServerInit
  <2>4. CASE Unload
    BY <2>4, Zenon DEF Unload, unload
  <2>5. CASE Close /\ phase = "failed"
    BY <2>5, Zenon DEF Close, unload
  <2>8. CASE Close /\ phase # "failed"
    BY <2>1, <2>8, Zenon DEF Close
  <2>6. Stage /\ ~ServerInit => joined' = joined
    BY PlainIs DEF TInv, Stage, LoadTier0, LoadEngine, LoadVScript, LoadServer, ServerClasses,
       detours_prevm, MakeVM, detours, Commands, game
  <2>7. Open \/ ClientInit \/ ClientTerm \/ Use => joined' = joined
    BY DEF Open, ClientInit, ClientTerm, Use, game
  <2> QED
    BY <2>1, <2>2, <2>3, <2>4, <2>5, <2>6, <2>7, <2>8 DEF Next, Load, Stage, Plain, vars, game
<1> QED
  BY <1>1, <1>2, ProgressKept, ArmedKept, FoundKept, SlotsKept, VMTypesKept DEF TypeOK, VMTypes

\* A step that leaves the machines as they are.
LEMMA SameVMs ==
  ASSUME TInv, TypeOK', UNCHANGED <<maker, current, client, crossed, game>>, crash = "no", Mine' = Mine,
         phase' \in {"loading", "running"} => phase = "loading" /\ mirror' \in {mirror, current},
         failures \subseteq failures', Frees' = Frees,
         phase = "failed" => phase' = phase /\ stage' = stage, Charge'
  PROVE  Held' /\ Charge' /\ Made' /\ Ran'
<1> USE DEF TInv, VMsRight, TypeOK, game
<1>1. LiveVMs' = LiveVMs
  BY DEF LiveVMs
<1>2. Held' /\ Made'
  BY <1>1 DEF Held, Made, LiveVMs
<1>3. Ran'
  BY DEF Ran
<1> QED
  BY <1>2, <1>3

\* A stage of the load keeps who holds and frees which machine.
LEMMA StageVMs == ASSUME TInv, Stage, TypeOK', ArmedRight' PROVE VMsRight'
<1> SUFFICES ASSUME crash' = "no" PROVE Held' /\ Charge' /\ Made' /\ Ran'
  BY DEF VMsRight
<1>1. /\ Moves /\ crash = "no" /\ phase = "loading" /\ phase' # "absent" /\ phase' # "unloaded"
      /\ gen' = gen /\ gen \in 1..MaxLoads /\ stage \in 1..21 /\ stage' \in 1..21
      /\ failures \subseteq failures' /\ phase' \in {"loading", "failed", "running"}
      /\ Loaded /\ Loaded' /\ Mine = own /\ Mine' = own'
  BY StageMoves DEF Moves, TInv, TypeOK, Stages, Progress, Loaded, Mine
<1>2. \A n \in {12, 14, 15, 18} : stage # n => (Done(n)' <=> Done(n))
  BY <1>1 DEF Moves, Done, Loaded
<1>3. stage # 12 => Frees' = Frees
  BY <1>1, <1>2 DEF TInv, ArmedRight, Frees
<1>4. Held /\ Charge /\ Made /\ Ran
  BY <1>1 DEF TInv, VMsRight
<1>5. CASE /\ UNCHANGED <<maker, own, current, client, crossed, game, called>>
           /\ stage \notin {12, 14, 18} /\ (UNCHANGED mirror \/ (stage = 11 /\ mirror' = current))
  <2>1. Charge'
    <3>1. Done(18) => stage > 18
      BY DEF Done
    <3> QED
      BY <1>1, <1>2, <1>4, <1>5, <3>1 DEF Charge
  <2> QED
    BY <1>1, <1>3, <1>5, <2>1, SameVMs
<1>6. CASE Plain
  BY <1>5, <1>6, PlainIs DEF TInv, machines
<1>7. CASE LoadTier0 \/ LoadEngine \/ LoadVScript \/ LoadServer
  <2>1. UNCHANGED <<maker, own, current, client, mirror, crossed, game, called>>
    BY <1>7 DEF LoadTier0, LoadEngine, LoadVScript, LoadServer, machines
  <2>2. stage \in {2, 4, 7, 9}
    BY <1>7 DEF LoadTier0, LoadEngine, LoadVScript, LoadServer, At
  <2> QED
    BY <1>5, <2>1, <2>2
<1>8. CASE detours \/ Commands \/ ServerClasses
  BY <1>5, <1>8 DEF detours, Commands, ServerClasses, machines, At
<1>9. CASE detours_prevm
  <2>1. /\ UNCHANGED <<maker, own, current, mirror, client, game, called>> /\ stage = 12
        /\ crossed' = {v \in VMs : maker'[v] # Dead /\ (v \in crossed \/ maker'[v] # Frees')}
    BY <1>9 DEF detours_prevm, machines, At, Crossing, Frees
  <2>2. Charge'
    BY <1>1, <1>2, <1>4, <2>1 DEF Charge, Done
  <2>3. Held'
    BY <1>1, <1>4, <2>1 DEF Held, LiveVMs
  <2>4. Made'
    BY <1>1, <1>4, <2>1 DEF Made, LiveVMs
  <2>5. Ran'
    BY <1>1, <1>4, <2>1 DEF Ran, game
  <2> QED
    BY <2>2, <2>3, <2>4, <2>5
<1>10. CASE MakeVM
  <2>1. /\ stage = 14 /\ UNCHANGED <<called, current, mirror, client, game, crossed>>
        /\ \/ phase' = "failed" /\ UNCHANGED <<maker, own>>
           \/ /\ phase' = "loading" /\ stage' = 15
              /\ \E v \in VMs \ LiveVMs : maker' = [maker EXCEPT ![v] = Makes] /\ own' = v
    <3>1. Broken("CreateVM") # "no"
      BY CrashTypes
    <3> QED
      BY <1>1, <1>10, <3>1 DEF MakeVM, At, Fail, Proceed
  <2>2. CASE phase' = "failed" /\ UNCHANGED <<maker, own>>
    <3>1. Charge'
      BY <1>1, <1>4, <2>1, <2>2 DEF Charge, Done, Moves
    <3> QED
      BY <1>1, <1>3, <2>1, <2>2, <3>1, SameVMs
  <2>3. ASSUME phase' = "loading", stage' = 15,
               NEW v \in VMs \ LiveVMs, maker' = [maker EXCEPT ![v] = Makes], own' = v
        PROVE  Held' /\ Charge' /\ Made' /\ Ran'
    <3>1. own = None /\ ~Done(18)'
      BY <1>1, <1>4, <2>1, <2>3 DEF Charge, Done
    <3>2. Makes = gen /\ Frees' = gen /\ Frees = gen /\ gen # Dead
      BY <1>1, <1>3, <2>1 DEF TInv, ArmedRight, Makes, Frees, Done, Loaded, Dead
    <3>3. LiveVMs' = LiveVMs \cup {v} /\ v \notin LiveVMs /\ v # None /\ maker'[v] = gen
          /\ \A x \in VMs : x # v => maker'[x] = maker[x]
      BY <2>3, <3>2 DEF LiveVMs, TInv, TypeOK
    <3>4. Held'
      BY <1>1, <1>4, <2>1, <2>3, <3>3 DEF Held
    <3>5. Charge'
      BY <1>1, <2>3, <3>1, <3>3 DEF Charge, Done, Loaded
    <3>6. Made'
      BY <1>1, <1>4, <2>1, <2>3, <3>1, <3>2, <3>3 DEF Made, LiveVMs
    <3>7. Ran'
      BY <1>1, <1>4, <2>1 DEF Ran, game
    <3> QED
      BY <3>4, <3>5, <3>6, <3>7
  <2> QED
    BY <2>1, <2>2, <2>3
<1>11. CASE ServerInit
  <2>1. /\ stage = 18 /\ UNCHANGED <<maker, own, client, level, crossed, mapspawn>>
        /\ current' = own /\ mirror' = own /\ joined' = (level = "running")
    BY <1>11 DEF ServerInit, VScriptServerInit_detour_callback, At
  <2>0. phase' = "loading" => called'
    BY <1>11, Zenon DEF ServerInit
  <2>2. Held'
    BY <1>1, <1>4, <2>1 DEF Held, LiveVMs
  <2>3. Charge'
    BY <1>1, <1>2, <1>4, <2>0, <2>1 DEF Charge, Moves, Done, Loaded
  <2>4. Made'
    BY <1>1, <1>3, <1>4, <2>1 DEF Made, LiveVMs
  <2>5. Ran'
    BY <1>1, <1>4, <2>1 DEF Ran
  <2> QED
    BY <2>2, <2>3, <2>4, <2>5
<1> QED
  BY <1>6, <1>7, <1>8, <1>9, <1>10, <1>11 DEF Stage

\* Between the functions that make a VM and those that run its level there is
\* nothing of vmod's in the game: either it has its VM, or the game has its own.
LEMMA QuietOwn ==
  ASSUME TInv, Quiet
  PROVE  /\ crash = "no" /\ Held /\ Charge /\ Made /\ Ran
         /\ Done(14) <=> Done(15)
         /\ Done(18) => Done(15)
         /\ Done(12) /\ ~Done(15) => failures \cap {13, 14} # {}
         /\ Done(15) /\ ~Done(18) => phase = "failed" /\ stage \in 16..18
<1> USE DEF TInv, TypeOK, Quiet, VMsRight, Progress, Done, Loaded, Stages
<1>1. Loaded => \/ phase = "running" /\ stage = 21
                \/ phase = "failed" /\ stage \in failures \ {12, 15, 20}
  OBVIOUS
<1>2. crash = "no" /\ Held /\ Charge /\ Made /\ Ran
  OBVIOUS
<1>3. (Done(14) <=> Done(15)) /\ (Done(18) => Done(15))
  BY <1>1
<1>4. Done(12) /\ ~Done(15) => failures \cap {13, 14} # {}
  BY <1>1
<1>5. Done(15) /\ ~Done(18) => phase = "failed" /\ stage \in 16..18
  BY <1>1
<1> QED
  BY <1>2, <1>3, <1>4, <1>5

\* What is made by the routine in effect is freed by it.
LEMMA MakesFrees ==
  ASSUME TInv
  PROVE  /\ Makes = Frees /\ Makes \in 0..MaxLoads /\ (Makes > 0 => Done(12))
         /\ Done(12) => Frees = gen
  BY DEF TInv, TypeOK, ArmedRight, Makes, Frees

\* A machine was made in a place where there was none.
LEMMA NewVM ==
  ASSUME TInv, NEW v \in VMs \ LiveVMs, maker' = [maker EXCEPT ![v] = Makes]
  PROVE  /\ LiveVMs' = LiveVMs \cup {v} /\ v # None /\ maker'[v] = Makes
         /\ \A x \in VMs : x # v => maker'[x] = maker[x]
  BY MakesFrees DEF TInv, TypeOK, LiveVMs, Dead

\* A machine was destroyed.
LEMMA NoVM ==
  ASSUME TInv, NEW v \in VMs, maker' = [maker EXCEPT ![v] = Dead]
  PROVE  /\ LiveVMs' = LiveVMs \ {v} /\ maker'[v] = Dead
         /\ \A x \in VMs : x # v => maker'[x] = maker[x]
  BY DEF TInv, TypeOK, LiveVMs, Dead

\* A level, or a client, that comes and goes keeps it too.
LEMMA EventVMs == ASSUME TInv, Event, TypeOK' PROVE VMsRight'
<1> SUFFICES ASSUME crash' = "no" PROVE Held' /\ Charge' /\ Made' /\ Ran'
  BY DEF VMsRight
<1>1. Quiet /\ UNCHANGED <<engine, patches, own>>
  BY EventIs
<1>2. /\ Held /\ Charge /\ Made /\ Ran /\ None \notin VMs
      /\ Done(14) <=> Done(15)
      /\ Done(18) => Done(15)
      /\ Done(12) /\ ~Done(15) => failures \cap {13, 14} # {}
      /\ Done(15) /\ ~Done(18) => phase = "failed" /\ stage \in 16..18
  BY <1>1, QuietOwn
<1>3. /\ Makes = Frees /\ Makes \in 0..MaxLoads /\ (Makes > 0 => Done(12))
      /\ (Done(12) => Frees = gen) /\ Frees' = Frees
  BY <1>1, MakesFrees DEF engine, patches, Frees
<1>4. \A n \in Stages : Done(n)' <=> Done(n)
  BY <1>1 DEF engine, Done, Loaded
<1>5. /\ own \in VMs \cup {None} /\ Mine \in VMs \cup {None} /\ current \in VMs \cup {None} /\ client \in VMs \cup {None}
      /\ mapspawn \in [VMs -> Nat] /\ maker \in [VMs -> Dead..MaxLoads]
  BY DEF TInv, TypeOK, Mine
<1>6. /\ UNCHANGED <<phase, stage, failures, called, gen, own>> /\ phase # "loading"
      /\ Mine' = Mine /\ (Loaded' <=> Loaded) /\ (Loaded => Mine = own) /\ (~Loaded => Mine = None)
      /\ (Done(15) => Loaded) /\ (phase = "running" => Done(15) /\ Done(18))
  BY <1>1 DEF engine, Mine, Loaded, Done, Quiet, TInv, Progress
<1>7. ASSUME LevelInit PROVE Held' /\ Charge' /\ Made' /\ Ran'
  <2>1. level = "none" /\ level' = "running" /\ UNCHANGED <<client, crossed>>
    BY <1>7 DEF LevelInit
  <2>2. /\ \/ Done(15) /\ VScriptServerInit_detour_callback(called) /\ UNCHANGED maker
           \/ ~Done(15) /\ GameInit /\ UNCHANGED mirror
    BY <1>7, CrashTypes DEF LevelInit, TInv, ArmedRight
  <2>3. CASE Done(15) /\ VScriptServerInit_detour_callback(called) /\ UNCHANGED maker
    <3>1. /\ Mine # None /\ Mine \in VMs /\ current' = Mine /\ mirror' = Mine
          /\ mapspawn' = IF called THEN [mapspawn EXCEPT ![Mine] = @ + 1] ELSE mapspawn
      BY <1>2, <1>5, <1>6, <2>3 DEF Charge, VScriptServerInit_detour_callback
    <3>2. Held' /\ Made'
      BY <1>2, <1>3, <1>6, <2>1, <2>3, <3>1 DEF Held, Made, LiveVMs
    <3>3. Charge'
      BY <1>2, <1>4, <1>6, <2>1, <2>3, <3>1 DEF Charge, Stages
    <3>4. Ran'
      BY <1>2, <1>5, <1>6, <2>1, <2>3, <3>1 DEF Ran, Charge
    <3> QED
      BY <3>2, <3>3, <3>4
  <2>4. CASE ~Done(15) /\ GameInit /\ UNCHANGED mirror
    <3>1. Mine = None /\ Mine' = None /\ ~Done(18)
      BY <1>1, <1>2, <1>6, <2>4 DEF Charge, Done
    <3>2. PICK v \in VMs \ LiveVMs : /\ maker' = [maker EXCEPT ![v] = Makes] /\ current' = v
                                     /\ mapspawn' = [x \in VMs |-> IF x = v THEN 1 ELSE 0]
      BY <2>4, CrashTypes DEF GameInit
    <3>3. /\ LiveVMs' = LiveVMs \cup {v} /\ v # None /\ maker'[v] = Makes
          /\ \A x \in VMs : x # v => maker'[x] = maker[x]
      BY <3>2, NewVM
    <3>4. Held'
      BY <1>2, <1>6, <2>1, <2>4, <3>1, <3>2, <3>3 DEF Held
    <3>5. Charge'
      BY <1>2, <1>4, <1>6, <2>1, <3>1, <2>4 DEF Charge, Stages
    <3>6. Made'
      BY <1>2, <1>3, <1>6, <2>1, <2>4, <3>1, <3>2, <3>3 DEF Made, LiveVMs
    <3>7. Ran'
      BY <2>1, <3>2, <3>3 DEF Ran
    <3> QED
      BY <3>4, <3>5, <3>6, <3>7
  <2> QED
    BY <2>2, <2>3, <2>4
<1>8. ASSUME LevelShutdown PROVE Held' /\ Charge' /\ Made' /\ Ran'
  <2>1. /\ level' = "none" /\ mapspawn' = [v \in VMs |-> 0] /\ client' = client
        /\ crossed' = {v \in crossed : maker'[v] # Dead} /\ Mine' = Mine
    BY <1>1, <1>6, <1>8 DEF LevelShutdown
  <2>2. /\ Done(15) => current' = Mine /\ mirror' = Mine
        /\ ~Done(15) => current' = None
        /\ \/ UNCHANGED maker
           \/ current # None /\ current # Mine /\ maker' = [maker EXCEPT ![current] = Dead]
    <3>1. \/ "LevelShutdownPostEntity" \in armed /\ LevelShutdownPostEntity_detour_callback
          \/ /\ "LevelShutdownPostEntity" \notin armed /\ "VScriptServerTerm" \in armed
             /\ VScriptServerTerm_detour_callback
          \/ "VScriptServerTerm" \notin armed /\ GameTerm
      BY <1>8, CrashTypes DEF LevelShutdown
    <3>2. CASE "LevelShutdownPostEntity" \in armed /\ LevelShutdownPostEntity_detour_callback
      <4>1. Done(15) /\ slot["DestroyVM"] = gen
        BY <3>2 DEF TInv, ArmedRight, SlotsRight, Swapped, Lent, Own, Slots
      <4>2. \/ UNCHANGED maker
            \/ current # None /\ current # Mine /\ maker' = [maker EXCEPT ![current] = Dead]
        BY <1>6, <3>2, <4>1, CrashTypes DEF LevelShutdownPostEntity_detour_callback, DestroyVM
      <4> QED
        BY <1>6, <3>2, <4>1, <4>2 DEF LevelShutdownPostEntity_detour_callback
    <3>3. CASE "VScriptServerTerm" \in armed /\ VScriptServerTerm_detour_callback
      BY <1>6, <3>3 DEF TInv, ArmedRight, VScriptServerTerm_detour_callback
    <3>4. CASE "VScriptServerTerm" \notin armed /\ GameTerm
      <4>1. ~Done(15) /\ Mine = None
        BY <1>2, <1>6, <3>4 DEF TInv, ArmedRight, Charge
      <4>2. \/ UNCHANGED maker
            \/ current # None /\ maker' = [maker EXCEPT ![current] = Dead]
        BY <3>4, CrashTypes DEF GameTerm, DestroyVM
      <4> QED
        BY <3>4, <4>1, <4>2 DEF GameTerm
    <3> QED
      BY <3>1, <3>2, <3>3, <3>4
  <2>3. /\ LiveVMs' \subseteq LiveVMs
        /\ \A v \in LiveVMs : v \in {Mine, client} => v \in LiveVMs'
        /\ \A v \in LiveVMs' : maker'[v] = maker[v]
    <3>1. CASE UNCHANGED maker
      BY <3>1 DEF LiveVMs
    <3>2. CASE current # None /\ current # Mine /\ maker' = [maker EXCEPT ![current] = Dead]
      <4>1. /\ LiveVMs' = LiveVMs \ {current} /\ maker'[current] = Dead
            /\ \A x \in VMs : x # current => maker'[x] = maker[x]
        BY <1>5, <3>2, NoVM
      <4>2. current # client \/ client = None
        BY <1>2 DEF Held
      <4> QED
        BY <1>2, <3>2, <4>1, <4>2 DEF LiveVMs
    <3> QED
      BY <2>2, <3>1, <3>2
  <2>4. Held'
    BY <1>2, <1>6, <2>1, <2>2, <2>3 DEF Held, Charge
  <2>5. Charge'
    BY <1>2, <1>4, <1>6, <2>1, <2>2, <2>3 DEF Charge, Held, Stages, Done
  <2>6. Made'
    BY <1>2, <1>3, <1>6, <2>1, <2>3 DEF Made, LiveVMs
  <2>7. Ran'
    BY <2>1 DEF Ran
  <2> QED
    BY <2>4, <2>5, <2>6, <2>7
<1>9. ASSUME ClientInit PROVE Held' /\ Charge' /\ Made' /\ Ran'
  <2>1. client = None /\ UNCHANGED <<Mine, current, mirror, game, crossed>>
    BY <1>1, <1>6, <1>9 DEF ClientInit
  <2>2. PICK v \in VMs \ LiveVMs : maker' = [maker EXCEPT ![v] = Makes] /\ client' = v
    BY <1>9, CrashTypes DEF ClientInit
  <2>3. /\ LiveVMs' = LiveVMs \cup {v} /\ v # None /\ maker'[v] = Makes
        /\ \A x \in VMs : x # v => maker'[x] = maker[x]
    BY <2>2, NewVM
  <2>4. Held'
    BY <1>2, <1>6, <2>1, <2>2, <2>3 DEF Held, Charge
  <2>5. Charge'
    BY <1>2, <1>4, <1>6, <2>1, <2>2, <2>3 DEF Charge, Held, LiveVMs, Stages
  <2>6. Made'
    BY <1>2, <1>3, <1>6, <2>1, <2>2, <2>3 DEF Made, LiveVMs
  <2>7. Ran'
    BY <1>2, <1>6, <2>1 DEF Ran, game
  <2> QED
    BY <2>4, <2>5, <2>6, <2>7
<1>10. ASSUME ClientTerm PROVE Held' /\ Charge' /\ Made' /\ Ran'
  <2>1. /\ client # None /\ client' = None /\ crossed' = crossed \ {client}
        /\ UNCHANGED <<Mine, current, mirror, game>> /\ maker' = [maker EXCEPT ![client] = Dead]
    BY <1>1, <1>6, <1>10, CrashTypes DEF ClientTerm
  <2>2. /\ LiveVMs' = LiveVMs \ {client} /\ maker'[client] = Dead
        /\ \A x \in VMs : x # client => maker'[x] = maker[x]
    BY <1>5, <2>1, NoVM
  <2>3. Held'
    BY <1>2, <1>6, <2>1, <2>2 DEF Held, Charge
  <2>4. Charge'
    BY <1>2, <1>4, <1>5, <1>6, <2>1, <2>2 DEF Charge, Held, Stages
  <2>5. Made'
    BY <1>2, <1>3, <1>6, <2>1, <2>2 DEF Made, LiveVMs
  <2>6. Ran'
    BY <1>2, <1>6, <2>1 DEF Ran, game
  <2> QED
    BY <2>3, <2>4, <2>5, <2>6
<1>11. ~Use
  BY CrashTypes DEF Use
<1> QED
  BY <1>7, <1>8, <1>9, <1>10, <1>11 DEF Event

\* The end of a load, done or stopped.
LEMMA UnloadVMs ==
  ASSUME TInv, TypeOK', Unload \/ Close
  PROVE  VMsRight'
<1> SUFFICES ASSUME crash' = "no" PROVE Held' /\ Charge' /\ Made' /\ Ran'
  BY DEF VMsRight
<1>1. Quiet /\ ~Loaded' /\ UNCHANGED <<client, level, mapspawn, failures>> /\ Crossing
  BY DEF Unload, Close, Loaded
<1>2. Held /\ Charge /\ Made /\ Ran
  BY <1>1, QuietOwn
<1>3. /\ Mine \in VMs \cup {None} /\ Mine' = None /\ own' = own /\ own \in VMs \cup {None}
      /\ \/ Loaded /\ Mine = own /\ \E k : unload(k)
         \/ ~Loaded /\ Mine = None /\ Close /\ phase = "unloaded"
  BY <1>1 DEF TInv, TypeOK, Unload, Close, unload, Mine, Loaded
<1>4. /\ Mine = None => maker' = maker
      /\ Mine # None => maker' = [maker EXCEPT ![Mine] = Dead]
      /\ current' = IF current = Mine THEN None ELSE current
      /\ joined => joined'
      /\ level = "running" /\ Mine # None /\ current = Mine => joined'
  <2>1. CASE Loaded /\ Mine = own /\ \E k : unload(k)
    <3>1. PICK k : unload(k)
      BY <2>1
    <3>2. joined' = (joined \/ (level = "running" /\ own # None /\ current = own))
      BY <3>1 DEF unload
    <3>3. /\ joined => joined'
          /\ level = "running" /\ own # None /\ current = own => joined'
      BY <3>2, Zenon
    <3>4. /\ own = None => maker' = maker
          /\ own # None => maker' = [maker EXCEPT ![own] = Dead]
          /\ current' = IF current = own THEN None ELSE current
      BY <3>1, CrashTypes DEF unload
    <3> QED
      BY <2>1, <3>3, <3>4
  <2>2. CASE ~Loaded /\ Mine = None /\ Close /\ phase = "unloaded"
    <3>1. UNCHANGED <<maker, current, joined>>
      BY <2>2 DEF Close
    <3> QED
      BY <2>2, <3>1
  <2> QED
    BY <1>3, <2>1, <2>2
<1>5. /\ LiveVMs' = LiveVMs \ {Mine}
      /\ \A v \in LiveVMs' : maker'[v] = maker[v]
  <2>1. CASE Mine = None
    BY <1>4, <2>1 DEF LiveVMs
  <2>2. CASE Mine # None
    BY <1>3, <1>4, <2>2, NoVM DEF LiveVMs
  <2> QED
    BY <2>1, <2>2
<1>6. crossed' = {v \in VMs : maker'[v] # Dead /\ (v \in crossed \/ maker'[v] # Frees')}
  BY <1>1 DEF Crossing, Frees
<1>7. Held'
  <2>1. phase' \notin {"loading", "running"}
    BY <1>1 DEF Loaded
  <2> QED
    BY <1>1, <1>2, <1>3, <1>4, <1>5, <2>1 DEF Held
<1>8. Charge'
  <2>1. own \notin crossed'
    <3>1. CASE Loaded /\ Mine = own
      <4>1. own # None => maker'[own] = Dead
        BY <1>3, <1>4, <3>1, NoVM
      <4> QED
        BY <1>3, <1>6, <4>1
    <3>2. CASE ~Loaded /\ Mine = None /\ Close /\ phase = "unloaded"
      <4>1. Frees = 0 /\ Frees' = 0
        BY <3>2 DEF Close, Frees, TInv, ArmedRight, Done
      <4>2. own \notin crossed /\ (own \in LiveVMs => maker[own] = 0)
        BY <1>2, <3>2, <4>1 DEF Charge, Made
      <4>3. maker' = maker
        BY <1>4, <3>2
      <4> QED
        BY <1>6, <4>1, <4>2, <4>3 DEF LiveVMs
    <3> QED
      BY <1>3, <3>1, <3>2
  <2> QED
    BY <1>1, <1>3, <2>1 DEF Charge, Done
<1>9. Made'
  <2>1. \A v \in LiveVMs' : v \in VMs /\ maker'[v] # Dead
    BY DEF LiveVMs
  <2>3. \A v \in LiveVMs' : v \notin crossed' => maker'[v] = Frees'
    BY <1>6, <2>1
  <2> QED
    BY <1>1, <1>2, <1>3, <1>5, <2>3 DEF Made
<1>10. Ran'
  BY <1>1, <1>2, <1>3, <1>4 DEF Ran
<1> QED
  BY <1>7, <1>8, <1>9, <1>10

\* And so does every step.
LEMMA VMsKept == ASSUME TInv, [Next]_vars, TypeOK', ArmedRight' PROVE VMsRight'
<1>1. CASE Stage
  BY <1>1, StageVMs
<1>2. CASE Event
  BY <1>2, EventVMs
<1>3. CASE Unload \/ Close
  BY <1>3, UnloadVMs
<1>4. CASE Open
  <2>1. /\ UNCHANGED <<maker, current, client, game, crossed, failures>> /\ crash = "no" /\ own' = None
        /\ phase = "absent" /\ phase' = "loading" /\ stage' = 1 /\ armed' = {}
    BY <1>4 DEF Open
  <2>2. Held /\ Charge /\ Made /\ Ran
    BY <2>1 DEF TInv, VMsRight
  <2>3. /\ Mine = None /\ Mine' = None /\ ~Done(14)' /\ ~Done(18)' /\ Loaded'
        /\ mirror' = None
    BY <1>4, <2>1 DEF Open, Done, Loaded, Mine
  <2>4. Frees = 0 /\ Frees' = 0
    BY <2>1 DEF Frees, TInv, ArmedRight
  <2>5. Held' /\ Made'
    BY <2>1, <2>2, <2>3, <2>4 DEF Held, Made, LiveVMs
  <2>6. Charge'
    BY <2>1, <2>3 DEF Charge
  <2>7. Ran'
    BY <2>1, <2>2 DEF Ran, game
  <2> QED
    BY <2>5, <2>6, <2>7 DEF VMsRight
<1>5. CASE UNCHANGED vars
  <2> SUFFICES ASSUME crash' = "no" PROVE Held' /\ Charge' /\ Made' /\ Ran'
    BY DEF VMsRight
  <2>1. Held /\ Charge /\ Made /\ Ran
    BY <1>5 DEF TInv, VMsRight, vars
  <2> QED
    BY <1>5, <2>1 DEF vars, engine, patches, machines, game, Held, Charge, Made, Ran, LiveVMs, Done,
       Loaded, Frees, Mine
<1> QED
  BY <1>1, <1>2, <1>3, <1>4, <1>5 DEF Next, Load, Stage, Plain, Event

\* Every step keeps the invariant.
LEMMA Induction == TInv /\ [Next]_vars => TInv'
<1> SUFFICES ASSUME TInv, [Next]_vars PROVE TInv'
  OBVIOUS
<1>1. TypeOK'
  BY TypesKept
<1>2. Progress' /\ ArmedRight' /\ FoundRight' /\ SlotsRight'
  BY ProgressKept, ArmedKept, FoundKept, SlotsKept
<1>3. VMsRight'
  BY <1>1, <1>2, VMsKept
<1> QED
  BY <1>1, <1>2, <1>3 DEF TInv

\* At every moment the slots, detours and machines are what the stage of the load
\* says, however loads, levels and unloads followed each other.
THEOREM TakeoverInvariance == Spec => []TInv
  BY InitOK, Induction, PTL DEF Spec

\* The invariant says who is in charge.
LEMMA InvInCharge == TInv => VMInCharge
<1> SUFFICES ASSUME TInv PROVE HeldAreAlive /\ OwnInCharge
  BY DEF VMInCharge
<1>1. HeldAreAlive
  <2>1. phase \notin {"unloaded", "absent"} => Loaded /\ Mine = own
    BY DEF TInv, TypeOK, Loaded, Mine
  <2>2. phase \notin {"failed", "unloaded", "absent"} => phase \in {"loading", "running"}
    BY DEF TInv, TypeOK
  <2> QED
    BY <2>1, <2>2 DEF TInv, VMsRight, Held, HeldAreAlive
<1>2. ASSUME phase = "running", crash = "no"
      PROVE  own # None /\ maker[own] = gen /\ Frees = gen /\ current = own /\ mirror = own
  <2>1. Done(12) /\ Done(14) /\ Done(18) /\ Charge /\ Mine = own
    BY <1>2 DEF TInv, Progress, Done, Loaded, VMsRight, Mine
  <2> QED
    BY <1>2, <2>1, MakesFrees DEF Charge
<1> QED
  BY <1>1, <1>2 DEF OwnInCharge

\* It says what is left when the library is closed.
LEMMA InvLeaves == TInv => LeavesBehindOnly
<1> SUFFICES ASSUME TInv PROVE NullSlotsOnlyBy /\ DanglingOnlyBy
  BY DEF LeavesBehindOnly
<1>1. NullSlotsOnlyBy
  BY DEF TInv, SlotsRight, NullSlotsOnlyBy, Excused, Lent, Own, Slots
<1>2. ASSUME phase = "absent", crash = "no"
      PROVE  /\ {s \in Slots : slot[s] > 0} \subseteq {"Log", "path", "PvAllocEntPrivateData"}
             /\ armed = {}
             /\ \A v \in LiveVMs : maker[v] > 0 => v = client \/ failures \cap {13, 14} # {}
  <2>1. Made /\ Mine = None /\ None \notin LiveVMs
    BY <1>2 DEF TInv, VMsRight, Mine, Loaded, LiveVMs
  <2>2. \A s \in Lent : slot[s] \in {0, Null}
    BY <1>2 DEF TInv, SlotsRight, Swapped, Done, Loaded
  <2>3. \A s \in Lent : ~(slot[s] > 0)
    BY <2>2 DEF Null
  <2> QED
    BY <1>2, <2>1, <2>3 DEF TInv, ArmedRight, Made, Lent, Own
<1> QED
  BY <1>1, <1>2 DEF DanglingOnlyBy

\* And what ran in the machine of a level.
LEMMA InvRan == TInv => MapspawnOnce
  BY DEF TInv, VMsRight, Ran, MapspawnOnce

\* The one way to free a machine by the wrong routine.
LEMMA MismatchStep ==
  ASSUME TInv, Next, crash' = "mismatch"
  PROVE  \E v \in crossed : v # own /\ maker[v] # Dead /\ maker'[v] = Dead
<1>1. ASSUME NEW v \in {current, client}, v # None, Loaded => v # own, crash = "no",
             crash' = DestroyedBy(v), maker' = [maker EXCEPT ![v] = Dead]
      PROVE  \E u \in crossed : u # own /\ maker[u] # Dead /\ maker'[u] = Dead
  <2>1. v \in LiveVMs /\ maker[v] # Frees
    BY <1>1 DEF TInv, VMsRight, Held, DestroyedBy
  <2>2. v \in crossed /\ v # own
    BY <1>1, <2>1 DEF TInv, VMsRight, Made, Charge
  <2>3. maker'[v] = Dead /\ maker[v] # Dead
    BY <1>1, <2>1 DEF LiveVMs, TInv, TypeOK
  <2> QED
    BY <1>1, <2>2, <2>3
<1>2. ASSUME NEW t \in BOOLEAN, DestroyVM(t), crash = "no", current # None,
             ~Loaded \/ current # own \/ (t /\ slot["DestroyVM"] = gen)
      PROVE  /\ Loaded => current # own
             /\ crash' = DestroyedBy(current) /\ maker' = [maker EXCEPT ![current] = Dead]
  BY <1>2, CrashTypes DEF DestroyVM
<1>3. CASE LevelShutdown
  <2>1. Quiet /\ crash = "no"
    BY <1>3 DEF LevelShutdown, Quiet
  <2>2. \E t \in BOOLEAN : /\ DestroyVM(t) /\ current # None
                           /\ ~Loaded \/ current # own \/ (t /\ slot["DestroyVM"] = gen)
    <3>1. \/ "LevelShutdownPostEntity" \in armed /\ LevelShutdownPostEntity_detour_callback
          \/ VScriptServerTerm_detour_callback
          \/ "VScriptServerTerm" \notin armed /\ GameTerm
      BY <1>3, CrashTypes DEF LevelShutdown
    <3>2. CASE "LevelShutdownPostEntity" \in armed /\ LevelShutdownPostEntity_detour_callback
      <4>1. Done(15) /\ slot["DestroyVM"] = gen
        BY <3>2 DEF TInv, ArmedRight, SlotsRight, Swapped, Lent, Own, Slots
      <4> QED
        BY <2>1, <3>2, <4>1 DEF LevelShutdownPostEntity_detour_callback
    <3>3. CASE VScriptServerTerm_detour_callback
      BY <2>1, <3>3 DEF VScriptServerTerm_detour_callback
    <3>4. CASE "VScriptServerTerm" \notin armed /\ GameTerm
      <4>1. Loaded => own = None
        BY <2>1, <3>4, QuietOwn DEF TInv, ArmedRight, Charge, Mine
      <4> QED
        BY <2>1, <3>4, <4>1 DEF GameTerm
    <3> QED
      BY <3>1, <3>2, <3>3, <3>4
  <2> QED
    BY <1>1, <1>2, <2>1, <2>2
<1>4. CASE ClientTerm
  <2>1. /\ client # None /\ crash = "no" /\ crash' = DestroyedBy(client)
        /\ maker' = [maker EXCEPT ![client] = Dead]
    BY <1>4, CrashTypes DEF ClientTerm, Quiet
  <2>2. Loaded => client # own
    BY <2>1 DEF TInv, VMsRight, Held, Mine
  <2> QED
    BY <1>1, <2>1, <2>2
<1>5. ~(Unload \/ Close)
  <2> SUFFICES ASSUME Unload \/ Close PROVE FALSE
    OBVIOUS
  <2>1. Quiet /\ crash = "no"
    BY DEF Unload, Close, Quiet
  <2>2. CASE \E k : unload(k) /\ Loaded
    <3>1. own # None => Done(14) /\ maker[own] = gen
      BY <2>1, <2>2, QuietOwn DEF Charge, Mine
    <3>2. Done(14) => Done(12)
      BY DEF Done, TInv, TypeOK, Stages
    <3>3. own # None => DestroyedBy(own) = "no"
      BY <3>1, <3>2, MakesFrees DEF DestroyedBy
    <3> QED
      BY <2>1, <2>2, <3>3, CrashTypes DEF unload
  <2>3. CASE crash' = crash
    BY <2>1, <2>3
  <2> QED
    BY <2>2, <2>3 DEF Unload, Close, Loaded
<1>6. ~(LevelInit \/ ClientInit \/ Use)
  <2>1. LevelInit => crash' \in {"no", "null", "dangling"}
    BY CrashTypes DEF LevelInit, GameInit, Quiet
  <2>2. ClientInit => crash' \in {"no", "null", "dangling"}
    BY CrashTypes DEF ClientInit, Quiet
  <2>3. Use => crash' \in {"no", "null", "dangling"}
    BY CrashTypes DEF Use
  <2> QED
    BY <2>1, <2>2, <2>3
<1>7. ~Open
  BY DEF Open
<1>8. ~Stage
  <2>1. Stage => crash = "no"
    BY StageMoves DEF TInv, Moves
  <2>2. Stage /\ ~MakeVM => crash' = crash
    BY PlainIs DEF TInv, Stage, LoadTier0, LoadEngine, LoadVScript, LoadServer, ServerClasses,
       detours_prevm, ServerInit, detours, Commands
  <2>3. MakeVM => crash' \in {"no", "null", "dangling"}
    BY <2>1, CrashTypes DEF MakeVM, Stage
  <2> QED
    BY <2>1, <2>2, <2>3
<1> QED
  BY <1>3, <1>4, <1>5, <1>6, <1>7, <1>8 DEF Next, Load, Stage, Plain

\* While vmod runs its VM, made by main::load, is the machine of the game, and no
\* machine that the game, the client or vmod holds was freed.
THEOREM InCharge == Spec => []VMInCharge
  BY InvInCharge, TakeoverInvariance, PTL

\* main::unload and ~vsp leave no null pointer and no pointer into the closed
\* library but those named, for whatever stage of main::load stopped.
THEOREM LeavesOnly == Spec => []LeavesBehindOnly
  BY InvLeaves, TakeoverInvariance, PTL

\* mapspawn runs once in the machine of a level, and a machine is freed by who made
\* it, but for those that lived through a change of the routines.
THEOREM TreatedRight == Spec => MachinesTreatedRight
<1>1. TInv /\ [Next]_vars =>
        [crash' = "mismatch" =>
          \E v \in crossed : v # own /\ maker[v] # Dead /\ maker'[v] = Dead]_vars
  BY MismatchStep
<1> QED
  BY <1>1, InvRan, TakeoverInvariance, PTL DEF Spec, MachinesTreatedRight, MismatchOnlyBy
=============================================================================
