----------------------------- MODULE Factories -------------------------------
(***************************************************************************)
(* Entity factories (bindings/ent/factory.cpp, and script_create_factory   *)
(* and script_find_factory of bindings/ent/singleton.cpp): a plugin adds   *)
(* factories to the dictionary of the game, whose callbacks make the       *)
(* entity; a script makes an entity of the game larger than its class by   *)
(* replacing the size in the next allocation.                              *)
(*                                                                         *)
(* Factories of the game allocate an entity and then construct it. Scripts *)
(* can run in both: constructors fire events, and any of these functions   *)
(* may have a detour. Creation in a dictionary, and what a script or a     *)
(* callback does, nests.                                                   *)
(***************************************************************************)
EXTENDS Integers, Sequences, FiniteSets

CONSTANTS Impls,      \* bound: the factories that plugins create
          Natives,    \* the factories of the game, each installed under its own name
          FreeNames,  \* bound: the names that plugins may take
          BaseSize,   \* GetEntitySize of those of the game
          Sizes,      \* bound: the sizes that scripts ask for
          MaxDepth    \* bound: creations within each other

VARIABLES m_Factories,  \* the dictionary: names with their factories, a name perhaps twice
          names,        \* the names of a factory_impl
          state,        \* of a factory_impl: none, alive, deleted
          tmp_ent_size, \* the size for the next allocation
          running,      \* the creations that are going on
          made,         \* the last allocation: the size it was to have and the one it has
          broken        \* history: where a deleted factory was used

fvars == <<m_Factories, names, state, tmp_ent_size, running, made, broken>>

NoEntity == [asked |-> 0, got |-> 0, disturbed |-> FALSE, sized |-> FALSE]

FInit ==
  /\ m_Factories = {[name |-> t, factory |-> t, nth |-> 1] : t \in Natives}
  /\ names = [f \in Impls |-> <<>>] /\ state = [f \in Impls |-> "none"]
  /\ tmp_ent_size = 0 /\ running = <<>> /\ made = NoEntity /\ broken = {}

Top == running[Len(running)]

Entries(n) == {e \in m_Factories : e.name = n}

\* A creation that is still to allocate, and one that began below it.
Frame(kind, f, asked) == [kind |-> kind, factory |-> f, asked |-> asked, allocated |-> FALSE, disturbed |-> FALSE]

-----------------------------------------------------------------------------
(* The factories of plugins.                                               *)

\* InstallFactory for each name; one that is listed twice is there twice.
Installed(f, taken) ==
  {[name |-> taken[i], factory |-> f, nth |-> Cardinality({j \in 1 .. i : taken[j] = taken[i]})] : i \in DOMAIN taken}

\* script_create_factory refuses names that the dictionary has.
NamesFree(taken) == \A i \in DOMAIN taken : Entries(taken[i]) = {}

\* script_create_factory and factory_impl::initialize. One that cannot be registered
\* is deleted before it has a name.
script_create_factory(f, taken, registers) ==
  /\ state[f] = "none"
  /\ NamesFree(taken)
  /\ IF registers
     THEN /\ state' = [state EXCEPT ![f] = "alive"]
          /\ names' = [names EXCEPT ![f] = taken]
          /\ m_Factories' = m_Factories \cup Installed(f, taken)
     ELSE state' = [state EXCEPT ![f] = "deleted"] /\ UNCHANGED <<names, m_Factories>>
  /\ UNCHANGED <<tmp_ent_size, running, made, broken>>

MutantErased(f) == {e \in m_Factories : e.name \notin {names[f][i] : i \in DOMAIN names[f]} \/ e.nth > 1}

\* The entries that one find-and-erase for each name leaves.
Erased(f) ==
  LET times(n) == Cardinality({i \in DOMAIN names[f] : names[f][i] = n})
      first(n) == {e \in Entries(n) : Cardinality({g \in Entries(n) : g.nth < e.nth}) < times(n)}
  IN  m_Factories \ UNION {first(names[f][i]) : i \in DOMAIN names[f]}

\* ~factory_impl, when a script frees it or its plugin is unloaded.
destroy(f) ==
  /\ state[f] = "alive"
  /\ m_Factories' = Erased(f)
  /\ state' = [state EXCEPT ![f] = "deleted"]
  /\ UNCHANGED <<names, tmp_ent_size, running, made, broken>>

-----------------------------------------------------------------------------
(* Creation.                                                               *)

\* Whatever is created below a creation that has not allocated takes its size.
Disturb(frames) == [i \in DOMAIN frames |-> IF frames[i].allocated THEN frames[i] ELSE [frames[i] EXCEPT !.disturbed = TRUE]]

Push(frame) ==
  /\ Len(running) < MaxDepth
  /\ running' = Append(Disturb(running), frame)

\* Create of the dictionary, by the game or for a script: the factory of the name,
\* the one of the game or factory_impl::create with its callback.
Create(n) ==
  /\ \E e \in Entries(n) :
       /\ e.nth = 1
       /\ Push(Frame(IF e.factory \in Natives THEN "native" ELSE "callback", e.factory, 0))
       /\ broken' = IF e.factory \in Impls /\ state[e.factory] # "alive" THEN broken \cup {"Create"} ELSE broken
  /\ UNCHANGED <<m_Factories, names, state, tmp_ent_size, made>>

\* The size may not be less than that of the class.
Fits(t, size) == size >= BaseSize[t]

\* script_create_sized of the wrapper of a factory of the game, up to its Create.
script_create_sized(t, size) ==
  /\ size # 0
  /\ Fits(t, size)
  /\ tmp_ent_size' = size
  /\ Push(Frame("sized", t, size))
  /\ UNCHANGED <<m_Factories, names, state, made, broken>>

\* script_create of a factory_impl with an additional size: size_callback is called
\* for the size to add it to.
script_create_additional(f) ==
  /\ state[f] = "alive"
  /\ Push(Frame("size", f, 0))
  /\ UNCHANGED <<m_Factories, names, state, tmp_ent_size, made, broken>>

\* The size callback is back, and create() reads callback from the factory.
size_returns ==
  /\ running # <<>> /\ Top.kind = "size"
  /\ running' = [running EXCEPT ![Len(running)] = Frame("callback", Top.factory, 0)]
  /\ broken' = IF state[Top.factory] # "alive" THEN broken \cup {"size_callback"} ELSE broken
  /\ UNCHANGED <<m_Factories, names, state, tmp_ent_size, made>>

\* The size counts for one allocation.
Reset == 0

\* PvAllocEntPrivateData_detour_callback
PvAllocEntPrivateData ==
  /\ running # <<>> /\ Top.kind \in {"native", "sized"} /\ ~Top.allocated
  /\ LET base == BaseSize[Top.factory]
         cb == IF tmp_ent_size > 0 THEN tmp_ent_size ELSE base
     IN  made' = [asked |-> IF Top.kind = "sized" THEN Top.asked ELSE base, got |-> cb,
                  disturbed |-> Top.disturbed, sized |-> \E i \in 1 .. Len(running) - 1 : running[i].kind = "sized" /\ ~running[i].allocated]
  /\ tmp_ent_size' = Reset
  /\ running' = [running EXCEPT ![Len(running)].allocated = TRUE]
  /\ UNCHANGED <<m_Factories, names, state, broken>>

\* A creation ends, with an entity or none; script_create_sized clears the size.
create_returns ==
  /\ running # <<>> /\ Top.kind # "size"
  /\ tmp_ent_size' = IF Top.kind = "sized" THEN 0 ELSE tmp_ent_size
  /\ running' = SubSeq(running, 1, Len(running) - 1)
  /\ UNCHANGED <<m_Factories, names, state, made, broken>>

FNext ==
  \/ \E f \in Impls, registers \in BOOLEAN :
       \E taken \in {<<n>> : n \in FreeNames} \cup {<<n, m>> : n, m \in FreeNames} : script_create_factory(f, taken, registers)
  \/ \E f \in Impls : destroy(f) \/ script_create_additional(f)
  \/ \E n \in FreeNames \cup Natives : Create(n)
  \/ \E t \in Natives, size \in Sizes : script_create_sized(t, size)
  \/ size_returns
  \/ PvAllocEntPrivateData
  \/ create_returns

FSpec == FInit /\ [][FNext]_fvars

-----------------------------------------------------------------------------
(* Properties.                                                             *)

\* The game never finds a deleted factory by its name, and a deleted one is used
\* only by script_create, whose size callback deleted it.
FactoriesLive ==
  /\ \A e \in m_Factories : e.factory \in Impls => state[e.factory] = "alive"
  /\ broken \subseteq {"size_callback"}

\* An entity is as large as was asked for, and never smaller than its class by
\* what another one was asked for, unless a creation began within the other before
\* that had allocated; and a size is kept no longer than the call that set it.
SizeGoesToItsEntity ==
  /\ made.got # made.asked => made.disturbed \/ made.sized
  /\ tmp_ent_size > 0 => \E i \in DOMAIN running : running[i].kind = "sized" /\ ~running[i].allocated
=============================================================================
