------------------------------ MODULE MCEngine ------------------------------
\* What scripts do to the game through vmod: members of entity classes
\* (PropTrees), console variables and commands (ConVarValues, Console), entity
\* factories (Factories), string tables (StringTables), send proxies (SendProxies,
\* SendTypes); and what the game gives to scripts (GameBindings). They share no
\* state, so that each behaviour is one of one of them.
EXTENDS PropTrees

CONSTANTS WordBits, ExactBits, Radix, ExpChars, IntChars, FloatChars, Words,
          Ours, Theirs, Names, MaxDepth,
          Impls, Natives, FreeNames, Sizes,
          TableNames, IntBits, SizeBits, MaxStrings, MaxMaps,
          Props, Callbacks,
          Descs, Functions, Globals, Objects, MaxCalls

\* Of powers of two the provers know nothing: they are positive, an int has more than
\* six values or so, and the distance of floats is at most the last of Ulps.
ASSUME TablesAssumption == 2^IntBits \in Nat \ {0} /\ 2^SizeBits \in Nat \ {0}
ASSUME ValuesAssumption ==
  /\ 2^(WordBits - 1) \in Nat /\ 2^(WordBits - 1) > 5 /\ 2^ExactBits \in Nat /\ 2^ExactBits > 3
  /\ 2^(WordBits - 1) <= 128 * 2^ExactBits
  /\ Radix \in Nat \ {0, 1} /\ ExpChars \in Nat
  /\ Words \cap {"num", "dec", "exp", "garbage", "", "tr", "true", "fa", "false"} = {}

\* What stands for nothing is none of the things, and what scripts make is not what
\* the game has.
ASSUME ConsoleAssumption == Ours \cap Theirs = {}
ASSUME FactoriesAssumption == Impls \cap Natives = {} /\ Sizes \subseteq Nat
ASSUME ProxiesAssumption == "none" \notin Props \cup Callbacks
ASSUME GameAssumption ==
  /\ "none" \notin Objects /\ "free" \notin Descs /\ "developer" \notin Functions
  /\ "derived" \in Descs => "base" \in Descs

VARIABLES part,
          var, set,
          base, registered, convars, concommands, argv_buffer, dispatched, calls, stale, mixed, down,
          m_Factories, names, state, tmp_ent_size, creating, made, broken,
          engine, maps, hooked, wrappers, created, called,
          m_ProxyFn, closure, hooks, sending, failed,
          elem, known, wrapper, hooked_elem, fooled, asked,
          vm, heap, docs, lri, built, output, noted

\* A class whose send tables and data maps have a base, one within another, an
\* excluded prop, one with an external name, and two of one beginning.
Prop(name, table) == [name |-> name, table |-> table, exclude |-> FALSE]
Field(name, external, td) == [name |-> name, external |-> external, td |-> td]
MCClasses == [C |-> [send |-> "T0", data |-> "M0"]]
MCSend == [T0 |-> <<Prop("baseclass", "T1"), Prop("in", "T2"), [Prop("gone", None) EXCEPT !.exclude = TRUE], Prop("hp", None)>>,
           T1 |-> <<Prop("g", None)>>,
           T2 |-> <<Prop("x", None), Prop("deep", "T3")>>,
           T3 |-> <<Prop("y", None)>>]
MCData == [M0 |-> [class |-> "CD", base |-> "M1", fields |-> <<Field("hp", "health", None), Field("in", None, "M2")>>],
           M1 |-> [class |-> "CB", base |-> None, fields |-> <<Field("g", None, None)>>],
           M2 |-> [class |-> "CS", base |-> None, fields |-> <<Field("x", None, None)>>]]
MCAbbreviates == {<<"h", "hp">>}
MCPaths == {<<"C">>, <<"D">>, <<"C", "h">>, <<"C", "g">>, <<"C", "baseclass">>, <<"C", "baseclass", "g">>, <<"C", "in">>,
            <<"C", "x">>, <<"C", "y">>, <<"C", "health">>, <<"C", "gone">>, <<"C", "hp", "x">>, <<"C", "a[0]">>}

MCSame == [n \in Names |-> IF n = "A" THEN "a" ELSE n]
MCBaseSize == [t \in Natives |-> 2]

MCBaseDesc == [d \in Descs |-> IF d = "derived" THEN "base" ELSE "no desc"]

V == INSTANCE ConVarValues WITH last <- set
C == INSTANCE Console WITH running <- dispatched, Same <- MCSame
F == INSTANCE Factories WITH running <- creating, BaseSize <- MCBaseSize
S == INSTANCE StringTables WITH last <- called
X == INSTANCE SendProxies WITH running <- sending
T == INSTANCE SendTypes WITH hooked <- hooked_elem
G == INSTANCE GameBindings WITH BaseDesc <- MCBaseDesc

valuevars == <<var, set>>
consolevars == <<base, registered, convars, concommands, argv_buffer, dispatched, calls, stale, mixed, down>>
factoryvars == <<m_Factories, names, state, tmp_ent_size, creating, made, broken>>
tablevars == <<engine, maps, hooked, wrappers, created, called>>
proxyvars == <<m_ProxyFn, closure, hooks, sending, failed>>
typevars == <<elem, known, wrapper, hooked_elem, fooled, asked>>
gamevars == <<vm, heap, docs, lri, built, output, noted>>

MCInit ==
  /\ part \in {"props", "values", "console", "factories", "tables", "proxies", "types", "game"}
  /\ PInit
  /\ V!VInit /\ (part # "values" => ~var.limited /\ ~var.fixed /\ ~var.never_string /\ var.high = 3)
  /\ C!CInit /\ (part # "console" => \A t \in Theirs : base[t] = [is |-> "var", name |-> "b"])
  /\ F!FInit /\ S!SInit /\ X!XInit /\ G!GInit
  /\ T!TInit /\ (part # "types" => known /\ elem = [type |-> "float", unsigned |-> FALSE, bits |-> 32, proxy |-> "Own4"])

MCNext ==
  \/ part = "props" /\ PNext /\ UNCHANGED <<part, valuevars, consolevars, factoryvars, tablevars, proxyvars, typevars, gamevars>>
  \/ part = "values" /\ V!VNext /\ UNCHANGED <<part, pvars, consolevars, factoryvars, tablevars, proxyvars, typevars, gamevars>>
  \/ part = "console" /\ C!CNext /\ UNCHANGED <<part, pvars, valuevars, factoryvars, tablevars, proxyvars, typevars, gamevars>>
  \/ part = "factories" /\ F!FNext /\ UNCHANGED <<part, pvars, valuevars, consolevars, tablevars, proxyvars, typevars, gamevars>>
  \/ part = "tables" /\ S!SNext /\ UNCHANGED <<part, pvars, valuevars, consolevars, factoryvars, proxyvars, typevars, gamevars>>
  \/ part = "proxies" /\ X!XNext /\ UNCHANGED <<part, pvars, valuevars, consolevars, factoryvars, tablevars, typevars, gamevars>>
  \/ part = "types" /\ T!TNext /\ UNCHANGED <<part, pvars, valuevars, consolevars, factoryvars, tablevars, proxyvars, gamevars>>
  \/ part = "game" /\ G!GNext /\ UNCHANGED <<part, pvars, valuevars, consolevars, factoryvars, tablevars, proxyvars, typevars>>

MCSpec == MCInit /\ [][MCNext]_<<part, pvars, valuevars, consolevars, factoryvars, tablevars, proxyvars, typevars, gamevars>>

\* A script that asks for a member of an entity class gets that member or none,
\* and the same each time (bindings/ent/singleton.cpp), with the exceptions of
\* PropTrees.
PropsAnswer == AnswersWhatWasAsked /\ SameAnswerAgain

\* What a script sets a console variable to it reads back, and variables, commands
\* and arguments are still there when they are used (bindings/cvar), with the
\* exceptions of ConVarValues and Console.
CvarsKept == V!ValueKept /\ C!ConsoleKept

\* The game finds no deleted factory, and the size a script asks for goes to its
\* own entity (bindings/ent/factory.cpp), with the exceptions of Factories.
FactoriesHold == F!FactoriesLive /\ F!SizeGoesToItsEntity

\* A wrapper of a string table leads to the table of this map, and strings are
\* read within it, with the exceptions of StringTables (bindings/strtables).
ReadsThisMap == S!ReadsThisMap

\* What the engine calls for a prop of an entity is prepared and stays while it is
\* called, and the type that a script is told of a prop fits it
\* (bindings/ent/sendtable.cpp), with the exceptions of SendProxies and SendTypes.
PropsAreSound == X!ProxyIsReady /\ X!RunsInClosure /\ T!TypeFits

\* The documentation tells what the game registered (main.cpp), with the
\* exceptions of GameBindings.
DocsTellTheTruth == G!DocsTellTheTruth
=============================================================================
