---------------------------- MODULE GameBindings -----------------------------
(***************************************************************************)
(* What the game gives to its scripts, as vmod collects it for the         *)
(* documentation it writes (main.cpp): the detours of RegisterFunction,    *)
(* RegisterClass, RegisterInstance and SetValue note what passes while the *)
(* machine of vmod is made (internal) and until the game's own server      *)
(* script has run (game); vmod_gen_docs writes it, much later.             *)
(***************************************************************************)
EXTENDS Integers, FiniteSets

CONSTANTS Descs,     \* ScriptClassDesc_t of the game
          BaseDesc,  \* desc -> its m_pBaseDesc, or NoDesc
          Functions, \* ScriptFunctionBinding_t of the game
          Globals,   \* names of global values
          Objects,   \* bound: handles of script objects, and texts of the game, alive at once
          MaxCalls   \* bound: calls of the game that are noted

NoDesc == "no desc"
Table  == "table"    \* an object that is no instance
Text   == "text"
Free   == "free"

VARIABLES vm,     \* how far the load is: none, ours, or initialised
          heap,   \* what is behind a handle or a pointer: an instance of a desc, a table, a text, or free
          docs,   \* the bindings that were noted: internal and game
          lri,    \* last_registered_instance: its instance and desc; whether it was freed since
          built,  \* internal_docs_built
          output, \* the last documentation: the names whose value was read after it was freed
          noted   \* calls

gamevars == <<vm, heap, docs, lri, built, output, noted>>

Lists == {"internal", "game"}
Empty == [functions |-> [f \in Functions \cup {"developer"} |-> 0], classes |-> {}, values |-> <<>>]

GInit ==
  /\ vm = "none" /\ heap = [o \in Objects |-> Free]
  /\ docs = [l \in Lists |-> Empty]
  /\ lri = [instance |-> "none", desc |-> NoDesc, freed |-> FALSE]
  /\ built = FALSE /\ output = {} /\ noted = 0

\* The list that a call is noted in, if in any.
List == CASE vm = "none" -> {"internal"} [] vm = "ours" -> {"game"} [] OTHER -> {}

Note(change(_)) == docs' = [l \in Lists |-> IF l \in List THEN change(docs[l]) ELSE docs[l]]
Counted == noted < MaxCalls /\ noted' = noted + 1

\* A class is noted with its bases, each once: all that the chain of m_pBaseDesc
\* reaches.
Closed(classes) == \A c \in classes : BaseDesc[c] # NoDesc => BaseDesc[c] \in classes
WithBases(classes, d) ==
  classes \cup {c \in Descs : \A reached \in SUBSET Descs : d \in reached /\ Closed(reached) => c \in reached}

\* RegisterFunction_detour_callback
RegisterFunction(f) ==
  /\ Counted
  /\ Note(LAMBDA l : [l EXCEPT !.functions[f] = @ + 1])
  /\ UNCHANGED <<vm, heap, lri, built, output>>

\* RegisterClass_detour_callback
RegisterClass(d) ==
  /\ Counted
  /\ Note(LAMBDA l : [l EXCEPT !.classes = WithBases(@, d)])
  /\ UNCHANGED <<vm, heap, lri, built, output>>

\* RegisterInstance_detour_callback: the machine gives the instance a handle.
RegisterInstance(d, o) ==
  /\ Counted /\ heap[o] = Free
  /\ heap' = [heap EXCEPT ![o] = d]
  /\ lri' = [instance |-> o, desc |-> d, freed |-> FALSE]
  /\ Note(LAMBDA l : [l EXCEPT !.classes = WithBases(@, d)])
  /\ UNCHANGED <<vm, built, output>>

\* The machine makes another object, or the game a text.
Make(kind, o) ==
  /\ heap[o] = Free
  /\ heap' = [heap EXCEPT ![o] = kind]
  /\ UNCHANGED <<vm, docs, lri, built, output, noted>>

\* The documented values that are no copy of their own.
Borrowed(value) == value.is \in {"object", "pointer"}

\* An object or a text is freed.
Released(o) ==
  /\ heap[o] # Free
  /\ heap' = [heap EXCEPT ![o] = Free]
  /\ lri' = [lri EXCEPT !.freed = @ \/ lri.instance = o]
  /\ docs' = [l \in Lists |-> [docs[l] EXCEPT !.values =
                [n \in DOMAIN @ |-> IF Borrowed(@[n]) /\ @[n].of = o THEN [@[n] EXCEPT !.freed = TRUE] ELSE @[n]]]]
  /\ UNCHANGED <<vm, built, output, noted>>

Value(by, is, of, desc) ==
  [by |-> by, is |-> is, of |-> of, desc |-> desc, freed |-> FALSE, really |-> heap[of], late |-> lri.freed]

\* map.emplace: the first value of a name stays.
Emplaced(values, n, value) ==
  [m \in DOMAIN values \cup {n} |-> IF m \in DOMAIN values THEN values[m] ELSE value]

MutantTextValue(o) == Value("str", "pointer", o, NoDesc)

\* assign<std::string> makes a copy of a text.
TextValue(o) == Value("str", "copy", o, NoDesc)

\* SetValue_str_detour_callback, for a text of the game and the global scope.
SetValue_str(n, o) ==
  /\ Counted /\ heap[o] = Text
  /\ Note(LAMBDA l : [l EXCEPT !.values = Emplaced(@, n, TextValue(o))])
  /\ UNCHANGED <<vm, heap, lri, built, output>>

\* An object whose handle is that of the instance registered last is noted as an
\* instance of its class, another as itself, and a text by its pointer.
VariantValue(o) ==
  IF heap[o] = Text THEN Value("var", "pointer", o, NoDesc)
  ELSE IF lri.instance = o THEN Value("var", "desc", o, lri.desc)
  ELSE Value("var", "object", o, NoDesc)

\* SetValue_var_detour_callback, in the global scope.
SetValue_var(n, o) ==
  /\ Counted /\ heap[o] # Free
  /\ Note(LAMBDA l : [l EXCEPT !.values = Emplaced(@, n, VariantValue(o))])
  /\ UNCHANGED <<vm, heap, lri, built, output>>

\* CreateVM returns to the load, and the server script of the game has run.
Loaded ==
  /\ vm # "initialised"
  /\ vm' = IF vm = "none" THEN "ours" ELSE "initialised"
  /\ UNCHANGED <<heap, docs, lri, built, output, noted>>

\* build_internal_docs adds what the machine itself has, once.
build_internal_docs ==
  IF built THEN UNCHANGED docs
  ELSE docs' = [docs EXCEPT !["internal"].functions["developer"] = @ + 1]

\* vmod_gen_docs, after the load: a value is written with its text, which is made
\* from what its copy of the variant points to.
vmod_gen_docs ==
  /\ vm = "initialised"
  /\ build_internal_docs /\ built' = TRUE
  /\ output' = UNION {{<<l, n>> : n \in {m \in DOMAIN docs[l].values : docs[l].values[m].freed}} : l \in Lists}
  /\ UNCHANGED <<vm, heap, lri, noted>>

GNext ==
  \/ \E f \in Functions : RegisterFunction(f)
  \/ \E d \in Descs : RegisterClass(d)
  \/ \E o \in Objects :
       \/ \E d \in Descs : RegisterInstance(d, o)
       \/ \E kind \in {Table, Text} : Make(kind, o)
       \/ Released(o)
       \/ \E n \in Globals : SetValue_str(n, o) \/ SetValue_var(n, o)
  \/ Loaded
  \/ vmod_gen_docs

GSpec == GInit /\ [][GNext]_gamevars

-----------------------------------------------------------------------------
(* Properties.                                                             *)

\* The documentation tells what the game made: a value is an instance of the class
\* it is documented with, unless the instance registered last was freed by then and
\* another object has its handle; a class has its bases beside it; and writing reads
\* a value that was freed only if it was set as a variant, never as a text.
DocsTellTheTruth ==
  /\ \A l \in Lists :
       /\ \A n \in DOMAIN docs[l].values :
            LET v == docs[l].values[n] IN v.is = "desc" => v.desc = v.really \/ v.late
       /\ Closed(docs[l].classes)
       /\ docs[l].functions["developer"] <= 1
  /\ \A w \in output : docs[w[1]].values[w[2]].by = "var"
=============================================================================
