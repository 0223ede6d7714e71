------------------------------ MODULE PropTrees ------------------------------
(***************************************************************************)
(* ent::singleton::lookup_sendprop, lookup_sendtable, lookup_dataprop and  *)
(* lookup_datatable (bindings/ent/singleton.cpp): a script names a member  *)
(* of an entity class by a path, walk_prop_tree finds it in the tree of    *)
(* send tables or of data maps of the game, and caches what it found: the  *)
(* full path of a path that leaves members out, and the result for a path. *)
(*                                                                         *)
(* A path is a sequence of names, the first one that of a class. What the  *)
(* destructor of an allocated_datamap erases is left out: the build makes  *)
(* no such map (script_create_datatable ends before it would).             *)
(***************************************************************************)
EXTENDS Integers, Sequences, SequencesExt, FiniteSets

CONSTANTS Classes,     \* class name -> its m_pTable and its datamap
          SendTables,  \* SendTable -> its m_pProps
          DataMaps,    \* datamap_t -> its dataClassName, baseMap and dataDesc
          Abbreviates, \* <<short, name>>: the first characters of name are short
          Subscripts,  \* the member names with a '['
          Paths,       \* bound: the paths that scripts ask for
          MaxLookups   \* bound

None == "none"

VARIABLES full,     \* prop_tree_cache.lazy_to_full
          cache,    \* prop_tree_cache.send and prop_tree_cache.data
          wrapped,  \* sendprops, sendtables, dataprops, datatables, serverclasses
          maker,    \* history: the tree whose walk made an entry of full
          answers,  \* history: what a lookup found first
          last,     \* the last lookup
          lookups   \* their number

pvars == <<full, cache, wrapped, maker, answers, last, lookups>>

Kinds == {"sendprop", "sendtable", "dataprop", "datatable"}
Tree(kind) == IF kind \in {"sendprop", "sendtable"} THEN "send" ELSE "data"
Wants(kind) == IF kind \in {"sendprop", "dataprop"} THEN "prop" ELSE "table"

NoLookup == [kind |-> None, path |-> <<>>, outcome |-> None, object |-> <<>>, before |-> <<>>]

PInit ==
  /\ full = <<>> /\ cache = [tree \in {"send", "data"} |-> <<>>] /\ maker = <<>>
  /\ wrapped = [k \in Kinds \cup {"serverclass"} |-> {}]
  /\ answers = <<>> /\ last = NoLookup /\ lookups = 0

-----------------------------------------------------------------------------
(* The search for one member.                                              *)

\* strncmp over the length of the member's name: its beginning is enough.
Matches(name, member) == name = member \/ <<member, name>> \in Abbreviates

\* A prop is a sequence of one, or none.
NotFound == [prop |-> <<>>, path |-> <<>>]

\* A search went on into the tables or maps of subs, in order, and appends to
\* the full path the name of the one where it ended, after what that one appended.
SearchIn(search, subs, names) ==
  FoldLeft(LAMBDA acc, i : IF acc.prop # <<>> THEN acc
                           ELSE LET r == search[subs[i]]
                                IN  [prop |-> r.prop,
                                     path |-> acc.path \o r.path \o IF r.prop # <<>> THEN <<names[i]>> ELSE <<>>],
           NotFound, [i \in 1 .. Len(subs) |-> i])

\* And then into the base, whose name is appended before what it appends.
SearchBase(search, acc, base) ==
  IF acc.prop # <<>> \/ base = None THEN acc
  ELSE [prop |-> search[base].prop, path |-> acc.path \o <<"baseclass">> \o search[base].path]

\* loop_props over a SendTable. Excluded props do not count. If none of its own
\* matches, a lazy walk looks into the tables among them and into the base class.
SendSearch(member, lazy) ==
  LET Search[t \in DOMAIN SendTables] ==
        LET props == SelectSeq(SendTables[t], LAMBDA p : ~p.exclude)
            own == SelectSeq(props, LAMBDA p : Matches(p.name, member))
            subs == SelectSeq(props, LAMBDA p : p.table # None /\ p.name # "baseclass")
            bases == SelectSeq(props, LAMBDA p : p.name = "baseclass")
        IN  IF own # <<>> THEN [prop |-> <<Head(own)>>, path |-> <<>>]
            ELSE IF ~lazy THEN NotFound
            ELSE SearchBase(Search,
                            SearchIn(Search, [i \in DOMAIN subs |-> subs[i].table], [i \in DOMAIN subs |-> subs[i].name]),
                            IF bases = <<>> THEN None ELSE Last(bases).table)
  IN  Search

\* loop_props over a datamap_t: a lazy walk also takes the external name of a
\* keyfield, and appends the name of the data's class before it looks further.
DataSearch(member, lazy) ==
  LET Search[m \in DOMAIN DataMaps] ==
        LET fields == DataMaps[m].fields
            own == SelectSeq(fields, LAMBDA f : \/ Matches(f.name, member)
                                                \/ (lazy /\ f.td = None /\ f.external # None /\ Matches(f.external, member)))
            subs == SelectSeq(fields, LAMBDA f : f.td # None)
            within == SearchIn(Search, [i \in DOMAIN subs |-> subs[i].td], [i \in DOMAIN subs |-> subs[i].name])
        IN  IF own # <<>> THEN [prop |-> <<Head(own)>>, path |-> <<>>]
            ELSE IF ~lazy THEN NotFound
            ELSE SearchBase(Search, [within EXCEPT !.path = <<DataMaps[m].class>> \o within.path], DataMaps[m].base)
  IN  Search

-----------------------------------------------------------------------------
(* walk_prop_tree.                                                         *)

\* A table or map, or a prop that has none; a class may have no map.
Place(table, prop) == IF table # None THEN <<"table", table>> ELSE <<"prop", prop>>
Root(table) == IF table # None THEN <<"table", table>> ELSE <<None, None>>

\* What a walk that goes on stands at.
At(place, path) == [outcome |-> "walking", at |-> place, path |-> path]

\* The member is not in the table. A lazy walk appends the name of the prop it has not found.
Missing(st, lazy) == [st EXCEPT !.outcome = IF lazy THEN "crash" ELSE "refused"]

MutantExtended(st, lazy, names) == st.path

\* A lazy walk appends to the full path.
Extended(st, lazy, names) == IF lazy THEN st.path \o names ELSE st.path

SendMember(lazy, st, member) ==
  LET r == SendSearch(member, lazy)[st.at[2]]
  IN  IF r.prop = <<>> THEN Missing(st, lazy)
      ELSE LET p == Head(r.prop)
           IN  At(Place(p.table, p), Extended(st, lazy, r.path \o <<p.name>>))

\* "baseclass" is no field: a lazy walk, which then reads the name of the field
\* it found, has none.
DataMember(lazy, st, member) ==
  IF member = "baseclass"
  THEN IF lazy \/ DataMaps[st.at[2]].base = None THEN Missing(st, lazy)
       ELSE At(Root(DataMaps[st.at[2]].base), st.path)
  ELSE LET r == DataSearch(member, lazy)[st.at[2]]
       IN  IF r.prop = <<>> THEN Missing(st, lazy)
           ELSE LET f == Head(r.prop)
                IN  At(Place(f.td, f), Extended(st, lazy, r.path \o <<f.name>>))

\* The loop over the members of the path.
Members(tree, lazy, path) ==
  FoldLeft(LAMBDA st, member :
             IF st.outcome # "walking" THEN st
             ELSE IF member \in Subscripts \/ st.at[1] # "table" THEN [st EXCEPT !.outcome = "refused"]
             ELSE IF tree = "send" THEN SendMember(lazy, st, member) ELSE DataMember(lazy, st, member),
           At(Root(Classes[Head(path)][tree]), <<Head(path)>>), Tail(path))

\* only_prop and only_table
Admits(want, st) == st.at[1] = want

\* The outcome of a walk, with the entries it adds to the caches: the full path
\* is kept even when the member is then refused for what it is.
Result(kind, lazy, st) ==
  LET ended == st.outcome = "walking"
      found == ended /\ Admits(Wants(kind), st)
  IN  [outcome |-> IF found THEN "found" ELSE IF st.outcome = "crash" THEN "crash" ELSE "refused",
       object |-> IF found THEN st.at ELSE <<>>, keeps |-> lazy /\ ended, full |-> st.path]

Walk(kind, lazy, path) ==
  IF Head(path) \notin DOMAIN Classes THEN [outcome |-> "refused", object |-> <<>>, keeps |-> FALSE, full |-> <<>>]
  ELSE Result(kind, lazy, Members(Tree(kind), lazy, path))

\* One cache for the tables and the props of a tree.
Cached(kind, path) == path \in DOMAIN cache[Tree(kind)]

With(f, key, value) == [k \in DOMAIN f \cup {key} |-> IF k = key THEN value ELSE f[k]]

\* The lookup of a wrapper, which is made and registered for a prop it has none for yet.
Answer(kind, path, outcome, object, registers) ==
  LET known == object \in wrapped[kind]
      given == outcome = "found" /\ (known \/ registers)   \* or else the script gets null
      key == <<kind, path>>
  IN  /\ wrapped' = IF given THEN [wrapped EXCEPT ![kind] = @ \cup {object}] ELSE wrapped
      /\ answers' = IF outcome = "found" /\ key \notin DOMAIN answers THEN With(answers, key, object) ELSE answers
      /\ last' = [kind |-> kind, path |-> path, outcome |-> IF outcome = "found" /\ ~given THEN "unregistered" ELSE outcome,
                  object |-> object, before |-> IF key \in DOMAIN answers THEN answers[key] ELSE <<>>]
      /\ lookups' = lookups + 1

\* The server has not gone down, nor taken what it finds in memory for a pointer.
Running == last.outcome \notin {"crash", "wild"} /\ lookups < MaxLookups

\* script_lookup_sendprop, script_lookup_sendtable, script_lookup_dataprop and
\* script_lookup_datatable. The member `which` of the result is not initialised:
\* when it reads both, the pointer, as little initialised, is taken for the result.
script_lookup(kind, path, reads_both, registers) ==
  LET lazy == path \notin DOMAIN full
      walked == IF lazy THEN path ELSE full[path]
      hit == Cached(kind, walked)
      w == Walk(kind, lazy, walked)
  IN  /\ Running
      /\ IF hit THEN Answer(kind, path, "found", cache[Tree(kind)][walked], registers)
         ELSE IF reads_both THEN Answer(kind, path, "wild", <<>>, registers)
         ELSE Answer(kind, path, w.outcome, w.object, registers)
      /\ IF ~hit /\ ~reads_both
         THEN /\ full' = IF w.keeps THEN With(full, path, w.full) ELSE full
              /\ maker' = IF w.keeps THEN With(maker, path, Tree(kind)) ELSE maker
              /\ cache' = IF w.outcome = "found" THEN [cache EXCEPT ![Tree(kind)] = With(@, walked, w.object)] ELSE cache
         ELSE UNCHANGED <<full, maker, cache>>

\* script_lookup_serverclass
script_lookup_serverclass(class, registers) ==
  /\ Running
  /\ IF class \in DOMAIN Classes
     THEN Answer("serverclass", <<class>>, "found", <<"class", class>>, registers)
     ELSE Answer("serverclass", <<class>>, "refused", <<>>, registers)
  /\ UNCHANGED <<full, maker, cache>>

PNext ==
  \/ \E kind \in Kinds, path \in Paths, reads_both, registers \in BOOLEAN :
       script_lookup(kind, path, reads_both, registers)
  \/ \E path \in Paths, registers \in BOOLEAN : script_lookup_serverclass(Head(path), registers)

PSpec == PInit /\ [][PNext]_pvars

-----------------------------------------------------------------------------
(* Properties.                                                             *)

\* The tables and maps that a search from one of them may end in.
Below(tree) ==
  IF tree = "send"
  THEN LET B[t \in DOMAIN SendTables] ==
             {t} \cup UNION {B[p.table] : p \in {q \in Range(SendTables[t]) : q.table # None /\ ~q.exclude}}
       IN  B
  ELSE LET B[m \in DOMAIN DataMaps] ==
             {m} \cup (IF DataMaps[m].base = None THEN {} ELSE B[DataMaps[m].base])
                 \cup UNION {B[f.td] : f \in {g \in Range(DataMaps[m].fields) : g.td # None}}
       IN  B

\* The member is somewhere below.
Has(tree, table, member) ==
  \E t \in Below(tree)[table] :
    IF tree = "send" THEN \E p \in Range(SendTables[t]) : ~p.exclude /\ Matches(p.name, member)
    ELSE member # "baseclass" /\ \E f \in Range(DataMaps[t].fields) :
           \/ Matches(f.name, member)
           \/ (f.td = None /\ f.external # None /\ Matches(f.external, member))

\* The path, and the full one that was kept for it, which are looked for in the cache.
LookedFor(p) == {p} \cup IF p \in DOMAIN full THEN {full[p]} ELSE {}

\* A lookup that is answered gives a prop when it asks for a prop and a table
\* when it asks for a table, unless the same place was looked up as the other
\* before: both are kept in one cache.
FindsWhatWasAsked ==
  last.kind \in Kinds /\ last.outcome = "found" =>
    \/ last.object[1] = Wants(last.kind)
    \/ \E key \in DOMAIN answers, p \in LookedFor(last.path) :
         Tree(key[1]) = Tree(last.kind) /\ Wants(key[1]) # Wants(last.kind) /\ p \in LookedFor(key[2])

\* The server goes down only on a path whose first member is nowhere below the
\* class, or that goes on after it.
FallsOnlyOnMissing ==
  last.kind \in Kinds /\ last.outcome = "crash" =>
    \/ Len(last.path) > 2
    \/ ~Has(Tree(last.kind), Classes[Head(last.path)][Tree(last.kind)], last.path[2])

AnswersWhatWasAsked == FindsWhatWasAsked /\ FallsOnlyOnMissing

\* What a script looked up once it finds again under the same path, unless the
\* full path that was kept for it does not lead there: the search went through
\* the tables within another table, which are kept in the wrong order, or
\* through a data map, whose class is kept as if it were a member, or the full
\* path was kept by a walk through the other tree.
SameAnswerAgain ==
  last.kind \in Kinds /\ last.before # <<>> /\ last.outcome # "wild" =>
    \/ (last.outcome \in {"found", "unregistered"} /\ last.object = last.before)
    \/ maker[last.path] # Tree(last.kind)
    \/ (Tree(last.kind) = "data" /\ full[last.path] # last.path)
    \/ Len(full[last.path]) > Len(last.path) + 1
=============================================================================
