------------------------------- MODULE Handles -------------------------------
(***************************************************************************)
(* The handles C++ has on objects of the script machine. A handle is a     *)
(* copy of an HSQOBJECT with a reference of its own, and its wrapper       *)
(* (vscript/variant.cpp handle_wrapper, gsdk/vscript/vscript.cpp           *)
(* ScriptHandleWrapper_t) frees it by its type. Freeing means more for two *)
(* of them: the handle of an instance cuts the instance from its C++       *)
(* object, and the handle of a scope counts in __vrefs of the scope, a     *)
(* table that VSquirrel_OnCreateScope and _OnReleaseScope of vmod_init.nut *)
(* link into the table around it by its name.                              *)
(***************************************************************************)
EXTENDS Integers, Sequences, FiniteSets

CONSTANTS Holders,      \* the members of C++ objects that are wrappers
          Names,        \* names of scopes
          MaxScopes,    \* bound: scopes made
          MaxRefs       \* bound: __vrefs of a scope, from -1

VARIABLES held,         \* what each wrapper has
          scopes,       \* the scopes made so far
          linked,       \* the scope under each name in the outer table, or 0
          lost,         \* scopes, and objects, a handle of which was overwritten, so that
                        \* nothing will free it
          points,       \* of each holder's C++ object: instances that point to it
          deleted,      \* the C++ objects deleted
          reached,      \* the deleted C++ objects that an instance still points to
          uncounted,    \* scopes of which a handle was given back that never counted
          made          \* what the last step made: a scope's handle, and if it was a new one

vars == <<held, scopes, linked, lost, points, deleted, reached, uncounted, made>>

\* HANDLETYPE_. PLAIN stands for FUNCTION and SCRIPT, which are freed, and for
\* UNKNOWN, TABLE and ARRAY, which are not, for ReleaseObject makes a variant
\* without SV_FREE of them: neither changes more than what memory is in use.
Types == {"PLAIN", "INSTANCE", "SCOPE"}
Handle(type, scope, counts) == [type |-> type, scope |-> scope, counts |-> counts]
Empty == Handle("none", 0, FALSE)
NotMade == [scope |-> 0, again |-> FALSE]

Init ==
  /\ held = [h \in Holders |-> Empty]
  /\ scopes = <<>> /\ linked = [n \in Names |-> 0]
  /\ lost = {} /\ points = [h \in Holders |-> 0] /\ deleted = {} /\ reached = {}
  /\ uncounted = {} /\ made = NotMade

Overwritten(h) ==
  lost \cup (CASE held[h].type = "SCOPE"    -> {held[h].scope}
              [] held[h].type = "INSTANCE" -> {h}
              [] OTHER                     -> {})

-----------------------------------------------------------------------------
(* The scopes.                                                             *)

\* The delegate of a scope is the table around it, and that of a singleton the
\* table with its _get; a scope dissolved has neither name nor delegate.
NewScope(name) ==
  [name |-> name, refs |-> 1, get |-> FALSE, runs |-> 0, dissolved |-> FALSE, stays |-> FALSE]

MutantOnCreateScope(name) ==
  IF linked[name] = 0
  THEN /\ Len(scopes) < MaxScopes
       /\ scopes' = Append(scopes, NewScope(name))
       /\ linked' = [linked EXCEPT ![name] = Len(scopes) + 1]
  ELSE UNCHANGED <<scopes, linked>>

\* VSquirrel_OnCreateScope
OnCreateScope(name) ==
  IF linked[name] = 0
  THEN /\ Len(scopes) < MaxScopes
       /\ scopes' = Append(scopes, NewScope(name))
       /\ linked' = [linked EXCEPT ![name] = Len(scopes) + 1]
  ELSE /\ scopes[linked[name]].refs < MaxRefs
       /\ scopes' = [scopes EXCEPT ![linked[name]].refs = @ + 1]
       /\ UNCHANGED linked

ScopeOf(name) == IF linked[name] = 0 THEN Len(scopes) + 1 ELSE linked[name]

\* The name leaves the table that is the delegate, which is not the table around
\* a scope that has a _get: such a scope stays linked.
Unlink(s) ==
  IF scopes[s].dissolved \/ scopes[s].get THEN linked ELSE [linked EXCEPT ![scopes[s].name] = 0]

\* VSquirrel_OnReleaseScope, which throws when it has counted below zero.
OnReleaseScope(s) ==
  LET scope == scopes[s]
      refs == scope.refs - 1
  IN  /\ refs >= -1
      /\ scopes' = [scopes EXCEPT ![s] =
                      [scope EXCEPT !.refs = refs,
                                    !.dissolved = scope.dissolved \/ refs = 0,
                                    !.stays = scope.stays \/ (refs = 0 /\ scope.get),
                                    !.get = scope.get /\ refs # 0]]
      /\ linked' = IF refs = 0 THEN Unlink(s) ELSE linked

-----------------------------------------------------------------------------
(* Obtaining a handle. A wrapper of vmod that is assigned the wrapper the  *)
(* machine returned takes it over without freeing its own.                 *)

\* CreateScope; nothing was freed before.
CreateScope(h, name) ==
  /\ h \notin deleted
  /\ OnCreateScope(name)
  /\ held' = [held EXCEPT ![h] = Handle("SCOPE", ScopeOf(name), TRUE)]
  /\ lost' = Overwritten(h)
  /\ made' = [scope |-> ScopeOf(name), again |-> linked[name] # 0]
  /\ UNCHANGED <<points, deleted, reached, uncounted>>

\* ReferenceScope copies the handle of a scope and counts nothing.
ReferenceScope(h, s) ==
  /\ h \notin deleted /\ held[h] = Empty
  /\ held' = [held EXCEPT ![h] = Handle("SCOPE", s, FALSE)]
  /\ made' = NotMade
  /\ UNCHANGED <<scopes, linked, lost, points, deleted, reached, uncounted>>

\* LookupFunction, ReferenceFunction, CompileScript, CreateTable and CreateArray;
\* and RegisterInstance for the C++ object around the wrapper.
Obtain(h, type) ==
  /\ h \notin deleted
  /\ type = "INSTANCE" => points[h] < 2
  /\ held' = [held EXCEPT ![h] = Handle(type, 0, FALSE)]
  /\ lost' = Overwritten(h)
  /\ points' = IF type = "INSTANCE" THEN [points EXCEPT ![h] = @ + 1] ELSE points
  /\ made' = NotMade
  /\ UNCHANGED <<scopes, linked, deleted, reached, uncounted>>

-----------------------------------------------------------------------------
(* Giving it back.                                                         *)

\* handle_wrapper::free of a scope's handle: ReleaseScope frees the handle if
\* the script did not throw, and the wrapper has lost it either way.
ReleaseScope(h) ==
  LET s == held[h].scope
  IN  IF held[h].type = "SCOPE"
      THEN OnReleaseScope(s) /\ uncounted' = IF held[h].counts THEN uncounted ELSE uncounted \cup {s}
      ELSE UNCHANGED <<scopes, linked, uncounted>>

\* RemoveInstance nulls the pointer of the instance that the wrapper has.
RemoveInstance(h) == IF held[h].type = "INSTANCE" THEN points[h] - 1 ELSE points[h]

\* free of a member.
free(h) ==
  /\ held[h] # Empty
  /\ ReleaseScope(h)
  /\ points' = [points EXCEPT ![h] = RemoveInstance(h)]
  /\ held' = [held EXCEPT ![h] = Empty]
  /\ made' = NotMade
  /\ UNCHANGED <<lost, deleted, reached>>

\* handle_wrapper::operator=(handle_wrapper &&), which frees what it had. An
\* instance stays with the object that it is for.
Move(h, from) ==
  /\ {h, from} \cap deleted = {} /\ h # from
  /\ held[from] # Empty /\ "INSTANCE" \notin {held[from].type, held[h].type}
  /\ ReleaseScope(h)
  /\ held' = [held EXCEPT ![h] = held[from], ![from] = Empty]
  /\ made' = NotMade
  /\ UNCHANGED <<lost, points, deleted, reached>>

\* The object around the wrapper is deleted; ~handle_wrapper has freed its own.
Delete(h) ==
  /\ h \notin deleted /\ held[h] = Empty
  /\ deleted' = deleted \cup {h}
  /\ reached' = IF points[h] > 0 THEN reached \cup {h} ELSE reached
  /\ made' = NotMade
  /\ UNCHANGED <<held, scopes, linked, lost, points, uncounted>>

-----------------------------------------------------------------------------
(* What is done in a scope.                                                *)

\* Run: the script leaves its names in the scope.
Run(h) ==
  /\ held[h].type = "SCOPE" /\ scopes[held[h].scope].runs = 0
  /\ scopes' = [scopes EXCEPT ![held[h].scope].runs = 1]
  /\ made' = NotMade
  /\ UNCHANGED <<held, linked, lost, points, deleted, reached, uncounted>>

\* singleton_base::create_get: MakeSquirrelMetamethod_Get on the scope of the
\* singleton replaces its delegate.
create_get(h) ==
  /\ held[h].type = "SCOPE"
  /\ scopes' = [scopes EXCEPT ![held[h].scope].get = TRUE]
  /\ made' = NotMade
  /\ UNCHANGED <<held, linked, lost, points, deleted, reached, uncounted>>

Next ==
  \E h \in Holders :
    \/ \E name \in Names : CreateScope(h, name)
    \/ \E s \in 1 .. Len(scopes) : ReferenceScope(h, s)
    \/ \E type \in Types \ {"SCOPE"} : Obtain(h, type)
    \/ \E from \in Holders : Move(h, from)
    \/ free(h) \/ Delete(h) \/ Run(h) \/ create_get(h)

Spec == Init /\ [][Next]_vars

-----------------------------------------------------------------------------
(* Properties.                                                             *)

Counting(s) == {h \in Holders : held[h].type = "SCOPE" /\ held[h].scope = s /\ held[h].counts}

\* A scope stays under its name, whole, for as long as somebody has a handle of
\* it that counts, unless a copy that did not count was given back
\* (ReferenceScope_impl's TODO in vm.cpp), and a release throws for no other
\* reason. A scope that had a _get when it was dissolved is
\* found under its name later, without name or delegate.
ScopeKept ==
  /\ \A s \in DOMAIN scopes \ uncounted :
       /\ scopes[s].refs >= Cardinality(Counting(s))
       /\ Counting(s) # {} => /\ linked[scopes[s].name] = s
                              /\ scopes[s].dissolved => scopes[s].stays
  /\ \A s \in DOMAIN scopes : scopes[s].refs < 0 => s \in uncounted

\* Whoever creates a scope gets an empty one, as a plugin that is loaded again
\* expects of its private scope, unless another has it, the handle of the one
\* before was overwritten, or it had a _get (plugin.cpp creates the scopes by the
\* name of the file on each load; VSquirrel_OnCreateScope returns what is there).
FreshScope ==
  LET s == made.scope
  IN  (s # 0 /\ scopes[s].runs > 0) =>
        \/ Cardinality({h \in Holders : held[h].scope = s}) > 1
        \/ s \in lost
        \/ scopes[s].stays

\* A script reaches a C++ object that was deleted only if the handle of its
\* instance was overwritten by another before (RemoveInstance cuts the instance
\* that the wrapper has, and the assignment that registers an object again does
\* not free it).
ReachedOnlyBy == reached \subseteq lost

\* Handles of scopes and instances are worth what they say: a scope stays as long
\* as it is held, is empty when it is new, and an instance leads to no deleted
\* object, with the exceptions named above.
HandlesHold == ScopeKept /\ FreshScope /\ ReachedOnlyBy
=============================================================================
