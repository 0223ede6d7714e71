--------------------------- MODULE MCPluginScopes ---------------------------
(* Two objects: of two scripts, or of a script that is loaded twice. *)
EXTENDS PluginScopes, TLC

CONSTANTS p1, p2, o1, o2, i1, s1

Symmetry == Permutations(Objects) \cup Permutations(Paths)

\* Nothing relates an owned instance to a shared one: one of them at a time.
Apart == live = {} \/ detours = {}

\* Left out is what no step and no property reads from there on: the history of
\* an instance that is not live, or who made it once it strayed; the path of a
\* dead object; what a scope saved when none is open.  Where a dead object was
\* touched, which ends a behaviour, only the invariants read on.
Saved == IF \E k \in 1..Level : stack[k].kind # "unscoped" THEN old_running ELSE None
View ==
  IF touched = {}
  THEN <<alive, made, [o \in alive |-> path[o]], path_plugin_map, running,
         assumed_currently_running_, Saved, stack, owned_instances, owner_plugin, live,
         strayed \cap live, [i \in live \ strayed |-> creator[i]], share, calls, order, pulled>>
  ELSE <<touched, pulled, callback, astray, Level, assumed_currently_running_, Current>>
=============================================================================
