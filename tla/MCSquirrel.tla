----------------------------- MODULE MCSquirrel -----------------------------
(* Instances of Squirrel. *)
EXTENDS Squirrel

\* Bound: nothing goes on from a state in which classes are registered and exceptions
\* were raised, which have nothing to do with each other.
Apart == registered = {} \/ raised = 0
=============================================================================
