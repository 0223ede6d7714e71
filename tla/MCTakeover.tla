----------------------------- MODULE MCTakeover -----------------------------
(* Instances of Takeover. *)
EXTENDS Takeover, TLC

CONSTANTS v1, v2, v3, v4

MCVMs == {v1, v2, v3, v4}
Symmetry == Permutations(MCVMs)
=============================================================================
