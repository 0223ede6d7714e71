------------------------------ MODULE MCDetour ------------------------------
(* One function, with two detours, one made as a static and one as a member  *)
(* function, two callbacks that stay enabled and nested calls (shared), or    *)
(* with one detour and three callbacks of two plugins, whose walks are not   *)
(* nested (walk).                                                            *)
EXTENDS Detour, TLC

CONSTANTS t1, d1, d2, c1, c2, c3, p1, p2

Keys == d1 :> <<t1, "static">> @@ d2 :> <<t1, "member">>

VARIABLE part

\* What is used of the constants: each of the two parts is bounded in its own way.
Within ==
  \/ /\ part = "shared"
     /\ Cardinality({c \in Callbacks : cb[c].st # "none"}) <= 2
     /\ \A c \in Callbacks : cb[c].st = "live" => cb[c].enabled
     /\ \A k \in DOMAIN stack : stack[k].of # p2
  \/ part = "walk" /\ det[d2].st = "none" /\ Len(stack) <= 1

PartsInit == Init /\ part \in {"shared", "walk"}
PartsNext == Next /\ UNCHANGED part /\ Within'
PartsSpec == PartsInit /\ [][PartsNext]_<<part, vars>>

\* The argument vector matters only while a hooked call is under way.
View ==
  <<part, code, det, cb, stack, overlap, stirred, touched,
    IF \E k \in DOMAIN stack : stack[k].kind = "hook" THEN sargs ELSE 0>>

Symmetry == Permutations({c1, c2, c3})
=============================================================================
