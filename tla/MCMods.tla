------------------------------- MODULE MCMods -------------------------------
(* Two mods: one with two plugins and no assets, one with a plugin and assets. *)
EXTENDS Mods, TLC

CONSTANTS d1, d2, p1, p2, p3

MCDirs == {d1, d2}
MCPlugins == {p1, p2, p3}
MCModOf == (p1 :> d1) @@ (p2 :> d1) @@ (p3 :> d2)
MCAssets == {d2}
MCAutoReload == {p1, p3}

\* only the mod without assets has a script
LivePlugins == {p1}
LiveModOf == p1 :> d1
=============================================================================
