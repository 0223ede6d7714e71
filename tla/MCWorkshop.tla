----------------------------- MODULE MCWorkshop -----------------------------
(* The instances of Workshop that TLC checks. *)
EXTENDS Workshop, TLC

CONSTANTS coll, map1, map2, pack, n1, n2, m1, m2, h1, h2

\* A collection and its only map, which two mods name and whose author may
\* rename it.
CollIds      == {coll, map1}
CollMods     == {m1, m2}
CollFile     == [m \in CollMods |-> map1]
CollKind     == (coll :> "collection") @@ (map1 :> "map")
CollChildren == (coll :> {map1}) @@ (map1 :> {})
CollNames    == (coll :> {}) @@ (map1 :> {n1})

\* Two maps that may have the same file name, no mods.
MapIds      == {map1, map2}
MapKind     == [id \in MapIds |-> "map"]
NoChildren  == [id \in MapIds |-> {}]
MapNames2   == [id \in MapIds |-> IF id = map1 THEN {n1, n2} ELSE {n1}]

\* A package and a mod that names something that is no item.
PackIds      == {pack, coll}
PackKind     == [id \in PackIds |-> IF id = pack THEN "vpk" ELSE "other"]
PackChildren == [id \in PackIds |-> {}]
PackNames    == [id \in PackIds |-> {}]
PackFile     == [m \in {m1} |-> coll]

MapPaths  == {<<n1, map1>>, <<n1, map2>>}
CollPaths == {n1, <<n1, map1>>}

NoMods == {}
NoFile == [m \in NoMods |-> map1]

Symmetry == Permutations(Handles) \cup Permutations({m1, m2})
=============================================================================
