-------------------------- MODULE MCWorkshopParts --------------------------
(* Three workshops, one per behaviour, chosen for what can happen in each: a   *)
(* collection of a map that two mods name (refs, the constants of the run),  *)
(* two maps that compete for a link (links), and a package and an item that  *)
(* is none (pack).  Failing differs so that each failure happens in one.     *)
EXTENDS MCWorkshop

\* The ids are none of the names, mods and values that stand for nothing.
ASSUME PartsAssumption ==
  /\ {coll, map1, map2, pack} \cap {n1, n2, m1, None, NoName} = {}
  /\ NoName \notin {n1, n2}

VARIABLE part

L == INSTANCE Workshop WITH
       Ids <- MapIds, Mods <- NoMods, WorkshopFile <- NoFile, Kind <- MapKind,
       Children <- NoChildren, MapNames <- MapNames2, Names <- {n1, n2}, Maps <- MapPaths,
       Failing <- {"symlink", "remove", "send"}
P == INSTANCE Workshop WITH
       Ids <- PackIds, Mods <- {m1}, WorkshopFile <- PackFile, Kind <- PackKind,
       Children <- PackChildren, MapNames <- PackNames, Names <- {n1}, Maps <- {},
       Failing <- {"create", "details", "unvpk", "DownloadItem"}

PartsInit ==
  \/ part = "refs" /\ Init
  \/ part = "links" /\ L!Init
  \/ part = "pack" /\ P!Init
PartsNext ==
  /\ \/ part = "refs" /\ Next
     \/ part = "links" /\ L!Next
     \/ part = "pack" /\ P!Next
  /\ UNCHANGED part
PartsSpec == PartsInit /\ [][PartsNext]_<<part, vars>>

\* The properties of Workshop, of whichever of the three this is.  See there.
PartsAgree == /\ part = "refs"  => AgreesWithSteam
              /\ part = "links" => L!AgreesWithSteam
              /\ part = "pack"  => P!AgreesWithSteam
PartsRefsExact == /\ part = "refs" => RefsExact
                  /\ part = "pack" => P!RefsExact
PartsUnbackedOnlyBy ==
  [][/\ part = "links" => L!UnbackedStep
     /\ part = "pack"  => P!UnbackedStep]_<<part, vars>>
PartsKeepPlayedMap == [][part = "links" => L!RefreshStep]_<<part, vars>>
=============================================================================
