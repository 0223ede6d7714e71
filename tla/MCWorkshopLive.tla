--------------------------- MODULE MCWorkshopLive ---------------------------
(* Two workshops whose outside world does what it is asked: the collection of *)
(* a map (coll, the constants of the run), and a package beside an item that  *)
(* is none, which a mod names (pack).                                         *)
EXTENDS MCWorkshop

VARIABLE part

P == INSTANCE Workshop WITH
       Ids <- PackIds, Mods <- {m1}, WorkshopFile <- PackFile, Kind <- PackKind,
       Children <- PackChildren, MapNames <- PackNames, Names <- {n1}, Maps <- {},
       Failing <- {}

LiveInit == (part = "coll" /\ Init) \/ (part = "pack" /\ P!Init)
LiveNext ==
  /\ \/ part = "coll" /\ Next
     \/ part = "pack" /\ P!Next
  /\ UNCHANGED part

\* The fairness of Workshop for the one item that can be mounted.
LiveFairness ==
  /\ WF_vars((part = "coll" /\ CommandStep) \/ (part = "pack" /\ P!CommandStep))
  /\ SF_vars((part = "coll" /\ Answers(map1)) \/ (part = "pack" /\ P!Answers(pack)))
  /\ SF_vars((part = "coll" /\ DownloadResult(map1)) \/ (part = "pack" /\ P!DownloadResult(pack)))
LiveSpec == LiveInit /\ [][LiveNext]_<<part, vars>> /\ LiveFairness

\* A map of a collection, or a package, whose details are on the way ends up
\* mounted, unless it is dropped or the logon is lost (main.cpp, on_details_queried
\* and the handlers that it leads to).
PartsMounted ==
  (part = "coll" /\ OnItsWay(map1)) \/ (part = "pack" /\ P!OnItsWay(pack))
    ~> (part = "coll" => Settled(map1)) /\ (part = "pack" => P!Settled(pack))
=============================================================================
