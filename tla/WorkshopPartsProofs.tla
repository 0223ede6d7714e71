------------------------ MODULE WorkshopPartsProofs ------------------------
(* The properties of the run of MCWorkshopParts, of the three workshops that   *)
(* it checks.  What is proved of Workshop holds of each: the first is the one  *)
(* that WorkshopProofs is about, the others are instances of it (LW and PW).   *)
(* MCWorkshopParts has instances L and P of Workshop itself, whose operators   *)
(* the prover tells from those of LW and PW: LinksSame and PackSame go through *)
(* them once, from the operations of an item to its handlers and the whole.    *)
EXTENDS MCWorkshopParts, WorkshopProofs

LW == INSTANCE WorkshopProofs WITH
        Ids <- MapIds, Mods <- NoMods, WorkshopFile <- NoFile, Kind <- MapKind,
        Children <- NoChildren, MapNames <- MapNames2, Names <- {n1, n2}, Maps <- MapPaths,
        Failing <- {"symlink", "remove", "send"}
PW == INSTANCE WorkshopProofs WITH
        Ids <- PackIds, Mods <- {m1}, WorkshopFile <- PackFile, Kind <- PackKind,
        Children <- PackChildren, MapNames <- PackNames, Names <- {n1}, Maps <- {},
        Failing <- {"create", "details", "unvpk", "DownloadItem"}

-----------------------------------------------------------------------------
(* The instances are instances of Workshop *)

\* The constants of the second workshop are what Workshop assumes of them.
LEMMA LinksConstants == LW!ConstAssumption
<1>1. MapIds = {map1, map2} /\ NoMods = {}
  BY DEF MapIds, NoMods
<1>2. NoFile \in [NoMods -> MapIds]
  BY <1>1 DEF NoFile
<1>3. MapKind \in [MapIds -> LW!Kinds]
  BY DEF MapKind, LW!Kinds
<1>4. NoChildren \in [MapIds -> SUBSET MapIds]
  BY DEF NoChildren
<1>5. MapNames2 \in [MapIds -> SUBSET {n1, n2}]
  BY <1>1 DEF MapNames2
<1>6. MapPaths \subseteq {n1, n2} \cup ({n1, n2} \X MapIds)
  BY <1>1 DEF MapPaths
<1> QED
  BY <1>1, <1>2, <1>3, <1>4, <1>5, <1>6, ConstAssumption, PartsAssumption DEF LW!ConstAssumption

\* So are those of the third.
LEMMA PackConstants == PW!ConstAssumption
<1>1. PackIds = {pack, coll}
  BY DEF PackIds
<1>2. PackFile \in [{m1} -> PackIds]
  BY <1>1 DEF PackFile
<1>3. PackKind \in [PackIds -> PW!Kinds]
  BY <1>1 DEF PackKind, PW!Kinds
<1>4. PackChildren \in [PackIds -> SUBSET PackIds]
  BY DEF PackChildren
<1>5. PackNames \in [PackIds -> SUBSET {n1}]
  BY DEF PackNames
<1> QED
  BY <1>1, <1>2, <1>3, <1>4, <1>5, ConstAssumption, PartsAssumption DEF PW!ConstAssumption

\* The initial states and the steps of L are those of LW.
LEMMA LinksSame == (L!Init => LW!Init) /\ (L!Next => LW!Next)
<1>1. /\ \A calls : L!Luck(calls) = LW!Luck(calls)
      /\ \A w, ok : L!NewHandles(w, ok) = LW!NewHandles(w, ok)
      /\ \A what, x : L!Visit(what, x) <=> LW!Visit(what, x)
      /\ \A id, world : L!Commit(id, world) <=> LW!Commit(id, world)
  BY DEF L!Luck, L!NewHandles, L!Visit, L!Present, L!Commit, L!Holders, LW!Luck, LW!NewHandles,
    LW!Visit, LW!Present, LW!Commit, LW!Holders
<1>2. /\ L!NewItem = LW!NewItem
      /\ \A w : L!cancel(w) = LW!cancel(w)
      /\ \A w : L!Answered(w) = LW!Answered(w)
      /\ \A w, user : L!AddRef(w, user) = LW!AddRef(w, user)
      /\ \A w, user : L!DropRef(w, user) = LW!DropRef(w, user)
      /\ \A w, ok, name : L!Metadata(w, ok, name) = LW!Metadata(w, ok, name)
      /\ \A w : L!QueryReleased(w) = LW!QueryReleased(w)
      /\ \A id, w, ok : L!Details(id, w, ok) = LW!Details(id, w, ok)
  BY DEF L!NewItem, L!cancel, L!Answered, L!AddRef, L!DropRef, L!Metadata, L!QueryReleased,
    L!Details, LW!NewItem, LW!cancel, LW!Answered, LW!AddRef, LW!DropRef, LW!Metadata,
    LW!QueryReleased, LW!Details
<1>3. \A w, ok, h : L!query_details(w, ok, h) = LW!query_details(w, ok, h)
  BY DEF L!query_details, L!Queried, LW!query_details, LW!Queried
<1>4. \A id, w, force, ok : L!unmount(id, w, force, ok) = LW!unmount(id, w, force, ok)
  BY DEF L!unmount, L!Exists, L!InUse, L!Removable, L!Unlinked, LW!unmount, LW!Exists, LW!InUse,
    LW!Removable, LW!Unlinked
<1>5. \A id, w, ok : L!mount(id, w, ok) = LW!mount(id, w, ok)
  BY DEF L!mount, L!Exists, L!CanLink, L!Linked, LW!mount, LW!Exists, LW!CanLink, LW!Linked
<1>6. /\ \A w, user, ok, h : L!track_workshop_item(w, user, ok, h) = LW!track_workshop_item(w, user, ok, h)
      /\ \A id, w, ok : L!Destroyed(id, w, ok) = LW!Destroyed(id, w, ok)
      /\ \A id, w, ok : L!on_installed(id, w, ok) = LW!on_installed(id, w, ok)
  BY <1>2, <1>3, <1>4, <1>5 DEF L!track_workshop_item, L!Destroyed, L!on_installed,
    LW!track_workshop_item, LW!Destroyed, LW!on_installed
<1>7. /\ \A id, w, user, ok :
          L!untrack_workshop_item(id, w, user, ok) = LW!untrack_workshop_item(id, w, user, ok)
      /\ \A id, w, ok : L!IfInstalled(id, w, ok) = LW!IfInstalled(id, w, ok)
      /\ \A w, ok, h : L!ModTracks(w, ok, h) = LW!ModTracks(w, ok, h)
  BY <1>2, <1>6 DEF L!untrack_workshop_item, L!Unreferenced, L!IfInstalled, L!NotCollection,
    L!ModTracks, LW!untrack_workshop_item, LW!Unreferenced, LW!IfInstalled, LW!NotCollection,
    LW!ModTracks
<1>8. /\ \A id, w, ok : L!download(id, w, ok) = LW!download(id, w, ok)
      /\ \A m, w, ok : L!ModUntracks(m, w, ok) = LW!ModUntracks(m, w, ok)
  BY <1>7 DEF L!download, L!NotCollection, L!ModUntracks, LW!download, LW!NotCollection,
    LW!ModUntracks
<1>9. /\ \A id, w, ok, h : L!refresh(id, w, ok, h) = LW!refresh(id, w, ok, h)
      /\ \A id, w, ok : L!FirstDownload(id, w, ok) = LW!FirstDownload(id, w, ok)
  BY <1>3, <1>4, <1>8 DEF L!refresh, L!FirstDownload, LW!refresh, LW!FirstDownload
<1>10. \A id, ok : L!Downloaded(id, ok) = LW!Downloaded(id, ok)
  <2> TAKE id, ok
  <2> DEFINE w == [LW!World(id) EXCEPT !.downloads = @ \ {id}, !.it.state = @ \ {"download_active"}]
             v == [w EXCEPT !.it.state = @ \cup {"downloaded"}]
             After(known, result) ==
               IF {"result", "info_download"} \subseteq ok /\ w.live /\ known THEN result ELSE w
  <2>1. L!World(id) = LW!World(id) /\ \A it : L!NotCollection(it) <=> LW!NotCollection(it)
    BY DEF L!World, LW!World, L!NotCollection, LW!NotCollection
  <2>2. L!Downloaded(id, ok) = After(L!NotCollection(w.it), L!IfInstalled(id, v, ok))
    BY ONLY <2>1 DEF L!Downloaded
  <2>3. LW!Downloaded(id, ok) = After(LW!NotCollection(w.it), LW!IfInstalled(id, v, ok))
    BY ONLY TRUE DEF LW!Downloaded
  <2> HIDE DEF w, v
  <2> QED
    BY <1>7, <2>1, <2>2, <2>3
<1>11. /\ L!LoggedOn => LW!LoggedOn
       /\ L!LoggedOff => LW!LoggedOff
       /\ L!UnloadMods => LW!UnloadMods
       /\ L!Clear => LW!Clear
       /\ L!Refresh => LW!Refresh
       /\ \A map : L!ChangeMap(map) => LW!ChangeMap(map)
  BY <1>1, <1>2 DEF L!LoggedOn, L!steam, L!disk, L!Idle, L!LoggedOff, L!World, L!UnloadMods,
    L!Begin, L!Present, L!Clear, L!Refresh, L!ChangeMap, LW!LoggedOn, LW!steam, LW!disk,
    LW!Idle, LW!LoggedOff, LW!World, LW!UnloadMods, LW!Begin, LW!Present, LW!Clear, LW!Refresh,
    LW!ChangeMap
<1>12. /\ \A id : L!Track(id) => LW!Track(id)
       /\ \A id : L!Untrack(id) => LW!Untrack(id)
       /\ \A id : L!ClearOne(id) => LW!ClearOne(id)
       /\ \A id : L!RefreshOne(id) => LW!RefreshOne(id)
  BY <1>1, <1>2, <1>6, <1>7, <1>9 DEF L!Track, L!World, L!Asking, L!Idle, L!Untrack,
    L!Releasing, L!ClearOne, L!RefreshOne, L!Installing, LW!Track, LW!World, LW!Asking, LW!Idle,
    LW!Untrack, LW!Releasing, LW!ClearOne, LW!RefreshOne, LW!Installing
<1>13. /\ \A id : L!ResolveOther(id) => LW!ResolveOther(id)
       /\ \A id : L!DownloadResult(id) => LW!DownloadResult(id)
       /\ \A id : L!ItemInstalled(id) => LW!ItemInstalled(id)
  BY <1>1, <1>2, <1>6, <1>7, <1>10 DEF L!ResolveOther, L!World, L!Releasing, L!Pending, L!Idle,
    L!DownloadResult, L!ItemInstalled, LW!ResolveOther, LW!World, LW!Releasing, LW!Pending,
    LW!Idle, LW!DownloadResult, LW!ItemInstalled
<1>14. \A id : L!ResolveCollection(id) => LW!ResolveCollection(id)
  <2> SUFFICES ASSUME NEW id, L!ResolveCollection(id) PROVE LW!ResolveCollection(id)
    OBVIOUS
  <2> DEFINE
        new == NoChildren[id] \ (workshop_items \ {id})
        Items(new2, sent, w, h) == [i \in MapIds |->
          IF i \in new2
          THEN L!query_details([w EXCEPT !.it = L!NewItem],
                               IF i \in sent THEN {"send"} ELSE {}, h[i]).it
          ELSE IF i = id THEN L!NewItem ELSE item[i]]
        Items2(new2, sent, w, h) == [i \in MapIds |->
          IF i \in new2
          THEN LW!query_details([w EXCEPT !.it = LW!NewItem],
                               IF i \in sent THEN {"send"} ELSE {}, h[i]).it
          ELSE IF i = id THEN LW!NewItem ELSE item[i]]
        Changes(w, holders, h, sent, items) ==
          /\ \A c, d \in new : h[c] = h[d] => c = d \/ h[c] = None
          /\ "create" \notin {"symlink", "remove", "send"} =>
               \A c \in new : h[c] # None
          /\ "send" \notin {"symlink", "remove", "send"} =>
               \A c \in new : h[c] # None => c \in sent
          /\ workshop_items' = (workshop_items \ {id}) \cup new
          /\ item' = items
          /\ queries' = w.queries \cup ({h[c] : c \in new} \ {None})
          /\ links' = w.links /\ maps_dir' = w.maps_dir /\ vpks' = w.vpks
          /\ robbed' = IF holders # {} THEN robbed \cup {id} ELSE robbed
        Resolved(w, holders) == \E h \in [new -> (Handles \ w.queries) \cup {None}] :
          \E sent \in SUBSET {c \in new : h[c] # None} :
            Changes(w, holders, h, sent, Items(new, sent, w, h))
        Resolved2(w, holders) == \E h \in [new -> (Handles \ w.queries) \cup {None}] :
          \E sent \in SUBSET {c \in new : h[c] # None} :
            Changes(w, holders, h, sent, Items2(new, sent, w, h))
        Guard == MapKind[id] = "collection" /\ "details_queried" \notin item[id].state
        Rest == UNCHANGED <<workshop_initalized, mods, mapname, command, left, downloads,
                            installed>>
  <2>1. L!Pending(id) /\ Guard /\ Rest
        /\ \E ok \in L!Luck(L!Releasing) :
             Resolved(L!Destroyed(id, L!Answered(L!World(id)), ok), L!Holders(id))
    BY ONLY L!ResolveCollection(id) DEF L!ResolveCollection
  <2>2. LW!Pending(id) /\ Guard /\ Rest
        /\ (\E ok \in LW!Luck(LW!Releasing) :
              Resolved2(LW!Destroyed(id, LW!Answered(LW!World(id)), ok), LW!Holders(id)))
        => LW!ResolveCollection(id)
    BY ONLY TRUE DEF LW!ResolveCollection
  <2>3. /\ L!World(id) = LW!World(id) /\ L!Releasing = LW!Releasing
        /\ L!Holders(id) = LW!Holders(id)
        /\ L!Pending(id) => LW!Pending(id)
    BY DEF L!World, LW!World, L!Releasing, LW!Releasing, L!Holders, LW!Holders,
           L!Pending, LW!Pending, L!Idle, LW!Idle
  <2>4. \A ok :
          L!Destroyed(id, L!Answered(L!World(id)), ok)
            = LW!Destroyed(id, LW!Answered(LW!World(id)), ok)
    BY <2>3, <1>2, <1>6
  <2>5. \A new2, sent, w, h : Items(new2, sent, w, h) = Items2(new2, sent, w, h)
    BY <1>2, <1>3
  <2> HIDE DEF Items, Items2, Changes, Guard, Rest
  <2>6. \A w, holders : Resolved(w, holders) => Resolved2(w, holders)
    BY <2>5
  <2> HIDE DEF Resolved, Resolved2
  <2> QED
    BY <1>1, <2>1, <2>2, <2>3, <2>4, <2>6
<1>15. \A id : L!on_details_queried(id) => LW!on_details_queried(id)
  <2> SUFFICES ASSUME NEW id, L!on_details_queried(id) PROVE LW!on_details_queried(id)
    OBVIOUS
  <2> DEFINE
        Told(ok, name) ==
          \E w \in {L!QueryReleased(
                    L!Metadata(L!Details(id, L!Answered(L!World(id)), ok), ok, name))} :
          \E v \in {L!FirstDownload(id, w, ok)}: L!Commit(id, L!IfInstalled(id, v, ok))
        Told2(ok, name) ==
          \E w \in {LW!QueryReleased(
                    LW!Metadata(LW!Details(id, LW!Answered(LW!World(id)), ok), ok, name))} :
          \E v \in {LW!FirstDownload(id, w, ok)}: LW!Commit(id, LW!IfInstalled(id, v, ok))
        Within(luck, Tell(_, _)) ==
          \E ok \in luck,
             name \in MapNames2[id] \cup (IF MapNames2[id] = {} THEN {NoName} ELSE {}) :
            /\ {"result", "details"} \subseteq ok => MapKind[id] # "other"
            /\ {"result", "details", "children"} \subseteq ok => MapKind[id] # "collection"
            /\ Tell(ok, name)
        Rest == UNCHANGED <<workshop_initalized, mods, mapname, command, left, installed>>
        Calls(installing) == {"result", "details", "children", "metadata"} \cup installing
  <2>1. /\ L!World(id) = LW!World(id) /\ L!Installing = LW!Installing
        /\ L!Pending(id) => LW!Pending(id)
    BY DEF L!World, LW!World, L!Installing, LW!Installing, L!Pending, LW!Pending, L!Idle, LW!Idle
  <2>2. \A ok, name :
          L!QueryReleased(L!Metadata(L!Details(id, L!Answered(L!World(id)), ok), ok, name))
            = LW!QueryReleased(LW!Metadata(LW!Details(id, LW!Answered(LW!World(id)), ok), ok, name))
    BY <2>1, <1>2
  <2>3. \A v, ok :
          L!Commit(id, L!IfInstalled(id, v, ok)) <=> LW!Commit(id, LW!IfInstalled(id, v, ok))
    BY <1>1, <1>7
  <2>4. \A ok, name : Told(ok, name) <=> Told2(ok, name)
    BY <2>2, <2>3, <1>9
  <2>5. L!Pending(id) /\ Rest /\ Within(L!Luck(Calls(L!Installing)), Told)
    BY ONLY L!on_details_queried(id) DEF L!on_details_queried
  <2>6. LW!Pending(id) /\ Rest /\ Within(LW!Luck(Calls(LW!Installing)), Told2)
          => LW!on_details_queried(id)
    BY ONLY TRUE DEF LW!on_details_queried
  <2> HIDE DEF Told, Told2, Rest
  <2> QED
    BY <1>1, <2>1, <2>4, <2>5, <2>6
<1>16. \A id : L!ItemStep(id) => LW!ItemStep(id)
  BY <1>12, <1>13, <1>14, <1>15 DEF L!ItemStep, LW!ItemStep
<1>17. /\ \A m : L!ModInit(m) => LW!ModInit(m)
       /\ \A m : L!ModReload(m) => LW!ModReload(m)
       /\ \A m : L!ModDestroy(m) => LW!ModDestroy(m)
       /\ \A m : L!UnloadOne(m) => LW!UnloadOne(m)
       /\ \A m : L!DestroyOne(m) => LW!DestroyOne(m)
  BY <1>1, <1>7, <1>8 DEF L!ModInit, L!World, L!Asking, L!Idle, L!AfterInit, L!ModReload,
    L!Releasing, L!ModDestroy, L!UnloadOne, L!DestroyOne, LW!ModInit, LW!World, LW!Asking,
    LW!Idle, LW!AfterInit, LW!ModReload, LW!Releasing, LW!ModDestroy, LW!UnloadOne,
    LW!DestroyOne
<1>18. \A m : L!ModStep(m) => LW!ModStep(m)
  BY <1>17 DEF L!ModStep, LW!ModStep
<1>19. L!Next => LW!Next
  BY <1>11, <1>16, <1>18 DEF L!Next, LW!Next
<1>20. L!Init => LW!Init
  BY <1>2 DEF L!Init, LW!Init
<1> QED
  BY <1>20, <1>19

\* The initial states and the steps of P are those of PW.
LEMMA PackSame == (P!Init => PW!Init) /\ (P!Next => PW!Next)
<1>1. /\ \A calls : P!Luck(calls) = PW!Luck(calls)
      /\ \A w, ok : P!NewHandles(w, ok) = PW!NewHandles(w, ok)
      /\ \A what, x : P!Visit(what, x) <=> PW!Visit(what, x)
      /\ \A id, world : P!Commit(id, world) <=> PW!Commit(id, world)
  BY DEF P!Luck, P!NewHandles, P!Visit, P!Present, P!Commit, P!Holders, PW!Luck, PW!NewHandles,
    PW!Visit, PW!Present, PW!Commit, PW!Holders
<1>2. /\ P!NewItem = PW!NewItem
      /\ \A w : P!cancel(w) = PW!cancel(w)
      /\ \A w : P!Answered(w) = PW!Answered(w)
      /\ \A w, user : P!AddRef(w, user) = PW!AddRef(w, user)
      /\ \A w, user : P!DropRef(w, user) = PW!DropRef(w, user)
      /\ \A w, ok, name : P!Metadata(w, ok, name) = PW!Metadata(w, ok, name)
      /\ \A w : P!QueryReleased(w) = PW!QueryReleased(w)
      /\ \A id, w, ok : P!Details(id, w, ok) = PW!Details(id, w, ok)
  BY DEF P!NewItem, P!cancel, P!Answered, P!AddRef, P!DropRef, P!Metadata, P!QueryReleased,
    P!Details, PW!NewItem, PW!cancel, PW!Answered, PW!AddRef, PW!DropRef, PW!Metadata,
    PW!QueryReleased, PW!Details
<1>3. \A w, ok, h : P!query_details(w, ok, h) = PW!query_details(w, ok, h)
  BY DEF P!query_details, P!Queried, PW!query_details, PW!Queried
<1>4. \A id, w, force, ok : P!unmount(id, w, force, ok) = PW!unmount(id, w, force, ok)
  BY DEF P!unmount, P!Exists, P!InUse, P!Removable, P!Unlinked, PW!unmount, PW!Exists, PW!InUse,
    PW!Removable, PW!Unlinked
<1>5. \A id, w, ok : P!mount(id, w, ok) = PW!mount(id, w, ok)
  BY DEF P!mount, P!Exists, P!CanLink, P!Linked, PW!mount, PW!Exists, PW!CanLink, PW!Linked
<1>6. /\ \A w, user, ok, h : P!track_workshop_item(w, user, ok, h) = PW!track_workshop_item(w, user, ok, h)
      /\ \A id, w, ok : P!Destroyed(id, w, ok) = PW!Destroyed(id, w, ok)
      /\ \A id, w, ok : P!on_installed(id, w, ok) = PW!on_installed(id, w, ok)
  BY <1>2, <1>3, <1>4, <1>5 DEF P!track_workshop_item, P!Destroyed, P!on_installed,
    PW!track_workshop_item, PW!Destroyed, PW!on_installed
<1>7. /\ \A id, w, user, ok :
          P!untrack_workshop_item(id, w, user, ok) = PW!untrack_workshop_item(id, w, user, ok)
      /\ \A id, w, ok : P!IfInstalled(id, w, ok) = PW!IfInstalled(id, w, ok)
      /\ \A w, ok, h : P!ModTracks(w, ok, h) = PW!ModTracks(w, ok, h)
  BY <1>2, <1>6 DEF P!untrack_workshop_item, P!Unreferenced, P!IfInstalled, P!NotCollection,
    P!ModTracks, PW!untrack_workshop_item, PW!Unreferenced, PW!IfInstalled, PW!NotCollection,
    PW!ModTracks
<1>8. /\ \A id, w, ok : P!download(id, w, ok) = PW!download(id, w, ok)
      /\ \A m, w, ok : P!ModUntracks(m, w, ok) = PW!ModUntracks(m, w, ok)
  BY <1>7 DEF P!download, P!NotCollection, P!ModUntracks, PW!download, PW!NotCollection,
    PW!ModUntracks
<1>9. /\ \A id, w, ok, h : P!refresh(id, w, ok, h) = PW!refresh(id, w, ok, h)
      /\ \A id, w, ok : P!FirstDownload(id, w, ok) = PW!FirstDownload(id, w, ok)
  BY <1>3, <1>4, <1>8 DEF P!refresh, P!FirstDownload, PW!refresh, PW!FirstDownload
<1>10. \A id, ok : P!Downloaded(id, ok) = PW!Downloaded(id, ok)
  <2> TAKE id, ok
  <2> DEFINE w == [PW!World(id) EXCEPT !.downloads = @ \ {id}, !.it.state = @ \ {"download_active"}]
             v == [w EXCEPT !.it.state = @ \cup {"downloaded"}]
             After(known, result) ==
               IF {"result", "info_download"} \subseteq ok /\ w.live /\ known THEN result ELSE w
  <2>1. P!World(id) = PW!World(id) /\ \A it : P!NotCollection(it) <=> PW!NotCollection(it)
    BY DEF P!World, PW!World, P!NotCollection, PW!NotCollection
  <2>2. P!Downloaded(id, ok) = After(P!NotCollection(w.it), P!IfInstalled(id, v, ok))
    BY ONLY <2>1 DEF P!Downloaded
  <2>3. PW!Downloaded(id, ok) = After(PW!NotCollection(w.it), PW!IfInstalled(id, v, ok))
    BY ONLY TRUE DEF PW!Downloaded
  <2> HIDE DEF w, v
  <2> QED
    BY <1>7, <2>1, <2>2, <2>3
<1>11. /\ P!LoggedOn => PW!LoggedOn
       /\ P!LoggedOff => PW!LoggedOff
       /\ P!UnloadMods => PW!UnloadMods
       /\ P!Clear => PW!Clear
       /\ P!Refresh => PW!Refresh
       /\ \A map : P!ChangeMap(map) => PW!ChangeMap(map)
  BY <1>1, <1>2 DEF P!LoggedOn, P!steam, P!disk, P!Idle, P!LoggedOff, P!World, P!UnloadMods,
    P!Begin, P!Present, P!Clear, P!Refresh, P!ChangeMap, PW!LoggedOn, PW!steam, PW!disk,
    PW!Idle, PW!LoggedOff, PW!World, PW!UnloadMods, PW!Begin, PW!Present, PW!Clear, PW!Refresh,
    PW!ChangeMap
<1>12. /\ \A id : P!Track(id) => PW!Track(id)
       /\ \A id : P!Untrack(id) => PW!Untrack(id)
       /\ \A id : P!ClearOne(id) => PW!ClearOne(id)
       /\ \A id : P!RefreshOne(id) => PW!RefreshOne(id)
  BY <1>1, <1>2, <1>6, <1>7, <1>9 DEF P!Track, P!World, P!Asking, P!Idle, P!Untrack,
    P!Releasing, P!ClearOne, P!RefreshOne, P!Installing, PW!Track, PW!World, PW!Asking, PW!Idle,
    PW!Untrack, PW!Releasing, PW!ClearOne, PW!RefreshOne, PW!Installing
<1>13. /\ \A id : P!ResolveOther(id) => PW!ResolveOther(id)
       /\ \A id : P!DownloadResult(id) => PW!DownloadResult(id)
       /\ \A id : P!ItemInstalled(id) => PW!ItemInstalled(id)
  BY <1>1, <1>2, <1>6, <1>7, <1>10 DEF P!ResolveOther, P!World, P!Releasing, P!Pending, P!Idle,
    P!DownloadResult, P!ItemInstalled, PW!ResolveOther, PW!World, PW!Releasing, PW!Pending,
    PW!Idle, PW!DownloadResult, PW!ItemInstalled
<1>14. \A id : P!ResolveCollection(id) => PW!ResolveCollection(id)
  <2> SUFFICES ASSUME NEW id, P!ResolveCollection(id) PROVE PW!ResolveCollection(id)
    OBVIOUS
  <2> DEFINE
        new == PackChildren[id] \ (workshop_items \ {id})
        Items(new2, sent, w, h) == [i \in PackIds |->
          IF i \in new2
          THEN P!query_details([w EXCEPT !.it = P!NewItem],
                               IF i \in sent THEN {"send"} ELSE {}, h[i]).it
          ELSE IF i = id THEN P!NewItem ELSE item[i]]
        Items2(new2, sent, w, h) == [i \in PackIds |->
          IF i \in new2
          THEN PW!query_details([w EXCEPT !.it = PW!NewItem],
                               IF i \in sent THEN {"send"} ELSE {}, h[i]).it
          ELSE IF i = id THEN PW!NewItem ELSE item[i]]
        Changes(w, holders, h, sent, items) ==
          /\ \A c, d \in new : h[c] = h[d] => c = d \/ h[c] = None
          /\ "create" \notin {"create", "details", "unvpk", "DownloadItem"} =>
               \A c \in new : h[c] # None
          /\ "send" \notin {"create", "details", "unvpk", "DownloadItem"} =>
               \A c \in new : h[c] # None => c \in sent
          /\ workshop_items' = (workshop_items \ {id}) \cup new
          /\ item' = items
          /\ queries' = w.queries \cup ({h[c] : c \in new} \ {None})
          /\ links' = w.links /\ maps_dir' = w.maps_dir /\ vpks' = w.vpks
          /\ robbed' = IF holders # {} THEN robbed \cup {id} ELSE robbed
        Resolved(w, holders) == \E h \in [new -> (Handles \ w.queries) \cup {None}] :
          \E sent \in SUBSET {c \in new : h[c] # None} :
            Changes(w, holders, h, sent, Items(new, sent, w, h))
        Resolved2(w, holders) == \E h \in [new -> (Handles \ w.queries) \cup {None}] :
          \E sent \in SUBSET {c \in new : h[c] # None} :
            Changes(w, holders, h, sent, Items2(new, sent, w, h))
        Guard == PackKind[id] = "collection" /\ "details_queried" \notin item[id].state
        Rest == UNCHANGED <<workshop_initalized, mods, mapname, command, left, downloads,
                            installed>>
  <2>1. P!Pending(id) /\ Guard /\ Rest
        /\ \E ok \in P!Luck(P!Releasing) :
             Resolved(P!Destroyed(id, P!Answered(P!World(id)), ok), P!Holders(id))
    BY ONLY P!ResolveCollection(id) DEF P!ResolveCollection
  <2>2. PW!Pending(id) /\ Guard /\ Rest
        /\ (\E ok \in PW!Luck(PW!Releasing) :
              Resolved2(PW!Destroyed(id, PW!Answered(PW!World(id)), ok), PW!Holders(id)))
        => PW!ResolveCollection(id)
    BY ONLY TRUE DEF PW!ResolveCollection
  <2>3. /\ P!World(id) = PW!World(id) /\ P!Releasing = PW!Releasing
        /\ P!Holders(id) = PW!Holders(id)
        /\ P!Pending(id) => PW!Pending(id)
    BY DEF P!World, PW!World, P!Releasing, PW!Releasing, P!Holders, PW!Holders,
           P!Pending, PW!Pending, P!Idle, PW!Idle
  <2>4. \A ok :
          P!Destroyed(id, P!Answered(P!World(id)), ok)
            = PW!Destroyed(id, PW!Answered(PW!World(id)), ok)
    BY <2>3, <1>2, <1>6
  <2>5. \A new2, sent, w, h : Items(new2, sent, w, h) = Items2(new2, sent, w, h)
    BY <1>2, <1>3
  <2> HIDE DEF Items, Items2, Changes, Guard, Rest
  <2>6. \A w, holders : Resolved(w, holders) => Resolved2(w, holders)
    BY <2>5
  <2> HIDE DEF Resolved, Resolved2
  <2> QED
    BY <1>1, <2>1, <2>2, <2>3, <2>4, <2>6
<1>15. \A id : P!on_details_queried(id) => PW!on_details_queried(id)
  <2> SUFFICES ASSUME NEW id, P!on_details_queried(id) PROVE PW!on_details_queried(id)
    OBVIOUS
  <2> DEFINE
        Told(ok, name) ==
          \E w \in {P!QueryReleased(
                    P!Metadata(P!Details(id, P!Answered(P!World(id)), ok), ok, name))} :
          \E v \in {P!FirstDownload(id, w, ok)}: P!Commit(id, P!IfInstalled(id, v, ok))
        Told2(ok, name) ==
          \E w \in {PW!QueryReleased(
                    PW!Metadata(PW!Details(id, PW!Answered(PW!World(id)), ok), ok, name))} :
          \E v \in {PW!FirstDownload(id, w, ok)}: PW!Commit(id, PW!IfInstalled(id, v, ok))
        Within(luck, Tell(_, _)) ==
          \E ok \in luck,
             name \in PackNames[id] \cup (IF PackNames[id] = {} THEN {NoName} ELSE {}) :
            /\ {"result", "details"} \subseteq ok => PackKind[id] # "other"
            /\ {"result", "details", "children"} \subseteq ok => PackKind[id] # "collection"
            /\ Tell(ok, name)
        Rest == UNCHANGED <<workshop_initalized, mods, mapname, command, left, installed>>
        Calls(installing) == {"result", "details", "children", "metadata"} \cup installing
  <2>1. /\ P!World(id) = PW!World(id) /\ P!Installing = PW!Installing
        /\ P!Pending(id) => PW!Pending(id)
    BY DEF P!World, PW!World, P!Installing, PW!Installing, P!Pending, PW!Pending, P!Idle, PW!Idle
  <2>2. \A ok, name :
          P!QueryReleased(P!Metadata(P!Details(id, P!Answered(P!World(id)), ok), ok, name))
            = PW!QueryReleased(PW!Metadata(PW!Details(id, PW!Answered(PW!World(id)), ok), ok, name))
    BY <2>1, <1>2
  <2>3. \A v, ok :
          P!Commit(id, P!IfInstalled(id, v, ok)) <=> PW!Commit(id, PW!IfInstalled(id, v, ok))
    BY <1>1, <1>7
  <2>4. \A ok, name : Told(ok, name) <=> Told2(ok, name)
    BY <2>2, <2>3, <1>9
  <2>5. P!Pending(id) /\ Rest /\ Within(P!Luck(Calls(P!Installing)), Told)
    BY ONLY P!on_details_queried(id) DEF P!on_details_queried
  <2>6. PW!Pending(id) /\ Rest /\ Within(PW!Luck(Calls(PW!Installing)), Told2)
          => PW!on_details_queried(id)
    BY ONLY TRUE DEF PW!on_details_queried
  <2> HIDE DEF Told, Told2, Rest
  <2> QED
    BY <1>1, <2>1, <2>4, <2>5, <2>6
<1>16. \A id : P!ItemStep(id) => PW!ItemStep(id)
  BY <1>12, <1>13, <1>14, <1>15 DEF P!ItemStep, PW!ItemStep
<1>17. /\ \A m : P!ModInit(m) => PW!ModInit(m)
       /\ \A m : P!ModReload(m) => PW!ModReload(m)
       /\ \A m : P!ModDestroy(m) => PW!ModDestroy(m)
       /\ \A m : P!UnloadOne(m) => PW!UnloadOne(m)
       /\ \A m : P!DestroyOne(m) => PW!DestroyOne(m)
  BY <1>1, <1>7, <1>8 DEF P!ModInit, P!World, P!Asking, P!Idle, P!AfterInit, P!ModReload,
    P!Releasing, P!ModDestroy, P!UnloadOne, P!DestroyOne, PW!ModInit, PW!World, PW!Asking,
    PW!Idle, PW!AfterInit, PW!ModReload, PW!Releasing, PW!ModDestroy, PW!UnloadOne,
    PW!DestroyOne
<1>18. \A m : P!ModStep(m) => PW!ModStep(m)
  BY <1>17 DEF P!ModStep, PW!ModStep
<1>19. P!Next => PW!Next
  BY <1>11, <1>16, <1>18 DEF P!Next, PW!Next
<1>20. P!Init => PW!Init
  BY <1>2 DEF P!Init, PW!Init
<1> QED
  BY <1>20, <1>19

-----------------------------------------------------------------------------
(* The invariant of the whole *)

\* The inductive invariant: that of the workshop that this behaviour is of.
PartsInv ==
  /\ part = "refs"  => IInv
  /\ part = "links" => LW!LInv
  /\ part = "pack"  => PW!IInv /\ PW!LInv

\* At first.
LEMMA PartsInitInv == PartsInit => PartsInv
<1>1. Init => IInv
  BY InitAgrees, InitExact DEF IInv
<1>2. L!Init => LW!LInv
  BY LinksSame, LinksConstants, LW!InitAgrees, LW!InitExact, LW!InitShapes DEF LW!LInv
<1>3. P!Init => PW!IInv /\ PW!LInv
  BY PackSame, PackConstants, PW!InitAgrees, PW!InitExact, PW!InitShapes DEF PW!IInv, PW!LInv
<1> QED
  BY <1>1, <1>2, <1>3 DEF PartsInit, PartsInv

\* A step of the whole is one of the workshop it is of, as WorkshopProofs knows it.
PartsStep ==
  /\ part' = part
  /\ part = "refs" => [Next]_vars
  /\ part = "links" => [LW!Next]_LW!vars
  /\ part = "pack" => [PW!Next]_PW!vars
LEMMA PartsSteps == [PartsNext]_<<part, vars>> => PartsStep
<1> SUFFICES ASSUME [PartsNext]_<<part, vars>> PROVE PartsStep
  OBVIOUS
<1>1. LW!vars = vars /\ PW!vars = vars /\ LW!vars' = vars' /\ PW!vars' = vars'
  BY DEF vars, disk, steam, LW!vars, LW!disk, LW!steam, PW!vars, PW!disk, PW!steam
<1>2. CASE UNCHANGED <<part, vars>>
  BY <1>1, <1>2 DEF PartsStep
<1>3. CASE PartsNext
  BY <1>3, LinksSame, PackSame DEF PartsNext, PartsStep
<1> QED
  BY <1>2, <1>3

\* Every step keeps it.
LEMMA PartsStepInv == PartsInv /\ [PartsNext]_<<part, vars>> => PartsInv'
<1> SUFFICES ASSUME PartsInv, PartsStep PROVE PartsInv'
  BY PartsSteps
<1>1. CASE part = "refs"
  <2>1. IInv /\ [Next]_vars /\ part' = "refs"
    BY <1>1 DEF PartsInv, PartsStep
  <2>2. WInv' /\ UnloadPhases' /\ RefsExact' /\ FewHold'
    BY <2>1, StepAgrees, StepPhases, StepExact DEF IInv
  <2> QED
    BY <2>1, <2>2 DEF PartsInv, IInv
<1>2. CASE part = "links"
  <2>1. LW!LInv /\ [LW!Next]_LW!vars /\ part' = "links"
    BY <1>2 DEF PartsInv, PartsStep
  <2>2. LW!WInv' /\ LW!UnloadPhases' /\ LW!Shapes'
    BY <2>1, LinksConstants, LW!StepAgrees, LW!StepPhases, LW!StepShapes DEF LW!LInv
  <2> QED
    BY <2>1, <2>2 DEF PartsInv, LW!LInv
<1>3. CASE part = "pack"
  <2>1. PW!IInv /\ PW!LInv /\ [PW!Next]_PW!vars /\ part' = "pack"
    BY <1>3 DEF PartsInv, PartsStep
  <2>2. PW!WInv' /\ PW!UnloadPhases' /\ PW!Shapes'
    BY <2>1, PackConstants, PW!StepAgrees, PW!StepPhases, PW!StepShapes DEF PW!LInv
  <2>3. PW!RefsExact' /\ PW!FewHold'
    BY <2>1, PackConstants, PW!StepExact
  <2> QED
    BY <2>1, <2>2, <2>3 DEF PartsInv, PW!IInv, PW!LInv
<1> QED
  BY <1>1, <1>2, <1>3 DEF PartsInv, PartsStep

\* The invariant holds in every state of the run.
LEMMA PartsInvariance == PartsSpec => []PartsInv
BY PartsInitInv, PartsStepInv, PTL DEF PartsSpec

-----------------------------------------------------------------------------
(* The properties of the run *)

\* main::workshop_item_t: what the workshop knows of itself and what Steam knows of
\* it agree, in each of the three workshops that are checked.
THEOREM PartsAgreeHolds == PartsSpec => []PartsAgree
<1>1. LW!AgreesWithSteam => L!AgreesWithSteam
  BY DEF LW!AgreesWithSteam, LW!TypeOK, LW!QueriesOwned, LW!ActiveMeansPending,
         LW!Item, LW!NewItem, LW!Dsts, LW!Flags,
         L!AgreesWithSteam, L!TypeOK, L!QueriesOwned, L!ActiveMeansPending,
         L!Item, L!NewItem, L!Dsts, L!Flags
<1>2. PW!AgreesWithSteam => P!AgreesWithSteam
  BY DEF PW!AgreesWithSteam, PW!TypeOK, PW!QueriesOwned, PW!ActiveMeansPending,
         PW!Item, PW!NewItem, PW!Dsts, PW!Flags,
         P!AgreesWithSteam, P!TypeOK, P!QueriesOwned, P!ActiveMeansPending,
         P!Item, P!NewItem, P!Dsts, P!Flags
<1>3. PartsInv => PartsAgree
  BY <1>1, <1>2 DEF PartsInv, PartsAgree, IInv, WInv, LW!LInv, LW!WInv, PW!LInv, PW!WInv
<1> QED
  BY <1>3, PartsInvariance, PTL

\* mod::unload and main::workshop_item_t::refs: the references of mods are exact in
\* the two workshops that have mods.
THEOREM PartsRefs == PartsSpec => []PartsRefsExact
<1>1. PW!RefsExact => P!RefsExact
  <2>1. \A id : PW!Holders(id) = P!Holders(id)
    BY DEF PW!Holders, P!Holders
  <2>2. \A S : PW!Cardinality(S) = P!Cardinality(S)
    BY DEF PW!Cardinality, P!Cardinality
  <2> QED
    BY <2>1, <2>2 DEF PW!RefsExact, P!RefsExact
<1>2. PartsInv => PartsRefsExact
  BY <1>1 DEF PartsInv, PartsRefsExact, IInv, PW!IInv
<1> QED
  BY <1>2, PartsInvariance, PTL

\* workshop_item_t::mount and unmount: an item is flagged as mounted without being so
\* only for the reasons that Workshop lists, with two maps that compete for a path
\* and with a package.
THEOREM PartsUnbacked == PartsSpec => PartsUnbackedOnlyBy
<1>1. LW!UnbackedStep => L!UnbackedStep
  BY DEF LW!UnbackedStep, L!UnbackedStep, LW!Flagged, L!Flagged, LW!Backed, L!Backed
<1>2. PW!UnbackedStep => P!UnbackedStep
  BY DEF PW!UnbackedStep, P!UnbackedStep, PW!Flagged, P!Flagged, PW!Backed, P!Backed
<1>3. PartsInv /\ PartsStep /\ part = "links" => L!UnbackedStep
  BY <1>1, LinksConstants, LW!StepUnbacked DEF PartsInv, PartsStep
<1>4. PartsInv /\ PartsStep /\ part = "pack" => P!UnbackedStep
  BY <1>2, PackConstants, PW!StepUnbacked DEF PartsInv, PartsStep
<1>5. PartsInv /\ [PartsNext]_<<part, vars>> =>
        [/\ part = "links" => L!UnbackedStep
         /\ part = "pack"  => P!UnbackedStep]_<<part, vars>>
  BY <1>3, <1>4, PartsSteps
<1> QED
  BY <1>5, PartsInvariance, PTL DEF PartsSpec, PartsUnbackedOnlyBy

\* workshop_item_t::refresh: the map that is played keeps its link, with two maps
\* that may have one name.
THEOREM PartsKeepPlayed == PartsSpec => PartsKeepPlayedMap
<1>1. LW!RefreshStep => L!RefreshStep
  BY DEF LW!RefreshStep, L!RefreshStep, LW!Flagged, L!Flagged
<1>2. PartsInv /\ PartsStep /\ part = "links" => L!RefreshStep
  BY <1>1, LinksConstants, LW!StepRefresh DEF PartsInv, PartsStep
<1>3. PartsInv /\ [PartsNext]_<<part, vars>> => [part = "links" => L!RefreshStep]_<<part, vars>>
  BY <1>2, PartsSteps
<1> QED
  BY <1>3, PartsInvariance, PTL DEF PartsSpec, PartsKeepPlayedMap

=============================================================================
