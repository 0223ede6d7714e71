------------------------------ MODULE Workshop ------------------------------
(***************************************************************************)
(* The workshop items of vmod::main.  An item is in workshop_items as long *)
(* as the console (vmod_workshop_track) or a mod (its workshop.txt) refers *)
(* to it.  Steam is asked for its details, then for its files, and what    *)
(* Steam installs is linked into the game's directories.  Everything runs  *)
(* on the game thread, but Steam answers later: between a request and its  *)
(* answer the item may be refreshed, dropped, tracked again or become      *)
(* another kind of item, and the logon may be lost.                        *)
(*                                                                         *)
(* A handler is one action.  Its calls change a "world" - the item, the    *)
(* query handles of Steam, the links and the mounted packages - in the     *)
(* order of the code, and the set ok names the outside calls that succeed. *)
(***************************************************************************)
EXTENDS Naturals, FiniteSets

CONSTANTS Ids,           \* published file ids
          Handles,       \* query handles Steam hands out
          None,          \* k_UGCQueryHandleInvalid, and "no owner" of a link
          Names, NoName, \* map file names, and the empty string
          Mods,          \* mod directories
          WorkshopFile,  \* WorkshopFile[m]: the id in workshop.txt of m
          Kind,          \* Kind[id]: what Steam knows the id to be
          Children,      \* Children[id]: the items of a collection
          MapNames,      \* MapNames[id]: the metadata its author may give it
          Maps,          \* maps the server plays: file names and engine paths
          Failing        \* outside calls that may fail

Kinds == {"vpk", "map", "other_app", "collection", "other"}

ASSUME ConstAssumption ==
  /\ None \notin Handles /\ None \notin Ids /\ NoName \notin Names
  /\ Ids \cap Names = {} /\ NoName \notin Ids /\ Ids \cap Mods = {}
  /\ WorkshopFile \in [Mods -> Ids]
  /\ Kind \in [Ids -> Kinds]
  /\ Children \in [Ids -> SUBSET Ids]
  /\ MapNames \in [Ids -> SUBSET Names]
  /\ Maps \subseteq Names \cup (Names \X Ids)

VARIABLES
  workshop_initalized,
  workshop_items,    \* ids in the map
  item,              \* item[id]: its workshop_item_t, NewItem when there is none
  mods,              \* mods[m]: no object, its id refused, held, or untracked once
  links,             \* links[d]: the item whose files the path d links to
  maps_dir,          \* workshop_assets/maps exists
  vpks,              \* items whose package the engine has mounted
  mapname,           \* sv_globals->mapname
  command, left,     \* the command that is walking a map, and what it has left
  \* Steam:
  queries,           \* query handles not yet released
  downloads,         \* ids being downloaded
  installed,         \* ids in state k_EItemStateInstalled
  \* history, read by the properties only:
  robbed             \* items that were removed while a mod held them

steam == <<queries, downloads, installed>>
disk  == <<links, maps_dir, vpks>>
vars  == <<workshop_initalized, workshop_items, item, mods, disk, mapname,
           command, left, steam, robbed>>

Flags == {"initialized", "details_queried", "metadata_queried",
          "details_query_active", "downloaded", "download_active",
          "installed", "mounted"}
Dsts  == Ids \cup Names \cup {NoName}   \* link paths: of a package, of a map

\* A new workshop_item_t.  dst is mount_info; the engine path of a map is the
\* pair of its dst and its id.
NewItem == [state |-> {}, app |-> "unknown", itemtype |-> "unknown",
            mounttype |-> "unknown", metadata |-> NoName, dst |-> NoName,
            handle |-> None, call |-> None, user |-> FALSE, mods |-> 0]

Init ==
  /\ workshop_initalized = FALSE
  /\ workshop_items = {}
  /\ item = [id \in Ids |-> NewItem]
  /\ mods = [m \in Mods |-> "absent"]
  /\ links = [d \in Ids \cup Names |-> None]
  /\ maps_dir = TRUE
  /\ vpks = {}
  /\ mapname = NoName
  /\ command = "none" /\ left = {}
  /\ queries = {} /\ downloads = {} /\ installed = {}
  /\ robbed = {}

\* Which of the outside calls succeed.
Luck(calls) == {calls \ failed : failed \in SUBSET (calls \cap Failing)}

\* What a handler of item id works on, and how it ends.
World(id) == [live |-> id \in workshop_items, it |-> item[id], queries |-> queries,
              links |-> links, maps_dir |-> maps_dir, vpks |-> vpks,
              downloads |-> downloads]

Holders(id) == {m \in Mods : mods[m] = "held" /\ WorkshopFile[m] = id}

\* How the handler ends (\E over one value has TLC compute that value once).
Commit(id, world) == \E w \in {world} :
  /\ workshop_items' = IF w.live THEN workshop_items \cup {id} ELSE workshop_items \ {id}
  /\ item' = [item EXCEPT ![id] = w.it]
  /\ queries' = w.queries
  /\ links' = w.links /\ maps_dir' = w.maps_dir /\ vpks' = w.vpks
  /\ downloads' = w.downloads
  /\ robbed' = IF id \in workshop_items /\ ~w.live /\ Holders(id)' # {} THEN robbed \cup {id} ELSE robbed

-----------------------------------------------------------------------------
(* The operations of an item *)

MutantCancelLeaks(w) ==
  [w EXCEPT !.queries = IF "details_query_active" \in w.it.state THEN @ \ {w.it.handle} ELSE @,
            !.it.handle = None, !.it.call = None,
            !.it.state = @ \ {"details_query_active", "download_active"}]
cancel(w) ==
  [w EXCEPT !.queries = @ \ {w.it.handle}, !.it.handle = None, !.it.call = None,
            !.it.state = @ \ {"details_query_active", "download_active"}]

\* CreateQueryUGCDetailsRequest: a fresh handle, or the invalid one.
NewHandles(w, ok) == IF "create" \in ok THEN Handles \ w.queries ELSE {None}

Queried(it) == {"details_queried", "metadata_queried"} \subseteq it.state

\* The old request is released and a new one, h, sent; a request that cannot
\* be sent keeps its handle.
query_details(w, ok, h) ==
  IF Queried(w.it) \/ "details_query_active" \in w.it.state THEN w
  ELSE LET sent == h # None /\ "send" \in ok IN
    [w EXCEPT !.queries = (@ \ {w.it.handle}) \cup ({h} \ {None}),
              !.it.handle = h,
              !.it.call = IF sent THEN h ELSE None,
              !.it.state = IF sent THEN @ \cup {"details_query_active"} ELSE @]

Exists(w, d) == IF d = NoName THEN w.maps_dir ELSE w.links[d] # None

\* create_symlink: into maps for a map, beside it for a package.
CanLink(w, ok) ==
  /\ "symlink" \in ok
  /\ w.it.mounttype = "map" => w.maps_dir /\ w.it.dst # NoName

Linked(id, w) == IF Exists(w, w.it.dst) THEN w ELSE [w EXCEPT !.links[w.it.dst] = id]

MutantMount(id, w, ok) ==
  IF "mounted" \in w.it.state \/ w.it.mounttype = "unknown" THEN w
  ELSE LET there == Exists(w, w.it.dst) \/ CanLink(w, ok)
           linked == IF there THEN Linked(id, w) ELSE w IN
    [linked EXCEPT !.it.state = @ \cup {"mounted"},
                   !.vpks = IF w.it.mounttype = "vpk" THEN @ \cup {id} ELSE @]
mount(id, w, ok) ==
  IF \/ "mounted" \in w.it.state \/ w.it.mounttype = "unknown"
     \/ ~Exists(w, w.it.dst) /\ ~CanLink(w, ok)
  THEN w
  ELSE [Linked(id, w) EXCEPT !.it.state = @ \cup {"mounted"},
                             !.vpks = IF w.it.mounttype = "vpk" THEN @ \cup {id} ELSE @]

\* strcmp of the current map with the engine path and with the metadata
MutantInUse(id, it) == mapname = it.metadata
InUse(id, it) == mapname \in {it.metadata, <<it.dst, id>>}

\* std::filesystem::remove; a directory must be empty.
Removable(w, ok) == "remove" \in ok /\ (w.it.dst = NoName => \A n \in Names : w.links[n] = None)
Unlinked(w) ==
  IF w.it.dst = NoName THEN [w EXCEPT !.maps_dir = FALSE]
  ELSE [w EXCEPT !.links[w.it.dst] = None]

unmount(id, w, force, ok) ==
  IF \/ "mounted" \notin w.it.state
     \/ w.it.mounttype = "map" /\ ~force /\ InUse(id, w.it)
  THEN w
  ELSE LET v == IF w.it.mounttype = "vpk" THEN [w EXCEPT !.vpks = @ \ {id}] ELSE w
           unmounted(u) == [u EXCEPT !.it.state = @ \ {"mounted"}]
       IN CASE w.it.mounttype = "vpk" /\ "unvpk" \notin ok -> v
            [] OTHER -> IF ~Exists(v, v.it.dst) THEN unmounted(v)
                        ELSE IF Removable(v, ok) THEN unmounted(Unlinked(v))
                        ELSE v

\* The mount type and the link path follow from the app, the map's from its
\* metadata too.
on_installed(id, w, ok) ==
  mount(id,
        IF \/ "installed" \in w.it.state \/ "info" \notin ok
           \/ w.it.app \notin {"vpk", "map"}
        THEN w
        ELSE [w EXCEPT !.it.state = @ \cup {"installed"},
                       !.it.mounttype = w.it.app,
                       !.it.dst = IF w.it.app = "vpk" THEN id ELSE w.it.metadata],
        ok)

\* The guard with which a collection is left alone.
NotCollection(it) == it.itemtype # "collection"

\* Steam has the files of an item that is not a collection: mount them.
IfInstalled(id, w, ok) ==
  IF NotCollection(w.it) /\ id \in installed' THEN on_installed(id, w, ok) ELSE w

download(id, w, ok) ==
  IF "downloaded" \in w.it.state THEN IfInstalled(id, w, ok)
  ELSE IF \/ "download_active" \in w.it.state \/ ~NotCollection(w.it)
          \/ "DownloadItem" \notin ok
  THEN w
  ELSE [w EXCEPT !.it.state = @ \cup {"download_active"}, !.downloads = @ \cup {id}]

refresh(id, w, ok, h) ==
  download(id,
    query_details(
      [unmount(id, w, FALSE, ok) EXCEPT !.it.state =
         @ \ {"details_queried", "metadata_queried", "downloaded", "installed"}],
      ok, h),
    ok)

\* ~workshop_item_t, which ends by forgetting the item
Destroyed(id, w, ok) ==
  [unmount(id, cancel(w), TRUE, ok) EXCEPT !.live = FALSE, !.it = NewItem]

\* main::workshop_item_t::refs: at most one reference of the user, one for
\* every time a mod asked.
MutantAddRef(w, user) ==
  IF user THEN [w EXCEPT !.it.user = TRUE] ELSE [w EXCEPT !.it.mods = 1]
AddRef(w, user) ==
  IF user THEN [w EXCEPT !.it.user = TRUE] ELSE [w EXCEPT !.it.mods = @ + 1]

DropRef(w, user) ==
  IF user THEN [w EXCEPT !.it.user = FALSE]
  ELSE [w EXCEPT !.it.mods = IF @ > 0 THEN @ - 1 ELSE @]

track_workshop_item(w, user, ok, h) ==
  AddRef(IF w.live THEN w ELSE [query_details(w, ok, h) EXCEPT !.live = TRUE], user)

Unreferenced(it) == ~it.user /\ it.mods = 0

untrack_workshop_item(id, w, user, ok) ==
  IF ~w.live THEN w
  ELSE LET dropped == DropRef(w, user) IN
       IF Unreferenced(dropped.it) THEN Destroyed(id, dropped, ok) ELSE dropped

Releasing == {"remove", "unvpk"}
Installing == {"DownloadItem", "info", "symlink"}
Asking == {"create", "send"}

-----------------------------------------------------------------------------
(* Commands, mods and the logon *)

Idle == command = "none"

LoggedOn ==
  /\ Idle /\ ~workshop_initalized
  /\ \E ok \in Luck({"init"}) : workshop_initalized' = ("init" \in ok)
  /\ UNCHANGED <<workshop_items, item, mods, disk, mapname, command, left, steam, robbed>>

\* logged_off, logon_failed: every item is cancelled.
LoggedOff ==
  /\ Idle /\ workshop_initalized
  /\ workshop_initalized' = FALSE
  /\ item' = [id \in Ids |-> cancel(World(id)).it]
  /\ queries' = queries \ {item[id].handle : id \in workshop_items}
  /\ UNCHANGED <<workshop_items, mods, disk, mapname, command, left, downloads,
                 installed, robbed>>

\* vmod_workshop_track
Track(id) ==
  /\ Idle /\ workshop_initalized
  /\ UNCHANGED <<workshop_initalized, mods, mapname, command, left, installed>>
  /\ \E ok \in Luck(Asking) : \E h \in NewHandles(World(id), ok) :
       Commit(id, track_workshop_item(World(id), TRUE, ok, h))

\* vmod_workshop_untrack
Untrack(id) ==
  /\ Idle
  /\ UNCHANGED <<workshop_initalized, mods, mapname, command, left, installed>>
  /\ \E ok \in Luck(Releasing) :
       Commit(id, untrack_workshop_item(id, World(id), TRUE, ok))

\* mod::init reads workshop.txt and keeps the id if it could be tracked.
ModTracks(w, ok, h) ==
  IF workshop_initalized THEN track_workshop_item(w, FALSE, ok, h) ELSE w
AfterInit == IF workshop_initalized THEN "held" ELSE "refused"

ModInit(m) ==
  /\ Idle /\ mods[m] = "absent"
  /\ mods' = [mods EXCEPT ![m] = AfterInit]
  /\ UNCHANGED <<workshop_initalized, mapname, command, left, installed>>
  /\ LET id == WorkshopFile[m] IN
     \E ok \in Luck(Asking) : \E h \in NewHandles(World(id), ok) :
       Commit(id, ModTracks(World(id), ok, h))

\* mod::unload untracks what the vector names; only reload clears the vector.
ModUntracks(m, w, ok) ==
  IF mods[m] = "refused" THEN w ELSE untrack_workshop_item(WorkshopFile[m], w, FALSE, ok)

\* mod::reload
ModReload(m) ==
  /\ Idle /\ mods[m] # "absent"
  /\ mods' = [mods EXCEPT ![m] = AfterInit]
  /\ UNCHANGED <<workshop_initalized, mapname, command, left, installed>>
  /\ LET id == WorkshopFile[m] IN
     \E ok \in Luck(Releasing \cup Asking) :
     LET w == ModUntracks(m, World(id), ok) IN
     \E h \in NewHandles(w, ok) : Commit(id, ModTracks(w, ok, h))

\* ~mod, in vmod_unload_mod or because the mod turned out to be disabled
ModDestroy(m) ==
  /\ Idle /\ mods[m] # "absent"
  /\ mods' = [mods EXCEPT ![m] = "absent"]
  /\ UNCHANGED <<workshop_initalized, mapname, command, left, installed>>
  /\ \E ok \in Luck(Releasing) :
       Commit(WorkshopFile[m], ModUntracks(m, World(WorkshopFile[m]), ok))

\* A command that walks workshop_items or mods takes one step per element;
\* nothing else runs meanwhile.
Begin(what, whom) ==
  /\ Idle /\ whom # {}
  /\ command' = what /\ left' = whom
  /\ UNCHANGED <<workshop_initalized, workshop_items, item, mods, disk, mapname, steam, robbed>>

Present == {m \in Mods : mods[m] # "absent"}

Visit(what, x) ==
  /\ command = what /\ x \in left
  /\ left' = IF left = {x} /\ what = "unload" THEN Present ELSE left \ {x}
  /\ command' = IF left # {x} THEN what ELSE IF what = "unload" THEN "destroy" ELSE "none"

\* vmod_unload_mods unloads every mod and then destroys them all, which
\* unloads them again.
UnloadMods == Begin("unload", Present)

UnloadOne(m) ==
  /\ Visit("unload", m)
  /\ mods' = [mods EXCEPT ![m] = IF @ = "held" THEN "dropped" ELSE @]
  /\ UNCHANGED <<workshop_initalized, mapname, installed>>
  /\ \E ok \in Luck(Releasing) :
       Commit(WorkshopFile[m], ModUntracks(m, World(WorkshopFile[m]), ok))

DestroyOne(m) ==
  /\ Visit("destroy", m)
  /\ mods' = [mods EXCEPT ![m] = "absent"]
  /\ UNCHANGED <<workshop_initalized, mapname, installed>>
  /\ \E ok \in Luck(Releasing) :
       Commit(WorkshopFile[m], ModUntracks(m, World(WorkshopFile[m]), ok))

\* vmod_workshop_clear
Clear == Begin("clear", workshop_items)

ClearOne(id) ==
  /\ Visit("clear", id)
  /\ UNCHANGED <<workshop_initalized, mods, mapname, installed>>
  /\ \E ok \in Luck(Releasing) : Commit(id, Destroyed(id, World(id), ok))

\* vmod_workshop_refresh
Refresh == workshop_initalized /\ Begin("refresh", workshop_items)

RefreshOne(id) ==
  /\ Visit("refresh", id)
  /\ UNCHANGED <<workshop_initalized, mods, mapname, installed>>
  /\ LET w == cancel(World(id)) IN
     \E ok \in Luck(Releasing \cup Asking \cup Installing) : \E h \in NewHandles(w, ok) : Commit(id, refresh(id, w, ok, h))

-----------------------------------------------------------------------------
(* Steam and the engine *)

\* on_details_queried, up to the point where the item may turn out to be a
\* collection with its children or no item at all: the pending call is over,
\* the handle is not yet released.
Answered(w) == [w EXCEPT !.it.state = @ \ {"details_query_active"}, !.it.call = None]
Pending(id) == Idle /\ item[id].call # None

\* A collection is replaced by its children, which nobody refers to.
ResolveCollection(id) ==
  /\ Pending(id) /\ Kind[id] = "collection" /\ "details_queried" \notin item[id].state
  /\ UNCHANGED <<workshop_initalized, mods, mapname, command, left, downloads, installed>>
  /\ \E ok \in Luck(Releasing) :
     LET w   == Destroyed(id, Answered(World(id)), ok)
         new == Children[id] \ (workshop_items \ {id})
     IN \E h \in [new -> (Handles \ w.queries) \cup {None}] :
        \E sent \in SUBSET {c \in new : h[c] # None} :
          /\ \A c, d \in new : h[c] = h[d] => c = d \/ h[c] = None
          /\ "create" \notin Failing => \A c \in new : h[c] # None
          /\ "send" \notin Failing => \A c \in new : h[c] # None => c \in sent
          /\ workshop_items' = (workshop_items \ {id}) \cup new
          /\ item' = [i \in Ids |->
               IF i \in new
               THEN query_details([w EXCEPT !.it = NewItem],
                                  IF i \in sent THEN {"send"} ELSE {}, h[i]).it
               ELSE IF i = id THEN NewItem ELSE item[i]]
          /\ queries' = w.queries \cup ({h[c] : c \in new} \ {None})
          /\ links' = w.links /\ maps_dir' = w.maps_dir /\ vpks' = w.vpks
          /\ robbed' = IF Holders(id) # {} THEN robbed \cup {id} ELSE robbed

\* Neither a file nor a collection: forgotten.
ResolveOther(id) ==
  /\ Pending(id) /\ Kind[id] = "other" /\ "details_queried" \notin item[id].state
  /\ UNCHANGED <<workshop_initalized, mods, mapname, command, left, installed>>
  /\ \E ok \in Luck(Releasing) : Commit(id, Destroyed(id, Answered(World(id)), ok))

\* What the answer says, if it is one.
Details(id, w, ok) ==
  IF ~({"result", "details"} \subseteq ok) \/ "details_queried" \in w.it.state THEN w
  ELSE [w EXCEPT !.it.state = @ \cup {"details_queried"},
                 !.it.itemtype = IF Kind[id] = "collection" THEN "collection" ELSE "file",
                 !.it.app = IF Kind[id] = "vpk" THEN "vpk"
                            ELSE IF Kind[id] = "other_app" THEN "other" ELSE "map"]
Metadata(w, ok, name) ==
  IF ~({"result", "metadata"} \subseteq ok) \/ "metadata_queried" \in w.it.state THEN w
  ELSE [w EXCEPT !.it.state = @ \cup {"metadata_queried"}, !.it.metadata = name]
QueryReleased(w) == [w EXCEPT !.queries = @ \ {w.it.handle}, !.it.handle = None]

MutantFirstDownload(id, w, ok) == [w EXCEPT !.it.state = @ \cup {"initialized"}]
FirstDownload(id, w, ok) ==
  IF "initialized" \in w.it.state THEN w
  ELSE [download(id, w, ok) EXCEPT !.it.state = @ \cup {"initialized"}]

\* Every other answer: an error, details of a file, or of a collection whose
\* children Steam cannot name.
on_details_queried(id) ==
  /\ Pending(id)
  /\ UNCHANGED <<workshop_initalized, mods, mapname, command, left, installed>>
  /\ \E ok \in Luck({"result", "details", "children", "metadata"} \cup Installing),
        name \in MapNames[id] \cup (IF MapNames[id] = {} THEN {NoName} ELSE {}) :
       /\ {"result", "details"} \subseteq ok => Kind[id] # "other"
       /\ {"result", "details", "children"} \subseteq ok => Kind[id] # "collection"
       /\ \E w \in {QueryReleased(Metadata(Details(id, Answered(World(id)), ok), ok, name))} :
          \E v \in {FirstDownload(id, w, ok)}: Commit(id, IfInstalled(id, v, ok))

\* workshop_item_downloaded; with the callbacks unregistered the result is lost.
Downloaded(id, ok) ==
  LET w == [World(id) EXCEPT !.downloads = @ \ {id},
                             !.it.state = @ \ {"download_active"}] IN
  IF {"result", "info_download"} \subseteq ok /\ w.live /\ NotCollection(w.it)
  THEN IfInstalled(id, [w EXCEPT !.it.state = @ \cup {"downloaded"}], ok)
  ELSE w

DownloadResult(id) ==
  /\ Idle /\ id \in downloads
  /\ UNCHANGED <<workshop_initalized, mods, mapname, command, left>>
  /\ \E ok \in Luck({"result", "info_download", "info", "symlink"}) :
       /\ installed' = IF "result" \in ok THEN installed \cup {id} ELSE installed
       /\ Commit(id, IF workshop_initalized THEN Downloaded(id, ok)
                     ELSE [World(id) EXCEPT !.downloads = @ \ {id}])

\* workshop_item_installed: Steam installs an item for reasons of its own.
ItemInstalled(id) ==
  /\ Idle
  /\ installed' = installed \cup {id}
  /\ UNCHANGED <<workshop_initalized, mods, mapname, command, left>>
  /\ \E ok \in Luck({"info", "symlink"}) :
       Commit(id, IF workshop_initalized /\ id \in workshop_items
                  THEN IfInstalled(id, World(id), ok) ELSE World(id))

ChangeMap(map) ==
  /\ Idle
  /\ mapname' = map
  /\ UNCHANGED <<workshop_initalized, workshop_items, item, mods, disk, command, left,
                 steam, robbed>>

ItemStep(id) ==
  \/ Track(id) \/ Untrack(id) \/ ClearOne(id) \/ RefreshOne(id)
  \/ ResolveCollection(id) \/ ResolveOther(id) \/ on_details_queried(id)
  \/ DownloadResult(id) \/ ItemInstalled(id)
ModStep(m) == ModInit(m) \/ ModReload(m) \/ ModDestroy(m) \/ UnloadOne(m) \/ DestroyOne(m)

Next ==
  \/ LoggedOn \/ LoggedOff \/ UnloadMods \/ Clear \/ Refresh
  \/ \E id \in Ids : ItemStep(id)
  \/ \E m \in Mods : ModStep(m)
  \/ \E map \in Maps \cup {NoName} : ChangeMap(map)

Spec == Init /\ [][Next]_vars

\* Steam answers what it was asked, and a command that has begun goes on: what
\* MCWorkshopLive assumes to be fair.  An answer may be cancelled and asked for
\* again, so its fairness is strong.
Answers(id) == ResolveCollection(id) \/ ResolveOther(id) \/ on_details_queried(id)
CommandStep == (\E id \in Ids : RefreshOne(id) \/ ClearOne(id))
               \/ (\E m \in Mods : UnloadOne(m) \/ DestroyOne(m))

-----------------------------------------------------------------------------
(* What the workshop promises *)

Item == [state : SUBSET Flags, app : {"unknown", "vpk", "map", "other"},
         itemtype : {"unknown", "file", "collection"},
         mounttype : {"unknown", "vpk", "map"}, metadata : Names \cup {NoName},
         dst : Dsts, handle : Handles \cup {None}, call : Handles \cup {None},
         user : BOOLEAN, mods : Nat]

\* The types of the variables; an id without an item has no item state.
TypeOK ==
  /\ workshop_initalized \in BOOLEAN
  /\ workshop_items \subseteq Ids /\ item \in [Ids -> Item]
  /\ \A id \in Ids \ workshop_items : item[id] = NewItem
  /\ mods \in [Mods -> {"absent", "refused", "held", "dropped"}]
  /\ links \in [Ids \cup Names -> Ids \cup {None}] /\ maps_dir \in BOOLEAN
  /\ vpks \subseteq Ids
  /\ mapname \in Maps \cup {NoName}
  /\ command \in {"none", "refresh", "clear", "unload", "destroy"}
  /\ left \subseteq Ids \cup Mods
  /\ queries \subseteq Handles /\ downloads \subseteq Ids /\ installed \subseteq Ids
  /\ robbed \subseteq Ids

\* The query handles Steam has not got back are exactly those the items hold,
\* each held by one item: none leaks when an item is dropped, refreshed or
\* resolved in its own callback, and none is released twice.
QueriesOwned ==
  /\ queries = {item[id].handle : id \in workshop_items} \ {None}
  /\ \A i, j \in workshop_items : item[i].handle = item[j].handle => i = j \/ item[i].handle = None

\* An item that believes its details are on the way has a call pending, for the
\* handle it holds.  One that believed so without a call would never be asked
\* about again: query_details() returns early.  While the workshop is not
\* initialized no item waits at all: the callbacks are unregistered.
ActiveMeansPending ==
  \A id \in Ids :
    /\ "details_query_active" \in item[id].state <=> item[id].call # None
    /\ item[id].call # None => item[id].call = item[id].handle
    /\ item[id].state \cap {"details_query_active", "download_active"} # {} => workshop_initalized

\* What the workshop knows of itself and what Steam knows of it agree, whatever
\* answers, is cancelled, destroyed or logged off, in whatever order.
AgreesWithSteam == TypeOK /\ QueriesOwned /\ ActiveMeansPending

\* Unless the item was removed while a mod held it - by vmod_workshop_clear, or
\* because it turned out to be a collection or no item at all - every mod that
\* holds an id has one reference to it, although vmod_unload_mods untracks twice
\* and reload untracks and tracks again, and the item is there.
RefsExact ==
  \A id \in Ids \ robbed :
    /\ item[id].mods = Cardinality(Holders(id))
    /\ Holders(id) # {} => id \in workshop_items

Flagged(id) == "mounted" \in item[id].state
\* What the flag stands for: the link is the item's, the package is mounted.
Backed(id) ==
  IF item[id].mounttype = "vpk" THEN links[id] = id /\ id \in vpks
  ELSE item[id].dst = NoName \/ links[item[id].dst] = id

\* An item is flagged as mounted without being so only if it shares its link
\* path with another item or with a link left behind, was renamed by its
\* author while the flag was set, or is a package that was half unmounted.
UnbackedStep ==
  \A id \in Ids :
    (Flagged(id) /\ ~Backed(id))' /\ ~(Flagged(id) /\ ~Backed(id)) =>
      \/ item'[id].dst \in Names /\ links[item'[id].dst] \notin {None, id}
      \/ \E other \in Ids \ {id} : Flagged(other) /\ item[other].dst = item[id].dst
      \/ Flagged(id) /\ item'[id].dst # item[id].dst
      \/ command = "refresh" /\ item[id].mounttype = "vpk"
UnbackedOnlyBy == [][UnbackedStep]_vars

\* vmod_workshop_refresh does not take away the map that is being played, unless
\* another item has a map of that name.
RefreshStep ==
  \A id \in Ids :
    /\ command = "refresh"
    /\ Flagged(id) /\ item[id].dst \in Names /\ links[item[id].dst] = id
    /\ mapname \in {item[id].dst, <<item[id].dst, id>>}
    /\ item[id].metadata = item[id].dst
    => \/ links'[item[id].dst] = id
       \/ \E other \in Ids \ {id} : item[other].dst = item[id].dst
RefreshKeepsPlayedMap == [][RefreshStep]_vars

\* With an outside world that does what it is asked, an item whose details are on
\* the way (OnItsWay) ends up mounted, unless it is dropped or the logon is lost.
OnItsWay(id) == Kind[id] \in {"map", "vpk"} /\ "details_query_active" \in item[id].state
Settled(id) == Flagged(id) \/ id \notin workshop_items \/ ~workshop_initalized

=============================================================================
