--------------------------- MODULE WorkshopProofs ---------------------------
(* Proofs about Workshop, for any number of items, handles, mods and maps: the *)
(* items and Steam agree on the queries that are out, the references mods have *)
(* to an item are as many as the mods that hold it, and what is linked and     *)
(* mounted is so for an item that says so (second part).                       *)
(*                                                                             *)
(* A handler is a composition of operations on a world.  Each operation keeps  *)
(* a world sound (first part), a handler that ends in a sound world keeps the  *)
(* invariant (Commit), and so every action does.  The invariant needs what a   *)
(* refresh under way still walks (Walks), and, for the references, in which    *)
(* order vmod_unload_mods unloads and destroys (UnloadPhases).                 *)
EXTENDS Workshop, FiniteSetTheorems, TLAPS

\* What a handler works on, with its type.
Worlds ==
  [live : BOOLEAN, it : Item, queries : SUBSET Handles,
   links : [Ids \cup Names -> Ids \cup {None}], maps_dir : BOOLEAN,
   vpks : SUBSET Ids, downloads : SUBSET Ids]

\* The query handles of the other items.
Others(id) == {item[i].handle : i \in workshop_items \ {id}} \ {None}

\* A world in which the item and Steam agree: the queries are those of the
\* other items and the item's own, its call is pending for the handle it holds,
\* and it waits for Steam only while the workshop is initialized (on).
Sound(w, others, on) ==
  /\ w \in Worlds
  /\ w.queries = others \cup ({w.it.handle} \ {None})
  /\ w.it.handle \notin others /\ None \notin others
  /\ "details_query_active" \in w.it.state <=> w.it.call # None
  /\ w.it.call # None => w.it.call = w.it.handle
  /\ w.it.state \cap {"details_query_active", "download_active"} # {} => on

\* Neither the place in the map nor the references of mods have changed.
Same(v, w) == v.live = w.live /\ v.it.mods = w.it.mods

\* What an operation makes of a sound world.
Keeps(v, w, others, on) == Sound(v, others, on) /\ Same(v, w)

\* A new workshop_item_t is a workshop_item_t.
LEMMA NewItemFits == NewItem \in Item
BY ConstAssumption DEF NewItem, Item, Dsts

\* cancel() gives the handle back and leaves nothing to wait for.
LEMMA CancelKeeps ==
  ASSUME NEW w, NEW others, NEW on \in BOOLEAN, Sound(w, others, on)
  PROVE  Keeps(cancel(w), w, others, FALSE) /\ cancel(w).it.handle = None
<1> DEFINE it == [w.it EXCEPT !.handle = None, !.call = None,
                              !.state = @ \ {"details_query_active", "download_active"}]
           v == [w EXCEPT !.queries = @ \ {w.it.handle}, !.it = it]
<1>0. w \in Worlds /\ w.it \in Item
  BY DEF Sound, Worlds
<1>1. cancel(w) = v
  BY <1>0 DEF cancel, Worlds, Item
<1>2. it \in Item /\ it.handle = None /\ it.call = None /\ it.mods = w.it.mods
      /\ it.state = w.it.state \ {"details_query_active", "download_active"}
  BY <1>0 DEF Item
<1> HIDE DEF it
<1>3. v \in Worlds /\ v.it = it /\ v.live = w.live /\ v.queries = w.queries \ {w.it.handle}
  BY <1>0, <1>2 DEF Worlds
<1> HIDE DEF v
<1> QED
  BY <1>1, <1>2, <1>3 DEF Sound, Keeps, Same

\* query_details() releases the handle it replaces, and waits only if it sent.
LEMMA QueryKeeps ==
  ASSUME NEW w, NEW others, Sound(w, others, TRUE),
         NEW ok, NEW h \in NewHandles(w, ok)
  PROVE  Keeps(query_details(w, ok, h), w, others, TRUE)
<1> DEFINE sent == h # None /\ "send" \in ok
           it == [w.it EXCEPT !.handle = h, !.call = IF sent THEN h ELSE None,
                              !.state = IF sent THEN @ \cup {"details_query_active"} ELSE @]
           v == [w EXCEPT !.queries = (@ \ {w.it.handle}) \cup ({h} \ {None}), !.it = it]
<1>0. w \in Worlds /\ w.it \in Item /\ h \in Handles \cup {None}
  BY DEF Sound, Worlds, NewHandles
<1>1. CASE Queried(w.it) \/ "details_query_active" \in w.it.state
  <2>1. query_details(w, ok, h) = w
    BY <1>1 DEF query_details
  <2> QED
    BY <2>1 DEF Keeps, Same
<1>2. CASE ~(Queried(w.it) \/ "details_query_active" \in w.it.state)
  <2>1. query_details(w, ok, h) = v
    BY <1>0, <1>2 DEF query_details, Worlds, Item
  <2>2. it \in Item /\ it.handle = h /\ it.call = (IF sent THEN h ELSE None) /\ it.mods = w.it.mods
        /\ it.state = (IF sent THEN w.it.state \cup {"details_query_active"} ELSE w.it.state)
    BY <1>0 DEF Item, Flags
  <2> HIDE DEF it
  <2>3. v \in Worlds /\ v.it = it /\ v.live = w.live
        /\ v.queries = (w.queries \ {w.it.handle}) \cup ({h} \ {None})
    BY <1>0, <2>2 DEF Worlds
  <2> HIDE DEF v
  <2>4. h \notin others
    BY <1>0 DEF NewHandles, Sound
  <2>5. w.it.call = None
    BY <1>2 DEF Sound
  <2> QED
    BY <1>2, <2>1, <2>2, <2>3, <2>4, <2>5 DEF Sound, Keeps, Same
<1> QED
  BY <1>1, <1>2

\* A handler changes what is mounted and what is installed without touching
\* the query or the references.
Touches(v, w) ==
  /\ v \in Worlds
  /\ v.queries = w.queries /\ v.it.handle = w.it.handle /\ v.it.call = w.it.call
  /\ v.it.state \cap {"details_query_active", "download_active"}
       = w.it.state \cap {"details_query_active", "download_active"}
  /\ v.live = w.live /\ v.it.mods = w.it.mods

\* What leaves the query and the references alone keeps a world sound.
LEMMA TouchesKeeps ==
  ASSUME NEW w, NEW v, NEW others, NEW on \in BOOLEAN, Sound(w, others, on), Touches(v, w)
  PROVE  Keeps(v, w, others, on)
<1>1. "details_query_active" \in v.it.state <=> "details_query_active" \in w.it.state
  BY DEF Touches
<1> QED
  BY <1>1 DEF Sound, Touches, Keeps, Same

\* The flags other than the two for a pending answer may change freely.
LEMMA Flagging ==
  ASSUME NEW w \in Worlds, NEW S \in SUBSET Flags,
         S \cap {"details_query_active", "download_active"}
           = w.it.state \cap {"details_query_active", "download_active"}
  PROVE  Touches([w EXCEPT !.it.state = S], w)
<1>1. [w EXCEPT !.it.state = S] = [w EXCEPT !.it = [w.it EXCEPT !.state = S]]
  BY DEF Worlds, Item
<1>2. [w.it EXCEPT !.state = S] \in Item
  BY DEF Worlds, Item
<1> QED
  BY <1>1, <1>2 DEF Worlds, Item, Touches

\* mount() leaves the query and the references alone.
LEMMA MountTouches ==
  ASSUME NEW w \in Worlds, NEW ok, NEW id \in Ids
  PROVE  Touches(mount(id, w, ok), w)
<1> DEFINE it == [w.it EXCEPT !.state = @ \cup {"mounted"}]
           u == Linked(id, w)
           v == [u EXCEPT !.it = it, !.vpks = IF w.it.mounttype = "vpk" THEN @ \cup {id} ELSE @]
<1>0. w \in Worlds /\ w.it \in Item
  BY DEF Worlds
<1>1. it \in Item /\ it.handle = w.it.handle /\ it.call = w.it.call /\ it.mods = w.it.mods
      /\ it.state = w.it.state \cup {"mounted"}
  BY <1>0 DEF Item, Flags
<1>2. u \in Worlds /\ u.it = w.it /\ u.queries = w.queries /\ u.live = w.live
  BY <1>0 DEF Linked, Exists, Worlds, Item, Dsts
<1>3. mount(id, w, ok) \in {w, v}
  BY <1>0, <1>2 DEF mount, Worlds, Item
<1> HIDE DEF it, u
<1>4. v \in Worlds /\ v.it = it /\ v.queries = w.queries /\ v.live = w.live
  BY <1>1, <1>2 DEF Worlds
<1> HIDE DEF v
<1>5. Touches(v, w)
  BY <1>1, <1>4 DEF Touches
<1>6. Touches(w, w)
  BY <1>0 DEF Touches
<1> QED
  BY <1>3, <1>5, <1>6

\* So does unmount(), wherever it returns early.
LEMMA UnmountTouches ==
  ASSUME NEW w \in Worlds, NEW ok, NEW id \in Ids, NEW force \in BOOLEAN
  PROVE  Touches(unmount(id, w, force, ok), w)
<1> DEFINE it == [w.it EXCEPT !.state = @ \ {"mounted"}]
           v == IF w.it.mounttype = "vpk" THEN [w EXCEPT !.vpks = @ \ {id}] ELSE w
           x == Unlinked(v)
           y == [v EXCEPT !.it = it]
           z == [x EXCEPT !.it = it]
<1>0. w \in Worlds /\ w.it \in Item
  BY DEF Worlds
<1>1. it \in Item /\ it.handle = w.it.handle /\ it.call = w.it.call /\ it.mods = w.it.mods
      /\ it.state = w.it.state \ {"mounted"}
  BY <1>0 DEF Item, Flags
<1>2. v \in Worlds /\ v.it = w.it /\ v.queries = w.queries /\ v.live = w.live
  BY <1>0 DEF Worlds
<1> HIDE DEF v
<1>3. x \in Worlds /\ x.it = w.it /\ x.queries = w.queries /\ x.live = w.live
  BY <1>0, <1>2 DEF Unlinked, Worlds, Item, Dsts
<1> HIDE DEF x
<1>4. y = [v EXCEPT !.it.state = @ \ {"mounted"}] /\ z = [x EXCEPT !.it.state = @ \ {"mounted"}]
  BY <1>2, <1>3 DEF Worlds, Item
<1>5. unmount(id, w, force, ok) \in {w, v, y, z}
  BY <1>4 DEF unmount, v, x
<1> HIDE DEF it
<1>6. Touches(v, w) /\ Touches(w, w)
  BY <1>0, <1>2 DEF Touches
<1>7. y \in Worlds /\ y.it = it /\ y.queries = w.queries /\ y.live = w.live
  BY <1>1, <1>2 DEF Worlds
<1>8. z \in Worlds /\ z.it = it /\ z.queries = w.queries /\ z.live = w.live
  BY <1>1, <1>3 DEF Worlds
<1> HIDE DEF y, z
<1>9. Touches(y, w) /\ Touches(z, w)
  BY <1>1, <1>7, <1>8 DEF Touches
<1> QED
  BY <1>5, <1>6, <1>9

\* So does on_installed(), which ends with mount().
LEMMA InstallTouches ==
  ASSUME NEW w \in Worlds, NEW ok, NEW id \in Ids
  PROVE  Touches(on_installed(id, w, ok), w)
<1> DEFINE it == [w.it EXCEPT !.state = @ \cup {"installed"}, !.mounttype = w.it.app,
                              !.dst = IF w.it.app = "vpk" THEN id ELSE w.it.metadata]
           v == [w EXCEPT !.it = it]
<1>0. w \in Worlds /\ w.it \in Item
  BY DEF Worlds
<1>1. w.it.app \in {"vpk", "map"} =>
        /\ it \in Item /\ it.handle = w.it.handle /\ it.call = w.it.call /\ it.mods = w.it.mods
        /\ it.state = w.it.state \cup {"installed"}
  BY <1>0 DEF Item, Flags, Dsts
<1>2. PICK u \in {w, v} : (u = v => w.it.app \in {"vpk", "map"} \/ v = w)
                          /\ on_installed(id, w, ok) = mount(id, u, ok)
  BY <1>0 DEF on_installed, Worlds, Item
<1> HIDE DEF it
<1>3. w.it.app \in {"vpk", "map"} =>
        v \in Worlds /\ v.it = it /\ v.queries = w.queries /\ v.live = w.live
  BY <1>0, <1>1 DEF Worlds
<1> HIDE DEF v
<1>4. Touches(u, w)
  BY <1>0, <1>1, <1>2, <1>3 DEF Touches
<1>5. Touches(mount(id, u, ok), u)
  BY <1>4, MountTouches DEF Touches
<1> QED
  BY <1>2, <1>4, <1>5 DEF Touches

\* So does an installation that depends on what Steam says.
LEMMA IfInstalledTouches ==
  ASSUME NEW w \in Worlds, NEW ok, NEW id \in Ids
  PROVE  Touches(IfInstalled(id, w, ok), w)
<1>1. Touches(w, w)
  BY DEF Touches
<1> QED
  BY <1>1, InstallTouches DEF IfInstalled

\* download() may begin to wait for Steam, which needs the logon.
LEMMA DownloadKeeps ==
  ASSUME NEW w, NEW others, Sound(w, others, TRUE), NEW ok, NEW id \in Ids
  PROVE  Keeps(download(id, w, ok), w, others, TRUE)
<1> DEFINE it == [w.it EXCEPT !.state = @ \cup {"download_active"}]
           v == [w EXCEPT !.it = it, !.downloads = @ \cup {id}]
<1>0. w \in Worlds /\ w.it \in Item
  BY DEF Sound, Worlds
<1>1. it \in Item /\ it.handle = w.it.handle /\ it.call = w.it.call /\ it.mods = w.it.mods
      /\ it.state = w.it.state \cup {"download_active"}
  BY <1>0 DEF Item, Flags
<1>2. download(id, w, ok) \in {w, v, IfInstalled(id, w, ok)}
  BY <1>0 DEF download, Worlds, Item
<1> HIDE DEF it
<1>3. v \in Worlds /\ v.it = it /\ v.queries = w.queries /\ v.live = w.live
  BY <1>0, <1>1 DEF Worlds
<1> HIDE DEF v
<1>4. Keeps(v, w, others, TRUE)
  BY <1>1, <1>3 DEF Sound, Keeps, Same
<1>5. Keeps(w, w, others, TRUE)
  BY DEF Keeps, Same
<1> QED
  BY <1>0, <1>2, <1>4, <1>5, IfInstalledTouches, TouchesKeeps

\* refresh() unmounts, asks again and downloads.
LEMMA RefreshKeeps ==
  ASSUME NEW w, NEW others, Sound(w, others, TRUE),
         NEW ok, NEW h \in NewHandles(w, ok), NEW id \in Ids
  PROVE  Keeps(refresh(id, w, ok, h), w, others, TRUE)
<1> DEFINE u == unmount(id, w, FALSE, ok)
           v == [u EXCEPT !.it.state =
                   @ \ {"details_queried", "metadata_queried", "downloaded", "installed"}]
           q == query_details(v, ok, h)
<1>1. Touches(u, w)
  BY UnmountTouches DEF Sound
<1>2. Touches(v, u)
  <2> DEFINE S == u.it.state \ {"details_queried", "metadata_queried", "downloaded", "installed"}
  <2>1. u \in Worlds /\ u.it \in Item
    BY <1>1 DEF Touches, Worlds
  <2>2. v = [u EXCEPT !.it.state = S]
    BY <2>1 DEF Worlds, Item
  <2>3. S \in SUBSET Flags /\ S \cap {"details_query_active", "download_active"}
           = u.it.state \cap {"details_query_active", "download_active"}
    BY <2>1 DEF Item
  <2> HIDE DEF S, u
  <2> QED
    BY <2>1, <2>2, <2>3, Flagging
<1> HIDE DEF u, v
<1>3. Touches(v, w) /\ Keeps(v, w, others, TRUE)
  <2>1. Touches(v, w)
    BY <1>1, <1>2 DEF Touches
  <2> QED
    BY <2>1, TouchesKeeps
<1>4. h \in NewHandles(v, ok)
  BY <1>3 DEF NewHandles, Touches
<1>5. Keeps(q, v, others, TRUE)
  BY <1>3, <1>4, QueryKeeps DEF Keeps
<1> HIDE DEF q
<1>6. Keeps(download(id, q, ok), q, others, TRUE)
  BY <1>5, DownloadKeeps DEF Keeps
<1>7. refresh(id, w, ok, h) = download(id, q, ok)
  BY DEF refresh, q, v, u
<1> QED
  BY <1>3, <1>5, <1>6, <1>7 DEF Keeps, Same

\* A world whose item is in the map or forgotten altogether.
Forgotten(w) == ~w.live => w.it = NewItem

\* The destructor leaves nothing of the item: its handle goes back to Steam.
LEMMA DestroyedIsGone ==
  ASSUME NEW w, NEW others, NEW on \in BOOLEAN, Sound(w, others, on), NEW ok, NEW id \in Ids
  PROVE  /\ Sound(Destroyed(id, w, ok), others, FALSE)
         /\ Destroyed(id, w, ok).live = FALSE /\ Destroyed(id, w, ok).it = NewItem
<1> DEFINE c == cancel(w)
           u == unmount(id, c, TRUE, ok)
           v == [u EXCEPT !.live = FALSE, !.it = NewItem]
<1>1. Sound(c, others, FALSE) /\ c.it.handle = None
  BY CancelKeeps DEF Keeps
<1> HIDE DEF c
<1>2. Sound(u, others, FALSE) /\ u.it.handle = None
  <2>1. Touches(u, c)
    BY <1>1, UnmountTouches DEF Sound
  <2> HIDE DEF u
  <2>2. Keeps(u, c, others, FALSE)
    BY <1>1, <2>1, TouchesKeeps
  <2> QED
    BY <1>1, <2>1, <2>2 DEF Keeps, Touches
<1> HIDE DEF u
<1>3. v \in Worlds /\ v.live = FALSE /\ v.it = NewItem /\ v.queries = u.queries
  BY <1>2, NewItemFits DEF Sound, Worlds
<1> HIDE DEF v
<1>4. NewItem.handle = None /\ NewItem.call = None /\ NewItem.state = {}
  BY DEF NewItem
<1>5. Sound(v, others, FALSE)
  BY <1>2, <1>3, <1>4 DEF Sound
<1> QED
  BY <1>3, <1>5 DEF Destroyed, v, u, c

\* The references of mods after one more was added or dropped, by the user or
\* by a mod.
More(n, user) == IF user THEN n ELSE n + 1
\* The same after one was dropped.
Less(n, user) == IF user \/ n = 0 THEN n ELSE n - 1

\* A reference is added to the one who asked, and to nothing else.
LEMMA AddRefKeeps ==
  ASSUME NEW w, NEW others, Sound(w, others, TRUE), NEW user \in BOOLEAN
  PROVE  /\ Sound(AddRef(w, user), others, TRUE)
         /\ AddRef(w, user).live = w.live
         /\ AddRef(w, user).it.mods = More(w.it.mods, user)
<1> DEFINE it == IF user THEN [w.it EXCEPT !.user = TRUE] ELSE [w.it EXCEPT !.mods = @ + 1]
           v == [w EXCEPT !.it = it]
<1>0. w \in Worlds /\ w.it \in Item
  BY DEF Sound, Worlds
<1>1. it \in Item /\ it.handle = w.it.handle /\ it.call = w.it.call /\ it.state = w.it.state
      /\ it.mods = More(w.it.mods, user)
  <2>1. CASE user
    <3>1. it = [w.it EXCEPT !.user = TRUE]
      BY <2>1
    <3> QED
      BY <1>0, <2>1, <3>1 DEF Item, More
  <2>2. CASE ~user
    <3>1. it = [w.it EXCEPT !.mods = @ + 1]
      BY <2>2
    <3> QED
      BY <1>0, <2>2, <3>1 DEF Item, More
  <2> QED
    BY <2>1, <2>2
<1>2. AddRef(w, user) = v
  BY <1>0 DEF AddRef, Worlds, Item
<1> HIDE DEF it
<1>3. v \in Worlds /\ v.it = it /\ v.queries = w.queries /\ v.live = w.live
  BY <1>0, <1>1 DEF Worlds
<1> HIDE DEF v
<1> QED
  BY <1>1, <1>2, <1>3 DEF Sound

\* A reference is dropped, and nothing else.
LEMMA DropRefKeeps ==
  ASSUME NEW w, NEW others, NEW on \in BOOLEAN, Sound(w, others, on), NEW user \in BOOLEAN
  PROVE  /\ Sound(DropRef(w, user), others, on)
         /\ DropRef(w, user).live = w.live
         /\ DropRef(w, user).it.mods = Less(w.it.mods, user)
<1> DEFINE it == IF user THEN [w.it EXCEPT !.user = FALSE]
                 ELSE [w.it EXCEPT !.mods = IF @ > 0 THEN @ - 1 ELSE @]
           v == [w EXCEPT !.it = it]
<1>0. w \in Worlds /\ w.it \in Item
  BY DEF Sound, Worlds
<1>1. it \in Item /\ it.handle = w.it.handle /\ it.call = w.it.call /\ it.state = w.it.state
      /\ it.mods = Less(w.it.mods, user)
  <2>1. CASE user
    <3>1. it = [w.it EXCEPT !.user = FALSE]
      BY <2>1
    <3> QED
      BY <1>0, <2>1, <3>1 DEF Item, Less
  <2>2. CASE ~user
    <3>1. it = [w.it EXCEPT !.mods = IF @ > 0 THEN @ - 1 ELSE @]
      BY <2>2
    <3> QED
      BY <1>0, <2>2, <3>1 DEF Item, Less
  <2> QED
    BY <2>1, <2>2
<1>2. DropRef(w, user) = v
  BY <1>0 DEF DropRef, Worlds, Item
<1> HIDE DEF it
<1>3. v \in Worlds /\ v.it = it /\ v.queries = w.queries /\ v.live = w.live
  BY <1>0, <1>1 DEF Worlds
<1> HIDE DEF v
<1> QED
  BY <1>1, <1>2, <1>3 DEF Sound

\* A tracked item is in the map and has one reference more if a mod asked.
Tracked(v, w, user, others) ==
  /\ Sound(v, others, TRUE) /\ v.live
  /\ v.it.mods = More(w.it.mods, user)

\* track_workshop_item() makes the item if there is none and refers to it.
LEMMA TrackTracks ==
  ASSUME NEW w, NEW others, Sound(w, others, TRUE), NEW user \in BOOLEAN,
         NEW ok, NEW h \in NewHandles(w, ok)
  PROVE  Tracked(track_workshop_item(w, user, ok, h), w, user, others)
<1> DEFINE q == query_details(w, ok, h)
           l == [q EXCEPT !.live = TRUE]
           u == IF w.live THEN w ELSE l
<1>1. Keeps(q, w, others, TRUE)
  BY QueryKeeps
<1> HIDE DEF q
<1>2. l \in Worlds /\ l.live /\ l.it = q.it /\ l.queries = q.queries
  BY <1>1 DEF Keeps, Sound, Worlds
<1> HIDE DEF l
<1>3. Sound(u, others, TRUE) /\ u.live /\ u.it.mods = w.it.mods
  BY <1>1, <1>2 DEF Sound, Keeps, Same
<1> HIDE DEF u
<1>4. track_workshop_item(w, user, ok, h) = AddRef(u, user)
  BY DEF track_workshop_item, u, l, q
<1>5. /\ Sound(AddRef(u, user), others, TRUE) /\ AddRef(u, user).live = u.live
      /\ AddRef(u, user).it.mods = More(u.it.mods, user)
  BY <1>3, AddRefKeeps
<1> QED
  BY <1>3, <1>4, <1>5 DEF Tracked

\* An untracked item is forgotten with its last reference.
Untracked(v, w, user, others, on) ==
  /\ Sound(v, others, on) /\ Forgotten(v)
  /\ ~v.live => v.it.mods = 0
  /\ v.it.mods = Less(w.it.mods, user)
  /\ v.it.mods > 0 => v.live

\* untrack_workshop_item() destroys an item that nobody refers to any more.
LEMMA UntrackUntracks ==
  ASSUME NEW w, NEW others, NEW on \in BOOLEAN, Sound(w, others, on), Forgotten(w),
         NEW user \in BOOLEAN, NEW ok, NEW id \in Ids
  PROVE  Untracked(untrack_workshop_item(id, w, user, ok), w, user, others, on)
<1> DEFINE d == DropRef(w, user)
           u == untrack_workshop_item(id, w, user, ok)
<1>0. NewItem.mods = 0 /\ w.it.mods \in Nat
  BY DEF NewItem, Sound, Worlds, Item
<1>1. CASE ~w.live
  BY <1>0, <1>1 DEF untrack_workshop_item, Untracked, Forgotten, Less
<1>2. CASE w.live
  <2>1. /\ Sound(d, others, on) /\ d.live
        /\ d.it.mods = Less(w.it.mods, user)
    BY <1>2, DropRefKeeps
  <2>2. u = IF Unreferenced(d.it) THEN Destroyed(id, d, ok) ELSE d
    BY <1>2 DEF untrack_workshop_item
  <2> HIDE DEF d, u
  <2>3. CASE Unreferenced(d.it)
    <3>1. Sound(u, others, FALSE) /\ ~u.live /\ u.it = NewItem /\ d.it.mods = 0
      BY <2>1, <2>2, <2>3, DestroyedIsGone DEF Unreferenced
    <3>2. Sound(u, others, on)
      BY <3>1 DEF Sound
    <3> QED
      BY <1>0, <2>1, <3>1, <3>2 DEF Untracked, Forgotten, u
  <2>4. CASE ~Unreferenced(d.it)
    BY <2>1, <2>2, <2>4 DEF Untracked, Forgotten, u
  <2> QED
    BY <2>3, <2>4
<1> QED
  BY <1>1, <1>2 DEF Sound, Worlds

\* The call is over before the handle is released.
LEMMA AnsweredKeeps ==
  ASSUME NEW w, NEW others, NEW on \in BOOLEAN, Sound(w, others, on)
  PROVE  Keeps(Answered(w), w, others, on) /\ Answered(w).it.call = None
<1> DEFINE it == [w.it EXCEPT !.state = @ \ {"details_query_active"}, !.call = None]
           v == [w EXCEPT !.it = it]
<1>0. w \in Worlds /\ w.it \in Item
  BY DEF Sound, Worlds
<1>1. it \in Item /\ it.handle = w.it.handle /\ it.call = None /\ it.mods = w.it.mods
      /\ it.state = w.it.state \ {"details_query_active"}
  BY <1>0 DEF Item
<1>2. Answered(w) = v
  BY <1>0 DEF Answered, Worlds, Item
<1> HIDE DEF it
<1>3. v \in Worlds /\ v.it = it /\ v.queries = w.queries /\ v.live = w.live
  BY <1>0, <1>1 DEF Worlds
<1> HIDE DEF v
<1> QED
  BY <1>1, <1>2, <1>3 DEF Sound, Keeps, Same

\* The details of the answer leave the query and the references alone.
LEMMA DetailsTouches ==
  ASSUME NEW w \in Worlds, NEW ok, NEW id \in Ids
  PROVE  Touches(Details(id, w, ok), w)
<1> DEFINE app == IF Kind[id] = "vpk" THEN "vpk"
                  ELSE IF Kind[id] = "other_app" THEN "other" ELSE "map"
           type == IF Kind[id] = "collection" THEN "collection" ELSE "file"
           it == [w.it EXCEPT !.state = @ \cup {"details_queried"}, !.itemtype = type, !.app = app]
           v == [w EXCEPT !.it = it]
<1>0. w.it \in Item /\ app \in {"vpk", "other", "map"} /\ type \in {"collection", "file"}
  BY DEF Worlds
<1>1. Details(id, w, ok) \in {w, v}
  BY <1>0 DEF Details, Worlds, Item
<1> HIDE DEF app, type
<1>2. it \in Item /\ it.handle = w.it.handle /\ it.call = w.it.call /\ it.mods = w.it.mods
      /\ it.state = w.it.state \cup {"details_queried"}
  BY <1>0 DEF Item, Flags
<1> HIDE DEF it
<1>3. v \in Worlds /\ v.it = it /\ v.queries = w.queries /\ v.live = w.live
  BY <1>2 DEF Worlds
<1> HIDE DEF v
<1> QED
  BY <1>1, <1>2, <1>3 DEF Touches

\* So does its metadata.
LEMMA MetadataTouches ==
  ASSUME NEW w \in Worlds, NEW ok, NEW name \in Names \cup {NoName}
  PROVE  Touches(Metadata(w, ok, name), w)
<1> DEFINE it == [w.it EXCEPT !.state = @ \cup {"metadata_queried"}, !.metadata = name]
           v == [w EXCEPT !.it = it]
<1>0. w.it \in Item
  BY DEF Worlds
<1>1. Metadata(w, ok, name) \in {w, v}
  BY <1>0 DEF Metadata, Worlds, Item
<1>2. it \in Item /\ it.handle = w.it.handle /\ it.call = w.it.call /\ it.mods = w.it.mods
      /\ it.state = w.it.state \cup {"metadata_queried"}
  BY <1>0 DEF Item, Flags
<1> HIDE DEF it
<1>3. v \in Worlds /\ v.it = it /\ v.queries = w.queries /\ v.live = w.live
  BY <1>2 DEF Worlds
<1> HIDE DEF v
<1> QED
  BY <1>1, <1>2, <1>3 DEF Touches

\* A handle may be released when no call is pending for it.
LEMMA ReleasedKeeps ==
  ASSUME NEW w, NEW others, NEW on \in BOOLEAN, Sound(w, others, on), w.it.call = None
  PROVE  Keeps(QueryReleased(w), w, others, on)
<1> DEFINE it == [w.it EXCEPT !.handle = None]
           v == [w EXCEPT !.queries = @ \ {w.it.handle}, !.it = it]
<1>0. w \in Worlds /\ w.it \in Item
  BY DEF Sound, Worlds
<1>1. it \in Item /\ it.handle = None /\ it.call = None /\ it.mods = w.it.mods
      /\ it.state = w.it.state
  BY <1>0 DEF Item
<1>2. QueryReleased(w) = v
  BY <1>0 DEF QueryReleased, Worlds, Item
<1> HIDE DEF it
<1>3. v \in Worlds /\ v.it = it /\ v.queries = w.queries \ {w.it.handle} /\ v.live = w.live
  BY <1>0, <1>1 DEF Worlds
<1> HIDE DEF v
<1> QED
  BY <1>1, <1>2, <1>3 DEF Sound, Keeps, Same

\* The first answer starts the download.
LEMMA FirstDownloadKeeps ==
  ASSUME NEW w, NEW others, Sound(w, others, TRUE), NEW ok, NEW id \in Ids
  PROVE  Keeps(FirstDownload(id, w, ok), w, others, TRUE)
<1> DEFINE d == download(id, w, ok)
           S == d.it.state \cup {"initialized"}
           v == [d EXCEPT !.it.state = S]
<1>1. Keeps(d, w, others, TRUE)
  BY DownloadKeeps
<1>2. d \in Worlds /\ d.it \in Item
  BY <1>1 DEF Keeps, Sound, Worlds
<1>3. FirstDownload(id, w, ok) \in {w, v}
  BY <1>2 DEF FirstDownload, Worlds, Item
<1>4. S \in SUBSET Flags /\ S \cap {"details_query_active", "download_active"}
         = d.it.state \cap {"details_query_active", "download_active"}
  BY <1>2 DEF Item, Flags
<1> HIDE DEF d, S
<1>5. Touches(v, d)
  BY <1>2, <1>4, Flagging
<1> HIDE DEF v
<1>6. Keeps(v, d, others, TRUE)
  BY <1>1, <1>5, TouchesKeeps DEF Keeps
<1>7. Keeps(w, w, others, TRUE)
  BY DEF Keeps, Same
<1> QED
  BY <1>1, <1>3, <1>6, <1>7 DEF Keeps, Same

\* on_details_queried from the answer to its end.
LEMMA QueriedKeeps ==
  ASSUME NEW w, NEW others, Sound(w, others, TRUE), NEW ok, NEW id \in Ids,
         NEW name \in Names \cup {NoName}
  PROVE  LET q == QueryReleased(Metadata(Details(id, Answered(w), ok), ok, name))
         IN  Keeps(IfInstalled(id, FirstDownload(id, q, ok), ok), w, others, TRUE)
<1> DEFINE a == Answered(w)
           d == Details(id, a, ok)
           m == Metadata(d, ok, name)
           q == QueryReleased(m)
           f == FirstDownload(id, q, ok)
           i == IfInstalled(id, f, ok)
<1>1. Keeps(a, w, others, TRUE) /\ a.it.call = None
  BY AnsweredKeeps
<1> HIDE DEF a
<1>2. Touches(d, a)
  BY <1>1, DetailsTouches DEF Keeps, Sound
<1> HIDE DEF d
<1>3. Touches(m, d)
  BY <1>2, MetadataTouches DEF Touches
<1> HIDE DEF m
<1>4. Touches(m, a) /\ m.it.call = None
  BY <1>1, <1>2, <1>3 DEF Touches
<1>5. Keeps(m, a, others, TRUE)
  BY <1>1, <1>4, TouchesKeeps DEF Keeps
<1>6. Keeps(q, m, others, TRUE)
  BY <1>4, <1>5, ReleasedKeeps DEF Keeps
<1> HIDE DEF q
<1>7. Keeps(f, q, others, TRUE)
  BY <1>6, FirstDownloadKeeps DEF Keeps
<1> HIDE DEF f
<1>8. Touches(i, f)
  BY <1>7, IfInstalledTouches DEF Keeps, Sound
<1> HIDE DEF i
<1>9. Keeps(i, f, others, TRUE)
  BY <1>7, <1>8, TouchesKeeps DEF Keeps
<1>10. Keeps(i, w, others, TRUE)
  BY <1>1, <1>5, <1>6, <1>7, <1>9 DEF Keeps, Same
<1> QED
  BY <1>10 DEF i, f, q, m, d, a

\* A finished download, with and without the callbacks registered.
LEMMA DownloadedKeeps ==
  ASSUME NEW others, NEW on \in BOOLEAN, NEW ok, NEW id \in Ids,
         Sound(World(id), others, on)
  PROVE  /\ Keeps([World(id) EXCEPT !.downloads = @ \ {id}], World(id), others, on)
         /\ Keeps(Downloaded(id, ok), World(id), others, on)
<1> DEFINE w == World(id)
           it == [w.it EXCEPT !.state = @ \ {"download_active"}]
           v == [w EXCEPT !.downloads = @ \ {id}, !.it = it]
           p == [w EXCEPT !.downloads = @ \ {id}]
           S == it.state \cup {"downloaded"}
           u == [v EXCEPT !.it.state = S]
           i == IfInstalled(id, u, ok)
<1>0. w \in Worlds /\ w.it \in Item
  BY DEF Sound, Worlds
<1>1. it \in Item /\ it.handle = w.it.handle /\ it.call = w.it.call /\ it.mods = w.it.mods
      /\ it.state = w.it.state \ {"download_active"}
  BY <1>0 DEF Item
<1>2. v = [w EXCEPT !.downloads = @ \ {id}, !.it.state = @ \ {"download_active"}]
  BY <1>0 DEF Worlds, Item
<1> HIDE DEF w
<1>3. p \in Worlds /\ p.it = w.it /\ p.queries = w.queries /\ p.live = w.live
  BY <1>0 DEF Worlds
<1>4. v \in Worlds /\ v.it = it /\ v.queries = w.queries /\ v.live = w.live
  BY <1>0, <1>1 DEF Worlds
<1>5. [v EXCEPT !.it.state = @ \cup {"downloaded"}] = u
  BY <1>4 DEF Worlds, Item
<1>6. Downloaded(id, ok) \in {v, i}
  BY <1>2, <1>5 DEF Downloaded, w
<1>7. S \in SUBSET Flags /\ S \cap {"details_query_active", "download_active"}
         = v.it.state \cap {"details_query_active", "download_active"}
  BY <1>1, <1>4 DEF Item, Flags
<1> HIDE DEF it, S, p, v
<1>8. Touches(p, w)
  BY <1>3 DEF Touches
<1>9. Sound(w, others, on)
  BY DEF w
<1>10. Keeps(p, w, others, on)
  BY <1>8, <1>9, TouchesKeeps
<1>11. Keeps(v, w, others, on)
  BY <1>1, <1>4, <1>9 DEF Sound, Keeps, Same
<1>12. Touches(u, v)
  BY <1>4, <1>7, Flagging
<1> HIDE DEF u
<1>13. Touches(i, u)
  BY <1>12, IfInstalledTouches DEF Touches
<1> HIDE DEF i
<1>14. Touches(i, v)
  BY <1>12, <1>13 DEF Touches
<1>15. Keeps(i, v, others, on)
  BY <1>11, <1>14, TouchesKeeps DEF Keeps
<1>16. Keeps(i, w, others, on)
  BY <1>11, <1>15 DEF Keeps, Same
<1> QED
  BY <1>6, <1>10, <1>11, <1>16 DEF p, w

-----------------------------------------------------------------------------

\* A command that refreshes walks over items that are there, with the logon.
Walks == command = "refresh" => workshop_initalized /\ left \subseteq workshop_items

\* The part of the state that the handler of an item has no part in.
Aside ==
  /\ mods \in [Mods -> {"absent", "refused", "held", "dropped"}]
  /\ mapname \in Maps \cup {NoName}
  /\ command \in {"none", "refresh", "clear", "unload", "destroy"}
  /\ left \subseteq Ids \cup Mods
  /\ installed \subseteq Ids
  /\ Walks

\* What every step needs of the state before it.
WInv == AgreesWithSteam /\ Walks

\* vmod_unload_mods untracks for every mod that holds its id before it destroys
\* the first: a mod that has given back its id meets no mod that holds one.
UnloadPhases ==
  /\ command \notin {"unload", "destroy"} => \A m \in Mods : mods[m] # "dropped"
  /\ command = "unload" => /\ left \subseteq Present
                           /\ \A m \in Mods : mods[m] = "held" => m \in left
                           /\ \A m \in Mods : mods[m] = "dropped" => m \notin left
  /\ command = "destroy" => /\ left = Present
                            /\ \A m \in Mods : mods[m] # "held"

\* Only finitely many mods hold an item, though there may be any number of them.
FewHold == \A id \in Ids : IsFiniteSet(Holders(id))

\* The inductive invariant.
IInv == WInv /\ UnloadPhases /\ FewHold /\ RefsExact

\* Every handler starts from a sound world.
LEMMA WorldSound ==
  ASSUME WInv, NEW id \in Ids
  PROVE  /\ Sound(World(id), Others(id), workshop_initalized)
         /\ Forgotten(World(id))
         /\ World(id).live = (id \in workshop_items) /\ World(id).it = item[id]
<1> DEFINE w == World(id)
<1>1. w \in Worlds
  BY DEF World, Worlds, WInv, AgreesWithSteam, TypeOK
<1>2. w.it = item[id] /\ w.queries = queries /\ w.live = (id \in workshop_items)
  BY DEF World
<1> HIDE DEF w
<1>3. id \notin workshop_items => item[id] = NewItem
  BY DEF WInv, AgreesWithSteam, TypeOK
<1>4. NewItem.handle = None
  BY DEF NewItem
<1>5. queries = Others(id) \cup ({item[id].handle} \ {None})
  BY <1>3, <1>4 DEF WInv, AgreesWithSteam, QueriesOwned, Others
<1>6. item[id].handle \notin Others(id) /\ None \notin Others(id)
  BY <1>3, <1>4 DEF WInv, AgreesWithSteam, QueriesOwned, Others
<1>7. /\ "details_query_active" \in item[id].state <=> item[id].call # None
      /\ item[id].call # None => item[id].call = item[id].handle
      /\ item[id].state \cap {"details_query_active", "download_active"} # {} => workshop_initalized
  BY DEF WInv, AgreesWithSteam, ActiveMeansPending
<1>8. Sound(w, Others(id), workshop_initalized)
  BY <1>1, <1>2, <1>5, <1>6, <1>7 DEF Sound
<1>9. Forgotten(w)
  BY <1>2, <1>3 DEF Forgotten
<1> QED
  BY <1>2, <1>8, <1>9 DEF w

\* What a handler leaves behind.
LEMMA CommitMeans ==
  ASSUME NEW id, NEW w, Commit(id, w)
  PROVE  /\ workshop_items' = IF w.live THEN workshop_items \cup {id} ELSE workshop_items \ {id}
         /\ item' = [item EXCEPT ![id] = w.it]
         /\ queries' = w.queries
         /\ links' = w.links /\ maps_dir' = w.maps_dir /\ vpks' = w.vpks
         /\ downloads' = w.downloads
         /\ robbed' = IF id \in workshop_items /\ ~w.live /\ Holders(id)' # {}
                      THEN robbed \cup {id} ELSE robbed
BY DEF Commit

\* The queries of the items are those of the others and the item's own.
LEMMA OwnedAfter ==
  ASSUME WInv, NEW id \in Ids, NEW w, Sound(w, Others(id), workshop_initalized),
         Forgotten(w),
         workshop_items' = IF w.live THEN workshop_items \cup {id} ELSE workshop_items \ {id},
         item' = [item EXCEPT ![id] = w.it],
         queries' = w.queries
  PROVE  QueriesOwned'
<1>1. item \in [Ids -> Item] /\ workshop_items \subseteq Ids
  BY DEF WInv, AgreesWithSteam, TypeOK
<1>2. item'[id] = w.it /\ \A i \in Ids \ {id} : item'[i] = item[i]
  BY <1>1
<1>3. workshop_items' \ {id} = workshop_items \ {id} /\ workshop_items' \subseteq Ids
  BY <1>1
<1>4. {item'[i].handle : i \in workshop_items' \ {id}} \ {None} = Others(id)
  BY <1>1, <1>2, <1>3 DEF Others
<1>5. NewItem.handle = None
  BY DEF NewItem
<1>6. w.it.handle # None => id \in workshop_items'
  BY <1>5 DEF Forgotten
<1>7. queries' = {item'[i].handle : i \in workshop_items'} \ {None}
  BY <1>2, <1>4, <1>6 DEF Sound
<1>8. ASSUME NEW i \in workshop_items', NEW j \in workshop_items',
             item'[i].handle = item'[j].handle, i # j
      PROVE  item'[i].handle = None
  <2>1. CASE i = id
    BY <1>2, <1>4, <1>8, <2>1 DEF Sound
  <2>2. CASE j = id
    BY <1>2, <1>4, <1>8, <2>2 DEF Sound
  <2>3. CASE i # id /\ j # id
    <3>1. i \in workshop_items /\ j \in workshop_items
          /\ item'[i] = item[i] /\ item'[j] = item[j]
      BY <1>1, <1>2, <1>3, <2>3
    <3> QED
      BY <1>8, <3>1 DEF WInv, AgreesWithSteam, QueriesOwned
  <2> QED
    BY <2>1, <2>2, <2>3
<1> QED
  BY <1>7, <1>8 DEF QueriesOwned

\* A handler of item id ends, with n references of mods if the item is there.
Ends(id, n) ==
  /\ \A i \in Ids \ {id} : item'[i] = item[i] /\ (i \in workshop_items' <=> i \in workshop_items)
  /\ item'[id].mods = IF id \in workshop_items' THEN n ELSE 0
  /\ robbed' = IF id \in workshop_items /\ id \notin workshop_items' /\ Holders(id)' # {}
               THEN robbed \cup {id} ELSE robbed

\* A handler changes its own item, and robs the mods that hold it if it goes.
LEMMA CommitEnds ==
  ASSUME WInv, NEW id \in Ids, NEW w, Forgotten(w), Commit(id, w)
  PROVE  Ends(id, w.it.mods) /\ (id \in workshop_items' <=> w.live)
<1>1. item \in [Ids -> Item] /\ NewItem.mods = 0
  BY DEF WInv, AgreesWithSteam, TypeOK, NewItem
<1>2. item'[id] = w.it /\ \A i \in Ids \ {id} : item'[i] = item[i]
  BY <1>1, CommitMeans
<1>3. /\ id \in workshop_items' <=> w.live
      /\ \A i \in Ids \ {id} : i \in workshop_items' <=> i \in workshop_items
  BY CommitMeans
<1>4. robbed' = IF id \in workshop_items /\ ~w.live /\ Holders(id)' # {}
                THEN robbed \cup {id} ELSE robbed
  BY CommitMeans
<1> QED
  BY <1>1, <1>2, <1>3, <1>4 DEF Ends, Forgotten

\* A handler that ends in a sound world leaves the workshop in agreement.
LEMMA CommitAgrees ==
  ASSUME WInv, NEW id \in Ids, NEW w, Sound(w, Others(id), workshop_initalized),
         Forgotten(w), Commit(id, w), UNCHANGED workshop_initalized, Aside'
  PROVE  WInv'
<1>1. item \in [Ids -> Item] /\ workshop_items \subseteq Ids /\ robbed \subseteq Ids
      /\ \A i \in Ids \ workshop_items : item[i] = NewItem
  BY DEF WInv, AgreesWithSteam, TypeOK
<1>2. w \in Worlds
  BY DEF Sound
<1>3. item'[id] = w.it /\ item' \in [Ids -> Item] /\ \A i \in Ids \ {id} : item'[i] = item[i]
  BY <1>1, <1>2, CommitMeans DEF Worlds
<1>4. QueriesOwned'
  BY OwnedAfter, CommitMeans
<1>5. ActiveMeansPending'
  BY <1>3 DEF WInv, AgreesWithSteam, ActiveMeansPending, Sound
<1>6. \A i \in Ids \ workshop_items' : item'[i] = NewItem
  BY <1>1, <1>3, CommitMeans DEF Forgotten
<1>7. /\ queries' \subseteq Handles /\ downloads' \subseteq Ids /\ vpks' \subseteq Ids
      /\ links' \in [Ids \cup Names -> Ids \cup {None}] /\ maps_dir' \in BOOLEAN
  BY <1>2, CommitMeans DEF Worlds
<1>8. workshop_items' \subseteq Ids /\ robbed' \subseteq Ids
  BY <1>1, CommitMeans
<1>9. TypeOK'
  BY <1>3, <1>6, <1>7, <1>8 DEF TypeOK, Aside, WInv, AgreesWithSteam
<1> QED
  BY <1>4, <1>5, <1>9 DEF WInv, AgreesWithSteam, Aside

\* Types of what a handler is given.
LEMMA LuckIsDone == ASSUME NEW calls, NEW ok \in Luck(calls) PROVE ok \subseteq calls
BY DEF Luck

-----------------------------------------------------------------------------
(* One lemma per kind of step *)

\* vmod_workshop_track: the reference is the user's.
LEMMA TrackStep ==
  ASSUME WInv, NEW id \in Ids, NEW ok, NEW h \in NewHandles(World(id), ok),
         workshop_initalized, UNCHANGED workshop_initalized, Aside',
         Commit(id, track_workshop_item(World(id), TRUE, ok, h))
  PROVE  WInv' /\ Ends(id, item[id].mods)
<1> DEFINE t == track_workshop_item(World(id), TRUE, ok, h)
<1>1. workshop_initalized = TRUE
  BY DEF WInv, AgreesWithSteam, TypeOK
<1>2. Sound(World(id), Others(id), TRUE)
  BY <1>1, WorldSound
<1>3. Tracked(t, World(id), TRUE, Others(id))
  BY <1>2, TrackTracks
<1> HIDE DEF t
<1>4. Sound(t, Others(id), workshop_initalized) /\ Forgotten(t)
  BY <1>1, <1>3 DEF Tracked, Forgotten
<1>5. Commit(id, t)
  BY DEF t
<1>6. t.it.mods = item[id].mods
  BY <1>3, WorldSound DEF Tracked, More
<1> QED
  BY <1>4, <1>5, <1>6, CommitAgrees, CommitEnds

\* vmod_workshop_untrack: so is the one it drops.
LEMMA UntrackStep ==
  ASSUME WInv, NEW id \in Ids, NEW ok,
         UNCHANGED workshop_initalized, Aside',
         Commit(id, untrack_workshop_item(id, World(id), TRUE, ok))
  PROVE  WInv' /\ Ends(id, item[id].mods)
<1> DEFINE u == untrack_workshop_item(id, World(id), TRUE, ok)
<1>1. workshop_initalized \in BOOLEAN
  BY DEF WInv, AgreesWithSteam, TypeOK
<1>2. Untracked(u, World(id), TRUE, Others(id), workshop_initalized)
  BY <1>1, WorldSound, UntrackUntracks
<1> HIDE DEF u
<1>3. Commit(id, u)
  BY DEF u
<1>4. u.it.mods = item[id].mods
  BY <1>2, WorldSound DEF Untracked, Less
<1> QED
  BY <1>2, <1>3, <1>4, CommitAgrees, CommitEnds DEF Untracked

\* A callback that finds nothing to do.
LEMMA UnchangedStep ==
  ASSUME WInv, NEW id \in Ids, UNCHANGED workshop_initalized, Aside', Commit(id, World(id))
  PROVE  WInv' /\ Ends(id, item[id].mods)
<1>1. Ends(id, World(id).it.mods)
  BY WorldSound, CommitEnds
<1> QED
  BY <1>1, WorldSound, CommitAgrees

-----------------------------------------------------------------------------
(* What mods hold *)

\* The references of mods to the item that m names after m gave back what it
\* held, and after it perhaps took it again.
Given(m) == IF mods[m] \in {"absent", "refused"} THEN item[WorkshopFile[m]].mods
            ELSE Less(item[WorkshopFile[m]].mods, FALSE)
\* The same after m took what it now holds.
Taken(m) == IF mods'[m] = "held" THEN Given(m) + 1 ELSE Given(m)

\* A world in which m has given back what it held.
ModUntracked(w, m) ==
  /\ Sound(w, Others(WorkshopFile[m]), workshop_initalized) /\ Forgotten(w)
  /\ w.it.mods = Given(m)
  /\ w.it.mods > 0 => w.live

\* A mod that has no object, or whose id was refused, holds nothing.
LEMMA WorldUntracked ==
  ASSUME WInv, NEW m \in Mods, mods[m] \in {"absent", "refused"}
  PROVE  ModUntracked(World(WorkshopFile[m]), m)
<1>1. WorkshopFile[m] \in Ids
  BY ConstAssumption
<1>2. ~World(WorkshopFile[m]).live => World(WorkshopFile[m]).it.mods = 0
  BY <1>1, WorldSound DEF Forgotten, NewItem
<1> QED
  BY <1>1, <1>2, WorldSound DEF ModUntracked, Given

\* mod::unload gives back one reference, or none if the id was refused.
LEMMA ModUntracksKeeps ==
  ASSUME WInv, NEW m \in Mods, mods[m] # "absent", NEW ok
  PROVE  ModUntracked(ModUntracks(m, World(WorkshopFile[m]), ok), m)
<1> DEFINE id == WorkshopFile[m]
           u == ModUntracks(m, World(id), ok)
<1>1. workshop_initalized \in BOOLEAN /\ id \in Ids
  BY ConstAssumption DEF WInv, AgreesWithSteam, TypeOK
<1>2. CASE mods[m] = "refused"
  BY <1>2, WorldUntracked DEF ModUntracks
<1>3. CASE mods[m] # "refused"
  <2>1. u = untrack_workshop_item(id, World(id), FALSE, ok)
    BY <1>3 DEF ModUntracks
  <2>2. Untracked(u, World(id), FALSE, Others(id), workshop_initalized)
    <3> HIDE DEF id, u
    <3>1. Sound(World(id), Others(id), workshop_initalized) /\ Forgotten(World(id))
      BY <1>1, WorldSound
    <3> QED
      BY <1>1, <2>1, <3>1, UntrackUntracks
  <2> HIDE DEF u
  <2>3. u.it.mods = Given(m)
    BY <1>1, <1>3, <2>2, WorldSound DEF Untracked, Given
  <2>4. ModUntracked(u, m)
    BY <2>2, <2>3 DEF ModUntracked, Untracked
  <2> QED
    BY <2>4 DEF u
<1> QED
  BY <1>2, <1>3

\* mod::init takes one reference if the workshop is initialized.
LEMMA ModTracksKeeps ==
  ASSUME WInv, NEW others, NEW w, Sound(w, others, workshop_initalized), Forgotten(w),
         NEW ok, NEW h \in NewHandles(w, ok)
  PROVE  LET t == ModTracks(w, ok, h) IN
         /\ Sound(t, others, workshop_initalized) /\ Forgotten(t)
         /\ t.it.mods = (IF workshop_initalized THEN w.it.mods + 1 ELSE w.it.mods)
         /\ t.live = (workshop_initalized \/ w.live)
<1> DEFINE t == track_workshop_item(w, FALSE, ok, h)
<1>0. workshop_initalized \in BOOLEAN /\ w.live \in BOOLEAN
  BY DEF WInv, AgreesWithSteam, TypeOK, Sound, Worlds
<1>1. CASE workshop_initalized
  <2>1. workshop_initalized = TRUE
    BY <1>0, <1>1
  <2>2. Tracked(t, w, FALSE, others)
    BY <2>1, TrackTracks
  <2>3. ModTracks(w, ok, h) = t
    BY <2>1 DEF ModTracks
  <2> HIDE DEF t
  <2>4. t.live = TRUE
    BY <2>2 DEF Tracked, Sound, Worlds
  <2> QED
    BY <2>1, <2>2, <2>3, <2>4 DEF Tracked, Forgotten, More
<1>2. CASE ~workshop_initalized
  <2>1. ModTracks(w, ok, h) = w
    BY <1>2 DEF ModTracks
  <2>2. w.live = (workshop_initalized \/ w.live)
    BY <1>0, <1>2
  <2> QED
    BY <1>2, <2>1, <2>2
<1> QED
  BY <1>1, <1>2

\* A destroyed item leaves no references, whatever was said about their number.
LEMMA DestroyStep ==
  ASSUME WInv, NEW id \in Ids, NEW ok, NEW w, Sound(w, Others(id), workshop_initalized),
         UNCHANGED workshop_initalized, Aside', Commit(id, Destroyed(id, w, ok))
  PROVE  WInv' /\ \A n : Ends(id, n)
<1> DEFINE d == Destroyed(id, w, ok)
<1>1. workshop_initalized \in BOOLEAN
  BY DEF WInv, AgreesWithSteam, TypeOK
<1>2. Sound(d, Others(id), FALSE) /\ d.it = NewItem /\ d.live = FALSE
  BY <1>1, DestroyedIsGone
<1> HIDE DEF d
<1>3. Sound(d, Others(id), workshop_initalized) /\ Forgotten(d)
  BY <1>2 DEF Sound, Forgotten
<1>4. Commit(id, d)
  BY DEF d
<1>5. Ends(id, d.it.mods) /\ id \notin workshop_items'
  BY <1>2, <1>3, <1>4, CommitEnds
<1>6. \A n : Ends(id, n)
  BY <1>5 DEF Ends
<1> QED
  BY <1>3, <1>4, <1>6, CommitAgrees

\* A step that leaves the items, the queries and the disk alone.
LEMMA PlainStep ==
  ASSUME WInv, Aside', workshop_initalized' = workshop_initalized \/ ~workshop_initalized,
         workshop_initalized' \in BOOLEAN,
         UNCHANGED <<workshop_items, item, links, maps_dir, vpks, queries, downloads, robbed>>
  PROVE  WInv'
<1>1. TypeOK'
  BY DEF WInv, AgreesWithSteam, TypeOK, Aside
<1>2. QueriesOwned'
  BY DEF WInv, AgreesWithSteam, QueriesOwned
<1>3. ActiveMeansPending'
  BY DEF WInv, AgreesWithSteam, ActiveMeansPending
<1> QED
  BY <1>1, <1>2, <1>3 DEF WInv, AgreesWithSteam, Aside

\* Logging off cancels every item, so no handle and no call is left.
LEMMA LoggedOffStep == WInv /\ LoggedOff => WInv'
<1> SUFFICES ASSUME WInv, LoggedOff PROVE WInv'
  OBVIOUS
<1>0. item \in [Ids -> Item] /\ workshop_items \subseteq Ids
      /\ \A i \in Ids \ workshop_items : item[i] = NewItem
  BY DEF WInv, AgreesWithSteam, TypeOK
<1>1. ASSUME NEW id \in Ids
      PROVE  /\ item'[id] \in Item /\ item'[id].handle = None /\ item'[id].call = None
             /\ item'[id].state \cap {"details_query_active", "download_active"} = {}
             /\ item[id] = NewItem => item'[id] = NewItem
  <2>1. Sound(World(id), Others(id), workshop_initalized) /\ World(id).it = item[id]
        /\ workshop_initalized \in BOOLEAN
    BY WorldSound DEF WInv, AgreesWithSteam, TypeOK
  <2>2. item'[id] = cancel(World(id)).it
    BY DEF LoggedOff
  <2>3. Sound(cancel(World(id)), Others(id), FALSE) /\ cancel(World(id)).it.handle = None
    BY <2>1, CancelKeeps DEF Keeps
  <2>4. cancel(World(id)).it = [item[id] EXCEPT !.handle = None, !.call = None,
                                  !.state = @ \ {"details_query_active", "download_active"}]
    BY <2>1 DEF cancel, World
  <2>5. NewItem = [NewItem EXCEPT !.handle = None, !.call = None,
                                  !.state = @ \ {"details_query_active", "download_active"}]
    <3>1. {} \ {"details_query_active", "download_active"} = {}
      OBVIOUS
    <3>2. NewItem.state = {} /\ NewItem.handle = None /\ NewItem.call = None
      BY DEF NewItem
    <3>3. NewItem = [NewItem EXCEPT !.handle = None, !.call = None, !.state = {}]
      BY <3>2, NewItemFits DEF Item
    <3> QED
      BY <3>1, <3>2, <3>3
  <2> QED
    BY <2>2, <2>3, <2>4, <2>5 DEF Sound, Worlds
<1>2. item' \in [Ids -> Item] /\ \A i \in Ids \ workshop_items' : item'[i] = NewItem
  BY <1>0, <1>1 DEF LoggedOff
<1>3. queries' = {}
  BY DEF LoggedOff, WInv, AgreesWithSteam, QueriesOwned
<1>4. QueriesOwned'
  BY <1>0, <1>1, <1>3 DEF LoggedOff, QueriesOwned
<1>5. ActiveMeansPending'
  BY <1>1 DEF ActiveMeansPending
<1>6. TypeOK'
  BY <1>2, <1>3 DEF LoggedOff, WInv, AgreesWithSteam, TypeOK, disk
<1>7. Walks'
  BY DEF LoggedOff, Idle, Walks
<1> QED
  BY <1>4, <1>5, <1>6, <1>7 DEF WInv, AgreesWithSteam

\* The child of a collection: a new item, asked about at once.
LEMMA ChildIsFresh ==
  ASSUME NEW w \in Worlds, NEW ok, NEW h \in Handles \cup {None}
  PROVE  LET it == query_details([w EXCEPT !.it = NewItem], ok, h).it
         IN  /\ it \in Item /\ it.handle = h /\ it.mods = 0
             /\ "details_query_active" \in it.state <=> it.call # None
             /\ it.call # None => it.call = h
<1> DEFINE v == [w EXCEPT !.it = NewItem]
           sent == h # None /\ "send" \in ok
           it == [NewItem EXCEPT !.handle = h, !.call = IF sent THEN h ELSE None,
                                 !.state = IF sent THEN @ \cup {"details_query_active"} ELSE @]
           x == [v EXCEPT !.queries = (@ \ {NewItem.handle}) \cup ({h} \ {None}), !.it = it]
<1>1. v \in Worlds /\ v.it = NewItem
  BY NewItemFits DEF Worlds
<1> HIDE DEF v
<1>2. NewItem.state = {} /\ NewItem.mods = 0 /\ NewItem.handle = None /\ NewItem.call = None
  BY DEF NewItem
<1>3. ~Queried(v.it) /\ "details_query_active" \notin v.it.state
  BY <1>1, <1>2 DEF Queried
<1>4. query_details(v, ok, h) = x
  BY <1>1, <1>3, NewItemFits DEF query_details, Worlds, Item
<1>5. it \in Item /\ it.handle = h /\ it.call = (IF sent THEN h ELSE None) /\ it.mods = 0
      /\ it.state = (IF sent THEN {"details_query_active"} ELSE {})
  BY <1>2, NewItemFits DEF Item, Flags
<1> HIDE DEF it
<1>6. x.it = it
  BY <1>1 DEF Worlds
<1> HIDE DEF x
<1> QED
  BY <1>4, <1>5, <1>6 DEF v

\* What the answer of a collection leaves: its children in its place.
Replaced(id, new, w, h) ==
  /\ new \subseteq Ids /\ new \cap (workshop_items \ {id}) = {}
  /\ w \in Worlds /\ w.queries = Others(id)
  /\ h \in [new -> (Handles \ w.queries) \cup {None}]
  /\ \A c, d \in new : h[c] = h[d] => c = d \/ h[c] = None
  /\ workshop_items' = (workshop_items \ {id}) \cup new
  /\ queries' = w.queries \cup ({h[c] : c \in new} \ {None})
  /\ links' = w.links /\ maps_dir' = w.maps_dir /\ vpks' = w.vpks
  /\ robbed' = IF Holders(id) # {} THEN robbed \cup {id} ELSE robbed
  /\ item' \in [Ids -> Item]
  /\ \A i \in Ids \ new : item'[i] = IF i = id THEN NewItem ELSE item[i]
  /\ \A c \in new :
       /\ item'[c].handle = h[c] /\ item'[c].mods = 0
       /\ "details_query_active" \in item'[c].state <=> item'[c].call # None
       /\ item'[c].call # None => item'[c].call = h[c]

\* A resolved collection is replaced by children that nobody refers to.
LEMMA CollectionReplaced ==
  ASSUME WInv, NEW id \in Ids, ResolveCollection(id)
  PROVE  \E new, w, h : Replaced(id, new, w, h)
<1>1. PICK ok \in Luck(Releasing) :
        LET w   == Destroyed(id, Answered(World(id)), ok)
            new == Children[id] \ (workshop_items \ {id})
        IN \E h \in [new -> (Handles \ w.queries) \cup {None}] :
           \E sent \in SUBSET {c \in new : h[c] # None} :
             /\ \A c, d \in new : h[c] = h[d] => c = d \/ h[c] = None
             /\ "create" \notin Failing => \A c \in new : h[c] # None
             /\ "send" \notin Failing => \A c \in new : h[c] # None => c \in sent
             /\ workshop_items' = (workshop_items \ {id}) \cup new
             /\ item' = [i \in Ids |->
                  IF i \in new
                  THEN query_details([w EXCEPT !.it = NewItem],
                                     IF i \in sent THEN {"send"} ELSE {}, h[i]).it
                  ELSE IF i = id THEN NewItem ELSE item[i]]
             /\ queries' = w.queries \cup ({h[c] : c \in new} \ {None})
             /\ links' = w.links /\ maps_dir' = w.maps_dir /\ vpks' = w.vpks
             /\ robbed' = IF Holders(id) # {} THEN robbed \cup {id} ELSE robbed
  BY DEF ResolveCollection
<1> DEFINE w == Destroyed(id, Answered(World(id)), ok)
           new == Children[id] \ (workshop_items \ {id})
<1>2. Sound(w, Others(id), FALSE) /\ w.it = NewItem
  <2>1. workshop_initalized \in BOOLEAN
    BY DEF WInv, AgreesWithSteam, TypeOK
  <2>2. Sound(Answered(World(id)), Others(id), workshop_initalized)
    BY <2>1, WorldSound, AnsweredKeeps DEF Keeps
  <2> QED
    BY <2>1, <2>2, DestroyedIsGone
<1>3. w \in Worlds /\ w.queries = Others(id)
  <2>1. NewItem.handle = None
    BY DEF NewItem
  <2> QED
    BY <1>2, <2>1 DEF Sound
<1>4. new \subseteq Ids /\ new \cap (workshop_items \ {id}) = {}
  BY ConstAssumption
<1> HIDE DEF w, new
<1>5. PICK h \in [new -> (Handles \ w.queries) \cup {None}] :
      \E sent \in SUBSET {c \in new : h[c] # None} :
             /\ \A c, d \in new : h[c] = h[d] => c = d \/ h[c] = None
             /\ "create" \notin Failing => \A c \in new : h[c] # None
             /\ "send" \notin Failing => \A c \in new : h[c] # None => c \in sent
             /\ workshop_items' = (workshop_items \ {id}) \cup new
             /\ item' = [i \in Ids |->
                  IF i \in new
                  THEN query_details([w EXCEPT !.it = NewItem],
                                     IF i \in sent THEN {"send"} ELSE {}, h[i]).it
                  ELSE IF i = id THEN NewItem ELSE item[i]]
             /\ queries' = w.queries \cup ({h[c] : c \in new} \ {None})
             /\ links' = w.links /\ maps_dir' = w.maps_dir /\ vpks' = w.vpks
             /\ robbed' = IF Holders(id) # {} THEN robbed \cup {id} ELSE robbed
  BY <1>1 DEF w, new
<1>6. PICK sent : item' = [i \in Ids |->
                  IF i \in new
                  THEN query_details([w EXCEPT !.it = NewItem],
                                     IF i \in sent THEN {"send"} ELSE {}, h[i]).it
                  ELSE IF i = id THEN NewItem ELSE item[i]]
  BY <1>5
<1>7. ASSUME NEW c \in new
      PROVE  /\ item'[c] \in Item /\ item'[c].handle = h[c] /\ item'[c].mods = 0
             /\ "details_query_active" \in item'[c].state <=> item'[c].call # None
             /\ item'[c].call # None => item'[c].call = h[c]
  <2>1. item'[c] = query_details([w EXCEPT !.it = NewItem],
                                 IF c \in sent THEN {"send"} ELSE {}, h[c]).it
    BY <1>4, <1>6
  <2>2. h[c] \in Handles \cup {None}
    BY <1>5
  <2> QED
    BY <1>3, <2>1, <2>2, ChildIsFresh
<1>8. \A i \in Ids \ new : item'[i] = IF i = id THEN NewItem ELSE item[i]
  BY <1>6
<1>9. item' \in [Ids -> Item]
  <2>1. item \in [Ids -> Item]
    BY DEF WInv, AgreesWithSteam, TypeOK
  <2>2. DOMAIN item' = Ids /\ item' = [i \in Ids |-> item'[i]]
    BY <1>6
  <2> QED
    BY <1>7, <1>8, <2>1, <2>2, NewItemFits
<1>10. Replaced(id, new, w, h)
  BY <1>3, <1>4, <1>5, <1>7, <1>8, <1>9 DEF Replaced
<1> QED
  BY <1>10

\* Its handle is released, and each child has one of its own.
LEMMA CollectionStep ==
  ASSUME WInv, NEW id \in Ids, ResolveCollection(id)
  PROVE  WInv'
<1>1. PICK new, w, h : Replaced(id, new, w, h)
  BY CollectionReplaced
<1>0. /\ item \in [Ids -> Item] /\ workshop_items \subseteq Ids /\ robbed \subseteq Ids
      /\ \A i \in Ids \ workshop_items : item[i] = NewItem
  BY DEF WInv, AgreesWithSteam, TypeOK
<1>2. UNCHANGED <<workshop_initalized, mods, mapname, command, left, downloads, installed>>
      /\ Idle /\ workshop_initalized
  BY DEF ResolveCollection, Pending, WInv, AgreesWithSteam, ActiveMeansPending
<1>3. \A i \in workshop_items \ {id} : i \in Ids \ new /\ item'[i] = item[i]
  BY <1>0, <1>1 DEF Replaced
<1>4. QueriesOwned'
  <2>1. {item'[i].handle : i \in workshop_items'} =
          {item[i].handle : i \in workshop_items \ {id}} \cup {h[c] : c \in new}
    BY <1>1, <1>3 DEF Replaced
  <2>2. queries' = {item'[i].handle : i \in workshop_items'} \ {None}
    BY <1>1, <2>1 DEF Replaced, Others
  <2>3. ASSUME NEW i \in workshop_items', NEW j \in workshop_items',
               item'[i].handle = item'[j].handle, i # j
        PROVE  item'[i].handle = None
    <3>1. \A c \in new : item'[c].handle \notin Others(id)
      BY <1>1, ConstAssumption DEF Replaced, Others
    <3>2. \A k \in workshop_items \ {id} : item'[k].handle \in Others(id) \cup {None}
      BY <1>3 DEF Others
    <3>3. CASE i \in new /\ j \in new
      BY <1>1, <2>3, <3>3 DEF Replaced
    <3>4. CASE i \notin new /\ j \notin new
      BY <1>1, <1>3, <2>3, <3>4 DEF Replaced, WInv, AgreesWithSteam, QueriesOwned
    <3>5. CASE ~(i \in new <=> j \in new)
      BY <1>1, <2>3, <3>1, <3>2, <3>5 DEF Replaced
    <3> QED
      BY <3>3, <3>4, <3>5
  <2> QED
    BY <2>2, <2>3 DEF QueriesOwned
<1>5. ActiveMeansPending'
  <2>1. ASSUME NEW i \in Ids
        PROVE  /\ "details_query_active" \in item'[i].state <=> item'[i].call # None
               /\ item'[i].call # None => item'[i].call = item'[i].handle
    <3>1. NewItem.state = {} /\ NewItem.call = None
      BY DEF NewItem
    <3> QED
      BY <1>1, <3>1 DEF Replaced, WInv, AgreesWithSteam, ActiveMeansPending
  <2> QED
    BY <1>2, <2>1 DEF ActiveMeansPending
<1>6. \A i \in Ids \ workshop_items' : item'[i] = NewItem
  BY <1>0, <1>1 DEF Replaced
<1>7. TypeOK'
  <2>1. /\ queries' \subseteq Handles /\ vpks' \subseteq Ids
        /\ links' \in [Ids \cup Names -> Ids \cup {None}] /\ maps_dir' \in BOOLEAN
    BY <1>1 DEF Replaced, Worlds
  <2>2. workshop_items' \subseteq Ids /\ robbed' \subseteq Ids /\ item' \in [Ids -> Item]
    BY <1>0, <1>1 DEF Replaced
  <2> QED
    BY <1>2, <1>6, <2>1, <2>2 DEF TypeOK, WInv, AgreesWithSteam
<1>8. Walks'
  BY <1>2 DEF Walks, Idle
<1> QED
  BY <1>4, <1>5, <1>7, <1>8 DEF WInv, AgreesWithSteam

\* The map is empty at first.
LEMMA InitAgrees == Init => WInv
<1> SUFFICES ASSUME Init PROVE WInv
  OBVIOUS
<1>1. NewItem \in Item /\ NewItem.state = {} /\ NewItem.handle = None /\ NewItem.call = None
  BY NewItemFits DEF NewItem
<1>2. TypeOK
  BY <1>1 DEF Init, TypeOK
<1>3. QueriesOwned /\ ActiveMeansPending
  BY <1>1 DEF Init, QueriesOwned, ActiveMeansPending
<1>4. Walks
  BY DEF Init, Walks
<1> QED
  BY <1>2, <1>3, <1>4 DEF WInv, AgreesWithSteam

\* A step between commands leaves no refresh under way.
LEMMA IdleAside ==
  ASSUME WInv, Idle, UNCHANGED <<mapname, command, left>>,
         mods' \in [Mods -> {"absent", "refused", "held", "dropped"}], installed' \subseteq Ids
  PROVE  Aside'
BY DEF WInv, AgreesWithSteam, TypeOK, Aside, Walks, Idle

\* A step of a command that visits x.
LEMMA VisitAside ==
  ASSUME WInv, NEW what, NEW x, Visit(what, x), what # "refresh",
         UNCHANGED <<mapname, installed>>,
         mods' \in [Mods -> {"absent", "refused", "held", "dropped"}]
  PROVE  Aside'
<1>1. command' \in {what, "none", "destroy"}
  BY DEF Visit
<1>2. left' \subseteq left \cup Mods
  BY DEF Visit, Present
<1> QED
  BY <1>1, <1>2 DEF WInv, AgreesWithSteam, TypeOK, Aside, Walks, Visit

\* The steps that touch no item.
LEMMA PlainSteps ==
  ASSUME WInv, \/ LoggedOn \/ UnloadMods \/ Clear \/ Refresh
               \/ \E map \in Maps \cup {NoName} : ChangeMap(map)
               \/ UNCHANGED vars
  PROVE  WInv'
<1>0. workshop_initalized \in BOOLEAN /\ workshop_items \subseteq Ids
      /\ mods \in [Mods -> {"absent", "refused", "held", "dropped"}] /\ installed \subseteq Ids
  BY DEF WInv, AgreesWithSteam, TypeOK
<1>1. CASE LoggedOn
  BY <1>0, <1>1, IdleAside, PlainStep DEF LoggedOn, disk, steam
<1>2. CASE UnloadMods
  <2>1. Aside'
    BY <1>2 DEF UnloadMods, Begin, steam, Present, WInv, AgreesWithSteam, TypeOK, Aside, Walks
  <2> QED
    BY <1>0, <1>2, <2>1, PlainStep DEF UnloadMods, Begin, disk, steam
<1>3. CASE Clear
  <2>1. Aside'
    BY <1>3 DEF Clear, Begin, steam, WInv, AgreesWithSteam, TypeOK, Aside, Walks
  <2> QED
    BY <1>0, <1>3, <2>1, PlainStep DEF Clear, Begin, disk, steam
<1>4. CASE Refresh
  <2>1. Aside'
    BY <1>4 DEF Refresh, Begin, steam, WInv, AgreesWithSteam, TypeOK, Aside, Walks
  <2> QED
    BY <1>0, <1>4, <2>1, PlainStep DEF Refresh, Begin, disk, steam
<1>5. ASSUME NEW map \in Maps \cup {NoName}, ChangeMap(map) PROVE WInv'
  <2>1. Aside'
    BY <1>5 DEF ChangeMap, WInv, AgreesWithSteam, TypeOK, Aside, Walks, steam, Idle
  <2> QED
    BY <1>0, <1>5, <2>1, PlainStep DEF ChangeMap, disk, steam
<1>6. CASE UNCHANGED vars
  <2>1. Aside'
    BY <1>6 DEF vars, steam, disk, WInv, AgreesWithSteam, TypeOK, Aside, Walks
  <2> QED
    BY <1>0, <1>6, <2>1, PlainStep DEF vars, disk, steam
<1> QED
  BY <1>1, <1>2, <1>3, <1>4, <1>5, <1>6

\* vmod_workshop_refresh goes on only while the workshop is initialized.
LEMMA RefreshOneStep ==
  ASSUME WInv, NEW id \in Ids, RefreshOne(id)
  PROVE  WInv' /\ Ends(id, item[id].mods)
<1> DEFINE w == cancel(World(id))
<1>1. command = "refresh" /\ id \in left /\ workshop_initalized = TRUE /\ left \subseteq workshop_items
  BY DEF RefreshOne, Visit, WInv, Walks, AgreesWithSteam, TypeOK
<1>2. Keeps(w, World(id), Others(id), FALSE) /\ World(id).live
  BY <1>1, WorldSound, CancelKeeps
<1>3. PICK ok \in Luck(Releasing \cup Asking \cup Installing) :
        \E h \in NewHandles(w, ok) : Commit(id, refresh(id, w, ok, h))
  BY DEF RefreshOne
<1>9. PICK h \in NewHandles(w, ok) : Commit(id, refresh(id, w, ok, h))
  BY <1>3
<1> HIDE DEF w
<1> DEFINE r == refresh(id, w, ok, h)
<1>4. Sound(w, Others(id), TRUE) /\ w.live
  BY <1>2 DEF Keeps, Same, Sound
<1>10. Keeps(r, w, Others(id), TRUE)
  BY <1>4, RefreshKeeps
<1>5. Sound(r, Others(id), TRUE) /\ r.live
  BY <1>4, <1>10 DEF Keeps, Same
<1>6. Commit(id, r)
  BY <1>9
<1> HIDE DEF r
<1>7. workshop_items' = workshop_items /\ left' \subseteq left
  BY <1>1, <1>5, <1>6, CommitMeans DEF RefreshOne, Visit
<1>8. Aside'
  BY <1>1, <1>7 DEF RefreshOne, Visit, WInv, AgreesWithSteam, TypeOK, Aside, Walks
<1> QED
  <2>1. r.it.mods = item[id].mods
    BY <1>2, <1>10, WorldSound DEF Keeps, Same
  <2>2. WInv'
    BY <1>1, <1>5, <1>6, <1>8, CommitAgrees DEF RefreshOne, Forgotten
  <2> QED
    BY <1>5, <1>6, <2>1, <2>2, CommitEnds DEF Forgotten

\* on_details_queried, which releases the handle of the call that is over.
LEMMA DetailsStep ==
  ASSUME WInv, NEW id \in Ids, on_details_queried(id)
  PROVE  WInv' /\ Ends(id, item[id].mods)
<1>1. workshop_initalized = TRUE /\ Idle /\ id \in workshop_items
  <2>1. NewItem.call = None
    BY DEF NewItem
  <2> QED
    BY <2>1 DEF on_details_queried, Pending, WInv, AgreesWithSteam, ActiveMeansPending, TypeOK
<1>2. PICK ok \in Luck({"result", "details", "children", "metadata"} \cup Installing),
           name \in MapNames[id] \cup (IF MapNames[id] = {} THEN {NoName} ELSE {}) :
        \E w \in {QueryReleased(Metadata(Details(id, Answered(World(id)), ok), ok, name))} :
        \E v \in {FirstDownload(id, w, ok)}: Commit(id, IfInstalled(id, v, ok))
  BY DEF on_details_queried
<1> DEFINE q == QueryReleased(Metadata(Details(id, Answered(World(id)), ok), ok, name))
           i == IfInstalled(id, FirstDownload(id, q, ok), ok)
<1>3. name \in Names \cup {NoName}
  BY ConstAssumption
<1>4. Sound(World(id), Others(id), TRUE) /\ World(id).live
  BY <1>1, WorldSound
<1>5. Keeps(i, World(id), Others(id), TRUE)
  BY <1>3, <1>4, QueriedKeeps
<1>6. Commit(id, i)
  BY <1>2
<1> HIDE DEF q, i
<1>7. Sound(i, Others(id), workshop_initalized) /\ Forgotten(i)
  BY <1>1, <1>4, <1>5 DEF Keeps, Same, Forgotten
<1>8. Aside'
  BY <1>1, IdleAside DEF on_details_queried, WInv, AgreesWithSteam, TypeOK
<1>9. i.it.mods = item[id].mods
  BY <1>5, WorldSound DEF Keeps, Same
<1> QED
  BY <1>6, <1>7, <1>8, <1>9, CommitAgrees, CommitEnds DEF on_details_queried

\* workshop_item_downloaded, or a result that nobody hears.
LEMMA DownloadResultStep ==
  ASSUME WInv, NEW id \in Ids, DownloadResult(id)
  PROVE  WInv' /\ Ends(id, item[id].mods)
<1>0. workshop_initalized \in BOOLEAN /\ installed \subseteq Ids /\ Idle
  BY DEF DownloadResult, WInv, AgreesWithSteam, TypeOK
<1>1. PICK ok \in Luck({"result", "info_download", "info", "symlink"}) :
        /\ installed' = IF "result" \in ok THEN installed \cup {id} ELSE installed
        /\ Commit(id, IF workshop_initalized THEN Downloaded(id, ok)
                      ELSE [World(id) EXCEPT !.downloads = @ \ {id}])
  BY DEF DownloadResult
<1> DEFINE p == [World(id) EXCEPT !.downloads = @ \ {id}]
           r == IF workshop_initalized THEN Downloaded(id, ok) ELSE p
<1>2. Keeps(p, World(id), Others(id), workshop_initalized)
      /\ Keeps(Downloaded(id, ok), World(id), Others(id), workshop_initalized)
  BY <1>0, WorldSound, DownloadedKeeps
<1>3. Sound(r, Others(id), workshop_initalized) /\ r.live = World(id).live
  BY <1>2 DEF Keeps, Same
<1>4. Commit(id, r)
  BY <1>1
<1>5. Forgotten(r)
  <2>1. CASE id \in workshop_items
    BY <1>3, <2>1, WorldSound DEF Forgotten
  <2>2. CASE id \notin workshop_items
    <3>1. World(id).it = NewItem /\ ~World(id).live /\ World(id) \in Worlds
      BY <2>2, WorldSound DEF Forgotten, Sound
    <3>2. p.it = NewItem
      BY <3>1 DEF Worlds
    <3>3. NewItem = [NewItem EXCEPT !.state = @ \ {"download_active"}]
      <4>1. {} \ {"download_active"} = {} /\ NewItem.state = {}
        BY DEF NewItem
      <4> QED
        BY <4>1, NewItemFits DEF Item
    <3>4. Downloaded(id, ok).it = NewItem
      BY <3>1, <3>3 DEF Downloaded, Worlds
    <3> QED
      BY <3>2, <3>4 DEF Forgotten
  <2> QED
    BY <2>1, <2>2
<1>6. Aside'
  BY <1>0, <1>1, IdleAside DEF DownloadResult, WInv, AgreesWithSteam, TypeOK
<1>7. r.it.mods = item[id].mods
  BY <1>2, WorldSound DEF Keeps, Same
<1> QED
  BY <1>3, <1>4, <1>5, <1>6, <1>7, CommitAgrees, CommitEnds DEF DownloadResult

\* workshop_item_installed.
LEMMA ItemInstalledStep ==
  ASSUME WInv, NEW id \in Ids, ItemInstalled(id)
  PROVE  WInv' /\ Ends(id, item[id].mods)
<1>0. workshop_initalized \in BOOLEAN /\ installed' \subseteq Ids /\ Idle
  BY DEF ItemInstalled, WInv, AgreesWithSteam, TypeOK
<1>1. PICK ok \in Luck({"info", "symlink"}) :
       Commit(id, IF workshop_initalized /\ id \in workshop_items
                  THEN IfInstalled(id, World(id), ok) ELSE World(id))
  BY DEF ItemInstalled
<1>2. Aside'
  BY <1>0, IdleAside DEF ItemInstalled, WInv, AgreesWithSteam, TypeOK
<1>3. CASE workshop_initalized /\ id \in workshop_items
  <2> DEFINE i == IfInstalled(id, World(id), ok)
  <2>1. Sound(World(id), Others(id), workshop_initalized) /\ World(id).live
    BY <1>3, WorldSound
  <2>2. Touches(i, World(id))
    BY <2>1, IfInstalledTouches DEF Sound
  <2>3. Commit(id, i)
    BY <1>1, <1>3
  <2> HIDE DEF i
  <2>4. Keeps(i, World(id), Others(id), workshop_initalized)
    BY <1>0, <2>1, <2>2, TouchesKeeps
  <2>5. i.it.mods = item[id].mods
    BY <2>4, WorldSound DEF Keeps, Same
  <2>6. Sound(i, Others(id), workshop_initalized) /\ Forgotten(i)
    BY <2>1, <2>4 DEF Keeps, Same, Forgotten
  <2> QED
    BY <1>2, <2>3, <2>5, <2>6, CommitAgrees, CommitEnds DEF ItemInstalled
<1>4. CASE ~(workshop_initalized /\ id \in workshop_items)
  BY <1>1, <1>2, <1>4, UnchangedStep DEF ItemInstalled
<1> QED
  BY <1>3, <1>4

\* Every step of an item keeps the agreement and the references of mods.
LEMMA ItemSteps ==
  ASSUME WInv, NEW id \in Ids, ItemStep(id)
  PROVE  WInv' /\ (ResolveCollection(id) \/ Ends(id, item[id].mods))
<1>0. workshop_initalized \in BOOLEAN
      /\ mods \in [Mods -> {"absent", "refused", "held", "dropped"}] /\ installed \subseteq Ids
  BY DEF WInv, AgreesWithSteam, TypeOK
<1>1. CASE Track(id)
  <2>1. PICK ok \in Luck(Asking) : \E h \in NewHandles(World(id), ok) :
          Commit(id, track_workshop_item(World(id), TRUE, ok, h))
    BY <1>1 DEF Track
  <2>2. Aside'
    BY <1>0, <1>1, IdleAside DEF Track
  <2> QED
    BY <1>1, <2>1, <2>2, TrackStep DEF Track
<1>2. CASE Untrack(id)
  <2>1. Aside'
    BY <1>0, <1>2, IdleAside DEF Untrack
  <2> QED
    BY <1>2, <2>1, UntrackStep DEF Untrack
<1>3. CASE ClearOne(id)
  <2>1. Aside'
    BY <1>0, <1>3, VisitAside DEF ClearOne
  <2>2. Sound(World(id), Others(id), workshop_initalized)
    BY WorldSound
  <2> QED
    BY <1>3, <2>1, <2>2, DestroyStep DEF ClearOne
<1>4. CASE RefreshOne(id)
  BY <1>4, RefreshOneStep
<1>5. CASE ResolveCollection(id)
  BY <1>5, CollectionStep
<1>6. CASE ResolveOther(id)
  <2>1. Aside'
    BY <1>0, <1>6, IdleAside DEF ResolveOther, Pending
  <2>2. Sound(Answered(World(id)), Others(id), workshop_initalized)
    BY <1>0, WorldSound, AnsweredKeeps DEF Keeps
  <2> QED
    BY <1>6, <2>1, <2>2, DestroyStep DEF ResolveOther
<1>7. CASE on_details_queried(id)
  BY <1>7, DetailsStep
<1>8. CASE DownloadResult(id)
  BY <1>8, DownloadResultStep
<1>9. CASE ItemInstalled(id)
  BY <1>9, ItemInstalledStep
<1> QED
  BY <1>1, <1>2, <1>3, <1>4, <1>5, <1>6, <1>7, <1>8, <1>9 DEF ItemStep

\* The item a mod names has the references the mod leaves it.
ModEnds(m) ==
  /\ Ends(WorkshopFile[m], Taken(m))
  /\ Taken(m) > 0 => WorkshopFile[m] \in workshop_items'

\* What a mod gives back is committed, and it takes nothing.
LEMMA ModUntracksStep ==
  ASSUME WInv, NEW m \in Mods, NEW ok, UNCHANGED workshop_initalized, Aside',
         mods[m] # "absent", mods'[m] # "held",
         Commit(WorkshopFile[m], ModUntracks(m, World(WorkshopFile[m]), ok))
  PROVE  WInv' /\ ModEnds(m)
<1> DEFINE id == WorkshopFile[m]
           u == ModUntracks(m, World(id), ok)
<1>1. id \in Ids
  BY ConstAssumption
<1>2. ModUntracked(u, m)
  BY ModUntracksKeeps
<1>3. Commit(id, u)
  OBVIOUS
<1> HIDE DEF id, u
<1>4. Sound(u, Others(id), workshop_initalized) /\ Forgotten(u)
  BY <1>2 DEF ModUntracked, id
<1>5. Ends(id, u.it.mods) /\ (id \in workshop_items' <=> u.live)
  BY <1>1, <1>3, <1>4, CommitEnds
<1>6. u.it.mods = Taken(m)
  BY <1>2 DEF ModUntracked, Taken
<1>7. ModEnds(m)
  BY <1>2, <1>5, <1>6 DEF ModEnds, ModUntracked, id
<1> QED
  BY <1>1, <1>3, <1>4, <1>7, CommitAgrees

\* What a mod takes after it gave back what it held.
LEMMA ModTracksStep ==
  ASSUME WInv, NEW m \in Mods, NEW w, ModUntracked(w, m), NEW ok, NEW h \in NewHandles(w, ok),
         UNCHANGED workshop_initalized, Aside', mods'[m] = AfterInit,
         Commit(WorkshopFile[m], ModTracks(w, ok, h))
  PROVE  WInv' /\ ModEnds(m)
<1> DEFINE id == WorkshopFile[m]
           t == ModTracks(w, ok, h)
<1>1. id \in Ids
  BY ConstAssumption
<1>2. Sound(w, Others(id), workshop_initalized) /\ Forgotten(w)
  BY DEF ModUntracked
<1>3. /\ Sound(t, Others(id), workshop_initalized) /\ Forgotten(t)
      /\ t.it.mods = (IF workshop_initalized THEN w.it.mods + 1 ELSE w.it.mods)
      /\ t.live = (workshop_initalized \/ w.live)
  BY <1>2, ModTracksKeeps
<1>4. Commit(id, t)
  OBVIOUS
<1> HIDE DEF id, t
<1>5. Ends(id, t.it.mods) /\ (id \in workshop_items' <=> t.live)
  BY <1>1, <1>3, <1>4, CommitEnds
<1>6. w.it.mods = Given(m) /\ (w.it.mods > 0 => w.live)
  BY DEF ModUntracked
<1>7. t.it.mods = Taken(m)
  BY <1>3, <1>6 DEF Taken, AfterInit
<1>8. Taken(m) > 0 => id \in workshop_items'
  <2>1. CASE workshop_initalized
    BY <1>3, <1>5, <2>1
  <2>2. CASE ~workshop_initalized
    BY <1>3, <1>5, <1>6, <1>7, <2>2
  <2> QED
    BY <2>1, <2>2
<1>9. ModEnds(m)
  BY <1>5, <1>7, <1>8 DEF ModEnds, id
<1> QED
  BY <1>1, <1>3, <1>4, <1>9, CommitAgrees

\* Every step of a mod keeps the agreement and moves one reference at most.
LEMMA ModSteps ==
  ASSUME WInv, UnloadPhases, NEW m \in Mods, ModStep(m)
  PROVE  WInv' /\ ModEnds(m)
<1> DEFINE id == WorkshopFile[m]
<1>0. /\ mods \in [Mods -> {"absent", "refused", "held", "dropped"}] /\ installed \subseteq Ids
      /\ AfterInit \in {"held", "refused"}
  BY DEF WInv, AgreesWithSteam, TypeOK, AfterInit
<1>i. id \in Ids
  BY ConstAssumption
<1>1. CASE ModInit(m)
  <2>1. PICK ok \in Luck(Asking) : \E h \in NewHandles(World(id), ok) :
          Commit(id, ModTracks(World(id), ok, h))
    BY <1>1 DEF ModInit
  <2>2. PICK h \in NewHandles(World(id), ok) : Commit(id, ModTracks(World(id), ok, h))
    BY <2>1
  <2>3. Aside'
    BY <1>0, <1>1, IdleAside DEF ModInit
  <2>4. mods[m] = "absent" /\ mods'[m] = AfterInit /\ UNCHANGED workshop_initalized
    BY <1>0, <1>1 DEF ModInit
  <2>5. ModUntracked(World(id), m)
    BY <1>i, <2>4, WorldUntracked
  <2> QED
    BY <2>2, <2>3, <2>4, <2>5, ModTracksStep
<1>2. CASE ModReload(m)
  <2>1. PICK ok \in Luck(Releasing \cup Asking) :
          \E h \in NewHandles(ModUntracks(m, World(id), ok), ok) :
            Commit(id, ModTracks(ModUntracks(m, World(id), ok), ok, h))
    BY <1>2 DEF ModReload
  <2> DEFINE u == ModUntracks(m, World(id), ok)
  <2>2. PICK h \in NewHandles(u, ok) : Commit(id, ModTracks(u, ok, h))
    BY <2>1
  <2>3. Aside'
    BY <1>0, <1>2, IdleAside DEF ModReload
  <2>4. mods[m] # "absent" /\ mods'[m] = AfterInit /\ UNCHANGED workshop_initalized
    BY <1>0, <1>2 DEF ModReload
  <2>5. ModUntracked(u, m)
    BY <2>4, ModUntracksKeeps
  <2> HIDE DEF u
  <2> QED
    BY <2>2, <2>3, <2>4, <2>5, ModTracksStep
<1>3. CASE ModDestroy(m)
  <2>1. Aside'
    BY <1>0, <1>3, IdleAside DEF ModDestroy
  <2>2. mods[m] # "absent" /\ mods'[m] # "held"
    BY <1>0, <1>3 DEF ModDestroy
  <2> QED
    BY <1>3, <2>1, <2>2, ModUntracksStep DEF ModDestroy
<1>4. CASE UnloadOne(m)
  <2>2. mods[m] # "absent"
    BY <1>4 DEF UnloadOne, Visit, UnloadPhases, Present
  <2>0. mods' \in [Mods -> {"absent", "refused", "held", "dropped"}] /\ mods'[m] # "held"
    BY <1>0, <1>4 DEF UnloadOne
  <2>1. Aside'
    BY <1>4, <2>0, VisitAside DEF UnloadOne
  <2> QED
    BY <1>4, <2>0, <2>1, <2>2, ModUntracksStep DEF UnloadOne
<1>5. CASE DestroyOne(m)
  <2>3. mods[m] # "absent"
    BY <1>5 DEF DestroyOne, Visit, UnloadPhases, Present
  <2>1. Aside'
    BY <1>0, <1>5, VisitAside DEF DestroyOne
  <2>2. mods'[m] # "held"
    BY <1>0, <1>5 DEF DestroyOne
  <2> QED
    BY <1>5, <2>1, <2>2, <2>3, ModUntracksStep DEF DestroyOne
<1> QED
  BY <1>1, <1>2, <1>3, <1>4, <1>5 DEF ModStep

\* The agreement is inductive, but only with Walks: without it a refresh could
\* begin to wait for Steam after the logon was lost.
LEMMA StepAgrees == WInv /\ UnloadPhases /\ [Next]_vars => WInv'
<1> SUFFICES ASSUME WInv, UnloadPhases, [Next]_vars PROVE WInv'
  OBVIOUS
<1>1. CASE LoggedOff
  BY <1>1, LoggedOffStep
<1>2. CASE \E id \in Ids : ItemStep(id)
  BY <1>2, ItemSteps
<1>3. CASE \E m \in Mods : ModStep(m)
  BY <1>3, ModSteps
<1>4. CASE \/ LoggedOn \/ UnloadMods \/ Clear \/ Refresh
           \/ \E map \in Maps \cup {NoName} : ChangeMap(map)
           \/ UNCHANGED vars
  BY <1>4, PlainSteps
<1> QED
  BY <1>1, <1>2, <1>3, <1>4 DEF Next

-----------------------------------------------------------------------------
(* References *)

\* A step that is none of a mod's changes what mods hold not at all, and what a
\* command has left only while it is not unloading.
LEMMA OtherPhases ==
  ASSUME UnloadPhases, UNCHANGED mods,
         \/ UNCHANGED <<command, left>>
         \/ Idle /\ command' \notin {"unload", "destroy"}
         \/ UnloadMods
         \/ \E x : Visit("clear", x) \/ Visit("refresh", x)
  PROVE  UnloadPhases'
<1>1. CASE UNCHANGED <<command, left>>
  BY <1>1 DEF UnloadPhases, Present
<1>2. CASE Idle /\ command' \notin {"unload", "destroy"}
  BY <1>2 DEF UnloadPhases, Idle
<1>3. CASE UnloadMods
  BY <1>3 DEF UnloadPhases, UnloadMods, Begin, Idle, Present
<1>4. CASE \E x : Visit("clear", x) \/ Visit("refresh", x)
  BY <1>4 DEF UnloadPhases, Visit
<1> QED
  BY <1>1, <1>2, <1>3, <1>4

\* What vmod_unload_mods does first and last is inductive too.
LEMMA StepPhases == WInv /\ UnloadPhases /\ [Next]_vars => UnloadPhases'
<1> SUFFICES ASSUME WInv, UnloadPhases, [Next]_vars PROVE UnloadPhases'
  OBVIOUS
<1>0. mods \in [Mods -> {"absent", "refused", "held", "dropped"}]
  BY DEF WInv, AgreesWithSteam, TypeOK
<1>1. CASE LoggedOn \/ LoggedOff \/ UnloadMods \/ Clear \/ Refresh \/ UNCHANGED vars
           \/ \E map \in Maps \cup {NoName} : ChangeMap(map)
  <2>1. UNCHANGED mods
    BY <1>1 DEF LoggedOn, LoggedOff, UnloadMods, Clear, Refresh, Begin, ChangeMap, vars
  <2>2. \/ UNCHANGED <<command, left>>
        \/ Idle /\ command' \notin {"unload", "destroy"}
        \/ UnloadMods
    BY <1>1 DEF LoggedOn, LoggedOff, Clear, Refresh, Begin, ChangeMap, vars
  <2> QED
    BY <2>1, <2>2, OtherPhases
<1>2. ASSUME NEW id \in Ids, ItemStep(id) PROVE UnloadPhases'
  <2>1. UNCHANGED mods
    BY <1>2 DEF ItemStep, Track, Untrack, ClearOne, RefreshOne, ResolveCollection, ResolveOther,
                on_details_queried, DownloadResult, ItemInstalled
  <2>2. UNCHANGED <<command, left>> \/ Visit("clear", id) \/ Visit("refresh", id)
    BY <1>2 DEF ItemStep, Track, Untrack, ClearOne, RefreshOne, ResolveCollection, ResolveOther,
                on_details_queried, DownloadResult, ItemInstalled
  <2> QED
    BY <2>1, <2>2, OtherPhases
<1>3. ASSUME NEW m \in Mods, ModStep(m) PROVE UnloadPhases'
  <2>1. CASE ModInit(m)
    BY <1>0, <2>1 DEF ModInit, UnloadPhases, Idle, AfterInit
  <2>2. CASE ModReload(m)
    BY <1>0, <2>2 DEF ModReload, UnloadPhases, Idle, AfterInit
  <2>3. CASE ModDestroy(m)
    BY <1>0, <2>3 DEF ModDestroy, UnloadPhases, Idle
  <2>4. CASE UnloadOne(m)
    <3>1. mods[m] # "absent" /\ mods' \in [Mods -> {"absent", "refused", "held", "dropped"}]
          /\ mods'[m] = (IF mods[m] = "held" THEN "dropped" ELSE mods[m])
          /\ \A n \in Mods \ {m} : mods'[n] = mods[n]
      BY <1>0, <2>4 DEF UnloadOne, Visit, UnloadPhases, Present
    <3>2. Present' = Present
      BY <3>1 DEF Present
    <3> QED
      BY <2>4, <3>1, <3>2 DEF UnloadOne, Visit, UnloadPhases, Present
  <2>5. CASE DestroyOne(m)
    <3>1. mods' \in [Mods -> {"absent", "refused", "held", "dropped"}]
          /\ mods'[m] = "absent" /\ \A n \in Mods \ {m} : mods'[n] = mods[n]
      BY <1>0, <2>5 DEF DestroyOne
    <3>2. Present' = Present \ {m}
      BY <3>1 DEF Present
    <3> QED
      BY <2>5, <3>1, <3>2 DEF DestroyOne, Visit, UnloadPhases, Present
  <2> QED
    BY <1>3, <2>1, <2>2, <2>3, <2>4, <2>5 DEF ModStep
<1> QED
  BY <1>1, <1>2, <1>3 DEF Next

\* A step that leaves mods alone leaves the references of an item alone.
LEMMA EndsExact ==
  ASSUME WInv, RefsExact, NEW id \in Ids, Ends(id, item[id].mods), UNCHANGED mods
  PROVE  RefsExact'
<1>1. \A i \in Ids : Holders(i)' = Holders(i)
  BY DEF Holders
<1>2. Cardinality({}) = 0
  BY FS_EmptySet
<1>3. ASSUME NEW i \in Ids \ robbed'
      PROVE  /\ item'[i].mods = Cardinality(Holders(i)')
             /\ Holders(i)' # {} => i \in workshop_items'
  <2>1. i \notin robbed
    BY <1>3 DEF Ends
  <2>2. CASE i # id
    BY <1>1, <2>1, <2>2 DEF Ends, RefsExact
  <2>3. CASE i = id
    BY <1>1, <1>2, <1>3, <2>1, <2>3 DEF Ends, RefsExact
  <2> QED
    BY <2>2, <2>3
<1> QED
  BY <1>3 DEF RefsExact

\* A collection that a mod holds is robbed, and its children have no holders.
LEMMA CollectionExact ==
  ASSUME WInv, RefsExact, NEW id \in Ids, ResolveCollection(id)
  PROVE  RefsExact'
<1>1. PICK new, w, h : Replaced(id, new, w, h)
  BY CollectionReplaced
<1>2. \A i \in Ids : Holders(i)' = Holders(i)
  BY DEF Holders, ResolveCollection
<1>3. Cardinality({}) = 0 /\ NewItem.mods = 0
  BY FS_EmptySet DEF NewItem
<1>4. ASSUME NEW i \in Ids \ robbed'
      PROVE  /\ item'[i].mods = Cardinality(Holders(i)')
             /\ Holders(i)' # {} => i \in workshop_items'
  <2>1. i \notin robbed
    BY <1>1, <1>4 DEF Replaced
  <2>2. CASE i = id
    <3>1. Holders(i) = {}
      BY <1>1, <1>4, <2>2 DEF Replaced
    <3>2. item'[i].mods = 0
      BY <1>1, <1>3, <2>2 DEF Replaced
    <3> QED
      BY <1>2, <1>3, <3>1, <3>2
  <2>3. CASE i # id /\ i \in new
    <3>1. Holders(i) = {}
      BY <1>1, <2>1, <2>3 DEF Replaced, RefsExact
    <3> QED
      BY <1>1, <1>2, <1>3, <2>3, <3>1 DEF Replaced
  <2>4. CASE i # id /\ i \notin new
    BY <1>1, <1>2, <2>1, <2>4 DEF Replaced, RefsExact
  <2> QED
    BY <2>2, <2>3, <2>4
<1> QED
  BY <1>4 DEF RefsExact

\* A mod holds its id or does not; nothing changes for other ids.
LEMMA HoldersAfter ==
  ASSUME WInv, NEW m \in Mods, NEW v, mods' = [mods EXCEPT ![m] = v]
  PROVE  /\ mods'[m] = v
         /\ \A i \in Ids \ {WorkshopFile[m]} : Holders(i)' = Holders(i)
         /\ Holders(WorkshopFile[m])' =
              IF v = "held" THEN Holders(WorkshopFile[m]) \cup {m} ELSE Holders(WorkshopFile[m]) \ {m}
<1>1. mods \in [Mods -> {"absent", "refused", "held", "dropped"}]
  BY DEF WInv, AgreesWithSteam, TypeOK
<1> QED
  BY <1>1 DEF Holders

\* A mod gives back what it held before it takes again: the number of
\* references follows the number of holders.
LEMMA ModExact ==
  ASSUME IInv, NEW m \in Mods, ModStep(m)
  PROVE  RefsExact' /\ FewHold'
<1> DEFINE id == WorkshopFile[m]
           H == Holders(id)
<1>1. PICK v : mods' = [mods EXCEPT ![m] = v] /\ v = mods'[m]
  <2>1. \E v : mods' = [mods EXCEPT ![m] = v]
    BY DEF ModStep, ModInit, ModReload, ModDestroy, UnloadOne, DestroyOne
  <2> QED
    BY <2>1, HoldersAfter DEF IInv
<1>2. ModEnds(m)
  BY ModSteps DEF IInv
<1>3. id \in Ids
  BY ConstAssumption
<1>4. /\ IsFiniteSet(H) /\ (m \in H <=> mods[m] = "held")
      /\ H' = IF v = "held" THEN H \cup {m} ELSE H \ {m}
      /\ \A i \in Ids \ {id} : Holders(i)' = Holders(i)
  BY <1>1, <1>3, HoldersAfter DEF IInv, FewHold, Holders
<1>5. FewHold'
  BY <1>4, FS_AddElement, FS_RemoveElement DEF IInv, FewHold
<1>6. mods[m] = "dropped" => H = {}
  BY DEF IInv, UnloadPhases, ModStep, ModInit, ModReload, ModDestroy, UnloadOne, DestroyOne, Visit,
         Idle, Holders
<1>7. mods[m] \in {"absent", "refused", "held", "dropped"}
  BY DEF IInv, WInv, AgreesWithSteam, TypeOK
<1>8. id \notin robbed => Taken(m) = Cardinality(H')
  <2> SUFFICES ASSUME id \notin robbed PROVE Taken(m) = Cardinality(H')
    OBVIOUS
  <2>1. item[id].mods = Cardinality(H) /\ Cardinality(H) \in Nat
    BY <1>3, <1>4, FS_CardinalityType DEF IInv, RefsExact
  <2>2. Given(m) = Cardinality(H \ {m}) /\ IsFiniteSet(H \ {m})
    <3>1. CASE mods[m] \in {"absent", "refused"}
      <4>1. H \ {m} = H
        BY <1>4, <3>1
      <4> QED
        BY <1>4, <2>1, <3>1, <4>1 DEF Given
    <3>2. CASE mods[m] = "held"
      <4>1. Cardinality(H \ {m}) = Cardinality(H) - 1 /\ IsFiniteSet(H \ {m})
        BY <1>4, <3>2, FS_RemoveElement
      <4>2. Cardinality(H) # 0
        BY <1>4, <3>2, FS_EmptySet
      <4> QED
        BY <2>1, <3>2, <4>1, <4>2 DEF Given, Less
    <3>3. CASE mods[m] = "dropped"
      <4>1. H \ {m} = H /\ Cardinality(H) = 0
        BY <1>6, <3>3, FS_EmptySet
      <4> QED
        BY <1>4, <2>1, <3>3, <4>1 DEF Given, Less
    <3> QED
      BY <1>7, <3>1, <3>2, <3>3
  <2>3. CASE v = "held"
    <3>1. H' = (H \ {m}) \cup {m}
      BY <1>4, <2>3
    <3>2. Cardinality(H') = Cardinality(H \ {m}) + 1
      BY <2>2, <3>1, FS_AddElement
    <3> QED
      BY <1>1, <2>2, <2>3, <3>2 DEF Taken
  <2>4. CASE v # "held"
    BY <1>1, <1>4, <2>2, <2>4 DEF Taken
  <2> QED
    BY <2>3, <2>4
<1>9. ASSUME NEW i \in Ids \ robbed'
      PROVE  /\ item'[i].mods = Cardinality(Holders(i)')
             /\ Holders(i)' # {} => i \in workshop_items'
  <2>1. i \notin robbed
    BY <1>2, <1>9 DEF ModEnds, Ends
  <2>2. CASE i # id
    BY <1>2, <1>4, <2>1, <2>2 DEF ModEnds, Ends, IInv, RefsExact
  <2>3. CASE i = id
    <3>1. Taken(m) = Cardinality(H') /\ IsFiniteSet(H') /\ Cardinality(H') \in Nat
      BY <1>3, <1>5, <1>8, <2>1, <2>3, FS_CardinalityType DEF FewHold
    <3>2. Taken(m) > 0 => id \in workshop_items'
      BY <1>2 DEF ModEnds
    <3>3. H' # {} => id \in workshop_items'
      BY <3>1, <3>2, FS_EmptySet
    <3>4. id \notin workshop_items' => Cardinality(H') = 0
      BY <3>3, FS_EmptySet
    <3> QED
      BY <1>2, <2>3, <3>1, <3>3, <3>4 DEF ModEnds, Ends
  <2> QED
    BY <2>2, <2>3
<1> QED
  BY <1>5, <1>9 DEF RefsExact

\* Every step keeps the references exact.
LEMMA StepExact == IInv /\ [Next]_vars => RefsExact' /\ FewHold'
<1> SUFFICES ASSUME IInv, [Next]_vars PROVE RefsExact' /\ FewHold'
  OBVIOUS
<1>1. CASE \/ LoggedOn \/ UnloadMods \/ Clear \/ Refresh \/ UNCHANGED vars
           \/ \E map \in Maps \cup {NoName} : ChangeMap(map)
  <2>1. UNCHANGED <<mods, item, workshop_items, robbed>>
    BY <1>1 DEF LoggedOn, UnloadMods, Clear, Refresh, Begin, ChangeMap, vars
  <2> QED
    BY <2>1 DEF IInv, RefsExact, FewHold, Holders
<1>2. CASE LoggedOff
  <2>1. UNCHANGED <<mods, workshop_items, robbed>>
    BY <1>2 DEF LoggedOff
  <2>2. ASSUME NEW id \in Ids PROVE item'[id].mods = item[id].mods
    <3>1. item'[id] = cancel(World(id)).it
      BY <1>2 DEF LoggedOff
    <3>2. Sound(World(id), Others(id), workshop_initalized) /\ World(id).it = item[id]
          /\ workshop_initalized \in BOOLEAN
      BY WorldSound DEF IInv, WInv, AgreesWithSteam, TypeOK
    <3>3. Keeps(cancel(World(id)), World(id), Others(id), FALSE)
      BY <3>2, CancelKeeps
    <3> QED
      BY <3>1, <3>2, <3>3 DEF Keeps, Same
  <2> QED
    BY <2>1, <2>2 DEF IInv, RefsExact, FewHold, Holders
<1>3. ASSUME NEW id \in Ids, ItemStep(id) PROVE RefsExact' /\ FewHold'
  <2>1. UNCHANGED mods
    BY <1>3 DEF ItemStep, Track, Untrack, ClearOne, RefreshOne, ResolveCollection, ResolveOther,
                on_details_queried, DownloadResult, ItemInstalled
  <2>2. FewHold'
    BY <2>1 DEF IInv, FewHold, Holders
  <2>3. RefsExact'
    BY <1>3, <2>1, ItemSteps, CollectionExact, EndsExact DEF IInv
  <2> QED
    BY <2>2, <2>3
<1>4. ASSUME NEW m \in Mods, ModStep(m) PROVE RefsExact' /\ FewHold'
  BY <1>4, ModExact
<1> QED
  BY <1>1, <1>2, <1>3, <1>4 DEF Next

\* At first nobody holds anything.
LEMMA InitExact == Init => UnloadPhases /\ FewHold /\ RefsExact
<1> SUFFICES ASSUME Init PROVE UnloadPhases /\ FewHold /\ RefsExact
  OBVIOUS
<1>1. \A id \in Ids : Holders(id) = {} /\ item[id].mods = 0
  BY DEF Init, Holders, NewItem
<1>2. IsFiniteSet({}) /\ Cardinality({}) = 0
  BY FS_EmptySet
<1>3. FewHold /\ RefsExact
  BY <1>1, <1>2 DEF FewHold, RefsExact
<1>4. UnloadPhases
  BY DEF Init, UnloadPhases
<1> QED
  BY <1>3, <1>4

\* The invariant holds in every state the workshop can reach.
THEOREM WorkshopInvariance == Spec => []IInv
<1>1. Init => IInv
  BY InitAgrees, InitExact DEF IInv
<1>2. IInv /\ [Next]_vars => IInv'
  <2> SUFFICES ASSUME IInv, [Next]_vars PROVE IInv'
    OBVIOUS
  <2>1. WInv'
    BY StepAgrees DEF IInv
  <2>2. UnloadPhases'
    BY StepPhases DEF IInv
  <2> QED
    BY <2>1, <2>2, StepExact DEF IInv
<1> QED
  BY <1>1, <1>2, PTL DEF Spec

\* main::workshop_item_t: whatever is tracked, answered, refreshed, cleared or
\* logged off, in whatever order, the query handles Steam has given out are those
\* the items hold, each held once, and an item that waits has a call pending.
THEOREM Agrees == Spec => []AgreesWithSteam
<1>1. IInv => AgreesWithSteam
  BY DEF IInv, WInv
<1> QED
  BY <1>1, WorkshopInvariance, PTL

\* main::workshop_item_t::refs and mod::unload: the references of mods to an item
\* are as many as the mods that hold it, unless it was removed under them.
THEOREM Refs == Spec => []RefsExact
<1>1. IInv => RefsExact
  BY DEF IInv
<1> QED
  BY <1>1, WorkshopInvariance, PTL

-----------------------------------------------------------------------------
(* What is linked and mounted.  A handler is followed from the world it starts *)
(* with: Lift says what it may have done to the links and packages so far, and *)
(* every operation keeps that.  So every step either has nothing to do with    *)
(* what is mounted or is the handler of one item (StepLeaves), from which the  *)
(* two action properties follow.  They need to know that what an item is told  *)
(* fixes the path it links (Shapes): without it a package might be unmounted   *)
(* by another item, for which UnbackedStep has no disjunct.                    *)

\* Flagged and Backed of Workshop, of the item of a world.
Fl(w) == "mounted" \in w.it.state
Bk(id, w) == IF w.it.mounttype = "vpk" THEN w.links[id] = id /\ id \in w.vpks
             ELSE w.it.dst = NoName \/ w.links[w.it.dst] = id

\* A handler has not yet touched what is mounted.
Calm(v, w) ==
  /\ v.links = w.links /\ v.maps_dir = w.maps_dir /\ v.vpks = w.vpks
  /\ v.it.dst = w.it.dst /\ v.it.mounttype = w.it.mounttype /\ (Fl(v) <=> Fl(w))

\* The application the answer of Steam names.
AppOf(id) == IF Kind[id] = "vpk" THEN "vpk" ELSE IF Kind[id] = "other_app" THEN "other" ELSE "map"

\* What an item is told fixes what it mounts: a package is linked under its own
\* id, a map under a name, and only a package's own link is under its id.
Shape(id, w) ==
  /\ w.it.app \in {"unknown", AppOf(id)}
  /\ w.it.mounttype \in {"unknown", AppOf(id)}
  /\ w.it.mounttype = "unknown" => w.it.dst = NoName /\ ~Fl(w)
  /\ w.it.mounttype = "vpk" => w.it.dst = id
  /\ w.it.mounttype = "map" => w.it.dst \in Names \cup {NoName}
  /\ \A i \in Ids : w.links[i] \in {None, i}

\* An operation that has nothing to do with what is mounted.
Quiet(id, v, w) == v \in Worlds /\ Calm(v, w) /\ (Shape(id, w) => Shape(id, v))

\* Queries, downloads, flags and references may change quietly.
LEMMA QuietWorld ==
  ASSUME NEW id, NEW w \in Worlds, NEW it \in Item, NEW q \in SUBSET Handles,
         NEW d \in SUBSET Ids, NEW l \in BOOLEAN,
         it.dst = w.it.dst, it.mounttype = w.it.mounttype, it.app = w.it.app,
         "mounted" \in it.state <=> "mounted" \in w.it.state
  PROVE  Quiet(id, [w EXCEPT !.queries = q, !.it = it, !.downloads = d, !.live = l], w)
<1> DEFINE v == [w EXCEPT !.queries = q, !.it = it, !.downloads = d, !.live = l]
<1>1. v \in Worlds /\ v.it = it /\ v.links = w.links /\ v.maps_dir = w.maps_dir /\ v.vpks = w.vpks
  BY DEF Worlds
<1> HIDE DEF v
<1>2. Quiet(id, v, w)
  BY <1>1 DEF Quiet, Calm, Shape, Fl
<1> QED
  BY <1>2 DEF v

\* cancel() is quiet.
LEMMA CancelQuiet ==
  ASSUME NEW id, NEW w \in Worlds PROVE Quiet(id, cancel(w), w)
<1> DEFINE it == [w.it EXCEPT !.handle = None, !.call = None,
                              !.state = @ \ {"details_query_active", "download_active"}]
           v == [w EXCEPT !.queries = w.queries \ {w.it.handle}, !.it = it,
                          !.downloads = w.downloads, !.live = w.live]
<1>1. cancel(w) = v
  BY DEF cancel, Worlds, Item
<1>2. it \in Item /\ it.dst = w.it.dst /\ it.mounttype = w.it.mounttype /\ it.app = w.it.app
      /\ it.state = w.it.state \ {"details_query_active", "download_active"}
  BY DEF Worlds, Item
<1> HIDE DEF it
<1>3. Quiet(id, v, w)
  BY <1>2, QuietWorld DEF Worlds
<1> QED
  BY <1>1, <1>3

\* So is query_details().
LEMMA QueryQuiet ==
  ASSUME NEW id, NEW w \in Worlds, NEW ok, NEW h \in Handles \cup {None}
  PROVE  Quiet(id, query_details(w, ok, h), w)
<1> DEFINE sent == h # None /\ "send" \in ok
           it == [w.it EXCEPT !.handle = h, !.call = IF sent THEN h ELSE None,
                              !.state = IF sent THEN @ \cup {"details_query_active"} ELSE @]
           v == [w EXCEPT !.queries = (w.queries \ {w.it.handle}) \cup ({h} \ {None}), !.it = it,
                          !.downloads = w.downloads, !.live = w.live]
<1>1. query_details(w, ok, h) \in {w, v}
  BY DEF query_details, Worlds, Item
<1>2. it \in Item /\ it.dst = w.it.dst /\ it.mounttype = w.it.mounttype /\ it.app = w.it.app
      /\ it.state \in {w.it.state, w.it.state \cup {"details_query_active"}}
  BY DEF Worlds, Item, Flags
<1>3. (w.queries \ {w.it.handle}) \cup ({h} \ {None}) \subseteq Handles
  BY DEF Worlds
<1> HIDE DEF it
<1>4. Quiet(id, v, w)
  BY <1>2, <1>3, QuietWorld DEF Worlds
<1>5. Quiet(id, w, w)
  BY DEF Quiet, Calm
<1> QED
  BY <1>1, <1>4, <1>5

\* So is the beginning of on_details_queried.
LEMMA AnsweredQuiet ==
  ASSUME NEW id, NEW w \in Worlds PROVE Quiet(id, Answered(w), w)
<1> DEFINE it == [w.it EXCEPT !.state = @ \ {"details_query_active"}, !.call = None]
           v == [w EXCEPT !.queries = w.queries, !.it = it,
                          !.downloads = w.downloads, !.live = w.live]
<1>1. Answered(w) = v
  BY DEF Answered, Worlds, Item
<1>2. it \in Item /\ it.dst = w.it.dst /\ it.mounttype = w.it.mounttype /\ it.app = w.it.app
      /\ it.state = w.it.state \ {"details_query_active"}
  BY DEF Worlds, Item
<1> HIDE DEF it
<1>3. Quiet(id, v, w)
  BY <1>2, QuietWorld DEF Worlds
<1> QED
  BY <1>1, <1>3

\* So is its reading of the metadata: the path changes when Steam installs.
LEMMA MetadataQuiet ==
  ASSUME NEW id, NEW w \in Worlds, NEW ok, NEW name \in Names \cup {NoName}
  PROVE  Quiet(id, Metadata(w, ok, name), w)
<1> DEFINE it == [w.it EXCEPT !.state = @ \cup {"metadata_queried"}, !.metadata = name]
           v == [w EXCEPT !.queries = w.queries, !.it = it, !.downloads = w.downloads,
                          !.live = w.live]
<1>1. Metadata(w, ok, name) \in {w, v}
  BY DEF Metadata, Worlds, Item
<1>2. it \in Item /\ it.dst = w.it.dst /\ it.mounttype = w.it.mounttype /\ it.app = w.it.app
      /\ it.state = w.it.state \cup {"metadata_queried"}
  BY DEF Worlds, Item, Flags
<1> HIDE DEF it
<1>4. Quiet(id, v, w)
  BY <1>2, QuietWorld DEF Worlds
<1>5. Quiet(id, w, w)
  BY DEF Quiet, Calm
<1> QED
  BY <1>1, <1>4, <1>5

\* So is the release of its handle.
LEMMA ReleasedQuiet ==
  ASSUME NEW id, NEW w \in Worlds PROVE Quiet(id, QueryReleased(w), w)
<1> DEFINE it == [w.it EXCEPT !.handle = None]
           v == [w EXCEPT !.queries = w.queries \ {w.it.handle}, !.it = it,
                          !.downloads = w.downloads, !.live = w.live]
<1>1. QueryReleased(w) = v
  BY DEF QueryReleased, Worlds, Item
<1>2. it \in Item /\ it.dst = w.it.dst /\ it.mounttype = w.it.mounttype /\ it.app = w.it.app
      /\ it.state = w.it.state
  BY DEF Worlds, Item
<1> HIDE DEF it
<1>3. Quiet(id, v, w)
  BY <1>2, QuietWorld DEF Worlds
<1> QED
  BY <1>1, <1>3

\* So is its reading of the details, which names the app the item is shaped by.
LEMMA DetailsQuiet ==
  ASSUME NEW id \in Ids, NEW w \in Worlds, NEW ok PROVE Quiet(id, Details(id, w, ok), w)
<1> DEFINE type == IF Kind[id] = "collection" THEN "collection" ELSE "file"
           it == [w.it EXCEPT !.state = @ \cup {"details_queried"}, !.itemtype = type,
                              !.app = AppOf(id)]
           v == [w EXCEPT !.it = it]
<1>0. w.it \in Item /\ AppOf(id) \in {"vpk", "other", "map"} /\ type \in {"collection", "file"}
  BY DEF Worlds, AppOf
<1>1. Details(id, w, ok) \in {w, v}
  BY <1>0 DEF Details, Worlds, Item, AppOf
<1> HIDE DEF type
<1>2. it \in Item /\ it.dst = w.it.dst /\ it.mounttype = w.it.mounttype /\ it.app = AppOf(id)
      /\ it.state = w.it.state \cup {"details_queried"}
  BY <1>0 DEF Item, Flags
<1> HIDE DEF it
<1>3. v \in Worlds /\ v.it = it /\ v.links = w.links /\ v.maps_dir = w.maps_dir /\ v.vpks = w.vpks
  BY <1>2 DEF Worlds
<1> HIDE DEF v
<1>4. Quiet(id, v, w)
  BY <1>2, <1>3 DEF Quiet, Calm, Shape, Fl
<1>5. Quiet(id, w, w)
  BY DEF Quiet, Calm
<1> QED
  BY <1>1, <1>4, <1>5

\* So is a new reference.
LEMMA AddRefQuiet ==
  ASSUME NEW id, NEW w \in Worlds, NEW user PROVE Quiet(id, AddRef(w, user), w)
<1> DEFINE it == IF user THEN [w.it EXCEPT !.user = TRUE] ELSE [w.it EXCEPT !.mods = @ + 1]
           v == [w EXCEPT !.queries = w.queries, !.it = it, !.downloads = w.downloads,
                          !.live = w.live]
<1>1. AddRef(w, user) = v
  BY DEF AddRef, Worlds, Item
<1>2. it \in Item /\ it.dst = w.it.dst /\ it.mounttype = w.it.mounttype /\ it.app = w.it.app
      /\ it.state = w.it.state
  <2>1. CASE user
    <3>1. it = [w.it EXCEPT !.user = TRUE]
      BY <2>1
    <3> QED
      BY <3>1 DEF Worlds, Item
  <2>2. CASE ~user
    <3>1. it = [w.it EXCEPT !.mods = @ + 1]
      BY <2>2
    <3> QED
      BY <3>1 DEF Worlds, Item
  <2> QED
    BY <2>1, <2>2
<1> HIDE DEF it
<1>3. Quiet(id, v, w)
  BY <1>2, QuietWorld DEF Worlds
<1> QED
  BY <1>1, <1>3

\* So is the loss of one.
LEMMA DropRefQuiet ==
  ASSUME NEW id, NEW w \in Worlds, NEW user PROVE Quiet(id, DropRef(w, user), w)
<1> DEFINE it == IF user THEN [w.it EXCEPT !.user = FALSE]
                 ELSE [w.it EXCEPT !.mods = IF @ > 0 THEN @ - 1 ELSE @]
           v == [w EXCEPT !.queries = w.queries, !.it = it, !.downloads = w.downloads,
                          !.live = w.live]
<1>1. DropRef(w, user) = v
  BY DEF DropRef, Worlds, Item
<1>2. it \in Item /\ it.dst = w.it.dst /\ it.mounttype = w.it.mounttype /\ it.app = w.it.app
      /\ it.state = w.it.state
  <2>1. CASE user
    <3>1. it = [w.it EXCEPT !.user = FALSE]
      BY <2>1
    <3> QED
      BY <3>1 DEF Worlds, Item
  <2>2. CASE ~user
    <3>1. it = [w.it EXCEPT !.mods = IF @ > 0 THEN @ - 1 ELSE @]
      BY <2>2
    <3> QED
      BY <3>1 DEF Worlds, Item
  <2> QED
    BY <2>1, <2>2
<1> HIDE DEF it
<1>3. Quiet(id, v, w)
  BY <1>2, QuietWorld DEF Worlds
<1> QED
  BY <1>1, <1>3

\* So is a change of the other flags.
LEMMA FlagQuiet ==
  ASSUME NEW id, NEW w \in Worlds, NEW S \in SUBSET Flags,
         "mounted" \in S <=> "mounted" \in w.it.state
  PROVE  Quiet(id, [w EXCEPT !.it.state = S], w)
<1> DEFINE it == [w.it EXCEPT !.state = S]
           v == [w EXCEPT !.queries = w.queries, !.it = it,
                          !.downloads = w.downloads, !.live = w.live]
<1>1. [w EXCEPT !.it.state = S] = v
  BY DEF Worlds, Item
<1>2. it \in Item /\ it.dst = w.it.dst /\ it.mounttype = w.it.mounttype /\ it.app = w.it.app
      /\ it.state = S
  BY DEF Worlds, Item
<1> HIDE DEF it
<1>3. Quiet(id, v, w)
  BY <1>2, QuietWorld DEF Worlds
<1> QED
  BY <1>1, <1>3

\* Quiet operations compose.
LEMMA QuietTrans ==
  ASSUME NEW id, NEW u, NEW v, NEW w, Quiet(id, u, v), Quiet(id, v, w) PROVE Quiet(id, u, w)
BY DEF Quiet, Calm

\* Doing nothing is quiet.
LEMMA QuietSelf == ASSUME NEW id, NEW w \in Worlds PROVE Quiet(id, w, w)
BY DEF Quiet, Calm

\* What a handler of item id has done to the links and the packages.
Lift(id, w0, w, half) ==
  /\ \A d \in Ids \cup Names :
       \/ w.links[d] = w0.links[d]
       \/ w0.links[d] = None /\ w.links[d] = id
       \/ Fl(w0) /\ w0.it.dst = d /\ w.links[d] \in {None, id}
  /\ \A i \in Ids \ {id} : i \in w.vpks <=> i \in w0.vpks
  /\ Fl(w) /\ ~Bk(id, w) =>
       \/ Fl(w0) /\ ~Bk(id, w0)
       \/ w.it.dst \in Names /\ w0.links[w.it.dst] \notin {None, id}
       \/ Fl(w0) /\ w.it.dst # w0.it.dst
       \/ half /\ w0.it.mounttype = "vpk"

\* A world such as a handler that began with w0 may have come to.
Lifted(id, w0, v, half) == v \in Worlds /\ Shape(id, v) /\ Lift(id, w0, v, half)

\* No link is taken away.
LinksStay(v, w) == \A d \in Ids \cup Names : w.links[d] # None => v.links[d] = w.links[d]

\* on_installed has nothing more to learn of the item.
Learnt(w, ok) == "installed" \in w.it.state \/ "info" \notin ok \/ w.it.app \notin {"vpk", "map"}

\* A flag that is set will not be set again for another path.
Ready(id, w0, w, half, ok) ==
  ~Fl(w) \/ Calm(w, w0) \/ Learnt(w, ok) \/ (half /\ w0.it.mounttype = "vpk")

\* A quiet operation leaves what the handler has done.
LEMMA QuietLift ==
  ASSUME NEW id, NEW w0, NEW v, NEW w, NEW half, Lift(id, w0, w, half), Quiet(id, v, w)
  PROVE  Lift(id, w0, v, half)
BY DEF Lift, Quiet, Calm, Bk

\* A handler that has touched nothing has done nothing wrong.
LEMMA CalmLift ==
  ASSUME NEW id, NEW w0, NEW w, NEW half, Calm(w, w0)
  PROVE  Lift(id, w0, w, half)
BY DEF Lift, Calm, Bk

\* mount() takes no link away, and what it flags is backed unless another item's
\* link is in the place.
LEMMA MountLift ==
  ASSUME NEW id \in Ids, NEW w0 \in Worlds, NEW w \in Worlds, NEW half, NEW ok,
         Shape(id, w), Lift(id, w0, w, half)
  PROVE  LET v == mount(id, w, ok) IN
         Lifted(id, w0, v, half) /\ (Learnt(w, ok) => Learnt(v, ok)) /\ LinksStay(v, w)
<1> DEFINE it == [w.it EXCEPT !.state = @ \cup {"mounted"}]
           u == Linked(id, w)
           v == [u EXCEPT !.it = it, !.vpks = IF w.it.mounttype = "vpk" THEN @ \cup {id} ELSE @]
           skip == \/ "mounted" \in w.it.state \/ w.it.mounttype = "unknown"
                   \/ ~Exists(w, w.it.dst) /\ ~CanLink(w, ok)
<1>0. /\ w.it \in Item
      /\ w.links \in [Ids \cup Names -> Ids \cup {None}]
      /\ w0.links \in [Ids \cup Names -> Ids \cup {None}]
  BY DEF Worlds
<1>1. CASE skip
  <2>1. mount(id, w, ok) = w
    BY <1>1 DEF mount
  <2> QED
    BY <2>1 DEF Lifted, LinksStay
<1>2. CASE ~skip
  <2>1. /\ it \in Item /\ it.dst = w.it.dst /\ it.mounttype = w.it.mounttype /\ it.app = w.it.app
        /\ it.state = w.it.state \cup {"mounted"}
    BY <1>0 DEF Item, Flags
  <2>2. /\ u \in Worlds /\ u.it = w.it /\ u.vpks = w.vpks
        /\ \A d \in Ids \cup Names :
             u.links[d] = IF w.it.dst = d /\ w.links[d] = None THEN id ELSE w.links[d]
    BY <1>0, ConstAssumption DEF Linked, Exists, Worlds, Item, Dsts
  <2>3. mount(id, w, ok) = v
    BY <1>0, <1>2, <2>2 DEF mount, Worlds, Item
  <2> HIDE DEF it, u
  <2>4. /\ v \in Worlds /\ v.it = it /\ v.links = u.links
        /\ v.vpks = IF w.it.mounttype = "vpk" THEN w.vpks \cup {id} ELSE w.vpks
    BY <2>1, <2>2 DEF Worlds
  <2> HIDE DEF v
  <2>5. w.it.mounttype # "unknown" /\ ~Fl(w)
    BY <1>2 DEF Fl
  <2>6. \A d \in Ids \cup Names : w.links[d] # None => v.links[d] = w.links[d]
    BY <2>2, <2>4
  <2>7. Shape(id, v)
    <3>1. w.it.dst \in Ids => w.it.dst = id
      BY <1>0, <2>5, ConstAssumption DEF Shape, Item
    <3>2. \A i \in Ids : v.links[i] \in {None, i}
      BY <2>2, <2>4, <3>1 DEF Shape
    <3> QED
      BY <2>1, <2>4, <2>5, <3>2 DEF Shape
  <2>8. \A d \in Ids \cup Names :
          \/ v.links[d] = w0.links[d]
          \/ w0.links[d] = None /\ v.links[d] = id
          \/ Fl(w0) /\ w0.it.dst = d /\ v.links[d] \in {None, id}
    BY <2>2, <2>4 DEF Lift
  <2>9. \A i \in Ids \ {id} : i \in v.vpks <=> i \in w0.vpks
    BY <2>4 DEF Lift
  <2>12. Learnt(w, ok) => Learnt(v, ok)
    BY <2>1, <2>4 DEF Learnt
  <2>10. CASE w.it.mounttype = "vpk"
    <3>1. w.it.dst = id /\ w.links[id] \in {None, id}
      BY <2>10 DEF Shape
    <3>2. v.links[id] = id /\ id \in v.vpks
      BY <2>2, <2>4, <2>10, <3>1
    <3>3. Bk(id, v)
      BY <2>1, <2>4, <2>10, <3>2 DEF Bk
    <3> QED
      BY <2>1, <2>3, <2>4, <2>6, <2>7, <2>8, <2>9, <2>12, <3>3 DEF Lift, Lifted, LinksStay
  <2>11. CASE w.it.mounttype # "vpk"
    <3>1. w.it.mounttype = "map" /\ w.it.dst \in Names \cup {NoName}
      BY <1>0, <2>5, <2>11 DEF Shape, Item
    <3>2. ASSUME ~Bk(id, v) PROVE w.it.dst \in Names /\ w0.links[w.it.dst] \notin {None, id}
      <4>1. w.it.dst \in Names /\ v.links[w.it.dst] # id
        BY <2>1, <2>4, <2>11, <3>1, <3>2 DEF Bk
      <4>2. w.links[w.it.dst] \notin {None, id} /\ v.links[w.it.dst] = w.links[w.it.dst]
        BY <2>2, <2>4, <4>1
      <4> QED
        BY <4>1, <4>2 DEF Lift
    <3> QED
      BY <2>1, <2>3, <2>4, <2>6, <2>7, <2>8, <2>9, <2>12, <3>2 DEF Lift, Lifted, LinksStay
  <2> QED
    BY <2>10, <2>11
<1> QED
  BY <1>1, <1>2

\* on_installed() takes no link away, and it moves a flagged item to another path
\* only if its metadata changed.
LEMMA InstallLift ==
  ASSUME NEW id \in Ids, NEW w0 \in Worlds, NEW w \in Worlds, NEW half, NEW ok,
         Lifted(id, w0, w, half), Ready(id, w0, w, half, ok)
  PROVE  LET v == on_installed(id, w, ok) IN
         Lifted(id, w0, v, half) /\ Learnt(v, ok) /\ LinksStay(v, w)
<1> DEFINE it == [w.it EXCEPT !.state = @ \cup {"installed"}, !.mounttype = w.it.app,
                              !.dst = IF w.it.app = "vpk" THEN id ELSE w.it.metadata]
           x == [w EXCEPT !.it = it]
           u == IF Learnt(w, ok) THEN w ELSE x
<1>0. w.it \in Item /\ Shape(id, w) /\ Lift(id, w0, w, half)
  BY DEF Worlds, Lifted
<1>1. on_installed(id, w, ok) = mount(id, u, ok)
  BY <1>0 DEF on_installed, Worlds, Item, Learnt
<1>2. u \in Worlds /\ Shape(id, u) /\ Lift(id, w0, u, half) /\ Learnt(u, ok)
      /\ \A d \in Ids \cup Names : w.links[d] # None => u.links[d] = w.links[d]
  <2>1. CASE Learnt(w, ok)
    BY <1>0, <2>1
  <2>2. CASE ~Learnt(w, ok)
    <3>0. w.it.app \in {"vpk", "map"} /\ w.it.app = AppOf(id)
      BY <1>0, <2>2 DEF Learnt, Shape
    <3>1. /\ it \in Item /\ it.mounttype = w.it.app /\ it.app = w.it.app
          /\ it.dst = (IF w.it.app = "vpk" THEN id ELSE w.it.metadata)
          /\ it.state = w.it.state \cup {"installed"}
      BY <1>0, <3>0 DEF Item, Flags, Dsts
    <3> HIDE DEF it
    <3>2. x \in Worlds /\ x.it = it /\ x.links = w.links /\ x.vpks = w.vpks
      BY <3>1 DEF Worlds
    <3> HIDE DEF x
    <3>3. Fl(x) <=> Fl(w)
      BY <3>1, <3>2 DEF Fl
    <3>4. Shape(id, x)
      BY <1>0, <3>0, <3>1, <3>2 DEF Shape, Item
    <3>5. CASE ~Fl(w)
      <4>1. Lift(id, w0, x, half)
        BY <1>0, <3>2, <3>3, <3>5 DEF Lift
      <4> QED
        BY <2>2, <3>1, <3>2, <3>4, <4>1 DEF Learnt
    <3>6. CASE half /\ w0.it.mounttype = "vpk"
      <4>1. Lift(id, w0, x, half)
        BY <1>0, <3>2, <3>6 DEF Lift
      <4> QED
        BY <2>2, <3>1, <3>2, <3>4, <4>1 DEF Learnt
    <3>7. CASE Calm(w, w0) /\ Fl(w)
      <4>1. Fl(w0) /\ w.it.mounttype = w.it.app
        BY <1>0, <3>0, <3>7 DEF Calm, Shape
      <4>2. x.it.dst = w0.it.dst => (Bk(id, x) <=> Bk(id, w0))
        BY <3>1, <3>2, <3>7, <4>1 DEF Calm, Bk
      <4>3. Lift(id, w0, x, half)
        BY <1>0, <3>2, <3>7, <4>1, <4>2 DEF Lift, Calm
      <4> QED
        BY <2>2, <3>1, <3>2, <3>4, <4>3 DEF Learnt
    <3> QED
      BY <2>2, <3>5, <3>6, <3>7 DEF Ready
  <2> QED
    BY <2>1, <2>2
<1> HIDE DEF u
<1> DEFINE v == mount(id, u, ok)
<1>3. Lifted(id, w0, v, half) /\ (Learnt(u, ok) => Learnt(v, ok)) /\ LinksStay(v, u)
  BY <1>2, MountLift
<1> HIDE DEF v
<1>4. LinksStay(v, w)
  BY <1>2, <1>3 DEF LinksStay
<1> QED
  BY <1>1, <1>2, <1>3, <1>4 DEF v

\* unmount() takes only the link of the item, and half unmounts only a package.
LEMMA UnmountLift ==
  ASSUME NEW id \in Ids, NEW w0 \in Worlds, NEW w \in Worlds, NEW force, NEW ok,
         Shape(id, w), Calm(w, w0)
  PROVE  LET u == unmount(id, w, force, ok) IN
         Lifted(id, w0, u, TRUE) /\ (~Fl(u) \/ Calm(u, w0) \/ w0.it.mounttype = "vpk")
<1> DEFINE it == [w.it EXCEPT !.state = @ \ {"mounted"}]
           v == IF w.it.mounttype = "vpk" THEN [w EXCEPT !.vpks = @ \ {id}] ELSE w
           x == Unlinked(v)
           y == [v EXCEPT !.it = it]
           z == [x EXCEPT !.it = it]
<1>0. w.it \in Item
  BY DEF Worlds
<1>1. it \in Item /\ it.dst = w.it.dst /\ it.mounttype = w.it.mounttype /\ it.app = w.it.app
      /\ it.state = w.it.state \ {"mounted"}
  BY <1>0 DEF Item, Flags
<1>2. v \in Worlds /\ v.it = w.it /\ v.links = w.links /\ v.maps_dir = w.maps_dir
      /\ v.vpks = IF w.it.mounttype = "vpk" THEN w.vpks \ {id} ELSE w.vpks
  BY <1>0 DEF Worlds
<1> HIDE DEF v
<1>3. /\ x \in Worlds /\ x.it = w.it /\ x.vpks = v.vpks
      /\ \A d \in Ids \cup Names : x.links[d] = IF w.it.dst = d THEN None ELSE w.links[d]
  <2>1. CASE w.it.dst = NoName
    BY <1>2, <2>1, ConstAssumption DEF Unlinked, Worlds
  <2>2. CASE w.it.dst # NoName
    <3>1. w.it.dst \in Ids \cup Names
      BY <1>0, <2>2 DEF Item, Dsts
    <3>2. x = [v EXCEPT !.links = [w.links EXCEPT ![w.it.dst] = None]]
      BY <1>2, <2>2 DEF Unlinked, Worlds
    <3>3. [w.links EXCEPT ![w.it.dst] = None] \in [Ids \cup Names -> Ids \cup {None}]
      BY <3>1 DEF Worlds
    <3> HIDE DEF x
    <3>4. x \in Worlds /\ x.it = w.it /\ x.vpks = v.vpks
          /\ x.links = [w.links EXCEPT ![w.it.dst] = None]
      BY <1>2, <3>2, <3>3 DEF Worlds
    <3> QED
      BY <3>4 DEF Worlds
  <2> QED
    BY <2>1, <2>2
<1> HIDE DEF x
<1>4. y = [v EXCEPT !.it.state = @ \ {"mounted"}] /\ z = [x EXCEPT !.it.state = @ \ {"mounted"}]
  BY <1>2, <1>3 DEF Worlds, Item
<1>5. unmount(id, w, force, ok) \in {w, v, y, z}
  BY <1>4 DEF unmount, v, x
<1>13. ~Fl(w) => unmount(id, w, force, ok) = w
  BY DEF unmount, Fl
<1> HIDE DEF it
<1>6. y \in Worlds /\ y.it = it /\ y.links = v.links /\ y.vpks = v.vpks
  BY <1>1, <1>2 DEF Worlds
<1>7. z \in Worlds /\ z.it = it /\ z.links = x.links /\ z.vpks = x.vpks
  BY <1>1, <1>3 DEF Worlds
<1> HIDE DEF y, z
<1> DEFINE Good(u) ==
      /\ u \in Worlds /\ Shape(id, u) /\ Lift(id, w0, u, TRUE)
      /\ ~Fl(u) \/ Calm(u, w0) \/ w0.it.mounttype = "vpk"
<1>8. Good(w)
  BY CalmLift
<1>9. Good(v)
  <2>1. CASE w.it.mounttype = "vpk"
    <3>1. Shape(id, v)
      BY <1>2 DEF Shape, Fl
    <3>2. Lift(id, w0, v, TRUE) /\ w0.it.mounttype = "vpk"
      BY <1>2, <2>1 DEF Lift, Calm
    <3> QED
      BY <1>2, <3>1, <3>2
  <2>2. CASE w.it.mounttype # "vpk"
    <3>1. v = w
      BY <2>2 DEF v
    <3> QED
      BY <1>8, <3>1
  <2> QED
    BY <2>1, <2>2
<1>10. Fl(w) => Good(y)
  <2> SUFFICES ASSUME Fl(w) PROVE Good(y)
    OBVIOUS
  <2>1. ~Fl(y)
    BY <1>1, <1>6 DEF Fl
  <2>2. Shape(id, y)
    BY <1>1, <1>2, <1>6, <2>1 DEF Shape
  <2>3. Lift(id, w0, y, TRUE)
    BY <1>2, <1>6, <2>1 DEF Lift, Calm
  <2> QED
    BY <1>6, <2>1, <2>2, <2>3
<1>11. Fl(w) => Good(z)
  <2> SUFFICES ASSUME Fl(w) PROVE Good(z)
    OBVIOUS
  <2>1. ~Fl(z)
    BY <1>1, <1>7 DEF Fl
  <2>2. Shape(id, z)
    BY <1>1, <1>3, <1>7, <2>1 DEF Shape
  <2>3. Lift(id, w0, z, TRUE)
    BY <1>2, <1>3, <1>7, <2>1 DEF Lift, Calm
  <2> QED
    BY <1>7, <2>1, <2>2, <2>3
<1> HIDE DEF Good
<1>12. Good(unmount(id, w, force, ok))
  BY <1>5, <1>8, <1>9, <1>10, <1>11, <1>13
<1> QED
  BY <1>12 DEF Good, Lifted

\* The same as on_installed() when Steam has the files.
LEMMA IfInstalledLift ==
  ASSUME NEW id \in Ids, NEW w0 \in Worlds, NEW w \in Worlds, NEW half, NEW ok,
         Lifted(id, w0, w, half), Ready(id, w0, w, half, ok)
  PROVE  LET v == IfInstalled(id, w, ok) IN
         Lifted(id, w0, v, half) /\ (Learnt(v, ok) \/ v = w) /\ LinksStay(v, w)
<1>1. CASE IfInstalled(id, w, ok) = w
  BY <1>1 DEF LinksStay
<1>2. CASE IfInstalled(id, w, ok) = on_installed(id, w, ok)
  BY <1>2, InstallLift
<1> QED
  BY <1>1, <1>2 DEF IfInstalled

\* download() mounts if the files are there and waits if not.
LEMMA DownloadLift ==
  ASSUME NEW id \in Ids, NEW w0 \in Worlds, NEW w \in Worlds, NEW half, NEW ok,
         Lifted(id, w0, w, half), Ready(id, w0, w, half, ok)
  PROVE  LET v == download(id, w, ok) IN
         Lifted(id, w0, v, half) /\ (Learnt(v, ok) \/ Calm(v, w)) /\ LinksStay(v, w)
<1> DEFINE it == [w.it EXCEPT !.state = @ \cup {"download_active"}]
           v == [w EXCEPT !.queries = w.queries, !.it = it, !.downloads = w.downloads \cup {id},
                          !.live = w.live]
<1>1. download(id, w, ok) \in {w, v, IfInstalled(id, w, ok)}
  BY DEF download, Worlds, Item
<1>2. it \in Item /\ it.dst = w.it.dst /\ it.mounttype = w.it.mounttype /\ it.app = w.it.app
      /\ it.state = w.it.state \cup {"download_active"}
  BY DEF Worlds, Item, Flags
<1> HIDE DEF it
<1>3. Quiet(id, v, w)
  <2>1. w.queries \in SUBSET Handles /\ w.downloads \cup {id} \in SUBSET Ids /\ w.live \in BOOLEAN
    BY DEF Worlds
  <2> QED
    BY <1>2, <2>1, QuietWorld
<1> HIDE DEF v
<1>4. Lifted(id, w0, v, half) /\ Calm(v, w)
  BY <1>3, QuietLift DEF Quiet, Lifted
<1>8. Calm(w, w)
  BY DEF Calm
<1>5. CASE download(id, w, ok) = w
  BY <1>5, <1>8 DEF LinksStay
<1>6. CASE download(id, w, ok) = v
  BY <1>4, <1>6 DEF Calm, LinksStay
<1>7. CASE download(id, w, ok) = IfInstalled(id, w, ok)
  BY <1>7, <1>8, IfInstalledLift
<1> QED
  BY <1>1, <1>5, <1>6, <1>7

\* A refresh from its cancelled query to its end, and what it does for the map
\* that is being played.
LEMMA RefreshLift ==
  ASSUME NEW id \in Ids, NEW w0 \in Worlds, NEW w \in Worlds, NEW ok,
         NEW h \in Handles \cup {None}, Shape(id, w), Calm(w, w0)
  PROVE  LET r == refresh(id, w, ok, h) IN
         /\ Lifted(id, w0, r, TRUE)
         /\ w.it.mounttype = "map" /\ InUse(id, w.it) => LinksStay(r, w)
<1> DEFINE u == unmount(id, w, FALSE, ok)
           S == u.it.state \ {"details_queried", "metadata_queried", "downloaded", "installed"}
           v == [u EXCEPT !.it.state = S]
           q == query_details(v, ok, h)
           r == download(id, q, ok)
<1>1. /\ Lifted(id, w0, u, TRUE) /\ u \in Worlds
      /\ ~Fl(u) \/ Calm(u, w0) \/ w0.it.mounttype = "vpk"
  BY UnmountLift DEF Lifted
<1>2. w.it.mounttype = "map" /\ InUse(id, w.it) => u = w
  BY DEF unmount
<1>3. refresh(id, w, ok, h) = r
  <2>1. [u EXCEPT !.it.state =
             @ \ {"details_queried", "metadata_queried", "downloaded", "installed"}] = v
    BY <1>1 DEF Worlds, Item
  <2> QED
    BY <2>1 DEF refresh
<1>4. S \in SUBSET Flags /\ ("mounted" \in S <=> "mounted" \in u.it.state)
  BY <1>1 DEF Worlds, Item
<1> HIDE DEF u, S
<1>5. Quiet(id, v, u)
  BY <1>1, <1>4, FlagQuiet
<1> HIDE DEF v
<1>6. Quiet(id, q, v)
  BY <1>5, QueryQuiet DEF Quiet
<1>7. Quiet(id, q, u)
  BY <1>5, <1>6, QuietTrans
<1> HIDE DEF q
<1>8. Lifted(id, w0, q, TRUE) /\ q.links = u.links /\ q \in Worlds
  BY <1>1, <1>7, QuietLift DEF Quiet, Calm, Lifted
<1>9. Ready(id, w0, q, TRUE, ok)
  BY <1>1, <1>7 DEF Ready, Quiet, Calm
<1>10. Lifted(id, w0, r, TRUE) /\ LinksStay(r, q)
  BY <1>8, <1>9, DownloadLift
<1> HIDE DEF r
<1> QED
  BY <1>2, <1>3, <1>8, <1>10 DEF LinksStay

-----------------------------------------------------------------------------
(* What every handler does to the links *)

\* After quiet operations only.
LEMMA LiftedFromCalm ==
  ASSUME NEW id \in Ids, NEW w0 \in Worlds, NEW v, NEW half, Shape(id, w0), Quiet(id, v, w0)
  PROVE  Lifted(id, w0, v, half)
BY CalmLift DEF Quiet, Lifted

\* Quiet operations may follow.
LEMMA QuietLifted ==
  ASSUME NEW id \in Ids, NEW w0, NEW w, NEW v, NEW half, Lifted(id, w0, w, half), Quiet(id, v, w)
  PROVE  Lifted(id, w0, v, half)
BY QuietLift DEF Quiet, Lifted

\* The destructor takes the link of the item and leaves no flag.
LEMMA DestroyedLift ==
  ASSUME NEW id \in Ids, NEW w0 \in Worlds, NEW w, NEW ok, NEW half,
         Shape(id, w0), Quiet(id, w, w0)
  PROVE  Lifted(id, w0, Destroyed(id, w, ok), half)
<1> DEFINE c == cancel(w)
           u == unmount(id, c, TRUE, ok)
           v == [u EXCEPT !.live = FALSE, !.it = NewItem]
<1>1. Quiet(id, c, w0)
  BY CancelQuiet, QuietTrans DEF Quiet
<1> HIDE DEF c
<1>2. Lifted(id, w0, u, TRUE)
  BY <1>1, UnmountLift DEF Quiet
<1> HIDE DEF u
<1>3. v \in Worlds /\ v.it = NewItem /\ v.links = u.links /\ v.vpks = u.vpks
  BY <1>2, NewItemFits DEF Worlds, Lifted
<1>4. Destroyed(id, w, ok) = v
  BY DEF Destroyed, c, u
<1> HIDE DEF v
<1>5. Shape(id, v) /\ ~Fl(v)
  BY <1>2, <1>3 DEF NewItem, Fl, Shape, Lifted
<1>6. Lift(id, w0, v, half)
  BY <1>2, <1>3, <1>5 DEF Lift, Lifted
<1> QED
  BY <1>3, <1>4, <1>5, <1>6 DEF Lifted

\* track_workshop_item() mounts nothing.
LEMMA TrackQuiet ==
  ASSUME NEW id \in Ids, NEW w \in Worlds, NEW user \in BOOLEAN, NEW ok, NEW h \in NewHandles(w, ok)
  PROVE  Quiet(id, track_workshop_item(w, user, ok, h), w)
<1> DEFINE q == query_details(w, ok, h)
           l == [q EXCEPT !.queries = q.queries, !.it = q.it, !.downloads = q.downloads,
                          !.live = TRUE]
           u == IF w.live THEN w ELSE l
<1>1. h \in Handles \cup {None}
  BY DEF NewHandles
<1>2. Quiet(id, q, w) /\ q \in Worlds
  BY <1>1, QueryQuiet DEF Quiet
<1> HIDE DEF q
<1>3. Quiet(id, l, q)
  <2>1. q.queries \in SUBSET Handles /\ q.downloads \in SUBSET Ids /\ q.it \in Item
    BY <1>2 DEF Worlds
  <2> QED
    BY <1>2, <2>1, QuietWorld
<1>4. l = [q EXCEPT !.live = TRUE]
  BY <1>2 DEF Worlds
<1> HIDE DEF l
<1>5. Quiet(id, u, w)
  BY <1>2, <1>3, QuietTrans, QuietSelf
<1>6. track_workshop_item(w, user, ok, h) = AddRef(u, user)
  BY <1>4 DEF track_workshop_item, q
<1> HIDE DEF u
<1>7. Quiet(id, AddRef(u, user), u)
  BY <1>5, AddRefQuiet DEF Quiet
<1> QED
  BY <1>5, <1>6, <1>7, QuietTrans

\* untrack_workshop_item() destroys the item or leaves what is mounted.
LEMMA UntrackLift ==
  ASSUME NEW id \in Ids, NEW w0 \in Worlds, NEW user \in BOOLEAN, NEW ok, NEW half, Shape(id, w0)
  PROVE  Lifted(id, w0, untrack_workshop_item(id, w0, user, ok), half)
<1>1. Quiet(id, DropRef(w0, user), w0) /\ Quiet(id, w0, w0)
  BY DropRefQuiet, QuietSelf
<1>2. untrack_workshop_item(id, w0, user, ok)
        \in {w0, DropRef(w0, user), Destroyed(id, DropRef(w0, user), ok)}
  BY DEF untrack_workshop_item
<1>3. Lifted(id, w0, w0, half) /\ Lifted(id, w0, DropRef(w0, user), half)
  BY <1>1, LiftedFromCalm
<1>4. Lifted(id, w0, Destroyed(id, DropRef(w0, user), ok), half)
  BY <1>1, DestroyedLift
<1> QED
  BY <1>2, <1>3, <1>4

\* on_details_queried() may install twice, from the first download and after it:
\* the second finds nothing more to learn.
LEMMA DetailsLift ==
  ASSUME NEW id \in Ids, NEW w0 \in Worlds, NEW ok, NEW half, NEW name \in Names \cup {NoName},
         Shape(id, w0)
  PROVE  LET q == QueryReleased(Metadata(Details(id, Answered(w0), ok), ok, name))
         IN  Lifted(id, w0, IfInstalled(id, FirstDownload(id, q, ok), ok), half)
<1> DEFINE a == Answered(w0)
           b == Details(id, a, ok)
           c == Metadata(b, ok, name)
           q == QueryReleased(c)
           d == download(id, q, ok)
           S == d.it.state \cup {"initialized"}
           e == [d EXCEPT !.it.state = S]
           f == FirstDownload(id, q, ok)
<1>1. Quiet(id, a, w0)
  BY AnsweredQuiet
<1> HIDE DEF a
<1>2. Quiet(id, b, w0)
  BY <1>1, DetailsQuiet, QuietTrans DEF Quiet
<1> HIDE DEF b
<1>3. Quiet(id, c, w0)
  BY <1>2, MetadataQuiet, QuietTrans DEF Quiet
<1> HIDE DEF c
<1>4. Quiet(id, q, w0)
  BY <1>3, ReleasedQuiet, QuietTrans DEF Quiet
<1> HIDE DEF q
<1>5. Lifted(id, w0, q, half) /\ q \in Worlds /\ Ready(id, w0, q, half, ok)
  BY <1>4, LiftedFromCalm DEF Quiet, Ready
<1>6. Lifted(id, w0, d, half) /\ (Learnt(d, ok) \/ Calm(d, q)) /\ d \in Worlds
  BY <1>5, DownloadLift DEF Lifted
<1>7. f \in {q, e}
  BY <1>6 DEF FirstDownload, Worlds, Item
<1> HIDE DEF d
<1>8. S \in SUBSET Flags /\ ("mounted" \in S <=> "mounted" \in d.it.state)
  BY <1>6 DEF Worlds, Item, Flags
<1>9. Quiet(id, e, d)
  BY <1>6, <1>8, FlagQuiet
<1>10. e.it.app = d.it.app /\ e.it.state = S
  BY <1>6 DEF Worlds, Item
<1>11. Learnt(d, ok) => Learnt(e, ok)
  BY <1>10 DEF Learnt
<1> HIDE DEF S, e
<1>12. Calm(d, q) => Calm(e, w0)
  BY <1>4, <1>9 DEF Quiet, Calm
<1>13. Lifted(id, w0, e, half) /\ e \in Worlds /\ Ready(id, w0, e, half, ok)
  BY <1>6, <1>9, <1>11, <1>12, QuietLifted DEF Ready, Lifted
<1>14. Lifted(id, w0, f, half) /\ f \in Worlds /\ Ready(id, w0, f, half, ok)
  BY <1>5, <1>7, <1>13
<1> HIDE DEF f
<1>15. Lifted(id, w0, IfInstalled(id, f, ok), half)
  BY <1>14, IfInstalledLift
<1> QED
  BY <1>15 DEF f, q, c, b, a

\* A finished download installs once.
LEMMA DownloadedLift ==
  ASSUME NEW id \in Ids, World(id) \in Worlds, Shape(id, World(id)), NEW ok, NEW half
  PROVE  /\ Lifted(id, World(id), [World(id) EXCEPT !.downloads = @ \ {id}], half)
         /\ Lifted(id, World(id), Downloaded(id, ok), half)
<1> DEFINE w == World(id)
           it == [w.it EXCEPT !.state = @ \ {"download_active"}]
           v == [w EXCEPT !.queries = w.queries, !.it = it, !.downloads = w.downloads \ {id},
                          !.live = w.live]
           p == [w EXCEPT !.queries = w.queries, !.it = w.it, !.downloads = w.downloads \ {id},
                          !.live = w.live]
           S == it.state \cup {"downloaded"}
           u == [v EXCEPT !.it.state = S]
           i == IfInstalled(id, u, ok)
<1>0. w \in Worlds /\ w.it \in Item /\ w.queries \in SUBSET Handles
      /\ w.downloads \ {id} \in SUBSET Ids /\ w.live \in BOOLEAN
  BY DEF Worlds
<1>1. it \in Item /\ it.dst = w.it.dst /\ it.mounttype = w.it.mounttype /\ it.app = w.it.app
      /\ it.state = w.it.state \ {"download_active"}
  BY <1>0 DEF Item
<1>2. v = [w EXCEPT !.downloads = @ \ {id}, !.it.state = @ \ {"download_active"}]
  BY <1>0 DEF Worlds, Item
<1>3. p = [w EXCEPT !.downloads = @ \ {id}]
  BY <1>0 DEF Worlds
<1>s. Shape(id, w)
  OBVIOUS
<1> HIDE DEF w
<1>4. v \in Worlds /\ v.it = it
  BY <1>0, <1>1 DEF Worlds
<1>5. [v EXCEPT !.it.state = @ \cup {"downloaded"}] = u
  BY <1>4 DEF Worlds, Item
<1>6. Downloaded(id, ok) \in {v, i}
  BY <1>2, <1>5 DEF Downloaded, w
<1>7. S \in SUBSET Flags /\ ("mounted" \in S <=> "mounted" \in v.it.state)
  BY <1>1, <1>4 DEF Item, Flags
<1> HIDE DEF it
<1>8. Quiet(id, v, w)
  BY <1>0, <1>1, QuietWorld
<1>9. Quiet(id, p, w)
  BY <1>0, QuietWorld
<1> HIDE DEF p, v, S
<1>10. Quiet(id, u, w)
  BY <1>4, <1>7, <1>8, FlagQuiet, QuietTrans
<1> HIDE DEF u
<1>11. Lifted(id, w, v, half) /\ Lifted(id, w, p, half) /\ Lifted(id, w, u, half)
  BY <1>0, <1>s, <1>8, <1>9, <1>10, LiftedFromCalm
<1>12. Ready(id, w, u, half, ok) /\ u \in Worlds
  BY <1>10 DEF Ready, Quiet
<1>13. Lifted(id, w, i, half)
  BY <1>0, <1>11, <1>12, IfInstalledLift
<1> QED
  BY <1>3, <1>6, <1>11, <1>13 DEF w

-----------------------------------------------------------------------------
(* The invariant and the steps *)

\* Every item is shaped by what it was told.
Shapes == \A id \in Ids : Shape(id, World(id))

\* The inductive invariant of the links.
LInv == WInv /\ UnloadPhases /\ Shapes

\* A handler of x did this.
Does(x) == \E w : Commit(x, w) /\ Lifted(x, World(x), w, command = "refresh")

\* Every handler of an item but the resolution of a collection.
LEMMA ItemDoes ==
  ASSUME LInv, NEW id \in Ids, ItemStep(id)
  PROVE  ResolveCollection(id) \/ Does(id)
<1> DEFINE half == command = "refresh"
           w0 == World(id)
<1>0. w0 \in Worlds /\ Shape(id, w0) /\ Sound(w0, Others(id), workshop_initalized)
  BY WorldSound DEF LInv, Shapes, Sound
<1> HIDE DEF half, w0
<1>1. CASE Track(id)
  <2>1. PICK ok \in Luck(Asking) : \E h \in NewHandles(w0, ok) :
           Commit(id, track_workshop_item(w0, TRUE, ok, h))
    BY <1>1 DEF Track, w0
  <2>2. PICK h \in NewHandles(w0, ok) : Commit(id, track_workshop_item(w0, TRUE, ok, h))
    BY <2>1
  <2>3. Lifted(id, w0, track_workshop_item(w0, TRUE, ok, h), half)
    BY <1>0, TrackQuiet, LiftedFromCalm
  <2> QED
    BY <2>2, <2>3 DEF Does, half, w0
<1>2. CASE Untrack(id)
  <2>1. PICK ok \in Luck(Releasing) : Commit(id, untrack_workshop_item(id, w0, TRUE, ok))
    BY <1>2 DEF Untrack, w0
  <2>2. Lifted(id, w0, untrack_workshop_item(id, w0, TRUE, ok), half)
    BY <1>0, UntrackLift
  <2> QED
    BY <2>1, <2>2 DEF Does, half, w0
<1>3. CASE ClearOne(id)
  <2>1. PICK ok \in Luck(Releasing) : Commit(id, Destroyed(id, w0, ok))
    BY <1>3 DEF ClearOne, w0
  <2>2. Lifted(id, w0, Destroyed(id, w0, ok), half)
    BY <1>0, DestroyedLift, QuietSelf
  <2> QED
    BY <2>1, <2>2 DEF Does, half, w0
<1>4. CASE RefreshOne(id)
  <2> DEFINE c == cancel(w0)
  <2>1. PICK ok \in Luck(Releasing \cup Asking \cup Installing) :
          \E h \in NewHandles(c, ok) : Commit(id, refresh(id, c, ok, h))
    BY <1>4 DEF RefreshOne, w0
  <2>2. PICK h \in NewHandles(c, ok) : Commit(id, refresh(id, c, ok, h))
    BY <2>1
  <2>3. Quiet(id, c, w0) /\ h \in Handles \cup {None}
    BY <1>0, CancelQuiet DEF NewHandles
  <2> HIDE DEF c
  <2>4. Lifted(id, w0, refresh(id, c, ok, h), TRUE)
    BY <1>0, <2>3, RefreshLift DEF Quiet
  <2>5. half = TRUE
    BY <1>4 DEF RefreshOne, Visit, half
  <2> QED
    BY <2>2, <2>4, <2>5 DEF Does, half, w0
<1>5. CASE ResolveOther(id)
  <2>1. PICK ok \in Luck(Releasing) : Commit(id, Destroyed(id, Answered(w0), ok))
    BY <1>5 DEF ResolveOther, w0
  <2>2. Quiet(id, Answered(w0), w0)
    BY <1>0, AnsweredQuiet
  <2>3. Lifted(id, w0, Destroyed(id, Answered(w0), ok), half)
    BY <1>0, <2>2, DestroyedLift
  <2> QED
    BY <2>1, <2>3 DEF Does, half, w0
<1>6. CASE on_details_queried(id)
  <2>1. PICK ok \in Luck({"result", "details", "children", "metadata"} \cup Installing),
             name \in MapNames[id] \cup (IF MapNames[id] = {} THEN {NoName} ELSE {}) :
          \E w \in {QueryReleased(Metadata(Details(id, Answered(w0), ok), ok, name))} :
          \E v \in {FirstDownload(id, w, ok)}: Commit(id, IfInstalled(id, v, ok))
    BY <1>6 DEF on_details_queried, w0
  <2> DEFINE q == QueryReleased(Metadata(Details(id, Answered(w0), ok), ok, name))
  <2>2. Commit(id, IfInstalled(id, FirstDownload(id, q, ok), ok))
    BY <2>1
  <2>3. name \in Names \cup {NoName}
    BY ConstAssumption
  <2>4. Lifted(id, w0, IfInstalled(id, FirstDownload(id, q, ok), ok), half)
    BY <1>0, <2>3, DetailsLift
  <2> QED
    BY <2>2, <2>4 DEF Does, half, w0
<1>7. CASE DownloadResult(id)
  <2> DEFINE p == [World(id) EXCEPT !.downloads = @ \ {id}]
  <2>1. PICK ok \in Luck({"result", "info_download", "info", "symlink"}) :
          Commit(id, IF workshop_initalized THEN Downloaded(id, ok) ELSE p)
    BY <1>7 DEF DownloadResult
  <2>2. Lifted(id, w0, p, half) /\ Lifted(id, w0, Downloaded(id, ok), half)
    BY <1>0, DownloadedLift DEF w0
  <2> HIDE DEF p
  <2>3. Lifted(id, w0, IF workshop_initalized THEN Downloaded(id, ok) ELSE p, half)
    BY <2>2
  <2> QED
    BY <2>1, <2>3 DEF Does, half, w0
<1>8. CASE ItemInstalled(id)
  <2>1. PICK ok \in Luck({"info", "symlink"}) :
          Commit(id, IF workshop_initalized /\ id \in workshop_items
                     THEN IfInstalled(id, w0, ok) ELSE w0)
    BY <1>8 DEF ItemInstalled, w0
  <2>2. Lifted(id, w0, w0, half) /\ Ready(id, w0, w0, half, ok)
    BY <1>0, QuietSelf, LiftedFromCalm DEF Ready, Quiet
  <2>3. Lifted(id, w0, IfInstalled(id, w0, ok), half)
    BY <1>0, <2>2, IfInstalledLift
  <2>4. Lifted(id, w0, IF workshop_initalized /\ id \in workshop_items
                       THEN IfInstalled(id, w0, ok) ELSE w0, half)
    BY <2>2, <2>3
  <2> QED
    BY <2>1, <2>4 DEF Does, half, w0
<1> QED
  BY <1>1, <1>2, <1>3, <1>4, <1>5, <1>6, <1>7, <1>8 DEF ItemStep

\* Every step of a mod, which may untrack its item and track it again.
LEMMA ModDoes ==
  ASSUME LInv, NEW m \in Mods, ModStep(m)
  PROVE  Does(WorkshopFile[m])
<1> DEFINE half == command = "refresh"
           id == WorkshopFile[m]
           w0 == World(id)
           u(ok) == ModUntracks(m, w0, ok)
<1>0. /\ id \in Ids /\ w0 \in Worlds /\ Shape(id, w0)
  BY ConstAssumption, WorldSound DEF LInv, Shapes, Sound
<1> HIDE DEF half, id, w0
<1>1. ASSUME NEW ok PROVE Lifted(id, w0, u(ok), half)
  <2>1. u(ok) \in {w0, untrack_workshop_item(id, w0, FALSE, ok)}
    BY DEF ModUntracks, id
  <2>2. Lifted(id, w0, w0, half) /\ Lifted(id, w0, untrack_workshop_item(id, w0, FALSE, ok), half)
    BY <1>0, LiftedFromCalm, QuietSelf, UntrackLift
  <2> QED
    BY <2>1, <2>2
<1>2. ASSUME NEW w, Lifted(id, w0, w, half), NEW ok, NEW h \in NewHandles(w, ok)
      PROVE  Lifted(id, w0, ModTracks(w, ok, h), half)
  <2>1. ModTracks(w, ok, h) \in {w, track_workshop_item(w, FALSE, ok, h)}
    BY DEF ModTracks
  <2>2. Quiet(id, track_workshop_item(w, FALSE, ok, h), w)
    BY <1>0, <1>2, TrackQuiet DEF Lifted
  <2>3. Lifted(id, w0, track_workshop_item(w, FALSE, ok, h), half)
    BY <1>0, <1>2, <2>2, QuietLifted
  <2> QED
    BY <1>2, <2>1, <2>3
<1>3. CASE ModInit(m)
  <2>1. PICK ok \in Luck(Asking) : \E h \in NewHandles(w0, ok) : Commit(id, ModTracks(w0, ok, h))
    BY <1>3 DEF ModInit, w0, id
  <2>2. PICK h \in NewHandles(w0, ok) : Commit(id, ModTracks(w0, ok, h))
    BY <2>1
  <2>3. Lifted(id, w0, w0, half)
    BY <1>0, LiftedFromCalm, QuietSelf
  <2>4. Lifted(id, w0, ModTracks(w0, ok, h), half)
    BY <1>2, <2>3
  <2> QED
    BY <2>2, <2>4 DEF Does, half, w0, id
<1>4. CASE ModReload(m)
  <2>1. PICK ok \in Luck(Releasing \cup Asking) :
          \E h \in NewHandles(u(ok), ok) : Commit(id, ModTracks(u(ok), ok, h))
    BY <1>4 DEF ModReload, w0, id
  <2> HIDE DEF u
  <2>2. PICK h \in NewHandles(u(ok), ok) : Commit(id, ModTracks(u(ok), ok, h))
    BY <2>1
  <2>3. Lifted(id, w0, u(ok), half)
    BY <1>1
  <2>4. Lifted(id, w0, ModTracks(u(ok), ok, h), half)
    BY <1>2, <2>3
  <2> QED
    BY <2>2, <2>4 DEF Does, half, w0, id
<1>5. CASE ModDestroy(m) \/ UnloadOne(m) \/ DestroyOne(m)
  <2>1. PICK ok \in Luck(Releasing) : Commit(id, u(ok))
    BY <1>5 DEF ModDestroy, UnloadOne, DestroyOne, w0, id
  <2> HIDE DEF u
  <2>2. Lifted(id, w0, u(ok), half)
    BY <1>1
  <2> QED
    BY <2>1, <2>2 DEF Does, half, w0, id
<1> QED
  BY <1>3, <1>4, <1>5 DEF ModStep

\* An item that Steam has told nothing about.
Blank(it) ==
  /\ it.app = "unknown" /\ it.mounttype = "unknown" /\ it.dst = NoName
  /\ "mounted" \notin it.state

\* What a step of x leaves, w being what its handler made of the world of x.
Leaves(x, w) ==
  /\ Lifted(x, World(x), w, command = "refresh")
  /\ links' = w.links /\ vpks' = w.vpks
  /\ item'[x] = w.it \/ Blank(item'[x])
  /\ \A i \in Ids \ {x} : item'[i] = item[i] \/ Blank(item'[i])

\* A committed handler leaves the other items alone.
LEMMA DoesLeaves ==
  ASSUME LInv, NEW x \in Ids, Does(x) PROVE \E w : Leaves(x, w)
<1>1. PICK w : Commit(x, w) /\ Lifted(x, World(x), w, command = "refresh")
  BY DEF Does
<1>2. item \in [Ids -> Item]
  BY DEF LInv, WInv, AgreesWithSteam, TypeOK
<1>3. Leaves(x, w)
  BY <1>1, <1>2, CommitMeans DEF Leaves
<1> QED
  BY <1>3

\* A resolved collection is destroyed, and its children are blank.
LEMMA CollectionLeaves ==
  ASSUME LInv, NEW x \in Ids, ResolveCollection(x) PROVE \E w : Leaves(x, w)
<1>1. PICK ok \in Luck(Releasing) :
        LET w   == Destroyed(x, Answered(World(x)), ok)
            new == Children[x] \ (workshop_items \ {x})
        IN \E h \in [new -> (Handles \ w.queries) \cup {None}] :
           \E sent \in SUBSET {c \in new : h[c] # None} :
             /\ \A c, d \in new : h[c] = h[d] => c = d \/ h[c] = None
             /\ "create" \notin Failing => \A c \in new : h[c] # None
             /\ "send" \notin Failing => \A c \in new : h[c] # None => c \in sent
             /\ workshop_items' = (workshop_items \ {x}) \cup new
             /\ item' = [i \in Ids |->
                  IF i \in new
                  THEN query_details([w EXCEPT !.it = NewItem],
                                     IF i \in sent THEN {"send"} ELSE {}, h[i]).it
                  ELSE IF i = x THEN NewItem ELSE item[i]]
             /\ queries' = w.queries \cup ({h[c] : c \in new} \ {None})
             /\ links' = w.links /\ maps_dir' = w.maps_dir /\ vpks' = w.vpks
             /\ robbed' = IF Holders(x) # {} THEN robbed \cup {x} ELSE robbed
  BY DEF ResolveCollection
<1> DEFINE w == Destroyed(x, Answered(World(x)), ok)
           new == Children[x] \ (workshop_items \ {x})
           v == [w EXCEPT !.it = NewItem]
<1>2. PICK h \in [new -> (Handles \ w.queries) \cup {None}] :
        \E sent \in SUBSET {c \in new : h[c] # None} :
          /\ item' = [i \in Ids |->
                  IF i \in new
                  THEN query_details(v, IF i \in sent THEN {"send"} ELSE {}, h[i]).it
                  ELSE IF i = x THEN NewItem ELSE item[i]]
          /\ links' = w.links /\ vpks' = w.vpks
  BY <1>1
<1>3. PICK sent \in SUBSET {c \in new : h[c] # None} :
          /\ item' = [i \in Ids |->
                  IF i \in new
                  THEN query_details(v, IF i \in sent THEN {"send"} ELSE {}, h[i]).it
                  ELSE IF i = x THEN NewItem ELSE item[i]]
          /\ links' = w.links /\ vpks' = w.vpks
  BY <1>2
<1>4. World(x) \in Worlds /\ Shape(x, World(x))
  BY WorldSound DEF LInv, Shapes, Sound
<1>5. Lifted(x, World(x), w, command = "refresh") /\ w \in Worlds
  BY <1>4, AnsweredQuiet, DestroyedLift DEF Lifted
<1> HIDE DEF w, new
<1>6. v \in Worlds /\ v.it = NewItem
  BY <1>5, NewItemFits DEF Worlds
<1>7. Blank(NewItem)
  BY DEF Blank, NewItem
<1>8. ASSUME NEW i \in Ids, NEW o, NEW g \in Handles \cup {None}
      PROVE  Blank(query_details(v, o, g).it)
  <2>1. Quiet(i, query_details(v, o, g), v)
    BY <1>6, <1>8, QueryQuiet
  <2> DEFINE sent2 == g # None /\ "send" \in o
             it == [NewItem EXCEPT !.handle = g, !.call = IF sent2 THEN g ELSE None,
                              !.state = IF sent2 THEN @ \cup {"details_query_active"} ELSE @]
             q == [v EXCEPT !.queries = (v.queries \ {v.it.handle}) \cup ({g} \ {None}), !.it = it]
  <2>2. query_details(v, o, g) \in {v, q}
    BY <1>6, NewItemFits DEF query_details, Worlds, Item
  <2>3. Blank(it)
    BY <1>7, NewItemFits DEF Blank, NewItem
  <2> HIDE DEF it
  <2>4. q.it = it
    BY <1>6 DEF Worlds
  <2> QED
    BY <1>6, <1>7, <2>2, <2>3, <2>4
<1> HIDE DEF v
<1>9. ASSUME NEW i \in Ids, i \in new PROVE Blank(item'[i])
  <2>1. item'[i] = query_details(v, IF i \in sent THEN {"send"} ELSE {}, h[i]).it
    BY <1>3, <1>9
  <2>2. h[i] \in Handles \cup {None}
    BY <1>2, <1>9
  <2> QED
    BY <1>8, <2>1, <2>2
<1>10. \A i \in Ids \ new : item'[i] = IF i = x THEN NewItem ELSE item[i]
  BY <1>3
<1>11. Leaves(x, w)
  BY <1>3, <1>5, <1>7, <1>9, <1>10 DEF Leaves
<1> QED
  BY <1>11

\* A step that has nothing to do with what is mounted.
Still ==
  /\ UNCHANGED <<links, vpks>>
  /\ \A i \in Ids :
       /\ item'[i].app = item[i].app /\ item'[i].mounttype = item[i].mounttype
       /\ item'[i].dst = item[i].dst
       /\ "mounted" \in item'[i].state <=> "mounted" \in item[i].state

\* Logging off cancels the items and unmounts none.
LEMMA LoggedOffStill ==
  ASSUME LInv, LoggedOff PROVE Still
<1> SUFFICES ASSUME NEW i \in Ids
             PROVE  /\ item'[i].app = item[i].app /\ item'[i].mounttype = item[i].mounttype
                    /\ item'[i].dst = item[i].dst
                    /\ "mounted" \in item'[i].state <=> "mounted" \in item[i].state
  BY DEF LoggedOff, Still, disk
<1> DEFINE it == [item[i] EXCEPT !.handle = None, !.call = None,
                                 !.state = @ \ {"details_query_active", "download_active"}]
<1>1. item[i] \in Item
  BY DEF LInv, WInv, AgreesWithSteam, TypeOK
<1>2. item'[i] = it
  <2> DEFINE w == World(i)
             v == [w EXCEPT !.queries = @ \ {w.it.handle}, !.it = it]
  <2>1. w \in Worlds /\ w.it = item[i]
    BY WorldSound DEF LInv, Sound
  <2>2. item'[i] = cancel(w).it
    BY DEF LoggedOff
  <2> HIDE DEF w
  <2>3. cancel(w) = v
    BY <1>1, <2>1 DEF cancel, Worlds, Item
  <2>4. v.it = it
    BY <2>1 DEF Worlds
  <2> QED
    BY <2>2, <2>3, <2>4
<1> QED
  BY <1>1, <1>2 DEF Item

\* Every step is a handler of one item or mounts and unmounts nothing.
LEMMA StepLeaves ==
  ASSUME LInv, [Next]_vars
  PROVE  Still \/ \E x \in Ids : \E w : Leaves(x, w)
<1>1. CASE LoggedOff
  BY <1>1, LoggedOffStill
<1>2. ASSUME NEW x \in Ids, ItemStep(x) PROVE \E w : Leaves(x, w)
  BY <1>2, ItemDoes, DoesLeaves, CollectionLeaves
<1>3. ASSUME NEW m \in Mods, ModStep(m) PROVE \E x \in Ids : \E w : Leaves(x, w)
  <2>1. WorkshopFile[m] \in Ids
    BY ConstAssumption
  <2> QED
    BY <1>3, <2>1, ModDoes, DoesLeaves
<1>4. ASSUME LoggedOn \/ UnloadMods \/ Clear \/ Refresh \/ UNCHANGED vars PROVE Still
  <2>1. UNCHANGED <<item, links, vpks>>
    BY <1>4 DEF LoggedOn, UnloadMods, Clear, Refresh, Begin, vars, disk
  <2> QED
    BY <2>1 DEF Still
<1>5. ASSUME NEW map, ChangeMap(map) PROVE Still
  BY <1>5 DEF ChangeMap, Still, disk
<1> QED
  BY <1>1, <1>2, <1>3, <1>4, <1>5 DEF Next

\* A handler keeps the shapes.
LEMMA LeavesShapes ==
  ASSUME LInv, NEW x \in Ids, NEW w, Leaves(x, w) PROVE Shapes'
<1> SUFFICES ASSUME NEW id \in Ids PROVE Shape(id, World(id))'
  BY DEF Shapes
<1>1. Shape(id, World(id)) /\ Shape(x, w) /\ links' = w.links
  BY DEF LInv, Shapes, Leaves, Lifted
<1>2. \A i \in Ids : links'[i] \in {None, i}
  BY <1>1 DEF Shape
<1>3. CASE Blank(item'[id])
  BY <1>2, <1>3 DEF Blank, Shape, World, Fl
<1>4. CASE item'[id] = item[id]
  BY <1>1, <1>2, <1>4 DEF Shape, World, Fl
<1>5. CASE id = x /\ item'[id] = w.it
  BY <1>1, <1>2, <1>5 DEF Shape, World, Fl
<1> QED
  BY <1>3, <1>4, <1>5 DEF Leaves

\* The shapes are inductive.
LEMMA StepShapes == LInv /\ [Next]_vars => Shapes'
<1> SUFFICES ASSUME LInv, [Next]_vars PROVE Shapes'
  OBVIOUS
<1>1. CASE Still
  <2> SUFFICES ASSUME NEW id \in Ids PROVE Shape(id, World(id))'
    BY DEF Shapes
  <2>1. Shape(id, World(id))
    BY DEF LInv, Shapes
  <2> QED
    BY <1>1, <2>1 DEF Still, Shape, World, Fl
<1> QED
  BY <1>1, StepLeaves, LeavesShapes

\* An item that is not the handler's is unbacked only if the two share a path; the
\* handler's own item only as Lift says.
LEMMA StepUnbacked == LInv /\ [Next]_vars => UnbackedStep
<1> SUFFICES ASSUME LInv, [Next]_vars, NEW id \in Ids,
                    (Flagged(id) /\ ~Backed(id))', ~(Flagged(id) /\ ~Backed(id))
             PROVE  \/ item'[id].dst \in Names /\ links[item'[id].dst] \notin {None, id}
                    \/ \E other \in Ids \ {id} : Flagged(other) /\ item[other].dst = item[id].dst
                    \/ Flagged(id) /\ item'[id].dst # item[id].dst
                    \/ command = "refresh" /\ item[id].mounttype = "vpk"
  BY DEF UnbackedStep
<1>0. item[id] \in Item
  BY DEF LInv, WInv, AgreesWithSteam, TypeOK
<1>1. CASE Still
  BY <1>1 DEF Still, Flagged, Backed
<1>2. ASSUME NEW x \in Ids, NEW w, Leaves(x, w), id = x
      PROVE  \/ item'[id].dst \in Names /\ links[item'[id].dst] \notin {None, id}
             \/ Flagged(id) /\ item'[id].dst # item[id].dst
             \/ command = "refresh" /\ item[id].mounttype = "vpk"
  <2>1. item'[id] = w.it /\ links' = w.links /\ vpks' = w.vpks
        /\ Lift(id, World(id), w, command = "refresh")
    BY <1>2 DEF Leaves, Lifted, Flagged, Blank
  <2>2. Fl(w) /\ ~Bk(id, w)
    BY <2>1 DEF Flagged, Backed, Fl, Bk
  <2>3. ~(Fl(World(id)) /\ ~Bk(id, World(id)))
    BY DEF Flagged, Backed, Fl, Bk, World
  <2>4. \/ w.it.dst \in Names /\ World(id).links[w.it.dst] \notin {None, id}
        \/ Fl(World(id)) /\ w.it.dst # World(id).it.dst
        \/ (command = "refresh") /\ World(id).it.mounttype = "vpk"
    BY <2>1, <2>2, <2>3 DEF Lift
  <2> QED
    BY <2>1, <2>4 DEF World, Fl, Flagged
<1>3. ASSUME NEW x \in Ids, NEW w, Leaves(x, w), id # x
      PROVE  \E other \in Ids \ {id} : Flagged(other) /\ item[other].dst = item[id].dst
  <2>1. item'[id] = item[id] /\ links' = w.links /\ vpks' = w.vpks
        /\ Lift(x, World(x), w, command = "refresh")
    BY <1>3 DEF Leaves, Lifted, Flagged, Blank
  <2>2. Flagged(id) /\ Backed(id) /\ ~Backed(id)'
    BY <2>1 DEF Flagged
  <2>3. id \in vpks' <=> id \in vpks
    BY <1>3, <2>1 DEF Lift, World
  <2>4. \A d \in Ids \cup Names :
          \/ links'[d] = links[d] \/ links[d] = None
          \/ Flagged(x) /\ item[x].dst = d
    BY <2>1 DEF Lift, World, Fl, Flagged
  <2>5. Shape(x, World(x)) /\ Shape(id, World(id))
    BY DEF LInv, Shapes
  <2>6. CASE item[id].mounttype = "vpk"
    <3>1. links[id] = id /\ links'[id] # id
      BY <2>1, <2>2, <2>3, <2>6 DEF Backed
    <3>2. Flagged(x) /\ item[x].dst = id
      BY <2>4, <3>1, ConstAssumption
    <3>3. item[id].dst = id
      BY <2>5, <2>6 DEF Shape, World
    <3> QED
      BY <1>3, <3>2, <3>3
  <2>7. CASE item[id].mounttype # "vpk"
    <3>1. item[id].dst # NoName /\ links[item[id].dst] = id /\ links'[item[id].dst] # id
      BY <2>1, <2>2, <2>7 DEF Backed
    <3>2. item[id].dst \in Ids \cup Names
      BY <1>0, <3>1 DEF Item, Dsts
    <3>3. Flagged(x) /\ item[x].dst = item[id].dst
      BY <2>4, <3>1, <3>2, ConstAssumption
    <3> QED
      BY <1>3, <3>3
  <2> QED
    BY <2>6, <2>7
<1> QED
  BY <1>1, <1>2, <1>3, StepLeaves

\* A refresh of the item keeps its link; one of another may share the path.
LEMMA StepRefresh == LInv /\ [Next]_vars => RefreshStep
<1> SUFFICES ASSUME LInv, [Next]_vars, NEW id \in Ids, command = "refresh",
                    Flagged(id), item[id].dst \in Names, links[item[id].dst] = id,
                    mapname \in {item[id].dst, <<item[id].dst, id>>},
                    item[id].metadata = item[id].dst
             PROVE  \/ links'[item[id].dst] = id
                    \/ \E other \in Ids \ {id} : item[other].dst = item[id].dst
  BY DEF RefreshStep
<1> DEFINE d == item[id].dst
<1>0. World(id) \in Worlds /\ Shape(id, World(id)) /\ item[id] \in Item
  BY WorldSound DEF LInv, Shapes, Sound, WInv, AgreesWithSteam, TypeOK
<1>1. CASE Still
  BY <1>1 DEF Still
<1>2. ASSUME NEW x \in Ids, NEW w, Leaves(x, w), id # x
      PROVE  links'[d] = id \/ \E other \in Ids \ {id} : item[other].dst = d
  <2>1. links' = w.links /\ Lift(x, World(x), w, command = "refresh")
    BY <1>2 DEF Leaves, Lifted
  <2>2. links'[d] = links[d] \/ links[d] = None \/ item[x].dst = d
    BY <2>1 DEF Lift, World
  <2> QED
    BY <1>2, <2>2, ConstAssumption
<1>3. CASE RefreshOne(id)
  <2> DEFINE w0 == World(id)
             c == cancel(w0)
  <2>1. PICK ok \in Luck(Releasing \cup Asking \cup Installing) :
          \E h \in NewHandles(c, ok) : Commit(id, refresh(id, c, ok, h))
    BY <1>3 DEF RefreshOne
  <2>2. PICK h \in NewHandles(c, ok) : Commit(id, refresh(id, c, ok, h))
    BY <2>1
  <2>3. Quiet(id, c, w0) /\ h \in Handles \cup {None}
    BY <1>0, CancelQuiet DEF NewHandles
  <2>4. c.it.metadata = item[id].metadata
    BY <1>0 DEF cancel, World, Worlds, Item
  <2> HIDE DEF c
  <2> DEFINE r == refresh(id, c, ok, h)
  <2>5. c.it.mounttype = "map" /\ InUse(id, c.it) => LinksStay(r, c)
    BY <1>0, <2>3, RefreshLift DEF Quiet
  <2>6. links' = r.links
    BY <2>2, CommitMeans
  <2> HIDE DEF r
  <2>7. c.links = links /\ c.it.dst = d /\ c.it.mounttype = item[id].mounttype
    BY <2>3 DEF Quiet, Calm, World
  <2>8. item[id].mounttype = "map"
    BY <1>0, ConstAssumption DEF Shape, World, Item
  <2>9. InUse(id, c.it)
    BY <2>4, <2>7 DEF InUse
  <2>10. LinksStay(r, c)
    BY <2>5, <2>7, <2>8, <2>9
  <2> QED
    BY <2>6, <2>7, <2>10, ConstAssumption DEF LinksStay
<1>4. ASSUME NEW x \in Ids, ItemStep(x), x = id PROVE RefreshOne(id)
  BY <1>4 DEF ItemStep, Track, Untrack, ClearOne, Visit, ResolveCollection, ResolveOther,
       on_details_queried, DownloadResult, ItemInstalled, Pending, Idle
<1>5. ASSUME NEW x \in Ids, ItemStep(x), x # id
      PROVE  links'[d] = id \/ \E other \in Ids \ {id} : item[other].dst = d
  BY <1>2, <1>5, ItemDoes, DoesLeaves, CollectionLeaves
<1>6. ASSUME NEW m \in Mods, ModStep(m) PROVE FALSE
  BY <1>6 DEF ModStep, ModInit, ModReload, ModDestroy, UnloadOne, DestroyOne, Visit, Idle
<1>7. CASE LoggedOff \/ LoggedOn \/ UnloadMods \/ Clear \/ Refresh
  BY <1>7 DEF LoggedOff, LoggedOn, UnloadMods, Clear, Refresh, Begin, Idle
<1>8. ASSUME NEW map, ChangeMap(map) PROVE FALSE
  BY <1>8 DEF ChangeMap, Idle
<1>9. CASE UNCHANGED vars
  BY <1>9 DEF vars, disk
<1> QED
  BY <1>3, <1>4, <1>5, <1>6, <1>7, <1>8, <1>9 DEF Next

\* At first there is no item.
LEMMA InitShapes == Init => Shapes
<1> SUFFICES ASSUME Init, NEW id \in Ids PROVE Shape(id, World(id))
  BY DEF Shapes
<1>1. World(id).it = NewItem /\ World(id).links = [d \in Ids \cup Names |-> None]
  BY DEF Init, World
<1> QED
  BY <1>1 DEF Shape, NewItem, Fl

\* The invariant holds in every state the workshop can reach.
LEMMA LinksInvariance == Spec => []LInv
<1>1. Init => LInv
  BY InitAgrees, InitExact, InitShapes DEF LInv
<1>2. LInv /\ [Next]_vars => LInv'
  BY StepAgrees, StepPhases, StepShapes DEF LInv
<1> QED
  BY <1>1, <1>2, PTL DEF Spec

\* workshop_item_t::mount and unmount: an item is flagged as mounted without being so
\* only if it shares its path, was renamed while flagged, or was half unmounted.
THEOREM Unbacked == Spec => UnbackedOnlyBy
<1>1. LInv /\ [Next]_vars => [UnbackedStep]_vars
  BY StepUnbacked
<1> QED
  BY <1>1, LinksInvariance, PTL DEF Spec, UnbackedOnlyBy

\* workshop_item_t::refresh: the map that is played keeps its link, unless another
\* item has a map of that name.
THEOREM KeepsPlayedMap == Spec => RefreshKeepsPlayedMap
<1>1. LInv /\ [Next]_vars => [RefreshStep]_vars
  BY StepRefresh
<1> QED
  BY <1>1, LinksInvariance, PTL DEF Spec, RefreshKeepsPlayedMap

=============================================================================
