# Verification of vmod

vmod is a Source engine server plugin that runs Squirrel scripts as mods. This
directory holds TLA+ models of the parts of it whose correctness depends on the
order of events or on how values are converted, TLC configurations that check
them on small instances, and TLAPS proofs. Paths below are relative to the
repository; `PROJECT.json` maps each definition to the lines it stands for.

The repository has no specification, and almost no comments or tests that say
what the program should do. The properties are therefore of two kinds: promises
that the code keeps (a statement never outlives its connection), and exact
characterisations of what goes wrong where the code does not keep one (a
`free()` is undone *only* by two stale stores). The second kind has names like
`...OnlyBy`, or says "except" in the comment before it; the list of hazards in
`PROJECT.json` says which line it is about.

## 1. Inventory

| Component | Source (`src/src/`) | State | Operations | Who calls it |
|---|---|---|---|---|
| MySQL client | `bindings/net/` | list of connections, statements of each, an atomic step per object, three kinds of mutexes, `done` | connect, prepare, free, visit by the runner, delivery by the frame, shutdown | scripts, a runner thread, the game frame |
| workshop | `main.cpp` 3759-4377, `main.hpp` 209-318 | items with state, queries and handles, metadata, mounts and links; references held by mods | track, untrack, query answer, download answer, log on/off, mount, unmount, commands | Steam callbacks, commands, mods |
| mods | `mod.cpp`, `main.cpp` commands | map of mods, their plugins, what each was told | load, unload, reload, refresh, map events, frames with inotify | engine, commands |
| plugin objects | `plugin.cpp`, `plugin.hpp` | assumed running plugin, owned and shared instances, `path_plugin_map` | load, call, unload, read_function | mods, scripts |
| callables and detours | `plugin.cpp` 254-383, `bindings/ffi/detour.*` | lists of callbacks, bytes of functions, argument vector | hook, free, toggle, release, the closure | scripts, game code |
| VM takeover | `main.cpp` 430-651, 811-1000, 2500-4760 in parts | whose VM the game uses, patched slots and functions, three static flags | load by stages, server init and term, create, destroy, unload | engine |
| Squirrel VM | `vm/squirrel/vm.cpp`, `vmod_init.nut` | the machine's stack, references, pending exception, registered classes, scopes | init, shutdown, calls both ways, get, set, register, release | everything |
| script values and handles | `vscript/`, `gsdk/vscript/` | variants and handle wrappers | convert, move, free | everything |
| memory and ffi calls | `bindings/mem/`, `bindings/ffi/cif.cpp`, `ffi.cpp` | containers, blocks, interfaces of calls | allocate, read, write, call, delete | scripts |
| console | `bindings/cvar/`, `convar.*`, `gsdk/vstdlib/convar.cpp` | variables and commands, wrappers by name, three copies of a value | create, find, set, get, dispatch, delete | scripts, engine |
| entity properties | `bindings/ent/singleton.cpp` | cache of paths | lookup of props and tables | scripts |
| entity factories | `bindings/ent/factory.cpp` | dictionary of the game, a static size | create, find, allocate, delete | scripts, engine |
| send proxies | `bindings/ent/sendtable.*` | a closure per property, the type guessed | hook, free, call, guess | scripts, engine |
| string tables | `bindings/strtables/`, `main.cpp` 743-798 | wrappers of engine tables | created, cleared, read, add | engine, scripts |
| documentation | `bindings/docs.cpp`, `main.cpp` 811-983 | what the game registered | note, write | engine, a command |
| symbol cache, preprocessor, fs, syms | `symbol_cache.*`, `preprocessor.*`, `bindings/fs/`, `bindings/syms/` | none that outlives a call | parse, read, write | load, scripts |

How they interact: the engine calls `main` once a frame and at map changes;
`main` calls mods, mods call plugins, plugins call script functions through the
VM. Scripts call back through bindings, run console commands (and so reach mods
again, from inside a call), hook game functions, and replace proxies, factories
and memory callbacks. Steam answers between frames. The one thread besides the
game thread is the MySQL runner. Under all of it is `load`, which puts the VM of
vmod into the place of the game's, stage by stage, and `unload`, which takes it
out from wherever the load stopped.

What is hard: two threads over atomic steps without read-modify-write (MySQL);
answers that arrive after the item they are about has changed or gone
(workshop); commands inside functions inside commands (plugins, console); events
told to plugins that come and go in the middle of a map (mods, string tables);
lists walked while what they call changes them, and code patched while it runs
(detours, send proxies, memory callbacks); loads that stop half way (takeover);
a stack that C++ and scripts share, and unions read through another member than
they were written (VM).

## 2. Modules

An MC module instantiates a component for TLC. Where parts share no state, one
MC module holds several as *parts*: the variable `part` says which one a
behaviour is of, and its next-state relation is theirs, one at a time. The same
device lets one run hold several instances of one module (`MCWorkshopParts`).
In `MCDetour` the parts are two ways to bound one instance: `Within` says what of
its constants each uses.

| Module | Component | Checked in |
|---|---|---|
| `NetMysql`, with `Requests` as its abstract specification | MySQL client | `MCNetMysql` |
| `Workshop` | workshop | `MCWorkshopParts` (parts refs, links, pack), `MCWorkshopLive` (parts coll, pack), both over `MCWorkshop` |
| `Mods` | mods, map events | `MCMods` |
| `PluginScopes` | plugin objects | `MCPluginScopes` |
| `Detour` | callables, detours | `MCDetour` (parts shared, walk) |
| `Takeover` | load, unload, VM takeover | `MCTakeover` |
| `Squirrel` | calls between C++ and scripts | `MCSquirrel` |
| `Variants`, `Values`, `Calls`, `Vectors`, `Memory`, `Handles` | values, arguments, vector class, containers, handles | `MCValues` (parts values, calls, vectors, memory, handles) |
| `PropTrees`, `ConVarValues`, `Console`, `Factories`, `StringTables`, `SendProxies`, `SendTypes`, `GameBindings` | what scripts do to the game, and what is noted of what the game gives them | `MCEngine` (parts props, values, console, factories, tables, proxies, types, game) |

### NetMysql and Requests

`rpc` and `gpc` are the control points of the two threads. An action is what happens
between two accesses that the other thread can see: taking a mutex, an atomic load or
store of `step_`, a call of the client library, an insertion or erasure.
`LoadConn`/`LoadStmt` and `StoreOutcome` are separate, because the code loads `step_`,
works, and stores without looking again. `step_` has the states of the code's two
enumerations plus "absent" and "gone"; `callback`, `handles` and `owned_instances` are
the fields of the instances that destructors touch. The library is external: each call
succeeds, fails or asks to be continued. Vectors are sets, since a pass visits each
element once. An object is registered with the plugin that is assumed to run, which in
a console command, in a detour or after nested scopes may be nobody or another one
(`MayLackOwner` bounds which objects that is tried for). `UnloadOne` and
`UnloadDeleted` are the loop of `plugin::unload`, which calls whatever pointer the
list holds: when the runner has deleted the object before the loop comes to it, the
call goes through freed memory and nothing is modelled of the game thread after it
("crash"). `UnloadIsClean` says exactly when: the list holds a deleted object during
the loop only, and only one that a script let go of before. `belonged` is the history
it needs for the callbacks: what a plugin has owned does not call it back after the
unload, what was registered with nobody may.

`Requests` is what a script sees, with no threads, locks or steps: what is asked for
is told at most once, lives until somebody let go of it, a connection also while one
of its statements lives, and is not deleted while its callback runs. `NetMysql`
defines the mapping `R` from its own state: what is alive is what has a step that is
neither "absent" nor "gone", the children of a connection are its vector, and so on.
`ImplementsRequests` says that every behaviour maps to one of `Requests`.

### Workshop

A handler is one action: Steam and the engine run it to its end. It computes on a
record (`World`) that `Commit` makes the next state. `Failing` names the outside
calls that may fail in an instance. A command that walks the items is a sequence of
steps over what is left, one per item, since the order of an `unordered_map` is
unspecified. `mods` counts the references of an item as `ref` does in the code. A
`workshop.txt` names one item, without a line break: with one anywhere in the file
the reader in `mod.cpp` 79-90 goes on for ever, at the character it has overwritten.
`upkeep()` has no caller, and `mounttype::search_path` is never set.

### Mods

Each plugin load has an outcome: success, disabled, error. Commands take one step
per mod. The set of plugins that were loaded before one failed is any subset
(unordered map). Erasing a disabled plugin while the map is walked is undefined;
the model takes a crash or a failed load. `told[p]` is what the plugin was told.
The library is loaded by the engine with no map, or in the middle of one. A
library that is loaded again starts with fresh statics.

### PluginScopes

`stack` holds the calls under way, each scoped (`scope_assume_current`) or not
(console commands and detours): an unscoped call keeps what is assumed where it
begins. Each frame has `current`, the plugin of the innermost scope, which is what
should be assumed. `old_running` is one variable for all levels, as in the code, so a
scope inside which another was entered puts the wrong value back. The exceptions
name that level by level: `fresh` says that the innermost scope had none entered
in it, `astray` are the levels to which a scope returned that had. Scopes that nest
without such a return are within the properties. `creator` is the plugin whose
function made an instance, whatever kind of function it was; `strayed` are the
instances made while that plugin was not the current one, or at a level gone astray:
they can be left behind by the unload. `pulled` are the objects that were destroyed
during a call of their own script. A dead object stays dead: addresses are not
reused. After a dead object was touched nothing is modelled.

### Detour

`code[t]` is the original or a jump to a detour; `old_bytes` is what
`backup_bytes` saved. A frame of `stack` is a plugin function, a `script_call`, or
a hooked call with its phase (pre list, function, post list) and what is left of
the walk. Hooking during a walk may rehash the list: the rest of the walk is any
part of it. Return flags `changed` and `handled` are any, `halt` is a choice.

### Takeover

A slot is a pointer in an object of the engine, a detour a jump over the first
bytes of a function, a VM an object whose code belongs to its maker. A stage of
`load` is an action that goes on or stops there; so is an event of the engine: a
level's server init and term, its script, a client that makes and frees a VM of
its own, `unload`, the closing of the library. `unload` destroys the VM and leaves `vm_`
as it was, so `own` keeps the name of a freed VM until the library is closed, and
`mirror`, the copy of the game's pointer, is kept up only by the functions a load has
hooked: `HeldAreAlive` names both. `joined` and `crossed` are history
that the exceptions name: a level that began before vmod was in charge, a VM that
outlived the routines it was made by.

### Squirrel

An activation is a piece of C++ on the machine's stack: the host, then a binding
per level. Its height is counted from where it began, as the sum of what the
library's functions do. Each function of the API is one action with its ways out;
`ExecuteFunction` waits in the middle while a script runs, which may call a
binding, use the API, raise an exception. `last` is the function that has just
returned. Exceptions are counted (`raised`), since one that is raised while another
waits overwrites `last_exception` without releasing it: `kept` are those that have a
reference, `told` those a binding threw, and those overwritten keep theirs beyond
`Shutdown`. A metamethod whose `sq_setdelegate` fails leaves a slot more on the stack, as
`LeavesStackAsFound` names.

### Variants, Values, Calls, Vectors, Memory, Handles

`Variants` is the union as a number of bits read through a member of some width,
for four builds; `Values` sends a value from C++ to a script, back as an argument,
and through memory. Widths are scaled down (TLC has no 64-bit integers): the code
depends on their order only, and on a `long long` holding two pointers. `Calls`
is the three layers that count and check arguments. `Vectors` is the class whose
natives address the stack from its top. `Memory` is containers, blocks and
callers whose callbacks delete each other. `Handles` is the wrapper of a handle,
what freeing one means by its type, and the scopes of `vmod_init.nut`.

### The parts of MCEngine

`PropTrees` walks send tables and data maps by path as the code does, cache
included. `ConVarValues` keeps a value as text, float and int; the text of a float is
the shorter of fixed notation and an exponent, as `std::to_chars` writes it without a
format, so a value that was set as a number can come back as a text. `Console` is the
engine's list and the wrappers by name. `Factories` is the dictionary and the
static size. `StringTables` is the wrapper of each table across maps.
`SendProxies` is the closure of a prop, and the calls of closures under way: a hook
succeeds only if there is a closure already or its second attempt makes one and
prepares it, and a call whose last callback was freed goes on in a freed closure
(`freed`), which `RunsInClosure` allows only once it has called a callback.
`SendTypes` is the guess of a prop's type.
`GameBindings` is what the detours of `RegisterFunction`, `RegisterClass`,
`RegisterInstance` and `SetValue` note for the documentation.

## 3. Runs

| Run | Instance | What it shows |
|---|---|---|
| `net_mysql` | 2 connections with and without owner, 1 statement, every script operation in callbacks | locks, ownership, how frees are undone, how connections get stuck |
| `net_mysql_live` | 1 connection, 1 statement, fair, callbacks that free and use | connections are resolved, what is freed is deleted; the refinement of `Requests` |
| `workshop` | a collection and its map with two mods; two maps that may share a name; a package and an item that is none | queries, references, links, what a refresh leaves alone |
| `workshop_live` | a collection and its map; a package and a mod; fair, no failures | a tracked item ends up mounted |
| `mods` | two mods, three plugins | what plugins are told, in which order |
| `mods_live` | two mods, one plugin, fair | commands end, except one |
| `plugin_scopes` | two objects, an owned or a shared instance, three levels | what is assumed in nested calls, ownership, stale objects, what an unload leaves |
| `detour` | one function, two detours, three callbacks, two plugins; two callbacks that stay enabled and calls nested once, or one detour and no nested calls | bytes, walks, arguments, lost hooks |
| `takeover` | two loads of the library, both engines, four VMs | who is in charge, what a stopped load leaves |
| `squirrel` | the host and two bindings, two exceptions | the stack, copied arguments, exceptions |
| `values` | every kind of value in four builds; two parameters and three arguments; two containers and a caller; two handles | what comes through, and what is still alive |
| `engine` | see `MCEngine` | props, variables, factories, tables, proxies, documentation |

What each property says is in the comment before it.

Why these bounds are enough. In `NetMysql` the threads interfere through one object at
a time; a second connection matters for locks and for a prepare on another connection
than the one that calls back. A second free of one handle matters only once it is
closing, and needs no second connection; it was explored apart and undoes a step as
`StepsGoBackOnlyBy` says. Outside a callback a script holds no mutex, so a use there
is one lock alone and `LockFreeOps` leaves it out. Connections are those that may lack
an owner; a statement's is handled by the same code. In `Workshop` two items suffice
for every relation between items (parent and child, same name), two handles because
one is released before the next is requested unless something leaks, two mods for
reference counts above one. Each outside call fails in one of the three workshops: the
answer of a query and its list of children where there is a collection, links and the
sending of a query where two maps compete for a path, the rest where there is a
package. In `Mods`, one mod with two plugins has every partial failure, and a second
mod makes order between mods visible. In `PluginScopes`, three levels give an outer
call, one inside, and one more inside an unscoped callback or a nested scope; an owned
and a shared instance have nothing to do with each other, so `Apart` stops where both
are there. In `Detour`, one nested call overwrites the argument vector (one for all
detours), and three callbacks are one that runs, one that is freed and one that is
hooked; the two need not meet, since a walk of the list does not look at the argument
vector. In `Takeover` a load can leave something only to the load after it, and there
are at most one VM of each load, one of the client and one of the game alive. In
`Squirrel` an activation that left its stack at another height does no more than
return, since every height is counted from where its activation began; a second
exception is one that overwrites the first (`MaxRaised`), and `Apart` stops where
classes are registered and exceptions were raised, which share nothing. In `Values`
and `ConVarValues` every number of the scaled widths is enumerated; so that an
exponent can be shorter than the digits, digits are binary (`Radix`) and an exponent
is two characters (`ExpChars`). `PropTrees` has a tree with a base, a nested table, an
excluded prop and an external name, and three lookups are one that fills the cache,
one that finds it and one more of the other kind.

`CHECK_DEADLOCK FALSE` is used where the system really stops: the process has
shut down or crashed, or no bounded resource is left to try.

Symmetry and views are used in safety runs only. A view leaves out what is written
again before it is read, and history that no property reads from there on: in
`MCNetMysql` operands outside their operation, and frees of objects that are deleted
and in no list; in `MCPluginScopes` what is known of instances that are not live, of
dead objects, and what a scope saved when none is open.

## 4. Fairness

- `NetMysql`: strong fairness of each thread's steps. Both threads contend for
  `mysqls_mx`, and the runner releases it only to take it again, so weak fairness
  would let the game starve; the operating system's mutexes make no promise, and
  the liveness properties assume a fair one. A library call is assumed not to
  ask to be continued for ever.
- `Workshop`: weak fairness of a command that has begun, strong fairness of Steam's
  answers to the query and the download of the item, which a refresh can replace.
  It is stated in `MCWorkshopLive`, for the part a behaviour is of.
- `Mods`: weak fairness of a command that has begun. Nothing is assumed of the
  engine or of who types commands.

The other modules state no fairness: what they promise is safety.

## 5. Proofs

Every proof is for all values of the constants, under the assumptions the modules
name and TLC evaluates in each run. They say that the value for "none" is no
object, that objects of two kinds differ, that a map given as a constant is one, and
that bounds on nested calls and on arguments are numbers: no theorem assumes a
particular bound.

No safety property below is inductive as it stands. What its invariant adds, and
why it has to:

`NetMysqlProofs`, the locks: `IInv` ties each mutex to control points of its owner,
each control point to the object it works on, and an object under deletion to the
lists it has left. That nobody waits in a circle needs to know which locks are held
where a thread waits. From `IInv` follow `NoDeadlyEmbrace`, `StmtVectorNotShared`
and `OwnerOutlivesStatements`; `SelfDeadlockOnlyInCallback` needs in addition that
the statement whose callback runs stays in the vector the frame has locked (`JInv`).

`NetMysqlProofs`, what lives: lists hold live objects only, a thread that has an
object in hand took it from a list and will not meet it again in this pass
(`RunnerVisit`), a step it took from an object may be out of date in the ways
`RunnerStores` names only, and a plugin lists every object it has owned that can still
call back (`OwnedByPlugin`), deleted ones only while the list is being cleared. From
that follow `UnloadIsClean`, `StepsGoBackOnlyBy`, `ClosingWithStatementsIsStuck`, and
the refinement `ImplementsRequests`: each action of the two threads is one of
`Requests` or a stutter, so a script sees no threads, whatever the number of
connections and statements.

`PluginScopesProofs`: at a level that has not gone astray the assumed plugin is that of
the innermost scope (`AssumedIsRunning`). That is kept by a return only if the scope
that ends saved what is right for the level beneath it, which is so of one inside
which no other was entered (`SavedIsRight`); a call with no scope keeps the current
plugin (`CurrentOfCalls`), and a call under way is of a living plugin or of one that was
destroyed during it (`FramesAlive`). So an instance that did not stray is owned by the
plugin whose function made it (`CreatorOwns`), and an owner is alive. From it follow
`AssumedIsRunning`, `OwnersAgree`, `DeadTouchedOnlyBy` and `LeavesBehindOnly`, the last
from three action properties proved apart (`UnloadFreesAll`, `FreedByScript`,
`NeverReleased`): what a plugin's functions made and an unload leaves had strayed.

`ModsEngineProofs`, the mods: a handler computes a world, the record of all that
belongs to plugins; lemmas say what each operator makes of one. `KInv` says of every
plugin that runs that it has its functions and was told of its load, of one that does
not that it was told nothing, and what is left of a command, of all mods or of a map
event. From it follow `KnowsWhatHappened` and `EventsMakeSense`.

`TakeoverProofs`: the invariant says for each of the 21 stages of a load which
functions jump into the library, which slots are replaced and by which load, which
objects were found, and which failures excuse a null pointer; and whose code frees
each machine. It speaks of `vm_` while the library is loaded (`Mine`), since the unload
leaves a freed VM in it. From it follow `VMInCharge`, `LeavesBehindOnly` and
`MachinesTreatedRight`.

`WorkshopProofs`: a handler is a composition of operations on a world. Each keeps a
world sound, `Commit` of a sound world keeps the invariant. `AgreesWithSteam` needs to
know what a refresh under way still walks, `RefsExact` in which order
`vmod_unload_mods` unloads and destroys. The proof found that the model was wrong
about a collection that lists itself: it is removed and made anew while its own
answer is handled, and the references taken until then are lost. Its second part
proves the action properties `UnbackedOnlyBy` and
`RefreshKeepsPlayedMap`: a step either has nothing to do with what is mounted or is
the handler of one item, and what an item is told fixes the path it links (`Shapes`);
without that another item could take a package away.

`WorkshopPartsProofs`: the run checks these four properties of three instances of
`Workshop` at once (`PartsAgree`, `PartsRefsExact`, ...), and so do its theorems. The
theorems of `WorkshopProofs` are used three times, as they are for the constants of the
run and through `LW` and `PW`, instances of `WorkshopProofs` for the two maps and for
the package. Such a theorem holds if the instance's constants satisfy the assumption
of `Workshop` (`LinksConstants`, `PackConstants`), which needs that ids, names and the
values that stand for nothing differ (`PartsAssumption`). The operators of `LW` are those
of the instance that the run checks (`LinksSame`, `PackSame`).

`DetourProofs`: `HooksInPlace` depends on who will arm a detour again: the first callback
hooked to it does, and every call of its function that returns. So the invariant says
of each call under way that it is of a live detour, of its callbacks that they are that
detour's, of the bytes that they are those of the enabled detour, and of a call that
will arm its detour when it returns, that the detour has a callback, is deleted, or was
stirred before. One state is excepted (`Doomed`): two detours of one function that
overlap can leave behind a closure whose detour is not enabled and has no
callbacks. Its call finds its own jump where the function should be (`closure_binding`
disables nothing, the scope restores the saved jump), so the function calls itself for
ever. From it follow `HooksInPlace`, `DeadTouchedOnlyBy` and
`CallsAreFaithful`. For this proof `Sleep` was rewritten without recursion, as the
choice of who is put to sleep last.

`ScriptProofs`, the machine: the stack of an activation that waits for a script is as
high as what the function it waits in has pushed, so what that pops when the script is
done brings the height back, however many activations ran in between. Of the
exceptions it says that the last one raised waits or was thrown (`Names`), so releasing
the one that waits leaves the references of those that were overwritten
(`LastReleasedIs`). From it follow
`LeavesMachineAsFound` and `BringsBackOwn`.

`ScriptProofs`, for the parts of `MCValues`, which share no state. Handles
(`HandlesInv`): the references of a scope are the wrappers that have a handle of it and
count, and those that were overwritten without a release, and each way a scope can end
(dissolved, under another's name, kept alive by an instance) is tied to that number;
cardinalities are counted one wrapper at a time (`NumberChanges`). Memory
(`MemoryInv`): every deleted object that a destructor, a call or the loop of
`plugin::unload` will come back to was deleted too early, and every object that was
deleted too early was used again or will be (`ComesBack`), so that an empty stack
leaves nothing open; a destructor, a call and the loop differ in what frames they
leave, of which the proofs need only that they follow the stack (`Follows`). Vectors
and calls: the last answer and what the binding has seen, with the shape of the
registers and of the arguments; that what a binding requires and what the machine drops
fit together is a count of optional parameters (`Required`). For these proofs `Forget` of
`Memory` was rewritten as what the code does, the removal of the first it finds, and
`MCValues` assumes what TLC's model values have anyway: an object is of one class, a
number is not an instance, and there are finitely many wrappers.

`ScriptProofs`, the conversions (`ValuesInv`), for any widths of the C types in their
order. A cast is known by two facts, that the number it gives is of the range of its type
and differs from the number it was given by a multiple of 2 to the width (`Alike`); so
casts after one another are one cast whenever none between is narrower (`WideRead`).
`NumberSeen` compares for each type the member that `variant.tpp` stores with the one that
`vm.cpp` reads, `NumberReturns` and `NumberArrives` the way back, and the exceptions of
`ValuesComeThrough` and `ArgumentsArrive` are the types for which they differ. `Variants`
states of powers of two what the provers do not know: each is twice the one before, and a
wider power is a multiple of a narrower one. With `CallsComplete` this gives `Arrive`.

`ModsEngineProofs`, for the parts of the run `engine`, which share no state. String
tables: while vmod is not loaded there is no wrapper, so that one outlives a map only
as `ReadsThisMap` says. Send proxies: all calls under way but the innermost wait for a
callback (`RunsInv`), so a closure that goes with its last callback goes under calls
that have called one; `TypeFits` needs that an element is hooked only after it has a
wrapper. Factories (`DictionaryFits`): each factory that lives has exactly the entries
of its names and nobody else one of them, counted, because a name may be given twice;
(`SizesFit`): only the innermost creation can have left its size behind, and only if
nothing disturbed it. The game's registrations (`NotesFit`): the instance registered
last is of its class until that is freed, and a set of classes written is closed under
their bases; for this proof `WithBases` was rewritten without recursion, as the least
closed set. The console (`ConsoleFits`): the innermost command's arguments are in the
array unless another ran within it. Values of console variables: the nearest float of
an int is a multiple of the distance of floats around it and its own nearest
(`NearestIs`, `NearestTwice`), so that what a setter leaves in the float and in the
int is one number (`SetsAgree`); the integer that the digits of an exponent stand for
is read as the same float (`RoundIs`). Here the widths are constants and appear as
powers of two, of which the provers know nothing; `MCEngine` assumes of them what is
needed, that they are positive, that an int has a few values and that a float is no
narrower than an int by more than the last of `Ulps`. Members of entity classes
(`CachesHold`): what a cache has was found under a path that leads there, as the prop
or table it is, and what was found under a path that is its own full path is kept
under it. A cache is never overwritten, so a script finds it again, for any trees and
whatever a walk finds in them: `PropsAreFoundAgain` knows of a walk only that it ends
at what it was asked for.

Left to TLC:
- all liveness (fairness and ENABLED are out of the prover's reach), so the runs
  `net_mysql_live`, `workshop_live` and `mods_live` but for the refinement;
- of `PropsAnswer`, that the server falls only on a member that is nowhere below
  (`FallsOnlyOnMissing`), and that a member of a send table is found again by the full
  path that was kept for it where that is longer by one name (`SameAnswerAgain`): what a
  search finds is defined by recursion over the tree and by folds over its tables, of
  which nothing can be proved without induction over data. The rest of `PropsAnswer` is
  `PropsAreFoundAgain` and `DataAnswersAgain`.

## 6. Plan

Everything listed in section 2 is modelled, and every safety property of a run is proved
but for what section 5 leaves to TLC. What could follow:

1. The reader of `workshop.txt`, over all small files.
2. The elements of a `CUtlVector` behind a send proxy.
3. A walk in `PropTrees` for trees of a bounded depth, unrolled, so that the rest of
   `PropsAnswer` can be proved without induction.

## 7. Not modelled

- `symbol_cache.*`, `preprocessor.*`: computations over a file, with no state that
  outlives them and no other actor.
- `bindings/fs`, `bindings/syms`: one library call each.
- `vm/sourcepawn`: most methods are stubs that end the program.
- `hacking.*`: patching of bytes and slots at start up; what matters of it, when
  it happens and what it restores, is in `Takeover` and `Detour`.
- The declarations of the game's SDK in `gsdk/`, and the helpers that
  `vmod_init.nut` gives to scripts among themselves.
- In the modelled components: queries, results, texts and file contents are
  abstract everywhere, values of arguments everywhere but in `Values` and
  `Calls`. The 13 byte patch of a detour is atomic: only the game thread runs
  game code that scripts can hook. Interference of two library calls inside
  MariaDB on one `MYSQL` object (statements do not take the lock of their
  connection) is not visible in the repository's code.
