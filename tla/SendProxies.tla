----------------------------- MODULE SendProxies -----------------------------
(***************************************************************************)
(* Send proxies with script callbacks (bindings/ent/sendtable.cpp): while  *)
(* a sendprop has callbacks, the m_ProxyFn of the SendProp is a closure    *)
(* that calls them around the proxy of the game. The closure is made when  *)
(* the first callback comes and freed when the last one goes, also in the  *)
(* middle of its own call.                                                 *)
(***************************************************************************)
EXTENDS Integers, Sequences

CONSTANTS Props,      \* bound: the SendProps with a wrapper
          Callbacks,  \* bound: the callback instances of scripts
          MaxDepth    \* bound: proxies within each other

VARIABLES m_ProxyFn, \* what the engine calls: old, or the code of the closure
          closure,   \* none, ready, or allocated and not prepared
          hooks,     \* the callbacks of a prop, before and after
          running,   \* the calls of closures that are under way
          failed     \* history: the props for which preparing a closure failed since there was none

proxyvars == <<m_ProxyFn, closure, hooks, running, failed>>

XInit ==
  /\ m_ProxyFn = [p \in Props |-> "old"] /\ closure = [p \in Props |-> "none"]
  /\ hooks = [c \in Callbacks |-> [prop |-> "none", post |-> FALSE]]
  /\ running = <<>> /\ failed = {}

Of(p, post) == {c \in Callbacks : hooks[c].prop = p /\ hooks[c].post = post}
Empty(p) == Of(p, FALSE) \cup Of(p, TRUE) = {}

\* callable::call chooses among the callbacks of its list, one at a time.
Top == running[Len(running)]
ScriptRuns == running # <<>> => Top.in # "none"

\* initialize_closure of a closure in some state: nothing when there is one,
\* whatever became of it; none when there is no memory for one.
Initialized(state, outcome) ==
  IF state # "none" THEN state
  ELSE CASE outcome = "ok" -> "ready" [] outcome = "unprepared" -> "unprepared" [] outcome = "no memory" -> "none"

\* What it returns: whether there was one, or one was made and prepared.
Initializes(state, outcome) == state # "none" \/ outcome = "ok"

\* ffi_closure_alloc writes the address of the code into the prop itself.
Code(state, fn) == IF state = "none" THEN fn ELSE "closure"

MutantSleeps(p, rest) == rest \cap Of(p, FALSE) = {} /\ Of(p, FALSE) # {}

\* ~callback_instance of the last one: on_sleep
Sleeps(p, rest) == rest = {}

\* remove_closure. The calls of the closure that are under way go on in it.
RemoveClosure(p) ==
  /\ closure' = [closure EXCEPT ![p] = "none"]
  /\ m_ProxyFn' = [m_ProxyFn EXCEPT ![p] = "old"]
  /\ failed' = failed \ {p}
  /\ running' = [i \in DOMAIN running |-> [running[i] EXCEPT !.freed = @ \/ running[i].prop = p]]

\* script_hook_proxy. The first callback of a list wakes the prop, and the closure
\* is initialised again after the instance was registered. When the instance is not
\* registered, or there is still no closure and the second attempt makes none that is
\* prepared, the callback is deleted, and the prop sleeps if it was the only one.
script_hook_proxy(c, p, post, first, registers, second) ==
  /\ ScriptRuns /\ hooks[c].prop = "none" /\ \A i \in DOMAIN running : c \notin running[i].called
  /\ LET woken == IF Of(p, post) = {} THEN Initialized(closure[p], first) ELSE closure[p]
         then == IF registers THEN Initialized(woken, second) ELSE woken
     IN  IF registers /\ Initializes(woken, second)
         THEN /\ hooks' = [hooks EXCEPT ![c] = [prop |-> p, post |-> post]]
              /\ closure' = [closure EXCEPT ![p] = then]
              /\ m_ProxyFn' = [m_ProxyFn EXCEPT ![p] = Code(then, @)]
              /\ failed' = IF then = "unprepared" THEN failed \cup {p} ELSE failed
              /\ UNCHANGED running
         ELSE /\ UNCHANGED hooks
              /\ IF Empty(p) THEN RemoveClosure(p)
                 ELSE /\ closure' = [closure EXCEPT ![p] = then]
                      /\ m_ProxyFn' = [m_ProxyFn EXCEPT ![p] = Code(then, @)]
                      /\ UNCHANGED <<running, failed>>

\* A callback instance is freed, by a script or with its plugin.
free(c) ==
  /\ ScriptRuns /\ hooks[c].prop # "none"
  /\ LET p == hooks[c].prop
     IN  IF Sleeps(p, (Of(p, FALSE) \cup Of(p, TRUE)) \ {c})
         THEN RemoveClosure(p)
         ELSE UNCHANGED <<closure, m_ProxyFn, running, failed>>
  /\ hooks' = [hooks EXCEPT ![c].prop = "none"]

-----------------------------------------------------------------------------
(* The engine sends a prop.                                                *)

Frame(p) == [prop |-> p, phase |-> "pre", called |-> {}, in |-> "none", orig |-> TRUE, value |-> "cleared",
             freed |-> FALSE]  \* history: its closure was freed since it was called

\* closure_binding: without callbacks it only calls the old proxy; otherwise it
\* clears the value and calls them.
closure_binding(p) ==
  /\ ScriptRuns /\ Len(running) < MaxDepth
  /\ m_ProxyFn[p] = "closure" /\ closure[p] = "ready"
  /\ ~Empty(p)
  /\ running' = Append(running, Frame(p))
  /\ UNCHANGED <<m_ProxyFn, closure, hooks, failed>>

Replace(frame) == running' = [running EXCEPT ![Len(running)] = frame]

\* call_pre and call_post go on to a callback. Detour has their walk of the list;
\* here any callback may be passed over, as one that is disabled, or that comes
\* after one that halts, is.
callback_called(c) ==
  /\ running # <<>> /\ Top.in = "none"
  /\ c \in Of(Top.prop, Top.phase = "post") \ Top.called
  /\ Replace([Top EXCEPT !.in = c, !.called = @ \cup {c}])
  /\ UNCHANGED <<m_ProxyFn, closure, hooks, failed>>

\* A callback returns: it may have written the value, and one before the proxy of
\* the game may keep that from being called.
callback_returns(writes, orig) ==
  /\ running # <<>> /\ Top.in # "none"
  /\ Replace([Top EXCEPT !.in = "none", !.orig = IF Top.phase = "pre" THEN @ /\ orig ELSE @,
                         !.value = IF writes THEN "script" ELSE @])
  /\ UNCHANGED <<m_ProxyFn, closure, hooks, failed>>

\* The callbacks before were called: the old proxy writes the value, unless one of
\* them kept it from that.
old_proxy_called ==
  /\ running # <<>> /\ Top.in = "none" /\ Top.phase = "pre"
  /\ Replace([Top EXCEPT !.phase = "post", !.value = IF Top.orig THEN "game" ELSE @])
  /\ UNCHANGED <<m_ProxyFn, closure, hooks, failed>>

\* The callbacks after were called, and the engine sends the value.
closure_returns ==
  /\ running # <<>> /\ Top.in = "none" /\ Top.phase = "post"
  /\ running' = SubSeq(running, 1, Len(running) - 1)
  /\ UNCHANGED <<m_ProxyFn, closure, hooks, failed>>

XNext ==
  \/ \E c \in Callbacks, p \in Props, post, registers \in BOOLEAN, first, second \in {"ok", "unprepared", "no memory"} :
       script_hook_proxy(c, p, post, first, registers, second)
  \/ \E c \in Callbacks : free(c) \/ callback_called(c)
  \/ \E p \in Props : closure_binding(p)
  \/ \E writes, orig \in BOOLEAN : callback_returns(writes, orig)
  \/ old_proxy_called
  \/ closure_returns

XSpec == XInit /\ [][XNext]_proxyvars

-----------------------------------------------------------------------------
(* Properties.                                                             *)

\* The engine calls the proxy of the game for a prop that no script hooks, and a
\* closure for one that is hooked; what it calls is prepared, unless preparing it
\* failed: script_hook_proxy takes the closure that on_wake failed to prepare for
\* one that is ready.
ProxyIsReady ==
  \A p \in Props :
    /\ Empty(p) <=> m_ProxyFn[p] = "old"
    /\ m_ProxyFn[p] = "closure" <=> closure[p] # "none"
    /\ closure[p] = "unprepared" => p \in failed

\* A call of a closure runs in the one that its prop has, prepared, until a callback
\* it has called, or one within that, frees the last callback of the prop: from
\* there on it runs in a closure that is freed, even when the prop has another. No
\* call loses its closure before it has called a callback. A value that it sends is
\* that of the game or of a callback, but when a callback keeps the proxy of the
\* game from being called and none writes.
RunsInClosure ==
  \A i \in DOMAIN running :
    LET call == running[i]
    IN  /\ ~call.freed => closure[call.prop] = "ready"
        /\ call.freed => call.called # {}
        /\ call.phase = "post" /\ call.value = "cleared" => ~call.orig
=============================================================================
