-------------------------- MODULE ModsEngineProofs --------------------------
(***************************************************************************)
(* Proofs about the mods and about the game they change.  The first part   *)
(* is of MCEngine, what scripts do to the game and what it gives to them:  *)
(* each of its parts by itself, for any values of the constants that the   *)
(* run fixes.  The second is of Mods, what the plugins of main know, for   *)
(* every set of mods and plugins: a handler computes a world - the record  *)
(* of all that belongs to the plugins - from the present one; what each    *)
(* operator on worlds does comes first, then that every step keeps the     *)
(* invariant KInv.  The two share no variable.                             *)
(***************************************************************************)
EXTENDS MCEngine, Mods, FiniteSetTheorems, TLAPS

-----------------------------------------------------------------------------
(* String tables. *)

\* The tables have a number of strings; without vmod there is no wrapper.
TablesFit ==
  /\ maps \in Nat
  /\ \A t \in DOMAIN engine : engine[t].strings \in Nat
  /\ ~hooked => DOMAIN wrappers = {}

\* Nothing but ReadsThisMap and that is needed.
TablesInv == TablesFit /\ ReadsThisMap

\* What a call leaves of the tables, when its outcome is one of those it may have.
LEMMA TableCall ==
  ASSUME TablesInv, NEW t \in DOMAIN wrappers, NEW c, NEW i, NEW n, NEW outcome,
         S!Call(t, c, i, n, outcome),
         outcome = "crash" => c = "get" /\ wrappers[t] = S!NULL,
         outcome = "out of bounds" => n # -1 /\ i < 0,
         /\ DOMAIN engine' = DOMAIN engine
         /\ \A u \in DOMAIN engine : engine'[u].map = engine[u].map /\ engine'[u].strings \in Nat
  PROVE  TablesInv'
  <1>1. called' = [call |-> c, at |-> wrappers[t], index |-> i, arg |-> n, outcome |-> outcome]
        /\ maps' = maps /\ hooked' = hooked /\ wrappers' = wrappers /\ created' = created
    BY DEF S!Call
  <1>2. called'.call = c /\ called'.at = wrappers[t] /\ called'.index = i /\ called'.arg = n
        /\ called'.outcome = outcome
    BY <1>1
  <1> QED
    BY <1>1, <1>2 DEF TablesInv, TablesFit, ReadsThisMap, S!ReadsThisMap

\* A string is read within the table, or the number is negative as an int.
LEMMA ReadWithin ==
  ASSUME NEW n \in Int, NEW strings \in Nat,
         ~S!Refused(S!ToSize(n), strings),
         S!ToInt(S!ToSize(n)) \notin 0..strings - 1
  PROVE  n # -1 /\ S!ToInt(S!ToSize(n)) < 0
  <1> DEFINE i == S!ToSize(n)
             r == S!ToInt(i)
  <1>1. n # -1
    BY DEF S!Refused
  <1>2. i \in Nat
    BY TablesAssumption DEF S!ToSize
  <1> HIDE DEF i
  <1>3. r \in Int
    <2>1. i % 2^IntBits \in Int /\ 2^IntBits \in Int
      BY <1>2, TablesAssumption
    <2> QED
      BY <2>1 DEF S!ToInt
  <1>4. ~(r >= strings) /\ r \notin 0..strings - 1
    BY DEF S!Refused, i
  <1> HIDE DEF r
  <1>5. r < 0
    BY <1>3, <1>4
  <1> QED
    BY <1>1, <1>5 DEF r, i

\* Every operation on a string table and every event of a map keeps the invariant.
LEMMA TablesKeep ==
  ASSUME TablesInv, S!SNext
  PROVE  TablesInv'
  <1>1. CASE \E registers \in BOOLEAN : S!load(registers)
    <2>1. PICK registers \in BOOLEAN : S!load(registers)
      BY <1>1
    <2> QED
      BY <2>1 DEF S!load, S!NULL, TablesInv, TablesFit, ReadsThisMap, S!ReadsThisMap
  <1>2. CASE \E present \in SUBSET TableNames : S!CreateNetworkStringTables(present)
    <2>1. PICK present \in SUBSET TableNames : S!CreateNetworkStringTables(present)
      BY <1>2
    <2>2. engine' = [t \in present |-> [map |-> maps', strings |-> 1]] /\ maps' = maps + 1
          /\ hooked' = hooked /\ called' = called /\ engine = <<>>
      BY <2>1 DEF S!CreateNetworkStringTables
    <2>3. DOMAIN engine' = present
          /\ \A t \in present : engine'[t].map = maps' /\ engine'[t].strings = 1
      BY <2>2
    <2>4. TablesFit'
      BY <2>1, <2>2, <2>3 DEF TablesInv, TablesFit, S!CreateNetworkStringTables
    <2>5. CASE hooked
      <3>1. wrappers' = [t \in DOMAIN wrappers \cup TableNames |->
                           IF t \in present THEN maps' ELSE S!NULL]
            /\ created'
        BY <2>1, <2>3, <2>5 DEF S!CreateNetworkStringTables, S!Recreated
      <3> QED
        BY <2>2, <2>3, <2>4, <3>1 DEF TablesInv, ReadsThisMap, S!ReadsThisMap, S!NULL
    <2>6. CASE ~hooked
      <3>1. DOMAIN wrappers' = {}
        BY <2>1, <2>6 DEF TablesInv, TablesFit, S!CreateNetworkStringTables
      <3> QED
        BY <2>2, <2>4, <3>1 DEF TablesInv, ReadsThisMap, S!ReadsThisMap
    <2> QED
      BY <2>5, <2>6
  <1>3. CASE S!RemoveAllTables
    <2>1. engine' = <<>> /\ hooked' = hooked /\ maps' = maps /\ called' = called
      BY <1>3 DEF S!RemoveAllTables
    <2>2. DOMAIN engine' = {}
      BY <2>1
    <2>3. \A t \in DOMAIN wrappers' : wrappers'[t] = S!NULL
      <3>1. CASE hooked
        BY <1>3, <3>1 DEF S!RemoveAllTables, S!Cleared
      <3>2. CASE ~hooked
        BY <1>3, <3>2 DEF S!RemoveAllTables, TablesInv, TablesFit
      <3> QED
        BY <3>1, <3>2
    <2>4. ~hooked => DOMAIN wrappers' = {}
      BY <1>3 DEF S!RemoveAllTables, TablesInv, TablesFit
    <2> QED
      BY <2>1, <2>2, <2>3, <2>4 DEF TablesInv, TablesFit, ReadsThisMap, S!ReadsThisMap
  <1>4. CASE S!unbindings
    <2>1. wrappers' = <<>> /\ engine' = engine /\ maps' = maps /\ called' = called
      BY <1>4 DEF S!unbindings
    <2>2. DOMAIN wrappers' = {}
      BY <2>1
    <2> QED
      BY <2>1, <2>2 DEF TablesInv, TablesFit, ReadsThisMap, S!ReadsThisMap
  <1>5. ASSUME NEW t \in TableNames, S!script_find_index(t)
        PROVE  TablesInv'
    <2>1. t \in DOMAIN wrappers /\ engine' = engine
          /\ S!Call(t, "find", 0, 0, IF S!Alive(t) THEN "answered" ELSE "exception")
      BY <1>5 DEF S!script_find_index
    <2>2. \A u \in DOMAIN engine : engine[u].strings \in Nat
      BY DEF TablesInv, TablesFit
    <2> QED
      BY <2>1, <2>2, TableCall
  <1>6. ASSUME NEW t \in TableNames, S!script_add_string(t)
        PROVE  TablesInv'
    <2>1. t \in DOMAIN wrappers
          /\ S!Call(t, "add", 0, 0, IF S!Alive(t) THEN "answered" ELSE "exception")
      BY <1>6 DEF S!script_add_string
    <2>2. \A u \in DOMAIN engine : engine[u].strings \in Nat
      BY DEF TablesInv, TablesFit
    <2>3. /\ DOMAIN engine' = DOMAIN engine
          /\ \A u \in DOMAIN engine : engine'[u].map = engine[u].map /\ engine'[u].strings \in Nat
      <3>1. CASE ~S!Alive(t)
        BY <1>6, <2>2, <3>1 DEF S!script_add_string
      <3>2. CASE S!Alive(t)
        <4>1. t \in DOMAIN engine
          BY <2>1, <3>2 DEF S!Alive, TablesInv, ReadsThisMap, S!ReadsThisMap
        <4>2. engine' = [engine EXCEPT ![t].strings = @ + 1]
          BY <1>6, <3>2 DEF S!script_add_string
        <4> QED
          BY <2>2, <4>1, <4>2
      <3> QED
        BY <3>1, <3>2
    <2> QED
      BY <2>1, <2>3, TableCall
  <1>7. ASSUME NEW t \in TableNames, NEW n \in Int, S!script_get_string(t, n)
        PROVE  TablesInv'
    <2> DEFINE i == S!ToSize(n)
               strings == engine[t].strings
               outcome == IF i = S!ToSize(-1) THEN "exception"
                          ELSE IF ~S!Alive(t) THEN "crash"
                          ELSE IF S!Refused(i, strings) THEN "exception"
                          ELSE IF S!ToInt(i) \in 0 .. strings - 1 THEN "answered"
                          ELSE "out of bounds"
    <2>1. t \in DOMAIN wrappers /\ engine' = engine /\ S!Call(t, "get", S!ToInt(i), n, outcome)
      BY <1>7 DEF S!script_get_string
    <2>2. \A u \in DOMAIN engine : engine[u].strings \in Nat
      BY DEF TablesInv, TablesFit
    <2>3. outcome = "crash" => wrappers[t] = S!NULL
      BY DEF S!Alive
    <2>4. outcome = "out of bounds" => n # -1 /\ S!ToInt(i) < 0
      <3> SUFFICES ASSUME outcome = "out of bounds" PROVE n # -1 /\ S!ToInt(i) < 0
        OBVIOUS
      <3>1. S!Alive(t) /\ ~S!Refused(i, strings) /\ S!ToInt(i) \notin 0..strings - 1
        OBVIOUS
      <3>2. strings \in Nat
        BY <2>1, <2>2, <3>1 DEF S!Alive, TablesInv, ReadsThisMap, S!ReadsThisMap
      <3> QED
        BY <3>1, <3>2, ReadWithin
    <2> HIDE DEF i, outcome
    <2> QED
      BY <2>1, <2>2, <2>3, <2>4, TableCall
  <1>8. \A n \in -(2^(SizeBits - 1)) .. 2^(SizeBits - 1) - 1 : n \in Int
    OBVIOUS
  <1> QED
    BY <1>1, <1>2, <1>3, <1>4, <1>5, <1>6, <1>7, <1>8 DEF S!SNext

\* A wrapper of a string table leads to the table of this map, and strings are read within
\* it, but for the two ways StringTables names: for any names, any number of maps and of
\* strings, and integers of any width.
THEOREM Tables == MCSpec => []ReadsThisMap
  <1>1. MCInit => TablesInv
    BY DEF MCInit, S!SInit, S!NoCall, S!NULL, TablesInv, TablesFit, ReadsThisMap, S!ReadsThisMap
  <1>2. TablesInv /\ [MCNext]_<<part, pvars, valuevars, consolevars, factoryvars, tablevars,
                                proxyvars, typevars, gamevars>> => TablesInv'
    <2>1. TablesInv /\ UNCHANGED tablevars => TablesInv'
      <3> SUFFICES ASSUME TablesInv, UNCHANGED tablevars PROVE TablesInv'
        OBVIOUS
      <3>1. engine' = engine /\ maps' = maps /\ hooked' = hooked /\ wrappers' = wrappers
            /\ created' = created /\ called' = called
        BY DEF tablevars
      <3> QED
        BY <3>1 DEF TablesInv, TablesFit, ReadsThisMap, S!ReadsThisMap
    <2> QED
      BY <2>1, TablesKeep DEF MCNext
  <1>3. TablesInv => ReadsThisMap
    BY DEF TablesInv
  <1> QED
    BY <1>1, <1>2, <1>3, PTL DEF MCSpec

-----------------------------------------------------------------------------
(* Send proxies. *)

\* The types of what belongs to a prop: what its closure is, and who hooks it.
ProxiesFit ==
  /\ m_ProxyFn \in [Props -> {"old", "closure"}]
  /\ closure \in [Props -> {"none", "ready", "unprepared"}]
  /\ hooks \in [Callbacks -> [prop : Props \cup {"none"}, post : BOOLEAN]]

\* It is all that keeps a proxy ready.
ProxiesInv == ProxiesFit /\ X!ProxyIsReady

\* Who hooks a prop.
LEMMA Hooked ==
  ASSUME ProxiesFit, NEW p \in Props
  PROVE  X!Empty(p) <=> \A c \in Callbacks : hooks[c].prop # p
  BY DEF ProxiesFit, X!Empty, X!Of

\* The closure of a prop that nobody hooks any more is freed, and nobody else's changes.
LEMMA RemovalKeeps ==
  ASSUME ProxiesInv, ProxiesFit', NEW p \in Props, X!RemoveClosure(p), (X!Empty(p))',
         \A q \in Props \ {p} : (X!Empty(q))' <=> X!Empty(q)
  PROVE  ProxiesInv'
  <1>1. /\ closure' = [closure EXCEPT ![p] = "none"]
        /\ m_ProxyFn' = [m_ProxyFn EXCEPT ![p] = "old"]
        /\ failed' = failed \ {p}
    BY DEF X!RemoveClosure
  <1>2. ASSUME NEW q \in Props
        PROVE  /\ (X!Empty(q))' <=> m_ProxyFn'[q] = "old"
               /\ m_ProxyFn'[q] = "closure" <=> closure'[q] # "none"
               /\ closure'[q] = "unprepared" => q \in failed'
    <2>1. CASE q = p
      BY <1>1, <2>1 DEF ProxiesInv, ProxiesFit
    <2>2. CASE q # p
      <3>1. m_ProxyFn'[q] = m_ProxyFn[q] /\ closure'[q] = closure[q]
            /\ (q \in failed' <=> q \in failed)
        BY <1>1, <2>2 DEF ProxiesInv, ProxiesFit
      <3> QED
        BY <2>2, <3>1 DEF ProxiesInv, X!ProxyIsReady
    <2> QED
      BY <2>1, <2>2
  <1> QED
    BY <1>2 DEF ProxiesInv, X!ProxyIsReady

\* How an operation on a proxy ends.
Outcomes == {"ok", "unprepared", "no memory"}

\* The first callback wakes the prop, in any of the three ways that can end; the second attempt
\* does nothing to a closure that is there.
LEMMA HookKeeps ==
  ASSUME ProxiesInv, NEW c \in Callbacks, NEW p \in Props, NEW post \in BOOLEAN,
         NEW registers \in BOOLEAN, NEW first \in Outcomes, NEW second \in Outcomes,
         X!script_hook_proxy(c, p, post, first, registers, second)
  PROVE  ProxiesInv'
  <1> DEFINE woken == IF X!Of(p, post) = {} THEN X!Initialized(closure[p], first) ELSE closure[p]
             then == IF registers THEN X!Initialized(woken, second) ELSE woken
             fn == X!Code(then, m_ProxyFn[p])
  <1>1. ProxiesFit /\ hooks[c].prop = "none"
    BY DEF ProxiesInv, X!script_hook_proxy
  <1>2. closure[p] \in {"none", "ready", "unprepared"}
    BY <1>1 DEF ProxiesFit
  <1>3. woken \in {"none", "ready", "unprepared"} /\ (closure[p] # "none" => woken = closure[p])
    BY <1>2 DEF X!Initialized, Outcomes
  <1> HIDE DEF woken
  <1>4. then \in {"none", "ready", "unprepared"} /\ (woken # "none" => then = woken)
    BY <1>3 DEF X!Initialized, Outcomes
  <1> DEFINE accepted == registers /\ X!Initializes(woken, second)
  <1>5. IF accepted
        THEN /\ hooks' = [hooks EXCEPT ![c] = [prop |-> p, post |-> post]]
             /\ closure' = [closure EXCEPT ![p] = then]
             /\ m_ProxyFn' = [m_ProxyFn EXCEPT ![p] = fn]
             /\ failed' = IF then = "unprepared" THEN failed \cup {p} ELSE failed
        ELSE /\ UNCHANGED hooks
             /\ IF X!Empty(p) THEN X!RemoveClosure(p)
                ELSE /\ closure' = [closure EXCEPT ![p] = then]
                     /\ m_ProxyFn' = [m_ProxyFn EXCEPT ![p] = fn]
                     /\ UNCHANGED failed
    BY DEF X!script_hook_proxy, woken
  <1>6. fn = IF then = "none" THEN m_ProxyFn[p] ELSE "closure"
    BY DEF X!Code
  <1>9. accepted => then # "none"
    BY <1>3 DEF X!Initializes, X!Initialized
  <1> HIDE DEF then, fn, accepted
  <1>7. CASE accepted
    <2>1. /\ hooks' = [hooks EXCEPT ![c] = [prop |-> p, post |-> post]]
          /\ closure' = [closure EXCEPT ![p] = then]
          /\ m_ProxyFn' = [m_ProxyFn EXCEPT ![p] = "closure"]
          /\ failed' = IF then = "unprepared" THEN failed \cup {p} ELSE failed
      BY <1>5, <1>6, <1>7, <1>9
    <2>2. ProxiesFit'
      BY <1>1, <1>4, <2>1 DEF ProxiesFit
    <2>3. hooks'[c].prop = p /\ \A d \in Callbacks \ {c} : hooks'[d] = hooks[d]
      BY <1>1, <2>1 DEF ProxiesFit
    <2>4. \A q \in Props : (X!Empty(q))' <=> \A d \in Callbacks : hooks'[d].prop # q
      BY <2>2 DEF ProxiesFit, X!Empty, X!Of
    <2>5. ASSUME NEW q \in Props
          PROVE  /\ (X!Empty(q))' <=> m_ProxyFn'[q] = "old"
                 /\ m_ProxyFn'[q] = "closure" <=> closure'[q] # "none"
                 /\ closure'[q] = "unprepared" => q \in failed'
      <3>1. CASE q = p
        <4>1. ~(X!Empty(q))'
          BY <2>3, <2>4, <3>1
        <4>2. m_ProxyFn'[q] = "closure" /\ closure'[q] = then
          BY <1>1, <2>1, <3>1 DEF ProxiesFit
        <4> QED
          BY <1>7, <1>9, <2>1, <3>1, <4>1, <4>2
      <3>2. CASE q # p
        <4>1. (X!Empty(q))' <=> X!Empty(q)
          BY ProxiesAssumption, <1>1, <2>3, <2>4, <3>2, Hooked
        <4>2. m_ProxyFn'[q] = m_ProxyFn[q] /\ closure'[q] = closure[q]
              /\ (q \in failed' <=> q \in failed)
          BY <1>1, <2>1, <3>2 DEF ProxiesFit
        <4> QED
          BY <4>1, <4>2 DEF ProxiesInv, X!ProxyIsReady
      <3> QED
        BY <3>1, <3>2
    <2> QED
      BY <2>2, <2>5 DEF ProxiesInv, X!ProxyIsReady
  <1>8. CASE ~accepted
    <2>1. hooks' = hooks /\ \A q \in Props : (X!Empty(q))' <=> X!Empty(q)
      BY <1>5, <1>8 DEF X!Empty, X!Of
    <2>2. CASE X!Empty(p)
      <3>1. X!RemoveClosure(p)
        BY <1>5, <1>8, <2>2
      <3>2. ProxiesFit'
        BY <1>1, <2>1, <3>1 DEF ProxiesFit, X!RemoveClosure
      <3> QED
        BY <2>1, <2>2, <3>1, <3>2, RemovalKeeps
    <2>3. CASE ~X!Empty(p)
      <3>1. m_ProxyFn[p] = "closure" /\ closure[p] # "none"
        BY <1>1, <2>3 DEF ProxiesInv, ProxiesFit, X!ProxyIsReady
      <3>2. then = closure[p] /\ fn = m_ProxyFn[p]
        BY <1>3, <1>4, <1>6, <3>1
      <3>3. closure' = closure /\ m_ProxyFn' = m_ProxyFn /\ failed' = failed
        BY <1>1, <1>5, <1>8, <2>3, <3>2 DEF ProxiesFit
      <3> QED
        BY <2>1, <3>3 DEF ProxiesInv, ProxiesFit, X!ProxyIsReady
    <2> QED
      BY <2>2, <2>3
  <1> QED
    BY <1>7, <1>8

\* The last callback of a prop takes the closure with it.
LEMMA FreeKeeps ==
  ASSUME ProxiesInv, NEW c \in Callbacks, X!free(c)
  PROVE  ProxiesInv'
  <1>2. PICK p \in Props : p = hooks[c].prop
    BY DEF ProxiesInv, ProxiesFit, X!free
  <1> DEFINE rest == (X!Of(p, FALSE) \cup X!Of(p, TRUE)) \ {c}
  <1>1. ProxiesFit /\ p # "none" /\ hooks' = [hooks EXCEPT ![c].prop = "none"]
        /\ IF rest = {} THEN X!RemoveClosure(p) ELSE UNCHANGED <<closure, m_ProxyFn, sending, failed>>
    BY <1>2, ProxiesAssumption DEF ProxiesInv, X!free, X!Sleeps
  <1>3. hooks'[c].prop = "none" /\ \A d \in Callbacks \ {c} : hooks'[d] = hooks[d]
    BY <1>1 DEF ProxiesFit
  <1>4. hooks' \in [Callbacks -> [prop : Props \cup {"none"}, post : BOOLEAN]]
    <2>1. hooks'[c] = [prop |-> "none", post |-> hooks[c].post] /\ hooks[c].post \in BOOLEAN
          /\ DOMAIN hooks' = Callbacks /\ hooks' = [d \in Callbacks |-> hooks'[d]]
      BY <1>1 DEF ProxiesFit
    <2>2. \A d \in Callbacks : hooks'[d] \in [prop : Props \cup {"none"}, post : BOOLEAN]
      BY <1>1, <1>3, <2>1 DEF ProxiesFit
    <2> QED
      BY <2>1, <2>2
  <1>5. rest = {} <=> \A d \in Callbacks \ {c} : hooks[d].prop # p
    BY <1>1, <1>2 DEF ProxiesFit, X!Of
  <1> HIDE DEF rest
  <1>6. ProxiesFit'
    <2>1. CASE rest = {}
      BY <1>1, <1>2, <1>4, <2>1 DEF ProxiesFit, X!RemoveClosure
    <2>2. CASE rest # {}
      BY <1>1, <1>4, <2>2 DEF ProxiesFit
    <2> QED
      BY <2>1, <2>2
  <1>7. \A q \in Props : (X!Empty(q))' <=> \A d \in Callbacks : hooks'[d].prop # q
    BY <1>4 DEF X!Empty, X!Of
  <1>8. \A q \in Props \ {p} : (X!Empty(q))' <=> X!Empty(q)
    BY ProxiesAssumption, <1>1, <1>2, <1>3, <1>7, Hooked
  <1>9. (X!Empty(p))' <=> rest = {}
    BY ProxiesAssumption, <1>2, <1>3, <1>5, <1>7
  <1>10. CASE rest = {}
    BY <1>1, <1>2, <1>6, <1>8, <1>9, <1>10, RemovalKeeps
  <1>11. CASE rest # {}
    <2>1. closure' = closure /\ m_ProxyFn' = m_ProxyFn /\ failed' = failed
      BY <1>1, <1>11
    <2>2. ~X!Empty(p)
      BY <1>1, <1>2, <1>5, <1>11, Hooked
    <2>3. \A q \in Props : (X!Empty(q))' <=> X!Empty(q)
      BY <1>8, <1>9, <1>11, <2>2
    <2> QED
      BY <1>6, <2>1, <2>3 DEF ProxiesInv, X!ProxyIsReady
  <1> QED
    BY <1>10, <1>11

\* Every operation of a send proxy keeps the invariant.
LEMMA ProxiesKeep ==
  ASSUME ProxiesInv, X!XNext
  PROVE  ProxiesInv'
  <1>1. ASSUME UNCHANGED <<m_ProxyFn, closure, hooks, failed>>
        PROVE  ProxiesInv'
    BY <1>1 DEF ProxiesInv, ProxiesFit, X!ProxyIsReady, X!Empty, X!Of
  <1>2. CASE \E c \in Callbacks, p \in Props, post, registers \in BOOLEAN,
                first, second \in {"ok", "unprepared", "no memory"} :
               X!script_hook_proxy(c, p, post, first, registers, second)
    <2>1. PICK c \in Callbacks, p \in Props, post \in BOOLEAN, registers \in BOOLEAN,
               first \in Outcomes, second \in Outcomes :
               X!script_hook_proxy(c, p, post, first, registers, second)
      BY <1>2 DEF Outcomes
    <2> QED
      BY <2>1, HookKeeps
  <1>3. ASSUME NEW c \in Callbacks, X!free(c) PROVE ProxiesInv'
    BY <1>3, FreeKeeps
  <1>4. ASSUME NEW c \in Callbacks, X!callback_called(c) PROVE ProxiesInv'
    BY <1>1, <1>4 DEF X!callback_called
  <1>5. ASSUME NEW p \in Props, X!closure_binding(p) PROVE ProxiesInv'
    BY <1>1, <1>5 DEF X!closure_binding
  <1>6. ASSUME NEW w \in BOOLEAN, NEW o \in BOOLEAN, X!callback_returns(w, o) PROVE ProxiesInv'
    BY <1>1, <1>6 DEF X!callback_returns
  <1>7. CASE X!old_proxy_called
    BY <1>1, <1>7 DEF X!old_proxy_called
  <1>8. CASE X!closure_returns
    BY <1>1, <1>8 DEF X!closure_returns
  <1> QED
    BY <1>2, <1>3, <1>4, <1>5, <1>6, <1>7, <1>8 DEF X!XNext

\* The calls of closures that are under way. One that waits for a callback has called it.
ProxyCalls == [prop : Props, phase : {"pre", "post"}, called : SUBSET Callbacks, in : Callbacks \cup {"none"},
           orig : BOOLEAN, value : {"cleared", "script", "game"}, freed : BOOLEAN]
FrameFits(call) == call \in ProxyCalls /\ (call.in # "none" => call.called # {})

\* What is said of a call, where the props have these closures.
RunsIn(call, has) ==
  /\ ~call.freed => has[call.prop] = "ready"
  /\ call.freed => call.called # {}
  /\ call.phase = "post" /\ call.value = "cleared" => ~call.orig

\* All but the innermost wait for a callback.
RunsInv ==
  /\ sending \in Seq(ProxyCalls)
  /\ \A i \in 1 .. Len(sending) : FrameFits(sending[i]) /\ RunsIn(sending[i], closure)
  /\ \A i \in 1 .. Len(sending) - 1 : sending[i].in # "none"

\* Where the sequence of calls ends, and what is known of it when a script runs.
LEMMA CallsWait ==
  ASSUME RunsInv
  PROVE  /\ Len(sending) \in Nat /\ DOMAIN sending = 1 .. Len(sending)
         /\ sending # <<>> => Len(sending) \in 1 .. Len(sending) /\ FrameFits(X!Top) /\ RunsIn(X!Top, closure)
         /\ X!ScriptRuns => \A i \in 1 .. Len(sending) : sending[i].in # "none" /\ sending[i].called # {}
  <1>1. Len(sending) \in Nat /\ DOMAIN sending = 1 .. Len(sending)
    BY DEF RunsInv
  <1>2. sending # <<>> => Len(sending) \in 1 .. Len(sending)
    BY DEF RunsInv
  <1>3. ASSUME X!ScriptRuns, NEW i \in 1 .. Len(sending)
        PROVE  sending[i].in # "none" /\ sending[i].called # {}
    <2>1. sending[i].in # "none"
      <3>1. CASE i = Len(sending)
        <4>1. sending # <<>>
          BY <1>1
        <4> QED
          BY <1>3, <3>1, <4>1 DEF X!ScriptRuns, X!Top
      <3>2. CASE i # Len(sending)
        <4>1. \A n \in Nat : \A j \in 1 .. n : j # n => j \in 1 .. n - 1
          OBVIOUS
        <4>2. i \in 1 .. Len(sending) - 1
          BY <1>1, <3>2, <4>1
        <4> QED
          BY <4>2 DEF RunsInv
      <3> QED
        BY <3>1, <3>2
    <2> QED
      BY <2>1 DEF RunsInv, FrameFits
  <1> QED
    BY <1>1, <1>2, <1>3 DEF RunsInv, X!Top

\* The closures change, but none that is ready goes.
LEMMA RunsBeside ==
  ASSUME RunsInv, sending' = sending,
         \A q \in Props : closure[q] = "ready" => closure'[q] = "ready"
  PROVE  RunsInv'
  <1>1. ASSUME NEW i \in 1 .. Len(sending) PROVE RunsIn(sending[i], closure')
    <2>1. PICK call \in ProxyCalls : call = sending[i]
      BY DEF RunsInv, FrameFits
    <2>2. RunsIn(call, closure) /\ call.prop \in Props
      BY <2>1 DEF RunsInv, ProxyCalls
    <2> QED
      BY <2>1, <2>2 DEF RunsIn
  <1> QED
    BY <1>1 DEF RunsInv

\* A closure is freed under the calls of its prop, each of which has called a callback.
LEMMA RunsWithout ==
  ASSUME RunsInv, closure \in [Props -> {"none", "ready", "unprepared"}],
         X!ScriptRuns, NEW p \in Props, X!RemoveClosure(p)
  PROVE  RunsInv'
  <1> DEFINE after(i) == [sending[i] EXCEPT !.freed = @ \/ sending[i].prop = p]
  <1>1. sending' = [i \in DOMAIN sending |-> after(i)] /\ closure' = [closure EXCEPT ![p] = "none"]
    BY DEF X!RemoveClosure
  <1>2. Len(sending) \in Nat /\ DOMAIN sending = 1 .. Len(sending)
        /\ \A i \in 1 .. Len(sending) : sending[i].in # "none" /\ sending[i].called # {}
    BY CallsWait
  <1>3. ASSUME NEW i \in 1 .. Len(sending)
        PROVE  FrameFits(after(i)) /\ RunsIn(after(i), closure') /\ after(i).in = sending[i].in
    <2>1. PICK call \in ProxyCalls : call = sending[i]
      BY DEF RunsInv, FrameFits
    <2>2. FrameFits(call) /\ RunsIn(call, closure) /\ call.called # {} /\ call.prop \in Props
      BY <1>2, <2>1 DEF RunsInv, ProxyCalls
    <2>3. PICK freed \in BOOLEAN : freed = (call.freed \/ call.prop = p)
      OBVIOUS
    <2>4. after(i) = [call EXCEPT !.freed = freed]
      BY <2>1, <2>3
    <2>5. PICK frame \in ProxyCalls : frame = [call EXCEPT !.freed = freed]
      BY DEF ProxyCalls
    <2>6. /\ frame.prop = call.prop /\ frame.in = call.in /\ frame.called = call.called
          /\ frame.orig = call.orig /\ frame.phase = call.phase /\ frame.value = call.value
          /\ frame.freed = freed
      BY <2>5 DEF ProxyCalls
    <2>7. FrameFits(frame)
      BY <2>2, <2>5, <2>6 DEF FrameFits
    <2>8. RunsIn(frame, closure')
      <3>1. ~freed => closure'[call.prop] = "ready"
        <4>1. ~freed => ~call.freed /\ call.prop # p
          BY <2>3
        <4> QED
          BY <1>1, <2>2, <4>1 DEF RunsIn
      <3> QED
        BY <2>2, <2>6, <3>1 DEF RunsIn
    <2> QED
      BY <2>1, <2>4, <2>5, <2>6, <2>7, <2>8
  <1> HIDE DEF after
  <1>4. sending' \in Seq(ProxyCalls) /\ Len(sending') = Len(sending)
        /\ \A i \in 1 .. Len(sending) : sending'[i] = after(i)
    <2>1. \A i \in 1 .. Len(sending) : after(i) \in ProxyCalls
      BY <1>3 DEF FrameFits
    <2>2. sending' \in [1 .. Len(sending) -> ProxyCalls]
      BY <1>1, <1>2, <2>1
    <2>3. sending' \in Seq(ProxyCalls)
      BY <1>2, <2>2
    <2>4. DOMAIN sending' = 1 .. Len(sending)
      BY <2>2
    <2> QED
      BY <1>1, <1>2, <2>3, <2>4
  <1> QED
    BY <1>2, <1>3, <1>4 DEF RunsInv

\* The innermost call goes on.
LEMMA RunsOn ==
  ASSUME RunsInv, sending # <<>>, closure' = closure,
         NEW call \in ProxyCalls, FrameFits(call), RunsIn(call, closure), X!Replace(call)
  PROVE  RunsInv'
  <1>1. Len(sending) \in Nat /\ Len(sending) \in 1 .. Len(sending) /\ sending \in Seq(ProxyCalls)
    BY CallsWait DEF RunsInv
  <1>2. sending' = [sending EXCEPT ![Len(sending)] = call]
    BY DEF X!Replace
  <1>3. sending' \in Seq(ProxyCalls) /\ Len(sending') = Len(sending)
    BY <1>1, <1>2
  <1>4. \A i \in 1 .. Len(sending) : sending'[i] = IF i = Len(sending) THEN call ELSE sending[i]
    BY <1>1, <1>2
  <1>5. \A i \in 1 .. Len(sending) : FrameFits(sending'[i]) /\ RunsIn(sending'[i], closure')
    BY <1>4 DEF RunsInv
  <1>6. \A i \in 1 .. Len(sending) - 1 : sending'[i].in # "none"
    BY <1>1, <1>4 DEF RunsInv
  <1> QED
    BY <1>3, <1>5, <1>6 DEF RunsInv

\* A closure is called: it is the prop's.
LEMMA RunsDeeper ==
  ASSUME RunsInv, NEW p \in Props, X!closure_binding(p)
  PROVE  RunsInv'
  <1>1. X!ScriptRuns /\ closure[p] = "ready" /\ closure' = closure /\ sending' = Append(sending, X!Frame(p))
    BY DEF X!closure_binding
  <1>2. X!Frame(p) \in ProxyCalls
    BY DEF X!Frame, ProxyCalls
  <1>3. FrameFits(X!Frame(p)) /\ RunsIn(X!Frame(p), closure)
    BY <1>1, <1>2 DEF FrameFits, RunsIn, X!Frame
  <1>4. Len(sending) \in Nat /\ sending \in Seq(ProxyCalls) /\ \A i \in 1 .. Len(sending) : sending[i].in # "none"
    BY <1>1, CallsWait DEF RunsInv
  <1>5. /\ sending' \in Seq(ProxyCalls) /\ Len(sending') = Len(sending) + 1
        /\ \A i \in 1 .. Len(sending) + 1 : sending'[i] = IF i = Len(sending) + 1 THEN X!Frame(p) ELSE sending[i]
    BY <1>1, <1>2, <1>4
  <1>6. \A i \in 1 .. Len(sending') : FrameFits(sending'[i]) /\ RunsIn(sending'[i], closure')
    BY <1>1, <1>3, <1>4, <1>5 DEF RunsInv
  <1>7. \A i \in 1 .. Len(sending') - 1 : sending'[i].in # "none"
    BY <1>4, <1>5
  <1> QED
    BY <1>5, <1>6, <1>7 DEF RunsInv

\* What an operation makes of the calls.
LEMMA RunsKeep ==
  ASSUME ProxiesInv, RunsInv, X!XNext
  PROVE  RunsInv'
  <1>0. closure \in [Props -> {"none", "ready", "unprepared"}]
    BY DEF ProxiesInv, ProxiesFit
  <1>1. ASSUME NEW c \in Callbacks, NEW p \in Props, NEW post \in BOOLEAN, NEW registers \in BOOLEAN,
               NEW first \in Outcomes, NEW second \in Outcomes,
               X!script_hook_proxy(c, p, post, first, registers, second)
        PROVE  RunsInv'
    <2>1. CASE X!RemoveClosure(p)
      BY <1>0, <1>1, <2>1, RunsWithout DEF X!script_hook_proxy
    <2>2. CASE ~X!RemoveClosure(p)
      <3> DEFINE woken == IF X!Of(p, post) = {} THEN X!Initialized(closure[p], first) ELSE closure[p]
                 then == IF registers THEN X!Initialized(woken, second) ELSE woken
      <3>1. closure' = [closure EXCEPT ![p] = then] /\ sending' = sending
        BY <1>1, <2>2 DEF X!script_hook_proxy
      <3>2. closure[p] = "ready" => then = "ready"
        BY DEF X!Initialized
      <3> HIDE DEF then
      <3>3. \A q \in Props : closure[q] = "ready" => closure'[q] = "ready"
        BY <1>0, <3>1, <3>2
      <3> QED
        BY <3>1, <3>3, RunsBeside
    <2> QED
      BY <2>1, <2>2
  <1>2. ASSUME NEW c \in Callbacks, X!free(c) PROVE RunsInv'
    <2>1. PICK p \in Props : p = hooks[c].prop
      BY <1>2 DEF X!free, ProxiesInv, ProxiesFit
    <2>2. CASE X!RemoveClosure(p)
      BY <1>0, <1>2, <2>2, RunsWithout DEF X!free
    <2>3. CASE ~X!RemoveClosure(p)
      <3>1. sending' = sending /\ closure' = closure
        BY <1>2, <2>1, <2>3 DEF X!free
      <3> QED
        BY <3>1, RunsBeside
    <2> QED
      BY <2>2, <2>3
  <1>3. ASSUME NEW c \in Callbacks, X!callback_called(c) PROVE RunsInv'
    <2>1. PICK call \in ProxyCalls : call = X!Top
      BY <1>3, CallsWait DEF X!callback_called, FrameFits
    <2>2. FrameFits(call) /\ RunsIn(call, closure) /\ sending # <<>> /\ closure' = closure
      BY <1>3, <2>1, CallsWait DEF X!callback_called
    <2>3. PICK frame \in ProxyCalls : frame = [call EXCEPT !.in = c, !.called = @ \cup {c}]
      BY DEF ProxyCalls
    <2>4. /\ frame.prop = call.prop /\ frame.in = c /\ frame.called = call.called \cup {c}
          /\ frame.orig = call.orig /\ frame.phase = call.phase /\ frame.value = call.value
          /\ frame.freed = call.freed
      BY <2>3 DEF ProxyCalls
    <2>5. FrameFits(frame) /\ RunsIn(frame, closure)
      BY <2>2, <2>3, <2>4 DEF FrameFits, RunsIn
    <2>6. X!Replace(frame)
      BY <1>3, <2>1, <2>3 DEF X!callback_called
    <2> QED
      BY <2>2, <2>5, <2>6, RunsOn
  <1>4. ASSUME NEW writes \in BOOLEAN, NEW orig \in BOOLEAN, X!callback_returns(writes, orig) PROVE RunsInv'
    <2>1. PICK call \in ProxyCalls : call = X!Top
      BY <1>4, CallsWait DEF X!callback_returns, FrameFits
    <2>2. FrameFits(call) /\ RunsIn(call, closure) /\ sending # <<>> /\ closure' = closure
      BY <1>4, <2>1, CallsWait DEF X!callback_returns
    <2>3. PICK o \in BOOLEAN : o = IF call.phase = "pre" THEN call.orig /\ orig ELSE call.orig
      BY DEF ProxyCalls
    <2>4. PICK v \in {"cleared", "script", "game"} : v = IF writes THEN "script" ELSE call.value
      BY DEF ProxyCalls
    <2>5. PICK frame \in ProxyCalls : frame = [call EXCEPT !.in = "none", !.orig = o, !.value = v]
      BY DEF ProxyCalls
    <2>6. /\ frame.prop = call.prop /\ frame.in = "none" /\ frame.called = call.called
          /\ frame.orig = o /\ frame.phase = call.phase /\ frame.value = v
          /\ frame.freed = call.freed
      BY <2>5 DEF ProxyCalls
    <2>7. FrameFits(frame) /\ RunsIn(frame, closure)
      <3>1. frame.phase = "post" /\ frame.value = "cleared" => ~frame.orig
        BY <2>2, <2>3, <2>4, <2>6 DEF RunsIn
      <3> QED
        BY <2>2, <2>5, <2>6, <3>1 DEF FrameFits, RunsIn
    <2>8. X!Replace(frame)
      BY <1>4, <2>1, <2>3, <2>4, <2>5 DEF X!callback_returns
    <2> QED
      BY <2>2, <2>7, <2>8, RunsOn
  <1>5. CASE X!old_proxy_called
    <2>1. PICK call \in ProxyCalls : call = X!Top
      BY <1>5, CallsWait DEF X!old_proxy_called, FrameFits
    <2>2. FrameFits(call) /\ RunsIn(call, closure) /\ sending # <<>> /\ closure' = closure /\ call.in = "none"
      BY <1>5, <2>1, CallsWait DEF X!old_proxy_called
    <2>3. PICK v \in {"cleared", "script", "game"} : v = IF call.orig THEN "game" ELSE call.value
      BY DEF ProxyCalls
    <2>4. PICK frame \in ProxyCalls : frame = [call EXCEPT !.phase = "post", !.value = v]
      BY DEF ProxyCalls
    <2>5. /\ frame.prop = call.prop /\ frame.in = "none" /\ frame.called = call.called
          /\ frame.orig = call.orig /\ frame.phase = "post" /\ frame.value = v
          /\ frame.freed = call.freed
      BY <2>2, <2>4 DEF ProxyCalls
    <2>6. FrameFits(frame) /\ RunsIn(frame, closure)
      BY <2>2, <2>3, <2>4, <2>5 DEF FrameFits, RunsIn
    <2>7. X!Replace(frame)
      BY <1>5, <2>1, <2>3, <2>4 DEF X!old_proxy_called
    <2> QED
      BY <2>2, <2>6, <2>7, RunsOn
  <1>6. CASE X!closure_returns
    <2>1. sending # <<>> /\ closure' = closure /\ sending' = SubSeq(sending, 1, Len(sending) - 1)
      BY <1>6 DEF X!closure_returns
    <2>2. sending \in Seq(ProxyCalls) /\ Len(sending) \in Nat /\ Len(sending) >= 1
      BY <2>1, CallsWait DEF RunsInv
    <2>3. /\ sending' \in Seq(ProxyCalls) /\ Len(sending') = Len(sending) - 1
          /\ \A i \in 1 .. Len(sending) - 1 : sending'[i] = sending[i]
      <3>1. PICK waiting \in Seq(ProxyCalls) : waiting = sending
        BY <2>2
      <3>2. PICK n \in Nat : n = Len(waiting) /\ n >= 1
        BY <2>2, <3>1
      <3>3. /\ SubSeq(waiting, 1, n - 1) \in Seq(ProxyCalls) /\ Len(SubSeq(waiting, 1, n - 1)) = n - 1
            /\ \A i \in 1 .. n - 1 : SubSeq(waiting, 1, n - 1)[i] = waiting[i]
        BY <3>2
      <3> QED
        BY <2>1, <3>1, <3>2, <3>3
    <2>4. /\ \A i \in 1 .. Len(sending') : FrameFits(sending'[i]) /\ RunsIn(sending'[i], closure')
          /\ \A i \in 1 .. Len(sending') - 1 : sending'[i].in # "none"
      BY <2>1, <2>2, <2>3 DEF RunsInv
    <2> QED
      BY <2>3, <2>4 DEF RunsInv
  <1>7. CASE \E c \in Callbacks, p \in Props, post, registers \in BOOLEAN,
                first, second \in {"ok", "unprepared", "no memory"} :
               X!script_hook_proxy(c, p, post, first, registers, second)
    <2>1. PICK c \in Callbacks, p \in Props, post \in BOOLEAN, registers \in BOOLEAN,
               first \in Outcomes, second \in Outcomes :
               X!script_hook_proxy(c, p, post, first, registers, second)
      BY <1>7 DEF Outcomes
    <2> QED
      BY <1>1, <2>1
  <1>8. ASSUME NEW p \in Props, X!closure_binding(p) PROVE RunsInv'
    BY <1>8, RunsDeeper
  <1> QED
    BY <1>2, <1>3, <1>4, <1>5, <1>6, <1>7, <1>8 DEF X!XNext

-----------------------------------------------------------------------------
(* The types of props. *)

\* The types that a guess finds for an integer.
Unsigned == {"bool", "uchar", "ushort", "uint", "ehandle", "color32"}
Signed == {"schar", "sshort", "sint"}
\* The proxies that TypeFits excepts.
Exempt(prop) == prop.proxy \in {"Own1", "IntAddOne"}

\* The bytes that a variable of each type takes.
LEMMA WidthIs ==
  /\ T!Width["bool"] = 1 /\ T!Width["uchar"] = 1 /\ T!Width["schar"] = 1
  /\ T!Width["ushort"] = 2 /\ T!Width["sshort"] = 2 /\ T!Width["uint"] = 4 /\ T!Width["sint"] = 4
  /\ T!Width["color32"] = 4 /\ T!Width["ehandle"] = 4 /\ T!Width["float"] = 4
  /\ T!Width["vector"] = 12 /\ T!Width["qangle"] = 12 /\ T!Width["cstr"] = 4
  BY DEF T!Width

\* The bytes that each proxy reads.
LEMMA ReadsIs ==
  /\ T!Reads["UInt8"] = 1 /\ T!Reads["UInt16"] = 2 /\ T!Reads["UInt32"] = 4
  /\ T!Reads["Int8"] = 1 /\ T!Reads["Int16"] = 2 /\ T!Reads["Int32"] = 4
  /\ T!Reads["Color32"] = 4 /\ T!Reads["EHandle"] = 4 /\ T!Reads["IntAddOne"] = 4
  /\ T!Reads["ShortAddOne"] = 2 /\ T!Reads["Own1"] = 1 /\ T!Reads["Own4"] = 4
  BY DEF T!Reads

\* What a guess answers is as wide as the variable, but for the exceptions of TypeFits, when the
\* proxy is the game's.
LEMMA GuessUnsignedFits ==
  ASSUME NEW prop \in T!Ints, prop.unsigned, NEW type \in T!GuessUnsigned(prop, prop.proxy)
  PROVE  type \in Unsigned /\ (T!Width[type] # T!Reads[prop.proxy] => Exempt(prop))
  <1>1. prop.proxy \in {"UInt8", "UInt16", "UInt32", "Color32", "EHandle", "Own1", "Own4"}
    BY DEF T!Ints, T!UnsignedProxies
  <1>2. CASE prop.proxy = "UInt8"
    BY <1>2, WidthIs, ReadsIs DEF T!GuessUnsigned, Unsigned
  <1>3. CASE prop.proxy = "UInt16"
    BY <1>3, WidthIs, ReadsIs DEF T!GuessUnsigned, Unsigned
  <1>4. CASE prop.proxy = "UInt32"
    BY <1>4, WidthIs, ReadsIs DEF T!GuessUnsigned, Unsigned
  <1>5. CASE prop.proxy \in {"Color32", "EHandle", "Own4", "Own1"}
    <2>1. type \in {"ehandle", "color32", "uint"}
      BY <1>5 DEF T!GuessUnsigned
    <2> QED
      BY <1>5, <2>1, WidthIs, ReadsIs DEF Unsigned, Exempt
  <1> QED
    BY <1>1, <1>2, <1>3, <1>4, <1>5

\* The same of a signed integer.
LEMMA GuessSignedFits ==
  ASSUME NEW prop \in T!Ints, ~prop.unsigned, NEW type \in T!GuessSigned(prop.proxy)
  PROVE  type \in Signed /\ (T!Width[type] # T!Reads[prop.proxy] => Exempt(prop))
  <1>1. prop.proxy \in {"Int8", "Int16", "Int32", "IntAddOne", "ShortAddOne", "Own1", "Own4"}
    BY DEF T!Ints, T!SignedProxies
  <1>2. CASE prop.proxy = "Int8"
    BY <1>2, WidthIs, ReadsIs DEF T!GuessSigned, Signed
  <1>3. CASE prop.proxy = "Int16"
    BY <1>3, WidthIs, ReadsIs DEF T!GuessSigned, Signed
  <1>4. CASE prop.proxy = "Int32"
    BY <1>4, WidthIs, ReadsIs DEF T!GuessSigned, Signed
  <1>5. CASE prop.proxy \in {"IntAddOne", "Own1"}
    <2>1. type \in {"sshort", "sint"}
      BY <1>5 DEF T!GuessSigned
    <2> QED
      BY <1>5, <2>1 DEF Signed, Exempt
  <1>6. CASE prop.proxy = "ShortAddOne"
    BY <1>6, WidthIs, ReadsIs DEF T!GuessSigned, T!LooksLikeShort, Signed
  <1>7. CASE prop.proxy = "Own4"
    BY <1>7, WidthIs, ReadsIs DEF T!GuessSigned, T!LooksLikeShort, Signed
  <1> QED
    BY <1>1, <1>2, <1>3, <1>4, <1>5, <1>6, <1>7

\* The same of every prop.
LEMMA GuessFits ==
  ASSUME NEW prop \in T!Ints \cup T!Others, NEW type \in T!guess_type(prop, prop.proxy)
  PROVE  type # T!Unknown /\ T!Width[type] # T!Size(prop) => Exempt(prop)
  <1>1. CASE prop \in T!Ints
    <2>1. prop.type = "int" /\ prop.unsigned \in BOOLEAN /\ T!Size(prop) = T!Reads[prop.proxy]
      BY <1>1 DEF T!Ints, T!Size
    <2>2. CASE prop.unsigned
      BY <1>1, <2>1, <2>2, GuessUnsignedFits DEF T!guess_type
    <2>3. CASE ~prop.unsigned
      BY <1>1, <2>1, <2>3, GuessSignedFits DEF T!guess_type
    <2> QED
      BY <2>1, <2>2, <2>3
  <1>2. CASE prop \in T!Others
    <2>1. prop.type \in {"float", "vector", "angles", "string", "int64"}
      BY <1>2 DEF T!Others
    <2>2. CASE prop.type = "float"
      BY <2>2, WidthIs DEF T!guess_type, T!Size
    <2>3. CASE prop.type = "vector"
      BY <2>3, WidthIs DEF T!guess_type, T!Size
    <2>4. CASE prop.type = "angles"
      BY <2>4, WidthIs DEF T!guess_type, T!Size
    <2>5. CASE prop.type = "string"
      BY <2>5, WidthIs DEF T!guess_type, T!Size
    <2>6. CASE prop.type = "int64"
      BY <2>6 DEF T!guess_type
    <2> QED
      BY <2>1, <2>2, <2>3, <2>4, <2>5, <2>6
  <1> QED
    BY <1>1, <1>2

\* Whatever the proxy is now, only an integer of 64 bits has no type.
LEMMA GuessKnows ==
  ASSUME NEW prop \in T!Ints \cup T!Others, NEW fn, NEW type \in T!guess_type(prop, fn)
  PROVE  type # "crash" /\ (type = T!Unknown => prop.type = "int64")
  <1>1. prop.type \in {"int", "float", "vector", "angles", "string", "int64"}
    BY DEF T!Ints, T!Others
  <1>2. CASE prop.type = "int"
    <2>1. type \in T!GuessUnsigned(prop, fn) \/ type \in T!GuessSigned(fn)
      BY <1>2 DEF T!guess_type
    <2>2. ASSUME type \in T!GuessUnsigned(prop, fn) PROVE type # "crash" /\ type # T!Unknown
      BY <2>2 DEF T!GuessUnsigned, T!Unknown
    <2>3. ASSUME type \in T!GuessSigned(fn) PROVE type # "crash" /\ type # T!Unknown
      BY <2>3 DEF T!GuessSigned, T!Unknown
    <2> QED
      BY <2>1, <2>2, <2>3
  <1>3. CASE prop.type \in {"float", "vector", "angles", "string"}
    BY <1>3 DEF T!guess_type, T!Unknown
  <1>4. CASE prop.type = "int64"
    BY <1>4 DEF T!guess_type, T!Unknown
  <1> QED
    BY <1>1, <1>2, <1>3, <1>4

\* An element is hooked only after it has a wrapper of its own, so that the guess that its
\* closure can mislead is that of the array.
TypesFit ==
  /\ elem \in T!Ints \cup T!Others
  /\ DOMAIN wrapper \subseteq {"elem", "array"}
  /\ hooked_elem \in BOOLEAN
  /\ \A p \in DOMAIN wrapper :
       /\ wrapper[p].hooked \in BOOLEAN /\ wrapper[p].type # "crash"
       /\ wrapper[p].type = T!Unknown => elem.type = "int64"
  /\ "elem" \in DOMAIN wrapper => ~wrapper["elem"].hooked
  /\ hooked_elem => "elem" \in DOMAIN wrapper

\* The invariant of the types.
TypesInv == TypesFit /\ T!TypeFits

\* A wrapper, of the prop or of its array, is made for the type that was guessed.
LEMMA WrapperKeeps ==
  ASSUME TypesInv, NEW p \in {"elem", "array"}, T!sendprop(p)
  PROVE  TypesInv'
  <1>1. PICK type \in T!guess_type(elem, T!m_ProxyFn) :
          wrapper' = [q \in DOMAIN wrapper \cup {p} |->
                        IF q = p THEN [type |-> type, hooked |-> hooked_elem] ELSE wrapper[q]]
    BY DEF T!sendprop
  <1>2. /\ p \notin DOMAIN wrapper
        /\ fooled' = (IF hooked_elem /\ T!Tries(elem, T!m_ProxyFn) THEN "guess" ELSE "no")
        /\ elem' = elem /\ hooked_elem' = hooked_elem /\ asked' = asked
    BY DEF T!sendprop
  <1>3. /\ DOMAIN wrapper' = DOMAIN wrapper \cup {p}
        /\ wrapper'[p].type = type /\ wrapper'[p].hooked = hooked_elem
        /\ \A q \in DOMAIN wrapper : wrapper'[q] = wrapper[q]
    BY <1>1, <1>2
  <1>4. hooked_elem => p = "array"
    BY <1>2 DEF TypesInv, TypesFit
  <1>5. type # "crash" /\ (type = T!Unknown => elem.type = "int64")
    BY GuessKnows DEF TypesInv, TypesFit
  <1>6. ~hooked_elem => (type # T!Unknown /\ T!Width[type] # T!Size(elem) => Exempt(elem))
    BY GuessFits DEF TypesInv, TypesFit, T!m_ProxyFn
  <1>7. TypesFit'
    BY <1>2, <1>3, <1>4, <1>5 DEF TypesInv, TypesFit
  <1>8. \A q \in DOMAIN wrapper' :
          wrapper'[q].type # T!Unknown /\ T!Width[wrapper'[q].type] # T!Size(elem') =>
            elem'.proxy \in {"Own1", "IntAddOne"} \/ (q = "array" /\ wrapper'[q].hooked)
    BY <1>2, <1>3, <1>4, <1>6 DEF TypesInv, T!TypeFits, Exempt
  <1>9. fooled' = "guess" => "array" \in DOMAIN wrapper' /\ wrapper'["array"].hooked
    BY <1>2, <1>3, <1>4
  <1>10. asked' = "crash" => elem'.type = "int64"
    BY <1>2 DEF TypesInv, T!TypeFits
  <1> QED
    BY <1>7, <1>8, <1>9, <1>10 DEF TypesInv, T!TypeFits

\* Every operation on the types keeps the invariant.
LEMMA TypesKeep ==
  ASSUME TypesInv, T!TNext
  PROVE  TypesInv'
  <1>1. ASSUME NEW p \in {"elem", "array"}, T!sendprop(p) PROVE TypesInv'
    BY <1>1, WrapperKeeps
  <1>2. ASSUME NEW p \in {"elem", "array"}, T!script_type(p) PROVE TypesInv'
    <2>1. /\ p \in DOMAIN wrapper /\ elem' = elem /\ wrapper' = wrapper
          /\ hooked_elem' = hooked_elem /\ fooled' = fooled
          /\ asked' = IF wrapper[p].type = T!Unknown THEN "crash" ELSE wrapper[p].type
      BY <1>2 DEF T!script_type
    <2>2. asked' = "crash" => wrapper[p].type \in {T!Unknown, "crash"}
      BY <2>1
    <2> QED
      BY <2>1, <2>2 DEF TypesInv, TypesFit, T!TypeFits, T!Size
  <1>3. CASE T!Hook
    BY <1>3 DEF T!Hook, TypesInv, TypesFit, T!TypeFits, T!Size
  <1>4. CASE T!Send
    BY <1>4 DEF T!Send, TypesInv, TypesFit, T!TypeFits, T!Size
  <1> QED
    BY <1>1, <1>2, <1>3, <1>4 DEF T!TNext

\* What the engine calls for a prop is prepared, and stays while it is called until a
\* callback frees it, and the type a script is told of one is as wide as
\* its variable, with the exceptions of SendProxies and SendTypes: for any number of props,
\* callbacks and nested calls, and every kind of prop.
THEOREM Proxies == MCSpec => []PropsAreSound
  <1>1. MCInit => ProxiesInv /\ RunsInv
    <2> SUFFICES ASSUME MCInit PROVE ProxiesInv /\ RunsInv
      OBVIOUS
    <2>1. /\ sending = <<>> /\ m_ProxyFn = [p \in Props |-> "old"] /\ closure = [p \in Props |-> "none"]
          /\ hooks = [c \in Callbacks |-> [prop |-> "none", post |-> FALSE]]
      BY DEF MCInit, X!XInit
    <2>2. ProxiesFit
      BY <2>1 DEF ProxiesFit
    <2>3. \A p \in Props : X!Empty(p)
      BY ProxiesAssumption, <2>1, <2>2, Hooked
    <2>4. RunsInv
      BY <2>1 DEF RunsInv
    <2> QED
      BY <2>1, <2>2, <2>3, <2>4 DEF ProxiesInv, X!ProxyIsReady
  <1>2. MCInit => TypesInv
    <2> SUFFICES ASSUME MCInit PROVE TypesInv
      OBVIOUS
    <2>1. T!TInit
      BY DEF MCInit
    <2>2. DOMAIN wrapper = {}
      BY <2>1 DEF T!TInit
    <2> QED
      BY <2>1, <2>2 DEF T!TInit, TypesInv, TypesFit, T!TypeFits
  <1>3. ProxiesInv /\ RunsInv /\ [MCNext]_<<part, pvars, valuevars, consolevars, factoryvars, tablevars,
                                 proxyvars, typevars, gamevars>> => (ProxiesInv /\ RunsInv)'
    <2>1. ProxiesInv /\ UNCHANGED proxyvars => ProxiesInv'
      BY DEF proxyvars, ProxiesInv, ProxiesFit, X!ProxyIsReady, X!Empty, X!Of
    <2>2. RunsInv /\ UNCHANGED proxyvars => RunsInv'
      BY DEF proxyvars, RunsInv
    <2> QED
      BY <2>1, <2>2, ProxiesKeep, RunsKeep DEF MCNext
  <1>4. TypesInv /\ [MCNext]_<<part, pvars, valuevars, consolevars, factoryvars, tablevars,
                               proxyvars, typevars, gamevars>> => TypesInv'
    <2>1. TypesInv /\ UNCHANGED typevars => TypesInv'
      BY DEF typevars, TypesInv, TypesFit, T!TypeFits, T!Size
    <2> QED
      BY <2>1, TypesKeep DEF MCNext
  <1>5. RunsInv => X!RunsInClosure
    BY CallsWait DEF RunsInv, RunsIn, X!RunsInClosure
  <1>6. ProxiesInv /\ RunsInv /\ TypesInv => PropsAreSound
    BY <1>5 DEF ProxiesInv, TypesInv, PropsAreSound
  <1> QED
    BY <1>1, <1>2, <1>3, <1>4, <1>6, PTL DEF MCSpec

-----------------------------------------------------------------------------
(* The dictionary of entity factories. *)

\* What a plugin may install: one name or two, perhaps the same.
NameLists == {<<n>> : n \in FreeNames} \cup {<<n, m>> : n, m \in FreeNames}

\* A factory of a plugin that is alive has exactly the entries that its names gave it, and no other
\* factory has one under them.
DictionaryFits ==
  /\ state \in [Impls -> {"none", "alive", "deleted"}]
  /\ DOMAIN names = Impls
  /\ \A e \in m_Factories :
       /\ e.factory \in Impls \cup Natives
       /\ e.factory \in Impls =>
            state[e.factory] = "alive" /\ e \in F!Installed(e.factory, names[e.factory])
  /\ \A f \in Impls : state[f] = "alive" =>
       /\ names[f] \in NameLists
       /\ F!Installed(f, names[f]) \subseteq m_Factories
       /\ \A i \in DOMAIN names[f] : F!Entries(names[f][i]) \subseteq F!Installed(f, names[f])

\* An entry of the dictionary.
Entry(n, f, nth) == [name |-> n, factory |-> f, nth |-> nth]

\* The module of the dictionary counts as this one does.
LEMMA CountsAlike ==
  ASSUME NEW some
  PROVE  F!Cardinality(some) = Cardinality(some)
  BY DEF F!Cardinality, Cardinality, F!IsFiniteSet, IsFiniteSet

\* How many names of a list up to this one are this one.
Nth(taken, i) == Cardinality({j \in 1 .. i : taken[j] = taken[i]})

\* The entries that a list of names makes: one for each of its places.
LEMMA InstalledEach ==
  ASSUME NEW f, NEW taken
  PROVE  F!Installed(f, taken) = {Entry(taken[i], f, Nth(taken, i)) : i \in DOMAIN taken}
  <1>1. \A i : F!Cardinality({j \in 1 .. i : taken[j] = taken[i]}) = Nth(taken, i)
    BY CountsAlike DEF Nth
  <1>2. ASSUME NEW e
        PROVE  e \in F!Installed(f, taken)
               <=> \E i \in DOMAIN taken : e = [name |-> taken[i], factory |-> f, nth |-> Nth(taken, i)]
    <2>1. e \in F!Installed(f, taken)
          <=> \E i \in DOMAIN taken :
                e = [name |-> taken[i], factory |-> f,
                     nth |-> F!Cardinality({j \in 1 .. i : taken[j] = taken[i]})]
      BY Zenon DEF F!Installed
    <2> QED
      BY Zenon, <1>1, <2>1
  <1> QED
    BY <1>2 DEF Entry

\* The first place is the first of its name.
LEMMA NthFirst ==
  ASSUME NEW taken
  PROVE  Nth(taken, 1) = 1
  <1>1. {j \in 1 .. 1 : taken[j] = taken[1]} = {1}
    OBVIOUS
  <1> QED
    BY <1>1, FS_Singleton DEF Nth

\* Two numbers are two.
LEMMA TwoOf == 1 .. 2 = {1, 2} /\ Cardinality(1 .. 2) = 2 /\ IsFiniteSet({1, 2}) /\ IsFiniteSet({1})
  <1>1. 1 .. 2 = {1, 2}
    OBVIOUS
  <1>2. Cardinality({1}) = 1 /\ IsFiniteSet({1})
    BY FS_Singleton
  <1>3. Cardinality({1} \cup {2}) = Cardinality({1}) + 1 /\ IsFiniteSet({1} \cup {2})
    <2> PICK one : one = {1}
      OBVIOUS
    <2>1. IsFiniteSet(one) /\ Cardinality(one) = 1 /\ 2 \notin one
      BY <1>2
    <2>2. IsFiniteSet(one \cup {2})
          /\ Cardinality(one \cup {2}) = IF 2 \in one THEN Cardinality(one) ELSE Cardinality(one) + 1
      BY <2>1, FS_AddElement
    <2> QED
      BY <2>1, <2>2
  <1>4. {1} \cup {2} = {1, 2}
    OBVIOUS
  <1> QED
    BY <1>1, <1>2, <1>3, <1>4

\* The second place is the second of its name if the first has it too.
LEMMA NthSecond ==
  ASSUME NEW taken
  PROVE  Nth(taken, 2) = IF taken[1] = taken[2] THEN 2 ELSE 1
  <1>1. CASE taken[1] = taken[2]
    <2>1. {j \in 1 .. 2 : taken[j] = taken[2]} = 1 .. 2
      BY <1>1
    <2> QED
      BY <1>1, <2>1, TwoOf DEF Nth
  <1>2. CASE taken[1] # taken[2]
    <2>1. {j \in 1 .. 2 : taken[j] = taken[2]} = {2}
      BY <1>2
    <2> QED
      BY <1>2, <2>1, FS_Singleton DEF Nth
  <1> QED
    BY <1>1, <1>2

\* One name makes its first entry.
LEMMA InstalledOne ==
  ASSUME NEW f, NEW n
  PROVE  F!Installed(f, <<n>>) = {Entry(n, f, 1)}
  <1>1. DOMAIN <<n>> = {1} /\ <<n>>[1] = n
    OBVIOUS
  <1>2. F!Installed(f, <<n>>) = {Entry(<<n>>[i], f, Nth(<<n>>, i)) : i \in DOMAIN <<n>>}
    BY InstalledEach
  <1>3. PICK taken : taken = <<n>>
    OBVIOUS
  <1>4. F!Installed(f, taken) = {Entry(taken[i], f, Nth(taken, i)) : i \in {1}}
    BY <1>1, <1>2, <1>3
  <1>5. {Entry(taken[i], f, Nth(taken, i)) : i \in {1}} = {Entry(taken[1], f, Nth(taken, 1))}
    OBVIOUS
  <1> QED
    BY <1>1, <1>3, <1>4, <1>5, NthFirst

\* Two names make two entries, the second of which is the second of the name if they are the same.
LEMMA InstalledTwo ==
  ASSUME NEW f, NEW n, NEW m
  PROVE  F!Installed(f, <<n, m>>) = {Entry(n, f, 1), Entry(m, f, IF n = m THEN 2 ELSE 1)}
  <1>1. DOMAIN <<n, m>> = {1, 2} /\ <<n, m>>[1] = n /\ <<n, m>>[2] = m
    OBVIOUS
  <1>2. F!Installed(f, <<n, m>>) = {Entry(<<n, m>>[i], f, Nth(<<n, m>>, i)) : i \in DOMAIN <<n, m>>}
    BY InstalledEach
  <1>3. PICK taken : taken = <<n, m>>
    OBVIOUS
  <1>4. F!Installed(f, taken) = {Entry(taken[i], f, Nth(taken, i)) : i \in {1, 2}}
    BY <1>1, <1>2, <1>3
  <1>5. {Entry(taken[i], f, Nth(taken, i)) : i \in {1, 2}}
        = {Entry(taken[1], f, Nth(taken, 1)), Entry(taken[2], f, Nth(taken, 2))}
    OBVIOUS
  <1> QED
    BY <1>1, <1>3, <1>4, <1>5, NthFirst, NthSecond

\* Each entry is of the factory and under a name of the list, each name has an entry, and one that
\* is the second of its name has the first beside it.
LEMMA InstalledIs ==
  ASSUME NEW f, NEW taken \in NameLists
  PROVE  /\ \A e \in F!Installed(f, taken) :
              /\ e = Entry(e.name, f, e.nth) /\ e.nth \in {1, 2}
              /\ \E i \in DOMAIN taken : e.name = taken[i]
              /\ e.nth = 2 => DOMAIN taken = {1, 2} /\ taken[1] = e.name /\ taken[2] = e.name
         /\ \A i \in DOMAIN taken : \E e \in F!Installed(f, taken) : e.name = taken[i]
  <1>1. CASE \E n \in FreeNames : taken = <<n>>
    <2>1. PICK n \in FreeNames : taken = <<n>>
      BY <1>1
    <2>2. F!Installed(f, taken) = {Entry(n, f, 1)} /\ DOMAIN taken = {1} /\ taken[1] = n
      BY <2>1, InstalledOne
    <2> QED
      BY <2>2 DEF Entry
  <1>2. CASE \E n, m \in FreeNames : taken = <<n, m>>
    <2>1. PICK n \in FreeNames, m \in FreeNames : taken = <<n, m>>
      BY <1>2
    <2>2. F!Installed(f, taken) = {Entry(n, f, 1), Entry(m, f, IF n = m THEN 2 ELSE 1)}
          /\ DOMAIN taken = {1, 2} /\ taken[1] = n /\ taken[2] = m
      BY <2>1, InstalledTwo
    <2> QED
      BY <2>2 DEF Entry
  <1> QED
    BY <1>1, <1>2 DEF NameLists

\* How often a list has a name, what the dictionary has of a name before an entry, and the entries
\* that as many find-and-erase take.
Times(f, n) == Cardinality({i \in DOMAIN names[f] : names[f][i] = n})
Before(n, e) == {g \in F!Entries(n) : g.nth < e.nth}
Taken(f, n) == {e \in F!Entries(n) : Cardinality(Before(n, e)) < Times(f, n)}

\* Deletion takes these out for each name.
LEMMA ErasedEach ==
  ASSUME NEW f
  PROVE  F!Erased(f) = m_Factories \ UNION {Taken(f, names[f][i]) : i \in DOMAIN names[f]}
  <1>1. \A n : F!Cardinality({i \in DOMAIN names[f] : names[f][i] = n}) = Times(f, n)
    BY CountsAlike DEF Times
  <1>2. \A n, e : F!Cardinality({g \in F!Entries(n) : g.nth < e.nth}) = Cardinality(Before(n, e))
    BY CountsAlike DEF Before
  <1>3. ASSUME NEW e
        PROVE  e \in F!Erased(f)
               <=> e \in m_Factories \ UNION {Taken(f, names[f][i]) : i \in DOMAIN names[f]}
    <2>1. e \in F!Erased(f)
          <=> e \in m_Factories \ UNION {{d \in F!Entries(names[f][i]) :
                F!Cardinality({g \in F!Entries(names[f][i]) : g.nth < d.nth})
                < F!Cardinality({j \in DOMAIN names[f] : names[f][j] = names[f][i]})} : i \in DOMAIN names[f]}
      BY Zenon DEF F!Erased
    <2>2. \A i : {d \in F!Entries(names[f][i]) :
                    F!Cardinality({g \in F!Entries(names[f][i]) : g.nth < d.nth})
                    < F!Cardinality({j \in DOMAIN names[f] : names[f][j] = names[f][i]})}
                 = Taken(f, names[f][i])
      BY Zenon, <1>1, <1>2 DEF Taken
    <2>3. e \in F!Erased(f)
          <=> e \in m_Factories /\ ~\E i \in DOMAIN names[f] : e \in {d \in F!Entries(names[f][i]) :
                F!Cardinality({g \in F!Entries(names[f][i]) : g.nth < d.nth})
                < F!Cardinality({j \in DOMAIN names[f] : names[f][j] = names[f][i]})}
      BY Zenon, <2>1
    <2>4. e \in m_Factories \ UNION {Taken(f, names[f][i]) : i \in DOMAIN names[f]}
          <=> e \in m_Factories /\ ~\E i \in DOMAIN names[f] : e \in Taken(f, names[f][i])
      OBVIOUS
    <2>5. \A i : e \in {d \in F!Entries(names[f][i]) :
                       F!Cardinality({g \in F!Entries(names[f][i]) : g.nth < d.nth})
                       < F!Cardinality({j \in DOMAIN names[f] : names[f][j] = names[f][i]})}
                <=> e \in Taken(f, names[f][i])
      BY Zenon, <2>2
    <2> QED
      BY Zenon, <2>3, <2>4, <2>5
  <1> QED
    BY <1>3

\* A factory that is deleted takes all its entries out, and only those.
LEMMA ErasedIs ==
  ASSUME DictionaryFits, NEW f \in Impls, state[f] = "alive"
  PROVE  F!Erased(f) = {e \in m_Factories : e.factory # f}
  <1>1. F!Erased(f) = m_Factories \ UNION {Taken(f, names[f][i]) : i \in DOMAIN names[f]}
    BY ErasedEach
  <1>2. names[f] \in NameLists /\ F!Installed(f, names[f]) \subseteq m_Factories
        /\ \A i \in DOMAIN names[f] : F!Entries(names[f][i]) \subseteq F!Installed(f, names[f])
    BY DEF DictionaryFits
  <1>3. \A i \in DOMAIN names[f] : \A e \in Taken(f, names[f][i]) : e.factory = f
    <2> SUFFICES ASSUME NEW i \in DOMAIN names[f], NEW e \in Taken(f, names[f][i]) PROVE e.factory = f
      OBVIOUS
    <2>1. e \in F!Installed(f, names[f])
      BY <1>2 DEF Taken
    <2>2. e = Entry(e.name, f, e.nth)
      BY <1>2, <2>1, InstalledIs
    <2> QED
      BY <2>2 DEF Entry
  <1>4. ASSUME NEW e \in m_Factories, e.factory = f
        PROVE  \E i \in DOMAIN names[f] : e \in Taken(f, names[f][i])
    <2>1. e \in F!Installed(f, names[f])
      BY <1>4 DEF DictionaryFits
    <2>2. PICK i \in DOMAIN names[f] : e.name = names[f][i]
      BY <1>2, <2>1, InstalledIs
    <2>3. e \in F!Entries(names[f][i]) /\ e.nth \in {1, 2}
      BY <1>2, <2>1, <2>2, InstalledIs DEF F!Entries
    <2>4. DOMAIN names[f] \in {{1}, {1, 2}}
      BY <1>2 DEF NameLists
    <2>6. \A g \in F!Entries(names[f][i]) : g = Entry(names[f][i], f, g.nth) /\ g.nth \in {1, 2}
      BY <1>2, InstalledIs DEF F!Entries
    <2>7. CASE e.nth = 1
      <3>1. Before(names[f][i], e) = {}
        BY <2>6, <2>7 DEF Before
      <3>2. Cardinality(Before(names[f][i], e)) = 0
        BY <3>1, FS_EmptySet
      <3>3. IsFiniteSet({j \in DOMAIN names[f] : names[f][j] = names[f][i]})
        BY <2>4, TwoOf, FS_Subset
      <3>4. {j \in DOMAIN names[f] : names[f][j] = names[f][i]} # {}
        BY <2>2
      <3>5. Times(f, names[f][i]) \in Nat /\ Times(f, names[f][i]) # 0
        BY <3>3, <3>4, FS_EmptySet, FS_CardinalityType DEF Times
      <3> QED
        BY <2>3, <3>2, <3>5 DEF Taken
    <2>8. CASE e.nth = 2
      <3>1. DOMAIN names[f] = {1, 2} /\ names[f][1] = names[f][i] /\ names[f][2] = names[f][i]
        BY <1>2, <2>1, <2>2, <2>8, InstalledIs
      <3>2. {j \in DOMAIN names[f] : names[f][j] = names[f][i]} = 1 .. 2
        BY <3>1
      <3>3. Times(f, names[f][i]) = 2
        BY <3>2, TwoOf DEF Times
      <3>4. Before(names[f][i], e) \subseteq {Entry(names[f][i], f, 1)}
        BY <2>6, <2>8 DEF Before
      <3>5. Cardinality({Entry(names[f][i], f, 1)}) = 1 /\ IsFiniteSet({Entry(names[f][i], f, 1)})
        BY FS_Singleton
      <3>6. Cardinality(Before(names[f][i], e)) <= 1 /\ Cardinality(Before(names[f][i], e)) \in Nat
        <4>1. IsFiniteSet(Before(names[f][i], e))
              /\ Cardinality(Before(names[f][i], e)) <= Cardinality({Entry(names[f][i], f, 1)})
          BY <3>4, <3>5, FS_Subset
        <4> QED
          BY <3>5, <4>1, FS_CardinalityType
      <3> QED
        BY <2>3, <3>3, <3>6 DEF Taken
    <2> QED
      BY <2>3, <2>7, <2>8
  <1> QED
    BY <1>1, <1>3, <1>4

\* A creation that was asked for a size and is still to allocate, and one that nothing began within.
Waits(i) == creating[i].kind = "sized" /\ ~creating[i].allocated
Frames == [kind : {"native", "callback", "sized", "size"}, factory : Impls \cup Natives, asked : Nat,
           allocated : BOOLEAN, disturbed : BOOLEAN]

\* The size for the next allocation is that of the innermost creation, unless something began
\* within another that waits for it.
SizesFit ==
  /\ creating \in Seq(Frames) /\ tmp_ent_size \in Nat
  /\ \A i \in 1 .. Len(creating) :
       /\ creating[i].kind \in {"native", "sized"} => creating[i].factory \in Natives
       /\ creating[i].kind = "sized" => creating[i].asked > 0
       /\ Waits(i) /\ ~creating[i].disturbed => i = Len(creating) /\ tmp_ent_size = creating[i].asked
  /\ tmp_ent_size > 0 => \E i \in 1 .. Len(creating) : Waits(i)
  /\ made.got # made.asked => made.disturbed \/ made.sized

\* The invariant of the factories.
FactoriesInv == DictionaryFits /\ SizesFit /\ broken \subseteq {"size_callback"}

\* A plugin creates a factory: its names were free, so that no other has entries under them.
LEMMA DictionaryCreates ==
  ASSUME DictionaryFits, NEW f \in Impls, NEW registers \in BOOLEAN, NEW taken \in NameLists,
         F!script_create_factory(f, taken, registers)
  PROVE  DictionaryFits'
  <1>1. state[f] = "none" /\ F!NamesFree(taken) /\ DOMAIN state = Impls /\ DOMAIN names = Impls
    BY DEF F!script_create_factory, DictionaryFits
  <1>2. CASE ~registers
    <2>1. state' = [state EXCEPT ![f] = "deleted"] /\ names' = names /\ m_Factories' = m_Factories
      BY <1>2 DEF F!script_create_factory
    <2>2. \A g \in Impls : state'[g] = "alive" <=> state[g] = "alive"
      BY <1>1, <2>1
    <2>3. state' \in [Impls -> {"none", "alive", "deleted"}]
      BY <2>1 DEF DictionaryFits
    <2> QED
      BY <2>1, <2>2, <2>3 DEF DictionaryFits, F!Entries
  <1>3. CASE registers
    <2>1. /\ state' = [state EXCEPT ![f] = "alive"]
          /\ names' = [names EXCEPT ![f] = taken]
          /\ m_Factories' = m_Factories \cup F!Installed(f, taken)
      BY <1>3 DEF F!script_create_factory
    <2>2. state' \in [Impls -> {"none", "alive", "deleted"}] /\ DOMAIN names' = Impls
      BY <1>1, <2>1 DEF DictionaryFits
    <2>3. names'[f] = taken /\ state'[f] = "alive"
      BY <1>1, <2>1
    <2>4. \A g \in Impls : g # f => names'[g] = names[g] /\ state'[g] = state[g]
      BY <1>1, <2>1
    <2>5. ASSUME NEW e \in m_Factories'
          PROVE  /\ e.factory \in Impls \cup Natives
                 /\ e.factory \in Impls =>
                      state'[e.factory] = "alive" /\ e \in F!Installed(e.factory, names'[e.factory])
      <3>1. CASE e \in m_Factories
        BY <1>1, <2>4, <3>1 DEF DictionaryFits
      <3>2. CASE e \in F!Installed(f, taken)
        <4>1. e.factory = f
          BY <3>2, InstalledIs DEF Entry
        <4> QED
          BY <2>3, <3>2, <4>1
      <3> QED
        BY <2>1, <3>1, <3>2
    <2>6. ASSUME NEW g \in Impls, state'[g] = "alive", NEW i \in DOMAIN names'[g],
                 NEW e \in m_Factories', e.name = names'[g][i]
          PROVE  e \in F!Installed(g, names'[g])
      <3>1. CASE g = f
        <4>1. e \notin m_Factories
          BY <1>1, <2>3, <2>6, <3>1 DEF F!NamesFree, F!Entries
        <4> QED
          BY <2>1, <2>3, <3>1, <4>1
      <3>2. CASE g # f
        <4>1. state[g] = "alive" /\ names'[g] = names[g]
          BY <2>4, <2>6, <3>2
        <4>2. CASE e \in m_Factories
          BY <2>6, <4>1, <4>2 DEF DictionaryFits, F!Entries
        <4>3. CASE e \in F!Installed(f, taken)
          <5>1. PICK j \in DOMAIN taken : e.name = taken[j]
            BY <4>3, InstalledIs
          <5>2. names[g] \in NameLists /\ F!Installed(g, names[g]) \subseteq m_Factories
            BY <4>1 DEF DictionaryFits
          <5>3. PICK d \in F!Installed(g, names[g]) : d.name = names[g][i]
            BY <2>6, <4>1, <5>2, InstalledIs
          <5>4. d \in F!Entries(taken[j])
            BY <2>6, <4>1, <5>1, <5>2, <5>3 DEF F!Entries
          <5> QED
            BY <1>1, <5>4 DEF F!NamesFree
        <4> QED
          BY <2>1, <4>2, <4>3
      <3> QED
        BY <3>1, <3>2
    <2>7. ASSUME NEW g \in Impls, state'[g] = "alive"
          PROVE  names'[g] \in NameLists /\ F!Installed(g, names'[g]) \subseteq m_Factories'
      <3>1. CASE g = f
        BY <2>1, <2>3, <3>1
      <3>2. CASE g # f
        BY <2>1, <2>4, <2>7, <3>2 DEF DictionaryFits
      <3> QED
        BY <3>1, <3>2
    <2>8. NameLists' = NameLists
      BY DEF NameLists
    <2> QED
      BY <2>2, <2>5, <2>6, <2>7, <2>8 DEF DictionaryFits, F!Entries
  <1> QED
    BY <1>2, <1>3

\* A factory that is deleted leaves the entries of the others.
LEMMA DictionaryDeletes ==
  ASSUME DictionaryFits, NEW f \in Impls, F!destroy(f)
  PROVE  DictionaryFits'
  <1>1. state[f] = "alive" /\ state' = [state EXCEPT ![f] = "deleted"] /\ names' = names
    BY DEF F!destroy
  <1>2. m_Factories' = {e \in m_Factories : e.factory # f}
    BY <1>1, ErasedIs DEF F!destroy
  <1>3. state' \in [Impls -> {"none", "alive", "deleted"}] /\ state'[f] = "deleted"
        /\ \A g \in Impls : g # f => state'[g] = state[g]
    BY <1>1 DEF DictionaryFits
  <1>4. ASSUME NEW g \in Impls, state'[g] = "alive"
        PROVE  F!Installed(g, names[g]) \subseteq m_Factories'
    <2>1. g # f /\ state[g] = "alive"
      BY <1>3, <1>4
    <2>2. names[g] \in NameLists /\ F!Installed(g, names[g]) \subseteq m_Factories
      BY <2>1 DEF DictionaryFits
    <2>3. \A e \in F!Installed(g, names[g]) : e.factory = g
      BY <2>2, InstalledIs DEF Entry
    <2> QED
      BY <1>2, <2>1, <2>2, <2>3
  <1>5. \A g \in Impls : state'[g] = "alive" => state[g] = "alive"
    BY <1>3
  <1> QED
    BY <1>1, <1>2, <1>3, <1>4, <1>5 DEF DictionaryFits, F!Entries, NameLists

\* What does not touch the dictionary.
LEMMA DictionaryStays ==
  ASSUME DictionaryFits, UNCHANGED <<m_Factories, names, state>>
  PROVE  DictionaryFits'
  BY DEF DictionaryFits, F!Entries, NameLists

\* A frame in place of another.
LEMMA FrameChanged ==
  ASSUME creating \in Seq(Frames), NEW i \in 1 .. Len(creating), NEW frame \in Frames
  PROVE  /\ [creating EXCEPT ![i] = frame] \in Seq(Frames)
         /\ Len([creating EXCEPT ![i] = frame]) = Len(creating)
         /\ [creating EXCEPT ![i] = frame][i] = frame
         /\ \A j \in 1 .. Len(creating) : j # i => [creating EXCEPT ![i] = frame][j] = creating[j]
  <1> DEFINE changed == [creating EXCEPT ![i] = frame]
  <1>1. Len(creating) \in Nat /\ creating \in [1 .. Len(creating) -> Frames]
    OBVIOUS
  <1>2. changed \in [1 .. Len(creating) -> Frames]
    BY <1>1
  <1>3. changed[i] = frame /\ \A j \in 1 .. Len(creating) : j # i => changed[j] = creating[j]
    BY <1>1
  <1> HIDE DEF changed
  <1>4. changed \in Seq(Frames) /\ Len(changed) = Len(creating)
    BY <1>1, <1>2
  <1> QED
    BY <1>3, <1>4 DEF changed

\* A creation begins within whatever is going on.
LEMMA PushKeeps ==
  ASSUME SizesFit, NEW frame \in Frames, F!Push(frame), UNCHANGED made, ~frame.allocated,
         frame.kind \in {"native", "sized"} => frame.factory \in Natives,
         \/ frame.kind = "sized" /\ frame.asked > 0 /\ tmp_ent_size' = frame.asked
         \/ frame.kind # "sized" /\ tmp_ent_size' = tmp_ent_size
  PROVE  SizesFit'
  <1> DEFINE n == Len(creating)
             frames == F!Disturb(creating)
  <1>1. creating \in Seq(Frames) /\ n \in Nat /\ creating' = Append(frames, frame)
    BY DEF SizesFit, F!Push
  <1>2. DOMAIN frames = 1 .. n
    BY <1>1 DEF F!Disturb
  <1>3. \A i \in 1 .. n : creating[i] \in Frames /\ frames[i] \in Frames
                          /\ frames[i].kind = creating[i].kind /\ frames[i].factory = creating[i].factory
                          /\ frames[i].asked = creating[i].asked
                          /\ frames[i].allocated = creating[i].allocated
                          /\ (~frames[i].allocated => frames[i].disturbed)
    <2> SUFFICES ASSUME NEW i \in 1 .. n
                 PROVE  /\ creating[i] \in Frames /\ frames[i] \in Frames
                        /\ frames[i].kind = creating[i].kind /\ frames[i].factory = creating[i].factory
                        /\ frames[i].asked = creating[i].asked
                        /\ frames[i].allocated = creating[i].allocated
                        /\ ~frames[i].allocated => frames[i].disturbed
      OBVIOUS
    <2>1. creating[i] \in Frames
      BY <1>1
    <2>2. frames[i] = IF creating[i].allocated THEN creating[i]
                      ELSE [creating[i] EXCEPT !.disturbed = TRUE]
      <3>1. DOMAIN creating = 1 .. n
        BY <1>1
      <3> HIDE DEF n
      <3>2. i \in DOMAIN creating
        BY <3>1
      <3> QED
        BY Zenon, <3>2 DEF F!Disturb
    <2> HIDE DEF frames
    <2>3. CASE creating[i].allocated
      BY <2>1, <2>2, <2>3
    <2>4. CASE ~creating[i].allocated
      <3>1. PICK c \in Frames : c = creating[i]
        BY <2>1
      <3>2. frames[i] = [c EXCEPT !.disturbed = TRUE] /\ ~c.allocated
        BY <2>2, <2>4, <3>1
      <3>3. [c EXCEPT !.disturbed = TRUE] \in Frames
        BY DEF Frames
      <3>4. \A name \in {"kind", "factory", "asked", "allocated"} :
               [c EXCEPT !.disturbed = TRUE][name] = c[name]
        BY DEF Frames
      <3>5. [c EXCEPT !.disturbed = TRUE].disturbed
        BY DEF Frames
      <3> QED
        BY <3>1, <3>2, <3>3, <3>4, <3>5
    <2> QED
      BY <2>3, <2>4
  <1>4. frames \in Seq(Frames) /\ Len(frames) = n
    <2>1. frames = [i \in 1 .. n |-> frames[i]]
      BY <1>1 DEF F!Disturb
    <2> HIDE DEF frames
    <2>2. frames \in [1 .. n -> Frames]
      BY <1>3, <2>1
    <2> QED
      BY <1>1, <2>2
  <1> HIDE DEF frames
  <1>5. creating' \in Seq(Frames) /\ Len(creating') = n + 1 /\ creating'[n + 1] = frame
        /\ \A i \in 1 .. n : creating'[i] = frames[i]
    BY <1>1, <1>4
  <1>6. tmp_ent_size' \in Nat
    BY DEF SizesFit, Frames
  <1>7. \A i \in 1 .. n : Waits(i)' <=> Waits(i)
    BY <1>3, <1>5 DEF Waits
  <1> HIDE DEF n
  <1>8. \A i \in 1 .. n + 1 : i = n + 1 \/ i \in 1 .. n
    BY <1>1
  <1>9. ASSUME NEW i \in 1 .. n + 1
        PROVE  /\ creating'[i].kind \in {"native", "sized"} => creating'[i].factory \in Natives
               /\ creating'[i].kind = "sized" => creating'[i].asked > 0
               /\ Waits(i)' /\ ~creating'[i].disturbed => i = n + 1 /\ tmp_ent_size' = creating'[i].asked
    <2>1. CASE i = n + 1
      BY <1>5, <2>1 DEF Waits
    <2>2. CASE i \in 1 .. n
      BY <1>3, <1>5, <2>2 DEF SizesFit, Waits, n
    <2> QED
      BY <1>8, <2>1, <2>2
  <1>10. tmp_ent_size' > 0 => \E i \in 1 .. n + 1 : Waits(i)'
    <2>1. CASE frame.kind = "sized"
      <3>1. \A i \in {n + 1} : Waits(i)'
        BY <1>5, <2>1 DEF Waits
      <3>2. n + 1 \in 1 .. n + 1
        BY <1>1
      <3> QED
        BY <3>1, <3>2
    <2>2. CASE frame.kind # "sized"
      <3>1. tmp_ent_size' = tmp_ent_size
        BY <2>2
      <3>2. tmp_ent_size > 0 => \E i \in 1 .. n : Waits(i)
        BY DEF SizesFit, n
      <3>3. 1 .. n \subseteq 1 .. n + 1
        BY <1>1
      <3> QED
        BY <1>7, <3>1, <3>2, <3>3
    <2> QED
      BY <2>1, <2>2
  <1> QED
    BY <1>5, <1>6, <1>9, <1>10 DEF SizesFit

\* The allocation takes the size, which is that of the innermost creation or of one that it is
\* within.
LEMMA AllocKeeps ==
  ASSUME SizesFit, F!PvAllocEntPrivateData
  PROVE  SizesFit'
  <1> DEFINE n == Len(creating)
             top == creating[n]
  <1>1. /\ creating \in Seq(Frames) /\ n \in Nat /\ n # 0
        /\ top.kind \in {"native", "sized"} /\ ~top.allocated /\ tmp_ent_size' = 0
        /\ creating' = [creating EXCEPT ![n].allocated = TRUE]
    BY DEF SizesFit, F!PvAllocEntPrivateData, F!Top, F!Reset
  <1>2. /\ top \in Frames /\ Len(creating') = n /\ creating' \in Seq(Frames)
        /\ creating'[n] = [top EXCEPT !.allocated = TRUE]
        /\ \A i \in 1 .. n : i # n => creating'[i] = creating[i]
    <2>1. n \in 1 .. n
      BY <1>1
    <2>2. top \in Frames
      BY <1>1, <2>1
    <2>3. creating' = [creating EXCEPT ![n] = [top EXCEPT !.allocated = TRUE]]
      BY <1>1
    <2>4. [top EXCEPT !.allocated = TRUE] \in Frames
      BY <2>2 DEF Frames
    <2> PICK frame \in Frames : frame = [top EXCEPT !.allocated = TRUE]
      BY <2>4
    <2>5. creating' = [creating EXCEPT ![n] = frame]
      BY <2>3
    <2> HIDE DEF top
    <2>6. Len(creating') = n /\ creating' \in Seq(Frames) /\ creating'[n] = frame
          /\ \A i \in 1 .. n : i # n => creating'[i] = creating[i]
      <3>1. creating \in Seq(Frames) /\ n \in 1 .. Len(creating)
        BY <1>1, <2>1
      <3> HIDE DEF n
      <3> QED
        BY <2>5, <3>1, FrameChanged DEF n
    <2> QED
      BY <2>2, <2>6
  <1>4. creating'[n].kind = top.kind /\ creating'[n].factory = top.factory
        /\ creating'[n].asked = top.asked /\ creating'[n].allocated
    BY <1>2 DEF Frames
  <1>5. top.factory \in Natives
    BY <1>1 DEF SizesFit
  <1>6. /\ made'.asked = IF top.kind = "sized" THEN top.asked ELSE MCBaseSize[top.factory]
        /\ made'.got = IF tmp_ent_size > 0 THEN tmp_ent_size ELSE MCBaseSize[top.factory]
        /\ made'.disturbed = top.disturbed
        /\ made'.sized <=> \E i \in 1 .. n - 1 : creating[i].kind = "sized" /\ ~creating[i].allocated
    BY DEF F!PvAllocEntPrivateData, F!Top
  <1> HIDE DEF top
  <1>7. made'.got # made'.asked => made'.disturbed \/ made'.sized
    <2>1. CASE top.kind = "sized"
      <3>1. Waits(n)
        BY <1>1, <2>1 DEF Waits, top
      <3>2. top.disturbed \/ (tmp_ent_size = top.asked /\ top.asked > 0)
        BY <1>1, <2>1, <3>1 DEF SizesFit, top
      <3> QED
        BY <1>6, <2>1, <3>2
    <2>2. CASE top.kind = "native"
      <3>1. ~Waits(n)
        BY <2>2 DEF Waits, top
      <3>2. tmp_ent_size > 0 => \E i \in 1 .. n - 1 : Waits(i)
        <4>1. tmp_ent_size > 0 => \E i \in 1 .. n : Waits(i)
          BY DEF SizesFit
        <4> HIDE DEF n
        <4>2. \A i \in 1 .. n : i = n \/ i \in 1 .. n - 1
          BY <1>1
        <4> QED
          BY <3>1, <4>1, <4>2
      <3> QED
        BY <1>6, <2>2, <3>2 DEF Waits
    <2> QED
      BY <1>1, <2>1, <2>2
  <1>8. ASSUME NEW i \in 1 .. n
        PROVE  /\ creating'[i].kind \in {"native", "sized"} => creating'[i].factory \in Natives
               /\ creating'[i].kind = "sized" => creating'[i].asked > 0
               /\ ~(Waits(i)' /\ ~creating'[i].disturbed)
    <2>1. CASE i = n
      BY <1>1, <1>4, <2>1 DEF SizesFit, Waits, top
    <2>2. CASE i # n
      BY <1>2, <2>2 DEF SizesFit, Waits
    <2> QED
      BY <2>1, <2>2
  <1> QED
    BY <1>1, <1>2, <1>7, <1>8 DEF SizesFit

\* A creation ends: what is left below it is disturbed if it still waits.
LEMMA CreateReturns ==
  ASSUME SizesFit, F!create_returns
  PROVE  SizesFit'
  <1> DEFINE n == Len(creating)
  <1>1. /\ creating \in Seq(Frames) /\ n \in Nat /\ n # 0
        /\ creating' = SubSeq(creating, 1, n - 1) /\ made' = made
        /\ tmp_ent_size' = IF creating[n].kind = "sized" THEN 0 ELSE tmp_ent_size
    BY DEF SizesFit, F!create_returns, F!Top
  <1>2. creating' \in Seq(Frames) /\ Len(creating') = n - 1
        /\ \A i \in 1 .. n - 1 : creating'[i] = creating[i]
    <2> PICK frames \in Seq(Frames) : frames = creating
      BY <1>1
    <2>1. n = Len(frames)
      OBVIOUS
    <2> HIDE DEF n
    <2>2. SubSeq(frames, 1, n - 1) \in Seq(Frames) /\ Len(SubSeq(frames, 1, n - 1)) = n - 1
          /\ \A i \in 1 .. n - 1 : SubSeq(frames, 1, n - 1)[i] = frames[i]
      BY <1>1, <2>1
    <2> QED
      BY <1>1, <2>2
  <1>3. \A i \in 1 .. n - 1 : Waits(i)' <=> Waits(i)
    BY <1>2 DEF Waits
  <1>4. \A i \in 1 .. n - 1 :
          /\ creating[i].kind \in {"native", "sized"} => creating[i].factory \in Natives
          /\ creating[i].kind = "sized" => creating[i].asked > 0
          /\ ~(Waits(i) /\ ~creating[i].disturbed)
    BY <1>1 DEF SizesFit
  <1>5. tmp_ent_size' > 0 => \E i \in 1 .. n - 1 : Waits(i)
    <2> SUFFICES ASSUME tmp_ent_size' > 0 PROVE \E i \in 1 .. n - 1 : Waits(i)
      OBVIOUS
    <2>1. creating[n].kind # "sized" /\ tmp_ent_size > 0
      BY <1>1
    <2>2. PICK i \in 1 .. n : Waits(i)
      BY <2>1 DEF SizesFit
    <2>3. i # n
      BY <2>1, <2>2 DEF Waits
    <2> HIDE DEF n
    <2>4. i \in 1 .. n - 1
      BY <1>1, <2>3
    <2> QED
      BY <2>2, <2>4
  <1>6. tmp_ent_size' \in Nat
    BY <1>1 DEF SizesFit
  <1>7. made.got # made.asked => made.disturbed \/ made.sized
    BY DEF SizesFit
  <1> HIDE DEF n
  <1> QED
    BY <1>1, <1>2, <1>3, <1>4, <1>5, <1>6, <1>7 DEF SizesFit

\* The size callback is back, and the creation of a plugin's entity begins.
LEMMA SizeReturns ==
  ASSUME SizesFit, F!size_returns
  PROVE  SizesFit'
  <1> DEFINE n == Len(creating)
             frame == F!Frame("callback", creating[n].factory, 0)
  <1>1. /\ creating \in Seq(Frames) /\ n \in Nat /\ n # 0 /\ creating[n].kind = "size"
        /\ creating' = [creating EXCEPT ![n] = frame] /\ made' = made /\ tmp_ent_size' = tmp_ent_size
    BY DEF SizesFit, F!size_returns, F!Top
  <1>2. frame \in Frames /\ frame.kind = "callback"
    <2>1. creating[n] \in Frames
      BY <1>1
    <2> QED
      BY <2>1 DEF Frames, F!Frame
  <1> HIDE DEF frame
  <1>3. creating' \in Seq(Frames) /\ Len(creating') = n /\ creating'[n] = frame
        /\ \A i \in 1 .. n : i # n => creating'[i] = creating[i]
    <2>1. n \in 1 .. n
      BY <1>1
    <2> QED
      BY <1>1, <1>2, <2>1, FrameChanged
  <1>4. \A i \in 1 .. n : Waits(i)' <=> Waits(i)
    BY <1>1, <1>2, <1>3 DEF Waits
  <1>5. \A i \in 1 .. n : /\ creating'[i].kind \in {"native", "sized"} => creating'[i] = creating[i]
                          /\ Waits(i) => creating'[i] = creating[i]
    BY <1>1, <1>2, <1>3 DEF Waits
  <1> QED
    <2>1. \A i \in 1 .. n :
            /\ creating'[i].kind \in {"native", "sized"} => creating'[i].factory \in Natives
            /\ creating'[i].kind = "sized" => creating'[i].asked > 0
            /\ Waits(i)' /\ ~creating'[i].disturbed => i = n /\ tmp_ent_size' = creating'[i].asked
      BY <1>1, <1>4, <1>5 DEF SizesFit
    <2>2. tmp_ent_size' > 0 => \E i \in 1 .. n : Waits(i)'
      BY <1>1, <1>4 DEF SizesFit
    <2>3. tmp_ent_size' \in Nat /\ (made'.got # made'.asked => made'.disturbed \/ made'.sized)
      BY <1>1 DEF SizesFit
    <2> HIDE DEF n
    <2> QED
      BY <1>3, <2>1, <2>2, <2>3 DEF SizesFit

\* Every step that factories are part of.
LEMMA FactoriesKeep ==
  ASSUME FactoriesInv, F!FNext
  PROVE  FactoriesInv'
  <1> USE FactoriesAssumption DEF FactoriesInv
  <1>1. ASSUME NEW f \in Impls, NEW registers \in BOOLEAN, NEW taken \in NameLists,
               F!script_create_factory(f, taken, registers)
        PROVE  FactoriesInv'
    <2>1. UNCHANGED <<tmp_ent_size, creating, made, broken>>
      BY <1>1 DEF F!script_create_factory
    <2>2. SizesFit'
      BY <2>1 DEF SizesFit, Waits, Frames
    <2> QED
      BY <1>1, <2>1, <2>2, DictionaryCreates
  <1>2. ASSUME NEW f \in Impls, F!destroy(f) PROVE FactoriesInv'
    <2>1. UNCHANGED <<tmp_ent_size, creating, made, broken>>
      BY <1>2 DEF F!destroy
    <2>2. SizesFit'
      BY <2>1 DEF SizesFit, Waits, Frames
    <2> QED
      BY <1>2, <2>1, <2>2, DictionaryDeletes
  <1>3. ASSUME NEW f \in Impls, F!script_create_additional(f) PROVE FactoriesInv'
    <2>1. F!Frame("size", f, 0) \in Frames /\ F!Frame("size", f, 0).kind = "size"
          /\ ~F!Frame("size", f, 0).allocated
      BY DEF F!Frame, Frames
    <2>2. F!Push(F!Frame("size", f, 0)) /\ UNCHANGED <<m_Factories, names, state, tmp_ent_size, made, broken>>
      BY <1>3 DEF F!script_create_additional
    <2>3. SizesFit'
      BY <2>1, <2>2, PushKeeps
    <2> QED
      BY <2>2, <2>3, DictionaryStays
  <1>4. ASSUME NEW n, F!Create(n) PROVE FactoriesInv'
    <2>1. PICK e \in F!Entries(n) :
            /\ F!Push(F!Frame(IF e.factory \in Natives THEN "native" ELSE "callback", e.factory, 0))
            /\ broken' = IF e.factory \in Impls /\ state[e.factory] # "alive"
                         THEN broken \cup {"Create"} ELSE broken
      BY <1>4 DEF F!Create
    <2>2. UNCHANGED <<m_Factories, names, state, tmp_ent_size, made>>
      BY <1>4 DEF F!Create
    <2>3. e.factory \in Impls \cup Natives /\ (e.factory \in Impls => state[e.factory] = "alive")
      BY DEF DictionaryFits, F!Entries
    <2> DEFINE frame == F!Frame(IF e.factory \in Natives THEN "native" ELSE "callback", e.factory, 0)
    <2>4. frame \in Frames /\ ~frame.allocated /\ frame.kind # "sized"
          /\ (frame.kind \in {"native", "sized"} => frame.factory \in Natives)
      BY <2>3 DEF F!Frame, Frames
    <2>5. F!Push(frame)
      BY <2>1
    <2> HIDE DEF frame
    <2>6. SizesFit'
      BY <2>2, <2>4, <2>5, PushKeeps
    <2>7. broken' = broken
      BY <2>1, <2>3
    <2> QED
      BY <2>2, <2>6, <2>7, DictionaryStays
  <1>5. ASSUME NEW t \in Natives, NEW size \in Sizes, F!script_create_sized(t, size)
        PROVE  FactoriesInv'
    <2> DEFINE frame == F!Frame("sized", t, size)
    <2>1. size \in Nat /\ size # 0
      BY <1>5 DEF F!script_create_sized
    <2>2. frame \in Frames /\ ~frame.allocated /\ frame.kind = "sized" /\ frame.factory = t
          /\ frame.asked = size
      BY <2>1 DEF F!Frame, Frames
    <2>3. F!Push(frame) /\ tmp_ent_size' = size /\ UNCHANGED <<m_Factories, names, state, made, broken>>
      BY <1>5 DEF F!script_create_sized
    <2> HIDE DEF frame
    <2>4. SizesFit'
      BY <2>1, <2>2, <2>3, PushKeeps
    <2> QED
      BY <2>3, <2>4, DictionaryStays
  <1>6. CASE F!size_returns
    <2>1. UNCHANGED <<m_Factories, names, state>> /\ broken' \subseteq broken \cup {"size_callback"}
      BY <1>6 DEF F!size_returns
    <2> QED
      BY <1>6, <2>1, SizeReturns, DictionaryStays
  <1>7. CASE F!PvAllocEntPrivateData
    <2>1. UNCHANGED <<m_Factories, names, state, broken>>
      BY <1>7 DEF F!PvAllocEntPrivateData
    <2> QED
      BY <1>7, <2>1, AllocKeeps, DictionaryStays
  <1>8. CASE F!create_returns
    <2>1. UNCHANGED <<m_Factories, names, state, broken>>
      BY <1>8 DEF F!create_returns
    <2> QED
      BY <1>8, <2>1, CreateReturns, DictionaryStays
  <1> QED
    <2>1. ASSUME NEW f \in Impls, NEW registers \in BOOLEAN,
                 NEW taken \in {<<n>> : n \in FreeNames} \cup {<<n, m>> : n, m \in FreeNames},
                 F!script_create_factory(f, taken, registers)
          PROVE  FactoriesInv'
      <3>1. taken \in NameLists
        BY DEF NameLists
      <3> HIDE DEF FactoriesInv
      <3> QED
        BY <1>1, <2>1, <3>1
    <2> HIDE DEF FactoriesInv
    <2> QED
      BY <1>2, <1>3, <1>4, <1>5, <1>6, <1>7, <1>8, <2>1 DEF F!FNext

\* The game never finds a deleted factory, and the size that a script asks for goes to its own
\* entity, with the exceptions of Factories: for any number of factories, names, sizes and nested
\* creations.
THEOREM FactoriesSafe == MCSpec => []FactoriesHold
  <1>1. MCInit => FactoriesInv
    <2> SUFFICES ASSUME MCInit PROVE FactoriesInv
      OBVIOUS
    <2>1. F!FInit
      BY DEF MCInit
    <2>2. state = [f \in Impls |-> "none"] /\ DOMAIN names = Impls
          /\ \A e \in m_Factories : e.factory \in Natives
      BY <2>1 DEF F!FInit
    <2>3. DictionaryFits
      BY <2>2, FactoriesAssumption DEF DictionaryFits
    <2>4. creating = <<>> /\ tmp_ent_size = 0 /\ made.got = made.asked /\ broken = {}
      BY <2>1 DEF F!FInit, F!NoEntity
    <2>5. SizesFit
      BY <2>4 DEF SizesFit
    <2> QED
      BY <2>3, <2>4, <2>5 DEF FactoriesInv
  <1>2. FactoriesInv /\ [MCNext]_<<part, pvars, valuevars, consolevars, factoryvars, tablevars,
                                   proxyvars, typevars, gamevars>> => FactoriesInv'
    <2>1. FactoriesInv /\ UNCHANGED factoryvars => FactoriesInv'
      BY DEF factoryvars, FactoriesInv, DictionaryFits, F!Entries, NameLists, SizesFit, Waits, Frames
    <2> QED
      BY <2>1, FactoriesKeep DEF MCNext
  <1>3. FactoriesInv => FactoriesHold
    <2> SUFFICES ASSUME FactoriesInv PROVE FactoriesHold
      OBVIOUS
    <2>1. F!FactoriesLive
      BY DEF FactoriesInv, DictionaryFits, F!FactoriesLive
    <2>2. F!SizeGoesToItsEntity
      <3>1. DOMAIN creating = 1 .. Len(creating)
        BY DEF FactoriesInv, SizesFit
      <3> QED
        BY <3>1 DEF FactoriesInv, SizesFit, Waits, F!SizeGoesToItsEntity
    <2> QED
      BY <2>1, <2>2 DEF FactoriesHold
  <1> QED
    BY <1>1, <1>2, <1>3, PTL DEF MCSpec

-----------------------------------------------------------------------------
(* What the game gives to its scripts. *)

\* The instance registered last is one of its class until it is freed; a value is documented with
\* the class that it had, is borrowed only when it was set as a variant, and freed only when it is
\* borrowed; and the machine's own entry is there once it is built.
NotesFit ==
  /\ vm \in {"none", "ours", "initialised"} /\ built \in BOOLEAN
  /\ DOMAIN heap = Objects
  /\ lri = [instance |-> lri.instance, desc |-> lri.desc, freed |-> lri.freed] /\ lri.freed \in BOOLEAN
  /\ lri.instance # "none" => lri.instance \in Objects /\ lri.desc \in Descs
  /\ lri.instance # "none" /\ ~lri.freed => heap[lri.instance] = lri.desc
  /\ DOMAIN docs = G!Lists
  /\ \A l \in G!Lists :
       /\ docs[l] = [functions |-> docs[l].functions, classes |-> docs[l].classes, values |-> docs[l].values]
       /\ docs[l].functions["developer"] = IF l = "internal" /\ built THEN 1 ELSE 0
       /\ "developer" \in DOMAIN docs[l].functions
       /\ docs[l].classes \subseteq Descs /\ G!Closed(docs[l].classes)

\* Of a value: the class that it had, unless it was registered after its class was freed; an
\* object is given as a variant.
ValueFits(v) ==
  /\ v.is = "desc" => v.desc = v.really \/ v.late
  /\ v.is \in {"object", "pointer"} => v.by = "var"
  /\ v.freed => v.is \in {"object", "pointer"}
  /\ v = [by |-> v.by, is |-> v.is, of |-> v.of, desc |-> v.desc, freed |-> v.freed, really |-> v.really, late |-> v.late]

ValuesFit == \A l \in G!Lists : \A n \in DOMAIN docs[l].values : ValueFits(docs[l].values[n])

OutputFits == \A w \in output : /\ w[1] \in G!Lists /\ w[2] \in DOMAIN docs[w[1]].values
                                /\ docs[w[1]].values[w[2]].by = "var"

\* The invariant of what the game registers.
NotesInv == NotesFit /\ ValuesFit /\ OutputFits

\* A class with its bases is closed if what it joins was.
LEMMA BasesClosed ==
  ASSUME NEW classes \in SUBSET Descs, G!Closed(classes), NEW d \in Descs
  PROVE  G!WithBases(classes, d) \subseteq Descs /\ G!Closed(G!WithBases(classes, d))
  <1> DEFINE bases == {c \in Descs : \A reached \in SUBSET Descs : d \in reached /\ G!Closed(reached) => c \in reached}
  <1>1. G!WithBases(classes, d) = classes \cup bases
    BY DEF G!WithBases
  <1>2. \A c \in Descs : MCBaseDesc[c] # G!NoDesc => MCBaseDesc[c] \in Descs
    BY GameAssumption DEF MCBaseDesc, G!NoDesc
  <1>3. ASSUME NEW c \in bases, MCBaseDesc[c] # G!NoDesc PROVE MCBaseDesc[c] \in bases
    <2>1. MCBaseDesc[c] \in Descs
      BY <1>2, <1>3
    <2>2. ASSUME NEW reached \in SUBSET Descs, d \in reached, G!Closed(reached)
          PROVE  MCBaseDesc[c] \in reached
      <3>1. c \in reached
        BY <2>2
      <3> QED
        BY <1>3, <2>2, <3>1 DEF G!Closed
    <2> QED
      BY <2>1, <2>2
  <1> HIDE DEF bases
  <1>4. bases \subseteq Descs
    BY DEF bases
  <1>5. G!Closed(classes \cup bases)
    BY <1>3 DEF G!Closed
  <1> QED
    BY <1>1, <1>4, <1>5

\* A call of the game notes something in one list or in none.
LEMMA FunctionKeeps ==
  ASSUME NotesInv, NEW f \in Functions, G!RegisterFunction(f)
  PROVE  NotesInv'
  <1>1. UNCHANGED <<vm, heap, lri, built, output>> /\ f # "developer"
    BY GameAssumption DEF G!RegisterFunction
  <1>2. DOMAIN docs' = G!Lists
        /\ \A l \in G!Lists : docs'[l] \in {docs[l], [docs[l] EXCEPT !.functions[f] = @ + 1]}
    BY DEF G!RegisterFunction, G!Note
  <1>3. ASSUME NEW l \in G!Lists
        PROVE  /\ docs'[l].values = docs[l].values /\ docs'[l].classes = docs[l].classes
               /\ docs'[l].functions["developer"] = docs[l].functions["developer"]
               /\ DOMAIN docs'[l].functions = DOMAIN docs[l].functions
               /\ docs'[l] = [functions |-> docs'[l].functions, classes |-> docs'[l].classes,
                              values |-> docs'[l].values]
    <2>1. PICK fs, cs, vs : docs[l] = [functions |-> fs, classes |-> cs, values |-> vs]
                            /\ "developer" \in DOMAIN fs
      BY DEF NotesInv, NotesFit
    <2>2. [docs[l] EXCEPT !.functions[f] = @ + 1]
          = [functions |-> [fs EXCEPT ![f] = @ + 1], classes |-> cs, values |-> vs]
      BY <2>1
    <2>3. [fs EXCEPT ![f] = @ + 1]["developer"] = fs["developer"]
          /\ DOMAIN [fs EXCEPT ![f] = @ + 1] = DOMAIN fs
      BY <1>1, <2>1
    <2> QED
      BY <1>2, <2>1, <2>2, <2>3
  <1> QED
    BY <1>1, <1>2, <1>3 DEF NotesInv, NotesFit, ValuesFit, OutputFits, G!Closed

\* What notes a class, with or without an instance.
LEMMA ClassKeeps ==
  ASSUME NotesFit, NEW d \in Descs, G!Note(LAMBDA l : [l EXCEPT !.classes = G!WithBases(@, d)])
  PROVE  /\ DOMAIN docs' = G!Lists
         /\ \A l \in G!Lists :
              /\ docs'[l].values = docs[l].values /\ docs'[l].functions = docs[l].functions
              /\ docs'[l].classes \subseteq Descs /\ G!Closed(docs'[l].classes)
              /\ docs'[l] = [functions |-> docs'[l].functions, classes |-> docs'[l].classes,
                             values |-> docs'[l].values]
  <1>2. DOMAIN docs' = G!Lists
        /\ \A l \in G!Lists : docs'[l] \in {docs[l], [docs[l] EXCEPT !.classes = G!WithBases(@, d)]}
    BY DEF G!Note
  <1>3. ASSUME NEW l \in G!Lists
        PROVE  /\ docs'[l].values = docs[l].values /\ docs'[l].functions = docs[l].functions
               /\ docs'[l].classes \subseteq Descs /\ G!Closed(docs'[l].classes)
               /\ docs'[l] = [functions |-> docs'[l].functions, classes |-> docs'[l].classes,
                              values |-> docs'[l].values]
    <2>1. PICK fs, cs, vs : docs[l] = [functions |-> fs, classes |-> cs, values |-> vs]
      BY DEF NotesFit
    <2>2. cs \subseteq Descs /\ G!Closed(cs)
      BY <2>1 DEF NotesFit
    <2>3. PICK more : more = G!WithBases(cs, d)
      OBVIOUS
    <2>4. more \subseteq Descs /\ G!Closed(more)
      BY <2>2, <2>3, BasesClosed
    <2>5. [docs[l] EXCEPT !.classes = G!WithBases(@, d)] = [functions |-> fs, classes |-> more, values |-> vs]
      BY <2>1, <2>3
    <2> QED
      BY <1>2, <2>1, <2>2, <2>4, <2>5
  <1> QED
    BY <1>2, <1>3

\* A class without an instance.
LEMMA RegisterClassKeeps ==
  ASSUME NotesInv, NEW d \in Descs, G!RegisterClass(d)
  PROVE  NotesInv'
  <1>1. UNCHANGED <<vm, heap, lri, built, output>>
        /\ G!Note(LAMBDA l : [l EXCEPT !.classes = G!WithBases(@, d)])
    BY DEF G!RegisterClass
  <1>2. NotesFit
    BY DEF NotesInv
  <1>3. /\ DOMAIN docs' = G!Lists
        /\ \A l \in G!Lists :
              /\ docs'[l].values = docs[l].values /\ docs'[l].functions = docs[l].functions
              /\ docs'[l].classes \subseteq Descs /\ G!Closed(docs'[l].classes)
              /\ docs'[l] = [functions |-> docs'[l].functions, classes |-> docs'[l].classes,
                             values |-> docs'[l].values]
    BY <1>1, <1>2, ClassKeeps
  <1> QED
    BY <1>1, <1>3 DEF NotesInv, NotesFit, ValuesFit, OutputFits, G!Closed

\* An instance has a handle that nothing else had.
LEMMA InstanceKeeps ==
  ASSUME NotesInv, NEW d \in Descs, NEW o \in Objects, G!RegisterInstance(d, o)
  PROVE  NotesInv'
  <1>1. /\ heap' = [heap EXCEPT ![o] = d] /\ lri' = [instance |-> o, desc |-> d, freed |-> FALSE]
        /\ G!Note(LAMBDA l : [l EXCEPT !.classes = G!WithBases(@, d)])
        /\ UNCHANGED <<vm, built, output>>
    BY DEF G!RegisterInstance
  <1>2. NotesFit
    BY DEF NotesInv
  <1>3. /\ DOMAIN docs' = G!Lists
        /\ \A l \in G!Lists :
              /\ docs'[l].values = docs[l].values /\ docs'[l].functions = docs[l].functions
              /\ docs'[l].classes \subseteq Descs /\ G!Closed(docs'[l].classes)
              /\ docs'[l] = [functions |-> docs'[l].functions, classes |-> docs'[l].classes,
                             values |-> docs'[l].values]
    BY <1>1, <1>2, ClassKeeps
  <1>4. DOMAIN heap' = Objects /\ heap'[o] = d
    BY <1>1 DEF NotesInv, NotesFit
  <1> QED
    BY <1>1, <1>3, <1>4 DEF NotesInv, NotesFit, ValuesFit, OutputFits, G!Closed

\* Another object is none that the instance registered last has the handle of, unless that was
\* freed.
LEMMA MakeKeeps ==
  ASSUME NotesInv, NEW o \in Objects, NEW kind, G!Make(kind, o)
  PROVE  NotesInv'
  <1>1. /\ heap[o] = "free" /\ heap' = [heap EXCEPT ![o] = kind]
        /\ UNCHANGED <<vm, docs, lri, built, output>>
    BY DEF G!Make, G!Free
  <1>2. DOMAIN heap' = Objects /\ \A p \in Objects : p # o => heap'[p] = heap[p]
    BY <1>1 DEF NotesInv, NotesFit
  <1>3. lri.instance # "none" /\ ~lri.freed => lri.instance # o
    BY <1>1, GameAssumption DEF NotesInv, NotesFit
  <1> QED
    BY <1>1, <1>2, <1>3 DEF NotesInv, NotesFit, ValuesFit, OutputFits, G!Closed, ValueFits

\* Freeing marks what borrows from the object.
LEMMA ReleasedKeeps ==
  ASSUME NotesInv, NEW o \in Objects, G!Released(o)
  PROVE  NotesInv'
  <1>1. /\ heap' = [heap EXCEPT ![o] = "free"] /\ lri' = [lri EXCEPT !.freed = @ \/ lri.instance = o]
        /\ UNCHANGED <<vm, built, output>>
    BY DEF G!Released, G!Free
  <1> DEFINE Marked(vs) == [n \in DOMAIN vs |-> IF G!Borrowed(vs[n]) /\ vs[n].of = o
                                               THEN [vs[n] EXCEPT !.freed = TRUE] ELSE vs[n]]
  <1>2. DOMAIN docs' = G!Lists /\ \A l \in G!Lists : docs'[l] = [docs[l] EXCEPT !.values = Marked(@)]
    BY DEF G!Released
  <1>3. ASSUME NEW vs, NEW n \in DOMAIN vs, ValueFits(vs[n])
        PROVE  n \in DOMAIN Marked(vs) /\ ValueFits(Marked(vs)[n]) /\ Marked(vs)[n].by = vs[n].by
    <2>1. PICK v : v = vs[n]
      OBVIOUS
    <2>2. v = [by |-> v.by, is |-> v.is, of |-> v.of, desc |-> v.desc, freed |-> v.freed,
               really |-> v.really, late |-> v.late]
          /\ ValueFits(v)
      BY <1>3, <2>1 DEF ValueFits
    <2>3. Marked(vs)[n] = IF G!Borrowed(v) /\ v.of = o THEN [v EXCEPT !.freed = TRUE] ELSE v
      BY <2>1
    <2> HIDE DEF Marked
    <2>4. PICK w : w = [v EXCEPT !.freed = TRUE]
      OBVIOUS
    <2>5. w = [by |-> v.by, is |-> v.is, of |-> v.of, desc |-> v.desc, freed |-> TRUE,
               really |-> v.really, late |-> v.late]
      BY <2>2, <2>4
    <2>6. w.by = v.by /\ w.is = v.is /\ w.of = v.of /\ w.desc = v.desc /\ w.freed = TRUE
          /\ w.really = v.really /\ w.late = v.late
      BY <2>5
    <2>7. G!Borrowed(v) => ValueFits(w)
      BY <2>2, <2>5, <2>6 DEF G!Borrowed, ValueFits
    <2>8. n \in DOMAIN Marked(vs)
      BY DEF Marked
    <2> QED
      BY <2>1, <2>2, <2>3, <2>4, <2>6, <2>7, <2>8
  <1>4. \A vs : DOMAIN Marked(vs) = DOMAIN vs
    OBVIOUS
  <1> HIDE DEF Marked
  <1>5. ASSUME NEW l \in G!Lists
        PROVE  /\ docs'[l].classes = docs[l].classes /\ docs'[l].functions = docs[l].functions
               /\ docs'[l].values = Marked(docs[l].values)
               /\ docs'[l] = [functions |-> docs'[l].functions, classes |-> docs'[l].classes,
                              values |-> docs'[l].values]
    <2>1. PICK fs, cs, vs : docs[l] = [functions |-> fs, classes |-> cs, values |-> vs]
      BY DEF NotesInv, NotesFit
    <2>2. docs'[l] = [functions |-> fs, classes |-> cs, values |-> Marked(vs)]
      BY <1>2, <2>1
    <2> QED
      BY <2>1, <2>2
  <1>6. ASSUME NEW l \in G!Lists, NEW n \in DOMAIN docs[l].values
        PROVE  /\ n \in DOMAIN docs'[l].values /\ ValueFits(docs'[l].values[n])
               /\ docs'[l].values[n].by = docs[l].values[n].by
    <2>1. PICK vs : vs = docs[l].values
      OBVIOUS
    <2>2. docs'[l].values = Marked(vs)
      BY <1>5, <2>1
    <2>3. ValueFits(vs[n]) /\ n \in DOMAIN vs
      BY <2>1 DEF NotesInv, ValuesFit
    <2> QED
      BY <1>3, <2>1, <2>2, <2>3
  <1>7. \A l \in G!Lists : DOMAIN docs'[l].values = DOMAIN docs[l].values
    BY <1>4, <1>5
  <1>8. ValuesFit'
    BY <1>6, <1>7 DEF ValuesFit
  <1>9. OutputFits'
    BY <1>1, <1>6 DEF NotesInv, OutputFits
  <1>10. NotesFit'
    <2>1. DOMAIN heap' = Objects /\ \A p \in Objects : p # o => heap'[p] = heap[p]
      BY <1>1 DEF NotesInv, NotesFit
    <2>2. lri'.instance = lri.instance /\ lri'.desc = lri.desc
          /\ (lri'.freed <=> lri.freed \/ lri.instance = o)
      BY <1>1 DEF NotesInv, NotesFit
    <2> QED
      BY <1>1, <1>2, <1>5, <2>1, <2>2 DEF NotesInv, NotesFit, G!Closed
  <1> QED
    BY <1>8, <1>9, <1>10 DEF NotesInv

\* A value is noted under a name that had none.
LEMMA ValueKeeps ==
  ASSUME NotesInv, NEW n, NEW value, ValueFits(value),
         G!Note(LAMBDA l : [l EXCEPT !.values = G!Emplaced(@, n, value)]),
         UNCHANGED <<vm, heap, lri, built, output>>
  PROVE  NotesInv'
  <1>1. DOMAIN docs' = G!Lists
        /\ \A l \in G!Lists : docs'[l] \in {docs[l], [docs[l] EXCEPT !.values = G!Emplaced(@, n, value)]}
    BY DEF G!Note
  <1>2. ASSUME NEW vs
        PROVE  /\ DOMAIN G!Emplaced(vs, n, value) = DOMAIN vs \cup {n}
               /\ \A m \in DOMAIN vs : G!Emplaced(vs, n, value)[m] = vs[m]
               /\ n \notin DOMAIN vs => G!Emplaced(vs, n, value)[n] = value
    BY DEF G!Emplaced
  <1>3. ASSUME NEW l \in G!Lists
        PROVE  /\ docs'[l].classes = docs[l].classes /\ docs'[l].functions = docs[l].functions
               /\ docs'[l].values \in {docs[l].values, G!Emplaced(docs[l].values, n, value)}
               /\ docs'[l] = [functions |-> docs'[l].functions, classes |-> docs'[l].classes,
                              values |-> docs'[l].values]
    <2>1. PICK fs, cs, vs : docs[l] = [functions |-> fs, classes |-> cs, values |-> vs]
      BY DEF NotesInv, NotesFit
    <2>2. docs'[l] \in {docs[l], [functions |-> fs, classes |-> cs, values |-> G!Emplaced(vs, n, value)]}
      BY <1>1, <2>1
    <2> QED
      BY <2>1, <2>2
  <1>4. ASSUME NEW l \in G!Lists, NEW m \in DOMAIN docs'[l].values
        PROVE  ValueFits(docs'[l].values[m])
    <2>1. PICK vs : vs = docs[l].values
      OBVIOUS
    <2>2. \A k \in DOMAIN vs : ValueFits(vs[k])
      BY <2>1 DEF NotesInv, ValuesFit
    <2>3. docs'[l].values = vs \/ docs'[l].values = G!Emplaced(vs, n, value)
      BY <1>3, <2>1
    <2>4. CASE docs'[l].values = vs
      BY <1>4, <2>2, <2>4
    <2>5. CASE docs'[l].values = G!Emplaced(vs, n, value)
      <3>1. m \in DOMAIN vs \/ (m = n /\ n \notin DOMAIN vs)
        <4>1. m \in DOMAIN G!Emplaced(vs, n, value)
          BY <2>5
        <4>2. DOMAIN G!Emplaced(vs, n, value) = DOMAIN vs \cup {n}
          BY <1>2
        <4>3. m \in DOMAIN vs \cup {n}
          BY <4>1, <4>2
        <4> QED
          BY <4>3
      <3> QED
        BY <1>2, <2>2, <2>5, <3>1
    <2> QED
      BY <2>3, <2>4, <2>5
  <1>5. ASSUME NEW l \in G!Lists, NEW m \in DOMAIN docs[l].values
        PROVE  m \in DOMAIN docs'[l].values /\ docs'[l].values[m] = docs[l].values[m]
    <2>1. PICK vs : vs = docs[l].values
      OBVIOUS
    <2>2. m \in DOMAIN G!Emplaced(vs, n, value) /\ G!Emplaced(vs, n, value)[m] = vs[m]
      BY <1>2, <2>1
    <2> QED
      BY <1>3, <2>1, <2>2
  <1> QED
    BY <1>1, <1>3, <1>4, <1>5 DEF NotesInv, NotesFit, ValuesFit, OutputFits, G!Closed

\* What is noted of a value.
LEMMA ValuesFitAll ==
  ASSUME NotesInv, NEW o \in Objects
  PROVE  ValueFits(G!TextValue(o)) /\ ValueFits(G!VariantValue(o))
  <1>1. ASSUME NEW by, NEW is, NEW desc, is = "desc" => desc = heap[o] \/ lri.freed,
               is \in {"object", "pointer"} => by = "var"
        PROVE  ValueFits(G!Value(by, is, o, desc))
    BY <1>1 DEF G!Value, ValueFits
  <1>2. ValueFits(G!TextValue(o))
    BY <1>1 DEF G!TextValue
  <1>3. lri.instance = o => lri.desc = heap[o] \/ lri.freed
    BY GameAssumption DEF NotesInv, NotesFit
  <1>4. ValueFits(G!Value("var", "desc", o, lri.desc)) \/ lri.instance # o
    BY <1>1, <1>3
  <1>5. ValueFits(G!Value("var", "pointer", o, G!NoDesc)) /\ ValueFits(G!Value("var", "object", o, G!NoDesc))
    BY <1>1
  <1> QED
    BY <1>2, <1>4, <1>5 DEF G!VariantValue

\* The documentation is written of what was noted.
LEMMA GenKeeps ==
  ASSUME NotesInv, G!vmod_gen_docs
  PROVE  NotesInv'
  <1>1. /\ UNCHANGED <<vm, heap, lri>> /\ built' = TRUE
        /\ output' = UNION {{<<l, n>> : n \in {m \in DOMAIN docs[l].values : docs[l].values[m].freed}} : l \in G!Lists}
    BY DEF G!vmod_gen_docs
  <1>2. docs' = IF built THEN docs ELSE [docs EXCEPT !["internal"].functions["developer"] = @ + 1]
    BY DEF G!vmod_gen_docs, G!build_internal_docs
  <1>3. ASSUME NEW l \in G!Lists
        PROVE  /\ docs'[l].values = docs[l].values /\ docs'[l].classes = docs[l].classes
               /\ docs'[l].functions["developer"] = IF l = "internal" THEN 1 ELSE 0
               /\ "developer" \in DOMAIN docs'[l].functions
               /\ docs'[l] = [functions |-> docs'[l].functions, classes |-> docs'[l].classes,
                              values |-> docs'[l].values]
    <2>1. PICK fs, cs, vs : docs[l] = [functions |-> fs, classes |-> cs, values |-> vs]
                            /\ "developer" \in DOMAIN fs
      BY DEF NotesInv, NotesFit
    <2>2. fs["developer"] = IF l = "internal" /\ built THEN 1 ELSE 0
      BY <2>1 DEF NotesInv, NotesFit
    <2>3. CASE built \/ l # "internal"
      <3>1. docs'[l] = docs[l]
        BY <1>2, <2>3 DEF NotesInv, NotesFit
      <3> QED
        BY <2>1, <2>2, <2>3, <3>1
    <2>4. CASE ~built /\ l = "internal"
      <3>1. docs'[l] = [docs[l] EXCEPT !.functions["developer"] = @ + 1]
        BY <1>2, <2>4 DEF NotesInv, NotesFit
      <3>2. docs'[l] = [functions |-> [fs EXCEPT !["developer"] = @ + 1], classes |-> cs, values |-> vs]
        BY <2>1, <3>1
      <3>3. [fs EXCEPT !["developer"] = @ + 1]["developer"] = 1
            /\ DOMAIN [fs EXCEPT !["developer"] = @ + 1] = DOMAIN fs
        BY <2>1, <2>2, <2>4
      <3> QED
        BY <2>1, <2>4, <3>2, <3>3
    <2> QED
      BY <2>3, <2>4
  <1>4. DOMAIN docs' = G!Lists
    BY <1>2 DEF NotesInv, NotesFit
  <1>5. \A w \in output' : w[1] \in G!Lists /\ w[2] \in DOMAIN docs[w[1]].values
                           /\ docs[w[1]].values[w[2]].freed
    BY <1>1
  <1>6. \A l \in G!Lists : \A n \in DOMAIN docs[l].values :
           docs[l].values[n].freed => docs[l].values[n].by = "var"
    BY DEF NotesInv, ValuesFit, ValueFits
  <1>7. OutputFits'
    <2>1. ASSUME NEW w \in output'
          PROVE  w[1] \in G!Lists /\ w[2] \in DOMAIN docs'[w[1]].values
                 /\ docs'[w[1]].values[w[2]].by = "var"
      <3>1. w[1] \in G!Lists /\ w[2] \in DOMAIN docs[w[1]].values /\ docs[w[1]].values[w[2]].freed
        BY <1>5
      <3>2. docs'[w[1]].values = docs[w[1]].values
        BY <1>3, <3>1
      <3> QED
        BY <1>6, <3>1, <3>2
    <2> QED
      BY <2>1 DEF OutputFits
  <1> QED
    BY <1>1, <1>3, <1>4, <1>7 DEF NotesInv, NotesFit, ValuesFit, G!Closed

\* Every step that the game's scripts are part of.
LEMMA NotesKeep ==
  ASSUME NotesInv, G!GNext
  PROVE  NotesInv'
  <1>1. ASSUME NEW o \in Objects, NEW n \in Globals, G!SetValue_str(n, o) PROVE NotesInv'
    BY <1>1, ValueKeeps, ValuesFitAll DEF G!SetValue_str
  <1>2. ASSUME NEW o \in Objects, NEW n \in Globals, G!SetValue_var(n, o) PROVE NotesInv'
    <2>1. /\ G!Note(LAMBDA l : [l EXCEPT !.values = G!Emplaced(@, n, G!VariantValue(o))])
          /\ UNCHANGED <<vm, heap, lri, built, output>>
      BY <1>2 DEF G!SetValue_var
    <2>2. ValueFits(G!VariantValue(o))
      BY ValuesFitAll
    <2> QED
      BY <2>1, <2>2, ValueKeeps
  <1>3. CASE G!Loaded
    BY <1>3 DEF G!Loaded, NotesInv, NotesFit, ValuesFit, OutputFits, ValueFits, G!Closed
  <1> QED
    BY <1>1, <1>2, <1>3, FunctionKeeps, RegisterClassKeeps, InstanceKeeps, MakeKeeps, ReleasedKeeps,
       GenKeeps DEF G!GNext

\* The documentation tells what the game made, with the exceptions of GameBindings: for any classes,
\* functions, global values and objects, and any number of calls that are noted.
THEOREM Docs == MCSpec => []DocsTellTheTruth
  <1>1. MCInit => NotesInv
    <2> SUFFICES ASSUME MCInit PROVE NotesInv
      OBVIOUS
    <2>1. G!GInit
      BY DEF MCInit
    <2>2. /\ vm = "none" /\ built = FALSE /\ heap = [o \in Objects |-> G!Free] /\ output = {}
          /\ lri = [instance |-> "none", desc |-> G!NoDesc, freed |-> FALSE] /\ DOMAIN docs = G!Lists /\ \A l \in G!Lists : docs[l] = G!Empty
      BY <2>1 DEF G!GInit
    <2>3. /\ G!Empty.functions["developer"] = 0 /\ "developer" \in DOMAIN G!Empty.functions
          /\ G!Empty.classes = {} /\ DOMAIN G!Empty.values = {}
          /\ G!Empty = [functions |-> G!Empty.functions, classes |-> G!Empty.classes, values |-> G!Empty.values]
      BY DEF G!Empty
    <2> QED
      BY <2>2, <2>3 DEF NotesInv, NotesFit, ValuesFit, OutputFits, G!Closed
  <1>2. NotesInv /\ [MCNext]_<<part, pvars, valuevars, consolevars, factoryvars, tablevars,
                               proxyvars, typevars, gamevars>> => NotesInv'
    <2>1. NotesInv /\ UNCHANGED gamevars => NotesInv'
      BY DEF gamevars, NotesInv, NotesFit, ValuesFit, OutputFits, ValueFits, G!Closed
    <2> QED
      BY <2>1, NotesKeep DEF MCNext
  <1>3. NotesInv => DocsTellTheTruth
    <2> SUFFICES ASSUME NotesInv PROVE DocsTellTheTruth
      OBVIOUS
    <2>1. \A l \in G!Lists : G!Closed(docs[l].classes) /\ docs[l].functions["developer"] <= 1
      BY DEF NotesInv, NotesFit
    <2>2. \A l \in G!Lists : \A n \in DOMAIN docs[l].values :
            docs[l].values[n].is = "desc"
            => docs[l].values[n].desc = docs[l].values[n].really \/ docs[l].values[n].late
      BY DEF NotesInv, ValuesFit, ValueFits
    <2>3. \A w \in output : docs[w[1]].values[w[2]].by = "var"
      BY DEF NotesInv, OutputFits
    <2> QED
      BY Zenon, <2>1, <2>2, <2>3 DEF DocsTellTheTruth, G!DocsTellTheTruth
  <1> QED
    BY <1>1, <1>2, <1>3, PTL DEF MCSpec

-----------------------------------------------------------------------------
(* Console variables and commands. *)

\* What is registered is a variable or a command, what was taken away was the engine's, and
\* commands are running, the innermost of which has its arguments unless another ran in between.
Calls == [cmd : Ours \cup Theirs, call : Nat, nested : BOOLEAN]
ConsoleFits ==
  /\ DOMAIN base = Ours \cup Theirs
  /\ \A o \in Ours \cup Theirs : base[o] = [is |-> base[o].is, name |-> base[o].name]
  /\ registered \subseteq Ours \cup Theirs /\ stale \subseteq Theirs
  /\ \A o \in registered : base[o].is \in {"var", "cmd"}
  /\ \A m \in DOMAIN convars : convars[m] \in Ours \cup Theirs
  /\ dispatched \in Seq(Calls) /\ calls \in Nat
  /\ dispatched # <<>> /\ ~dispatched[Len(dispatched)].nested =>
       argv_buffer = dispatched[Len(dispatched)].call

\* The invariant of the console.
ConsoleInv == ConsoleFits /\ C!FoundIsRegistered /\ C!ArgumentsStay

\* A variable or command is made under a name that no other has.
LEMMA CreateKeeps ==
  ASSUME ConsoleInv, NEW o \in Ours, NEW kind \in {"var", "cmd"}, NEW n \in Names,
         NEW registers \in BOOLEAN, C!script_create(o, kind, n, registers)
  PROVE  ConsoleInv'
  <1>1. UNCHANGED <<convars, concommands, argv_buffer, dispatched, calls, stale, mixed>>
        /\ base[o] = C!NoBase /\ C!Free(n)
    BY DEF C!script_create
  <1>2. CASE ~registers
    BY <1>1, <1>2 DEF C!script_create, ConsoleInv, ConsoleFits, C!FoundIsRegistered, C!ArgumentsStay, Calls
  <1>3. CASE registers
    <2>1. base' = [base EXCEPT ![o] = [is |-> kind, name |-> n]] /\ registered' = registered \cup {o}
      BY <1>3 DEF C!script_create
    <2>2. DOMAIN base' = Ours \cup Theirs /\ base'[o] = [is |-> kind, name |-> n]
          /\ \A p \in Ours \cup Theirs : p # o => base'[p] = base[p]
      BY <2>1 DEF ConsoleInv, ConsoleFits
    <2>3. ConsoleFits'
      BY <1>1, <2>1, <2>2 DEF ConsoleInv, ConsoleFits, Calls
    <2>4. o \notin registered /\ o \notin stale /\ base[o].is = "none"
      BY <1>1, ConsoleAssumption DEF ConsoleInv, ConsoleFits, C!NoBase
    <2>5. \A m \in DOMAIN convars : convars[m] # o
      BY <2>4 DEF ConsoleInv, C!FoundIsRegistered
    <2>6. \A p \in registered : MCSame[base[p].name] # MCSame[n]
      BY <1>1 DEF C!Free, C!Find
    <2>7. ASSUME NEW m \in DOMAIN convars'
          PROVE  \/ convars'[m] \in registered' /\ base'[convars'[m]].is = "var"
                    /\ MCSame[base'[convars'[m]].name] = MCSame[m]
                 \/ convars'[m] \in stale'
                 \/ (base'[convars'[m]].is = "deleted" /\ base'[convars'[m]].name # m)
      BY <1>1, <2>1, <2>2, <2>5 DEF ConsoleInv, ConsoleFits, C!FoundIsRegistered
    <2>8. \A p, q \in registered' : p # q => MCSame[base'[p].name] # MCSame[base'[q].name]
      BY <2>1, <2>2, <2>4, <2>6 DEF ConsoleInv, ConsoleFits, C!FoundIsRegistered
    <2> QED
      BY <1>1, <2>3, <2>7, <2>8 DEF ConsoleInv, C!FoundIsRegistered, C!ArgumentsStay
  <1> QED
    BY <1>2, <1>3

\* What is found is registered under the name.
LEMMA FindKeeps ==
  ASSUME ConsoleInv, NEW n \in Names, C!script_find_cvar(n) \/ C!script_find_concmd(n)
  PROVE  ConsoleInv'
  <1>1. UNCHANGED <<base, registered, argv_buffer, dispatched, calls, stale, mixed, down>>
    BY DEF C!script_find_cvar, C!script_find_concmd
  <1>2. CASE C!script_find_concmd(n)
    BY <1>1, <1>2 DEF C!script_find_concmd, ConsoleInv, ConsoleFits, C!FoundIsRegistered, C!ArgumentsStay, Calls
  <1>3. CASE C!script_find_cvar(n)
    <2>1. PICK o \in C!FindOf("var", n) : convars' = C!With(convars, n, o)
      BY <1>3 DEF C!script_find_cvar
    <2>2. o \in registered /\ base[o].is = "var" /\ MCSame[base[o].name] = MCSame[n]
      BY DEF C!FindOf, C!Find
    <2>3. \A m \in DOMAIN convars' : (m = n /\ convars'[m] = o)
                                     \/ (m \in DOMAIN convars /\ convars'[m] = convars[m])
      BY <2>1 DEF C!With
    <2>4. ConsoleFits'
      BY <1>1, <2>2, <2>3 DEF ConsoleInv, ConsoleFits, Calls
    <2> QED
      BY <1>1, <2>2, <2>3, <2>4 DEF ConsoleInv, C!FoundIsRegistered, C!ArgumentsStay
  <1> QED
    BY <1>2, <1>3

\* One that a plugin frees takes with it the wrapper under its own name.
LEMMA DestroyKeeps ==
  ASSUME ConsoleInv, NEW o \in Ours, C!destroy(o)
  PROVE  ConsoleInv'
  <1>1. /\ base[o].is \in {"var", "cmd"}
        /\ convars' = IF base[o].is = "var" THEN C!Erased(convars, o) ELSE convars
        /\ registered' = registered \ {o} /\ base' = [base EXCEPT ![o].is = "deleted"]
        /\ UNCHANGED <<argv_buffer, dispatched, calls, stale, mixed>>
    BY DEF C!destroy
  <1>2. PICK is, name : base[o] = [is |-> is, name |-> name]
    BY DEF ConsoleInv, ConsoleFits
  <1>3. /\ DOMAIN base' = Ours \cup Theirs /\ base'[o] = [is |-> "deleted", name |-> name]
        /\ \A p \in Ours \cup Theirs : p # o => base'[p] = base[p]
    <2>1. base' = [base EXCEPT ![o] = [base[o] EXCEPT !.is = "deleted"]]
      BY <1>1
    <2>2. [base[o] EXCEPT !.is = "deleted"] = [is |-> "deleted", name |-> name]
      BY <1>2
    <2> QED
      BY <2>1, <2>2 DEF ConsoleInv, ConsoleFits
  <1>4. \A m \in DOMAIN convars' : m \in DOMAIN convars /\ convars'[m] = convars[m]
                                   /\ (is = "var" => m # name)
    BY <1>1, <1>2 DEF C!Erased, C!Without
  <1>5. ConsoleFits'
    BY <1>1, <1>3, <1>4 DEF ConsoleInv, ConsoleFits, Calls
  <1>6. ASSUME NEW m \in DOMAIN convars'
        PROVE  \/ convars'[m] \in registered' /\ base'[convars'[m]].is = "var"
                  /\ MCSame[base'[convars'[m]].name] = MCSame[m]
               \/ convars'[m] \in stale'
               \/ (base'[convars'[m]].is = "deleted" /\ base'[convars'[m]].name # m)
    <2>1. CASE convars[m] # o
      BY <1>1, <1>3, <1>4, <2>1 DEF ConsoleInv, ConsoleFits, C!FoundIsRegistered
    <2>2. CASE convars[m] = o
      <3>1. o \notin stale /\ is # "deleted"
        BY <1>1, <1>2, ConsoleAssumption DEF ConsoleInv, ConsoleFits
      <3>2. is = "var"
        BY <1>2, <1>4, <2>2, <3>1 DEF ConsoleInv, C!FoundIsRegistered
      <3> QED
        BY <1>3, <1>4, <2>2, <3>2
    <2> QED
      BY <2>1, <2>2
  <1>7. \A p, q \in registered' : p # q => MCSame[base'[p].name] # MCSame[base'[q].name]
    BY <1>1, <1>3 DEF ConsoleInv, ConsoleFits, C!FoundIsRegistered
  <1> QED
    BY <1>1, <1>5, <1>6, <1>7 DEF ConsoleInv, C!FoundIsRegistered, C!ArgumentsStay

\* A command that a script runs has its arguments in the array.
LEMMA ExecKeeps ==
  ASSUME ConsoleInv, NEW o \in Ours \cup Theirs, C!script_exec(o)
  PROVE  ConsoleInv'
  <1> DEFINE call == [cmd |-> o, call |-> calls + 1, nested |-> FALSE]
  <1>1. /\ calls' = calls + 1 /\ argv_buffer' = calls + 1 /\ dispatched' = Append(dispatched, call)
        /\ UNCHANGED <<base, registered, convars, stale, mixed>>
    BY DEF C!script_exec, C!Buffer
  <1>2. call \in Calls /\ call.call = calls + 1 /\ calls + 1 \in Nat
    BY DEF ConsoleInv, ConsoleFits, Calls
  <1> HIDE DEF call
  <1>3. dispatched' \in Seq(Calls) /\ dispatched' # <<>> /\ dispatched'[Len(dispatched')] = call
    BY <1>1, <1>2 DEF ConsoleInv, ConsoleFits
  <1>4. ConsoleFits'
    BY <1>1, <1>2, <1>3 DEF ConsoleInv, ConsoleFits, Calls
  <1> QED
    BY <1>1, <1>4 DEF ConsoleInv, C!FoundIsRegistered, C!ArgumentsStay

\* A command that another one ran within has had its arguments overwritten.
LEMMA ReturnKeeps ==
  ASSUME ConsoleInv, C!command_returns
  PROVE  ConsoleInv'
  <1> PICK run \in Seq(Calls) : run = dispatched
    BY DEF ConsoleInv, ConsoleFits
  <1>1. /\ run # <<>> /\ dispatched' = [i \in 1 .. Len(run) - 1 |-> [run[i] EXCEPT !.nested = TRUE]]
        /\ UNCHANGED <<base, registered, convars, argv_buffer, calls, stale, mixed>>
    BY DEF C!command_returns
  <1>2. \A i \in 1 .. Len(run) - 1 : run[i] \in Calls
    OBVIOUS
  <1>3. \A c \in Calls : [c EXCEPT !.nested = TRUE] \in Calls /\ [c EXCEPT !.nested = TRUE].nested
    BY DEF Calls
  <1>4. dispatched' \in [1 .. Len(run) - 1 -> Calls] /\ Len(run) - 1 \in Nat
    BY <1>1, <1>2, <1>3
  <1>5. \A i \in 1 .. Len(run) - 1 : dispatched'[i].nested
    BY <1>1, <1>2, <1>3
  <1>6. dispatched' \in Seq(Calls) /\ Len(dispatched') = Len(run) - 1
    BY <1>4
  <1>7. dispatched' # <<>> => Len(dispatched') \in 1 .. Len(run) - 1
    BY <1>6
  <1>8. ConsoleFits'
    BY <1>1, <1>5, <1>6, <1>7 DEF ConsoleInv, ConsoleFits
  <1> QED
    BY <1>1, <1>8 DEF ConsoleInv, C!FoundIsRegistered, C!ArgumentsStay

\* Every step that the console is part of.
LEMMA ConsoleKeeps ==
  ASSUME ConsoleInv, C!CNext
  PROVE  ConsoleInv'
  <1>1. ASSUME NEW t \in Theirs, C!engine_removes(t) PROVE ConsoleInv'
    <2>1. /\ registered' = registered \ {t} /\ stale' = stale \cup {t}
          /\ UNCHANGED <<base, convars, argv_buffer, dispatched, calls, mixed>>
      BY <1>1 DEF C!engine_removes
    <2>2. ConsoleFits'
      BY <2>1 DEF ConsoleInv, ConsoleFits, Calls
    <2> QED
      BY <2>1, <2>2 DEF ConsoleInv, C!FoundIsRegistered, C!ArgumentsStay
  <1>2. CASE C!command_reads
    <2>1. dispatched # <<>> /\ UNCHANGED <<base, registered, convars, argv_buffer, dispatched, calls, stale>>
          /\ mixed' = (mixed \/ (argv_buffer # dispatched[Len(dispatched)].call
                                 /\ ~dispatched[Len(dispatched)].nested))
      BY <1>2 DEF C!command_reads
    <2>2. ~mixed'
      BY <2>1 DEF ConsoleInv, ConsoleFits, C!ArgumentsStay
    <2> QED
      BY <2>1, <2>2 DEF ConsoleInv, ConsoleFits, C!FoundIsRegistered, C!ArgumentsStay, Calls
  <1> QED
    BY <1>1, <1>2, CreateKeeps, FindKeeps, DestroyKeeps, ExecKeeps, ReturnKeeps DEF C!CNext

\* At the start the engine has commands and variables of different names.
LEMMA ConsoleInit == MCInit => ConsoleInv
  <1> SUFFICES ASSUME MCInit PROVE ConsoleInv
    OBVIOUS
  <1>1. C!CInit
    BY DEF MCInit
  <1>2. /\ registered = Theirs /\ convars = <<>> /\ dispatched = <<>> /\ calls = 0 /\ stale = {} /\ mixed = FALSE
        /\ \A t, u \in Theirs : t # u => MCSame[base[t].name] # MCSame[base[u].name]
    BY <1>1 DEF C!CInit
  <1>3. PICK has \in [Theirs -> [is : {"var", "cmd"}, name : Names]] :
          base = [o \in Ours \cup Theirs |-> IF o \in Ours THEN C!NoBase ELSE has[o]]
    BY <1>1 DEF C!CInit
  <1>4. \A t \in Theirs : base[t] = has[t] /\ has[t] \in [is : {"var", "cmd"}, name : Names]
    BY <1>3, ConsoleAssumption
  <1>5. \A o \in Ours : base[o] = C!NoBase
    BY <1>3
  <1>6. \A o \in Ours \cup Theirs : base[o] = [is |-> base[o].is, name |-> base[o].name]
    BY <1>4, <1>5 DEF C!NoBase
  <1>7. ConsoleFits
    <2>1. DOMAIN base = Ours \cup Theirs /\ DOMAIN convars = {}
      BY <1>2, <1>3
    <2>2. \A o \in registered : base[o].is \in {"var", "cmd"}
      BY <1>2, <1>4
    <2>3. dispatched \in Seq(Calls)
      BY <1>2
    <2> QED
      BY <1>2, <1>6, <2>1, <2>2, <2>3 DEF ConsoleFits
  <1> QED
    BY <1>2, <1>7 DEF ConsoleInv, C!FoundIsRegistered, C!ArgumentsStay

-----------------------------------------------------------------------------
(* Values of console variables. *)

\* The integers that a float holds exactly, and those that ints can be set from.
Exact == 2^ExactBits
Inputs == V!Ints \cup {2 * V!IntMin, 2 * V!IntMax}

\* What is known of the powers.
LEMMA PowersAre ==
  /\ Exact \in Nat /\ Exact > 3
  /\ V!IntMin \in Int /\ V!IntMax \in Int /\ V!IntMax > 4 /\ V!IntMin < -5
  /\ V!Ints = V!IntMin .. V!IntMax
  /\ \A n \in Inputs : n \in Int /\ n <= 256 * Exact /\ -n <= 256 * Exact
  <1>1. PICK w \in Nat : w = 2^(WordBits - 1) /\ w > 5 /\ w <= 128 * Exact
    BY ValuesAssumption DEF Exact
  <1>2. Exact \in Nat /\ Exact > 3
    BY ValuesAssumption DEF Exact
  <1> HIDE DEF Exact
  <1>3. V!IntMin = -w /\ V!IntMax = w - 1 /\ V!Ints = (-w) .. (w - 1)
    BY <1>1 DEF V!IntMin, V!IntMax, V!Ints
  <1>4. \A n \in Inputs : n \in (-w) .. (w - 1) \/ n = 2 * (-w) \/ n = 2 * (w - 1)
    BY <1>3 DEF Inputs
  <1> QED
    BY <1>1, <1>2, <1>3, <1>4

\* The floats around an integer that is not too large.
LEMMA UlpIs ==
  ASSUME NEW n \in Int, n <= 256 * Exact, -n <= 256 * Exact
  PROVE  /\ V!Ulp(n) \in V!Ulps
         /\ n <= V!Ulp(n) * Exact /\ -n <= V!Ulp(n) * Exact
         /\ \A v \in V!Ulps : v < V!Ulp(n) => n > v * Exact \/ -n > v * Exact
  <1> DEFINE Holds(u) == V!Abs(n) <= u * Exact
  <1>1. Exact \in Nat
    BY PowersAre
  <1>2. V!Abs(n) \in Int /\ (\A k \in Int : V!Abs(n) <= k <=> n <= k /\ -n <= k)
    BY DEF V!Abs
  <1>3. Holds(256)
    BY <1>1, <1>2
  <1>4. \E u \in V!Ulps : Holds(u) /\ \A v \in V!Ulps : v < u => ~Holds(v)
    <2> HIDE DEF Holds
    <2> QED
      BY <1>3 DEF V!Ulps
  <1>5. \E u \in V!Ulps : V!Abs(n) <= u * 2^ExactBits /\ \A v \in V!Ulps : v < u => V!Abs(n) > v * 2^ExactBits
    BY <1>1, <1>2, <1>4 DEF Exact, V!Ulps
  <1>6. V!Ulp(n) \in V!Ulps /\ V!Abs(n) <= V!Ulp(n) * 2^ExactBits
        /\ \A v \in V!Ulps : v < V!Ulp(n) => V!Abs(n) > v * 2^ExactBits
    BY <1>5 DEF V!Ulp
  <1> QED
    BY <1>1, <1>2, <1>6 DEF Exact, V!Ulps

\* What rounding to a multiple of a distance leaves within as many of them.
LEMMA Rounding ==
  ASSUME NEW e \in Nat, NEW u \in V!Ulps, NEW q \in Int, NEW rest \in Int, 0 <= rest, rest < u,
         q * u + rest <= u * e, -(q * u + rest) <= u * e
  PROVE  /\ q * u \in Int /\ q * u <= u * e /\ -(q * u) <= u * e
         /\ rest # 0 => q * u + u <= u * e /\ -(q * u + u) <= u * e
         /\ q * u + rest >= 0 => q * u >= 0
         /\ q * u + u = (q + 1) * u
  <1>1. CASE u \in {1, 2, 4}
    BY <1>1
  <1>2. CASE u \in {8, 16, 32}
    BY <1>2
  <1>3. CASE u \in {64, 128, 256}
    BY <1>3
  <1> QED
    BY <1>1, <1>2, <1>3 DEF V!Ulps

\* The nearest float is a multiple of the distance, as near to zero as the distance allows.
LEMMA NearestIs ==
  ASSUME NEW n \in Int, n <= 256 * Exact, -n <= 256 * Exact
  PROVE  /\ V!Nearest(n) \in Int
         /\ \E q \in Int : V!Nearest(n) = q * V!Ulp(n)
         /\ V!Nearest(n) <= V!Ulp(n) * Exact /\ -V!Nearest(n) <= V!Ulp(n) * Exact
         /\ n >= 0 => V!Nearest(n) >= 0
         /\ n % V!Ulp(n) = 0 => V!Nearest(n) = n
  <1>1. Exact \in Nat
    BY PowersAre
  <1>2. PICK u \in V!Ulps : u = V!Ulp(n) /\ n <= u * Exact /\ -n <= u * Exact
    BY UlpIs
  <1>3. PICK q \in Int, rest \in Int : n = q * u + rest /\ 0 <= rest /\ rest < u /\ q = n \div u /\ rest = n % u
    BY <1>2 DEF V!Ulps
  <1>4. PICK e \in Nat : e = Exact
    BY <1>1
  <1>5. /\ q * u \in Int /\ q * u <= u * e /\ -(q * u) <= u * e
        /\ rest # 0 => q * u + u <= u * e /\ -(q * u + u) <= u * e
        /\ n >= 0 => q * u >= 0
        /\ q * u + u = (q + 1) * u /\ q + 1 \in Int
    BY <1>2, <1>3, <1>4, Rounding
  <1>6. PICK below \in Int : below = q * u /\ n = below + rest
    BY <1>3, <1>5
  <1>7. PICK r \in Int : r = V!Nearest(n) /\ (r = below \/ (rest # 0 /\ r = below + u))
    <2>1. V!Nearest(n) \in {below, IF below = n THEN n ELSE below + u}
      BY <1>2, <1>3, <1>6 DEF V!Nearest
    <2>2. u \in Int /\ (below = n <=> rest = 0)
      BY <1>6 DEF V!Ulps
    <2> QED
      BY <2>1, <2>2
  <1>8. u \in Int /\ u > 0 /\ u * e \in Int
    BY DEF V!Ulps
  <1>9. r <= u * e /\ -r <= u * e /\ (n >= 0 => r >= 0) /\ (rest = 0 => r = n)
    BY <1>5, <1>6, <1>7, <1>8
  <1>10. \E k \in Int : r = k * u
    BY <1>5, <1>6, <1>7
  <1> QED
    BY <1>2, <1>3, <1>4, <1>7, <1>9, <1>10

\* A float is its own nearest.
LEMMA NearestTwice ==
  ASSUME NEW n \in Int, n <= 256 * Exact, -n <= 256 * Exact
  PROVE  V!Nearest(V!Nearest(n)) = V!Nearest(n)
  <1>1. Exact \in Nat
    BY PowersAre
  <1>2. PICK u \in V!Ulps : u = V!Ulp(n)
    BY UlpIs
  <1>3. PICK r \in Int : r = V!Nearest(n) /\ r <= u * Exact /\ -r <= u * Exact
    BY <1>2, NearestIs
  <1>4. PICK q \in Int : r = q * u
    BY <1>2, <1>3, NearestIs
  <1>5. r <= 256 * Exact /\ -r <= 256 * Exact
    BY <1>1, <1>3 DEF V!Ulps
  <1>6. PICK v \in V!Ulps : v = V!Ulp(r)
    BY <1>5, UlpIs
  <1>7. ~(u < v)
    <2>1. PICK e \in Nat : e = Exact
      BY <1>1
    <2>2. u < v => r > u * e \/ -r > u * e
      BY <1>5, <1>6, <2>1, UlpIs
    <2>3. u * e \in Int /\ r <= u * e /\ -r <= u * e
      BY <1>3, <2>1 DEF V!Ulps
    <2> QED
      BY <2>2, <2>3
  <1>8. (q * u) % v = 0
    BY <1>7 DEF V!Ulps
  <1> QED
    BY <1>3, <1>4, <1>5, <1>6, <1>8, NearestIs

\* A small integer is a float.
LEMMA NearestSmall ==
  ASSUME NEW n \in Int, n <= 3, -n <= 3
  PROVE  V!Nearest(n) = n
  <1>1. Exact \in Nat /\ Exact > 3
    BY PowersAre
  <1>2. n <= 256 * Exact /\ -n <= 256 * Exact /\ n <= 1 * Exact /\ -n <= 1 * Exact
    BY <1>1
  <1>3. V!Ulp(n) = 1
    BY <1>1, <1>2, UlpIs DEF V!Ulps
  <1>4. n % 1 = 0
    OBVIOUS
  <1> QED
    BY <1>2, <1>3, <1>4, NearestIs

\* A variable has a number in each of its two forms, and limits with its default between them.
VarFits ==
  /\ var = [text |-> var.text, f |-> var.f, n |-> var.n, limited |-> var.limited, low |-> 0,
            high |-> var.high, fixed |-> var.fixed, default |-> 2, never_string |-> var.never_string]
  /\ var.f \in Int /\ var.n \in V!Ints
  /\ var.high \in {3, 10} /\ var.limited \in BOOLEAN /\ var.fixed \in BOOLEAN /\ var.never_string \in BOOLEAN

\* The invariant of the values.
ValuesInv == VarFits /\ V!ReadAsSet /\ V!NumbersAgree

\* A value within its limits.
LEMMA ClampedIs ==
  ASSUME VarFits, NEW h \in Int
  PROVE  /\ V!Clamped(var, h) \in Int
         /\ V!Clamped(var, h) = h \/ V!Clamped(var, h) \in 0 .. 10
         /\ var.limited /\ ~var.fixed => V!Clamped(var, h) >= var.low /\ V!Clamped(var, h) <= var.high
         /\ ~var.limited /\ ~var.fixed => V!Clamped(var, h) = h
         /\ var.low = 0 /\ var.default = 2
  <1>1. var.low = 0 /\ var.default = 2 /\ var.high \in {3, 10}
    BY DEF VarFits
  <1> QED
    BY <1>1 DEF V!Clamped

\* An int that goes through a float and the limits is the float without its fraction.
LEMMA IntOfFloat ==
  ASSUME VarFits, NEW n \in Inputs, V!Nearest(n) \in V!Ints, NEW undefined
  PROVE  /\ V!FromInt(n) \in Int
         /\ V!ClampedInt(var, n, undefined) = V!Truncated(V!Clamped(var, V!FromInt(n)))
         /\ V!Truncated(V!FromInt(n)) = V!Nearest(n)
  <1>1. PICK k \in Int : k = V!Nearest(n) /\ k \in V!Ints
    BY PowersAre
  <1>2. PICK h \in Int : h = 2 * k /\ h = V!FromInt(n)
    BY <1>1 DEF V!FromInt
  <1>3. V!Truncated(h) = k
    BY <1>2 DEF V!Truncated
  <1>4. PICK c \in Int : c = V!Clamped(var, h) /\ (c = h \/ c \in 0 .. 10)
    BY ClampedIs
  <1>5. V!Truncated(c) \in V!Ints
    <2>1. c \in 0 .. 10 => V!Truncated(c) \in 0 .. 5
      BY DEF V!Truncated
    <2>2. c \in 0 .. 10 => V!Truncated(c) \in V!Ints
      BY <2>1, PowersAre DEF V!Truncated
    <2> QED
      BY <1>1, <1>3, <1>4, <2>2
  <1> QED
    BY <1>1, <1>2, <1>3, <1>4, <1>5 DEF V!ClampedInt, V!ToInt

\* The same of the small numbers with a fraction.
LEMMA IntOfDec ==
  ASSUME VarFits, NEW h \in {-7, -1, 1, 3, 7}, NEW undefined
  PROVE  /\ V!Truncated(h) \in V!Ints /\ V!Nearest(V!Truncated(h)) = V!Truncated(h)
         /\ V!ClampedInt(var, V!Truncated(h), undefined) = V!Truncated(V!Clamped(var, h))
  <1>1. PICK k \in Int : k = V!Truncated(h) /\ k <= 3 /\ -k <= 3
                         /\ k = IF h = -7 THEN -3 ELSE IF h = 7 THEN 3 ELSE IF h = 3 THEN 1 ELSE 0
    BY DEF V!Truncated
  <1>2. k \in V!Ints /\ k \in Inputs
    BY <1>1, PowersAre DEF Inputs
  <1>3. V!Nearest(k) = k
    BY <1>1, NearestSmall
  <1>4. V!FromInt(k) = 2 * k /\ V!ClampedInt(var, k, undefined) = V!Truncated(V!Clamped(var, V!FromInt(k)))
    BY <1>2, <1>3, IntOfFloat DEF V!FromInt
  <1>5. V!Truncated(V!Clamped(var, 2 * k)) = V!Truncated(V!Clamped(var, h))
    <2>1. var.low = 0 /\ var.default = 2 /\ var.high \in {3, 10}
      BY DEF VarFits
    <2> QED
      BY <1>1, <2>1 DEF V!Clamped, V!Truncated
  <1> QED
    BY <1>1, <1>2, <1>3, <1>4, <1>5

\* What every setter does.
Sets(text, f, n, undefined) ==
  var' = [var EXCEPT !.text = V!Kept(var, text), !.f = V!Clamped(var, f), !.n = V!ClampedInt(var, n, undefined)]

\* It leaves the limits, and a value between them.
LEMMA SetsFit ==
  ASSUME VarFits, NEW text, NEW f \in Int, NEW n \in Inputs, NEW undefined \in V!Ints, Sets(text, f, n, undefined)
  PROVE  /\ VarFits'
         /\ var'.text = V!Kept(var, text) /\ var'.f = V!Clamped(var, f)
         /\ var'.n = V!ClampedInt(var, n, undefined)
         /\ var'.limited = var.limited /\ var'.fixed = var.fixed /\ var'.never_string = var.never_string
         /\ var'.low = var.low /\ var'.high = var.high
  <1>1. PICK t, a, b, limited, high, fixed, never :
          var = [text |-> t, f |-> a, n |-> b, limited |-> limited, low |-> 0, high |-> high,
                 fixed |-> fixed, default |-> 2, never_string |-> never]
    BY DEF VarFits
  <1>2. high \in {3, 10} /\ limited \in BOOLEAN /\ fixed \in BOOLEAN /\ never \in BOOLEAN
    BY <1>1 DEF VarFits
  <1>3. PICK x, y, z : x = V!Kept(var, text) /\ y = V!Clamped(var, f) /\ z = V!ClampedInt(var, n, undefined)
    OBVIOUS
  <1>4. var' = [text |-> x, f |-> y, n |-> z, limited |-> limited, low |-> 0, high |-> high,
                fixed |-> fixed, default |-> 2, never_string |-> never]
    BY <1>1, <1>3 DEF Sets
  <1>5. y \in Int
    BY <1>3, ClampedIs
  <1>6. z \in V!Ints
    BY <1>3 DEF V!ClampedInt, V!ToInt
  <1> QED
    BY <1>1, <1>2, <1>3, <1>4, <1>5, <1>6 DEF VarFits

\* A number is negative or not.
LEMMA Negative == \A i \in Int : ~(i >= 0) => i < 0
  OBVIOUS

\* What is remembered of a setter.
Remembered(how, text, over) == set'.how = how /\ set'.text = text /\ set'.undefined = over

\* A number is read as the number it was.
LEMMA NumberRead ==
  ASSUME VarFits', NEW k \in Int, NEW how, NEW over \in BOOLEAN, Remembered(how, V!Num(k), over),
         NEW text \in {V!Num(k), V!Garbage}, text = V!Garbage => how \in {"int", "float"},
         var'.text = IF var'.never_string THEN V!Word("") ELSE text,
         k >= 0 /\ ~over /\ ~var'.fixed /\ ~var'.limited /\ (how = "text" => k \in V!Ints) =>
           var'.n = V!Nearest(k)
  PROVE  V!ReadAsSet'
  <1>1. V!Num(k).kind = "num" /\ V!Num(k).n = k /\ V!Word("").kind = "" /\ V!Garbage.kind = "garbage"
        /\ V!Num(k) # V!Garbage
    BY DEF V!Num, V!Word, V!Garbage
  <1>2. set'.text.kind = "num" /\ set'.text.n = k /\ set'.how = how /\ set'.undefined = over
        /\ set'.text = V!Num(k)
    BY <1>1 DEF Remembered
  <1>3. CASE var'.never_string
    <2>1. var'.text.kind = ""
      BY <1>1, <1>3
    <2>2. V!script_get' = <<"bool", TRUE>>
      BY <2>1 DEF V!script_get
    <2> QED
      BY <1>3, <2>2 DEF V!ReadAsSet
  <1>4. CASE ~var'.never_string /\ text = V!Garbage
    BY <1>1, <1>2, <1>4 DEF V!ReadAsSet
  <1>5. CASE ~var'.never_string /\ text # V!Garbage
    <2>1. var'.text = V!Num(k) /\ var'.text.kind = "num" /\ var'.text.n = k /\ var'.text # V!Garbage
      BY <1>1, <1>5
    <2>2. CASE ~(k >= 0)
      <3>1. V!script_get' = <<"string", var'.text>>
        BY <2>1, <2>2 DEF V!script_get
      <3>2. k < 0
        BY Zenon, <2>2, Negative
      <3> QED
        BY <1>2, <1>5, <2>1, <3>1, <3>2 DEF V!ReadAsSet
    <2>3. CASE k >= 0
      <3>1. V!script_get' = <<"int", var'.n>>
        BY <2>1, <2>3 DEF V!script_get, V!GetInt
      <3>2. V!Unhindered' /\ (how = "text" => k \in V!Ints) => var'.n = V!Nearest(k)
        BY <1>2, <2>3 DEF V!Unhindered
      <3> QED
        BY <1>2, <1>5, <2>1, <2>3, <3>1, <3>2 DEF V!ReadAsSet
    <2> QED
      BY Zenon, <2>2, <2>3
  <1> QED
    BY <1>3, <1>4, <1>5 DEF VarFits

\* A number with a fraction likewise.
LEMMA FractionRead ==
  ASSUME VarFits', NEW h \in Int, NEW how, NEW over \in BOOLEAN, Remembered(how, V!Dec(h), over),
         NEW text \in {V!Dec(h), V!Garbage}, text = V!Garbage => how \in {"int", "float"},
         var'.text = IF var'.never_string THEN V!Word("") ELSE text,
         ~var'.fixed /\ ~var'.limited => var'.f = h
  PROVE  V!ReadAsSet'
  <1>1. V!Dec(h).kind = "dec" /\ V!Dec(h).n = h /\ V!Word("").kind = "" /\ V!Garbage.kind = "garbage"
        /\ V!Dec(h) # V!Garbage
    BY DEF V!Dec, V!Word, V!Garbage
  <1>2. set'.text.kind = "dec" /\ set'.text.n = h /\ set'.how = how /\ set'.undefined = over
        /\ set'.text = V!Dec(h)
    BY <1>1 DEF Remembered
  <1>3. CASE var'.never_string
    <2>1. var'.text.kind = ""
      BY <1>1, <1>3
    <2>2. V!script_get' = <<"bool", TRUE>>
      BY <2>1 DEF V!script_get
    <2> QED
      BY <1>3, <2>2 DEF V!ReadAsSet
  <1>4. CASE ~var'.never_string /\ text = V!Garbage
    BY <1>1, <1>2, <1>4 DEF V!ReadAsSet
  <1>5. CASE ~var'.never_string /\ text # V!Garbage
    <2>1. var'.text = V!Dec(h) /\ var'.text.kind = "dec" /\ var'.text.n = h /\ var'.text # V!Garbage
      BY <1>1, <1>5
    <2>2. CASE ~(h >= 0)
      <3>1. V!script_get' = <<"string", var'.text>>
        BY <2>1, <2>2 DEF V!script_get
      <3>2. h < 0
        BY Zenon, <2>2, Negative
      <3> QED
        BY <1>2, <1>5, <2>1, <3>1, <3>2 DEF V!ReadAsSet
    <2>3. CASE h >= 0
      <3>1. V!script_get' = <<"float", var'.f>>
        BY <2>1, <2>3 DEF V!script_get, V!GetFloat
      <3>2. V!Unhindered' => var'.f = h
        BY <1>2 DEF V!Unhindered
      <3> QED
        BY <1>2, <1>5, <2>1, <2>3, <3>1, <3>2 DEF V!ReadAsSet
    <2> QED
      BY Zenon, <2>2, <2>3
  <1> QED
    BY <1>3, <1>4, <1>5 DEF VarFits

\* A word is a text, or a boolean when it begins as one.
LEMMA WordRead ==
  ASSUME VarFits', NEW w \in Words \cup {"", "tr", "true", "fa", "false"}, NEW over \in BOOLEAN,
         Remembered("text", V!Word(w), over),
         var'.text = IF var'.never_string THEN V!Word("") ELSE V!Word(w)
  PROVE  V!ReadAsSet'
  <1>1. w \notin {"num", "dec", "exp", "garbage"} /\ (w \in Words => w \notin {"", "tr", "true", "fa", "false"})
    BY ValuesAssumption
  <1>2. V!Word(w).kind = w /\ V!Word("").kind = "" /\ V!Garbage.kind = "garbage"
    BY DEF V!Word, V!Garbage
  <1>3. CASE var'.never_string
    <2>1. var'.text.kind = ""
      BY <1>2, <1>3
    <2>2. V!script_get' = <<"bool", TRUE>>
      BY <2>1 DEF V!script_get
    <2> QED
      BY <1>3, <2>2 DEF V!ReadAsSet
  <1>4. CASE ~var'.never_string
    <2>1. var'.text = V!Word(w) /\ var'.text.kind = w /\ var'.text # V!Garbage /\ set'.text.kind = w
          /\ set'.text = V!Word(w)
      BY <1>1, <1>2, <1>4 DEF Remembered
    <2>2. CASE w \in Words
      <3>1. V!script_get' = <<"string", V!Word(w)>>
        BY <1>1, <2>1, <2>2 DEF V!script_get
      <3> QED
        BY <1>1, <1>4, <2>1, <2>2, <3>1 DEF V!ReadAsSet
    <2>3. CASE w \notin Words
      <3>1. V!script_get'[1] = "bool"
        BY <2>1, <2>3 DEF V!script_get
      <3> QED
        BY <1>1, <1>4, <2>1, <2>3, <3>1 DEF V!ReadAsSet
    <2> QED
      BY <2>2, <2>3
  <1> QED
    BY <1>3, <1>4 DEF VarFits

\* A number with an exponent is read as the text that it is.
LEMMA ExpRead ==
  ASSUME VarFits', NEW m \in Int, var'.text = IF var'.never_string THEN V!Word("") ELSE V!Exp(m),
         \/ set'.how = "text" /\ set'.text = V!Exp(m)
         \/ set'.how = "float" /\ set'.text.kind = "num" /\ V!Nearest(m) = set'.text.n
  PROVE  V!ReadAsSet'
  <1>1. V!Exp(m).kind = "exp" /\ V!Exp(m).n = m /\ V!Word("").kind = "" /\ V!Garbage.kind = "garbage"
    BY DEF V!Exp, V!Word, V!Garbage
  <1>2. CASE var'.never_string
    <2>1. var'.text.kind = ""
      BY <1>1, <1>2
    <2>2. V!script_get' = <<"bool", TRUE>>
      BY <2>1 DEF V!script_get
    <2> QED
      BY <1>2, <2>2 DEF V!ReadAsSet
  <1>3. CASE ~var'.never_string
    <2>1. var'.text = V!Exp(m) /\ var'.text.kind = "exp" /\ var'.text.n = m /\ var'.text # V!Garbage
      BY <1>1, <1>3
    <2>2. V!script_get' = <<"string", var'.text>>
      BY <2>1 DEF V!script_get
    <2> QED
      BY <1>3, <2>1, <2>2 DEF V!ReadAsSet
  <1> QED
    BY <1>2, <1>3 DEF VarFits

\* An integer that a float is written as is that float again.
LEMMA RoundIs ==
  ASSUME NEW k \in Int, NEW m \in V!Round(k), k <= 256 * Exact, -k <= 256 * Exact
  PROVE  m \in Int /\ V!Nearest(m) = k
  <1>1. m \in V!Near(k)
    BY DEF V!Round, V!Shortest
  <1>2. V!Nearest(m) = k /\ m \in k - V!Ulp(k) .. k + V!Ulp(k)
    BY <1>1 DEF V!Near
  <1>3. V!Ulp(k) \in Int
    BY UlpIs DEF V!Ulps
  <1> QED
    BY <1>2, <1>3

\* What every setter leaves agrees if its two numbers do.
LEMMA SetsAgree ==
  ASSUME VarFits, NEW text, NEW f \in Int, NEW n \in Inputs, NEW undefined \in V!Ints, Sets(text, f, n, undefined),
         V!ReadAsSet',
         ~set'.undefined /\ set'.clean /\ (set'.text.kind = "num" => set'.text.n \in V!Ints) =>
           V!ClampedInt(var, n, undefined) = V!Truncated(V!Clamped(var, f))
  PROVE  ValuesInv'
  <1>1. /\ VarFits' /\ var'.f = V!Clamped(var, f) /\ var'.n = V!ClampedInt(var, n, undefined)
        /\ var'.limited = var.limited /\ var'.fixed = var.fixed /\ var'.low = var.low /\ var'.high = var.high
    BY SetsFit
  <1>2. (var'.limited /\ ~var'.fixed) => var'.f >= var'.low /\ var'.f <= var'.high
    BY <1>1, ClampedIs
  <1>3. set'.clean /\ ~set'.undefined /\ (set'.text.kind = "num" => set'.text.n \in V!Ints) =>
          var'.n = V!Truncated(var'.f)
    BY <1>1
  <1> QED
    BY <1>1, <1>2, <1>3 DEF ValuesInv, V!NumbersAgree

\* The numbers that are inputs.
LEMMA InputsAre ==
  ASSUME NEW n \in Inputs
  PROVE  n \in Int /\ V!Nearest(n) \in Int /\ V!FromInt(n) \in Int /\ V!FromInt(n) = 2 * V!Nearest(n)
  <1>1. n \in Int /\ n <= 256 * Exact /\ -n <= 256 * Exact
    BY PowersAre
  <1>2. V!Nearest(n) \in Int
    BY <1>1, NearestIs
  <1> QED
    BY <1>1, <1>2 DEF V!FromInt

\* An int is set.
LEMMA SetInt ==
  ASSUME ValuesInv, NEW n \in V!Ints, NEW undefined \in {V!IntMin, V!IntMax}, V!script_set_int(n, undefined)
  PROVE  ValuesInv'
  <1>1. PICK over \in BOOLEAN : over = V!Overflows(n)
    BY DEF V!Overflows
  <1>2. n \in Inputs /\ undefined \in V!Ints /\ V!FromInt(n) \in Int /\ n \in Int
    BY PowersAre, InputsAre DEF Inputs
  <1>3. Sets(V!IntText(n), V!FromInt(n), n, undefined)
    BY DEF V!script_set_int, V!SetInt, Sets
  <1>4. Remembered("int", V!Num(n), over)
    BY <1>1 DEF V!script_set_int, V!Remember, Remembered
  <1>5. ~over => /\ V!ClampedInt(var, n, undefined) = V!Truncated(V!Clamped(var, V!FromInt(n)))
                 /\ V!Truncated(V!FromInt(n)) = V!Nearest(n)
    BY <1>1, <1>2, IntOfFloat DEF ValuesInv, V!Overflows
  <1>6. V!IntText(n) \in {V!Num(n), V!Garbage}
    BY DEF V!IntText
  <1>7. /\ VarFits' /\ var'.text = V!Kept(var, V!IntText(n)) /\ var'.n = V!ClampedInt(var, n, undefined)
        /\ var'.limited = var.limited /\ var'.fixed = var.fixed /\ var'.never_string = var.never_string
    BY <1>2, <1>3, SetsFit DEF ValuesInv
  <1>8. var'.text = IF var'.never_string THEN V!Word("") ELSE V!IntText(n)
    BY <1>7 DEF V!Kept
  <1>9. ~over /\ ~var'.fixed /\ ~var'.limited => var'.n = V!Nearest(n)
    BY <1>2, <1>5, <1>7, ClampedIs DEF ValuesInv
  <1>10. V!ReadAsSet'
    BY <1>2, <1>4, <1>6, <1>7, <1>8, <1>9, NumberRead
  <1> QED
    BY <1>2, <1>3, <1>4, <1>5, <1>10, SetsAgree DEF ValuesInv, Remembered

\* A boolean is set.
LEMMA SetBool ==
  ASSUME ValuesInv, NEW b \in BOOLEAN, NEW undefined \in {V!IntMin, V!IntMax}, V!script_set_bool(b, undefined)
  PROVE  ValuesInv'
  <1>1. PICK n \in {0, 1} : n = IF b THEN 1 ELSE 0
    OBVIOUS
  <1>2. n \in Inputs /\ n \in V!Ints /\ undefined \in V!Ints /\ n \in Int /\ 2 * n \in Int
    BY PowersAre DEF Inputs
  <1>3. V!Nearest(n) = n /\ V!FromInt(n) = 2 * n
    BY NearestSmall DEF V!FromInt
  <1>4. Sets(V!Num(n), 2 * n, n, undefined)
    BY <1>1 DEF V!script_set_bool, V!SetBool, Sets
  <1>5. Remembered("bool", V!Num(n), FALSE)
    BY <1>1 DEF V!script_set_bool, V!Remember, Remembered
  <1>6. /\ V!ClampedInt(var, n, undefined) = V!Truncated(V!Clamped(var, 2 * n))
        /\ V!Truncated(2 * n) = V!Nearest(n)
    BY <1>2, <1>3, IntOfFloat DEF ValuesInv
  <1>7. /\ VarFits' /\ var'.text = V!Kept(var, V!Num(n)) /\ var'.n = V!ClampedInt(var, n, undefined)
        /\ var'.limited = var.limited /\ var'.fixed = var.fixed /\ var'.never_string = var.never_string
    BY <1>2, <1>4, SetsFit DEF ValuesInv
  <1>8. var'.text = IF var'.never_string THEN V!Word("") ELSE V!Num(n)
    BY <1>7 DEF V!Kept
  <1>9. ~var'.fixed /\ ~var'.limited => var'.n = V!Nearest(n)
    BY <1>2, <1>6, <1>7, ClampedIs DEF ValuesInv
  <1>10. V!Num(n) # V!Garbage
    BY DEF V!Num, V!Garbage, V!Word
  <1>11. V!ReadAsSet'
    BY <1>2, <1>5, <1>7, <1>8, <1>9, <1>10, NumberRead
  <1> QED
    BY <1>2, <1>4, <1>6, <1>11, SetsAgree DEF ValuesInv

\* A float is set.
LEMMA SetFloat ==
  ASSUME ValuesInv, NEW undefined \in {V!IntMin, V!IntMax},
         NEW h \in {V!FromInt(n) : n \in Inputs} \cup {-7, -1, 1, 3, 7}, V!script_set_float(h, undefined)
  PROVE  ValuesInv'
  <1>1. PICK over \in BOOLEAN : over = (V!Truncated(h) \notin V!Ints \/ V!Overflows(V!Truncated(h)))
    OBVIOUS
  <1>2. h \in Int
    BY InputsAre
  <1>3. PICK n \in V!Ints : n = V!ToInt(h, undefined)
    BY PowersAre DEF V!ToInt
  <1>4. n \in Inputs /\ undefined \in V!Ints /\ V!Truncated(h) \in Int
    BY <1>2, PowersAre DEF Inputs, V!Truncated
  <1>5. Sets(V!FloatText(h), h, n, undefined)
    BY <1>3 DEF V!script_set_float, V!SetFloat, Sets
  <1>6. /\ VarFits' /\ var'.text = V!Kept(var, V!FloatText(h)) /\ var'.n = V!ClampedInt(var, n, undefined)
        /\ var'.f = V!Clamped(var, h)
        /\ var'.limited = var.limited /\ var'.fixed = var.fixed /\ var'.never_string = var.never_string
    BY <1>2, <1>4, <1>5, SetsFit DEF ValuesInv
  <1>7. var'.text = IF var'.never_string THEN V!Word("") ELSE V!FloatText(h)
    BY <1>6 DEF V!Kept
  <1>8. ~var'.fixed /\ ~var'.limited => var'.f = h
    BY <1>2, <1>6, ClampedIs DEF ValuesInv
  <1>9. set'.undefined = over /\ set'.how = "float"
        /\ set'.text = IF h % 2 = 0 THEN V!Num(V!Truncated(h)) ELSE V!Dec(h)
    BY <1>1 DEF V!script_set_float, V!Remember
  <1>10. CASE h \in {-7, -1, 1, 3, 7}
    <2>1. h % 2 # 0
      BY <1>10
    <2>2. V!FloatText(h) \in {V!Dec(h), V!Garbage}
      BY <2>1 DEF V!FloatText
    <2>3. Remembered("float", V!Dec(h), over)
      BY <1>9, <2>1 DEF Remembered
    <2>4. V!ReadAsSet'
      BY <1>2, <1>6, <1>7, <1>8, <2>2, <2>3, FractionRead
    <2>5. n = V!Truncated(h)
      BY <1>3, <1>10, IntOfDec DEF V!ToInt, ValuesInv
    <2>6. V!ClampedInt(var, n, undefined) = V!Truncated(V!Clamped(var, h))
      BY <1>10, <2>5, IntOfDec DEF ValuesInv
    <2> QED
      BY <1>2, <1>4, <1>5, <2>4, <2>6, SetsAgree DEF ValuesInv
  <1>11. CASE h \in {V!FromInt(m) : m \in Inputs}
    <2>1. PICK m \in Inputs : h = V!FromInt(m)
      BY <1>11
    <2>2. PICK k \in Int : k = V!Nearest(m) /\ h = 2 * k /\ m \in Int /\ m <= 256 * Exact /\ -m <= 256 * Exact
      BY <2>1, InputsAre, PowersAre
    <2>3. V!Truncated(h) = k /\ h % 2 = 0
      BY <2>2 DEF V!Truncated
    <2>4. V!Nearest(k) = k
      BY <2>2, NearestTwice
    <2>11. k <= 256 * Exact /\ -k <= 256 * Exact
      <3>1. PICK u \in V!Ulps : u = V!Ulp(m)
        BY <2>2, UlpIs
      <3>2. k <= u * Exact /\ -k <= u * Exact
        BY <2>2, <3>1, NearestIs
      <3>3. PICK e \in Nat : e = Exact
        BY PowersAre
      <3>4. \A v \in {1, 2, 4, 8, 16, 32, 64, 128, 256} : v * e <= 256 * e
        BY <3>3
      <3>5. u * e <= 256 * e /\ u * e \in Int
        BY <3>1, <3>3, <3>4 DEF V!Ulps
      <3>6. k <= u * e /\ -k <= u * e
        BY <3>2, <3>3
      <3> QED
        BY <2>2, <3>3, <3>5, <3>6
    <2>5. V!FloatText(h) \in {V!Num(k), V!Garbage} \/ \E e \in V!Round(k) : V!FloatText(h) = V!Exp(e)
      <3> DEFINE round == V!Round(k)
                 e == CHOOSE j \in round : TRUE
      <3>1. round # {} => e \in round
        OBVIOUS
      <3>2. V!FloatText(h) \in {V!Num(k), V!Garbage} \/ (round # {} /\ V!FloatText(h) = V!Exp(e))
        <4>1. CASE round = {}
          BY <2>3, <4>1 DEF V!FloatText
        <4>2. CASE round # {}
          BY <2>3, <4>2 DEF V!FloatText
        <4> QED
          BY <4>1, <4>2
      <3> QED
        BY <3>1, <3>2
    <2>6. Remembered("float", V!Num(k), over)
      BY <1>9, <2>3 DEF Remembered
    <2>7. ~over => n = k /\ k \in V!Ints
      BY <1>1, <1>3, <2>3 DEF V!ToInt
    <2>8. ~over => V!ClampedInt(var, n, undefined) = V!Truncated(V!Clamped(var, h))
      <3> SUFFICES ASSUME ~over PROVE V!ClampedInt(var, n, undefined) = V!Truncated(V!Clamped(var, h))
        OBVIOUS
      <3>1. n = k /\ V!Nearest(n) \in V!Ints
        BY <2>4, <2>7
      <3>2. V!FromInt(n) = h
        BY <2>2, <2>4, <3>1 DEF V!FromInt
      <3> QED
        BY <1>4, <3>1, <3>2, IntOfFloat DEF ValuesInv
    <2>9. ~over /\ ~var'.fixed /\ ~var'.limited => var'.n = V!Nearest(k)
      BY <1>2, <1>6, <2>3, <2>4, <2>8, ClampedIs DEF ValuesInv
    <2>10. V!ReadAsSet'
      <3>1. CASE V!FloatText(h) \in {V!Num(k), V!Garbage}
        BY <1>6, <1>7, <2>2, <2>6, <2>9, <3>1, NumberRead
      <3>2. CASE \E e \in V!Round(k) : V!FloatText(h) = V!Exp(e)
        <4>1. PICK e \in V!Round(k) : V!FloatText(h) = V!Exp(e)
          BY <3>2
        <4>2. e \in Int /\ V!Nearest(e) = k
          BY <2>11, <4>1, RoundIs
        <4>3. set'.how = "float" /\ set'.text.kind = "num" /\ set'.text.n = k
          BY <2>6 DEF Remembered, V!Num
        <4> QED
          BY <1>6, <1>7, <4>1, <4>2, <4>3, ExpRead
      <3> QED
        BY <2>5, <3>1, <3>2
    <2> QED
      BY <1>2, <1>4, <1>5, <1>9, <2>8, <2>10, SetsAgree DEF ValuesInv
  <1> QED
    BY <1>10, <1>11

\* A text is set that is a number.
LEMMA SetNumber ==
  ASSUME ValuesInv, NEW k \in Inputs, NEW undefined \in {V!IntMin, V!IntMax}, V!script_set_string(V!Num(k), undefined)
  PROVE  ValuesInv'
  <1>1. PICK n \in V!Ints : n = IF k \in V!Ints THEN k ELSE var.n
    BY DEF ValuesInv, VarFits
  <1>2. PICK over \in BOOLEAN : over = (~(n \in V!Ints) \/ V!Overflows(n))
    OBVIOUS
  <1>3. n \in Inputs /\ undefined \in V!Ints /\ V!FromInt(k) \in Int /\ k \in Int
    BY PowersAre, InputsAre DEF Inputs
  <1>4. V!Num(k).kind = "num" /\ V!Num(k).n = k
    BY DEF V!Num
  <1>5. V!ReadInt(V!Num(k), var.n) = n /\ V!ReadFloat(V!Num(k), var.f) = V!FromInt(k)
    BY <1>1, <1>4 DEF V!ReadInt, V!ReadFloat
  <1>6. Sets(V!Num(k), V!FromInt(k), n, undefined)
    BY <1>4, <1>5 DEF V!script_set_string, V!SetText, Sets
  <1>7. Remembered("text", V!Num(k), over)
    BY <1>2, <1>5 DEF V!script_set_string, V!Remember, Remembered
  <1>8. k \in V!Ints /\ ~over =>
          /\ V!ClampedInt(var, n, undefined) = V!Truncated(V!Clamped(var, V!FromInt(k)))
          /\ V!Truncated(V!FromInt(k)) = V!Nearest(k)
    BY <1>1, <1>2, <1>3, IntOfFloat DEF ValuesInv, V!Overflows
  <1>9. /\ VarFits' /\ var'.text = V!Kept(var, V!Num(k)) /\ var'.n = V!ClampedInt(var, n, undefined)
        /\ var'.limited = var.limited /\ var'.fixed = var.fixed /\ var'.never_string = var.never_string
    BY <1>3, <1>6, SetsFit DEF ValuesInv
  <1>10. var'.text = IF var'.never_string THEN V!Word("") ELSE V!Num(k)
    BY <1>9 DEF V!Kept
  <1>11. k \in V!Ints /\ ~over /\ ~var'.fixed /\ ~var'.limited => var'.n = V!Nearest(k)
    BY <1>3, <1>8, <1>9, ClampedIs DEF ValuesInv
  <1>12. V!Num(k) # V!Garbage
    BY DEF V!Num, V!Garbage, V!Word
  <1>13. V!ReadAsSet'
    BY <1>3, <1>7, <1>9, <1>10, <1>11, <1>12, NumberRead
  <1> QED
    BY <1>3, <1>4, <1>6, <1>7, <1>8, <1>13, SetsAgree DEF ValuesInv, Remembered

\* A text is set that is a number with an exponent.
LEMMA SetExp ==
  ASSUME ValuesInv, NEW k \in Inputs, NEW undefined \in {V!IntMin, V!IntMax}, V!script_set_string(V!Exp(k), undefined)
  PROVE  ValuesInv'
  <1>1. V!Exp(k).kind = "exp" /\ V!Exp(k).n = k
    BY DEF V!Exp
  <1>2. PICK n \in V!Ints : n = V!ReadInt(V!Exp(k), var.n)
    BY <1>1 DEF V!ReadInt, ValuesInv, VarFits
  <1>3. n \in Inputs /\ undefined \in V!Ints /\ V!FromInt(k) \in Int /\ k \in Int
    BY PowersAre, InputsAre DEF Inputs
  <1>4. V!ReadFloat(V!Exp(k), var.f) = V!FromInt(k)
    BY <1>1 DEF V!ReadFloat
  <1>5. Sets(V!Exp(k), V!FromInt(k), n, undefined)
    BY <1>1, <1>2, <1>4 DEF V!script_set_string, V!SetText, Sets
  <1>6. set'.how = "text" /\ set'.text = V!Exp(k) /\ ~set'.clean
    BY <1>1 DEF V!script_set_string, V!Remember
  <1>7. VarFits' /\ var'.text = V!Kept(var, V!Exp(k)) /\ var'.never_string = var.never_string
    BY <1>3, <1>5, SetsFit DEF ValuesInv
  <1>8. var'.text = IF var'.never_string THEN V!Word("") ELSE V!Exp(k)
    BY <1>7 DEF V!Kept
  <1>9. V!ReadAsSet'
    BY <1>3, <1>6, <1>7, <1>8, ExpRead
  <1> QED
    BY <1>3, <1>5, <1>6, <1>9, SetsAgree DEF ValuesInv

\* A text is set that is a number with a fraction.
LEMMA SetFraction ==
  ASSUME ValuesInv, NEW h \in {-7, -1, 1, 3, 7}, NEW undefined \in {V!IntMin, V!IntMax},
         V!script_set_string(V!Dec(h), undefined)
  PROVE  ValuesInv'
  <1>1. PICK n \in V!Ints : n = V!Truncated(h)
    BY IntOfDec DEF ValuesInv
  <1>2. PICK over \in BOOLEAN : over = (~(n \in V!Ints) \/ V!Overflows(n))
    OBVIOUS
  <1>3. n \in Inputs /\ undefined \in V!Ints /\ h \in Int
    BY PowersAre DEF Inputs
  <1>4. V!Dec(h).kind = "dec" /\ V!Dec(h).n = h
    BY DEF V!Dec
  <1>5. V!ReadInt(V!Dec(h), var.n) = n /\ V!ReadFloat(V!Dec(h), var.f) = h
    BY <1>1, <1>4 DEF V!ReadInt, V!ReadFloat
  <1>6. Sets(V!Dec(h), h, n, undefined)
    BY <1>4, <1>5 DEF V!script_set_string, V!SetText, Sets
  <1>7. Remembered("text", V!Dec(h), over)
    BY <1>2, <1>5 DEF V!script_set_string, V!Remember, Remembered
  <1>8. V!ClampedInt(var, n, undefined) = V!Truncated(V!Clamped(var, h))
    BY <1>1, IntOfDec DEF ValuesInv
  <1>9. /\ VarFits' /\ var'.text = V!Kept(var, V!Dec(h)) /\ var'.f = V!Clamped(var, h)
        /\ var'.limited = var.limited /\ var'.fixed = var.fixed /\ var'.never_string = var.never_string
    BY <1>3, <1>6, SetsFit DEF ValuesInv
  <1>10. var'.text = IF var'.never_string THEN V!Word("") ELSE V!Dec(h)
    BY <1>9 DEF V!Kept
  <1>11. ~var'.fixed /\ ~var'.limited => var'.f = h
    BY <1>3, <1>9, ClampedIs DEF ValuesInv
  <1>12. V!Dec(h) # V!Garbage
    BY DEF V!Dec, V!Garbage, V!Word
  <1>13. V!ReadAsSet'
    BY <1>3, <1>7, <1>9, <1>10, <1>11, <1>12, FractionRead
  <1> QED
    BY <1>3, <1>6, <1>8, <1>13, SetsAgree DEF ValuesInv

\* The texts that are no number.
IsWord(w) == w \in Words \cup {"", "tr", "true", "fa", "false"}

\* One of them is set.
LEMMA SetWord ==
  ASSUME ValuesInv, NEW w, IsWord(w), NEW undefined \in {V!IntMin, V!IntMax},
         V!script_set_string(V!Word(w), undefined)
  PROVE  ValuesInv'
  <1>1. w \notin {"num", "dec", "exp"} /\ V!Word(w).kind = w
    BY ValuesAssumption DEF V!Word, IsWord
  <1> DEFINE N == IF w = "true" THEN 1 ELSE IF w = "false" THEN 0 ELSE var.n
             H == IF w = "true" THEN 2 ELSE IF w = "false" THEN 0 ELSE var.f
  <1>2. var.n \in V!Ints /\ var.f \in Int /\ 0 \in V!Ints /\ 1 \in V!Ints
    BY PowersAre DEF ValuesInv, VarFits
  <1>3. N \in V!Ints /\ H \in Int
    BY <1>2
  <1>4. PICK n \in V!Ints : n = N
    BY <1>3
  <1>5. PICK f \in Int : f = H
    BY <1>3
  <1>6. PICK over \in BOOLEAN : over = (~(V!ReadInt(V!Word(w), var.n) \in V!Ints) \/ V!Overflows(V!ReadInt(V!Word(w), var.n)))
    OBVIOUS
  <1>7. V!ReadInt(V!Word(w), var.n) = var.n /\ V!ReadFloat(V!Word(w), var.f) = var.f
    BY <1>1 DEF V!ReadInt, V!ReadFloat
  <1>8. n \in Inputs /\ undefined \in V!Ints
    BY PowersAre DEF Inputs
  <1>9. Sets(V!Word(w), f, n, undefined)
    BY <1>1, <1>4, <1>5, <1>7 DEF V!script_set_string, V!SetText, Sets
  <1>10. Remembered("text", V!Word(w), over) /\ (set'.clean => w \in {"true", "false"})
    BY <1>1, <1>6 DEF V!script_set_string, V!Remember, Remembered
  <1>11. VarFits' /\ var'.text = V!Kept(var, V!Word(w)) /\ var'.never_string = var.never_string
    BY <1>5, <1>8, <1>9, SetsFit DEF ValuesInv
  <1>12. var'.text = IF var'.never_string THEN V!Word("") ELSE V!Word(w)
    BY <1>11 DEF V!Kept
  <1>13. V!ReadAsSet'
    BY <1>10, <1>11, <1>12, WordRead DEF IsWord
  <1>14. set'.clean => V!ClampedInt(var, n, undefined) = V!Truncated(V!Clamped(var, f))
    <2> SUFFICES ASSUME set'.clean PROVE V!ClampedInt(var, n, undefined) = V!Truncated(V!Clamped(var, f))
      OBVIOUS
    <2>1. n \in {0, 1} /\ f = 2 * n
      BY <1>4, <1>5, <1>10
    <2>2. V!Nearest(n) = n /\ V!FromInt(n) = f
      BY <2>1, NearestSmall DEF V!FromInt
    <2> QED
      BY <1>8, <2>2, IntOfFloat DEF ValuesInv
  <1> QED
    BY <1>5, <1>8, <1>9, <1>13, <1>14, SetsAgree DEF ValuesInv

\* A variable keeps its values whatever it is set to.
LEMMA ValuesKeep ==
  ASSUME ValuesInv, V!VNext
  PROVE  ValuesInv'
  <1>1. PICK undefined \in {V!IntMin, V!IntMax} :
          \/ \E text \in V!Texts : V!script_set_string(text, undefined)
          \/ \E n \in V!Ints : V!script_set_int(n, undefined)
          \/ \E h \in {V!FromInt(n) : n \in Inputs} \cup {-7, -1, 1, 3, 7} : V!script_set_float(h, undefined)
          \/ \E b \in BOOLEAN : V!script_set_bool(b, undefined)
    BY Zenon DEF V!VNext, Inputs
  <1>2. CASE \E text \in V!Texts : V!script_set_string(text, undefined)
    <2>1. PICK text \in V!Texts : V!script_set_string(text, undefined)
      BY <1>2
    <2>2. \/ \E k \in Inputs : text = V!Num(k)
          \/ \E k \in {-2, 3, 2 * V!IntMin, 2 * V!IntMax} : text = V!Exp(k)
          \/ \E h \in {-7, -1, 1, 3, 7} : text = V!Dec(h)
          \/ \E w \in Words \cup {"", "tr", "true", "fa", "false"} : text = V!Word(w)
      BY DEF V!Texts, Inputs
    <2>3. -2 \in Inputs /\ 3 \in Inputs /\ 2 * V!IntMin \in Inputs /\ 2 * V!IntMax \in Inputs
      BY PowersAre DEF Inputs
    <2>4. ASSUME NEW k \in {-2, 3, 2 * V!IntMin, 2 * V!IntMax}, text = V!Exp(k) PROVE ValuesInv'
      BY <2>1, <2>3, <2>4, SetExp
    <2> QED
      BY <2>1, <2>2, <2>4, SetNumber, SetFraction, SetWord DEF IsWord
  <1>3. CASE \E n \in V!Ints : V!script_set_int(n, undefined)
    BY <1>3, SetInt
  <1>4. CASE \E h \in {V!FromInt(n) : n \in Inputs} \cup {-7, -1, 1, 3, 7} : V!script_set_float(h, undefined)
    BY <1>4, SetFloat
  <1>5. CASE \E b \in BOOLEAN : V!script_set_bool(b, undefined)
    BY <1>5, SetBool
  <1> QED
    BY <1>1, <1>2, <1>3, <1>4, <1>5

\* They fit when it is made.
LEMMA ValuesInit == MCInit => ValuesInv
  <1> SUFFICES ASSUME V!VInit PROVE ValuesInv
    BY DEF MCInit
  <1>1. PICK limited \in BOOLEAN, fixed \in BOOLEAN, never \in BOOLEAN, high \in {3, 10} :
          /\ var = [text |-> V!Kept([never_string |-> never], V!Num(1)), f |-> 2, n |-> 1, limited |-> limited,
                    low |-> 0, high |-> high, fixed |-> fixed, default |-> 2, never_string |-> never]
          /\ set = [how |-> "initialize", text |-> V!Num(1), n |-> 1, undefined |-> FALSE, clean |-> TRUE]
    BY DEF V!VInit
  <1>2. PICK text : text = V!Kept([never_string |-> never], V!Num(1))
    OBVIOUS
  <1>3. var = [text |-> text, f |-> 2, n |-> 1, limited |-> limited,
               low |-> 0, high |-> high, fixed |-> fixed, default |-> 2, never_string |-> never]
    BY <1>1, <1>2
  <1>4. text = IF never THEN V!Word("") ELSE V!Num(1)
    BY <1>2 DEF V!Kept
  <1>5. 1 \in V!Ints
    BY PowersAre
  <1>6. VarFits
    BY <1>3, <1>5 DEF VarFits
  <1>7. V!Nearest(1) = 1
    BY NearestSmall
  <1>8. /\ V!Num(1).kind = "num" /\ V!Num(1).n = 1 /\ V!Num(1) # V!Garbage
        /\ V!Word("").kind = "" /\ V!Word("") # V!Garbage
    BY DEF V!Num, V!Word, V!Garbage
  <1>9. /\ set.text = V!Num(1) /\ set.text.kind = "num" /\ set.text.n = 1 /\ set.how = "initialize"
        /\ var.n = 1 /\ var.f = 2 /\ var.low = 0 /\ var.high = high /\ var.never_string = never /\ var.text = text
    <2>1. set.text = V!Num(1) /\ set.how = "initialize"
      BY <1>1
    <2>2. /\ var.n = 1 /\ var.f = 2 /\ var.low = 0 /\ var.high = high /\ var.never_string = never /\ var.text = text
      BY <1>3
    <2> QED
      BY <1>8, <2>1, <2>2
  <1>10. V!NumbersAgree
    BY <1>9 DEF V!NumbersAgree, V!Truncated
  <1>11. CASE never
    <2>1. var.never_string /\ var.text.kind = ""
      BY <1>4, <1>8, <1>9, <1>11
    <2>2. V!script_get = <<"bool", TRUE>>
      BY <2>1 DEF V!script_get
    <2>3. V!ReadAsSet
      BY <2>1, <2>2 DEF V!ReadAsSet
    <2> QED
      BY <1>6, <1>10, <2>3 DEF ValuesInv
  <1>12. CASE ~never
    <2>1. ~var.never_string /\ var.text = V!Num(1) /\ var.text.kind = "num" /\ var.text.n = 1
      BY <1>4, <1>8, <1>9, <1>12
    <2>2. PICK k \in Nat : k = 1 /\ var.text = V!Num(k) /\ var.text.n = k /\ set.text = V!Num(k) /\ set.text.n = k
                            /\ var.n = k /\ V!Nearest(k) = k
      BY <1>7, <1>9, <2>1
    <2>3. V!script_get = <<"int", var.n>>
      <3>1. k >= 0
        OBVIOUS
      <3> QED
        BY <2>1, <2>2, <3>1 DEF V!script_get, V!GetInt
    <2>4. V!ReadAsSet
      <3>1. ~(k < 0)
        OBVIOUS
      <3> QED
        BY <1>8, <1>9, <2>1, <2>2, <2>3, <3>1 DEF V!ReadAsSet
    <2> QED
      BY <1>6, <1>10, <2>4 DEF ValuesInv
  <1> QED
    BY <1>11, <1>12

\* A console variable reads what a script set it to, with the exceptions of ReadAsSet
\* and NumbersAgree, what is found by its name is registered, and the arguments of a
\* command stay until it returns (gsdk/vstdlib/convar.cpp, bindings/cvar).
THEOREM Cvars == MCSpec => []CvarsKept
  <1>1. MCInit => ConsoleInv /\ ValuesInv
    BY ConsoleInit, ValuesInit
  <1>2. ConsoleInv /\ [MCNext]_<<part, pvars, valuevars, consolevars, factoryvars, tablevars, proxyvars, typevars, gamevars>> => ConsoleInv'
    <2> SUFFICES ASSUME ConsoleInv, C!CNext \/ UNCHANGED consolevars PROVE ConsoleInv'
      BY Zenon DEF MCNext
    <2>1. CASE UNCHANGED consolevars
      BY <2>1 DEF consolevars, ConsoleInv, ConsoleFits, C!FoundIsRegistered, C!ArgumentsStay, Calls
    <2> QED
      BY <2>1, ConsoleKeeps
  <1>3. ValuesInv /\ [MCNext]_<<part, pvars, valuevars, consolevars, factoryvars, tablevars, proxyvars, typevars, gamevars>> => ValuesInv'
    <2> SUFFICES ASSUME ValuesInv, V!VNext \/ UNCHANGED valuevars PROVE ValuesInv'
      BY Zenon DEF MCNext
    <2>1. CASE UNCHANGED valuevars
      BY <2>1 DEF valuevars, ValuesInv, VarFits, V!ReadAsSet, V!NumbersAgree, V!script_get, V!GetInt, V!GetFloat, V!Unhindered
    <2> QED
      BY <2>1, ValuesKeep
  <1>4. ConsoleInv /\ ValuesInv => CvarsKept
    BY DEF ConsoleInv, ValuesInv, CvarsKept, V!ValueKept, C!ConsoleKept
  <1> QED
    BY <1>1, <1>2, <1>3, <1>4, PTL DEF MCSpec

-----------------------------------------------------------------------------
(* The members of entity classes. *)

\* A script that found a member finds it again, whichever lookups were answered
\* in between, unless the path that was kept for it is another one: what
\* SameAnswerAgain says of most paths.
FullPathsAnswerAgain ==
  /\ last.kind \in Kinds /\ last.before # <<>> /\ last.outcome # "wild"
  /\ last.path \in DOMAIN full => full[last.path] = last.path
  => last.outcome \in {"found", "unregistered"} /\ last.object = last.before

\* What the cache has was found for a path that leads there, as what it is.
CacheBacked ==
  \A tree \in {"send", "data"} : \A w \in DOMAIN cache[tree] :
    \E key \in DOMAIN answers : /\ key[1] \in Kinds /\ Tree(key[1]) = tree
                                /\ Wants(key[1]) = cache[tree][w][1] /\ w \in LookedFor(key[2])

\* No other full path was kept for it.
Direct(path) == path \in DOMAIN full => full[path] = path

\* What was found under a full path is kept under it.
AnswersCached ==
  \A key \in DOMAIN answers :
    key[1] \in Kinds /\ Direct(key[2]) =>
      /\ key[2] \in DOMAIN cache[Tree(key[1])]
      /\ cache[Tree(key[1])][key[2]] = answers[key]

\* The caches agree with the answers that scripts got.
CachesHold == DOMAIN cache = {"send", "data"} /\ CacheBacked /\ AnswersCached

\* A walk finds what it was asked for, and only a lazy one has a full path to keep.
LEMMA WalkAdmits ==
  ASSUME NEW kind, NEW lazy \in BOOLEAN, NEW path
  PROVE  /\ Walk(kind, lazy, path).outcome = "found" => Walk(kind, lazy, path).object[1] = Wants(kind)
         /\ Walk(kind, lazy, path).keeps => lazy
  <1> DEFINE st == Members(Tree(kind), lazy, path)
             ended == st.outcome = "walking"
             found == ended /\ Admits(Wants(kind), st)
             none == [outcome |-> "refused", object |-> <<>>, keeps |-> FALSE, full |-> <<>>]
             some == [outcome |-> IF found THEN "found" ELSE IF st.outcome = "crash" THEN "crash" ELSE "refused",
                      object |-> IF found THEN st.at ELSE <<>>, keeps |-> lazy /\ ended, full |-> st.path]
  <1>1. Walk(kind, lazy, path) = IF Head(path) \notin DOMAIN Classes THEN none ELSE some
    BY DEF Walk, Result
  <1>2. found => st.at[1] = Wants(kind)
    BY DEF Admits
  <1> HIDE DEF st
  <1>3. none.outcome # "found" /\ ~none.keeps
    OBVIOUS
  <1>4. some.keeps => lazy
    OBVIOUS
  <1>5. some.outcome = "found" => found
    OBVIOUS
  <1>6. found => some.object = st.at
    OBVIOUS
  <1> HIDE DEF none, some, found
  <1> QED
    BY <1>1, <1>2, <1>3, <1>4, <1>5, <1>6

\* The paths that were kept stay, and a lookup adds at most its own.
LEMMA LookedForGrows ==
  ASSUME NEW path, full' = full \/ (path \notin DOMAIN full /\ \E value : full' = With(full, path, value))
  PROVE  /\ \A p \in DOMAIN full : p \in DOMAIN full' /\ full'[p] = full[p]
         /\ \A p : LookedFor(p) \subseteq LookedFor(p)'
         /\ \A p : Direct(p)' => Direct(p)
  <1>1. \A p \in DOMAIN full : p \in DOMAIN full' /\ full'[p] = full[p]
    BY DEF With
  <1> QED
    BY <1>1 DEF LookedFor, Direct

\* What Answer leaves: the answers that there were, with the one given now if it
\* is the first, and a record of the lookup.
Answered(kind, path, outcome, object) ==
  /\ DOMAIN answers \subseteq DOMAIN answers'
  /\ \A key \in DOMAIN answers : answers'[key] = answers[key]
  /\ \A key \in DOMAIN answers' \ DOMAIN answers :
       key = <<kind, path>> /\ outcome = "found" /\ answers'[key] = object
  /\ outcome = "found" => <<kind, path>> \in DOMAIN answers'
  /\ last'.kind = kind /\ last'.path = path /\ last'.object = object
  /\ last'.outcome = outcome \/ (outcome = "found" /\ last'.outcome = "unregistered")
  /\ last'.before # <<>> => <<kind, path>> \in DOMAIN answers /\ last'.before = answers[<<kind, path>>]

LEMMA AnswerKeeps ==
  ASSUME NEW kind, NEW path, NEW outcome, NEW object, NEW registers \in BOOLEAN,
         Answer(kind, path, outcome, object, registers)
  PROVE  Answered(kind, path, outcome, object)
  <1> DEFINE key == <<kind, path>>
             given == outcome = "found" /\ (object \in wrapped[kind] \/ registers)
  <1>1. answers' = IF outcome = "found" /\ key \notin DOMAIN answers THEN With(answers, key, object) ELSE answers
    BY DEF Answer
  <1>2. last' = [kind |-> kind, path |-> path, outcome |-> IF outcome = "found" /\ ~given THEN "unregistered" ELSE outcome,
                 object |-> object, before |-> IF key \in DOMAIN answers THEN answers[key] ELSE <<>>]
    BY DEF Answer
  <1>3. /\ last'.kind = kind /\ last'.path = path /\ last'.object = object
        /\ last'.outcome = IF outcome = "found" /\ ~given THEN "unregistered" ELSE outcome
        /\ last'.before = IF key \in DOMAIN answers THEN answers[key] ELSE <<>>
    BY <1>2
  <1> HIDE DEF key, given
  <1>4. /\ DOMAIN answers \subseteq DOMAIN answers'
        /\ \A k \in DOMAIN answers : answers'[k] = answers[k]
        /\ \A k \in DOMAIN answers' \ DOMAIN answers : k = key /\ outcome = "found" /\ answers'[k] = object
        /\ outcome = "found" => key \in DOMAIN answers'
    BY <1>1 DEF With
  <1> QED
    BY <1>3, <1>4 DEF key, Answered

\* A lookup of a member of an entity class keeps the caches in agreement.
LEMMA LookupHolds ==
  ASSUME CachesHold, FindsWhatWasAsked, FullPathsAnswerAgain,
         NEW kind \in Kinds, NEW path, NEW reads_both \in BOOLEAN, NEW registers \in BOOLEAN,
         script_lookup(kind, path, reads_both, registers)
  PROVE  (CachesHold /\ FindsWhatWasAsked /\ FullPathsAnswerAgain)'
  <1> DEFINE lazy == path \notin DOMAIN full
             walked == IF lazy THEN path ELSE full[path]
             hit == Cached(kind, walked)
             w == Walk(kind, lazy, walked)
             tree == Tree(kind)
             outcome == IF hit THEN "found" ELSE IF reads_both THEN "wild" ELSE w.outcome
             object == IF hit THEN cache[tree][walked] ELSE IF reads_both THEN <<>> ELSE w.object
             adds == ~hit /\ ~reads_both /\ w.outcome = "found"
  <1>1. Answer(kind, path, outcome, object, registers)
    BY DEF script_lookup
  <1>2. Answered(kind, path, outcome, object)
    BY <1>1, AnswerKeeps
  <1>3. full' = full \/ (lazy /\ \E value : full' = With(full, path, value))
    BY WalkAdmits DEF script_lookup
  <1>4. cache' = IF adds THEN [cache EXCEPT ![tree] = With(@, walked, object)] ELSE cache
    BY DEF script_lookup
  <1>5. /\ adds => object[1] = Wants(kind) /\ outcome = "found"
        /\ outcome = "found" => hit \/ adds
        /\ hit => outcome = "found" /\ object = cache[tree][walked]
    BY WalkAdmits
  <1>6. hit = (walked \in DOMAIN cache[tree])
    BY DEF Cached
  <1>7. tree \in {"send", "data"} /\ DOMAIN cache = {"send", "data"}
    BY DEF Tree, CachesHold
  <1> HIDE DEF w, hit, outcome, object, adds, tree
  <1>8. /\ \A t \in {"send", "data"} : DOMAIN cache[t] \subseteq DOMAIN cache'[t]
        /\ \A t \in {"send", "data"} : \A p \in DOMAIN cache[t] : cache'[t][p] = cache[t][p]
        /\ \A t \in {"send", "data"} : \A p \in DOMAIN cache'[t] \ DOMAIN cache[t] :
             t = tree /\ p = walked /\ adds /\ cache'[t][p] = object
        /\ adds => walked \in DOMAIN cache'[tree] /\ cache'[tree][walked] = object
        /\ DOMAIN cache' = {"send", "data"}
    BY <1>4, <1>5, <1>6, <1>7 DEF With, adds
  <1>9. walked \in LookedFor(path)
    BY DEF LookedFor
  <1>10. /\ \A p \in DOMAIN full : p \in DOMAIN full' /\ full'[p] = full[p]
         /\ \A p : LookedFor(p) \subseteq LookedFor(p)'
         /\ \A p : Direct(p)' => Direct(p)
    BY <1>3, LookedForGrows
  <1>11. Direct(path) => walked = path
    BY DEF Direct
  <1> HIDE DEF walked, lazy
  <1>12. CacheBacked'
    <2> SUFFICES ASSUME NEW t \in {"send", "data"}, NEW p \in DOMAIN cache'[t]
                 PROVE  \E key \in DOMAIN answers' : /\ key[1] \in Kinds /\ Tree(key[1]) = t
                                                     /\ Wants(key[1]) = cache'[t][p][1] /\ p \in LookedFor(key[2])'
      BY DEF CacheBacked
    <2>1. CASE p \in DOMAIN cache[t]
      <3>1. PICK key \in DOMAIN answers : /\ key[1] \in Kinds /\ Tree(key[1]) = t
                                          /\ Wants(key[1]) = cache[t][p][1] /\ p \in LookedFor(key[2])
        BY <2>1 DEF CachesHold, CacheBacked
      <3> QED
        BY <3>1, <2>1, <1>8, <1>10, <1>2 DEF Answered
    <2>2. CASE p \notin DOMAIN cache[t]
      <3>1. t = tree /\ p = walked /\ adds /\ cache'[t][p] = object
        BY <2>2, <1>8
      <3>2. <<kind, path>> \in DOMAIN answers'
        BY <3>1, <1>5, <1>2 DEF Answered
      <3>3. <<kind, path>>[1] = kind /\ <<kind, path>>[2] = path
        OBVIOUS
      <3>4. Tree(kind) = t /\ Wants(kind) = cache'[t][p][1] /\ p \in LookedFor(path)'
        BY <3>1, <1>5, <1>9, <1>10 DEF tree
      <3> QED
        BY <3>2, <3>3, <3>4
    <2> QED
      BY <2>1, <2>2
  <1>13. AnswersCached'
    <2> SUFFICES ASSUME NEW key \in DOMAIN answers', key[1] \in Kinds, Direct(key[2])'
                 PROVE  /\ key[2] \in DOMAIN cache'[Tree(key[1])]
                        /\ cache'[Tree(key[1])][key[2]] = answers'[key]
      BY DEF AnswersCached
    <2>1. Direct(key[2]) /\ Tree(key[1]) \in {"send", "data"}
      BY <1>10 DEF Tree
    <2>2. CASE key \in DOMAIN answers
      <3>1. key[2] \in DOMAIN cache[Tree(key[1])] /\ cache[Tree(key[1])][key[2]] = answers[key]
        BY <2>1, <2>2 DEF CachesHold, AnswersCached
      <3>2. answers'[key] = answers[key]
        BY <2>2, <1>2 DEF Answered
      <3> QED
        BY <3>1, <3>2, <2>1, <1>8
    <2>3. CASE key \notin DOMAIN answers
      <3>1. key = <<kind, path>> /\ outcome = "found" /\ answers'[key] = object
        BY <2>3, <1>2 DEF Answered
      <3>2. key[1] = kind /\ key[2] = path /\ Tree(key[1]) = tree
        BY <3>1 DEF tree
      <3>3. walked = path
        BY <3>2, <2>1, <1>11
      <3>4. walked \in DOMAIN cache'[tree] /\ cache'[tree][walked] = object
        BY <3>1, <1>5, <1>6, <1>7, <1>8
      <3> QED
        BY <3>1, <3>2, <3>3, <3>4
    <2> QED
      BY <2>2, <2>3
  <1>14. FindsWhatWasAsked'
    <2>1. ASSUME outcome = "found", object[1] # Wants(kind)
          PROVE  \E key \in DOMAIN answers', p \in LookedFor(path)' :
                   Tree(key[1]) = Tree(kind) /\ Wants(key[1]) # Wants(kind) /\ p \in LookedFor(key[2])'
      <3>1. hit /\ object = cache[tree][walked]
        BY <2>1, <1>5
      <3>2. PICK key \in DOMAIN answers : /\ key[1] \in Kinds /\ Tree(key[1]) = tree
                                          /\ Wants(key[1]) = cache[tree][walked][1] /\ walked \in LookedFor(key[2])
        BY <3>1, <1>6, <1>7 DEF CachesHold, CacheBacked
      <3>3. key \in DOMAIN answers' /\ walked \in LookedFor(key[2])' /\ walked \in LookedFor(path)'
        BY <3>2, <1>9, <1>10, <1>2 DEF Answered
      <3>4. Tree(key[1]) = Tree(kind) /\ Wants(key[1]) # Wants(kind)
        BY <2>1, <3>1, <3>2 DEF tree
      <3> QED
        BY <3>3, <3>4
    <2>2. last'.kind = kind /\ last'.path = path /\ last'.object = object /\ (last'.outcome = "found" => outcome = "found")
      BY <1>2 DEF Answered
    <2> QED
      BY <2>1, <2>2 DEF FindsWhatWasAsked, LookedFor
  <1>15. FullPathsAnswerAgain'
    <2> SUFFICES ASSUME last'.before # <<>>, last'.path \in DOMAIN full' => full'[last'.path] = last'.path, last'.outcome # "wild"
                 PROVE  last'.outcome \in {"found", "unregistered"} /\ last'.object = last'.before
      BY DEF FullPathsAnswerAgain
    <2>1. /\ last'.path = path /\ last'.object = object
          /\ <<kind, path>> \in DOMAIN answers /\ last'.before = answers[<<kind, path>>]
      BY <1>2 DEF Answered
    <2>2. Direct(path) /\ walked = path
      <3>1. Direct(path)'
        BY <2>1 DEF Direct
      <3> QED
        BY <3>1, <1>10, <1>11
    <2>3. <<kind, path>>[1] = kind /\ <<kind, path>>[2] = path
      OBVIOUS
    <2>4. path \in DOMAIN cache[tree] /\ cache[tree][path] = answers[<<kind, path>>]
      BY <2>1, <2>2, <2>3 DEF CachesHold, AnswersCached, tree
    <2>5. outcome = "found" /\ object = answers[<<kind, path>>]
      BY <2>2, <2>4, <1>5, <1>6
    <2> QED
      BY <2>1, <2>5, <1>2 DEF Answered
  <1> QED
    BY <1>8, <1>12, <1>13, <1>14, <1>15 DEF CachesHold

\* Looking up a server class leaves the caches of props alone.
LEMMA OtherLookupHolds ==
  ASSUME CachesHold, NEW kind, kind \notin Kinds, NEW path, NEW outcome, NEW object, NEW registers \in BOOLEAN,
         Answer(kind, path, outcome, object, registers), UNCHANGED <<full, cache>>
  PROVE  (CachesHold /\ FindsWhatWasAsked /\ FullPathsAnswerAgain)'
  <1>1. Answered(kind, path, outcome, object)
    BY AnswerKeeps
  <1>2. /\ DOMAIN answers \subseteq DOMAIN answers'
        /\ \A key \in DOMAIN answers : answers'[key] = answers[key]
    BY <1>1 DEF Answered
  <1>3. last'.kind \notin Kinds
    BY <1>1 DEF Answered
  <1>4. \A key \in DOMAIN answers' \ DOMAIN answers : key[1] \notin Kinds
    BY <1>1 DEF Answered
  <1>5. \A p : LookedFor(p)' = LookedFor(p) /\ Direct(p)' = Direct(p)
    BY DEF LookedFor, Direct
  <1>6. CacheBacked'
    <2> SUFFICES ASSUME NEW t \in {"send", "data"}, NEW p \in DOMAIN cache'[t]
                 PROVE  \E key \in DOMAIN answers' : /\ key[1] \in Kinds /\ Tree(key[1]) = t
                                                     /\ Wants(key[1]) = cache'[t][p][1] /\ p \in LookedFor(key[2])'
      BY DEF CacheBacked
    <2>1. PICK key \in DOMAIN answers : /\ key[1] \in Kinds /\ Tree(key[1]) = t
                                        /\ Wants(key[1]) = cache[t][p][1] /\ p \in LookedFor(key[2])
      BY DEF CachesHold, CacheBacked
    <2> QED
      BY <2>1, <1>5, <1>2
  <1>7. AnswersCached'
    <2> SUFFICES ASSUME NEW key \in DOMAIN answers', key[1] \in Kinds, Direct(key[2])'
                 PROVE  /\ key[2] \in DOMAIN cache'[Tree(key[1])]
                        /\ cache'[Tree(key[1])][key[2]] = answers'[key]
      BY DEF AnswersCached
    <2>1. key \in DOMAIN answers /\ Direct(key[2])
      BY <1>4, <1>5
    <2> QED
      BY <2>1, <1>2 DEF CachesHold, AnswersCached
  <1> QED
    BY <1>3, <1>6, <1>7 DEF CachesHold, FindsWhatWasAsked, FullPathsAnswerAgain

\* A script that asks for a prop gets a prop, and for a table a table, unless the
\* place was looked up as the other before; and a member that was found is found
\* again, if the path that was kept for it is its own (singleton.cpp). So it is for
\* any tables and maps of the game, whatever the walk through them does.
THEOREM PropsAreFoundAgain == MCSpec => [](FindsWhatWasAsked /\ FullPathsAnswerAgain)
  <1>1. MCInit => CachesHold /\ FindsWhatWasAsked /\ FullPathsAnswerAgain
    BY DEF MCInit, PInit, NoLookup, None, Kinds, CachesHold, CacheBacked, AnswersCached, FindsWhatWasAsked,
           FullPathsAnswerAgain
  <1>2. ASSUME CachesHold, FindsWhatWasAsked, FullPathsAnswerAgain,
               [MCNext]_<<part, pvars, valuevars, consolevars, factoryvars, tablevars, proxyvars, typevars, gamevars>>
        PROVE  (CachesHold /\ FindsWhatWasAsked /\ FullPathsAnswerAgain)'
    <2>1. CASE PNext
      <3>1. ASSUME NEW kind \in Kinds, NEW path \in Paths, NEW reads_both \in BOOLEAN, NEW registers \in BOOLEAN,
                   script_lookup(kind, path, reads_both, registers)
            PROVE  (CachesHold /\ FindsWhatWasAsked /\ FullPathsAnswerAgain)'
        BY <3>1, <1>2, LookupHolds
      <3>2. ASSUME NEW path, NEW registers \in BOOLEAN, script_lookup_serverclass(Head(path), registers)
            PROVE  (CachesHold /\ FindsWhatWasAsked /\ FullPathsAnswerAgain)'
        <4>1. "serverclass" \notin Kinds
          BY DEF Kinds
        <4>2. \E outcome, object : Answer("serverclass", <<Head(path)>>, outcome, object, registers)
          BY <3>2 DEF script_lookup_serverclass
        <4>3. UNCHANGED <<full, cache>>
          BY <3>2 DEF script_lookup_serverclass
        <4> QED
          BY <1>2, <4>1, <4>2, <4>3, OtherLookupHolds
      <3> QED
        BY <2>1, <3>1, <3>2 DEF PNext
    <2>2. CASE UNCHANGED pvars
      <3>1. full' = full /\ cache' = cache /\ answers' = answers /\ last' = last
        BY <2>2 DEF pvars
      <3>2. CachesHold'
        BY <3>1, <1>2 DEF CachesHold, CacheBacked, AnswersCached, LookedFor, Direct
      <3>3. FindsWhatWasAsked'
        BY <3>1, <1>2 DEF FindsWhatWasAsked, LookedFor
      <3> QED
        BY <3>1, <3>2, <3>3, <1>2 DEF FullPathsAnswerAgain
    <2> QED
      BY <1>2, <2>1, <2>2 DEF MCNext
  <1> QED
    BY <1>1, <1>2, PTL DEF MCSpec

\* And a member of a data map so in every case that SameAnswerAgain does not except.
THEOREM DataAnswersAgain == MCSpec => [](Tree(last.kind) = "data" => SameAnswerAgain)
  <1>1. FullPathsAnswerAgain => (Tree(last.kind) = "data" => SameAnswerAgain)
    BY DEF FullPathsAnswerAgain, SameAnswerAgain
  <1> QED
    BY <1>1, PropsAreFoundAgain, PTL

-----------------------------------------------------------------------------
(* The mods and their plugins *)

\* The records that handlers compute.

Worlds == [objects : SUBSET Plugins, running : SUBSET Plugins, watching : SUBSET Plugins,
           functions : [Plugins -> SUBSET Events], told : [Plugins -> SUBSET Events],
           strange : SUBSET (Plugins \X Events)]

\* A plugin that runs has its functions and knows that it was loaded; one that
\* does not knows nothing and could be told of string tables only.
Sane(w) ==
  /\ w \in Worlds /\ w.running \subseteq w.objects
  /\ \A p \in w.running : w.functions[p] = Events /\ "plugin_loaded" \in w.told[p]
  /\ \A p \in Plugins \ w.running : /\ w.functions[p] \subseteq {"string_tables_created"}
                                    /\ w.told[p] = {}

USE ConstAssumption

\* Expected and Knowing, event by event.
LEMMA Meaning ==
  ASSUME NEW t
  PROVE  /\ Expected("plugin_loaded", t) <=> t = {}
         /\ Expected("plugin_unloaded", t) <=> "plugin_loaded" \in t
         /\ Expected("map_loaded", t) <=> "plugin_loaded" \in t /\ "map_loaded" \notin t
         /\ Expected("map_active", t) <=> "map_loaded" \in t /\ "map_active" \notin t
         /\ Expected("map_unloaded", t) <=> "map_loaded" \in t
         /\ Expected("string_tables_created", t) <=>
              "plugin_loaded" \in t /\ "string_tables_created" \notin t
         /\ Expected("all_mods_loaded", t) <=>
              "plugin_loaded" \in t /\ "all_mods_loaded" \notin t
         /\ Knowing("plugin_unloaded", t) = {}
         /\ Knowing("map_unloaded", t) = t \ {"map_loaded", "map_active"}
         /\ \A e \in Events \ {"plugin_unloaded", "map_unloaded"} : Knowing(e, t) = t \cup {e}
  BY DEF Expected, Knowing, Events

\* What typed_function::operator() makes of the world w, for the plugins ps.
Called(w, ps, e, c) ==
  /\ c \in Worlds
  /\ c.objects = w.objects /\ c.running = w.running /\ c.watching = w.watching
  /\ c.functions = w.functions
  /\ \A p \in Plugins :
       c.told[p] = IF p \in ps /\ e \in w.functions[p] THEN Knowing(e, w.told[p]) ELSE w.told[p]
  /\ \A p \in Plugins, f \in Events :
       <<p, f>> \in c.strange => <<p, f>> \in w.strange \/ f = e
  /\ (\A p \in ps : e \in w.functions[p] => Expected(e, w.told[p])) => c.strange = w.strange

\* typed_function::operator() reaches the plugins that have the function.
LEMMA CallIs ==
  ASSUME NEW w \in Worlds, NEW ps \in SUBSET Plugins, NEW e \in Events
  PROVE  Called(w, ps, e, Call(w, ps, e))
<1> DEFINE hearing == {p \in ps : e \in w.functions[p]}
           told2 == [p \in Plugins |-> IF p \in hearing THEN Knowing(e, w.told[p]) ELSE w.told[p]]
           odd == {<<p, e>> : p \in {q \in hearing : ~Expected(e, w.told[q])}}
           c == Call(w, ps, e)
<1>1. c = [w EXCEPT !.told = told2, !.strange = w.strange \cup odd]
  BY DEF Call
<1>2. told2 \in [Plugins -> SUBSET Events]
  <2>1. \A p \in Plugins : w.told[p] \in SUBSET Events
    BY DEF Worlds
  <2>2. \A t \in SUBSET Events : Knowing(e, t) \in SUBSET Events
    BY Meaning
  <2> QED
    BY <2>1, <2>2
<1>3. odd \subseteq Plugins \X Events
  OBVIOUS
<1> HIDE DEF told2, odd
<1>4. /\ c \in Worlds /\ c.told = told2 /\ c.strange = w.strange \cup odd
      /\ c.objects = w.objects /\ c.running = w.running /\ c.watching = w.watching
      /\ c.functions = w.functions
  BY <1>1, <1>2, <1>3 DEF Worlds
<1> HIDE DEF c
<1>5. \A p \in Plugins : c.told[p] = IF p \in ps /\ e \in w.functions[p] THEN Knowing(e, w.told[p]) ELSE w.told[p]
  BY <1>4 DEF told2
<1>6. \A p \in Plugins, f \in Events :
        <<p, f>> \in c.strange => <<p, f>> \in w.strange \/ f = e
  BY <1>4 DEF odd
<1>7. (\A p \in ps : e \in w.functions[p] => Expected(e, w.told[p])) => c.strange = w.strange
  BY <1>4 DEF odd
<1>8. Called(w, ps, e, c)
  BY <1>4, <1>5, <1>6, <1>7 DEF Called
<1> QED
  BY <1>8 DEF c

\* plugin::unload leaves what it unloads with nothing to be told.
LEMMA UnloadTells ==
  ASSUME NEW w, Sane(w), NEW ps \in SUBSET Plugins
  PROVE  LET u == unload(w, ps) IN
         /\ Sane(u) /\ u.objects = w.objects /\ u.running = w.running \ ps
         /\ u.strange = w.strange
         /\ \A p \in Plugins \ ps : u.told[p] = w.told[p] 
<1> DEFINE gone == Call(w, ps, "plugin_unloaded")
           functions2 == [p \in Plugins |->
                  IF p \in ps THEN gone.functions[p] \cap {"string_tables_created"} ELSE gone.functions[p]]
           u == unload(w, ps)
<1>1. /\ gone \in Worlds /\ gone.objects = w.objects /\ gone.running = w.running
      /\ gone.functions = w.functions /\ gone.strange = w.strange
      /\ \A p \in Plugins : gone.told[p] = IF p \in ps THEN {} ELSE w.told[p]
  <2>1. w \in Worlds /\ "plugin_unloaded" \in Events
    BY DEF Sane, Events
  <2>2. \A p \in Plugins : "plugin_unloaded" \in w.functions[p] => p \in w.running
    BY DEF Sane
  <2>3. \A p \in ps : "plugin_unloaded" \in w.functions[p] => Expected("plugin_unloaded", w.told[p])
    BY <2>2, Meaning DEF Sane
  <2>4. \A p \in Plugins \ w.running : w.told[p] = {}
    BY DEF Sane
  <2>5. \A p \in w.running : "plugin_unloaded" \in w.functions[p]
    BY DEF Sane, Events
  <2>6. \A p \in Plugins : Knowing("plugin_unloaded", w.told[p]) = {}
    BY Meaning
  <2>7. Called(w, ps, "plugin_unloaded", gone)
    BY CallIs, <2>1
  <2> HIDE DEF gone
  <2> QED
    BY <2>2, <2>3, <2>4, <2>5, <2>6, <2>7 DEF Called
<1>2. u = [gone EXCEPT !.running = gone.running \ ps, !.watching = gone.watching \ ps,
                       !.functions = functions2]
  BY DEF unload
<1>3. functions2 \in [Plugins -> SUBSET Events]
  BY <1>1 DEF Worlds
<1> HIDE DEF gone, functions2
<1>4. /\ u \in Worlds /\ u.objects = w.objects /\ u.running = w.running \ ps
      /\ u.functions = functions2 /\ u.told = gone.told /\ u.strange = w.strange
  BY <1>1, <1>2, <1>3 DEF Worlds
<1> HIDE DEF u
<1>5. Sane(u)
  <2>1. u.running \subseteq Plugins /\ w.running \subseteq Plugins /\ u.running \subseteq u.objects
    BY <1>4 DEF Sane, Worlds
  <2>2. ASSUME NEW p \in u.running PROVE u.functions[p] = Events /\ "plugin_loaded" \in u.told[p]
    BY <2>1, <1>1, <1>4 DEF Sane, functions2
  <2>3. ASSUME NEW p \in Plugins \ u.running
        PROVE  u.functions[p] \subseteq {"string_tables_created"} /\ u.told[p] = {}
    BY <2>1, <1>1, <1>4 DEF Sane, functions2
  <2> QED
    BY <1>4, <2>1, <2>2, <2>3 DEF Sane
<1> QED
  BY <1>1, <1>4, <1>5 DEF u

\* ~plugin: nothing is left of the plugin.
LEMMA DestroyedTells ==
  ASSUME NEW w, Sane(w), NEW ps \in SUBSET Plugins
  PROVE  LET u == Destroyed(w, ps) IN
         /\ Sane(u) /\ u.objects = w.objects \ ps /\ u.running = w.running \ ps
         /\ u.strange = w.strange
         /\ \A p \in Plugins \ ps : u.told[p] = w.told[p] 
<1> DEFINE gone == unload(w, ps)
           functions2 == [p \in Plugins |-> IF p \in ps THEN {} ELSE gone.functions[p]]
           told2 == [p \in Plugins |-> IF p \in ps THEN {} ELSE gone.told[p]]
           u == Destroyed(w, ps)
<1>1. /\ Sane(gone) /\ gone.objects = w.objects /\ gone.running = w.running \ ps
      /\ gone.strange = w.strange /\ \A p \in Plugins \ ps : gone.told[p] = w.told[p] 
  BY UnloadTells
<1>2. u = [gone EXCEPT !.objects = gone.objects \ ps, !.functions = functions2, !.told = told2]
  BY DEF Destroyed
<1> HIDE DEF gone
<1>3. functions2 \in [Plugins -> SUBSET Events] /\ told2 \in [Plugins -> SUBSET Events]
  BY <1>1 DEF Worlds, Sane
<1> HIDE DEF functions2, told2
<1>4. /\ u \in Worlds /\ u.objects = w.objects \ ps /\ u.running = w.running \ ps
      /\ u.functions = functions2 /\ u.told = told2 /\ u.strange = w.strange
  <2>1. gone \in Worlds
    BY <1>1 DEF Sane
  <2> QED
    BY <1>1, <1>2, <1>3, <2>1 DEF Worlds
<1> HIDE DEF u
<1>5. Sane(u)
  <2>1. u.running \subseteq Plugins /\ w.running \subseteq Plugins /\ u.running \subseteq u.objects
    BY <1>4 DEF Sane, Worlds
  <2>2. ASSUME NEW p \in u.running PROVE u.functions[p] = Events /\ "plugin_loaded" \in u.told[p]
    BY <2>1, <1>1, <1>4 DEF Sane, functions2, told2
  <2>3. ASSUME NEW p \in Plugins \ u.running
        PROVE  u.functions[p] \subseteq {"string_tables_created"} /\ u.told[p] = {}
    BY <2>1, <1>1, <1>4 DEF Sane, functions2, told2
  <2> QED
    BY <1>4, <2>1, <2>2, <2>3 DEF Sane
<1> QED
  BY <1>1, <1>4, <1>5 DEF u, told2

\* What a plugin that is loaded late has to catch up with.
Missed == (IF is_map_loaded THEN {"map_loaded"} ELSE {})
          \cup (IF is_map_active THEN {"map_active"} ELSE {})
          \cup (IF are_string_tables_created THEN {"string_tables_created"} ELSE {})

\* Telling running plugins what makes sense to them.
LEMMA TellRunning ==
  ASSUME NEW w, Sane(w), NEW ps \in SUBSET w.running, NEW e \in Events \ {"plugin_unloaded"},
         \A p \in ps : Expected(e, w.told[p])
  PROVE  LET c == Call(w, ps, e) IN
         /\ Sane(c) /\ c.objects = w.objects /\ c.running = w.running
         /\ c.strange = w.strange
         /\ \A p \in Plugins : c.told[p] = IF p \in ps THEN Knowing(e, w.told[p]) ELSE w.told[p]
<1> DEFINE c == Call(w, ps, e)
<1>1. w \in Worlds /\ ps \in SUBSET Plugins
  BY DEF Sane, Worlds
<1>2. \A p \in ps : e \in w.functions[p]
  BY DEF Sane
<1>3. /\ c \in Worlds /\ c.objects = w.objects /\ c.running = w.running
      /\ c.functions = w.functions /\ c.strange = w.strange
      /\ \A p \in Plugins : c.told[p] = IF p \in ps THEN Knowing(e, w.told[p]) ELSE w.told[p]
  <2>1. Called(w, ps, e, c)
    BY <1>1, CallIs
  <2> HIDE DEF c
  <2> QED
    BY <1>1, <1>2, <2>1 DEF Called
<1>4. \A p \in w.running : "plugin_loaded" \in w.told[p]
  BY DEF Sane
<1>5. \A p \in ps : "plugin_loaded" \in Knowing(e, w.told[p])
  BY <1>4, Meaning
<1> HIDE DEF c
<1>6. Sane(c)
  <2>1. c.running \subseteq Plugins /\ c.running \subseteq c.objects
    BY <1>1, <1>3 DEF Sane, Worlds
  <2>2. ASSUME NEW p \in c.running PROVE c.functions[p] = Events /\ "plugin_loaded" \in c.told[p]
    BY <1>3, <1>4, <1>5, <2>1 DEF Sane
  <2>3. ASSUME NEW p \in Plugins \ c.running
        PROVE  c.functions[p] \subseteq {"string_tables_created"} /\ c.told[p] = {}
    BY <1>3 DEF Sane
  <2> QED
    BY <1>3, <2>1, <2>2, <2>3 DEF Sane
<1> QED
  BY <1>3, <1>6 DEF c

\* plugin::load tells a plugin all it has missed.
LEMMA LoadTells ==
  ASSUME NEW w, Sane(w), NEW ps \in SUBSET (w.objects \ w.running),
         is_map_active => is_map_loaded
  PROVE  LET l == load(w, ps) IN
         /\ Sane(l) /\ l.objects = w.objects /\ l.running = w.running \cup ps
         /\ l.strange = w.strange
         /\ \A p \in ps : l.told[p] = {"plugin_loaded"} \cup Missed
         /\ \A p \in Plugins \ ps : l.told[p] = w.told[p]
<1> DEFINE functions2 == [p \in Plugins |-> IF p \in ps THEN Events ELSE w.functions[p]]
           on == [w EXCEPT !.running = w.running \cup ps,
                           !.watching = w.watching \cup (ps \cap AutoReload),
                           !.functions = functions2]
           born   == Call(on, ps, "plugin_loaded")
           mapped == IF is_map_loaded THEN Call(born, ps, "map_loaded") ELSE born
           played == IF is_map_active THEN Call(mapped, ps, "map_active") ELSE mapped
           l == IF are_string_tables_created THEN Call(played, ps, "string_tables_created") ELSE played
           Is(u, k) == /\ Sane(u) /\ u.objects = w.objects /\ u.running = w.running \cup ps
                       /\ u.strange = w.strange
                       /\ \A p \in ps : u.told[p] = {"plugin_loaded"} \cup k
                       /\ \A p \in Plugins \ ps : u.told[p] = w.told[p]
<1>1. load(w, ps) = l
  BY DEF load
<1>2. w \in Worlds /\ ps \subseteq Plugins
  BY DEF Sane, Worlds
<1>3. functions2 \in [Plugins -> SUBSET Events]
  BY <1>2 DEF Worlds
<1>4. /\ on \in Worlds /\ on.objects = w.objects /\ on.running = w.running \cup ps
      /\ on.functions = functions2 /\ on.told = w.told /\ on.strange = w.strange
  <2> HIDE DEF functions2
  <2> QED
    BY <1>2, <1>3 DEF Worlds
<1>5. \A p \in ps : w.told[p] = {}
  BY <1>2 DEF Sane
<1> HIDE DEF on
<1>6. \A p \in ps : Expected("plugin_loaded", on.told[p])
  BY <1>4, <1>5, Meaning
<1>7. /\ born \in Worlds /\ born.objects = w.objects /\ born.running = w.running \cup ps
      /\ born.functions = functions2 /\ born.strange = w.strange
      /\ \A p \in Plugins : born.told[p] = IF p \in ps /\ "plugin_loaded" \in functions2[p]
                                         THEN Knowing("plugin_loaded", w.told[p]) ELSE w.told[p]
  <2>1. Called(on, ps, "plugin_loaded", born)
    <3>1. "plugin_loaded" \in Events
      BY DEF Events
    <3>2. on \in Worlds /\ ps \in SUBSET Plugins
      BY <1>2, <1>4
    <3> HIDE DEF functions2
    <3> QED
      BY <3>1, <3>2, CallIs
  <2> HIDE DEF born
  <2> QED
    BY <1>4, <1>6, <2>1 DEF Called
<1>8. \A p \in ps : born.told[p] = {"plugin_loaded"}
  <2>1. \A p \in ps : "plugin_loaded" \in functions2[p]
    BY <1>2 DEF Events
  <2>2. Knowing("plugin_loaded", {}) = {"plugin_loaded"}
    BY DEF Knowing
  <2> QED
    BY <1>2, <1>5, <1>7, <2>1, <2>2
<1> HIDE DEF born
<1>9. Is(born, {})
  <2>1. w.running \subseteq Plugins /\ born.running \subseteq Plugins /\ born.running \subseteq born.objects
    BY <1>2, <1>7 DEF Worlds, Sane
  <2>2. ASSUME NEW p \in born.running
        PROVE  born.functions[p] = Events /\ "plugin_loaded" \in born.told[p]
    BY <1>7, <1>8, <2>1 DEF Sane
  <2>3. ASSUME NEW p \in Plugins \ born.running
        PROVE  born.functions[p] \subseteq {"string_tables_created"} /\ born.told[p] = {}
    BY <1>7, <2>1 DEF Sane
  <2>4. Sane(born)
    BY <1>7, <2>1, <2>2, <2>3 DEF Sane
  <2> QED
    BY <1>7, <1>8, <2>4
<1> DEFINE k1 == IF is_map_loaded THEN {"map_loaded"} ELSE {}
           k2 == k1 \cup (IF is_map_active THEN {"map_active"} ELSE {})
<1>10. ASSUME NEW u, NEW k, Is(u, k), NEW e \in Events \ {"plugin_unloaded", "map_unloaded"},
              \A t : t = {"plugin_loaded"} \cup k => Expected(e, t)
       PROVE  Is(Call(u, ps, e), k \cup {e})
  <2> DEFINE c == Call(u, ps, e)
  <2>1. \A p \in ps : Expected(e, u.told[p])
    BY <1>10
  <2>2. /\ Sane(c) /\ c.objects = u.objects /\ c.running = u.running /\ c.strange = u.strange
        /\ \A p \in Plugins : c.told[p] = IF p \in ps THEN Knowing(e, u.told[p]) ELSE u.told[p]
    <3>1. Sane(u) /\ ps \in SUBSET u.running /\ e \in Events \ {"plugin_unloaded"}
      BY <1>10
    <3> QED
      BY <2>1, <3>1, TellRunning
  <2> HIDE DEF c
  <2>3. \A p \in ps : Knowing(e, u.told[p]) = u.told[p] \cup {e}
    BY <1>10, Meaning
  <2>4. \A p \in ps : c.told[p] = {"plugin_loaded"} \cup (k \cup {e})
    BY <1>2, <1>10, <2>2, <2>3
  <2>5. Is(c, k \cup {e})
    BY <1>10, <2>2, <2>4
  <2> QED
    BY <2>5 DEF c
<1> HIDE DEF Is
<1>11. Is(mapped, k1)
  <2>1. \A s : s = {"plugin_loaded"} => Expected("map_loaded", s)
    BY Meaning
  <2>2. Is(Call(born, ps, "map_loaded"), {"map_loaded"})
    BY <1>9, <1>10, <2>1 DEF Events
  <2> QED
    BY <1>9, <2>2
<1> HIDE DEF mapped
<1>12. Is(played, k2)
  <2>1. \A s : s = {"plugin_loaded"} \cup {"map_loaded"} => Expected("map_active", s)
    BY Meaning
  <2>2. CASE is_map_active
    <3>1. Is(mapped, {"map_loaded"})
      BY <1>11, <2>2
    <3>2. Is(Call(mapped, ps, "map_active"), {"map_loaded"} \cup {"map_active"})
      BY <1>10, <2>1, <3>1 DEF Events
    <3> QED
      BY <2>2, <3>2
  <2>3. CASE ~is_map_active
    BY <1>11, <2>3
  <2> QED
    BY <2>2, <2>3
<1> HIDE DEF played
<1>13. Is(l, Missed)
  <2>1. \A s : s = {"plugin_loaded"} \cup k2 => Expected("string_tables_created", s)
    BY Meaning
  <2>2. Is(Call(played, ps, "string_tables_created"), k2 \cup {"string_tables_created"})
    <3> HIDE DEF k2
    <3> QED
      BY <1>10, <1>12, <2>1 DEF Events
  <2>3. Missed = k2 \cup (IF are_string_tables_created THEN {"string_tables_created"} ELSE {})
    BY DEF Missed
  <2> HIDE DEF k2
  <2>4. CASE are_string_tables_created
    BY <2>2, <2>3, <2>4
  <2>5. CASE ~are_string_tables_created
    BY <1>12, <2>3, <2>5
  <2> QED
    BY <2>4, <2>5
<1> HIDE DEF l
<1> QED
  BY <1>1, <1>13 DEF Is

\* mod::unload and the end of its plugins: the others know what they knew.
LEMMA ModClearedTells ==
  ASSUME NEW w, Sane(w), NEW m
  PROVE  LET u == ModCleared(w, m) IN
         /\ Sane(u) /\ u.strange = w.strange
         /\ u.objects = {p \in w.objects : ModOf[p] # m}
         /\ u.running = {p \in w.running : ModOf[p] # m}
         /\ \A p \in Plugins : ModOf[p] # m => u.told[p] = w.told[p]
<1> DEFINE ps == Of(m, w.objects)
           gone == unload(w, ps)
           u == Destroyed(gone, ps)
<1>1. ps \in SUBSET Plugins /\ w.running \subseteq w.objects /\ w.objects \subseteq Plugins
  BY DEF Of, Sane, Worlds
<1>2. /\ Sane(gone) /\ gone.objects = w.objects /\ gone.running = w.running \ ps
      /\ gone.strange = w.strange /\ \A p \in Plugins \ ps : gone.told[p] = w.told[p]
  BY <1>1, UnloadTells
<1>3. ModCleared(w, m) = u
  BY <1>2 DEF ModCleared, ModUnload
<1> HIDE DEF gone
<1>4. /\ Sane(u) /\ u.objects = gone.objects \ ps /\ u.running = gone.running \ ps
      /\ u.strange = gone.strange /\ \A p \in Plugins \ ps : u.told[p] = gone.told[p]
  BY <1>1, <1>2, DestroyedTells
<1> HIDE DEF u
<1>5. \A p \in Plugins : ModOf[p] # m => p \notin ps
  BY DEF Of
<1>6. \A p \in w.objects : p \in ps <=> ModOf[p] = m
  BY DEF Of
<1> HIDE DEF ps
<1>7. /\ u.objects = {p \in w.objects : ModOf[p] # m}
      /\ u.running = {p \in w.running : ModOf[p] # m}
  BY <1>1, <1>2, <1>4, <1>6
<1>8. \A p \in Plugins : ModOf[p] # m => u.told[p] = w.told[p]
  BY <1>2, <1>4, <1>5
<1> QED
  BY <1>2, <1>3, <1>4, <1>7, <1>8

\* Unloading every mod leaves no plugin.
LEMMA AllClearedTells ==
  ASSUME NEW w, Sane(w)
  PROVE  LET u == AllCleared(w) IN
         Sane(u) /\ u.strange = w.strange /\ u.objects = {} /\ u.running = {}
<1> DEFINE gone == unload(w, w.objects)
           u == Destroyed(gone, w.objects)
<1>1. w.objects \in SUBSET Plugins /\ w.running \subseteq w.objects
  BY DEF Sane, Worlds
<1>2. /\ Sane(gone) /\ gone.objects = w.objects /\ gone.strange = w.strange
      /\ gone.running = w.running \ w.objects
  BY <1>1, UnloadTells
<1> HIDE DEF gone
<1>3. /\ Sane(u) /\ u.objects = gone.objects \ w.objects /\ u.strange = gone.strange
      /\ u.running = gone.running \ w.objects
  BY <1>1, <1>2, DestroyedTells
<1> HIDE DEF u
<1> QED
  BY <1>1, <1>2, <1>3 DEF AllCleared, gone, u

\* n is w after the plugins ps were found and those of good loaded.
Fresh(m, w, ps, good, n) ==
  /\ Sane(n) /\ n.strange = w.strange
  /\ n.objects = w.objects \cup ps /\ n.running = w.running \cup good
  /\ \A p \in Plugins : ModOf[p] # m => n.told[p] = w.told[p]
  /\ \A p \in good : ModOf[p] = m /\ n.told[p] = {"plugin_loaded"} \cup Missed

\* mod::load: the plugins of the mod that run know all that has happened.
LEMMA ModLoadTells ==
  ASSUME NEW w, Sane(w), NEW m, \A p \in w.objects : ModOf[p] # m,
         NEW ps \in SUBSET Of(m, Plugins), NEW good \in SUBSET ps,
         is_map_active => is_map_loaded
  PROVE  Fresh(m, w, ps, good, ModLoad(w, ps, good))
<1> DEFINE found == [w EXCEPT !.objects = w.objects \cup ps]
           n == load(found, good)
<1>1. /\ w \in Worlds /\ ps \subseteq Plugins /\ good \subseteq Plugins
      /\ w.running \subseteq w.objects /\ w.objects \subseteq Plugins
      /\ \A p \in ps : ModOf[p] = m
  BY DEF Of, Sane, Worlds
<1>2. /\ found \in Worlds /\ found.objects = w.objects \cup ps /\ found.running = w.running
      /\ found.functions = w.functions /\ found.told = w.told /\ found.strange = w.strange
  BY <1>1 DEF Worlds
<1>3. ModLoad(w, ps, good) = n
  BY DEF ModLoad
<1> HIDE DEF found
<1>4. Sane(found)
  BY <1>1, <1>2 DEF Sane
<1>5. good \in SUBSET (found.objects \ found.running)
  BY <1>1, <1>2
<1>6. /\ Sane(n) /\ n.objects = found.objects /\ n.running = found.running \cup good
      /\ n.strange = found.strange
      /\ \A p \in good : n.told[p] = {"plugin_loaded"} \cup Missed
      /\ \A p \in Plugins \ good : n.told[p] = found.told[p]
  BY <1>4, <1>5, LoadTells
<1> HIDE DEF n
<1>7. \A p \in Plugins : ModOf[p] # m => n.told[p] = w.told[p]
  BY <1>1, <1>2, <1>6
<1> QED
  BY <1>1, <1>2, <1>3, <1>6, <1>7 DEF Fresh

\* A handler that ends with the world w leaves w behind.
LEMMA Committed == ASSUME NEW w \in Worlds, Commit(w) PROVE World' = w
  BY DEF Commit, World, Worlds

\* Telling the running plugins of the loaded mods.
LEMMA NotifyTells ==
  ASSUME NEW w, Sane(w), NEW e \in Events \ {"plugin_unloaded"},
         \A p \in w.running : ModOf[p] \in loaded => Expected(e, w.told[p])
  PROVE  LET n == Notify(w, e) IN
         /\ Sane(n) /\ n.objects = w.objects /\ n.running = w.running /\ n.strange = w.strange
         /\ \A p \in Plugins : n.told[p] = IF p \in w.running /\ ModOf[p] \in loaded
                                           THEN Knowing(e, w.told[p]) ELSE w.told[p]
<1> DEFINE ps == {p \in w.objects \cap w.running : ModOf[p] \in loaded}
<1>1. w.running \subseteq w.objects
  BY DEF Sane
<1>2. ps \in SUBSET w.running /\ \A p \in ps : Expected(e, w.told[p])
  OBVIOUS
<1>3. \A p \in Plugins : p \in ps <=> p \in w.running /\ ModOf[p] \in loaded
  BY <1>1
<1>4. Notify(w, e) = Call(w, ps, e)
  BY DEF Notify
<1> HIDE DEF ps
<1> QED
  BY <1>2, <1>3, <1>4, TellRunning

-----------------------------------------------------------------------------
(* One mod is loaded or reloaded *)

Announce(a, m, n) == IF a THEN CallOnPlugins(n, m, "all_mods_loaded") ELSE n

\* mod::call_func_on_plugins for a mod whose plugins have not heard of it.
LEMMA AnnounceTells ==
  ASSUME NEW n, Sane(n), NEW m,
         \A p \in n.running : ModOf[p] = m => "all_mods_loaded" \notin n.told[p]
  PROVE  LET c == CallOnPlugins(n, m, "all_mods_loaded") IN
         /\ Sane(c) /\ c.objects = n.objects /\ c.running = n.running /\ c.strange = n.strange
         /\ \A p \in Plugins : c.told[p] = IF p \in n.running /\ ModOf[p] = m
                                           THEN n.told[p] \cup {"all_mods_loaded"} ELSE n.told[p]
<1> DEFINE e == "all_mods_loaded"
           hear == Of(m, n.objects) \cap n.running
           c == Call(n, hear, e)
<1>1. n.running \subseteq n.objects /\ \A p \in n.running : "plugin_loaded" \in n.told[p]
  BY DEF Sane
<1>2. /\ hear \in SUBSET n.running
      /\ \A p \in Plugins : p \in hear <=> p \in n.running /\ ModOf[p] = m
      /\ \A p \in hear : ModOf[p] = m
  BY <1>1 DEF Of
<1>3. e \in Events \ {"plugin_unloaded", "map_unloaded"}
  BY DEF Events
<1> HIDE DEF hear
<1>4. \A p \in hear : Expected(e, n.told[p])
  BY <1>1, <1>2, Meaning
<1>5. CallOnPlugins(n, m, e) = c
  BY DEF CallOnPlugins, hear
<1> HIDE DEF e
<1>6. /\ Sane(c) /\ c.objects = n.objects /\ c.running = n.running /\ c.strange = n.strange
      /\ \A p \in Plugins : c.told[p] = IF p \in hear THEN Knowing(e, n.told[p]) ELSE n.told[p]
  <2>1. Sane(n) /\ hear \in SUBSET n.running /\ e \in Events \ {"plugin_unloaded"}
    BY <1>2, <1>3
  <2> QED
    BY <1>4, <2>1, TellRunning
<1> HIDE DEF c
<1>7. \A p \in Plugins : Knowing(e, n.told[p]) = n.told[p] \cup {e}
  BY <1>3, Meaning
<1> QED
  BY <1>2, <1>5, <1>6, <1>7 DEF e

\* How the load of a mod leaves the world and the map of mods, announced or not.
LEMMA SettledKeeps ==
  ASSUME NEW m \in Dirs, NEW n, Sane(n), n.strange = strange,
         \A p \in n.objects : ModOf[p] # m => p \in objects,
         \A p \in n.running : IF ModOf[p] = m THEN n.told[p] = {"plugin_loaded"} \cup Missed
                                              ELSE p \in running /\ n.told[p] = told[p],
         NEW a \in BOOLEAN, NEW status, Settled(m, Announce(a, m, n), status)
  PROVE  /\ Sane(World)' /\ strange' = strange
         /\ \/ mods' = mods \ {m} /\ loaded' = loaded \ {m}
            \/ mods' = mods \cup {m} /\ loaded' \in {loaded \cup {m}, loaded \ {m}}
         /\ \A p \in objects' : ModOf[p] \in mods' \/ (ModOf[p] # m /\ p \in objects)
         /\ \A p \in running' :
              IF ModOf[p] = m
              THEN told'[p] = {"plugin_loaded"} \cup Missed \cup (IF a THEN {"all_mods_loaded"} ELSE {})
              ELSE p \in running /\ told'[p] = told[p]
<1> DEFINE b == Announce(a, m, n)
           know == {"plugin_loaded"} \cup Missed
           good == {p \in n.running : ModOf[p] = m}
<1>1. n.running \subseteq n.objects /\ n.objects \subseteq Plugins
  BY DEF Sane, Worlds
<1>2. "all_mods_loaded" \notin know /\ "plugin_loaded" \in know
  BY DEF Missed
<1>3. \A p \in good : n.told[p] = know
  OBVIOUS
<1>4. /\ Sane(b) /\ b.objects = n.objects /\ b.running = n.running /\ b.strange = n.strange
      /\ \A p \in Plugins \ good : b.told[p] = n.told[p]
      /\ \A p \in good : b.told[p] = know \cup (IF a THEN {"all_mods_loaded"} ELSE {})
  <2>1. CASE a
    <3>1. b = CallOnPlugins(n, m, "all_mods_loaded")
      BY <2>1 DEF Announce
    <3>2. \A p \in n.running : ModOf[p] = m => "all_mods_loaded" \notin n.told[p]
      BY <1>2
    <3> HIDE DEF b
    <3>3. /\ Sane(b) /\ b.objects = n.objects /\ b.running = n.running /\ b.strange = n.strange
          /\ \A p \in Plugins : b.told[p] = IF p \in n.running /\ ModOf[p] = m
                                           THEN n.told[p] \cup {"all_mods_loaded"} ELSE n.told[p]
      <4> SUFFICES /\ Sane(CallOnPlugins(n, m, "all_mods_loaded"))
                   /\ LET c == CallOnPlugins(n, m, "all_mods_loaded") IN
                      /\ c.objects = n.objects /\ c.running = n.running /\ c.strange = n.strange
                      /\ \A p \in Plugins : c.told[p] = IF p \in n.running /\ ModOf[p] = m
                                           THEN n.told[p] \cup {"all_mods_loaded"} ELSE n.told[p]
        BY <3>1
      <4> QED
        BY <3>2, AnnounceTells
    <3> HIDE DEF know
    <3> QED
      BY <1>1, <1>3, <2>1, <3>3
  <2>2. CASE ~a
    BY <1>1, <1>3, <2>2 DEF Announce
  <2> QED
    BY <2>1, <2>2
<1>5. PICK d : /\ Sane(d) /\ Commit(d) /\ d.strange = b.strange
               /\ \A p \in Plugins : ModOf[p] # m => d.told[p] = b.told[p]
               /\ \/ d = b /\ mods' = mods \cup {m} /\ loaded' \in {loaded \cup {m}, loaded \ {m}}
                  \/ /\ mods' = mods \ {m} /\ loaded' = loaded \ {m}
                     /\ d.objects = {p \in b.objects : ModOf[p] # m}
                     /\ d.running = {p \in b.running : ModOf[p] # m}
  <2> HIDE DEF b
  <2>0. Settled(m, b, status)
    BY DEF b
  <2>1. CASE status = "disabled"
    <3>1. Commit(ModCleared(b, m)) /\ mods' = mods \ {m} /\ loaded' = loaded \ {m}
      BY <2>0, <2>1 DEF Settled
    <3> QED
      BY <1>4, <3>1, ModClearedTells
  <2>2. CASE status # "disabled"
    BY <1>4, <2>0, <2>2 DEF Settled
  <2> QED
    BY <2>1, <2>2
<1> HIDE DEF b, know
<1>6. /\ World' = d /\ objects' = d.objects /\ running' = d.running /\ told' = d.told
      /\ strange' = d.strange
  BY <1>5, Committed DEF Sane, Commit
<1>7. \A p \in objects' : ModOf[p] \in mods' \/ (ModOf[p] # m /\ p \in objects)
  BY <1>4, <1>5, <1>6
<1>8. \A p \in running' :
         IF ModOf[p] = m THEN told'[p] = know \cup (IF a THEN {"all_mods_loaded"} ELSE {})
         ELSE p \in running /\ told'[p] = told[p]
  BY <1>1, <1>4, <1>5, <1>6 
<1> QED
  BY <1>4, <1>5, <1>6, <1>7, <1>8 DEF know

-----------------------------------------------------------------------------
(* The inductive invariant *)

\* A plugin object is in the map of a mod that main knows.
Placed == \A p \in objects : ModOf[p] \in mods

\* The flags of main say what the engine has, but for what vmod came too late for.
EngineSeen ==
  /\ vmod = "off" => /\ mods = {} /\ objects = {} /\ command = "none" /\ ~mods_loaded /\ late = {}
                     /\ ~is_map_loaded /\ ~is_map_active /\ ~are_string_tables_created
  /\ vmod = "on" =>
       /\ is_map_loaded <=> level # "none" /\ "level" \notin late
       /\ is_map_active <=> level = "active" /\ "level" \notin late
       /\ are_string_tables_created <=> tables /\ "tables" \notin late
  /\ "level" \in late => level = "active"
  /\ "tables" \in late => tables

\* Before the mods are announced nobody has heard of it.
NotAnnounced == ~mods_loaded => \A p \in running : "all_mods_loaded" \notin told[p]

\* vmod_refresh_mods loads each mod once, and nothing is announced before it ends.
RefreshesOnce ==
  /\ command = "refresh" => ~mods_loaded /\ left \cap mods = {}
  /\ command = "announce" => mods_loaded

KInv == /\ TypeOK /\ Sane(World) /\ Placed /\ EngineSeen /\ NotAnnounced /\ RefreshesOnce
        /\ InformedOfMap /\ AnnouncedToAll /\ EventsInOrder

\* The fields of the present world are the variables.
LEMMA WorldIs ==
  /\ World.objects = objects /\ World.running = running /\ World.told = told
  /\ World.functions = functions /\ World.watching = watching /\ World.strange = strange
  BY DEF World

\* What a sane world says of the variables of the plugins.
ScriptsOK ==
  /\ objects \subseteq Plugins /\ running \subseteq objects /\ watching \subseteq Plugins
  /\ functions \in [Plugins -> SUBSET Events] /\ told \in [Plugins -> SUBSET Events]
  /\ strange \subseteq Plugins \X Events
  /\ \A p \in running : functions[p] = Events /\ "plugin_loaded" \in told[p]
  /\ \A p \in Plugins \ running : told[p] = {}

\* Sane, in terms of the variables; and the same after a step.
LEMMA SaneScripts == Sane(World) => ScriptsOK
  BY WorldIs DEF Sane, Worlds, ScriptsOK

\* After a step.
LEMMA SaneScriptsNext == Sane(World)' => ScriptsOK'
  BY SaneScripts, PTL

\* What a late plugin is told is what has happened: the flags follow the engine.
LEMMA MissedHappened == ASSUME EngineSeen, vmod = "on" PROVE Missed = Happened
  BY DEF EngineSeen, Missed, Happened

\* The handler left the sane world w behind.
LEMMA Left ==
  ASSUME NEW w, Sane(w), Commit(w)
  PROVE  /\ Sane(World)' /\ objects' = w.objects /\ running' = w.running /\ told' = w.told
         /\ strange' = w.strange
  BY Committed DEF Sane, Commit

\* vmod starts with no mods and no flags.
LEMMA InitKnows == Init => KInv
<1> SUFFICES ASSUME Init PROVE KInv
  OBVIOUS
<1>1. World \in Worlds /\ World.running = {} /\ World.objects = {}
  BY DEF Init, World, Worlds
<1>2. Sane(World)
  BY <1>1, WorldIs DEF Init, Sane
<1>3. TypeOK
  BY DEF Init, TypeOK
<1> QED
  BY <1>2, <1>3 DEF Init, KInv, Placed, EngineSeen, NotAnnounced, RefreshesOnce, InformedOfMap,
                   AnnouncedToAll, EventsInOrder

\* Every plugin is gone.
LEMMA EmptyKnows ==
  ASSUME KInv, Commit(AllCleared(World)), mods' = {}, loaded' = {}, mods_loaded' = FALSE,
         autoreloaded' = {}
  PROVE  /\ Sane(World)' /\ strange' = strange /\ objects' = {} /\ running' = {}
         /\ Placed' /\ NotAnnounced' /\ InformedOfMap' /\ AnnouncedToAll'
<1>1. Sane(World)
  BY DEF KInv
<1> DEFINE w == AllCleared(World)
<1>2. Sane(w) /\ w.strange = strange /\ w.objects = {} /\ w.running = {}
  BY <1>1, AllClearedTells, WorldIs
<1>3. Commit(w)
  OBVIOUS
<1> HIDE DEF w
<1>4. Sane(World)' /\ strange' = strange /\ objects' = {} /\ running' = {}
  BY <1>2, <1>3, Left
<1> QED
  BY <1>4 DEF Placed, NotAnnounced, InformedOfMap, AnnouncedToAll

\* The commands that unload everything.
LEMMA EmptyingKeeps == KInv /\ (UnloadMods \/ RefreshMods \/ Load \/ Unload) => KInv'
<1> SUFFICES ASSUME KInv, UnloadMods \/ RefreshMods \/ Load \/ Unload PROVE KInv'
  OBVIOUS
<1>1. /\ Commit(AllCleared(World)) /\ mods' = {} /\ loaded' = {} /\ mods_loaded' = FALSE
      /\ autoreloaded' = {}
  BY DEF UnloadMods, RefreshMods, Load, Unload, Refresh
<1>2. /\ Sane(World)' /\ strange' = strange /\ objects' = {} /\ running' = {}
      /\ Placed' /\ NotAnnounced' /\ InformedOfMap' /\ AnnouncedToAll'
  BY <1>1, EmptyKnows
<1>3. command # "announce"
  BY DEF KInv, EngineSeen, UnloadMods, RefreshMods, Load, Unload, Idle
<1>4. RefreshesOnce' /\ EventsInOrder'
  BY <1>1, <1>2, <1>3 DEF KInv, RefreshesOnce, EventsInOrder, UnloadMods, RefreshMods, Load, Unload,
     Refresh, Idle
<1>5. EngineSeen'
  <2>1. CASE UnloadMods \/ RefreshMods
    BY <2>1, <1>1, <1>2 DEF KInv, TypeOK, EngineSeen, UnloadMods, RefreshMods, Refresh, Idle, On, server, flags
  <2>2. CASE Load
    BY <2>2, <1>1, <1>2 DEF KInv, TypeOK, EngineSeen, Load, Refresh, flags
  <2>3. CASE Unload
    BY <2>3, <1>1, <1>2 DEF KInv, TypeOK, EngineSeen, Unload, Idle
  <2> QED
    BY <2>1, <2>2, <2>3
<1>6. TypeOK'
  <2>1. command' \in {"none", "refresh"} /\ left' \subseteq Dirs
    BY DEF KInv, TypeOK, UnloadMods, RefreshMods, Load, Unload, Refresh, Idle
  <2>2. /\ vmod' \in {"off", "on"} /\ level' \in {"none", "loading", "active"}
        /\ late' \subseteq {"level", "tables"}
    BY DEF KInv, TypeOK, UnloadMods, RefreshMods, Load, Unload, server
  <2>3. {tables, is_map_loaded, is_map_active, are_string_tables_created, crashed}' \subseteq BOOLEAN
    BY Zenon DEF KInv, TypeOK, UnloadMods, RefreshMods, Load, Unload, server, flags
  <2> QED
    BY <1>1, <1>2, <2>1, <2>2, <2>3, SaneScriptsNext DEF TypeOK, ScriptsOK
<1> QED
  BY <1>2, <1>4, <1>5, <1>6 DEF KInv

\* Everyone who should hear of e has heard of it, and of nothing else.
Heard(e) ==
  /\ Sane(World)' /\ objects' = objects /\ running' = running /\ strange' = strange
  /\ \A p \in running : told'[p] = IF ModOf[p] \in loaded THEN Knowing(e, told[p]) ELSE told[p]

\* A handler that notifies every loaded mod, when the event makes sense to all.
LEMMA NotifyLeft ==
  ASSUME Sane(World), NEW e \in Events \ {"plugin_unloaded"},
         \A p \in running : ModOf[p] \in loaded => Expected(e, told[p]),
         Commit(Notify(World, e))
  PROVE  Heard(e)
<1> DEFINE n == Notify(World, e)
<1>1. \A p \in World.running : ModOf[p] \in loaded => Expected(e, World.told[p])
  BY WorldIs
<1>2. /\ Sane(n) /\ n.objects = World.objects /\ n.running = World.running
      /\ n.strange = World.strange
      /\ \A p \in Plugins : n.told[p] = IF p \in World.running /\ ModOf[p] \in loaded
                                        THEN Knowing(e, World.told[p]) ELSE World.told[p]
  BY <1>1, NotifyTells
<1>3. Commit(n)
  OBVIOUS
<1> HIDE DEF n
<1>4. Sane(World)' /\ objects' = n.objects /\ running' = n.running /\ told' = n.told /\ strange' = n.strange
  BY <1>2, <1>3, Left
<1> QED
  BY <1>2, <1>4, WorldIs, SaneScripts DEF Heard, ScriptsOK

\* Handlers of the engine leave the mods alone.
EngineNext == LevelInit \/ ServerActivate \/ LevelShutdown \/ CreateTables \/ RemoveTables

\* The types are kept by the handlers of the engine.
LEMMA EngineTypes ==
  ASSUME TypeOK, Sane(World)', EngineNext
  PROVE  TypeOK'
<1>1. /\ vmod' \in {"off", "on"} /\ level' \in {"none", "loading", "active"}
      /\ command' \in {"none", "refresh", "reload", "announce"} /\ left' \subseteq Dirs
      /\ late' \subseteq {"level", "tables"} /\ loaded' \subseteq mods' /\ mods' \subseteq Dirs
      /\ autoreloaded' \subseteq Plugins
  BY DEF TypeOK, EngineNext, LevelInit, ServerActivate, LevelShutdown, CreateTables, RemoveTables,
         others
<1>2. {tables, is_map_loaded, is_map_active, are_string_tables_created, mods_loaded, crashed}'
        \subseteq BOOLEAN
  BY Zenon DEF TypeOK, EngineNext, LevelInit, ServerActivate, LevelShutdown, CreateTables,
         RemoveTables, others
<1> QED
  BY <1>1, <1>2, SaneScriptsNext DEF TypeOK, ScriptsOK

\* A step that touches no plugin keeps the world.
LEMMA UnchangedScripts == Sane(World) /\ UNCHANGED scripts => Sane(World)'
<1> SUFFICES ASSUME Sane(World), UNCHANGED scripts PROVE Sane(World)'
  OBVIOUS
<1>1. World' = World
  BY DEF World, scripts
<1> QED
  BY <1>1

\* The removal of the string tables, of which plugins are told nothing.
LEMMA ForgetLeft ==
  ASSUME Sane(World), RemoveTables
  PROVE  Sane(World)' /\ objects' = objects /\ running' = running /\ strange' = strange
<1> DEFINE told2 == [p \in Plugins |-> told[p] \ {"string_tables_created"}]
           w == [World EXCEPT !.told = told2]
<1>1. told2 \in [Plugins -> SUBSET Events] /\ running \subseteq Plugins
  BY SaneScripts DEF ScriptsOK
<1>2. /\ \A p \in running : "plugin_loaded" \in told2[p]
      /\ \A p \in Plugins \ running : told2[p] = {}
  BY <1>1, SaneScripts DEF ScriptsOK
<1>3. Commit(w)
  BY DEF RemoveTables, Forget, Commit, World
<1> HIDE DEF told2
<1>4. /\ w \in Worlds /\ w.objects = objects /\ w.running = running /\ w.told = told2
      /\ w.functions = functions /\ w.strange = strange
  BY <1>1, WorldIs DEF Sane, Worlds
<1> HIDE DEF w
<1>5. Sane(w)
  BY <1>1, <1>2, <1>4, WorldIs DEF Sane
<1> QED
  BY <1>3, <1>4, <1>5, Left

\* What an engine handler does to the plugins.
LEMMA EngineTells ==
  ASSUME KInv, EngineNext
  PROVE  /\ Sane(World)' /\ objects' = objects /\ running' = running /\ strange' = strange
         /\ \A p \in running : ModOf[p] \in loaded =>
              told'[p] = {"plugin_loaded"} \cup (told[p] \cap {"all_mods_loaded"}) \cup Happened'
         /\ \A p \in running : "all_mods_loaded" \in told'[p] => "all_mods_loaded" \in told[p]
<1> DEFINE Goal ==
         /\ Sane(World)' /\ objects' = objects /\ running' = running /\ strange' = strange
         /\ \A p \in running : ModOf[p] \in loaded =>
              told'[p] = {"plugin_loaded"} \cup (told[p] \cap {"all_mods_loaded"}) \cup Happened'
         /\ \A p \in running : "all_mods_loaded" \in told'[p] => "all_mods_loaded" \in told[p]
<1> USE DEF KInv
<1>1. /\ \A p \in running : ModOf[p] \in loaded =>
              told[p] = {"plugin_loaded"} \cup (told[p] \cap {"all_mods_loaded"}) \cup Happened
      /\ "all_mods_loaded" \notin Happened /\ "plugin_loaded" \notin Happened
  BY DEF InformedOfMap, Happened
<1>2. CASE vmod = "off"
  <2>1. running = {} /\ objects = {}
    BY <1>2, SaneScripts DEF EngineSeen, ScriptsOK
  <2>2. UNCHANGED scripts \/ RemoveTables
    BY <1>2, <2>1 DEF EngineNext, LevelInit, ServerActivate, LevelShutdown, CreateTables, Unloaded,
       EngineSeen
  <2>3. CASE UNCHANGED scripts
    BY <2>1, <2>3, UnchangedScripts DEF scripts
  <2>4. CASE RemoveTables
    BY <2>1, <2>4, ForgetLeft
  <2> QED
    BY <2>2, <2>3, <2>4
<1>3. ASSUME vmod = "on", LevelInit PROVE Goal
  <2>1. /\ Commit(Notify(World, "map_loaded")) /\ level = "none" /\ "level" \notin late
        /\ Happened' = Happened \cup {"map_loaded"} /\ "map_loaded" \notin Happened
    BY <1>3 DEF LevelInit, EngineSeen, Happened
  <2>2. "map_loaded" \in Events \ {"plugin_unloaded"} /\ "map_loaded" # "map_unloaded"
    BY DEF Events
  <2>3. \A p \in running : ModOf[p] \in loaded => Expected("map_loaded", told[p])
    BY <1>1, <2>1, Meaning
  <2>4. Heard("map_loaded")
    BY <2>1, <2>2, <2>3, NotifyLeft
  <2>5. \A t : Knowing("map_loaded", t) = t \cup {"map_loaded"}
    BY <2>2, Meaning
  <2> QED
    BY <1>1, <2>1, <2>4, <2>5 DEF Heard
<1>4. ASSUME vmod = "on", ServerActivate PROVE Goal
  <2>1. /\ Commit(Notify(World, "map_active")) /\ "level" \notin late
        /\ Happened' = Happened \cup {"map_active"}
        /\ "map_active" \notin Happened /\ "map_loaded" \in Happened
    BY <1>4 DEF ServerActivate, EngineSeen, Happened
  <2>2. "map_active" \in Events \ {"plugin_unloaded"} /\ "map_active" # "map_unloaded"
    BY DEF Events
  <2>3. \A p \in running : ModOf[p] \in loaded => Expected("map_active", told[p])
    BY <1>1, <2>1, Meaning
  <2>4. Heard("map_active")
    BY <2>1, <2>2, <2>3, NotifyLeft
  <2>5. \A t : Knowing("map_active", t) = t \cup {"map_active"}
    BY <2>2, Meaning
  <2> QED
    BY <1>1, <2>1, <2>4, <2>5 DEF Heard
<1>5. ASSUME vmod = "on", LevelShutdown, is_map_loaded PROVE Goal
  <2>1. /\ Commit(Notify(World, "map_unloaded")) /\ "map_loaded" \in Happened
        /\ Happened' = Happened \ {"map_loaded", "map_active"}
    BY <1>5 DEF LevelShutdown, Unloaded, EngineSeen, Happened
  <2>2. "map_unloaded" \in Events \ {"plugin_unloaded"}
    BY DEF Events
  <2>3. \A p \in running : ModOf[p] \in loaded => Expected("map_unloaded", told[p])
    BY <1>1, <2>1, Meaning
  <2>4. Heard("map_unloaded")
    BY <2>1, <2>2, <2>3, NotifyLeft
  <2>5. \A t : Knowing("map_unloaded", t) = t \ {"map_loaded", "map_active"}
    BY Meaning
  <2> QED
    BY <1>1, <2>1, <2>4, <2>5 DEF Heard
<1>6. ASSUME vmod = "on", LevelShutdown, ~is_map_loaded PROVE Goal
  <2>1. UNCHANGED scripts /\ Happened' = Happened
    BY <1>6 DEF LevelShutdown, Unloaded, EngineSeen, Happened
  <2> QED
    BY <1>1, <2>1, UnchangedScripts DEF scripts
<1>7. ASSUME vmod = "on", CreateTables PROVE Goal
  <2> DEFINE e == "string_tables_created"
  <2>1. /\ Commit(Notify(World, e)) /\ Happened' = Happened \cup {e} /\ e \notin Happened
    BY <1>7 DEF CreateTables, EngineSeen, Happened
  <2>2. e \in Events \ {"plugin_unloaded"} /\ e # "map_unloaded" /\ e # "all_mods_loaded"
    BY DEF Events
  <2>3. \A p \in running : ModOf[p] \in loaded => Expected(e, told[p])
    BY <1>1, <2>1, Meaning
  <2>4. Heard(e)
    BY <2>1, <2>2, <2>3, NotifyLeft
  <2>5. \A t : Knowing(e, t) = t \cup {e}
    BY <2>2, Meaning
  <2> QED
    BY <1>1, <2>1, <2>2, <2>4, <2>5 DEF Heard
<1>8. ASSUME vmod = "on", RemoveTables PROVE Goal
  <2>1. Happened' = Happened \ {"string_tables_created"}
    BY <1>8 DEF RemoveTables, EngineSeen, Happened
  <2>2. \A p \in running : told'[p] = told[p] \ {"string_tables_created"}
    BY <1>8, SaneScripts DEF RemoveTables, Forget, ScriptsOK
  <2> QED
    BY <1>1, <1>8, <2>1, <2>2, ForgetLeft
<1>9. vmod = "on" \/ vmod = "off"
  BY DEF TypeOK
<1> QED
  BY <1>2, <1>3, <1>4, <1>5, <1>6, <1>7, <1>8, <1>9 DEF EngineNext

\* The handlers of the engine keep the invariant.
LEMMA EngineKeeps == KInv /\ EngineNext => KInv'
<1> SUFFICES ASSUME KInv, EngineNext PROVE KInv'
  OBVIOUS
<1>1. /\ Sane(World)' /\ objects' = objects /\ running' = running /\ strange' = strange
      /\ \A p \in running : ModOf[p] \in loaded =>
           told'[p] = {"plugin_loaded"} \cup (told[p] \cap {"all_mods_loaded"}) \cup Happened'
      /\ \A p \in running : "all_mods_loaded" \in told'[p] => "all_mods_loaded" \in told[p]
  BY EngineTells
<1>2. UNCHANGED others /\ vmod' = vmod
  BY DEF EngineNext, LevelInit, ServerActivate, LevelShutdown, CreateTables, RemoveTables
<1>3. TypeOK'
  BY <1>1, EngineTypes DEF KInv
<1>4. EngineSeen'
  <2> USE <1>1, <1>2 DEF KInv, TypeOK, EngineSeen, others
  <2>1. CASE LevelInit
    BY <2>1 DEF LevelInit
  <2>2. CASE ServerActivate
    BY <2>2 DEF ServerActivate
  <2>3. CASE LevelShutdown
    BY <2>3 DEF LevelShutdown
  <2>4. CASE CreateTables
    BY <2>4 DEF CreateTables
  <2>5. CASE RemoveTables
    BY <2>5 DEF RemoveTables
  <2> QED
    BY <2>1, <2>2, <2>3, <2>4, <2>5 DEF EngineNext
<1>5. InformedOfMap'
  BY <1>1, <1>2 DEF InformedOfMap, Happened, others
<1>6. AnnouncedToAll' /\ NotAnnounced' /\ Placed' /\ RefreshesOnce' /\ EventsInOrder'
  BY <1>1, <1>2 DEF KInv, AnnouncedToAll, NotAnnounced, Placed, RefreshesOnce, EventsInOrder, others
<1> QED
  BY <1>1, <1>3, <1>4, <1>5, <1>6 DEF KInv

-----------------------------------------------------------------------------
(* The commands that work on one mod *)

ModsStep ==
  \/ RefreshDone \/ ReloadDone \/ ReloadMods
  \/ \E m \in Dirs : UnloadMod(m) \/ LoadModCommand(m) \/ RefreshOne(m) \/ ReloadOne(m)
                     \/ AnnounceAgain(m)
  \/ \E p \in Plugins : AutoReloads(p)

\* What none of them touches, and the types of what they do.
LEMMA ModsTypes ==
  ASSUME KInv, ModsStep, Sane(World)', loaded' \subseteq mods', mods' \subseteq Dirs,
         vmod = "on" 
  PROVE  TypeOK' /\ EngineSeen'
<1>1. UNCHANGED <<server, flags>>
  BY DEF ModsStep, RefreshDone, ReloadDone, ReloadMods, UnloadMod, LoadModCommand, RefreshOne,
     ReloadOne, AnnounceAgain, AutoReloads
<1>2. EngineSeen'
  BY <1>1 DEF KInv, TypeOK, EngineSeen, server, flags
<1>3. /\ command' \in {"none", "refresh", "reload", "announce"} /\ left' \subseteq Dirs
      /\ autoreloaded' \subseteq Plugins
  BY DEF KInv, TypeOK, ModsStep, RefreshDone, ReloadDone, ReloadMods, UnloadMod, LoadModCommand,
     RefreshOne, ReloadOne, AnnounceAgain, AutoReloads
<1>4. mods_loaded' \in BOOLEAN
  BY Zenon DEF KInv, TypeOK, ModsStep, RefreshDone, ReloadDone, ReloadMods, UnloadMod,
     LoadModCommand, RefreshOne, ReloadOne, AnnounceAgain, AutoReloads
<1>5. crashed' \in BOOLEAN
  BY Zenon DEF KInv, TypeOK, ModsStep, RefreshDone, ReloadDone, ReloadMods, UnloadMod,
     LoadModCommand, RefreshOne, ReloadOne, AnnounceAgain, AutoReloads, LoadMod
<1>6. {tables, is_map_loaded, is_map_active, are_string_tables_created, mods_loaded, crashed}'
        \subseteq BOOLEAN
  BY <1>1, <1>4, <1>5, Zenon DEF KInv, TypeOK, server, flags
<1> QED
  BY <1>1, <1>2, <1>3, <1>6, SaneScriptsNext DEF KInv, TypeOK, ScriptsOK, server

\* One mod loaded or reloaded, in the commands that do it.
LEMMA ModStepKeeps ==
  ASSUME KInv, vmod = "on", UNCHANGED <<server, flags>>, NEW m \in Dirs,
         NEW n, Sane(n), n.strange = strange,
         \A p \in n.objects : ModOf[p] # m => p \in objects,
         \A p \in n.running : IF ModOf[p] = m THEN n.told[p] = {"plugin_loaded"} \cup Missed
                                              ELSE p \in running /\ n.told[p] = told[p],
         NEW a \in BOOLEAN, a => mods_loaded, mods_loaded' = mods_loaded,
         NEW status, Settled(m, Announce(a, m, n), status),
         autoreloaded \ Of(m, Plugins) \subseteq autoreloaded', 
         command' = "none" => command = "none" /\ (m \in loaded' /\ mods_loaded => a)
  PROVE  /\ Sane(World)' /\ Placed' /\ NotAnnounced' /\ InformedOfMap' /\ AnnouncedToAll'
         /\ strange' = strange /\ loaded' \subseteq mods' /\ mods' \subseteq Dirs
         /\ mods' \subseteq mods \cup {m}
<1>1. /\ Sane(World)' /\ strange' = strange
      /\ \/ mods' = mods \ {m} /\ loaded' = loaded \ {m}
         \/ mods' = mods \cup {m} /\ loaded' \in {loaded \cup {m}, loaded \ {m}}
      /\ \A p \in objects' : ModOf[p] \in mods' \/ (ModOf[p] # m /\ p \in objects)
      /\ \A p \in running' :
           IF ModOf[p] = m
           THEN told'[p] = {"plugin_loaded"} \cup Missed \cup (IF a THEN {"all_mods_loaded"} ELSE {})
           ELSE p \in running /\ told'[p] = told[p]
  BY SettledKeeps
<1>2. Missed = Happened /\ Happened' = Happened /\ "all_mods_loaded" \notin Happened
  BY MissedHappened DEF KInv, Happened, server
<1>3. loaded' \subseteq mods' /\ mods' \subseteq Dirs /\ mods' \subseteq mods \cup {m}
  BY <1>1 DEF KInv, TypeOK
<1>4. Placed'
  BY <1>1 DEF KInv, Placed
<1>5. \A p \in running' : ModOf[p] # m => p \in running /\ (ModOf[p] \in loaded' => ModOf[p] \in loaded)
  BY <1>1
<1>6. InformedOfMap'
  BY <1>1, <1>2, <1>5 DEF KInv, InformedOfMap
<1>7. NotAnnounced'
  BY <1>1, <1>2, <1>5 DEF KInv, NotAnnounced
<1>8. AnnouncedToAll'
  <2> SUFFICES ASSUME mods_loaded', command' = "none", NEW p \in running', ModOf[p] \in loaded'
               PROVE  "all_mods_loaded" \in told'[p] \/ p \in autoreloaded'
    BY DEF AnnouncedToAll
  <2>1. CASE ModOf[p] = m
    BY <1>1, <2>1
  <2>2. CASE ModOf[p] # m
    BY <1>1, <1>5, <2>2 DEF KInv, AnnouncedToAll, Of
  <2> QED
    BY <2>1, <2>2
<1> QED
  BY <1>1, <1>3, <1>4, <1>6, <1>7, <1>8

\* What load() makes of the world of a mod that has no plugins.
Loads(m, n) ==
  /\ Sane(n) /\ n.strange = strange
  /\ \A p \in n.objects : ModOf[p] # m => p \in objects
  /\ \A p \in n.running : IF ModOf[p] = m THEN n.told[p] = {"plugin_loaded"} \cup Missed
                                         ELSE p \in running /\ n.told[p] = told[p]

\* A world without the mod in which the others are as they are.
Without(m, w) ==
  /\ Sane(w) /\ w.strange = strange
  /\ \A p \in w.objects : ModOf[p] # m /\ p \in objects
  /\ \A p \in w.running : p \in running /\ w.told[p] = told[p]

\* mod::load of a mod that is not in the world.
LEMMA LoadsIt ==
  ASSUME is_map_active => is_map_loaded, NEW m \in Dirs, NEW w, Without(m, w),
         NEW ps \in SUBSET Of(m, Plugins), NEW good \in SUBSET ps
  PROVE  Loads(m, ModLoad(w, ps, good))
<1> DEFINE n == ModLoad(w, ps, good)
<1>1. Sane(w)
  BY DEF Without
<1>2. \A p \in w.objects : ModOf[p] # m
  BY DEF Without
<1>3. Fresh(m, w, ps, good, n)
  BY <1>1, <1>2, ModLoadTells
<1> HIDE DEF n
<1>4. /\ w.running \subseteq w.objects /\ w.objects \subseteq Plugins
      /\ \A p \in ps : ModOf[p] = m
  BY <1>1 DEF Sane, Worlds, Of
<1>5. \A p \in n.objects : ModOf[p] # m => p \in objects
  BY <1>3, <1>4 DEF Without, Fresh
<1>6. ASSUME NEW p \in n.running
      PROVE  IF ModOf[p] = m THEN n.told[p] = {"plugin_loaded"} \cup Missed
                             ELSE p \in running /\ n.told[p] = told[p]
  BY <1>3, <1>4 DEF Without, Fresh
<1>7. Loads(m, n)
  BY <1>3, <1>5, <1>6 DEF Loads, Without, Fresh
<1> QED
  BY <1>7 DEF n

\* A mod is loaded where it was, or where it was not.
LEMMA ReloadsIt ==
  ASSUME KInv, vmod = "on", NEW m \in Dirs,
         NEW ps \in SUBSET Of(m, Plugins), NEW good \in SUBSET ps
  PROVE  /\ Loads(m, ModLoad(ModCleared(World, m), ps, good))
         /\ m \notin mods => Loads(m, ModLoad(World, ps, good))
<1>0. is_map_active => is_map_loaded
  BY DEF KInv, TypeOK, EngineSeen
<1>1. Sane(World)
  BY DEF KInv
<1>2. running \subseteq Plugins /\ running \subseteq objects
  BY <1>1, SaneScripts DEF ScriptsOK
<1>3. Loads(m, ModLoad(ModCleared(World, m), ps, good))
  <2> DEFINE w == ModCleared(World, m)
  <2>1. /\ Sane(w) /\ w.strange = strange
        /\ w.objects = {p \in objects : ModOf[p] # m}
        /\ w.running = {p \in running : ModOf[p] # m}
        /\ \A p \in Plugins : ModOf[p] # m => w.told[p] = told[p]
    BY <1>1, WorldIs, ModClearedTells
  <2> HIDE DEF w
  <2>2. /\ \A p \in w.objects : ModOf[p] # m /\ p \in objects
        /\ \A p \in w.running : p \in running /\ w.told[p] = told[p]
    BY <1>2, <2>1
  <2>3. Without(m, w)
    BY <2>1, <2>2 DEF Without
  <2>4. Loads(m, ModLoad(w, ps, good))
    BY <1>0, <2>3, LoadsIt
  <2> QED
    BY <2>4 DEF w
<1>4. ASSUME m \notin mods PROVE Loads(m, ModLoad(World, ps, good))
  <2>1. \A p \in World.objects : ModOf[p] # m /\ p \in objects
    BY <1>4, WorldIs DEF KInv, Placed
  <2>2. \A p \in World.running : p \in running /\ World.told[p] = told[p]
    BY WorldIs
  <2>3. World.strange = strange
    BY WorldIs
  <2>4. Without(m, World)
    BY <1>1, <2>1, <2>2, <2>3 DEF Without
  <2> QED
    BY <1>0, <2>4, LoadsIt
<1> QED
  BY <1>3, <1>4

Statuses == {"success", "disabled", "error"}

\* n is what the world has become, and the command announced the mod if a.
Became(m, n, a) ==
  \E status \in Statuses :
    /\ Settled(m, Announce(a, m, n), status)
    /\ a => mods_loaded
    /\ command' = "none" => command = "none" /\ (m \in loaded' /\ mods_loaded => a)

\* How vmod_reload_mods reloads one of the mods it has left.
LEMMA ReloadOneIs ==
  ASSUME NEW m \in Dirs, ReloadOne(m)
  PROVE  \E ps \in SUBSET Of(m, Plugins) : \E good \in SUBSET ps :
           \E erased \in {{}} \cup {{p} : p \in ps \ good}, status \in Statuses :
             Settled(m, ModLoad(ModCleared(World, m), ps \ erased, good), status)
  BY DEF ReloadOne, LoadMod, Statuses

\* A mod is loaded: all that KInv says is kept.
LEMMA LoadingKeeps ==
  ASSUME KInv, NEW m \in Dirs, LoadModCommand(m) \/ RefreshOne(m) \/ ReloadOne(m)
  PROVE  KInv'
<1>1. vmod = "on" /\ UNCHANGED <<server, flags>> /\ mods_loaded' = mods_loaded
  BY DEF LoadModCommand, RefreshOne, ReloadOne, Idle, On
<1>2. PICK n : Loads(m, n) /\ \E a \in BOOLEAN : Became(m, n, a)
  <2>1. CASE LoadModCommand(m)
    <3>1. PICK ps \in SUBSET Of(m, Plugins) : \E good \in SUBSET ps :
            \E erased \in {{}} \cup {{p} : p \in ps \ good}, status \in Statuses :
              Settled(m, Announced(m, ModLoad(ModCleared(World, m), ps \ erased, good), status), status)
      BY <2>1 DEF LoadModCommand, LoadMod, Statuses
    <3>2. PICK good \in SUBSET ps :
            \E erased \in {{}} \cup {{p} : p \in ps \ good}, status \in Statuses :
              Settled(m, Announced(m, ModLoad(ModCleared(World, m), ps \ erased, good), status), status)
      BY <3>1
    <3>3. PICK erased \in {{}} \cup {{p} : p \in ps \ good}, status \in Statuses :
              Settled(m, Announced(m, ModLoad(ModCleared(World, m), ps \ erased, good), status), status)
      BY <3>2
    <3>4. ps \ erased \in SUBSET Of(m, Plugins) /\ good \in SUBSET (ps \ erased)
      OBVIOUS
    <3> DEFINE n == ModLoad(ModCleared(World, m), ps \ erased, good)
    <3> DEFINE a == mods_loaded /\ status = "success"
    <3>5. Loads(m, n)
      BY <1>1, <3>4, ReloadsIt
    <3>6. a \in BOOLEAN /\ Announced(m, n, status) = Announce(a, m, n)
      BY DEF Announced, Announce
    <3>7. Settled(m, Announce(a, m, n), status)
      BY <3>3, <3>6
    <3> HIDE DEF n
    <3>8. m \in loaded' => status = "success"
      BY <3>7 DEF Settled
    <3>9. command = "none"
      BY <2>1 DEF LoadModCommand, Idle
    <3>10. Became(m, n, a)
      BY <3>7, <3>8, <3>9 DEF Became
    <3> QED
      BY <3>5, <3>6, <3>10
  <2>2. CASE RefreshOne(m)
    <3>1. PICK ps \in SUBSET Of(m, Plugins) : \E good \in SUBSET ps :
            \E erased \in {{}} \cup {{p} : p \in ps \ good}, status \in Statuses :
              Settled(m, ModLoad(World, ps \ erased, good), status)
      BY <2>2 DEF RefreshOne, LoadMod, Statuses
    <3>2. PICK good \in SUBSET ps :
            \E erased \in {{}} \cup {{p} : p \in ps \ good}, status \in Statuses :
              Settled(m, ModLoad(World, ps \ erased, good), status)
      BY <3>1
    <3>3. PICK erased \in {{}} \cup {{p} : p \in ps \ good}, status \in Statuses :
              Settled(m, ModLoad(World, ps \ erased, good), status)
      BY <3>2
    <3>4. ps \ erased \in SUBSET Of(m, Plugins) /\ good \in SUBSET (ps \ erased)
      OBVIOUS
    <3> DEFINE n == ModLoad(World, ps \ erased, good)
    <3>5. Loads(m, n)
      <4>1. m \notin mods
        BY <2>2 DEF RefreshOne, KInv, RefreshesOnce
      <4> QED
        BY <1>1, <3>4, <4>1, ReloadsIt
    <3>6. Settled(m, Announce(FALSE, m, n), status)
      BY <3>3 DEF Announce
    <3>7. command' # "none"
      BY <2>2 DEF RefreshOne
    <3> HIDE DEF n
    <3>8. Became(m, n, FALSE)
      BY <3>6, <3>7 DEF Became
    <3> QED
      BY <3>5, <3>8
  <2>3. CASE ReloadOne(m)
    <3>1. PICK ps \in SUBSET Of(m, Plugins) : \E good \in SUBSET ps :
            \E erased \in {{}} \cup {{p} : p \in ps \ good}, status \in Statuses :
              Settled(m, ModLoad(ModCleared(World, m), ps \ erased, good), status)
      BY <2>3, ReloadOneIs
    <3>2. PICK good \in SUBSET ps :
            \E erased \in {{}} \cup {{p} : p \in ps \ good}, status \in Statuses :
              Settled(m, ModLoad(ModCleared(World, m), ps \ erased, good), status)
      BY <3>1
    <3>3. PICK erased \in {{}} \cup {{p} : p \in ps \ good}, status \in Statuses :
              Settled(m, ModLoad(ModCleared(World, m), ps \ erased, good), status)
      BY <3>2
    <3>4. ps \ erased \in SUBSET Of(m, Plugins) /\ good \in SUBSET (ps \ erased)
      OBVIOUS
    <3> DEFINE n == ModLoad(ModCleared(World, m), ps \ erased, good)
    <3>5. Loads(m, n)
      BY <1>1, <3>4, ReloadsIt
    <3>6. Settled(m, Announce(FALSE, m, n), status)
      BY <3>3 DEF Announce
    <3>7. command' # "none"
      BY <2>3 DEF ReloadOne
    <3> HIDE DEF n
    <3>8. Became(m, n, FALSE)
      BY <3>6, <3>7 DEF Became
    <3> QED
      BY <3>5, <3>8
  <2> QED
    BY <2>1, <2>2, <2>3
<1>3. autoreloaded \ Of(m, Plugins) \subseteq autoreloaded'
  BY DEF LoadModCommand, RefreshOne, ReloadOne
<1>4. PICK a \in BOOLEAN : Became(m, n, a)
  BY <1>2
<1>5. PICK status \in Statuses :
        /\ Settled(m, Announce(a, m, n), status)
        /\ a => mods_loaded
        /\ command' = "none" => command = "none" /\ (m \in loaded' /\ mods_loaded => a)
  BY <1>4 DEF Became
<1>6. /\ Sane(World)' /\ Placed' /\ NotAnnounced' /\ InformedOfMap' /\ AnnouncedToAll'
      /\ strange' = strange /\ loaded' \subseteq mods' /\ mods' \subseteq Dirs
      /\ mods' \subseteq mods \cup {m}
  BY <1>1, <1>2, <1>3, <1>5, ModStepKeeps DEF Loads
<1>7. TypeOK' /\ EngineSeen'
  BY <1>1, <1>6, ModsTypes DEF ModsStep
<1>8. RefreshesOnce' /\ EventsInOrder'
  BY <1>1, <1>6 DEF KInv, RefreshesOnce, EventsInOrder, LoadModCommand, RefreshOne, ReloadOne, Idle
<1> QED
  BY <1>6, <1>7, <1>8 DEF KInv

\* A mod is unloaded, for the command that unloads one.
LEMMA UnloadingKeeps ==
  ASSUME KInv, NEW m \in Dirs, UnloadMod(m)
  PROVE  KInv'
<1>1. /\ vmod = "on" /\ UNCHANGED <<server, flags, mods_loaded, command, left>>
      /\ Commit(ModCleared(World, m)) /\ mods' = mods \ {m} /\ loaded' = loaded \ {m}
      /\ autoreloaded' = autoreloaded \ Of(m, Plugins)
  BY DEF UnloadMod, Idle, On
<1>2. Sane(World) /\ running \subseteq Plugins
  BY SaneScripts DEF KInv, ScriptsOK
<1> DEFINE w == ModCleared(World, m)
<1>3. /\ Sane(w) /\ w.strange = strange
      /\ w.objects = {p \in objects : ModOf[p] # m}
      /\ w.running = {p \in running : ModOf[p] # m}
      /\ \A p \in Plugins : ModOf[p] # m => w.told[p] = told[p]
  BY <1>2, WorldIs, ModClearedTells
<1>4. Commit(w)
  BY <1>1
<1> HIDE DEF w
<1>5. /\ Sane(World)' /\ strange' = strange
      /\ objects' = {p \in objects : ModOf[p] # m}
      /\ running' = {p \in running : ModOf[p] # m}
      /\ \A p \in running' : told'[p] = told[p]
  <2>1. /\ Sane(World)' /\ objects' = w.objects /\ running' = w.running /\ told' = w.told
        /\ strange' = w.strange
    BY <1>3, <1>4, Left
  <2> QED
    BY <1>2, <1>3, <2>1
<1>6. TypeOK' /\ EngineSeen'
  <2>1. loaded' \subseteq mods' /\ mods' \subseteq Dirs
    BY <1>1 DEF KInv, TypeOK
  <2> QED
    BY <1>1, <1>5, <2>1, ModsTypes DEF ModsStep
<1>7. Placed' /\ NotAnnounced' /\ RefreshesOnce' /\ EventsInOrder'
  BY <1>1, <1>5 DEF KInv, Placed, NotAnnounced, RefreshesOnce, EventsInOrder
<1>8. InformedOfMap' /\ AnnouncedToAll'
  BY <1>1, <1>2, <1>5 DEF KInv, InformedOfMap, AnnouncedToAll, Happened, server, Of
<1> QED
  BY <1>5, <1>6, <1>7, <1>8 DEF KInv

\* The end of vmod_refresh_mods: all_mods_loaded is news to every plugin.
LEMMA RefreshDoneKeeps == KInv /\ RefreshDone => KInv'
<1> SUFFICES ASSUME KInv, RefreshDone PROVE KInv'
  OBVIOUS
<1> DEFINE e == "all_mods_loaded"
<1>1. /\ vmod = "on" /\ UNCHANGED <<server, flags, mods, loaded>>
      /\ command = "refresh" /\ command' = "none" /\ mods_loaded' = TRUE
      /\ Commit(Notify(World, e))
  BY DEF RefreshDone, On
<1>2. e \in Events \ {"plugin_unloaded"} /\ e \in Events \ {"plugin_unloaded", "map_unloaded"}
  BY DEF Events
<1>3. \A p \in running : Expected(e, told[p])
  BY <1>1, SaneScripts, Meaning DEF KInv, NotAnnounced, RefreshesOnce, ScriptsOK
<1>4. Heard(e)
  <2>1. Sane(World) /\ \A p \in running : ModOf[p] \in loaded => Expected(e, told[p])
    BY <1>3 DEF KInv
  <2> QED
    BY <1>1, <1>2, <2>1, NotifyLeft
<1>5. \A t : Knowing(e, t) = t \cup {e}
  BY <1>2, Meaning
<1>6. TypeOK' /\ EngineSeen'
  <2>1. loaded' \subseteq mods' /\ mods' \subseteq Dirs /\ Sane(World)'
    BY <1>1, <1>4 DEF KInv, TypeOK, Heard
  <2> QED
    BY <1>1, <2>1, ModsTypes DEF ModsStep
<1>7. Placed' /\ NotAnnounced' /\ RefreshesOnce' /\ EventsInOrder'
  BY <1>1, <1>4 DEF KInv, Placed, NotAnnounced, RefreshesOnce, EventsInOrder, Heard
<1>8. InformedOfMap' /\ AnnouncedToAll'
  BY <1>1, <1>4, <1>5 DEF KInv, InformedOfMap, AnnouncedToAll, Happened, server, Heard
<1> QED
  BY <1>4, <1>6, <1>7, <1>8 DEF KInv, Heard

\* vmod_reload_mods between two mods.
LEMMA ReloadKeeps == KInv /\ (ReloadMods \/ ReloadDone) => KInv'
<1> SUFFICES ASSUME KInv, ReloadMods \/ ReloadDone PROVE KInv'
  OBVIOUS
<1>1. /\ vmod = "on" /\ UNCHANGED <<server, flags, mods, loaded, mods_loaded, scripts, autoreloaded>>
      /\ command' \in {"none", "reload", "announce"} /\ command # "announce"
      /\ command' = "announce" => mods_loaded
      /\ command' = "none" => ~mods_loaded \/ mods = {}
  BY DEF ReloadMods, ReloadDone, Idle, On
<1>2. Sane(World)'
  BY <1>1, UnchangedScripts DEF KInv
<1>3. TypeOK' /\ EngineSeen'
  <2>1. loaded' \subseteq mods' /\ mods' \subseteq Dirs
    BY <1>1 DEF KInv, TypeOK
  <2> QED
    BY <1>1, <1>2, <2>1, ModsTypes DEF ModsStep
<1>4. Placed' /\ NotAnnounced' /\ RefreshesOnce' /\ EventsInOrder'
  BY <1>1 DEF KInv, Placed, NotAnnounced, RefreshesOnce, EventsInOrder, scripts
<1>5. InformedOfMap' /\ AnnouncedToAll'
  BY <1>1 DEF KInv, TypeOK, InformedOfMap, AnnouncedToAll, Happened, server, scripts
<1> QED
  BY <1>2, <1>3, <1>4, <1>5 DEF KInv

\* The announcement that does not end: all it can do is to repeat itself.
LEMMA AnnounceKeeps ==
  ASSUME KInv, NEW m \in Dirs, AnnounceAgain(m)
  PROVE  KInv'
<1> DEFINE e == "all_mods_loaded"
           hear == Of(m, objects) \cap running
           c == Call(World, hear, e)
<1>1. /\ vmod = "on" /\ command = "announce"
      /\ UNCHANGED <<server, flags, mods, loaded, mods_loaded, command, autoreloaded>>
  BY DEF AnnounceAgain, On
<1>2. /\ Sane(World) /\ World \in Worlds /\ running \subseteq objects /\ objects \subseteq Plugins
      /\ \A p \in running : functions[p] = Events
  BY SaneScripts DEF KInv, ScriptsOK, Sane
<1>3. /\ hear \in SUBSET Plugins /\ hear \subseteq running
      /\ e \in Events /\ e \in Events \ {"plugin_unloaded", "map_unloaded"}
  BY <1>2 DEF Events, Of
<1> HIDE DEF hear
<1>4. /\ c \in Worlds /\ c.objects = objects /\ c.running = running /\ c.functions = functions
      /\ \A p \in Plugins : c.told[p] = told[p] \cup (IF p \in hear THEN {e} ELSE {})
      /\ c.strange \subseteq strange \cup (Plugins \X {e})
  <2>1. Called(World, hear, e, c)
    BY <1>2, <1>3, CallIs
  <2>2. \A t : Knowing(e, t) = t \cup {e}
    BY <1>3, Meaning
  <2> HIDE DEF c
  <2>3. c.strange \subseteq Plugins \X Events
    BY <2>1 DEF Called, Worlds
  <2>4. c.strange \subseteq strange \cup (Plugins \X {e})
    BY <2>1, <2>3, WorldIs DEF Called
  <2> QED
    BY <1>2, <1>3, <2>1, <2>2, <2>4, WorldIs DEF Called
<1> HIDE DEF c
<1>5. Sane(c)
  BY <1>2, <1>3, <1>4, WorldIs, SaneScripts DEF Sane, ScriptsOK
<1>6. /\ Sane(World)' /\ objects' = objects /\ running' = running
      /\ \A p \in Plugins : told'[p] \ {e} = told[p] \ {e}
      /\ \A p \in running : e \in told[p] => e \in told'[p]
      /\ strange' \subseteq strange \cup (Plugins \X {e})
  <2>1. Commit(IF m \in loaded THEN c ELSE World)
    BY WorldIs DEF AnnounceAgain, CallOnPlugins, c, hear
  <2>2. CASE m \in loaded
    <3>1. /\ Sane(World)' /\ objects' = c.objects /\ running' = c.running /\ told' = c.told
          /\ strange' = c.strange
      BY <1>5, <2>1, <2>2, Left
    <3> QED
      BY <1>2, <1>4, <3>1
  <2>3. CASE m \notin loaded
    <3>1. /\ Sane(World)' /\ objects' = objects /\ running' = running /\ told' = told
          /\ strange' = strange
      BY <1>2, <2>1, <2>3, Left, WorldIs
    <3> QED
      BY <3>1
  <2> QED
    BY <2>2, <2>3
<1>7. TypeOK' /\ EngineSeen'
  <2>1. loaded' \subseteq mods' /\ mods' \subseteq Dirs
    BY <1>1 DEF KInv, TypeOK
  <2> QED
    BY <1>1, <1>6, <2>1, ModsTypes DEF ModsStep
<1>8. Placed' /\ NotAnnounced' /\ RefreshesOnce' /\ EventsInOrder'
  BY <1>1, <1>6 DEF KInv, Placed, NotAnnounced, RefreshesOnce, EventsInOrder
<1>9. InformedOfMap' /\ AnnouncedToAll'
  BY <1>1, <1>2, <1>6 DEF KInv, InformedOfMap, AnnouncedToAll, Happened, server
<1> QED
  BY <1>6, <1>7, <1>8, <1>9 DEF KInv

\* A plugin reloads itself and catches up, or stays unloaded.
LEMMA AutoReloadKeeps ==
  ASSUME KInv, NEW p \in Plugins, AutoReloads(p)
  PROVE  KInv'
<1> DEFINE u == unload(World, {p})
           l == load(u, {p})
<1>1. /\ vmod = "on" /\ UNCHANGED <<server, flags, mods, loaded, mods_loaded, command, left>>
      /\ autoreloaded' = autoreloaded \cup {p} /\ p \in objects
      /\ Commit(u) \/ Commit(l)
  BY DEF AutoReloads, Idle, On
<1>2. /\ Sane(World) /\ running \subseteq objects /\ objects \subseteq Plugins
      /\ \A q \in running : "plugin_loaded" \in told[q]
      /\ is_map_active => is_map_loaded
      /\ Missed = Happened /\ "all_mods_loaded" \notin Happened
  BY <1>1, SaneScripts, MissedHappened DEF KInv, ScriptsOK, EngineSeen, TypeOK, Happened
<1>3. /\ Sane(u) /\ u.objects = objects /\ u.running = running \ {p} /\ u.strange = strange
      /\ \A q \in Plugins \ {p} : u.told[q] = told[q]
  <2>1. {p} \in SUBSET Plugins
    OBVIOUS
  <2> QED
    BY <1>2, <2>1, UnloadTells, WorldIs
<1> HIDE DEF u
<1>4. /\ Sane(l) /\ l.objects = objects /\ l.running = running \cup {p} /\ l.strange = strange
      /\ l.told[p] = {"plugin_loaded"} \cup Missed
      /\ \A q \in Plugins \ {p} : l.told[q] = told[q]
  <2>1. {p} \in SUBSET (u.objects \ u.running)
    BY <1>1, <1>3
  <2>2. /\ Sane(l) /\ l.objects = u.objects /\ l.running = u.running \cup {p}
        /\ l.strange = u.strange
        /\ \A q \in {p} : l.told[q] = {"plugin_loaded"} \cup Missed
        /\ \A q \in Plugins \ {p} : l.told[q] = u.told[q]
    BY <1>2, <1>3, <2>1, LoadTells
  <2> QED
    BY <1>3, <2>2
<1> HIDE DEF l
<1>5. PICK d : /\ Sane(d) /\ Commit(d) /\ d.objects = objects /\ d.strange = strange
               /\ d.running \subseteq running \cup {p}
               /\ p \in d.running => d.told[p] = {"plugin_loaded"} \cup Happened
               /\ \A q \in Plugins \ {p} : d.told[q] = told[q]
  BY <1>1, <1>2, <1>3, <1>4
<1>6. /\ Sane(World)' /\ objects' = objects /\ strange' = strange
      /\ running' \subseteq running \cup {p}
      /\ p \in running' => told'[p] = {"plugin_loaded"} \cup Happened
      /\ \A q \in Plugins \ {p} : told'[q] = told[q]
  BY <1>5, Left
<1>7. TypeOK' /\ EngineSeen'
  <2>1. loaded' \subseteq mods' /\ mods' \subseteq Dirs
    BY <1>1 DEF KInv, TypeOK
  <2> QED
    BY <1>1, <1>6, <2>1, ModsTypes DEF ModsStep
<1>8. Placed' /\ NotAnnounced' /\ RefreshesOnce' /\ EventsInOrder'
  BY <1>1, <1>2, <1>6 DEF KInv, Placed, NotAnnounced, RefreshesOnce, EventsInOrder
<1>9. InformedOfMap' /\ AnnouncedToAll'
  <2>1. Happened' = Happened
    BY <1>1 DEF Happened, server
  <2>2. InformedOfMap'
    BY <1>1, <1>2, <1>6, <2>1 DEF KInv, InformedOfMap
  <2> QED
    BY <1>1, <1>2, <1>6, <2>2 DEF KInv, AnnouncedToAll
<1> QED
  BY <1>6, <1>7, <1>8, <1>9 DEF KInv

-----------------------------------------------------------------------------
(* Every step *)

\* Nothing happens.
LEMMA StutterKnows == KInv /\ UNCHANGED vars => KInv'
<1> SUFFICES ASSUME KInv, UNCHANGED vars PROVE KInv'
  OBVIOUS
<1>1. Sane(World)'
  BY UnchangedScripts DEF KInv, vars
<1>2. TypeOK'
  <2>1. {tables, is_map_loaded, is_map_active, are_string_tables_created,
         mods_loaded, crashed}' \subseteq BOOLEAN
    BY Zenon DEF KInv, TypeOK, vars, flags
  <2> QED
    BY <2>1 DEF KInv, TypeOK, vars, flags, scripts
<1> QED
  BY <1>1, <1>2 DEF KInv, vars, flags, scripts, Placed, EngineSeen, NotAnnounced, RefreshesOnce,
     InformedOfMap, AnnouncedToAll, EventsInOrder, Happened

\* Every step keeps the invariant.
LEMMA KnowsInduction == KInv /\ [Next]_vars => KInv'
<1> SUFFICES ASSUME KInv, [Next]_vars PROVE KInv'
  OBVIOUS
<1>1. CASE UnloadMods \/ RefreshMods \/ Load \/ Unload
  BY <1>1, EmptyingKeeps
<1>2. CASE EngineNext
  BY <1>2, EngineKeeps
<1>3. CASE ReloadMods \/ ReloadDone
  BY <1>3, ReloadKeeps
<1>4. CASE RefreshDone
  BY <1>4, RefreshDoneKeeps
<1>5. ASSUME NEW m \in Dirs, LoadModCommand(m) \/ RefreshOne(m) \/ ReloadOne(m) PROVE KInv'
  BY <1>5, LoadingKeeps
<1>6. ASSUME NEW m \in Dirs, UnloadMod(m) PROVE KInv'
  BY <1>6, UnloadingKeeps
<1>7. ASSUME NEW m \in Dirs, AnnounceAgain(m) PROVE KInv'
  BY <1>7, AnnounceKeeps
<1>8. ASSUME NEW p \in Plugins, AutoReloads(p) PROVE KInv'
  BY <1>8, AutoReloadKeeps
<1>9. CASE UNCHANGED vars
  BY <1>9, StutterKnows
<1> QED
  BY <1>1, <1>2, <1>3, <1>4, <1>5, <1>6, <1>7, <1>8, <1>9 DEF Next, CommandStep, EngineNext

\* Whatever order of maps, loads, reloads and unloads there was, the plugins
\* and the flags of main stand to each other and to the engine as KInv says.
THEOREM KnowsInvariance == Spec => []KInv
  BY InitKnows, KnowsInduction, PTL DEF Spec

\* A running plugin of a loaded mod knows what has become of the map, of the
\* string tables and of the other mods, however late main::load_mod or its own
\* reload brought it in.
THEOREM Knows == Spec => []KnowsWhatHappened
<1>1. KInv => KnowsWhatHappened
  BY DEF KInv, KnowsWhatHappened
<1> QED
  BY <1>1, KnowsInvariance, PTL

\* The handlers of the engine call functions in loaded mods only.
LEMMA FailedIsSpared ==
  ASSUME KInv, [Next]_vars, NEW p \in running, ModOf[p] \notin loaded,
         level' # level \/ tables' # tables
  PROVE  told'[p] \cup {"string_tables_created"} = told[p] \cup {"string_tables_created"}
<1>0. vmod = "on" /\ p \in Plugins
  BY SaneScripts DEF KInv, EngineSeen, TypeOK
<1>1. EngineNext
  BY <1>0 DEF Next, CommandStep, EngineNext, vars, server, Load, Unload, UnloadMods, RefreshMods,
     ReloadMods, RefreshDone, ReloadDone, RefreshOne, ReloadOne, AnnounceAgain, UnloadMod,
     LoadModCommand, AutoReloads
<1>2. ASSUME NEW e \in Events, Commit(Notify(World, e)) PROVE told'[p] = told[p]
  <2> DEFINE ps == {q \in objects \cap running : ModOf[q] \in loaded}
             n == Call(World, ps, e)
  <2>1. ps \in SUBSET Plugins /\ World \in Worlds
    BY DEF KInv, TypeOK, Sane
  <2>2. p \notin ps
    OBVIOUS
  <2>3. Commit(n)
    BY <1>2, WorldIs DEF Notify
  <2> HIDE DEF ps
  <2>4. Called(World, ps, e, n)
    BY <2>1, CallIs
  <2> HIDE DEF n
  <2>5. n.told[p] = told[p]
    BY <1>0, <2>2, <2>4, WorldIs DEF Called
  <2> QED
    BY <2>3, <2>5 DEF Commit
<1>3. CASE LevelInit
  BY <1>0, <1>2, <1>3 DEF LevelInit, Events
<1>4. CASE ServerActivate
  BY <1>0, <1>2, <1>4 DEF ServerActivate, Events
<1>5. CASE LevelShutdown
  BY <1>2, <1>5 DEF LevelShutdown, Unloaded, scripts, Events
<1>6. CASE CreateTables
  BY <1>0, <1>2, <1>6 DEF CreateTables, Events
<1>7. CASE RemoveTables
  BY <1>0, <1>7 DEF RemoveTables, Forget
<1> QED
  BY <1>1, <1>3, <1>4, <1>5, <1>6, <1>7 DEF EngineNext

\* No function of a plugin is called out of turn - but for the announcement that
\* vmod_reload_mods repeats - and none at all in a mod that failed to load.
THEOREM MakesSense == Spec => EventsMakeSense
<1>1. KInv => EventsInOrder
  BY DEF KInv
<1>2. KInv /\ [Next]_vars =>
        [\A p \in running :
           ModOf[p] \notin loaded /\ (level' # level \/ tables' # tables) =>
             told'[p] \cup {"string_tables_created"} = told[p] \cup {"string_tables_created"}]_vars
  BY FailedIsSpared
<1> QED
  BY <1>1, <1>2, KnowsInvariance, PTL DEF Spec, EventsMakeSense, FailedModHearsNothing

=============================================================================
