------------------------- MODULE PluginScopesProofs -------------------------
(***************************************************************************)
(* Proofs about PluginScopes.  Everything rests on one inductive           *)
(* invariant: at a level that has not gone astray the plugin assumed to    *)
(* run is that of the innermost scope; a scope inside which no other was   *)
(* entered saved what is right for the level beneath it; and the plugins   *)
(* of all calls under way are alive, or were destroyed during the call.    *)
(* Then an instance that did not stray is owned by the plugin whose        *)
(* function made it, an owner is alive, and what is touched is alive but   *)
(* for the named ways.                                                     *)
(***************************************************************************)
EXTENDS PluginScopes, SequenceTheorems, TLAPS

\* The plugin that is current on the level beneath k.
Below(k) == IF k = 1 THEN None ELSE stack[k - 1].current

\* m is the innermost scope.
Innermost(m) ==
  stack[m].kind # "unscoped" /\ \A k \in m + 1..Level : stack[k].kind = "unscoped"

\* A scope inside which no other was entered saved what is to be assumed
\* beneath it.
SavedIsRight ==
  fresh => \A m \in 1..Level : Innermost(m) => m - 1 \in astray \/ old_running = Below(m)

\* A call with no scope leaves the current plugin, which is that of a call.
CurrentOfCalls ==
  \A k \in 1..Level :
    /\ stack[k].kind = "unscoped" => stack[k].current = Below(k)
    /\ stack[k].current # None => \E j \in 1..k : stack[j].plugin = stack[k].current

\* A call under way is of a dead plugin only if that was destroyed meanwhile.
FramesAlive ==
  touched = {} => \A k \in 1..Level : stack[k].plugin \in alive \cup pulled \cup {None}

\* A load or an unload is of some plugin.
CallsNamed ==
  \A k \in 1..Level : stack[k].kind \in {"load", "unload"} => stack[k].plugin \in Objects

\* An instance that did not stray belongs to the plugin whose function made it.
CreatorOwns ==
  touched = {} => \A i \in live : creator[i] # None /\ i \notin strayed => owner_plugin[i] = creator[i]

IInv ==
  /\ TypeOK /\ AssumedIsRunning /\ SavedIsRight /\ CurrentOfCalls /\ FramesAlive /\ CallsNamed
  /\ OwnersAgree /\ CreatorOwns /\ DeadTouchedOnlyBy

StackFrame == [kind : Kinds, plugin : Plugin, current : Plugin]

-----------------------------------------------------------------------------
(* The stack *)

\* A call pushes one frame and keeps those below it.
LEMMA Pushed ==
  ASSUME stack \in Seq(StackFrame), NEW f \in StackFrame, stack' = Append(stack, f)
  PROVE  /\ stack' \in Seq(StackFrame)
         /\ Level \in Nat /\ Level' = Level + 1
         /\ stack'[Level + 1] = f
         /\ \A k \in 1..Level : stack'[k] = stack[k]
  BY DEF Level

\* A return drops the innermost frame and keeps the others.
LEMMA Popped ==
  ASSUME stack \in Seq(StackFrame), stack # <<>>, stack' = SubSeq(stack, 1, Level - 1)
  PROVE  /\ stack' \in Seq(StackFrame)
         /\ Level \in Nat /\ Level > 0 /\ Level' = Level - 1
         /\ Top \in StackFrame
         /\ \A k \in 1..Level - 1 : stack'[k] = stack[k]
<1>1. Len(stack) \in Nat /\ Len(stack) > 0
  OBVIOUS
<1>2. \A k \in 1..Len(stack) : stack[k] \in StackFrame
  OBVIOUS
<1>3. PICK n \in Int : n = Len(stack) - 1 /\ n >= 0
  BY <1>1
<1>4. /\ SubSeq(stack, 1, n) \in Seq(StackFrame)
      /\ Len(SubSeq(stack, 1, n)) = IF 1 <= n THEN n - 1 + 1 ELSE 0
      /\ \A k \in 1..n - 1 + 1 : SubSeq(stack, 1, n)[k] = stack[1 + k - 1]
  BY <1>1, <1>2, <1>3, SubSeqProperties
<1>5. Len(SubSeq(stack, 1, n)) = n
  BY <1>3, <1>4
<1>6. \A k \in 1..n : SubSeq(stack, 1, n)[k] = stack[k]
  BY <1>3, <1>4
<1>7. Top \in StackFrame
  BY <1>1, <1>2 DEF Top, Level
<1> QED
  BY <1>1, <1>3, <1>4, <1>5, <1>6, <1>7 DEF Level

\* The current plugin is that of some call, or none.
LEMMA CurrentAlive ==
  ASSUME TypeOK, CurrentOfCalls, FramesAlive, touched = {}
  PROVE  Current \in alive \cup pulled \cup {None} /\ Current \in Plugin
<1>1. CASE stack = <<>>
  BY <1>1 DEF Current, InScript, Plugin
<1>2. CASE stack # <<>>
  <2>0. stack \in Seq(StackFrame)
    BY DEF TypeOK, StackFrame
  <2>1. Level \in Nat /\ Level \in 1..Level /\ stack[Level] \in StackFrame
    BY <1>2, <2>0 DEF Level
  <2>2. Current = stack[Level].current /\ Current \in Plugin
    BY <1>2, <2>1 DEF Current, InScript, Top, StackFrame
  <2>3. CASE Current # None
    <3>1. PICK j \in 1..Level : stack[j].plugin = Current
      BY <2>1, <2>2, <2>3 DEF CurrentOfCalls
    <3> QED
      BY <2>2, <3>1 DEF FramesAlive
  <2> QED
    BY <2>2, <2>3
<1> QED
  BY <1>1, <1>2

\* What a call does to the stack and to the history of its levels.
LEMMA Called ==
  ASSUME TypeOK, CurrentOfCalls, CallsNamed, FramesAlive,
         NEW kind \in Kinds, NEW o \in Plugin, NEW current \in Plugin,
         kind \in {"load", "unload"} => o \in Objects,
         kind = "unscoped" => current = Current,
         current = o \/ current = Current,
         Push(kind, o, current)
  PROVE  /\ stack' \in Seq(StackFrame) /\ astray' \subseteq 0..Level'
         /\ Level \in Nat /\ Level' = Level + 1
         /\ stack'[Level + 1] = [kind |-> kind, plugin |-> o, current |-> current]
         /\ \A k \in 1..Level : stack'[k] = stack[k]
         /\ \A k \in 0..Level : k \in astray' <=> k \in astray
         /\ Level + 1 \in astray' <=> Level \in astray /\ (kind = "unscoped" \/ o = None)
         /\ Current' = current /\ Below(Level)' = Current
         /\ \A k \in 1..Level : Below(k)' = Below(k)
         /\ CallsNamed' /\ CurrentOfCalls'
<1> DEFINE f == [kind |-> kind, plugin |-> o, current |-> current]
<1>1. stack \in Seq(StackFrame) /\ f \in StackFrame /\ stack' = Append(stack, f)
  BY DEF TypeOK, StackFrame, Push
<1>2. /\ stack' \in Seq(StackFrame)
      /\ Level \in Nat /\ Level' = Level + 1
      /\ stack'[Level + 1] = f
      /\ \A k \in 1..Level : stack'[k] = stack[k]
  BY <1>1, Pushed
<1>3. astray' = astray \cup {n \in {Level + 1} : Level \in astray /\ (kind = "unscoped" \/ o = None)}
  BY DEF Push
<1>4. astray \subseteq 0..Level
  BY DEF TypeOK
<1>5. /\ \A k \in 0..Level : k \in astray' <=> k \in astray
      /\ Level + 1 \in astray' <=> Level \in astray /\ (kind = "unscoped" \/ o = None)
  BY <1>2, <1>3, <1>4
<1>6. astray' \subseteq 0..Level'
  <2>1. \A n \in astray' : n \in astray \/ n = Level + 1
    BY <1>3
  <2>2. Level \in Nat /\ Level' = Level + 1
    BY <1>2
  <2>3. ASSUME NEW n \in astray' PROVE n \in 0..Level'
    <3>1. CASE n = Level + 1
      BY <2>2, <3>1
    <3>2. CASE n \in astray
      <4>1. n \in 0..Level
        BY <1>4, <3>2
      <4> QED
        BY <2>2, <4>1
    <3> QED
      BY <2>1, <3>1, <3>2
  <2> QED
    BY <2>3
<1>7. stack' # <<>>
  BY <1>1
<1>8. Current' = current
  BY <1>2, <1>7 DEF Current, InScript, Top
<1>9. Below(Level)' = Current
  <2>1. CASE Level = 0
    <3>1. stack = <<>> /\ Level' = 1
      BY <1>1, <1>2, <2>1 DEF Level
    <3> QED
      BY <3>1 DEF Below, Current, InScript
  <2>2. CASE Level # 0
    <3>1. stack # <<>> /\ Level \in 1..Level /\ Level' - 1 = Level /\ Level' # 1
      BY <1>1, <1>2, <2>2 DEF Level
    <3>2. stack'[Level] = stack[Level]
      BY <1>2, <3>1
    <3> QED
      BY <1>2, <3>1, <3>2 DEF Below, Current, InScript, Top
  <2> QED
    BY <2>1, <2>2
<1>10. ASSUME NEW k \in 1..Level PROVE Below(k)' = Below(k)
  <2>1. CASE k = 1
    BY <2>1 DEF Below
  <2>2. CASE k # 1
    BY <1>2, <2>2 DEF Below
  <2> QED
    BY <2>1, <2>2
<1>11. CallsNamed'
  BY <1>2 DEF CallsNamed
<1>12. CurrentOfCalls'
  <2> SUFFICES ASSUME NEW k \in 1..Level'
               PROVE  /\ stack'[k].kind = "unscoped" => stack'[k].current = Below(k)'
                      /\ stack'[k].current # None =>
                           \E j \in 1..k : stack'[j].plugin = stack'[k].current
    BY DEF CurrentOfCalls
  <2>1. CASE k \in 1..Level
    <3>1. stack'[k] = stack[k] /\ Below(k)' = Below(k)
      BY <1>2, <1>10, <2>1
    <3>2. \A j \in 1..k : j \in 1..Level /\ stack'[j] = stack[j]
      BY <1>2, <2>1
    <3> QED
      BY <2>1, <3>1, <3>2 DEF CurrentOfCalls
  <2>2. CASE k = Level + 1
    <3>1. stack'[k] = f
      BY <1>2, <2>2
    <3>2. kind = "unscoped" => stack'[k].current = Below(k)'
      BY <1>2, <1>9, <2>2, <3>1
    <3>3. CASE current = o
      BY <1>2, <2>2, <3>1, <3>2, <3>3
    <3>4. CASE current = Current /\ Current # None
      <4>1. Level \in 1..Level /\ Current = stack[Level].current
        BY <1>1, <1>2, <3>4 DEF Current, InScript, Top, Level
      <4>2. PICK j \in 1..Level : stack[j].plugin = Current
        BY <3>4, <4>1 DEF CurrentOfCalls
      <4>3. j \in 1..k /\ stack'[j].plugin = Current
        BY <1>2, <2>2, <4>2
      <4> QED
        BY <3>1, <3>2, <3>4, <4>3
    <3>5. CASE current = None
      BY <3>1, <3>2, <3>5
    <3> QED
      BY <3>3, <3>4, <3>5
  <2> QED
    BY <1>2, <2>1, <2>2
<1> QED
  BY <1>2, <1>5, <1>6, <1>8, <1>9, <1>10, <1>11, <1>12

\* A frame on top leaves the others alive, if its own plugin is.
LEMMA CalledAlive ==
  ASSUME FramesAlive, touched = {}, NEW f, f.plugin \in alive \cup {None},
         Level \in Nat, Level' = Level + 1, stack'[Level + 1] = f,
         \A k \in 1..Level : stack'[k] = stack[k],
         alive' = alive, pulled' = pulled
  PROVE  FramesAlive'
<1> SUFFICES ASSUME NEW k \in 1..Level' PROVE stack'[k].plugin \in alive \cup pulled \cup {None}
  BY DEF FramesAlive
<1>1. CASE k \in 1..Level
  BY <1>1 DEF FramesAlive
<1>2. CASE k = Level + 1
  BY <1>2
<1> QED
  BY <1>1, <1>2

\* A scope says which plugin runs, and saves what is assumed outside of it.
LEMMA Entered ==
  ASSUME IInv, touched = {}, NEW kind \in Kinds \ {"unscoped"}, NEW o \in Plugin,
         kind \in {"load", "unload"} => o \in Objects, Enter(kind, o)
  PROVE  /\ stack' \in Seq(StackFrame) /\ astray' \subseteq 0..Level' /\ fresh' \in BOOLEAN
         /\ assumed_currently_running_' \in Plugin /\ old_running' \in Plugin
         /\ AssumedIsRunning' /\ SavedIsRight' /\ CallsNamed' /\ CurrentOfCalls'
         /\ o \in alive \cup {None} /\ alive' = alive /\ pulled' = pulled => FramesAlive'
<1> DEFINE current == IF o = None THEN Current ELSE o
           f == [kind |-> kind, plugin |-> o, current |-> current]
<1>1. TypeOK /\ CurrentOfCalls /\ CallsNamed /\ FramesAlive /\ AssumedIsRunning
  BY DEF IInv
<1>2. current \in Plugin /\ (current = o \/ current = Current) /\ kind # "unscoped"
  BY <1>1, CurrentAlive
<1>3. Push(kind, o, current)
  BY DEF Enter
<1> HIDE DEF current
<1>4. /\ stack' \in Seq(StackFrame) /\ astray' \subseteq 0..Level'
      /\ Level \in Nat /\ Level' = Level + 1
      /\ stack'[Level + 1] = f
      /\ \A k \in 1..Level : stack'[k] = stack[k]
      /\ \A k \in 0..Level : k \in astray' <=> k \in astray
      /\ Level + 1 \in astray' <=> Level \in astray /\ (kind = "unscoped" \/ o = None)
      /\ Current' = current /\ Below(Level)' = Current
      /\ CallsNamed' /\ CurrentOfCalls'
  BY <1>1, <1>2, <1>3, Called
<1>5. /\ old_running' = assumed_currently_running_ /\ fresh' = TRUE
      /\ assumed_currently_running_' = IF o = None THEN assumed_currently_running_ ELSE o
  BY DEF Enter
<1>6. assumed_currently_running_' \in Plugin /\ old_running' \in Plugin /\ fresh' \in BOOLEAN
  BY <1>1, <1>5 DEF TypeOK
<1>7. AssumedIsRunning'
  <2>1. CASE o = None
    BY <1>1, <1>4, <1>5, <2>1 DEF AssumedIsRunning, current
  <2>2. CASE o # None
    BY <1>4, <1>5, <2>2 DEF AssumedIsRunning, current
  <2> QED
    BY <2>1, <2>2
<1>8. SavedIsRight'
  <2> SUFFICES ASSUME NEW m \in 1..Level', Innermost(m)'
               PROVE  m - 1 \in astray' \/ old_running' = Below(m)'
    BY DEF SavedIsRight
  <2>1. \A k \in m + 1..Level' : stack'[k].kind = "unscoped"
    BY DEF Innermost
  <2>2. stack'[Level + 1].kind # "unscoped"
    BY <1>2, <1>4
  <2>3. m = Level + 1
    <3>1. m \in 1..Level + 1 /\ Level \in Nat
      BY <1>4
    <3>2. Level + 1 \notin m + 1..Level + 1
      BY <1>4, <2>1, <2>2
    <3> QED
      BY <3>1, <3>2
  <2>4. Level \in astray' <=> Level \in astray
    BY <1>4
  <2>5. Below(m)' = Current
    <3>1. m = Level'
      BY <1>4, <2>3
    <3>2. Below(Level)' = Current
      BY <1>4
    <3> QED
      BY <3>1, <3>2 DEF Below
  <2> QED
    BY <1>1, <1>4, <1>5, <2>3, <2>4, <2>5 DEF AssumedIsRunning
<1>9. o \in alive \cup {None} /\ alive' = alive /\ pulled' = pulled => FramesAlive'
  <2>1. f.plugin = o
    OBVIOUS
  <2> HIDE DEF f
  <2> QED
    BY <1>1, <1>4, <2>1, CalledAlive
<1> QED
  BY <1>4, <1>6, <1>7, <1>8, <1>9

\* A return puts back what is right, unless another scope was entered inside.
LEMMA Returned ==
  ASSUME IInv, Return
  PROVE  /\ stack' \in Seq(StackFrame) /\ astray' \subseteq 0..Level' /\ fresh' \in BOOLEAN
         /\ AssumedIsRunning' /\ SavedIsRight' /\ CurrentOfCalls' /\ CallsNamed'
         /\ Top \in StackFrame
         /\ Top.kind \in {"load", "unload"} => Top.plugin \in Objects
         /\ touched = {} => Top.plugin \in alive \cup pulled \cup {None}
         /\ \A k \in 1..Level' : k \in 1..Level /\ stack'[k] = stack[k]
<1>1. /\ stack' \in Seq(StackFrame)
      /\ Level \in Nat /\ Level > 0 /\ Level' = Level - 1
      /\ Top \in StackFrame
      /\ \A k \in 1..Level - 1 : stack'[k] = stack[k]
  BY Popped DEF Return, InScript, IInv, TypeOK, StackFrame
<1>2. Level \in 1..Level /\ Top = stack[Level] /\ stack # <<>>
  BY <1>1 DEF Top, Return, InScript
<1>3. \A k \in 1..Level' : k \in 1..Level /\ stack'[k] = stack[k]
  BY <1>1
<1>4. ASSUME NEW k \in 1..Level' PROVE Below(k)' = Below(k)
  <2>1. CASE k = 1
    BY <2>1 DEF Below
  <2>2. CASE k # 1
    BY <1>1, <2>2 DEF Below
  <2> QED
    BY <2>1, <2>2
<1>5. Current' = Below(Level)
  <2>1. CASE Level = 1
    <3>1. stack' = <<>>
      BY <1>1, <2>1 DEF Level
    <3> QED
      BY <2>1, <3>1 DEF Current, InScript, Below
  <2>2. CASE Level # 1
    <3>1. stack' # <<>> /\ Level - 1 \in 1..Level - 1 /\ Level' = Level - 1
      BY <1>1, <2>2 DEF Level
    <3>2. stack'[Level - 1] = stack[Level - 1]
      BY <1>1, <3>1
    <3> QED
      BY <2>2, <3>1, <3>2 DEF Current, InScript, Top, Below
  <2> QED
    BY <2>1, <2>2
<1>6. astray' = (astray \ {Level}) \cup {n \in {Level - 1} : Strays} /\ astray \subseteq 0..Level
  BY DEF Return, IInv, TypeOK
<1>7. /\ \A k \in 0..Level - 2 : k \in astray' <=> k \in astray
      /\ Level - 1 \in astray' <=> Level - 1 \in astray \/ Strays
      /\ astray' \subseteq 0..Level'
  <2>1. Level \in Nat /\ Level > 0 /\ Level' = Level - 1
    BY <1>1
  <2>2. \A n : n \in astray' <=> (n \in astray /\ n # Level) \/ (n = Level - 1 /\ Strays)
    BY <1>6
  <2>3. ASSUME NEW n \in astray' PROVE n \in 0..Level'
    <3>1. CASE n = Level - 1
      BY <2>1, <3>1
    <3>2. CASE n \in astray /\ n # Level
      <4>1. n \in 0..Level
        BY <1>6, <3>2
      <4> QED
        BY <2>1, <3>2, <4>1
    <3> QED
      BY <2>2, <3>1, <3>2
  <2>4. \A k \in 0..Level - 2 : k # Level /\ k # Level - 1
    BY <2>1
  <2>5. Level - 1 # Level
    BY <2>1
  <2> QED
    BY <2>2, <2>3, <2>4, <2>5
<1>8. /\ assumed_currently_running_' = Restored /\ old_running' = old_running
      /\ fresh' = (fresh /\ Top.kind = "unscoped") /\ fresh \in BOOLEAN
  BY DEF Return, IInv, TypeOK
<1>9. AssumedIsRunning'
  <2> SUFFICES ASSUME Level - 1 \notin astray' PROVE assumed_currently_running_' = Below(Level)
    BY <1>1, <1>5 DEF AssumedIsRunning
  <2>1. Level - 1 \notin astray /\ ~Strays
    BY <1>7
  <2>2. CASE Top.kind = "unscoped"
    <3>1. assumed_currently_running_ = Current
      BY <2>1, <2>2 DEF Strays, IInv, AssumedIsRunning
    <3>2. Current = Below(Level)
      BY <1>2, <2>2 DEF Current, InScript, IInv, CurrentOfCalls
    <3> QED
      BY <1>8, <2>2, <3>1, <3>2 DEF Restored
  <2>3. CASE Top.kind # "unscoped"
    <3>1. fresh
      BY <2>1, <2>3 DEF Strays
    <3>2. Innermost(Level)
      BY <1>1, <1>2, <2>3 DEF Innermost
    <3>3. old_running = Below(Level)
      BY <1>2, <2>1, <3>1, <3>2 DEF IInv, SavedIsRight
    <3> QED
      BY <1>8, <2>3, <3>3 DEF Restored
  <2> QED
    BY <2>2, <2>3
<1>10. SavedIsRight'
  <2> SUFFICES ASSUME fresh', NEW m \in 1..Level', Innermost(m)'
               PROVE  m - 1 \in astray' \/ old_running' = Below(m)'
    BY DEF SavedIsRight
  <2>1. fresh /\ stack[Level].kind = "unscoped"
    BY <1>2, <1>8
  <2>2. m \in 1..Level /\ stack'[m] = stack[m] /\ Below(m)' = Below(m)
    BY <1>3, <1>4
  <2>3. Innermost(m)
    <3> SUFFICES ASSUME NEW k \in m + 1..Level PROVE stack[k].kind = "unscoped"
      BY <2>2 DEF Innermost
    <3>1. CASE k = Level
      BY <2>1, <3>1
    <3>2. CASE k # Level
      <4>1. k \in m + 1..Level' /\ k \in 1..Level'
        BY <1>1, <3>2
      <4>2. stack'[k] = stack[k]
        BY <1>3, <4>1
      <4> QED
        BY <4>1, <4>2 DEF Innermost
    <3> QED
      BY <3>1, <3>2
  <2>4. m - 1 \in astray \/ old_running = Below(m)
    BY <2>1, <2>2, <2>3 DEF IInv, SavedIsRight
  <2>5. m - 1 \in 0..Level - 2
    BY <1>1
  <2> QED
    BY <1>7, <1>8, <2>2, <2>4, <2>5
<1>11. CurrentOfCalls'
  <2> SUFFICES ASSUME NEW k \in 1..Level'
               PROVE  /\ stack'[k].kind = "unscoped" => stack'[k].current = Below(k)'
                      /\ stack'[k].current # None =>
                           \E j \in 1..k : stack'[j].plugin = stack'[k].current
    BY DEF CurrentOfCalls
  <2>1. k \in 1..Level /\ stack'[k] = stack[k] /\ Below(k)' = Below(k)
    BY <1>3, <1>4
  <2>2. \A j \in 1..k : j \in 1..Level' /\ stack'[j] = stack[j]
    BY <1>1, <1>3
  <2> QED
    BY <2>1, <2>2 DEF IInv, CurrentOfCalls
<1>12. touched = {} => Top.plugin \in alive \cup pulled \cup {None}
  BY <1>2 DEF IInv, FramesAlive
<1>13. CallsNamed' /\ (Top.kind \in {"load", "unload"} => Top.plugin \in Objects)
  BY <1>2, <1>3 DEF IInv, CallsNamed
<1> QED
  BY <1>1, <1>3, <1>7, <1>8, <1>9, <1>10, <1>11, <1>12, <1>13

-----------------------------------------------------------------------------
(* The lists of instances *)

\* Clearing the list of a plugin keeps lists and owners in agreement.
LEMMA Cleared ==
  ASSUME IInv, touched = {}, NEW o \in Objects, Clear(o),
         alive \ {o} \subseteq alive', creator' = creator, strayed' = strayed
  PROVE  /\ \A i \in live' : owner_plugin'[i] # None => owner_plugin'[i] \in alive'
         /\ \A q \in Objects : owned_instances'[q] = {i \in live' : owner_plugin'[i] = q}
         /\ \A i \in live' :
              creator'[i] # None /\ i \notin strayed' => owner_plugin'[i] = creator'[i]
         /\ \A i \in live' : creator[i] = o => i \in strayed
<1>1. /\ \A i \in live : owner_plugin[i] # None => owner_plugin[i] \in alive
      /\ \A q \in Objects : owned_instances[q] = {i \in live : owner_plugin[i] = q}
      /\ \A i \in live : creator[i] # None /\ i \notin strayed => owner_plugin[i] = creator[i]
  BY DEF IInv, OwnersAgree, CreatorOwns
<1>2. o # None
  BY ConstAssumption
<1>3. /\ live \subseteq Instances
      /\ owned_instances \in [Objects -> SUBSET Instances]
      /\ owner_plugin \in [Instances -> Plugin]
  BY DEF IInv, TypeOK
<1>4. \A i \in live' : i \in live /\ i \notin owned_instances[o] /\ owner_plugin'[i] = owner_plugin[i]
                      /\ owner_plugin[i] # o
  BY <1>1, <1>3 DEF Clear
<1>5. \A q \in Objects : owned_instances'[q] = {i \in live' : owner_plugin'[i] = q}
  <2> TAKE q \in Objects
  <2>1. CASE q = o
    BY <1>3, <1>4, <2>1 DEF Clear
  <2>2. CASE q # o
    <3>1. owned_instances'[q] = owned_instances[q]
      BY <1>3, <2>2 DEF Clear
    <3>2. \A i \in owned_instances[q] : i \in live' /\ owner_plugin'[i] = q
      BY <1>1, <1>3, <2>2 DEF Clear
    <3> QED
      BY <1>1, <1>4, <3>1, <3>2
  <2> QED
    BY <2>1, <2>2
<1> QED
  BY <1>1, <1>2, <1>4, <1>5

\* The types of what Clear changes.
LEMMA ClearedTypes ==
  ASSUME TypeOK, NEW o \in Plugin, Clear(o)
  PROVE  /\ live' \subseteq Instances
         /\ owned_instances' \in [Objects -> SUBSET Instances]
         /\ owner_plugin' \in [Instances -> Plugin]
         /\ callback' \in Plugin \cup {"none"} /\ holder' \in Plugin
  BY DEF TypeOK, Clear, Drop, Plugin

-----------------------------------------------------------------------------
(* The invariant *)

LEMMA InitInv == Init => IInv
<1> SUFFICES ASSUME Init PROVE IInv
  OBVIOUS
<1>1. stack = <<>> /\ Level = 0 /\ 1..Level = {}
  BY DEF Init, Level
<1>2. TypeOK
  <2>1. stack \in Seq([kind : Kinds, plugin : Plugin, current : Plugin])
    BY <1>1
  <2> QED
    BY <2>1 DEF Init, TypeOK, Plugin
<1>3. AssumedIsRunning /\ SavedIsRight
  BY <1>1 DEF Init, AssumedIsRunning, SavedIsRight, Current, InScript
<1>4. FramesAlive /\ CallsNamed /\ CurrentOfCalls
  BY <1>1 DEF FramesAlive, CallsNamed, CurrentOfCalls
<1>5. OwnersAgree /\ CreatorOwns /\ DeadTouchedOnlyBy
  BY DEF Init, OwnersAgree, CreatorOwns, DeadTouchedOnlyBy
<1> QED
  BY <1>2, <1>3, <1>4, <1>5 DEF IInv

\* What is said of the calls alone is kept by a step that leaves them as they are.
LEMMA CallsKept ==
  ASSUME AssumedIsRunning, SavedIsRight, CurrentOfCalls, CallsNamed,
         UNCHANGED <<scope, stack, order>>
  PROVE  AssumedIsRunning' /\ SavedIsRight' /\ CurrentOfCalls' /\ CallsNamed'
<1>1. /\ stack' = stack /\ astray' = astray /\ fresh' = fresh
      /\ assumed_currently_running_' = assumed_currently_running_ /\ old_running' = old_running
  BY DEF scope, order
<1>2. Level' = Level /\ Current' = Current
  BY <1>1 DEF Level, Current, InScript, Top
<1>3. \A k \in 1..Level : Below(k)' = Below(k) /\ (Innermost(k)' <=> Innermost(k))
  BY <1>1, <1>2 DEF Below, Innermost
<1>4. AssumedIsRunning'
  BY <1>1, <1>2 DEF AssumedIsRunning
<1>5. SavedIsRight'
  BY <1>1, <1>2, <1>3 DEF SavedIsRight
<1>6. CurrentOfCalls' /\ CallsNamed'
  BY <1>1, <1>2, <1>3 DEF CurrentOfCalls, CallsNamed
<1> QED
  BY <1>4, <1>5, <1>6

\* Calls leave everything but the calls alone, CallBack apart.
LEMMA EnterInv ==
  ASSUME IInv, touched = {}, NEW kind \in Kinds \ {"unscoped"}, NEW o \in Plugin,
         kind \in {"load", "unload"} => o \in Objects, Enter(kind, o),
         UNCHANGED <<objs, running, owns, share, calls, pulled>>, touched' \subseteq Objects,
         (o \in alive \cup {None} /\ touched' = {}) \/ (callback = o /\ touched' = {o})
  PROVE  IInv'
<1>1. /\ stack' \in Seq(StackFrame) /\ astray' \subseteq 0..Level' /\ fresh' \in BOOLEAN
      /\ assumed_currently_running_' \in Plugin /\ old_running' \in Plugin
      /\ AssumedIsRunning' /\ SavedIsRight' /\ CallsNamed' /\ CurrentOfCalls'
      /\ o \in alive \cup {None} /\ alive' = alive /\ pulled' = pulled => FramesAlive'
  BY Entered
<1>2. TypeOK'
  BY <1>1 DEF IInv, TypeOK, StackFrame, objs, owns, share, calls
<1>3. FramesAlive'
  <2>1. CASE touched' = {}
    BY <1>1, <2>1 DEF objs
  <2>2. CASE touched' # {}
    BY <2>2 DEF FramesAlive
  <2> QED
    BY <2>1, <2>2
<1>4. OwnersAgree' /\ CreatorOwns'
  BY DEF IInv, OwnersAgree, CreatorOwns, objs, owns
<1>5. DeadTouchedOnlyBy'
  BY DEF DeadTouchedOnlyBy, calls
<1> QED
  BY <1>1, <1>2, <1>3, <1>4, <1>5 DEF IInv

LEMMA ReturnInv ==
  ASSUME IInv, touched = {}, Return PROVE IInv'
<1>1. /\ stack' \in Seq(StackFrame) /\ astray' \subseteq 0..Level' /\ fresh' \in BOOLEAN
      /\ AssumedIsRunning' /\ SavedIsRight' /\ CurrentOfCalls' /\ CallsNamed'
      /\ Top \in StackFrame
      /\ Top.kind \in {"load", "unload"} => Top.plugin \in Objects
      /\ touched = {} => Top.plugin \in alive \cup pulled \cup {None}
      /\ \A k \in 1..Level' : k \in 1..Level /\ stack'[k] = stack[k]
  BY Returned
<1>2. UNCHANGED <<objs, old_running, share, creator, strayed, pulled>>
  BY DEF Return
<1>3. FramesAlive'
  BY <1>1, <1>2 DEF IInv, FramesAlive, objs
<1>4. touched' \subseteq pulled
  BY <1>1 DEF Return, Touch
<1>5. DeadTouchedOnlyBy'
  BY <1>2, <1>4 DEF DeadTouchedOnlyBy
<1>6. /\ running' \subseteq alive' /\ touched' \subseteq Objects
      /\ assumed_currently_running_' \in Plugin
  BY <1>1, <1>2 DEF Return, Restored, Touch, IInv, TypeOK, objs, StackFrame, Plugin
<1>7. CASE Top.plugin \in Objects /\ Clear(Top.plugin)
  <2>1. /\ live' \subseteq Instances
        /\ owned_instances' \in [Objects -> SUBSET Instances]
        /\ owner_plugin' \in [Instances -> Plugin]
        /\ callback' \in Plugin \cup {"none"} /\ holder' \in Plugin
    BY <1>1, <1>7, ClearedTypes DEF IInv, StackFrame, Plugin
  <2>2. TypeOK'
    BY <1>1, <1>2, <1>6, <2>1 DEF IInv, TypeOK, objs, share, StackFrame
  <2>3. /\ \A i \in live' : owner_plugin'[i] # None => owner_plugin'[i] \in alive'
        /\ \A q \in Objects : owned_instances'[q] = {i \in live' : owner_plugin'[i] = q}
        /\ \A i \in live' :
             creator'[i] # None /\ i \notin strayed' => owner_plugin'[i] = creator'[i]
    BY <1>2, <1>7, Cleared DEF objs
  <2> QED
    BY <1>1, <1>2, <1>3, <1>5, <2>2, <2>3 DEF IInv, OwnersAgree, CreatorOwns
<1>8. CASE UNCHANGED <<owned_instances, owner_plugin, live, calls>>
  <2>1. TypeOK'
    BY <1>1, <1>2, <1>6, <1>8 DEF IInv, TypeOK, objs, share, calls, StackFrame
  <2>2. OwnersAgree' /\ CreatorOwns'
    BY <1>2, <1>8 DEF IInv, OwnersAgree, CreatorOwns, objs
  <2> QED
    BY <1>1, <1>3, <1>5, <2>1, <2>2 DEF IInv
<1> QED
  BY <1>1, <1>7, <1>8 DEF Return

\* Objects come and go, with the calls as they are.
LEMMA DestroyInv == ASSUME IInv, touched = {}, NEW o \in Objects, Destroy(o) PROVE IInv'
<1>1. /\ UNCHANGED <<made, path, path_plugin_map, running, scope, stack, share, creator, strayed,
                      order, touched>>
      /\ alive' = alive \ {o} /\ o \notin running /\ Clear(o)
      /\ pulled' = pulled \cup {q \in {o} : \E k \in 1..Level : stack[k].plugin = q}
  BY DEF Destroy
<1>2. TypeOK'
  <2>1. /\ live' \subseteq Instances
        /\ owned_instances' \in [Objects -> SUBSET Instances]
        /\ owner_plugin' \in [Instances -> Plugin]
        /\ callback' \in Plugin \cup {"none"} /\ holder' \in Plugin
    BY <1>1, ClearedTypes DEF IInv, Plugin
  <2>2. pulled' \subseteq Objects
    BY <1>1 DEF IInv, TypeOK
  <2>3. astray' \subseteq 0..Level' /\ fresh' \in BOOLEAN
    BY <1>1 DEF IInv, TypeOK, order, Level
  <2> QED
    BY <1>1, <2>1, <2>2, <2>3 DEF IInv, TypeOK, scope, share
<1>3. AssumedIsRunning' /\ SavedIsRight' /\ CurrentOfCalls' /\ CallsNamed'
  BY <1>1, CallsKept DEF IInv
<1>4. FramesAlive'
  <2> SUFFICES ASSUME NEW k \in 1..Level PROVE stack[k].plugin \in alive' \cup pulled' \cup {None}
    BY <1>1 DEF FramesAlive, Level
  <2>1. stack[k].plugin \in alive \cup pulled \cup {None}
    BY DEF IInv, FramesAlive
  <2>2. stack[k].plugin = o => o \in pulled'
    BY <1>1
  <2> QED
    BY <1>1, <2>1, <2>2
<1>5. OwnersAgree' /\ CreatorOwns'
  <2>1. alive \ {o} \subseteq alive' /\ creator' = creator /\ strayed' = strayed
    BY <1>1
  <2> QED
    BY <1>1, <2>1, Cleared DEF OwnersAgree, CreatorOwns
<1>6. DeadTouchedOnlyBy'
  BY <1>1 DEF DeadTouchedOnlyBy
<1> QED
  BY <1>2, <1>3, <1>4, <1>5, <1>6 DEF IInv

LEMMA RegisterInv == ASSUME IInv, touched = {}, NEW i \in Instances, Register(i) PROVE IInv'
<1> DEFINE pl == assumed_currently_running_
<1>1. /\ stack # <<>> /\ i \notin live
      /\ owner_plugin' = [owner_plugin EXCEPT ![i] = pl]
      /\ owned_instances' =
           IF pl = None THEN owned_instances ELSE [owned_instances EXCEPT ![pl] = @ \cup {i}]
      /\ Touch({pl}) /\ live' = live \cup {i}
      /\ creator' = [creator EXCEPT ![i] = Top.plugin]
      /\ strayed' = (strayed \ {i}) \cup {j \in {i} : Current # Top.plugin \/ Level \in astray}
      /\ UNCHANGED <<objs, running, scope, stack, share, calls, order, pulled>>
  BY DEF Register, InScript
<1>2. Level \in 1..Level /\ Top = stack[Level] /\ Top \in StackFrame
  <2>1. stack \in Seq(StackFrame)
    BY DEF IInv, TypeOK, StackFrame
  <2>2. Level \in 1..Level
    BY <1>1, <2>1 DEF Level
  <2> QED
    BY <2>1, <2>2 DEF Top, Level
<1>3. pl \in Plugin /\ Top.plugin \in Plugin
  BY <1>2 DEF IInv, TypeOK, StackFrame
<1>4. TypeOK'
  <2>1. owner_plugin' \in [Instances -> Plugin] /\ creator' \in [Instances -> Plugin]
    BY <1>1, <1>3 DEF IInv, TypeOK, Plugin
  <2>2. owned_instances' \in [Objects -> SUBSET Instances]
    BY <1>1, <1>3 DEF IInv, TypeOK, Plugin
  <2>3. live' \subseteq Instances /\ touched' \subseteq Objects
    BY <1>1, <1>3 DEF IInv, TypeOK, Plugin, Touch
  <2>4. strayed' \subseteq Instances
    BY <1>1 DEF IInv, TypeOK
  <2>5. astray' \subseteq 0..Level' /\ fresh' \in BOOLEAN
    BY <1>1 DEF IInv, TypeOK, order, Level
  <2> QED
    BY <1>1, <2>1, <2>2, <2>3, <2>4, <2>5 DEF IInv, TypeOK, objs, scope, share, calls
<1>5. AssumedIsRunning' /\ SavedIsRight' /\ CurrentOfCalls' /\ CallsNamed'
  BY <1>1, CallsKept DEF IInv
<1>6. FramesAlive'
  BY <1>1 DEF IInv, FramesAlive, Level, objs
<1>7. Level \notin astray => pl = Current /\ pl \in alive \cup pulled \cup {None}
  <2>1. Current \in alive \cup pulled \cup {None}
    BY CurrentAlive DEF IInv
  <2> QED
    BY <2>1 DEF IInv, AssumedIsRunning
<1>8. OwnersAgree' /\ CreatorOwns'
  <2> SUFFICES ASSUME touched' = {} PROVE OwnersAgree' /\ CreatorOwns'
    BY DEF OwnersAgree, CreatorOwns
  <2>0. pl \in alive \cup {None}
    BY <1>1 DEF Touch
  <2>1. /\ \A j \in live : owner_plugin[j] # None => owner_plugin[j] \in alive
        /\ \A q \in Objects : owned_instances[q] = {j \in live : owner_plugin[j] = q}
        /\ \A j \in live : creator[j] # None /\ j \notin strayed => owner_plugin[j] = creator[j]
    BY DEF IInv, OwnersAgree, CreatorOwns
  <2>2. /\ owner_plugin'[i] = pl /\ \A j \in Instances \ {i} : owner_plugin'[j] = owner_plugin[j]
        /\ creator'[i] = Top.plugin
        /\ \A j \in Instances \ {i} : creator'[j] = creator[j]
        /\ live \subseteq Instances
    BY <1>1 DEF IInv, TypeOK
  <2>3. \A q \in Objects :
          owned_instances'[q] = IF q = pl THEN owned_instances[q] \cup {i} ELSE owned_instances[q]
    BY <1>1, <1>3, ConstAssumption DEF IInv, TypeOK, Plugin
  <2>4. \A q \in Objects : owned_instances'[q] = {j \in live' : owner_plugin'[j] = q}
    <3> TAKE q \in Objects
    <3>1. \A j \in live : owner_plugin'[j] = owner_plugin[j] /\ j # i
      BY <1>1, <2>2
    <3>2. {j \in live' : owner_plugin'[j] = q}
            = {j \in live : owner_plugin[j] = q} \cup {j \in {i} : pl = q}
      BY <1>1, <2>2, <3>1
    <3> QED
      BY <2>1, <2>3, <3>2
  <2>5. \A j \in live' : owner_plugin'[j] # None => owner_plugin'[j] \in alive'
    BY <1>1, <2>0, <2>1, <2>2 DEF objs
  <2>6. ASSUME NEW j \in live', creator'[j] # None, j \notin strayed'
        PROVE  owner_plugin'[j] = creator'[j]
    <3>1. CASE j = i
      <4>1. Current = Top.plugin /\ Level \notin astray
        BY <1>1, <2>6, <3>1
      <4> QED
        BY <1>7, <2>2, <3>1, <4>1
    <3>2. CASE j # i
      <4>1. j \in live /\ j \in Instances \ {i} /\ j \notin strayed
        BY <1>1, <2>2, <2>6, <3>2
      <4> QED
        BY <2>1, <2>2, <2>6, <4>1
    <3> QED
      BY <3>1, <3>2
  <2> QED
    BY <2>4, <2>5, <2>6 DEF OwnersAgree, CreatorOwns
<1>9. DeadTouchedOnlyBy'
  <2>1. touched' = {pl} \ (alive \cup {None}) /\ pulled' = pulled
    BY <1>1 DEF Touch
  <2>2. (Level \in astray)' <=> Level \in astray
    BY <1>1 DEF order, Level
  <2>3. assumed_currently_running_' = pl
    BY <1>1 DEF scope
  <2> QED
    BY <1>7, <2>1, <2>2, <2>3 DEF DeadTouchedOnlyBy
<1> QED
  BY <1>4, <1>5, <1>6, <1>8, <1>9 DEF IInv

LEMMA FreeInv == ASSUME IInv, touched = {}, NEW i \in Instances, Free(i) PROVE IInv'
<1> DEFINE pl == owner_plugin[i]
<1>1. /\ i \in live /\ live' = live \ {i}
      /\ owned_instances' =
           IF pl = None THEN owned_instances ELSE [owned_instances EXCEPT ![pl] = @ \ {i}]
      /\ owner_plugin' = [owner_plugin EXCEPT ![i] = None]
      /\ Touch({pl})
      /\ UNCHANGED <<objs, running, scope, stack, share, calls, creator, strayed, order, pulled>>
  BY DEF Free, Forget
<1>2. pl \in Plugin
  BY DEF IInv, TypeOK
<1>3. TypeOK'
  <2>1. owner_plugin' \in [Instances -> Plugin] /\ live' \subseteq Instances
    BY <1>1 DEF IInv, TypeOK, Plugin
  <2>2. owned_instances' \in [Objects -> SUBSET Instances] /\ touched' \subseteq Objects
    BY <1>1, <1>2 DEF IInv, TypeOK, Plugin, Touch
  <2>3. astray' \subseteq 0..Level' /\ fresh' \in BOOLEAN
    BY <1>1 DEF IInv, TypeOK, order, Level
  <2> QED
    BY <1>1, <2>1, <2>2, <2>3 DEF IInv, TypeOK, objs, scope, share, calls
<1>4. AssumedIsRunning' /\ SavedIsRight' /\ CurrentOfCalls' /\ CallsNamed' /\ FramesAlive'
  <2>1. FramesAlive'
    BY <1>1 DEF IInv, FramesAlive, Level, objs
  <2> QED
    BY <1>1, <2>1, CallsKept DEF IInv
<1>5. OwnersAgree' /\ CreatorOwns'
  <2>1. /\ \A j \in live : owner_plugin[j] # None => owner_plugin[j] \in alive
        /\ \A q \in Objects : owned_instances[q] = {j \in live : owner_plugin[j] = q}
        /\ \A j \in live : creator[j] # None /\ j \notin strayed => owner_plugin[j] = creator[j]
    BY DEF IInv, OwnersAgree, CreatorOwns
  <2>2. /\ \A j \in live' : j \in Instances /\ j # i /\ j \in live
        /\ \A j \in Instances \ {i} : owner_plugin'[j] = owner_plugin[j]
    BY <1>1 DEF IInv, TypeOK
  <2>3. \A q \in Objects : owned_instances'[q] = owned_instances[q] \ {i}
    BY <1>1, <1>2, <2>1, ConstAssumption DEF IInv, TypeOK, Plugin
  <2>4. \A q \in Objects : owned_instances'[q] = {j \in live' : owner_plugin'[j] = q}
    BY <1>1, <2>1, <2>2, <2>3
  <2> QED
    BY <1>1, <2>1, <2>2, <2>4 DEF OwnersAgree, CreatorOwns, objs
<1>6. DeadTouchedOnlyBy'
  BY <1>1 DEF IInv, OwnersAgree, DeadTouchedOnlyBy, Touch
<1> QED
  BY <1>3, <1>4, <1>5, <1>6 DEF IInv

\* What leaves the instances and the stack alone.
LEMMA OthersInv ==
  ASSUME IInv, touched = {},
         UNCHANGED <<running, scope, stack, owns, order, pulled>>,
         alive \subseteq alive', TypeOK', DeadTouchedOnlyBy'
  PROVE  IInv'
<1>1. AssumedIsRunning' /\ SavedIsRight' /\ CurrentOfCalls' /\ CallsNamed'
  BY CallsKept DEF IInv
<1>2. FramesAlive'
  BY DEF IInv, FramesAlive, Level
<1>3. OwnersAgree' /\ CreatorOwns'
  BY DEF IInv, OwnersAgree, CreatorOwns, owns
<1> QED
  BY <1>1, <1>2, <1>3 DEF IInv

\* A call with no scope leaves what is assumed.
LEMMA UnscopedInv == ASSUME IInv, touched = {}, NEW o \in Objects, CallUnscoped(o) PROVE IInv'
<1> DEFINE f == [kind |-> "unscoped", plugin |-> o, current |-> Current]
<1>1. /\ o \in alive /\ o \in Plugin /\ Push("unscoped", o, Current)
      /\ UNCHANGED <<objs, running, scope, owns, share, calls, fresh, pulled, touched>>
  BY DEF CallUnscoped, IInv, TypeOK, Plugin
<1>2. TypeOK /\ CurrentOfCalls /\ CallsNamed /\ FramesAlive /\ AssumedIsRunning /\ SavedIsRight
  BY DEF IInv
<1>3. "unscoped" \in Kinds /\ Current \in Plugin
  BY <1>2, CurrentAlive DEF Kinds
<1>4. /\ stack' \in Seq(StackFrame) /\ astray' \subseteq 0..Level'
      /\ Level \in Nat /\ Level' = Level + 1
      /\ stack'[Level + 1] = f
      /\ \A k \in 1..Level : stack'[k] = stack[k]
      /\ \A k \in 0..Level : k \in astray' <=> k \in astray
      /\ Level + 1 \in astray' <=> Level \in astray
      /\ Current' = Current
      /\ \A k \in 1..Level : Below(k)' = Below(k)
      /\ CallsNamed' /\ CurrentOfCalls'
  BY <1>1, <1>2, <1>3, Called
<1>5. AssumedIsRunning'
  BY <1>1, <1>2, <1>4 DEF AssumedIsRunning, scope
<1>6. SavedIsRight'
  <2> SUFFICES ASSUME fresh', NEW m \in 1..Level', Innermost(m)'
               PROVE  m - 1 \in astray' \/ old_running' = Below(m)'
    BY DEF SavedIsRight
  <2>1. stack'[m].kind # "unscoped" /\ \A k \in m + 1..Level' : stack'[k].kind = "unscoped"
    BY DEF Innermost
  <2>2. m \in 1..Level /\ m - 1 \in 0..Level
    BY <1>4, <2>1
  <2>3. \A k \in m + 1..Level : k \in 1..Level /\ k \in m + 1..Level'
    BY <1>4, <2>2
  <2>4. Innermost(m)
    BY <1>4, <2>1, <2>2, <2>3 DEF Innermost
  <2>5. m - 1 \in astray \/ old_running = Below(m)
    BY <1>1, <1>2, <2>2, <2>4 DEF SavedIsRight
  <2> QED
    BY <1>1, <1>4, <2>2, <2>5 DEF scope
<1>7. FramesAlive'
  <2>1. f.plugin \in alive \cup {None} /\ alive' = alive /\ pulled' = pulled
    BY <1>1 DEF objs
  <2> HIDE DEF f
  <2> QED
    BY <1>2, <1>4, <2>1, CalledAlive
<1>8. TypeOK'
  BY <1>1, <1>2, <1>4 DEF TypeOK, StackFrame, objs, scope, owns, share, calls
<1>9. OwnersAgree' /\ CreatorOwns' /\ DeadTouchedOnlyBy'
  BY <1>1 DEF IInv, OwnersAgree, CreatorOwns, DeadTouchedOnlyBy, objs, owns, calls
<1> QED
  BY <1>4, <1>5, <1>6, <1>7, <1>8, <1>9 DEF IInv

LEMMA NextInv == IInv /\ [Next]_vars => IInv'
<1> SUFFICES ASSUME IInv, [Next]_vars PROVE IInv'
  OBVIOUS
<1>1. CASE UNCHANGED vars
  <2>1. UNCHANGED <<objs, running, scope, stack, owns, share, calls, order, pulled, touched>>
    BY <1>1 DEF vars
  <2>2. TypeOK' /\ FramesAlive' /\ OwnersAgree' /\ CreatorOwns' /\ DeadTouchedOnlyBy'
    BY <2>1 DEF IInv, TypeOK, FramesAlive, OwnersAgree, CreatorOwns, DeadTouchedOnlyBy, Level,
                objs, scope, owns, share, calls, order
  <2> QED
    BY <2>1, <2>2, CallsKept DEF IInv
<1>2. ASSUME touched = {}, Step PROVE IInv'
  <2>1. CASE Return
    BY <1>2, <2>1, ReturnInv
  <2>2. CASE CallBack
    <3>1. callback \in Plugin /\ "function" \in Kinds \ {"unscoped"}
      BY <2>2 DEF CallBack, IInv, TypeOK, Kinds
    <3>2. (callback \in alive \cup {None} /\ touched' = {}) \/ touched' = {callback}
      BY <1>2, <2>2 DEF CallBack, Touch
    <3>3. touched' \subseteq Objects
      BY <1>2, <2>2, <3>1 DEF CallBack, Touch, Plugin
    <3>4. touched' \subseteq Objects /\ ("function" \in {"load", "unload"} => callback \in Objects)
      BY <3>3
    <3>5. (callback \in alive \cup {None} /\ touched' = {}) \/ (callback = callback /\ touched' = {callback})
      BY <3>2
    <3>6. Enter("function", callback) /\ UNCHANGED <<objs, running, owns, share, calls, pulled>>
      BY <2>2 DEF CallBack
    <3> QED
      BY <1>2, <3>1, <3>4, <3>5, <3>6, EnterInv
  <2>3. ASSUME NEW o \in Objects, Load(o) \/ Call(o) \/ Unload(o) PROVE IInv'
    <3>1. o \in Plugin /\ o \in alive /\ touched' = {} /\ touched' \subseteq Objects
      BY <1>2, <2>3 DEF Load, Call, Unload, IInv, TypeOK, Plugin
    <3>2. PICK kind \in Kinds \ {"unscoped"} : Enter(kind, o)
      BY <2>3 DEF Load, Call, Unload, Kinds
    <3>3. UNCHANGED <<objs, running, owns, share, calls, pulled>>
      BY <2>3 DEF Load, Call, Unload
    <3>4. /\ kind \in {"load", "unload"} => o \in Objects
          /\ (o \in alive \cup {None} /\ touched' = {}) \/ (callback = o /\ touched' = {o})
      BY <3>1
    <3> QED
      BY <1>2, <3>1, <3>2, <3>3, <3>4, EnterInv
  <2>4. ASSUME NEW o \in Objects, CallUnscoped(o) PROVE IInv'
    BY <1>2, <2>4, UnscopedInv
  <2>5. ASSUME NEW o \in Objects, Destroy(o) PROVE IInv'
    BY <1>2, <2>5, DestroyInv
  <2>6. ASSUME NEW p \in Paths, Create(p) PROVE IInv'
    <3>1. PICK o \in Objects \ made :
            /\ alive' = alive \cup {o} /\ made' = made \cup {o}
            /\ path' = [path EXCEPT ![o] = p]
            /\ path_plugin_map' = [path_plugin_map EXCEPT ![p] = IF @ = None THEN o ELSE @]
      BY <2>6 DEF Create, Remember
    <3>2. UNCHANGED <<running, scope, stack, owns, share, calls, order, pulled, touched>>
      BY <2>6 DEF Create
    <3>3. TypeOK'
      BY <3>1, <3>2 DEF IInv, TypeOK, Plugin, Level, scope, owns, share, calls, order
    <3>4. DeadTouchedOnlyBy'
      BY <1>2, <3>2 DEF DeadTouchedOnlyBy
    <3> QED
      BY <1>2, <3>1, <3>2, <3>3, <3>4, OthersInv
  <2>7. ASSUME NEW p \in Paths, ReadFunction(p) PROVE IInv'
    <3>1. /\ callback' = path_plugin_map[p] /\ holder' = assumed_currently_running_
          /\ touched' = touched \cup ({callback'} \ (alive \cup {None}))
          /\ UNCHANGED <<objs, running, scope, stack, owns, share, order, pulled>>
      BY <2>7 DEF ReadFunction, Touch
    <3>2. callback' \in Plugin /\ touched' \subseteq {callback'} \ {None}
      BY <1>2, <3>1 DEF IInv, TypeOK
    <3>3. TypeOK'
      BY <3>1, <3>2 DEF IInv, TypeOK, Plugin, Level, objs, scope, owns, share, order
    <3>4. DeadTouchedOnlyBy'
      BY <3>2 DEF DeadTouchedOnlyBy
    <3> QED
      BY <1>2, <3>1, <3>3, <3>4, OthersInv DEF objs
  <2>8. ASSUME NEW i \in Instances, Register(i) PROVE IInv'
    BY <1>2, <2>8, RegisterInv
  <2>9. ASSUME NEW i \in Instances, Free(i) PROVE IInv'
    BY <1>2, <2>9, FreeInv
  <2>10. ASSUME NEW s \in Shared, Acquire(s) PROVE IInv'
    <3>1. UNCHANGED <<objs, running, scope, stack, owns, calls, order, pulled, touched>>
      BY <2>10 DEF Acquire
    <3>2. owner_plugins' \in [Shared -> SUBSET Objects] /\ detours' \subseteq Shared
      BY <2>10 DEF Acquire, IInv, TypeOK, Plugin
    <3>3. TypeOK' /\ DeadTouchedOnlyBy'
      BY <1>2, <3>1, <3>2 DEF IInv, TypeOK, DeadTouchedOnlyBy, Level, objs, scope, owns, calls, order
    <3> QED
      BY <1>2, <3>1, <3>3, OthersInv DEF objs
  <2>11. ASSUME NEW s \in Shared, Release(s) PROVE IInv'
    <3> DEFINE pl == assumed_currently_running_
    <3>1. /\ UNCHANGED <<objs, running, scope, stack, owns, calls, order, pulled>>
          /\ touched' = {pl} \ (alive \cup {None})
      BY <1>2, <2>11 DEF Release, Touch
    <3>2. owner_plugins' \in [Shared -> SUBSET Objects] /\ detours' \subseteq Shared
      BY <2>11 DEF Release, Left, IInv, TypeOK
    <3>3. TypeOK'
      BY <3>1, <3>2 DEF IInv, TypeOK, Plugin, Level, objs, scope, owns, calls, order
    <3>4. Level \notin astray => pl \in alive \cup pulled \cup {None}
      BY <1>2, CurrentAlive DEF IInv, AssumedIsRunning
    <3>5. /\ pulled' = pulled /\ assumed_currently_running_' = pl
          /\ (Level \in astray)' <=> Level \in astray
      BY <3>1 DEF order, scope, Level
    <3>6. DeadTouchedOnlyBy'
      BY <3>1, <3>4, <3>5 DEF DeadTouchedOnlyBy
    <3> QED
      BY <1>2, <3>1, <3>3, <3>6, OthersInv DEF objs
  <2> QED
    BY <1>2, <2>1, <2>2, <2>3, <2>4, <2>5, <2>6, <2>7, <2>8, <2>9, <2>10, <2>11 DEF Step
<1> QED
  BY <1>1, <1>2 DEF Next

\* The strengthening is an invariant.
THEOREM ScopesInvariance == Spec => []IInv
  BY InitInv, NextInv, PTL DEF Spec

-----------------------------------------------------------------------------
(* What follows from it *)

\* Every variable keeps its type.
THEOREM TypeCorrect == Spec => []TypeOK
<1>1. IInv => TypeOK
  BY DEF IInv
<1> QED
  BY <1>1, ScopesInvariance, PTL

\* assumed_currently_running() is the plugin of the innermost scope, however deep
\* calls nest, but at a level back to which a scope returned that had another
\* entered inside it.
THEOREM AssumedCorrect == Spec => []AssumedIsRunning
<1>1. IInv => AssumedIsRunning
  BY DEF IInv
<1> QED
  BY <1>1, ScopesInvariance, PTL

\* Lists of instances and owners agree, and owners are alive.
THEOREM OwnersCorrect == Spec => []OwnersAgree
<1>1. IInv => OwnersAgree
  BY DEF IInv
<1> QED
  BY <1>1, ScopesInvariance, PTL

\* A dead plugin object is reached only when it was destroyed during its own
\* call, by way of a stale entry of path_plugin_map, or at a level gone astray.
THEOREM DeadCorrect == Spec => []DeadTouchedOnlyBy
<1>1. IInv => DeadTouchedOnlyBy
  BY DEF IInv
<1> QED
  BY <1>1, ScopesInvariance, PTL

\* What a function of a plugin created, unload frees, unless it strayed: made
\* in a call with no scope while the plugin was not the current one, or at a
\* level gone astray.
THEOREM UnloadCorrect == Spec => UnloadFreesAll
<1> DEFINE Frees == \A o \in Objects : o \in running /\ o \notin running' =>
                      \A i \in live' : creator[i] = o => i \in strayed
<1>1. IInv /\ [Next]_vars => [Frees]_vars
  <2> SUFFICES ASSUME IInv, touched = {}, Step PROVE Frees
    BY DEF Next
  <2> SUFFICES ASSUME NEW o \in Objects, o \in running, o \notin running'
               PROVE  \A i \in live' : creator[i] = o => i \in strayed
    OBVIOUS
  <2>1. Return
    BY DEF Step, CallBack, Load, Call, CallUnscoped, Unload, Destroy, Create, ReadFunction,
           Register, Free, Acquire, Release
  <2>2. o = Top.plugin /\ Clear(o) /\ UNCHANGED <<objs, creator, strayed>>
    BY <2>1 DEF Return
  <2> QED
    BY <2>2, Cleared DEF objs
<1> QED
  BY <1>1, ScopesInvariance, PTL DEF Spec, UnloadFreesAll

\* No unload, failed load or destruction frees an instance of nobody.
THEOREM FreeCorrect == Spec => FreedByScript
<1> DEFINE Freed == \A i \in live \ live' : owner_plugin[i] = None =>
                      InScript /\ UNCHANGED <<objs, running, stack>>
<1>1. IInv /\ [Next]_vars => [Freed]_vars
  <2> SUFFICES ASSUME IInv, touched = {}, Step,
                      NEW i \in live, i \notin live', owner_plugin[i] = None
               PROVE  InScript /\ UNCHANGED <<objs, running, stack>>
    BY DEF Next
  <2>1. \A o \in Objects : i \notin owned_instances[o]
    BY ConstAssumption DEF IInv, OwnersAgree
  <2>2. \A o \in Objects : ~Clear(o)
    BY <2>1 DEF Clear
  <2>3. ~Return
    <3>1. Return /\ Top.kind \in {"load", "unload"} => Top.plugin \in Objects
      BY Returned
    <3> QED
      BY <2>2, <3>1 DEF Return
  <2>4. \A o \in Objects : ~Destroy(o)
    BY <2>2 DEF Destroy
  <2>5. PICK j \in Instances : Free(j)
    BY <2>3, <2>4 DEF Step, CallBack, Load, Call, CallUnscoped, Unload, Create, ReadFunction,
                      Register, Acquire, Release, owns
  <2> QED
    BY <2>5 DEF Free
<1> QED
  BY <1>1, ScopesInvariance, PTL DEF Spec, FreedByScript

\* Only an owner that is dead and taken for the one that runs, if any, ends a
\* shared instance that a dead owner holds.
THEOREM ReleaseCorrect == Spec => NeverReleased
<1> DEFINE Held == \A s \in detours : ~(owner_plugins[s] \subseteq alive) =>
                     s \in detours' \/ assumed_currently_running_ \notin alive
<1>1. [Next]_vars => [Held]_vars
  <2> SUFFICES ASSUME Step, NEW s \in detours, ~(owner_plugins[s] \subseteq alive),
                      assumed_currently_running_ \in alive
               PROVE  s \in detours'
    BY DEF Next
  <2>1. CASE \E r \in Shared : Release(r)
    <3>1. PICK r \in Shared : Release(r)
      BY <2>1
    <3>2. Left(r, assumed_currently_running_) = {} => owner_plugins[r] \subseteq alive
      BY DEF Left
    <3> QED
      BY <3>1, <3>2 DEF Release
  <2>2. CASE \E r \in Shared : Acquire(r)
    BY <2>2 DEF Acquire
  <2>3. CASE UNCHANGED share
    BY <2>3 DEF share
  <2> QED
    BY <2>1, <2>2, <2>3 DEF Step, Return, CallBack, Load, Call, CallUnscoped, Unload, Destroy,
                            Create, ReadFunction, Register, Free
<1> QED
  BY <1>1, PTL DEF Spec, NeverReleased

\* A plugin that goes leaves behind what strayed from it, which no plugin that
\* goes frees if it is nobody's, and for good what it did not release.
THEOREM LeftBehindCorrect == Spec => LeavesBehindOnly
BY UnloadCorrect, FreeCorrect, ReleaseCorrect, PTL DEF LeavesBehindOnly
=============================================================================
