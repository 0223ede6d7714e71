---------------------------- MODULE DetourProofs ----------------------------
(***************************************************************************)
(* The safety properties of detours, for any number of functions, detours, *)
(* callbacks and nested calls.                                             *)
(*                                                                         *)
(* A detour is armed by the first callback hooked to it and by every call  *)
(* of its function that returns, and put to sleep by the last callback and *)
(* for the time of a call.  So the invariant says of every frame whose     *)
(* detour it is and that its callbacks belong to it, of the bytes that     *)
(* they are those of the enabled detour, and of a call that will enable    *)
(* its detour when it returns, that the detour has a callback, is deleted, *)
(* or was stirred before.                                                  *)
(*                                                                         *)
(* One state is an exception: a closure that two overlapping detours left  *)
(* behind, of a detour that is not enabled and has no callbacks.  Its call *)
(* finds its own jump where the function should be, and never returns.     *)
(* That call is doomed, and nothing after it matters.                      *)
(***************************************************************************)
EXTENDS Detour, SequenceTheorems, TLAPS

\* What is known of a frame: its detour was created, and its callbacks are of
\* that detour as long as they live.
FrameFits(f) ==
  /\ f.kind = "plugin" => f.of \in Plugins /\ f.phase = "script"
  /\ f.kind = "direct" => f.phase \in {"jump", "original"}
  /\ f.kind = "hook" => f.phase \in {"pre", "jump", "original", "post"}
  /\ f.kind # "plugin" => f.of \in Detours /\ det[f.of].st # "none"
  /\ f.phase \notin {"pre", "post"} => f.cur = None /\ f.todo = {}
  /\ \A c \in f.todo : cb[c].st = "live" /\ cb[c].det = f.of
  /\ \A c \in f.due : cb[c].st # "none"
  /\ f.cur # None => cb[f.cur].st # "none"
  /\ f.cur # None /\ cb[f.cur].st = "live" => cb[f.cur].det = f.of

\* Only the innermost call may be between two callbacks of a walk.
StackFits ==
  /\ \A k \in 1..Len(stack) : FrameFits(stack[k])
  /\ \A k \in 1..Len(stack) :
       k < Len(stack) /\ stack[k].phase \in {"pre", "post"} => stack[k].cur # None

\* A callback does not outlive its detour.
CallbacksFit ==
  \A c \in Callbacks : cb[c].st = "live" => cb[c].det \in Detours /\ det[cb[c].det].st = "live"

\* The bytes of a function and the flags of its detours: what is not original is a
\* jump to a detour of that function, and where no two detours overlap, to the one
\* that is enabled, which saved the original.
Bytes ==
  /\ \A t \in Targets : code[t] # None => Target(code[t]) = t
  /\ \A d \in Detours :
       /\ det[d].old_bytes # None => Target(det[d].old_bytes) = Target(d)
       /\ det[d].st # "live" => ~det[d].enabled
       /\ Target(d) \notin overlap => det[d].old_bytes = None
       /\ Target(d) \notin overlap /\ det[d].enabled => code[Target(d)] = d
  /\ \A t \in Targets \ overlap : code[t] # None => det[code[t]].enabled

\* Some callback is hooked to d.
Has(d) == \E c \in Callbacks : cb[c].st = "live" /\ cb[c].det = d

\* The frame runs the function of d unhooked.
Runs(f, d) == f.of = d /\ f.phase \in {"jump", "original"}
\* No call runs the function of d unhooked.
Unscoped(d) == \A k \in 1..Len(stack) : ~Runs(stack[k], d)

\* HookedIsArmed without the bytes.
Armed ==
  \A d \in Detours :
    Live(d) => /\ ~Has(d) /\ det[d].enabled => d \in stirred
               /\ Has(d) /\ Unscoped(d) => det[d].enabled

\* A call through the closure of a detour that is not enabled and has no
\* callbacks: the function calls itself for ever.
Doomed ==
  /\ stack # <<>> /\ Top.kind = "hook" /\ Top.phase \in {"pre", "jump"}
  /\ Top.todo = {} /\ Top.cur = None /\ Top.flags = {}
  /\ Live(Top.of) /\ ~Has(Top.of) /\ ~det[Top.of].enabled /\ code[Target(Top.of)] = Top.of

\* A call that will enable its detour when the function returns: if no callback
\* is left, the detour is stirred.
WillEnable(f) ==
  \/ f.phase \in {"jump", "original"}
  \/ f.phase = "pre" /\ f.cur = None
StirredFor(f) == WillEnable(f) /\ Live(f.of) /\ ~Has(f.of) => f.of \in stirred
Stirred == \A k \in 1..Len(stack) : StirredFor(stack[k])

\* The inductive invariant.
DInv == TypeOK /\ StackFits /\ CallbacksFit /\ Bytes /\ Armed /\ (Doomed \/ Stirred)

-----------------------------------------------------------------------------
(* The stack *)

\* What the provers need to know of a stack.
LEMMA StackFacts ==
  ASSUME stack \in Seq(Frames)
  PROVE  /\ Len(stack) \in Nat /\ DOMAIN stack = 1..Len(stack)
         /\ \A k \in 1..Len(stack) : stack[k] \in Frames
         /\ stack # <<>> => Len(stack) > 0 /\ Len(stack) \in 1..Len(stack)
                            /\ Top = stack[Len(stack)] /\ Top \in Frames
BY DEF Top

\* What a step makes of the stack.
Pushes(f) ==
  /\ stack' \in Seq(Frames) /\ Len(stack') = Len(stack) + 1
  /\ stack'[Len(stack) + 1] = f
  /\ \A k \in 1..Len(stack) : stack'[k] = stack[k]
Pops ==
  /\ stack' \in Seq(Frames) /\ Len(stack') = Len(stack) - 1
  /\ \A k \in 1..Len(stack') : k \in 1..Len(stack) /\ k < Len(stack) /\ stack'[k] = stack[k]
SetsTop(f) ==
  /\ stack' \in Seq(Frames) /\ Len(stack') = Len(stack)
  /\ \A k \in 1..Len(stack) : stack'[k] = IF k = Len(stack) THEN f ELSE stack[k]

\* Append pushes a frame.
LEMMA Pushed ==
  ASSUME stack \in Seq(Frames), NEW f \in Frames, stack' = Append(stack, f)
  PROVE  Pushes(f)
BY DEF Pushes

\* Pop takes the innermost frame off.
LEMMA Popped ==
  ASSUME stack \in Seq(Frames), stack # <<>>, stack' = Pop
  PROVE  Pops
<1>1. Len(stack) \in Nat /\ Len(stack) > 0
  OBVIOUS
<1>2. \A k \in 1..Len(stack) : stack[k] \in Frames
  OBVIOUS
<1>3. PICK n \in Int : n = Len(stack) - 1 /\ n >= 0
  BY <1>1
<1>4. /\ SubSeq(stack, 1, n) \in Seq(Frames)
      /\ Len(SubSeq(stack, 1, n)) = IF 1 <= n THEN n - 1 + 1 ELSE 0
      /\ \A k \in 1..n - 1 + 1 : SubSeq(stack, 1, n)[k] = stack[1 + k - 1]
  BY <1>1, <1>2, <1>3, SubSeqProperties
<1>5. Len(SubSeq(stack, 1, n)) = n
  BY <1>3, <1>4
<1>6. \A k \in 1..n : SubSeq(stack, 1, n)[k] = stack[k]
  BY <1>3, <1>4
<1>7. stack' = SubSeq(stack, 1, n)
  BY <1>3 DEF Pop
<1> QED
  BY <1>1, <1>3, <1>4, <1>5, <1>6, <1>7 DEF Pops

\* SetTop changes the innermost frame.
LEMMA TopSet ==
  ASSUME stack \in Seq(Frames), stack # <<>>, NEW f \in Frames, stack' = SetTop(f)
  PROVE  SetsTop(f)
BY DEF SetsTop, SetTop

\* A walk over the whole stack changes every frame and the place of none.
LEMMA Mapped ==
  ASSUME stack \in Seq(Frames), NEW g, DOMAIN g = DOMAIN stack,
         \A k \in DOMAIN stack : g[k] \in Frames, stack' = g, g = [k \in DOMAIN stack |-> g[k]]
  PROVE  stack' \in Seq(Frames) /\ Len(stack') = Len(stack)
<1>1. Len(stack) \in Nat /\ DOMAIN stack = 1..Len(stack)
  OBVIOUS
<1>2. g \in [1..Len(stack) -> Frames]
  BY <1>1
<1>3. g \in Seq(Frames)
  BY <1>1, <1>2, SeqDef
<1> QED
  BY <1>1, <1>2, <1>3, LenProperties

-----------------------------------------------------------------------------
(* The bytes *)

\* The variables the bytes are about, with their types.
BytesType ==
  /\ code \in [Targets -> Detours \cup {None}]
  /\ det \in [Detours -> [st : {"none", "live", "dead"}, enabled : BOOLEAN,
                          old_bytes : Detours \cup {None}, owners : SUBSET Plugins]]
  /\ overlap \subseteq Targets

\* The function of a detour is one of the game's.
LEMMA Targeted == \A d \in Detours : Target(d) \in Targets
BY ConstAssumption DEF Target

\* Enabling a detour keeps bytes and flags in agreement; where the function already
\* jumps to another detour, the two overlap.
LEMMA EnableBytes ==
  ASSUME BytesType, Bytes, NEW d \in Detours, Live(d), Enable(d)
  PROVE  BytesType' /\ Bytes' /\ det' = [det EXCEPT ![d].enabled = TRUE]
<1>1. Target(d) \in Targets /\ \A e \in Detours : Target(e) \in Targets
  BY Targeted
<1>2. det' = [det EXCEPT ![d].enabled = TRUE]
  BY DEF Enable
<1>3. /\ \A e \in Detours \ {d} : det'[e] = det[e]
      /\ det'[d].enabled /\ det'[d].st = det[d].st /\ det'[d].old_bytes = det[d].old_bytes
      /\ det'[d].owners = det[d].owners
  BY <1>2 DEF BytesType
<1>4. BytesType'
  BY <1>1, <1>2 DEF BytesType, Enable
<1>5. CASE det[d].enabled
  <2>1. code' = code /\ overlap' = overlap
    BY <1>5 DEF Enable
  <2>2. \A e \in Detours : /\ det'[e].st = det[e].st /\ det'[e].old_bytes = det[e].old_bytes
                           /\ det'[e].enabled <=> det[e].enabled
    BY <1>3, <1>5
  <2>3. Bytes'
    BY <1>1, <2>1, <2>2 DEF Bytes, BytesType
  <2> QED
    BY <1>2, <1>4, <2>3
<1>6. CASE ~det[d].enabled
  <2>1. /\ code' = [code EXCEPT ![Target(d)] = d]
        /\ overlap' = IF code[Target(d)] # None THEN overlap \cup {Target(d)} ELSE overlap
    BY <1>6 DEF Enable
  <2>2. code'[Target(d)] = d /\ \A t \in Targets \ {Target(d)} : code'[t] = code[t]
    BY <1>1, <2>1 DEF BytesType
  <2>3. Bytes'
    <3>1. \A t \in Targets : code'[t] # None => Target(code'[t]) = t
      BY <2>2 DEF Bytes
    <3>2. ASSUME NEW e \in Detours
          PROVE  /\ det'[e].old_bytes # None => Target(det'[e].old_bytes) = Target(e)
                 /\ det'[e].st # "live" => ~det'[e].enabled
                 /\ Target(e) \notin overlap' => det'[e].old_bytes = None
      BY <1>3, <2>1 DEF Bytes, Live
    <3>3. ASSUME NEW e \in Detours, Target(e) \notin overlap', det'[e].enabled
          PROVE  code'[Target(e)] = e
      <4>1. CASE e = d
        BY <2>2, <4>1
      <4>2. CASE e # d
        <5>1. det[e].enabled /\ Target(e) \notin overlap /\ code[Target(e)] = e
          BY <1>3, <2>1, <3>3, <4>2 DEF Bytes
        <5>2. Target(e) # Target(d)
          BY <2>1, <3>3, <5>1, ConstAssumption
        <5> QED
          BY <1>1, <2>2, <5>1, <5>2
      <4> QED
        BY <4>1, <4>2
    <3>4. ASSUME NEW t \in Targets, t \notin overlap', code'[t] # None
          PROVE  det'[code'[t]].enabled
      <4>1. CASE t = Target(d)
        BY <1>3, <2>2, <4>1
      <4>2. CASE t # Target(d)
        <5>1. code'[t] = code[t] /\ t \notin overlap
          BY <2>1, <2>2, <3>4, <4>2
        <5>2. code[t] \in Detours /\ code[t] # d
          BY <3>4, <4>2, <5>1 DEF Bytes, BytesType
        <5> QED
          BY <1>3, <3>4, <5>1, <5>2 DEF Bytes
      <4> QED
        BY <4>1, <4>2
    <3> QED
      BY <3>1, <3>2, <3>3, <3>4 DEF Bytes
  <2> QED
    BY <1>2, <1>4, <2>3
<1> QED
  BY <1>2, <1>4, <1>5, <1>6

\* What several detours that go to sleep, or are deleted, leave: the flags of ds
\* are cleared and their functions have some of their saved bytes.
LEMMA OffBytes ==
  ASSUME BytesType, Bytes, NEW ds, BytesType', UNCHANGED overlap,
         \A d \in Detours : /\ det'[d].old_bytes \in {det[d].old_bytes, None}
                            /\ det'[d].enabled = (det[d].enabled /\ d \notin ds)
                            /\ det'[d].st = "live" \/ det'[d].st = det[d].st \/ d \in ds,
         \A t \in Targets :
           LET armed == {d \in Detours \cap ds : det[d].enabled /\ Target(d) = t}
           IN IF armed = {} THEN code'[t] = code[t]
              ELSE \E d \in armed : code'[t] = det[d].old_bytes
  PROVE  Bytes'
<1> DEFINE armed(t) == {d \in Detours \cap ds : det[d].enabled /\ Target(d) = t}
<1>0. \A d \in Detours : Target(d) \in Targets
  BY Targeted
<1>1. ASSUME NEW t \in Targets, code'[t] # None PROVE Target(code'[t]) = t
  <2>1. CASE armed(t) = {}
    BY <1>1, <2>1 DEF Bytes
  <2>2. CASE armed(t) # {}
    <3>1. PICK d \in armed(t) : code'[t] = det[d].old_bytes
      BY <2>2
    <3> QED
      BY <1>1, <3>1 DEF Bytes
  <2> QED
    BY <2>1, <2>2
<1>2. ASSUME NEW d \in Detours
      PROVE  /\ det'[d].old_bytes # None => Target(det'[d].old_bytes) = Target(d)
             /\ det'[d].st # "live" => ~det'[d].enabled
             /\ Target(d) \notin overlap' => det'[d].old_bytes = None
  BY DEF Bytes
<1>3. ASSUME NEW d \in Detours, Target(d) \notin overlap', det'[d].enabled
      PROVE  code'[Target(d)] = d
  <2>1. det[d].enabled /\ d \notin ds /\ code[Target(d)] = d
    BY <1>3 DEF Bytes
  <2>2. armed(Target(d)) = {}
    <3> SUFFICES ASSUME NEW e \in armed(Target(d)) PROVE FALSE
      OBVIOUS
    <3>1. e \in Detours /\ e \in ds /\ det[e].enabled /\ Target(e) = Target(d)
      OBVIOUS
    <3>2. code[Target(d)] = e
      BY <1>3, <3>1 DEF Bytes
    <3> QED
      BY <2>1, <3>1, <3>2
  <2> QED
    BY <1>0, <2>1, <2>2
<1>4. ASSUME NEW t \in Targets, t \notin overlap', code'[t] # None
      PROVE  det'[code'[t]].enabled
  <2>1. CASE armed(t) = {}
    <3>1. code'[t] = code[t] /\ det[code[t]].enabled /\ code[t] \in Detours /\ Target(code[t]) = t
      BY <1>4, <2>1 DEF Bytes, BytesType
    <3>2. code[t] \notin ds
      BY <2>1, <3>1
    <3> QED
      BY <3>1, <3>2
  <2>2. CASE armed(t) # {}
    <3>1. PICK d \in armed(t) : code'[t] = det[d].old_bytes
      BY <2>2
    <3> QED
      BY <1>4, <3>1 DEF Bytes
  <2> QED
    BY <2>1, <2>2
<1> QED
  BY <1>1, <1>2, <1>3, <1>4 DEF Bytes

\* Disabling a detour writes back the bytes it saved.
LEMMA DisableBytes ==
  ASSUME BytesType, Bytes, NEW d \in Detours, Disable(d), UNCHANGED overlap
  PROVE  BytesType' /\ Bytes' /\ det' = [det EXCEPT ![d].enabled = FALSE]
<1>1. det' = [det EXCEPT ![d].enabled = FALSE] /\ code' = Restored(d)
  BY DEF Disable
<1>2. /\ \A e \in Detours \ {d} : det'[e] = det[e]
      /\ ~det'[d].enabled /\ det'[d].st = det[d].st /\ det'[d].old_bytes = det[d].old_bytes
  BY <1>1 DEF BytesType
<1>3. /\ \A t \in Targets \ {Target(d)} : code'[t] = code[t]
      /\ code'[Target(d)] = IF det[d].enabled THEN det[d].old_bytes ELSE code[Target(d)]
  BY <1>1, Targeted DEF BytesType, Restored
<1>4. BytesType'
  <2>1. det[d].old_bytes \in Detours \cup {None} /\ Target(d) \in Targets
    BY Targeted DEF BytesType
  <2>2. code' \in [Targets -> Detours \cup {None}]
    BY <1>1, <2>1 DEF BytesType, Restored
  <2> QED
    BY <1>1, <2>2 DEF BytesType
<1> DEFINE armed(t) == {e \in Detours \cap {d} : det[e].enabled /\ Target(e) = t}
<1>5. ASSUME NEW t \in Targets
      PROVE  IF armed(t) = {} THEN code'[t] = code[t]
             ELSE \E e \in armed(t) : code'[t] = det[e].old_bytes
  BY <1>3
<1>6. \A e \in Detours : /\ det'[e].old_bytes \in {det[e].old_bytes, None}
                         /\ det'[e].enabled = (det[e].enabled /\ e \notin {d})
                         /\ det'[e].st = "live" \/ det'[e].st = det[e].st \/ e \in {d}
  <2>1. \A e \in Detours : det'[e].enabled \in BOOLEAN /\ det[e].enabled \in BOOLEAN
    BY <1>4 DEF BytesType
  <2> QED
    BY <1>2, <2>1
<1>7. Bytes'
  BY <1>4, <1>5, <1>6, OffBytes
<1> QED
  BY <1>1, <1>4, <1>7

\* So does putting several to sleep, in any order.
LEMMA SleepBytes ==
  ASSUME BytesType, Bytes, NEW ds \in SUBSET Detours, Sleep(ds), UNCHANGED overlap
  PROVE  /\ BytesType' /\ Bytes'
         /\ \A d \in Detours : det'[d] = IF d \in ds THEN [det[d] EXCEPT !.enabled = FALSE] ELSE det[d]
<1> DEFINE armed(t) == {d \in ds : det[d].enabled /\ Target(d) = t}
<1>1. /\ det' = [d \in Detours |-> IF d \in ds THEN [det[d] EXCEPT !.enabled = FALSE] ELSE det[d]]
      /\ \A d \in Detours : det'[d] = IF d \in ds THEN [det[d] EXCEPT !.enabled = FALSE] ELSE det[d]
  BY DEF Sleep
<1>2. PICK last \in [Targets -> ds \cup {None}] :
        /\ \A t \in Targets : last[t] \in IF armed(t) = {} THEN {None} ELSE armed(t)
        /\ code' = [t \in Targets |-> IF last[t] = None THEN code[t] ELSE det[last[t]].old_bytes]
  BY DEF Sleep
<1>3. \A d \in Detours : det'[d] \in [st : {"none", "live", "dead"}, enabled : BOOLEAN,
                                      old_bytes : Detours \cup {None}, owners : SUBSET Plugins]
  BY <1>1 DEF BytesType
<1>4. \A t \in Targets : code'[t] \in Detours \cup {None}
  BY <1>2 DEF BytesType
<1>5. BytesType'
  BY <1>1, <1>2, <1>3, <1>4 DEF BytesType
<1>6. ASSUME NEW t \in Targets
      PROVE  LET a == {d \in Detours \cap ds : det[d].enabled /\ Target(d) = t}
             IN IF a = {} THEN code'[t] = code[t] ELSE \E d \in a : code'[t] = det[d].old_bytes
  <2>1. {d \in Detours \cap ds : det[d].enabled /\ Target(d) = t} = armed(t)
    OBVIOUS
  <2>2. CASE armed(t) = {}
    BY <1>2, <2>1, <2>2
  <2>3. CASE armed(t) # {}
    <3>1. last[t] \in armed(t) /\ last[t] # None
      BY <1>2, <2>3, ConstAssumption
    <3> QED
      BY <1>2, <2>1, <2>3, <3>1
  <2> QED
    BY <2>2, <2>3
<1>7. ASSUME NEW d \in Detours
      PROVE  /\ det'[d].old_bytes \in {det[d].old_bytes, None}
             /\ det'[d].enabled = (det[d].enabled /\ d \notin ds)
             /\ det'[d].st = "live" \/ det'[d].st = det[d].st \/ d \in ds
  <2>1. CASE d \in ds
    <3>1. det'[d] = [det[d] EXCEPT !.enabled = FALSE]
      BY <1>1, <2>1
    <3>2. /\ det'[d].old_bytes = det[d].old_bytes /\ det'[d].st = det[d].st
          /\ det'[d].enabled = FALSE
      BY <3>1 DEF BytesType
    <3> QED
      BY <2>1, <3>2
  <2>2. CASE d \notin ds
    <3>1. det'[d] = det[d] /\ det[d].enabled \in BOOLEAN
      BY <1>1, <2>2 DEF BytesType
    <3> QED
      BY <2>2, <3>1
  <2> QED
    BY <2>1, <2>2
<1>8. Bytes'
  BY <1>5, <1>6, <1>7, OffBytes
<1> QED
  BY <1>1, <1>5, <1>8

\* A detour that nobody owns any more is deleted.
LEMMA DeadBytes ==
  ASSUME BytesType, Bytes, NEW d \in Detours, UNCHANGED overlap, code' = Restored(d),
         det' = [det EXCEPT ![d] = [st |-> "dead", enabled |-> FALSE,
                                    old_bytes |-> None, owners |-> {}]]
  PROVE  BytesType' /\ Bytes'
<1>2. /\ \A e \in Detours \ {d} : det'[e] = det[e]
      /\ ~det'[d].enabled /\ det'[d].st = "dead" /\ det'[d].old_bytes = None
  BY DEF BytesType
<1>3. /\ \A t \in Targets \ {Target(d)} : code'[t] = code[t]
      /\ code'[Target(d)] = IF det[d].enabled THEN det[d].old_bytes ELSE code[Target(d)]
  BY Targeted DEF BytesType, Restored
<1>4. BytesType'
  <2>1. det[d].old_bytes \in Detours \cup {None} /\ Target(d) \in Targets
    BY Targeted DEF BytesType
  <2>2. code' \in [Targets -> Detours \cup {None}]
    BY <2>1 DEF BytesType, Restored
  <2> QED
    BY <2>2 DEF BytesType
<1> DEFINE armed(t) == {e \in Detours \cap {d} : det[e].enabled /\ Target(e) = t}
<1>5. ASSUME NEW t \in Targets
      PROVE  IF armed(t) = {} THEN code'[t] = code[t]
             ELSE \E e \in armed(t) : code'[t] = det[e].old_bytes
  BY <1>3
<1>6. \A e \in Detours : /\ det'[e].old_bytes \in {det[e].old_bytes, None}
                         /\ det'[e].enabled = (det[e].enabled /\ e \notin {d})
                         /\ det'[e].st = "live" \/ det'[e].st = det[e].st \/ e \in {d}
  <2>1. \A e \in Detours : det'[e].enabled \in BOOLEAN /\ det[e].enabled \in BOOLEAN
    BY <1>4 DEF BytesType
  <2> QED
    BY <1>2, <2>1
<1> QED
  BY <1>4, <1>5, <1>6, OffBytes

\* A new detour saves what it finds; owners are nothing to the bytes.
LEMMA CreateBytes ==
  ASSUME BytesType, Bytes, NEW d \in Detours, UNCHANGED code, NEW ps \in SUBSET Plugins,
         \/ /\ det[d].st = "none"
            /\ det' = [det EXCEPT ![d] = [st |-> "live", enabled |-> FALSE,
                                          old_bytes |-> code[Target(d)], owners |-> ps]]
            /\ overlap' = overlap \cup {t \in {Target(d)} : code[t] # None}
         \/ det' = [det EXCEPT ![d].owners = ps] /\ UNCHANGED overlap
  PROVE  BytesType' /\ Bytes'
<1>0. Target(d) \in Targets
  BY Targeted
<1>1. CASE /\ det[d].st = "none"
           /\ det' = [det EXCEPT ![d] = [st |-> "live", enabled |-> FALSE,
                                         old_bytes |-> code[Target(d)], owners |-> ps]]
           /\ overlap' = overlap \cup {t \in {Target(d)} : code[t] # None}
  <2>1. /\ \A e \in Detours \ {d} : det'[e] = det[e]
        /\ ~det'[d].enabled /\ det'[d].st = "live" /\ det'[d].old_bytes = code[Target(d)]
    BY <1>1 DEF BytesType
  <2>2. BytesType'
    BY <1>0, <1>1 DEF BytesType
  <2>3. Bytes'
    <3>1. overlap \subseteq overlap' /\ (Target(d) \notin overlap' => code[Target(d)] = None)
      BY <1>1
    <3>2. ~det[d].enabled
      BY <1>1 DEF Bytes
    <3>3. ASSUME NEW e \in Detours
          PROVE  /\ det'[e].old_bytes # None => Target(det'[e].old_bytes) = Target(e)
                 /\ det'[e].st # "live" => ~det'[e].enabled
                 /\ Target(e) \notin overlap' => det'[e].old_bytes = None
                 /\ Target(e) \notin overlap' /\ det'[e].enabled => code'[Target(e)] = e
      BY <1>0, <2>1, <3>1 DEF Bytes
    <3>4. ASSUME NEW t \in Targets, t \notin overlap', code'[t] # None
          PROVE  det'[code'[t]].enabled
      <4>1. det[code[t]].enabled /\ code[t] \in Detours
        BY <3>1, <3>4 DEF Bytes, BytesType
      <4> QED
        BY <2>1, <3>2, <4>1
    <3> QED
      BY <3>3, <3>4 DEF Bytes
  <2> QED
    BY <2>2, <2>3
<1>2. CASE det' = [det EXCEPT ![d].owners = ps] /\ UNCHANGED overlap
  <2>1. \A e \in Detours : /\ det'[e].st = det[e].st /\ det'[e].old_bytes = det[e].old_bytes
                           /\ det'[e].enabled = det[e].enabled
    BY <1>2 DEF BytesType
  <2>2. BytesType'
    BY <1>2 DEF BytesType
  <2>3. Bytes'
    <3>1. \A t \in Targets : code[t] # None => code[t] \in Detours
      BY DEF BytesType
    <3> QED
      BY <1>2, <2>1, <3>1 DEF Bytes
  <2> QED
    BY <2>2, <2>3
<1> QED
  BY <1>1, <1>2

-----------------------------------------------------------------------------
(* Steps that touch no detour and no callback *)

\* What the invariant says of the types, the stack and its innermost frame.
LEMMA TypeParts ==
  ASSUME DInv
  PROVE  /\ BytesType /\ Bytes /\ stack \in Seq(Frames)
         /\ Len(stack) \in Nat /\ Len(stack) <= MaxDepth /\ DOMAIN stack = 1..Len(stack)
         /\ \A k \in 1..Len(stack) : stack[k] \in Frames /\ FrameFits(stack[k])
         /\ stack # <<>> => Len(stack) > 0 /\ Len(stack) \in 1..Len(stack)
                            /\ Top = stack[Len(stack)] /\ Top \in Frames /\ FrameFits(Top)
BY StackFacts DEF DInv, TypeOK, BytesType, StackFits

\* A step that changes nothing but the stack.
LEMMA StackStep ==
  ASSUME DInv, UNCHANGED <<code, det, cb, overlap, stirred>>,
         stack' \in Seq(Frames), Len(stack') <= MaxDepth, sargs' \in 0..MaxDepth,
         touched' \subseteq Detours \cup Callbacks,
         \A k \in 1..Len(stack') : FrameFits(stack'[k]),
         \A k \in 1..Len(stack') :
           k < Len(stack') /\ stack'[k].phase \in {"pre", "post"} => stack'[k].cur # None,
         \A d \in Detours : Has(d) /\ Unscoped(d)' => Unscoped(d),
         Doomed' \/ \A k \in 1..Len(stack') : StirredFor(stack'[k])
  PROVE  DInv'
<1>1. TypeOK'
  BY DEF DInv, TypeOK
<1>2. StackFits'
  BY DEF StackFits, FrameFits
<1>3. CallbacksFit' /\ Bytes'
  BY DEF DInv, CallbacksFit, Bytes
<1>4. Armed'
  BY DEF DInv, Armed, Has, Live
<1>5. Doomed' \/ Stirred'
  BY DEF Stirred, StirredFor, Has, Live
<1> QED
  BY <1>1, <1>2, <1>3, <1>4, <1>5 DEF DInv

\* Nothing but the innermost frame changes, and not what it runs.
LEMMA TopStep ==
  ASSUME DInv, UNCHANGED <<code, det, cb, overlap, stirred, sargs>>, stack # <<>>,
         touched' \subseteq Detours \cup Callbacks,
         NEW f \in Frames, SetsTop(f), FrameFits(f), \A d \in Detours : Runs(Top, d) => Runs(f, d),
         ~Doomed, StirredFor(f)
  PROVE  DInv'
<1>1. /\ Len(stack) \in Nat /\ Len(stack) <= MaxDepth
      /\ \A k \in 1..Len(stack) : stack[k] \in Frames /\ FrameFits(stack[k])
      /\ Len(stack) \in 1..Len(stack) /\ Top = stack[Len(stack)]
  BY TypeParts
<1>2. /\ stack' \in Seq(Frames) /\ Len(stack') = Len(stack)
      /\ \A k \in 1..Len(stack) : stack'[k] = IF k = Len(stack) THEN f ELSE stack[k]
  BY DEF SetsTop
<1>3. Stirred
  BY DEF DInv
<1>4. \A k \in 1..Len(stack') : StirredFor(stack'[k])
  BY <1>2, <1>3 DEF Stirred
<1>5. \A d \in Detours : Has(d) /\ Unscoped(d)' => Unscoped(d)
  <2> SUFFICES ASSUME NEW d \in Detours, Unscoped(d)', NEW k \in 1..Len(stack), Runs(stack[k], d)
               PROVE  FALSE
    BY DEF Unscoped
  <2>1. ~Runs(stack'[k], d)
    BY <1>2 DEF Unscoped, Runs
  <2> QED
    BY <1>1, <1>2, <2>1
<1>6. sargs' \in 0..MaxDepth
  BY DEF DInv, TypeOK
<1>7. \A k \in 1..Len(stack') :
           k < Len(stack') /\ stack'[k].phase \in {"pre", "post"} => stack'[k].cur # None
  BY <1>1, <1>2 DEF DInv, StackFits
<1>8. \A k \in 1..Len(stack') : FrameFits(stack'[k])
  BY <1>1, <1>2
<1> QED
  BY <1>1, <1>2, <1>4, <1>5, <1>6, <1>7, <1>8, StackStep

\* The innermost frame returns, and it did not run a function unhooked.
LEMMA PopStep ==
  ASSUME DInv, UNCHANGED <<code, det, cb, overlap, stirred, sargs, touched>>, stack # <<>>,
         Pops, \A d \in Detours : ~Runs(Top, d), ~Doomed
  PROVE  DInv'
<1>1. /\ Len(stack) \in Nat /\ Len(stack) <= MaxDepth
      /\ \A k \in 1..Len(stack) : stack[k] \in Frames /\ FrameFits(stack[k])
      /\ Len(stack) \in 1..Len(stack) /\ Top = stack[Len(stack)] /\ Len(stack) > 0
  BY TypeParts
<1>2. /\ stack' \in Seq(Frames) /\ Len(stack') = Len(stack) - 1
      /\ \A k \in 1..Len(stack') : k \in 1..Len(stack) /\ k < Len(stack) /\ stack'[k] = stack[k]
  BY DEF Pops
<1>3. Stirred
  BY DEF DInv
<1>4. \A k \in 1..Len(stack') : StirredFor(stack'[k])
  BY <1>2, <1>3 DEF Stirred
<1>5. \A d \in Detours : Has(d) /\ Unscoped(d)' => Unscoped(d)
  <2> SUFFICES ASSUME NEW d \in Detours, Unscoped(d)', NEW k \in 1..Len(stack), Runs(stack[k], d)
               PROVE  FALSE
    BY DEF Unscoped
  <2>1. k # Len(stack)
    BY <1>1
  <2>2. k \in 1..Len(stack') /\ stack'[k] = stack[k]
    BY <1>1, <1>2, <2>1
  <2> QED
    BY <2>2 DEF Unscoped, Runs
<1>6. sargs' \in 0..MaxDepth /\ touched' \subseteq Detours \cup Callbacks
  BY DEF DInv, TypeOK
<1>7. \A k \in 1..Len(stack') :
           k < Len(stack') /\ stack'[k].phase \in {"pre", "post"} => stack'[k].cur # None
  BY <1>1, <1>2 DEF DInv, StackFits
<1>8. \A k \in 1..Len(stack') : FrameFits(stack'[k])
  BY <1>1, <1>2
<1>9. Len(stack') <= MaxDepth
  BY <1>1, <1>2, ConstAssumption
<1> QED
  BY <1>2, <1>4, <1>5, <1>6, <1>7, <1>8, <1>9, StackStep

\* A doomed call is in nobody's hands but the processor's.
LEMMA DoomedStuck == ASSUME DInv, Doomed PROVE ~InScript /\ ~InGame
BY DEF Doomed, InScript, InGame

\* A frame that begins to walk a list.
LEMMA WalkFits ==
  ASSUME DInv, NEW f \in Frames, f.kind = "hook", f.of \in Detours, NEW phase \in {"pre", "post"}
  PROVE  LET w == Walk(f, phase) IN
         /\ w \in Frames /\ w.kind = "hook" /\ w.of = f.of /\ w.phase = phase
         /\ w.todo = Hooked(f.of, phase = "post") /\ w.due = w.todo /\ w.called = {} /\ w.cur = f.cur
         /\ w.grown = FALSE /\ w.flags = f.flags /\ w.nested = f.nested /\ w.foreign = f.foreign
         /\ det[f.of].st # "none" /\ f.cur = None => FrameFits(w)
<1> DEFINE w == Walk(f, phase)
           H == Hooked(f.of, phase = "post")
<1>1. H \subseteq Callbacks /\ \A c \in H : cb[c].st = "live" /\ cb[c].det = f.of
  BY DEF Hooked
<1> HIDE DEF H
<1>2. w = [f EXCEPT !.phase = phase, !.todo = H, !.due = H, !.called = {}, !.grown = FALSE]
  BY DEF Walk, H
<1>3. /\ w \in Frames /\ w.kind = "hook" /\ w.of = f.of /\ w.phase = phase
      /\ w.todo = H /\ w.due = H /\ w.called = {} /\ w.cur = f.cur
      /\ w.grown = FALSE /\ w.flags = f.flags /\ w.nested = f.nested /\ w.foreign = f.foreign
  BY <1>1, <1>2 DEF Frames, Phases
<1> HIDE DEF w
<1>4. det[f.of].st # "none" /\ f.cur = None => FrameFits(w)
  BY <1>1, <1>3 DEF FrameFits
<1> QED
  BY <1>3, <1>4 DEF w, H

\* A function of a plugin begins.
LEMMA EnterPluginStep == ASSUME DInv, NEW p \in Plugins, EnterPlugin(p) PROVE DInv'
<1> DEFINE f == [NoFrame EXCEPT !.of = p]
<1>1. f \in Frames /\ f.kind = "plugin" /\ f.of = p /\ f.phase = "script" /\ f.cur = None
      /\ f.todo = {} /\ f.due = {}
  BY DEF NoFrame, Frames, Phases
<1>2. stack' = Append(stack, f) /\ InGame /\ Len(stack) < MaxDepth
      /\ UNCHANGED <<code, det, cb, sargs, overlap, stirred, touched>>
  BY DEF EnterPlugin
<1> HIDE DEF f
<1>3. FrameFits(f) /\ StirredFor(f) /\ \A d \in Detours : ~Runs(f, d)
  BY <1>1 DEF FrameFits, StirredFor, WillEnable, Runs
<1>4. Pushes(f)
  BY <1>1, <1>2, TypeParts, Pushed
<1>5. /\ Len(stack) \in Nat /\ \A k \in 1..Len(stack) : FrameFits(stack[k])
      /\ stack # <<>> => Top = stack[Len(stack)] /\ Len(stack) > 0
  BY TypeParts
<1>6. Stirred
  BY <1>2, DoomedStuck DEF DInv
<1>7. \A k \in 1..Len(stack') : \/ k \in 1..Len(stack) /\ stack'[k] = stack[k]
                                \/ k = Len(stack') /\ stack'[k] = f
  BY <1>4, <1>5 DEF Pushes
<1>8. \A k \in 1..Len(stack') : FrameFits(stack'[k]) /\ StirredFor(stack'[k])
  BY <1>3, <1>5, <1>6, <1>7 DEF Stirred
<1>9. \A k \in 1..Len(stack') :
           k < Len(stack') /\ stack'[k].phase \in {"pre", "post"} => stack'[k].cur # None
  <2> SUFFICES ASSUME NEW k \in 1..Len(stack), stack[k].phase \in {"pre", "post"}
               PROVE  stack[k].cur # None
    BY <1>4, <1>5, <1>7 DEF Pushes
  <2>1. k < Len(stack)
    BY <1>2, <1>5 DEF InGame
  <2> QED
    BY <2>1 DEF DInv, StackFits
<1>10. \A d \in Detours : Has(d) /\ Unscoped(d)' => Unscoped(d)
  BY <1>4, <1>5 DEF Unscoped, Runs, Pushes
<1>11. /\ stack' \in Seq(Frames) /\ Len(stack') <= MaxDepth
       /\ sargs' \in 0..MaxDepth /\ touched' \subseteq Detours \cup Callbacks
  BY <1>2, <1>4, <1>5, ConstAssumption DEF DInv, TypeOK, Pushes
<1> QED
  BY <1>2, <1>8, <1>9, <1>10, <1>11, StackStep

\* A function of a plugin returns.
LEMMA LeavePluginStep == ASSUME DInv, LeavePlugin PROVE DInv'
<1>1. stack # <<>> /\ Top.kind = "plugin" /\ stack' = Pop
      /\ UNCHANGED <<code, det, cb, sargs, overlap, stirred, touched>>
  BY DEF LeavePlugin
<1>2. Pops
  BY <1>1, TypeParts, Popped
<1>3. Top.phase = "script"
  BY <1>1, TypeParts DEF FrameFits
<1> QED
  BY <1>1, <1>2, <1>3, PopStep DEF Doomed, Runs

\* A hooked call returns to its caller.
LEMMA ReturnStep == ASSUME DInv, Return PROVE DInv'
<1>1. stack # <<>> /\ Top.phase = "post" /\ stack' = Pop
      /\ UNCHANGED <<code, det, cb, sargs, overlap, stirred, touched>>
  BY DEF Return, Walked, WalkingTop
<1>2. Pops
  BY <1>1, TypeParts, Popped
<1> QED
  BY <1>1, <1>2, PopStep DEF Doomed, Runs

\* The next callback of a walk is called, or skipped.
LEMMA CallNextStep == ASSUME DInv, NEW c \in Callbacks, CallNext(c) PROVE DInv'
<1> DEFINE f == [Top EXCEPT !.todo = @ \ {c}, !.called = @ \cup {c},
                            !.cur = IF cb[c].enabled THEN c ELSE None]
<1>1. /\ stack # <<>> /\ Top.kind = "hook" /\ Top.phase \in {"pre", "post"}
      /\ Top.cur = None /\ c \in Top.todo /\ stack' = SetTop(f)
      /\ UNCHANGED <<code, det, cb, sargs, overlap, stirred, touched>>
  BY DEF CallNext, WalkingTop
<1>2. Top \in Frames /\ FrameFits(Top) /\ stack \in Seq(Frames)
  BY <1>1, TypeParts
<1>3. /\ f \in Frames /\ f.kind = "hook" /\ f.of = Top.of /\ f.phase = Top.phase
      /\ f.todo = Top.todo \ {c} /\ f.due = Top.due
      /\ f.cur = IF cb[c].enabled THEN c ELSE None
  BY <1>1, <1>2 DEF Frames
<1> HIDE DEF f
<1>4. SetsTop(f)
  BY <1>1, <1>2, <1>3, TopSet
<1>5. FrameFits(f)
  BY <1>1, <1>2, <1>3 DEF FrameFits
<1>6. ~Doomed
  BY <1>1 DEF Doomed
<1>7. Has(Top.of)
  BY <1>1, <1>2 DEF Has, FrameFits
<1>8. StirredFor(f)
  BY <1>3, <1>7 DEF StirredFor
<1>9. \A d \in Detours : Runs(Top, d) => Runs(f, d)
  BY <1>3 DEF Runs
<1>10. touched' \subseteq Detours \cup Callbacks
  BY <1>1 DEF DInv, TypeOK
<1> QED
  BY <1>1, <1>3, <1>4, <1>5, <1>6, <1>8, <1>9, <1>10, TopStep

\* A callback returns to the walk, which goes on or halts.
LEMMA CallbackReturnsStep ==
  ASSUME DInv, NEW flags \in SUBSET {"changed", "handled"}, CallbackReturns(flags)
  PROVE  DInv'
<1>1. /\ stack # <<>> /\ Top.kind = "hook" /\ Top.phase \in {"pre", "post"} /\ Top.cur # None
      /\ UNCHANGED <<code, det, cb, sargs, overlap, stirred>>
  BY DEF CallbackReturns, WalkingTop
<1>2. Top \in Frames /\ FrameFits(Top) /\ stack \in Seq(Frames) /\ Top.cur \in Callbacks
  BY <1>1, TypeParts DEF Frames
<1>3. ~Doomed
  BY <1>1 DEF Doomed
<1>4. touched' \subseteq Detours \cup Callbacks
  <2>1. touched' = touched \/ touched' = touched \cup {Top.cur}
    BY DEF CallbackReturns
  <2> QED
    BY <1>2, <2>1 DEF DInv, TypeOK
<1>5. CASE cb[Top.cur].st = "live"
  <2>1. PICK on \in BOOLEAN :
          stack' = SetTop([Top EXCEPT !.cur = None, !.flags = @ \cup flags,
                                      !.todo = IF on THEN @ ELSE {},
                                      !.due = IF on THEN @ ELSE {}])
    BY <1>5 DEF CallbackReturns
  <2> DEFINE f == [Top EXCEPT !.cur = None, !.flags = @ \cup flags,
                              !.todo = IF on THEN @ ELSE {}, !.due = IF on THEN @ ELSE {}]
  <2>2. /\ f \in Frames /\ f.kind = "hook" /\ f.of = Top.of /\ f.phase = Top.phase
        /\ f.todo \subseteq Top.todo /\ f.due \subseteq Top.due /\ f.cur = None
    BY <1>1, <1>2 DEF Frames
  <2>3. stack' = SetTop(f)
    BY <2>1
  <2> HIDE DEF f
  <2>4. SetsTop(f)
    BY <1>1, <1>2, <2>2, <2>3, TopSet
  <2>5. FrameFits(f)
    BY <1>1, <1>2, <2>2 DEF FrameFits
  <2>6. Has(Top.of)
    BY <1>1, <1>2, <1>5 DEF Has, FrameFits
  <2>7. StirredFor(f)
    BY <2>2, <2>6 DEF StirredFor
  <2>8. \A d \in Detours : Runs(Top, d) => Runs(f, d)
    BY <2>2 DEF Runs
  <2> QED
    BY <1>1, <1>3, <1>4, <2>2, <2>4, <2>5, <2>7, <2>8, TopStep
<1>6. CASE cb[Top.cur].st # "live"
  <2>1. stack' = stack
    BY <1>6 DEF CallbackReturns
  <2>2. Stirred /\ StackFits /\ sargs \in 0..MaxDepth /\ Len(stack) <= MaxDepth
    BY <1>3 DEF DInv, TypeOK
  <2>3. \A d \in Detours : Unscoped(d)' => Unscoped(d)
    BY <2>1 DEF Unscoped, Runs
  <2> QED
    BY <1>1, <1>2, <1>4, <2>1, <2>2, <2>3, StackStep DEF Stirred, StackFits
<1> QED
  BY <1>5, <1>6

\* The function is not called when a callback handled the call.
LEMMA SkipOriginalStep == ASSUME DInv, SkipOriginal PROVE DInv'
<1> DEFINE g == [Top EXCEPT !.foreign = Foreign, !.flags = {}]
           f == Walk(g, "post")
<1>1. /\ stack # <<>> /\ Top.kind = "hook" /\ Top.phase = "pre" /\ Top.cur = None
      /\ "handled" \in Top.flags /\ stack' = SetTop(f)
      /\ UNCHANGED <<code, det, cb, sargs, overlap, stirred, touched>>
  BY DEF SkipOriginal, Walked, WalkingTop
<1>2. Top \in Frames /\ FrameFits(Top) /\ stack \in Seq(Frames) /\ Foreign \in BOOLEAN
  BY <1>1, TypeParts DEF Foreign
<1>3. g \in Frames /\ g.kind = "hook" /\ g.of = Top.of /\ g.cur = None /\ g.of \in Detours
      /\ det[g.of].st # "none"
  BY <1>1, <1>2 DEF Frames, FrameFits
<1> HIDE DEF g
<1>4. f \in Frames /\ f.phase = "post" /\ FrameFits(f)
  BY <1>3, WalkFits
<1> HIDE DEF f
<1>5. SetsTop(f)
  BY <1>1, <1>2, <1>4, TopSet
<1>6. ~Doomed
  BY <1>1 DEF Doomed
<1>7. StirredFor(f) /\ \A d \in Detours : ~Runs(Top, d)
  BY <1>1, <1>4 DEF StirredFor, WillEnable, Runs
<1>8. touched' \subseteq Detours \cup Callbacks
  BY <1>1 DEF DInv, TypeOK
<1> QED
  BY <1>1, <1>4, <1>5, <1>6, <1>7, <1>8, TopStep

\* How a call becomes doomed, and stays it.
LEMMA NewDoom ==
  ASSUME NEW d, NEW f, UNCHANGED <<code, det, cb>>, Live(d), ~Has(d), ~det[d].enabled,
         code[Target(d)] = d,
         f.kind = "hook", f.of = d, f.phase \in {"pre", "jump"}, f.todo = {}, f.cur = None,
         f.flags = {},
         stack' \in Seq(Frames), Len(stack') > 0, stack'[Len(stack')] = f
  PROVE  Doomed'
<1>1. Top' = f /\ stack' # <<>>
  BY DEF Top
<1>2. Live(d)' /\ ~Has(d)' /\ ~det'[d].enabled /\ code'[Target(d)] = d
  BY DEF Live, Has
<1> QED
  BY <1>1, <1>2 DEF Doomed, Live, Has, Target

\* A frame in the way of the next call.
LEMMA BelowFits ==
  ASSUME DInv, NEW k \in 1..Len(stack)
  PROVE  LET g == [stack[k] EXCEPT !.nested = TRUE,
                      !.phase = IF @ = "jump" /\ k = Len(stack) THEN "original" ELSE @]
         IN  /\ g \in Frames /\ g.kind = stack[k].kind /\ g.of = stack[k].of
             /\ g.todo = stack[k].todo /\ g.due = stack[k].due /\ g.cur = stack[k].cur
             /\ g.called = stack[k].called /\ g.grown = stack[k].grown
             /\ g.foreign = stack[k].foreign /\ g.nested = TRUE
             /\ \/ g.phase = stack[k].phase
                \/ stack[k].phase = "jump" /\ g.phase = "original" /\ k = Len(stack)
             /\ FrameFits(g) /\ (StirredFor(stack[k]) => StirredFor(g))
             /\ \A d : Runs(stack[k], d) <=> Runs(g, d)
<1> DEFINE g == [stack[k] EXCEPT !.nested = TRUE,
                      !.phase = IF @ = "jump" /\ k = Len(stack) THEN "original" ELSE @]
<1>1. stack[k] \in Frames /\ FrameFits(stack[k])
  BY TypeParts
<1>2. /\ g \in Frames /\ g.kind = stack[k].kind /\ g.of = stack[k].of
      /\ g.todo = stack[k].todo /\ g.due = stack[k].due /\ g.cur = stack[k].cur
      /\ g.called = stack[k].called /\ g.grown = stack[k].grown
      /\ g.foreign = stack[k].foreign /\ g.nested = TRUE
      /\ \/ g.phase = stack[k].phase
         \/ stack[k].phase = "jump" /\ g.phase = "original" /\ k = Len(stack)
  BY <1>1 DEF Frames, Phases
<1> HIDE DEF g
<1>3. FrameFits(g)
  BY <1>1, <1>2 DEF FrameFits
<1>4. StirredFor(stack[k]) => StirredFor(g)
  BY <1>2 DEF StirredFor, WillEnable
<1>5. \A d : Runs(stack[k], d) <=> Runs(g, d)
  BY <1>2 DEF Runs
<1> QED
  BY <1>2, <1>3, <1>4, <1>5 DEF g

\* What Invoke makes of the stack: the frames below are nested, and a new frame
\* walks the callbacks before the function.
Invokes(d) ==
  /\ stack' \in Seq(Frames) /\ Len(stack') = Len(stack) + 1
  /\ stack'[Len(stack) + 1] = Walk([NoFrame EXCEPT !.kind = "hook", !.of = d], "pre")
  /\ \A k \in 1..Len(stack) :
       stack'[k] = [stack[k] EXCEPT !.nested = TRUE,
                      !.phase = IF @ = "jump" /\ k = Len(stack) THEN "original" ELSE @]

\* A call through a closure pushes a frame that walks the callbacks before it.
LEMMA InvokePushes ==
  ASSUME DInv, NEW t \in Targets, Invoke(t), Live(code[t])
  PROVE  Invokes(code[t]) /\ sargs' = Len(stack) + 1 /\ code[t] \in Detours /\ UNCHANGED touched
<1> DEFINE d == code[t]
           below == [k \in DOMAIN stack |->
                       [stack[k] EXCEPT !.nested = TRUE,
                          !.phase = IF @ = "jump" /\ k = Len(stack) THEN "original" ELSE @]]
           f == [NoFrame EXCEPT !.kind = "hook", !.of = d]
           w == Walk(f, "pre")
<1>1. d \in Detours
  BY DEF DInv, TypeOK, Invoke
<1>2. stack' = Append(below, w) /\ sargs' = Len(stack) + 1 /\ UNCHANGED touched
  BY DEF Invoke, Fill
<1>3. /\ DOMAIN stack = 1..Len(stack) /\ Len(stack) \in Nat
  BY TypeParts
<1>4. below \in [1..Len(stack) -> Frames]
  BY <1>3, BelowFits
<1>5. \A k \in 1..Len(stack) : below[k] =
        [stack[k] EXCEPT !.nested = TRUE,
           !.phase = IF @ = "jump" /\ k = Len(stack) THEN "original" ELSE @]
  BY <1>3
<1> HIDE DEF below
<1>6. below \in Seq(Frames) /\ Len(below) = Len(stack)
  <2>1. below \in Seq(Frames)
    BY <1>3, <1>4, SeqDef
  <2> QED
    BY <1>3, <1>4, <2>1, LenProperties
<1>7. f \in Frames /\ f.kind = "hook" /\ f.of \in Detours
  BY <1>1 DEF NoFrame, Frames, Phases
<1> HIDE DEF f
<1>8. w \in Frames
  BY <1>7, WalkFits
<1> HIDE DEF w
<1>9. Append(below, w) \in Seq(Frames) /\ Len(Append(below, w)) = Len(stack) + 1
      /\ Append(below, w)[Len(stack) + 1] = w
      /\ \A k \in 1..Len(stack) : Append(below, w)[k] = below[k]
  BY <1>3, <1>6, <1>8
<1> QED
  BY <1>1, <1>2, <1>3, <1>5, <1>9 DEF Invokes, w, f

\* The game or a script calls a function that jumps to a closure.
LEMMA InvokeStep == ASSUME DInv, NEW t \in Targets, Invoke(t) PROVE DInv'
<1>0. UNCHANGED <<code, det, cb, overlap, stirred>> /\ code[t] # None /\ Len(stack) < MaxDepth
  BY DEF Invoke
<1>1. /\ Len(stack) \in Nat /\ stack \in Seq(Frames)
      /\ \A k \in 1..Len(stack) : stack[k] \in Frames /\ FrameFits(stack[k])
      /\ stack # <<>> => Len(stack) \in 1..Len(stack) /\ Top = stack[Len(stack)] /\ FrameFits(Top)
  BY TypeParts
<1>2. code[t] \in Detours
  BY <1>0 DEF DInv, TypeOK
<1>3. CASE ~Live(code[t])
  <2>1. touched' = touched \cup {code[t]} /\ stack' = stack /\ sargs' = sargs
    BY <1>3 DEF Invoke
  <2>2. Doomed => Doomed'
    BY <1>0, <2>1 DEF Doomed, Top, Live, Has, Target
  <2>3. \A d \in Detours : Unscoped(d)' => Unscoped(d)
    BY <2>1 DEF Unscoped, Runs
  <2>4. Doomed' \/ \A k \in 1..Len(stack') : StirredFor(stack'[k])
    BY <2>1, <2>2 DEF DInv, Stirred
  <2>5. /\ stack' \in Seq(Frames) /\ Len(stack') <= MaxDepth /\ sargs' \in 0..MaxDepth
        /\ touched' \subseteq Detours \cup Callbacks /\ StackFits
    BY <1>2, <2>1 DEF DInv, TypeOK
  <2> QED
    BY <1>0, <2>1, <2>3, <2>4, <2>5, StackStep DEF StackFits
<1>4. CASE Live(code[t])
  <2> DEFINE d == code[t]
             f == [NoFrame EXCEPT !.kind = "hook", !.of = d]
             w == Walk(f, "pre")
  <2>1. Invokes(d) /\ sargs' = Len(stack) + 1 /\ UNCHANGED touched
    BY <1>4, InvokePushes
  <2>2. f \in Frames /\ f.kind = "hook" /\ f.of = d /\ f.cur = None /\ f.flags = {}
    BY <1>2 DEF NoFrame, Frames, Phases
  <2> HIDE DEF f
  <2>3. /\ w \in Frames /\ w.kind = "hook" /\ w.of = d /\ w.phase = "pre" /\ w.cur = None
        /\ w.todo = Hooked(d, FALSE) /\ w.flags = {} /\ FrameFits(w)
    <3>1. det[d].st # "none"
      BY <1>4 DEF Live
    <3>2. ("pre" = "post") = FALSE
      OBVIOUS
    <3>3. /\ w \in Frames /\ w.kind = "hook" /\ w.of = f.of /\ w.phase = "pre" /\ w.cur = f.cur
          /\ w.todo = Hooked(f.of, "pre" = "post") /\ w.flags = f.flags
          /\ det[f.of].st # "none" /\ f.cur = None => FrameFits(w)
      BY <1>2, <2>2, WalkFits
    <3> QED
      BY <2>2, <3>1, <3>2, <3>3
  <2>4. /\ stack' \in Seq(Frames) /\ Len(stack') = Len(stack) + 1 /\ stack'[Len(stack) + 1] = w
        /\ \A k \in 1..Len(stack) :
             /\ stack'[k].cur = stack[k].cur /\ FrameFits(stack'[k])
             /\ StirredFor(stack[k]) => StirredFor(stack'[k])
             /\ \A e : Runs(stack[k], e) <=> Runs(stack'[k], e)
             /\ \/ stack'[k].phase = stack[k].phase
                \/ stack[k].phase = "jump" /\ stack'[k].phase = "original"
    <3>1. /\ stack' \in Seq(Frames) /\ Len(stack') = Len(stack) + 1 /\ stack'[Len(stack) + 1] = w
          /\ \A k \in 1..Len(stack) :
               stack'[k] = [stack[k] EXCEPT !.nested = TRUE,
                              !.phase = IF @ = "jump" /\ k = Len(stack) THEN "original" ELSE @]
      BY <2>1 DEF Invokes, w, f
    <3>2. ASSUME NEW k \in 1..Len(stack)
          PROVE  /\ stack'[k].cur = stack[k].cur /\ FrameFits(stack'[k])
                 /\ StirredFor(stack[k]) => StirredFor(stack'[k])
                 /\ \A e : Runs(stack[k], e) <=> Runs(stack'[k], e)
                 /\ \/ stack'[k].phase = stack[k].phase
                    \/ stack[k].phase = "jump" /\ stack'[k].phase = "original"
      <4> DEFINE g == [stack[k] EXCEPT !.nested = TRUE,
                         !.phase = IF @ = "jump" /\ k = Len(stack) THEN "original" ELSE @]
      <4>1. /\ g.cur = stack[k].cur /\ FrameFits(g)
            /\ StirredFor(stack[k]) => StirredFor(g)
            /\ \A e : Runs(stack[k], e) <=> Runs(g, e)
            /\ \/ g.phase = stack[k].phase
               \/ stack[k].phase = "jump" /\ g.phase = "original"
        BY BelowFits
      <4>2. stack'[k] = g
        BY <3>1
      <4> HIDE DEF g
      <4> QED
        BY <4>1, <4>2
    <3> QED
      BY <3>1, <3>2
  <2> HIDE DEF w
  <2>5. ASSUME NEW k \in 1..Len(stack'), k < Len(stack'), stack'[k].phase \in {"pre", "post"}
        PROVE  stack'[k].cur # None
    <3>1. k \in 1..Len(stack) /\ stack[k].phase \in {"pre", "post"} /\ stack'[k].cur = stack[k].cur
      <4>1. k \in 1..Len(stack)
        BY <1>1, <2>4, <2>5
      <4>2. /\ stack'[k].cur = stack[k].cur
            /\ stack'[k].phase = stack[k].phase \/ stack'[k].phase = "original"
        BY <2>4, <4>1
      <4> QED
        BY <2>5, <4>1, <4>2
    <3>2. CASE k < Len(stack)
      BY <3>1, <3>2 DEF DInv, StackFits
    <3>3. CASE k = Len(stack)
      <4>1. stack # <<>> /\ Top.phase \in {"pre", "post"} /\ FrameFits(Top) /\ Top = stack[k]
        BY <1>1, <3>1, <3>3
      <4>2. InScript
        BY <4>1 DEF Invoke, InGame
      <4>3. Top.kind # "plugin"
        BY <4>1 DEF FrameFits
      <4> QED
        BY <3>1, <4>1, <4>2, <4>3 DEF InScript
    <3> QED
      BY <1>1, <3>1, <3>2, <3>3
  <2>6. \A k \in 1..Len(stack') : FrameFits(stack'[k])
    BY <1>1, <2>3, <2>4
  <2>7. \A e \in Detours : Unscoped(e)' => Unscoped(e)
    <3> SUFFICES ASSUME NEW e \in Detours, Unscoped(e)', NEW k \in 1..Len(stack), Runs(stack[k], e)
                 PROVE  FALSE
      BY DEF Unscoped
    <3>1. Runs(stack'[k], e)
      BY <2>4
    <3>2. k \in 1..Len(stack')
      BY <1>1, <2>4
    <3> QED
      BY <3>1, <3>2 DEF Unscoped, Runs
  <2>8. Doomed' \/ \A k \in 1..Len(stack') : StirredFor(stack'[k])
    <3>1. CASE Doomed
      <4>2. stack # <<>> /\ Top.phase = "jump" /\ Target(Top.of) = t
        BY <3>1, DoomedStuck DEF Invoke
      <4>3. d = Top.of /\ ~Has(d) /\ ~det[d].enabled /\ code[Target(d)] = d
        BY <3>1, <4>2 DEF Doomed
      <4>4. w.todo = {}
        BY <2>3, <4>3 DEF Hooked, Has
      <4> QED
        BY <1>0, <1>1, <1>4, <2>3, <2>4, <4>3, <4>4, NewDoom
    <3>2. CASE Stirred /\ (Has(d) \/ d \in stirred)
      <4>1. StirredFor(w)
        BY <2>3, <3>2 DEF StirredFor
      <4>2. \A k \in 1..Len(stack) : StirredFor(stack'[k])
        BY <2>4, <3>2 DEF Stirred
      <4> QED
        BY <1>1, <2>4, <4>1, <4>2
    <3>3. CASE ~Has(d) /\ d \notin stirred
      <4>1. ~det[d].enabled
        BY <1>2, <1>4, <3>3 DEF DInv, Armed
      <4>2. code[Target(d)] = d
        BY <1>0 DEF DInv, Bytes
      <4>3. w.todo = {}
        BY <2>3, <3>3 DEF Hooked, Has
      <4> QED
        BY <1>0, <1>1, <1>4, <2>3, <2>4, <3>3, <4>1, <4>2, <4>3, NewDoom
    <3> QED
      BY <3>1, <3>2, <3>3 DEF DInv
  <2>9. /\ Len(stack') <= MaxDepth /\ sargs' \in 0..MaxDepth
        /\ touched' \subseteq Detours \cup Callbacks
    BY <1>0, <1>1, <2>1, <2>4, ConstAssumption DEF DInv, TypeOK
  <2> QED
    BY <1>0, <2>4, <2>5, <2>6, <2>7, <2>8, <2>9, StackStep
<1> QED
  BY <1>3, <1>4

-----------------------------------------------------------------------------
(* Steps that touch a detour or a callback *)

\* The definitions above, of the next state, with a frame that is the same in
\* both.
NextFits(f) ==
  /\ f.kind = "plugin" => f.of \in Plugins /\ f.phase = "script"
  /\ f.kind = "direct" => f.phase \in {"jump", "original"}
  /\ f.kind = "hook" => f.phase \in {"pre", "jump", "original", "post"}
  /\ f.kind # "plugin" => f.of \in Detours /\ det'[f.of].st # "none"
  /\ f.phase \notin {"pre", "post"} => f.cur = None /\ f.todo = {}
  /\ \A c \in f.todo : cb'[c].st = "live" /\ cb'[c].det = f.of
  /\ \A c \in f.due : cb'[c].st # "none"
  /\ f.cur # None => cb'[f.cur].st # "none"
  /\ f.cur # None /\ cb'[f.cur].st = "live" => cb'[f.cur].det = f.of
HasNext(d) == \E c \in Callbacks : cb'[c].st = "live" /\ cb'[c].det = d
NextStirred(f) == WillEnable(f) /\ det'[f.of].st = "live" /\ ~HasNext(f.of) => f.of \in stirred'

\* The parts of the invariant, of the next state.
LEMMA NextDInv ==
  ASSUME BytesType', Bytes',
         cb' \in [Callbacks -> [st : {"none", "live", "freed"}, det : Detours \cup {None},
                                post : BOOLEAN, enabled : BOOLEAN, owner : Plugins \cup {None}]],
         stack' \in Seq(Frames), Len(stack') <= MaxDepth, sargs' \in 0..MaxDepth,
         stirred' \subseteq Detours, touched' \subseteq Detours \cup Callbacks,
         \A k \in 1..Len(stack') : NextFits(stack'[k]),
         \A k \in 1..Len(stack') :
           k < Len(stack') /\ stack'[k].phase \in {"pre", "post"} => stack'[k].cur # None,
         \A c \in Callbacks :
           cb'[c].st = "live" => cb'[c].det \in Detours /\ det'[cb'[c].det].st = "live",
         \A d \in Detours :
           det'[d].st = "live" => /\ ~HasNext(d) /\ det'[d].enabled => d \in stirred'
                                  /\ HasNext(d) /\ Unscoped(d)' => det'[d].enabled,
         Doomed' \/ \A k \in 1..Len(stack') : NextStirred(stack'[k])
  PROVE  DInv'
<1>1. TypeOK'
  BY DEF TypeOK, BytesType
<1>2. StackFits'
  BY DEF StackFits, FrameFits, NextFits
<1>3. CallbacksFit'
  BY DEF CallbacksFit
<1>4. Armed'
  BY DEF Armed, Live, Has, HasNext
<1>5. Doomed' \/ Stirred'
  BY DEF Stirred, StirredFor, NextStirred, WillEnable, Live, Has, HasNext
<1> QED
  BY <1>1, <1>2, <1>3, <1>4, <1>5 DEF DInv

\* Detours and callbacks are born and die, and a callback stays with its detour.
Ages ==
  /\ \A d \in Detours : det[d].st # "none" => det'[d].st # "none"
  /\ \A c \in Callbacks :
       cb[c].st # "none" => /\ cb'[c].st # "none"
                            /\ cb'[c].st = "live" => cb[c].st = "live" /\ cb'[c].det = cb[c].det

\* A frame whose walk lost or got callbacks of its detour still fits.
LEMMA Aged ==
  ASSUME Ages, NEW f \in Frames, FrameFits(f), NEW g,
         g.kind = f.kind, g.of = f.of, g.phase = f.phase, g.cur = f.cur, g.due = f.due,
         g.phase \notin {"pre", "post"} => g.todo = {},
         \A c \in g.todo : cb'[c].st = "live" /\ cb'[c].det = f.of
  PROVE  NextFits(g)
<1>1. f.due \in SUBSET Callbacks /\ f.cur \in Callbacks \cup {None}
  BY DEF Frames
<1> QED
  BY <1>1 DEF FrameFits, NextFits, Ages

\* A walk over the whole stack that changes what is left of the walks only.
Keeps ==
  /\ stack' \in Seq(Frames) /\ Len(stack') = Len(stack)
  /\ \A k \in 1..Len(stack) :
       /\ stack'[k].kind = stack[k].kind /\ stack'[k].of = stack[k].of
       /\ stack'[k].phase = stack[k].phase /\ stack'[k].cur = stack[k].cur
       /\ stack'[k].due = stack[k].due
       /\ stack'[k].phase \notin {"pre", "post"} => stack'[k].todo = {}
       /\ \A c \in stack'[k].todo : cb'[c].st = "live" /\ cb'[c].det = stack[k].of

\* What such a walk over the stack leaves true.
LEMMA Kept ==
  ASSUME DInv, Ages, Keeps
  PROVE  /\ \A k \in 1..Len(stack') : NextFits(stack'[k])
         /\ \A k \in 1..Len(stack') :
              k < Len(stack') /\ stack'[k].phase \in {"pre", "post"} => stack'[k].cur # None
         /\ \A d \in Detours : Unscoped(d)' <=> Unscoped(d)
         /\ \A k \in 1..Len(stack) : WillEnable(stack'[k]) <=> WillEnable(stack[k])
         /\ stack' \in Seq(Frames) /\ Len(stack') <= MaxDepth
<1>1. /\ Len(stack) <= MaxDepth
      /\ \A k \in 1..Len(stack) : stack[k] \in Frames /\ FrameFits(stack[k])
  BY TypeParts
<1>2. ASSUME NEW k \in 1..Len(stack') PROVE NextFits(stack'[k])
  <2>1. k \in 1..Len(stack)
    BY DEF Keeps
  <2> QED
    BY <1>1, <2>1, Aged DEF Keeps
<1>3. \A k \in 1..Len(stack') :
        k < Len(stack') /\ stack'[k].phase \in {"pre", "post"} => stack'[k].cur # None
  BY DEF Keeps, DInv, StackFits
<1>4. \A d \in Detours : Unscoped(d)' <=> Unscoped(d)
  BY DEF Keeps, Unscoped, Runs
<1>5. \A k \in 1..Len(stack) : WillEnable(stack'[k]) <=> WillEnable(stack[k])
  BY DEF Keeps, WillEnable
<1> QED
  BY <1>1, <1>2, <1>3, <1>4, <1>5 DEF Keeps

\* The same stack keeps.
LEMMA SameKeeps ==
  ASSUME DInv, UNCHANGED stack,
         \A c \in Callbacks : cb[c].st = "live" => cb'[c].st = "live" /\ cb'[c].det = cb[c].det
  PROVE  Keeps
<1>1. \A k \in 1..Len(stack) : stack[k] \in Frames /\ FrameFits(stack[k])
  BY TypeParts
<1>2. stack \in Seq(Frames)
  BY TypeParts
<1>3. ASSUME NEW k \in 1..Len(stack), NEW c \in stack[k].todo
      PROVE  cb'[c].st = "live" /\ cb'[c].det = stack[k].of
  <2>1. c \in Callbacks
    BY <1>1 DEF Frames
  <2> QED
    BY <1>1, <2>1 DEF FrameFits
<1>4. \A k \in 1..Len(stack) : stack[k].phase \notin {"pre", "post"} => stack[k].todo = {}
  BY <1>1 DEF FrameFits
<1> QED
  BY <1>2, <1>3, <1>4 DEF Keeps

\* In a script, or while the game runs, no call is doomed, and no walk waits for
\* its next callback.
LEMMA Outside ==
  ASSUME DInv, InScript \/ InGame
  PROVE  /\ Stirred
         /\ \A k \in 1..Len(stack) :
              stack[k].phase \in {"pre", "post"} => stack[k].cur # None
<1>1. Stirred
  BY DoomedStuck DEF DInv
<1>2. ASSUME NEW k \in 1..Len(stack), stack[k].phase \in {"pre", "post"}
      PROVE  stack[k].cur # None
  <2>1. Len(stack) \in Nat
    BY TypeParts
  <2>2. CASE k < Len(stack)
    BY <1>2, <2>2 DEF DInv, StackFits
  <2>3. CASE k = Len(stack)
    <3>1. stack # <<>> /\ Top = stack[k] /\ FrameFits(Top)
      BY <2>1, <2>3, TypeParts DEF Top
    <3>2. InScript /\ Top.kind # "plugin"
      BY <1>2, <3>1 DEF FrameFits, InGame
    <3> QED
      BY <3>1, <3>2 DEF InScript
  <2> QED
    BY <2>1, <2>2, <2>3
<1> QED
  BY <1>1, <1>2

\* The function that runs is of a plugin.
LEMMA RunningType == ASSUME DInv PROVE {Running} \ {None} \in SUBSET Plugins
<1> DEFINE ps == {k \in 1..Len(stack) : stack[k].kind = "plugin"}
<1>1. CASE ps = {}
  BY <1>1 DEF Running
<1>2. CASE ps # {}
  <2>1. PICK k \in ps : Running = stack[k].of
    BY <1>2 DEF Running
  <2> QED
    BY <2>1, TypeParts DEF FrameFits
<1> QED
  BY <1>1, <1>2

\* A detour is created, or gets or loses an owner.
LEMMA OwnersStep ==
  ASSUME DInv, InScript, NEW d \in Detours, NEW ps \in SUBSET Plugins,
         UNCHANGED <<code, cb, stack, sargs, stirred, touched>>,
         \/ /\ det[d].st = "none"
            /\ det' = [det EXCEPT ![d] = [st |-> "live", enabled |-> FALSE,
                                          old_bytes |-> code[Target(d)], owners |-> ps]]
            /\ overlap' = overlap \cup {t \in {Target(d)} : code[t] # None}
         \/ Live(d) /\ det' = [det EXCEPT ![d].owners = ps] /\ UNCHANGED overlap
  PROVE  DInv'
<1>1. BytesType /\ Bytes /\ Stirred
  BY TypeParts, Outside
<1>2. BytesType' /\ Bytes'
  BY <1>1, CreateBytes
<1>3. \A e \in Detours : /\ det[e].st # "none" => det'[e].st = det[e].st /\ det'[e].enabled = det[e].enabled
                         /\ det[e].st = "none" /\ det'[e].st # "none" => ~det'[e].enabled
  BY <1>1 DEF BytesType, Live
<1>4. Ages
  BY <1>3 DEF Ages
<1>5. Keeps
  BY SameKeeps
<1>6. \A e \in Detours : Has(e) <=> HasNext(e)
  BY DEF Has, HasNext
<1>7. \A e \in Detours : Has(e) => Live(e)
  BY DEF Has, DInv, CallbacksFit, Live
<1>8. \A k \in 1..Len(stack) : NextStirred(stack[k])
  <2> SUFFICES ASSUME NEW k \in 1..Len(stack), WillEnable(stack[k]), det'[stack[k].of].st = "live",
                      ~HasNext(stack[k].of)
               PROVE  stack[k].of \in stirred
    BY DEF NextStirred
  <2>1. FrameFits(stack[k])
    BY TypeParts
  <2>2. stack[k].of \in Detours /\ det[stack[k].of].st # "none"
    BY <2>1 DEF FrameFits, WillEnable
  <2> QED
    BY <1>1, <1>3, <1>6, <2>2 DEF Stirred, StirredFor, Live
<1>9. \A e \in Detours :
        det'[e].st = "live" => /\ ~HasNext(e) /\ det'[e].enabled => e \in stirred'
                               /\ HasNext(e) /\ Unscoped(e)' => det'[e].enabled
  <2> SUFFICES ASSUME NEW e \in Detours, det'[e].st = "live"
               PROVE  /\ ~HasNext(e) /\ det'[e].enabled => e \in stirred'
                      /\ HasNext(e) /\ Unscoped(e)' => det'[e].enabled
    OBVIOUS
  <2>1. Unscoped(e)' <=> Unscoped(e)
    BY DEF Unscoped, Runs
  <2> QED
    BY <1>3, <1>6, <1>7, <2>1 DEF DInv, Armed, Live
<1>10. \A c \in Callbacks :
           cb'[c].st = "live" => cb'[c].det \in Detours /\ det'[cb'[c].det].st = "live"
  BY <1>3 DEF DInv, CallbacksFit
<1>11. /\ \A k \in 1..Len(stack') : NextFits(stack'[k])
       /\ \A k \in 1..Len(stack') :
            k < Len(stack') /\ stack'[k].phase \in {"pre", "post"} => stack'[k].cur # None
       /\ stack' \in Seq(Frames) /\ Len(stack') <= MaxDepth
  BY <1>4, <1>5, Kept
<1>12. /\ cb' \in [Callbacks -> [st : {"none", "live", "freed"}, det : Detours \cup {None},
                                 post : BOOLEAN, enabled : BOOLEAN, owner : Plugins \cup {None}]]
       /\ sargs' \in 0..MaxDepth /\ stirred' \subseteq Detours /\ touched' \subseteq Detours \cup Callbacks
  BY DEF DInv, TypeOK
<1>13. \A k \in 1..Len(stack') : NextStirred(stack'[k])
  BY <1>8
<1> QED
  BY <1>2, <1>9, <1>10, <1>11, <1>12, <1>13, NextDInv

\* create_detour makes a detour, or another owner of it.
LEMMA CreateStep == ASSUME DInv, NEW d \in Detours, Create(d) PROVE DInv'
<1> DEFINE new == {Running} \ {None}
           all == det[d].owners \cup ({Running} \ {None})
<1>1. new \in SUBSET Plugins
  BY RunningType
<1>2. all \in SUBSET Plugins
  BY <1>1 DEF DInv, TypeOK
<1>3. CASE det[d].st = "none"
  BY <1>1, <1>3, OwnersStep DEF Create, Live
<1>4. CASE Live(d)
  <2>1. det' = [det EXCEPT ![d].owners = all] /\ UNCHANGED overlap
    BY <1>4 DEF Create, Live
  <2> HIDE DEF all
  <2> QED
    BY <1>2, <1>4, <2>1, OwnersStep DEF Create
<1> QED
  BY <1>3, <1>4 DEF Create

\* script_toggle and its kin: the callback stays hooked.
LEMMA ToggleStep == ASSUME DInv, NEW c \in Callbacks, Toggle(c) PROVE DInv'
<1>1. /\ InScript /\ cb' = [cb EXCEPT ![c].enabled = ~@]
      /\ UNCHANGED <<code, det, stack, sargs, overlap, stirred, touched>>
  BY DEF Toggle
<1>2. BytesType /\ Bytes /\ Stirred
  BY <1>1, TypeParts, Outside
<1>3. BytesType' /\ Bytes'
  BY <1>1, <1>2 DEF BytesType, Bytes
<1>4. /\ cb' \in [Callbacks -> [st : {"none", "live", "freed"}, det : Detours \cup {None},
                                post : BOOLEAN, enabled : BOOLEAN, owner : Plugins \cup {None}]]
      /\ sargs' \in 0..MaxDepth /\ stirred' \subseteq Detours /\ touched' \subseteq Detours \cup Callbacks
  <2>1. cb \in [Callbacks -> [st : {"none", "live", "freed"}, det : Detours \cup {None},
                              post : BOOLEAN, enabled : BOOLEAN, owner : Plugins \cup {None}]]
    BY DEF DInv, TypeOK
  <2> DEFINE x == [cb[c] EXCEPT !.enabled = ~cb[c].enabled]
  <2>2. x \in [st : {"none", "live", "freed"}, det : Detours \cup {None},
               post : BOOLEAN, enabled : BOOLEAN, owner : Plugins \cup {None}]
    <3>1. (~cb[c].enabled) \in BOOLEAN
      BY <2>1
    <3> QED
      BY <2>1, <3>1
  <2>3. cb' = [cb EXCEPT ![c] = x]
    BY <1>1
  <2> HIDE DEF x
  <2>4. cb' \in [Callbacks -> [st : {"none", "live", "freed"}, det : Detours \cup {None},
                                post : BOOLEAN, enabled : BOOLEAN, owner : Plugins \cup {None}]]
    BY <2>1, <2>2, <2>3
  <2> QED
    BY <1>1, <2>4 DEF DInv, TypeOK
<1>5. \A b \in Callbacks : cb'[b].st = cb[b].st /\ cb'[b].det = cb[b].det
  BY <1>1 DEF DInv, TypeOK
<1>6. Ages /\ Keeps
  BY <1>1, <1>5, SameKeeps DEF Ages
<1>7. \A e \in Detours : (Has(e) <=> HasNext(e)) /\ (Unscoped(e)' <=> Unscoped(e))
  BY <1>1, <1>5 DEF Has, HasNext, Unscoped, Runs
<1>8. \A k \in 1..Len(stack') : NextStirred(stack'[k])
  BY <1>1, <1>2, <1>5 DEF NextStirred, Stirred, StirredFor, Live, Has, HasNext
<1>9. \A e \in Detours :
        det'[e].st = "live" => /\ ~HasNext(e) /\ det'[e].enabled => e \in stirred'
                               /\ HasNext(e) /\ Unscoped(e)' => det'[e].enabled
  BY <1>1, <1>7 DEF DInv, Armed, Live
<1>10. \A b \in Callbacks :
           cb'[b].st = "live" => cb'[b].det \in Detours /\ det'[cb'[b].det].st = "live"
  BY <1>1, <1>5 DEF DInv, CallbacksFit
<1>11. /\ \A k \in 1..Len(stack') : NextFits(stack'[k])
       /\ \A k \in 1..Len(stack') :
            k < Len(stack') /\ stack'[k].phase \in {"pre", "post"} => stack'[k].cur # None
       /\ stack' \in Seq(Frames) /\ Len(stack') <= MaxDepth
  BY <1>6, Kept
<1> QED
  BY <1>3, <1>4, <1>8, <1>9, <1>10, <1>11, NextDInv

\* Callbacks are freed: they leave their lists, and every walk of them.
LEMMA EraseKeeps ==
  ASSUME DInv, NEW cs \in SUBSET Callbacks, \A c \in cs : cb[c].st = "live", Erase(cs)
  PROVE  /\ Keeps
         /\ \A c \in Callbacks : /\ c \in cs => cb'[c].st = "freed"
                                 /\ c \notin cs => cb'[c] = cb[c]
         /\ cb' \in [Callbacks -> [st : {"none", "live", "freed"}, det : Detours \cup {None},
                                   post : BOOLEAN, enabled : BOOLEAN, owner : Plugins \cup {None}]]
         /\ \A d \in Detours : HasNext(d) <=> \E c \in Callbacks \ cs : cb[c].st = "live" /\ cb[c].det = d
<1>1. cb \in [Callbacks -> [st : {"none", "live", "freed"}, det : Detours \cup {None},
                            post : BOOLEAN, enabled : BOOLEAN, owner : Plugins \cup {None}]]
  BY DEF DInv, TypeOK
<1>2. /\ cb' = [c \in Callbacks |-> IF c \in cs THEN [NoCallback EXCEPT !.st = "freed"] ELSE cb[c]]
      /\ stack' = [k \in DOMAIN stack |-> [stack[k] EXCEPT !.todo = @ \ cs]]
  BY DEF Erase
<1>3. /\ [NoCallback EXCEPT !.st = "freed"].st = "freed"
      /\ [NoCallback EXCEPT !.st = "freed"] \in
           [st : {"none", "live", "freed"}, det : Detours \cup {None},
            post : BOOLEAN, enabled : BOOLEAN, owner : Plugins \cup {None}]
  BY DEF NoCallback
<1>4. \A c \in Callbacks : /\ c \in cs => cb'[c].st = "freed"
                           /\ c \notin cs => cb'[c] = cb[c]
  BY <1>2, <1>3
<1>5. cb' \in [Callbacks -> [st : {"none", "live", "freed"}, det : Detours \cup {None},
                             post : BOOLEAN, enabled : BOOLEAN, owner : Plugins \cup {None}]]
  BY <1>1, <1>2, <1>3
<1>6. /\ stack \in Seq(Frames) /\ DOMAIN stack = 1..Len(stack)
      /\ \A k \in 1..Len(stack) : stack[k] \in Frames /\ FrameFits(stack[k])
  BY TypeParts
<1>7. ASSUME NEW k \in 1..Len(stack)
      PROVE  /\ stack'[k] \in Frames /\ stack'[k].todo = stack[k].todo \ cs
             /\ stack'[k].kind = stack[k].kind /\ stack'[k].of = stack[k].of
             /\ stack'[k].phase = stack[k].phase /\ stack'[k].cur = stack[k].cur
             /\ stack'[k].due = stack[k].due
  <2> DEFINE left == stack[k].todo \ cs
  <2>1. left \in SUBSET Callbacks
    BY <1>6 DEF Frames
  <2>2. stack'[k] = [stack[k] EXCEPT !.todo = left]
    BY <1>2, <1>6
  <2>3. left = stack[k].todo \ cs
    OBVIOUS
  <2> HIDE DEF left
  <2>4. /\ stack'[k] \in Frames /\ stack'[k].todo = left
        /\ stack'[k].kind = stack[k].kind /\ stack'[k].of = stack[k].of
        /\ stack'[k].phase = stack[k].phase /\ stack'[k].cur = stack[k].cur
        /\ stack'[k].due = stack[k].due
    BY <1>6, <2>1, <2>2 DEF Frames
  <2> QED
    BY <2>3, <2>4
<1>8. stack' \in Seq(Frames) /\ Len(stack') = Len(stack)
  <2> DEFINE g == [k \in DOMAIN stack |-> [stack[k] EXCEPT !.todo = @ \ cs]]
  <2>1. stack' = g /\ DOMAIN g = DOMAIN stack /\ g = [k \in DOMAIN stack |-> g[k]]
    BY <1>2
  <2> HIDE DEF g
  <2> QED
    BY <1>6, <1>7, <2>1, Mapped
<1>9. ASSUME NEW k \in 1..Len(stack)
      PROVE  /\ stack'[k].phase \notin {"pre", "post"} => stack'[k].todo = {}
             /\ \A c \in stack'[k].todo : cb'[c].st = "live" /\ cb'[c].det = stack[k].of
  <2>1. FrameFits(stack[k]) /\ stack[k].todo \subseteq Callbacks
    BY <1>6 DEF Frames
  <2> QED
    BY <1>4, <1>7, <2>1 DEF FrameFits
<1>10. Keeps
  BY <1>7, <1>8, <1>9 DEF Keeps
<1>11. \A d \in Detours :
         HasNext(d) <=> \E c \in Callbacks \ cs : cb[c].st = "live" /\ cb[c].det = d
  BY <1>4 DEF HasNext
<1> QED
  BY <1>4, <1>5, <1>10, <1>11

\* Callbacks are freed, and the detours they leave without any go to sleep.
LEMMA FreeStep ==
  ASSUME DInv, InScript \/ InGame, NEW cs \in SUBSET Callbacks, \A c \in cs : cb[c].st = "live",
         Erase(cs), Sleep(Sleepers(cs)), UNCHANGED <<sargs, overlap, touched>>
  PROVE  DInv'
<1> DEFINE ds == Sleepers(cs)
<1>1. BytesType /\ Bytes /\ Stirred
  BY TypeParts, Outside
<1>2. ds \in SUBSET Detours
  BY DEF Sleepers, DInv, CallbacksFit
<1>3. \A d \in Detours : d \in ds <=> Has(d) /\ ~\E c \in Callbacks \ cs : cb[c].st = "live" /\ cb[c].det = d
  <2> SUFFICES ASSUME NEW d \in Detours
               PROVE  d \in ds <=> Has(d) /\ ~\E c \in Callbacks \ cs : cb[c].st = "live" /\ cb[c].det = d
    OBVIOUS
  <2>1. \A c \in Callbacks : c \in Hooked(d, FALSE) \cup Hooked(d, TRUE) <=> cb[c].st = "live" /\ cb[c].det = d
    <3>1. \A c \in Callbacks : cb[c].post \in BOOLEAN
      BY DEF DInv, TypeOK
    <3> QED
      BY <3>1 DEF Hooked
  <2>2. Hooked(d, FALSE) \cup Hooked(d, TRUE) \subseteq Callbacks
    BY DEF Hooked
  <2>3. d \in ds <=> (\E c \in cs : cb[c].det = d) /\ Hooked(d, FALSE) \cup Hooked(d, TRUE) \subseteq cs
    BY DEF Sleepers
  <2> QED
    BY <2>1, <2>2, <2>3 DEF Has
<1>4. Sleep(ds) /\ stirred' = {d \in stirred : d \notin ds} \cup {d \in ds : Scoped(d) # {}}
  BY DEF Sleep
<1> HIDE DEF ds
<1>5. /\ BytesType' /\ Bytes'
      /\ \A d \in Detours : det'[d] = IF d \in ds THEN [det[d] EXCEPT !.enabled = FALSE] ELSE det[d]
  BY <1>1, <1>2, <1>4, SleepBytes
<1>6. \A d \in Detours : /\ det'[d].st = det[d].st
                         /\ d \in ds => ~det'[d].enabled
                         /\ d \notin ds => det'[d].enabled = det[d].enabled
  BY <1>1, <1>5 DEF BytesType
<1>7. /\ Keeps
      /\ \A c \in Callbacks : /\ c \in cs => cb'[c].st = "freed"
                              /\ c \notin cs => cb'[c] = cb[c]
      /\ cb' \in [Callbacks -> [st : {"none", "live", "freed"}, det : Detours \cup {None},
                                post : BOOLEAN, enabled : BOOLEAN, owner : Plugins \cup {None}]]
      /\ \A d \in Detours : HasNext(d) <=> \E c \in Callbacks \ cs : cb[c].st = "live" /\ cb[c].det = d
  BY EraseKeeps
<1>8. Ages
  <2>1. \A c \in Callbacks :
          cb[c].st # "none" => /\ cb'[c].st # "none"
                               /\ cb'[c].st = "live" => cb[c].st = "live" /\ cb'[c].det = cb[c].det
    BY <1>7
  <2> QED
    BY <1>6, <2>1 DEF Ages
<1>9. /\ \A k \in 1..Len(stack') : NextFits(stack'[k])
      /\ \A k \in 1..Len(stack') :
           k < Len(stack') /\ stack'[k].phase \in {"pre", "post"} => stack'[k].cur # None
      /\ \A d \in Detours : Unscoped(d)' <=> Unscoped(d)
      /\ \A k \in 1..Len(stack) : WillEnable(stack'[k]) <=> WillEnable(stack[k])
      /\ stack' \in Seq(Frames) /\ Len(stack') <= MaxDepth
  BY <1>7, <1>8, Kept
<1>10. ASSUME NEW k \in 1..Len(stack') PROVE NextStirred(stack'[k])
  <2>1. k \in 1..Len(stack) /\ stack'[k].of = stack[k].of
    BY <1>7 DEF Keeps
  <2> DEFINE d == stack[k].of
  <2> SUFFICES ASSUME WillEnable(stack[k]), det'[d].st = "live", ~HasNext(d)
               PROVE  d \in stirred'
    BY <1>9, <2>1 DEF NextStirred
  <2>2. d \in Detours /\ Live(d)
    <3>1. FrameFits(stack[k])
      BY <2>1, TypeParts
    <3>2. d \in Detours
      BY <3>1 DEF FrameFits, WillEnable
    <3> QED
      BY <1>6, <3>2 DEF Live
  <2>3. CASE Has(d)
    <3>1. d \in ds
      BY <1>3, <1>7, <2>2, <2>3
    <3>2. stack[k].phase \in {"jump", "original"}
      BY <2>1, Outside DEF WillEnable
    <3>3. k \in Scoped(d)
      BY <2>1, <3>2 DEF Scoped
    <3> QED
      BY <1>4, <3>1, <3>3
  <2>4. CASE ~Has(d)
    <3>1. d \in stirred
      BY <1>1, <2>1, <2>2, <2>4 DEF Stirred, StirredFor
    <3>2. d \notin ds
      BY <1>3, <2>2, <2>4
    <3> QED
      BY <1>4, <3>1, <3>2
  <2> QED
    BY <2>3, <2>4
<1>11. ASSUME NEW d \in Detours, det'[d].st = "live"
       PROVE  /\ ~HasNext(d) /\ det'[d].enabled => d \in stirred'
              /\ HasNext(d) /\ Unscoped(d)' => det'[d].enabled
  <2>1. Live(d)
    BY <1>6, <1>11 DEF Live
  <2>2. HasNext(d) => Has(d) /\ d \notin ds
    BY <1>3, <1>7 DEF Has
  <2>3. ~HasNext(d) /\ d \notin ds => ~Has(d)
    BY <1>3, <1>7
  <2>4. ~Has(d) /\ det[d].enabled => d \in stirred
    BY <2>1 DEF DInv, Armed
  <2>5. Has(d) /\ Unscoped(d) => det[d].enabled
    BY <2>1 DEF DInv, Armed
  <2> QED
    BY <1>4, <1>6, <1>9, <2>2, <2>3, <2>4, <2>5
<1>12. \A c \in Callbacks :
           cb'[c].st = "live" => cb'[c].det \in Detours /\ det'[cb'[c].det].st = "live"
  <2>1. \A c \in Callbacks : cb[c].st = "live" => cb[c].det \in Detours /\ det[cb[c].det].st = "live"
    BY DEF DInv, CallbacksFit
  <2> QED
    BY <1>6, <1>7, <2>1
<1>13. /\ sargs' \in 0..MaxDepth /\ stirred' \subseteq Detours /\ touched' \subseteq Detours \cup Callbacks
  BY <1>2, <1>4 DEF DInv, TypeOK
<1> QED
  BY <1>5, <1>7, <1>9, <1>10, <1>11, <1>12, <1>13, NextDInv

\* free() of one callback.
LEMMA FreeCallbackStep == ASSUME DInv, NEW c \in Callbacks, FreeCallback(c) PROVE DInv'
<1>1. {c} \in SUBSET Callbacks
  OBVIOUS
<1> QED
  BY <1>1, FreeStep DEF FreeCallback

\* A plugin is unloaded, and with it all its callbacks are freed.
LEMMA UnloadStep == ASSUME DInv, NEW p \in Plugins, Unload(p) PROVE DInv'
<1> DEFINE cs == {c \in Callbacks : cb[c].st = "live" /\ cb[c].owner = p}
<1>1. cs \in SUBSET Callbacks /\ \A c \in cs : cb[c].st = "live"
  OBVIOUS
<1>2. Erase(cs) /\ Sleep(Sleepers(cs)) /\ UNCHANGED <<sargs, overlap, touched>> /\ (InScript \/ InGame)
  BY DEF Unload
<1> HIDE DEF cs
<1> QED
  BY <1>1, <1>2, FreeStep

\* What the callbacks of the two lists of a detour are.
LEMMA HookedTo ==
  ASSUME DInv, NEW d \in Detours
  PROVE  /\ Hooked(d, FALSE) \cup Hooked(d, TRUE) \in SUBSET Callbacks
         /\ \A c \in Callbacks : c \in Hooked(d, FALSE) \cup Hooked(d, TRUE) <=> cb[c].st = "live" /\ cb[c].det = d
<1>1. \A c \in Callbacks : cb[c].post \in BOOLEAN
  BY DEF DInv, TypeOK
<1> QED
  BY <1>1 DEF Hooked

\* The last owner releases a detour: it is deleted with its callbacks.
LEMMA ReleaseStep == ASSUME DInv, NEW d \in Detours, Release(d) PROVE DInv'
<1> DEFINE owners == det[d].owners \ {Running}
           cs == Hooked(d, FALSE) \cup Hooked(d, TRUE)
<1>0. InScript /\ Live(d) /\ UNCHANGED <<sargs, overlap, stirred, touched>>
  BY DEF Release
<1>1. CASE owners # {}
  <2>1. det' = [det EXCEPT ![d].owners = owners] /\ UNCHANGED <<code, cb, stack>>
    BY <1>1 DEF Release
  <2>2. owners \in SUBSET Plugins
    BY DEF DInv, TypeOK
  <2> HIDE DEF owners
  <2> QED
    BY <1>0, <2>1, <2>2, OwnersStep
<1>2. CASE owners = {}
  <2>1. /\ det' = [det EXCEPT ![d] = [st |-> "dead", enabled |-> FALSE,
                                      old_bytes |-> None, owners |-> {}]]
        /\ code' = Restored(d) /\ Erase(cs)
    BY <1>2 DEF Release
  <2>2. BytesType /\ Bytes /\ Stirred
    BY <1>0, TypeParts, Outside
  <2>3. BytesType' /\ Bytes'
    BY <1>0, <2>1, <2>2, DeadBytes
  <2>4. /\ cs \in SUBSET Callbacks
        /\ \A c \in Callbacks : c \in cs <=> cb[c].st = "live" /\ cb[c].det = d
    BY HookedTo
  <2> HIDE DEF cs
  <2>5. /\ Keeps
        /\ \A c \in Callbacks : /\ c \in cs => cb'[c].st = "freed"
                                /\ c \notin cs => cb'[c] = cb[c]
        /\ cb' \in [Callbacks -> [st : {"none", "live", "freed"}, det : Detours \cup {None},
                                  post : BOOLEAN, enabled : BOOLEAN, owner : Plugins \cup {None}]]
        /\ \A e \in Detours : HasNext(e) <=> \E c \in Callbacks \ cs : cb[c].st = "live" /\ cb[c].det = e
    BY <2>1, <2>4, EraseKeeps
  <2>6. det'[d].st = "dead" /\ \A e \in Detours \ {d} : det'[e] = det[e]
    BY <2>1, <2>2 DEF BytesType
  <2>7. \A e \in Detours \ {d} : HasNext(e) <=> Has(e)
    BY <2>4, <2>5 DEF Has
  <2>8. Ages
    <3>1. \A c \in Callbacks :
            cb[c].st # "none" => /\ cb'[c].st # "none"
                                 /\ cb'[c].st = "live" => cb[c].st = "live" /\ cb'[c].det = cb[c].det
      BY <2>5
    <3> QED
      BY <2>6, <3>1 DEF Ages
  <2>9. /\ \A k \in 1..Len(stack') : NextFits(stack'[k])
        /\ \A k \in 1..Len(stack') :
             k < Len(stack') /\ stack'[k].phase \in {"pre", "post"} => stack'[k].cur # None
        /\ \A e \in Detours : Unscoped(e)' <=> Unscoped(e)
        /\ \A k \in 1..Len(stack) : WillEnable(stack'[k]) <=> WillEnable(stack[k])
        /\ stack' \in Seq(Frames) /\ Len(stack') <= MaxDepth
    BY <2>5, <2>8, Kept
  <2>10. ASSUME NEW k \in 1..Len(stack') PROVE NextStirred(stack'[k])
    <3>1. k \in 1..Len(stack) /\ stack'[k].of = stack[k].of
      BY <2>5 DEF Keeps
    <3> DEFINE e == stack[k].of
    <3> SUFFICES ASSUME WillEnable(stack[k]), det'[e].st = "live", ~HasNext(e)
                 PROVE  e \in stirred'
      BY <2>9, <3>1 DEF NextStirred
    <3>2. FrameFits(stack[k])
      BY <3>1, TypeParts
    <3>3. e \in Detours /\ e # d
      BY <2>6, <3>2 DEF FrameFits, WillEnable
    <3> QED
      BY <1>0, <2>2, <2>6, <2>7, <3>1, <3>3 DEF Stirred, StirredFor, Live
  <2>11. ASSUME NEW e \in Detours, det'[e].st = "live"
         PROVE  /\ ~HasNext(e) /\ det'[e].enabled => e \in stirred'
                /\ HasNext(e) /\ Unscoped(e)' => det'[e].enabled
    <3>1. e # d
      BY <2>6, <2>11
    <3> QED
      BY <1>0, <2>6, <2>7, <2>9, <2>11, <3>1 DEF DInv, Armed, Live
  <2>12. \A c \in Callbacks :
           cb'[c].st = "live" => cb'[c].det \in Detours /\ det'[cb'[c].det].st = "live"
    <3>1. \A c \in Callbacks : cb[c].st = "live" => cb[c].det \in Detours /\ det[cb[c].det].st = "live"
      BY DEF DInv, CallbacksFit
    <3> QED
      BY <2>4, <2>5, <2>6, <3>1
  <2>13. /\ sargs' \in 0..MaxDepth /\ stirred' \subseteq Detours /\ touched' \subseteq Detours \cup Callbacks
    BY <1>0 DEF DInv, TypeOK
  <2> QED
    BY <2>3, <2>5, <2>9, <2>10, <2>11, <2>12, <2>13, NextDInv
<1> QED
  BY <1>1, <1>2

\* A callback is hooked, and its detour enabled if its list was empty.
LEMMA HookStep ==
  ASSUME DInv, NEW d \in Detours, NEW c \in Callbacks, NEW post \in BOOLEAN, Hook(d, c, post)
  PROVE  DInv'
<1> DEFINE new == [st |-> "live", det |-> d, post |-> post, enabled |-> TRUE, owner |-> Running]
<1>1. /\ InScript /\ Live(d) /\ cb[c].st = "none" /\ cb' = [cb EXCEPT ![c] = new]
      /\ UNCHANGED <<sargs, stirred, touched>>
      /\ IF Hooked(d, post) = {} THEN Enable(d) ELSE UNCHANGED <<det, code, overlap>>
  BY DEF Hook
<1>2. PICK left \in [Walking(d, post) -> SUBSET (Hooked(d, post) \cup {c})] :
       stack' = [k \in DOMAIN stack |->
                   IF k \in Walking(d, post)
                   THEN [stack[k] EXCEPT !.todo = left[k], !.grown = TRUE] ELSE stack[k]]
  BY DEF Hook
<1>3. BytesType /\ Bytes /\ Stirred
  BY <1>1, TypeParts, Outside
<1>4. /\ BytesType' /\ Bytes'
      /\ \A e \in Detours : /\ det'[e].st = det[e].st
                            /\ e # d => det'[e] = det[e]
      /\ det'[d].enabled \/ (Has(d) /\ det'[d].enabled = det[d].enabled)
  <2>1. CASE Hooked(d, post) = {}
    <3>1. BytesType' /\ Bytes' /\ det' = [det EXCEPT ![d].enabled = TRUE]
      BY <1>1, <1>3, <2>1, EnableBytes
    <3> QED
      BY <1>3, <3>1 DEF BytesType
  <2>2. CASE Hooked(d, post) # {}
    <3>1. UNCHANGED <<det, code, overlap>>
      BY <1>1, <2>2
    <3>2. BytesType' /\ Bytes'
      BY <1>3, <3>1 DEF BytesType, Bytes
    <3> QED
      BY <2>2, <3>1, <3>2 DEF Hooked, Has
  <2> QED
    BY <2>1, <2>2
<1>5. cb \in [Callbacks -> [st : {"none", "live", "freed"}, det : Detours \cup {None},
                            post : BOOLEAN, enabled : BOOLEAN, owner : Plugins \cup {None}]]
  BY DEF DInv, TypeOK
<1>6. /\ new.st = "live" /\ new.det = d
      /\ new \in [st : {"none", "live", "freed"}, det : Detours \cup {None},
                  post : BOOLEAN, enabled : BOOLEAN, owner : Plugins \cup {None}]
  <2>1. Running \in Plugins \cup {None}
    BY RunningType
  <2> QED
    BY <2>1
<1> HIDE DEF new
<1>7. /\ cb' \in [Callbacks -> [st : {"none", "live", "freed"}, det : Detours \cup {None},
                                post : BOOLEAN, enabled : BOOLEAN, owner : Plugins \cup {None}]]
      /\ cb'[c] = new /\ \A b \in Callbacks \ {c} : cb'[b] = cb[b]
  BY <1>1, <1>5, <1>6
<1>8. Ages
  <2>1. \A b \in Callbacks :
          cb[b].st # "none" => /\ cb'[b].st # "none"
                               /\ cb'[b].st = "live" => cb[b].st = "live" /\ cb'[b].det = cb[b].det
    BY <1>1, <1>7
  <2> QED
    BY <1>4, <2>1 DEF Ages
<1>9. \A e \in Detours : Has(e) => HasNext(e)
  BY <1>1, <1>7 DEF Has, HasNext
<1>10. HasNext(d) /\ \A e \in Detours \ {d} : HasNext(e) => Has(e)
  BY <1>6, <1>7 DEF Has, HasNext
<1>11. Keeps
  <2>1. /\ stack \in Seq(Frames) /\ DOMAIN stack = 1..Len(stack)
        /\ \A k \in 1..Len(stack) : stack[k] \in Frames /\ FrameFits(stack[k])
    BY TypeParts
  <2>2. ASSUME NEW k \in 1..Len(stack)
        PROVE  /\ stack'[k] \in Frames
               /\ stack'[k].kind = stack[k].kind /\ stack'[k].of = stack[k].of
               /\ stack'[k].phase = stack[k].phase /\ stack'[k].cur = stack[k].cur
               /\ stack'[k].due = stack[k].due
               /\ \/ stack'[k].todo = stack[k].todo
                  \/ /\ stack'[k].todo \subseteq Hooked(d, post) \cup {c} /\ stack[k].of = d
                     /\ stack[k].phase \in {"pre", "post"}
    <3>1. CASE k \in Walking(d, post)
      <4> DEFINE l == left[k]
      <4>1. l \in SUBSET Callbacks /\ l \subseteq Hooked(d, post) \cup {c}
        BY <3>1 DEF Hooked
      <4>2. stack'[k] = [stack[k] EXCEPT !.todo = l, !.grown = TRUE]
        BY <1>2, <2>1, <3>1
      <4> HIDE DEF l
      <4>3. stack[k].of = d /\ stack[k].phase \in {"pre", "post"}
        BY <3>1 DEF Walking
      <4> QED
        BY <2>1, <4>1, <4>2, <4>3 DEF Frames
    <3>2. CASE k \notin Walking(d, post)
      <4>1. stack'[k] = stack[k]
        BY <1>2, <2>1, <3>2
      <4> QED
        BY <2>1, <4>1
    <3> QED
      BY <3>1, <3>2
  <2>3. stack' \in Seq(Frames) /\ Len(stack') = Len(stack)
    <3> DEFINE g == [k \in DOMAIN stack |->
                       IF k \in Walking(d, post)
                       THEN [stack[k] EXCEPT !.todo = left[k], !.grown = TRUE] ELSE stack[k]]
    <3>1. stack' = g /\ DOMAIN g = DOMAIN stack /\ g = [k \in DOMAIN stack |-> g[k]]
      BY <1>2
    <3> HIDE DEF g
    <3> QED
      BY <2>1, <2>2, <3>1, Mapped
  <2>4. ASSUME NEW k \in 1..Len(stack)
        PROVE  /\ stack'[k].phase \notin {"pre", "post"} => stack'[k].todo = {}
               /\ \A b \in stack'[k].todo : cb'[b].st = "live" /\ cb'[b].det = stack[k].of
    <3>1. FrameFits(stack[k]) /\ stack[k].todo \subseteq Callbacks
      BY <2>1 DEF Frames
    <3>2. stack'[k].phase \notin {"pre", "post"} => stack'[k].todo = {}
      BY <2>2, <3>1 DEF FrameFits
    <3>3. \A b \in stack[k].todo : cb'[b].st = "live" /\ cb'[b].det = stack[k].of
      BY <1>1, <1>7, <3>1 DEF FrameFits
    <3>4. \A b \in Hooked(d, post) \cup {c} : cb'[b].st = "live" /\ cb'[b].det = d
      BY <1>1, <1>6, <1>7 DEF Hooked
    <3> QED
      BY <2>2, <3>2, <3>3, <3>4
  <2> QED
    BY <2>2, <2>3, <2>4 DEF Keeps
<1>12. /\ \A k \in 1..Len(stack') : NextFits(stack'[k])
       /\ \A k \in 1..Len(stack') :
            k < Len(stack') /\ stack'[k].phase \in {"pre", "post"} => stack'[k].cur # None
       /\ \A e \in Detours : Unscoped(e)' <=> Unscoped(e)
       /\ \A k \in 1..Len(stack) : WillEnable(stack'[k]) <=> WillEnable(stack[k])
       /\ stack' \in Seq(Frames) /\ Len(stack') <= MaxDepth
  BY <1>8, <1>11, Kept
<1>13. ASSUME NEW k \in 1..Len(stack') PROVE NextStirred(stack'[k])
  <2>1. k \in 1..Len(stack) /\ stack'[k].of = stack[k].of
    BY <1>11 DEF Keeps
  <2> DEFINE e == stack[k].of
  <2> SUFFICES ASSUME WillEnable(stack[k]), det'[e].st = "live", ~HasNext(e)
               PROVE  e \in stirred'
    BY <1>12, <2>1 DEF NextStirred
  <2>2. FrameFits(stack[k])
    BY <2>1, TypeParts
  <2>3. e \in Detours
    BY <2>2 DEF FrameFits, WillEnable
  <2> QED
    BY <1>1, <1>3, <1>4, <1>9, <2>1, <2>3 DEF Stirred, StirredFor, Live
<1>14. ASSUME NEW e \in Detours, det'[e].st = "live"
       PROVE  /\ ~HasNext(e) /\ det'[e].enabled => e \in stirred'
              /\ HasNext(e) /\ Unscoped(e)' => det'[e].enabled
  <2>1. Live(e)
    BY <1>4, <1>14 DEF Live
  <2>2. CASE e = d
    BY <1>4, <1>10, <1>12, <2>1, <2>2 DEF DInv, Armed
  <2>3. CASE e # d
    BY <1>1, <1>4, <1>9, <1>10, <1>12, <2>1, <2>3 DEF DInv, Armed
  <2> QED
    BY <2>2, <2>3
<1>15. \A b \in Callbacks :
         cb'[b].st = "live" => cb'[b].det \in Detours /\ det'[cb'[b].det].st = "live"
  <2>1. \A b \in Callbacks : cb[b].st = "live" => cb[b].det \in Detours /\ det[cb[b].det].st = "live"
    BY DEF DInv, CallbacksFit
  <2> QED
    BY <1>1, <1>4, <1>6, <1>7, <2>1 DEF Live
<1>16. sargs' \in 0..MaxDepth /\ stirred' \subseteq Detours /\ touched' \subseteq Detours \cup Callbacks
  BY <1>1 DEF DInv, TypeOK
<1> QED
  BY <1>4, <1>7, <1>12, <1>13, <1>14, <1>15, <1>16, NextDInv

-----------------------------------------------------------------------------
(* Steps that enable or disable the detour of a call *)

\* The detour d is enabled or disabled, and of the frames that are not as they
\* were the caller knows what they are.
LEMMA FlipStep ==
  ASSUME DInv, Stirred, UNCHANGED cb, BytesType', Bytes', NEW d \in Detours,
         \A e \in Detours : det'[e].st = det[e].st /\ (e # d => det'[e] = det[e]),
         stirred \subseteq stirred', stirred' \subseteq Detours,
         touched' \subseteq Detours \cup Callbacks, sargs' \in 0..MaxDepth,
         stack' \in Seq(Frames), Len(stack') <= MaxDepth,
         \A k \in 1..Len(stack') :
           \/ k \in 1..Len(stack) /\ stack'[k] = stack[k]
           \/ NextFits(stack'[k]) /\ NextStirred(stack'[k]),
         \A k \in 1..Len(stack') :
           k < Len(stack') /\ stack'[k].phase \in {"pre", "post"} => stack'[k].cur # None,
         \A e \in Detours \ {d} : Unscoped(e)' => Unscoped(e),
         \/ det'[d].enabled /\ (Live(d) /\ ~Has(d) => d \in stirred)
         \/ ~det'[d].enabled /\ ~Unscoped(d)'
  PROVE  DInv'
<1>1. \A e \in Detours : HasNext(e) <=> Has(e)
  BY DEF Has, HasNext
<1>2. Ages
  BY DEF Ages
<1>3. ASSUME NEW k \in 1..Len(stack) PROVE NextFits(stack[k]) /\ NextStirred(stack[k])
  <2>1. stack[k] \in Frames /\ FrameFits(stack[k])
    BY TypeParts
  <2>2. stack[k].todo \subseteq Callbacks
    BY <2>1 DEF Frames
  <2>3. NextFits(stack[k])
    <3>1. stack[k].phase \notin {"pre", "post"} => stack[k].todo = {}
      BY <2>1 DEF FrameFits
    <3>2. \A c \in stack[k].todo : cb'[c].st = "live" /\ cb'[c].det = stack[k].of
      BY <2>1 DEF FrameFits
    <3> QED
      BY <1>2, <2>1, <3>1, <3>2, Aged
  <2>4. WillEnable(stack[k]) => stack[k].of \in Detours
    BY <2>1 DEF FrameFits, WillEnable
  <2>5. NextStirred(stack[k])
    BY <1>1, <2>4 DEF NextStirred, Stirred, StirredFor, Live
  <2> QED
    BY <2>3, <2>5
<1>4. \A k \in 1..Len(stack') : NextFits(stack'[k]) /\ NextStirred(stack'[k])
  BY <1>3
<1>5. ASSUME NEW e \in Detours, det'[e].st = "live"
      PROVE  /\ ~HasNext(e) /\ det'[e].enabled => e \in stirred'
             /\ HasNext(e) /\ Unscoped(e)' => det'[e].enabled
  <2>1. Live(e)
    BY <1>5 DEF Live
  <2>2. CASE e = d
    BY <1>1, <2>1, <2>2
  <2>3. CASE e # d
    <3>1. det'[e] = det[e] /\ (Unscoped(e)' => Unscoped(e))
      BY <2>3
    <3> QED
      BY <1>1, <2>1, <3>1 DEF DInv, Armed
  <2> QED
    BY <2>2, <2>3
<1>6. \A c \in Callbacks :
        cb'[c].st = "live" => cb'[c].det \in Detours /\ det'[cb'[c].det].st = "live"
  BY DEF DInv, CallbacksFit
<1>7. cb' \in [Callbacks -> [st : {"none", "live", "freed"}, det : Detours \cup {None},
                             post : BOOLEAN, enabled : BOOLEAN, owner : Plugins \cup {None}]]
  BY DEF DInv, TypeOK
<1> QED
  BY <1>4, <1>5, <1>6, <1>7, NextDInv

\* A call from a scope_enable runs the function, or jumps to another detour.
LEMMA Phase == \A d : CallPhase(d) \in {"jump", "original"}
BY DEF CallPhase

\* The flags of the detour, and nothing else of it.
LEMMA Flipped ==
  ASSUME BytesType, NEW d \in Detours, NEW on \in BOOLEAN, det' = [det EXCEPT ![d].enabled = on]
  PROVE  /\ \A e \in Detours : det'[e].st = det[e].st /\ (e # d => det'[e] = det[e])
         /\ det'[d].enabled = on
BY DEF BytesType

\* A script calls the function itself.
LEMMA ScriptCallStep == ASSUME DInv, NEW d \in Detours, ScriptCall(d) PROVE DInv'
<1> DEFINE p == CallPhase(d)
           f == [NoFrame EXCEPT !.kind = "direct", !.of = d, !.phase = p]
<1>1. /\ InScript /\ Live(d) /\ Len(stack) < MaxDepth /\ Disable(d)
      /\ stack' = Append(stack, f) /\ stirred' = stirred \cup {d}
      /\ UNCHANGED <<cb, sargs, overlap, touched>>
  BY DEF ScriptCall
<1>2. p \in {"jump", "original"}
  BY Phase
<1> HIDE DEF p
<1>3. f \in Frames /\ f.kind = "direct" /\ f.of = d /\ f.phase = p /\ f.cur = None
      /\ f.todo = {} /\ f.due = {}
  BY <1>2 DEF NoFrame, Frames, Phases
<1> HIDE DEF f
<1>4. /\ BytesType /\ Bytes /\ Len(stack) \in Nat /\ stack \in Seq(Frames)
      /\ Stirred
      /\ \A k \in 1..Len(stack) : stack[k].phase \in {"pre", "post"} => stack[k].cur # None
  BY <1>1, TypeParts, Outside
<1>5. Pushes(f)
  BY <1>1, <1>3, <1>4, Pushed
<1>6. BytesType' /\ Bytes' /\ det' = [det EXCEPT ![d].enabled = FALSE]
  BY <1>1, <1>4, DisableBytes
<1>7. /\ \A e \in Detours : det'[e].st = det[e].st /\ (e # d => det'[e] = det[e])
      /\ det'[d].enabled = FALSE
  BY <1>4, <1>6, Flipped
<1>8. NextFits(f) /\ NextStirred(f)
  BY <1>1, <1>2, <1>3, <1>7 DEF NextFits, NextStirred, Live
<1>9. \A k \in 1..Len(stack') :
        \/ k \in 1..Len(stack) /\ stack'[k] = stack[k]
        \/ k = Len(stack') /\ stack'[k] = f
  BY <1>4, <1>5 DEF Pushes
<1>10. \A k \in 1..Len(stack') :
           k < Len(stack') /\ stack'[k].phase \in {"pre", "post"} => stack'[k].cur # None
  BY <1>4, <1>9
<1>11. \A e \in Detours \ {d} : Unscoped(e)' => Unscoped(e)
  <2> SUFFICES ASSUME NEW e \in Detours, Unscoped(e)', NEW k \in 1..Len(stack), Runs(stack[k], e)
               PROVE  FALSE
    BY DEF Unscoped
  <2>1. k \in 1..Len(stack') /\ stack'[k] = stack[k]
    BY <1>4, <1>5 DEF Pushes
  <2> QED
    BY <2>1 DEF Unscoped, Runs
<1>12. ~Unscoped(d)'
  <2>1. Len(stack) + 1 \in 1..Len(stack') /\ stack'[Len(stack) + 1] = f
    BY <1>4, <1>5 DEF Pushes
  <2> QED
    BY <1>2, <1>3, <2>1 DEF Unscoped, Runs
<1>13. /\ stack' \in Seq(Frames) /\ Len(stack') <= MaxDepth /\ stirred' \subseteq Detours
       /\ sargs' \in 0..MaxDepth /\ touched' \subseteq Detours \cup Callbacks
  BY <1>1, <1>4, <1>5, ConstAssumption DEF Pushes, DInv, TypeOK
<1>14. stirred \subseteq stirred'
  BY <1>1
<1>15. \A k \in 1..Len(stack') :
           \/ k \in 1..Len(stack) /\ stack'[k] = stack[k]
           \/ NextFits(stack'[k]) /\ NextStirred(stack'[k])
  BY <1>8, <1>9
<1>16. ~det'[d].enabled /\ UNCHANGED cb
  BY <1>1, <1>7
<1> QED
  BY <1>4, <1>6, <1>7, <1>10, <1>11, <1>12, <1>13, <1>14, <1>15, <1>16, FlipStep

\* A call that finds its detour deleted touches it, and nothing else.
LEMMA TouchStep ==
  ASSUME DInv, ~Doomed, UNCHANGED <<code, det, cb, stack, sargs, overlap, stirred>>,
         touched' \subseteq Detours \cup Callbacks
  PROVE  DInv'
<1>1. \A d \in Detours : Unscoped(d)' => Unscoped(d)
  BY DEF Unscoped, Runs
<1>2. stack' \in Seq(Frames) /\ Len(stack') <= MaxDepth /\ sargs' \in 0..MaxDepth
  BY DEF DInv, TypeOK
<1>3. \A k \in 1..Len(stack') : FrameFits(stack'[k]) /\ StirredFor(stack'[k])
  BY DEF DInv, StackFits, Stirred
<1>4. \A k \in 1..Len(stack') :
        k < Len(stack') /\ stack'[k].phase \in {"pre", "post"} => stack'[k].cur # None
  BY DEF DInv, StackFits
<1> QED
  BY <1>1, <1>2, <1>3, <1>4, StackStep

\* The function that a script called returns.
LEMMA ScriptCallReturnsStep == ASSUME DInv, ScriptCallReturns PROVE DInv'
<1> DEFINE d == Top.of
<1>1. /\ stack # <<>> /\ Top.kind = "direct" /\ Top.phase = "original"
      /\ UNCHANGED <<cb, sargs, stirred>>
  BY DEF ScriptCallReturns
<1>2. /\ BytesType /\ Bytes /\ Len(stack) \in Nat /\ stack \in Seq(Frames)
      /\ Len(stack) > 0 /\ Len(stack) \in 1..Len(stack) /\ Top = stack[Len(stack)]
      /\ Top \in Frames /\ FrameFits(Top) /\ Len(stack) <= MaxDepth
  BY <1>1, TypeParts
<1>3. d \in Detours /\ ~Doomed
  BY <1>1, <1>2 DEF FrameFits, Doomed
<1>4. CASE ~Live(d)
  <2>1. touched' = touched \cup {d} /\ UNCHANGED <<det, code, stack, overlap>>
    BY <1>4 DEF ScriptCallReturns
  <2>2. touched' \subseteq Detours \cup Callbacks
    BY <1>3, <2>1 DEF DInv, TypeOK
  <2> QED
    BY <1>1, <1>3, <2>1, <2>2, TouchStep
<1>5. CASE Live(d)
  <2>1. Enable(d) /\ stack' = Pop /\ UNCHANGED touched
    BY <1>5 DEF ScriptCallReturns
  <2>2. Stirred
    BY <1>3 DEF DInv
  <2>3. Live(d) /\ ~Has(d) => d \in stirred
    BY <1>1, <1>2, <2>2 DEF Stirred, StirredFor, WillEnable
  <2>4. Pops
    BY <1>1, <1>2, <2>1, Popped
  <2> HIDE DEF d
  <2>5. BytesType' /\ Bytes' /\ det' = [det EXCEPT ![d].enabled = TRUE]
    BY <1>2, <1>3, <1>5, <2>1, EnableBytes
  <2>6. /\ \A e \in Detours : det'[e].st = det[e].st /\ (e # d => det'[e] = det[e])
        /\ det'[d].enabled = TRUE
    BY <1>2, <1>3, <2>5, Flipped
  <2>7. /\ stack' \in Seq(Frames) /\ Len(stack') = Len(stack) - 1 /\ Len(stack') <= MaxDepth
        /\ \A k \in 1..Len(stack') : k \in 1..Len(stack) /\ k < Len(stack) /\ stack'[k] = stack[k]
    BY <1>2, <2>4, ConstAssumption DEF Pops
  <2>8. \A k \in 1..Len(stack') :
           k < Len(stack') /\ stack'[k].phase \in {"pre", "post"} => stack'[k].cur # None
    BY <2>7 DEF DInv, StackFits
  <2>9. \A e \in Detours \ {d} : Unscoped(e)' => Unscoped(e)
    <3> SUFFICES ASSUME NEW e \in Detours \ {d}, Unscoped(e)', NEW k \in 1..Len(stack), Runs(stack[k], e)
                 PROVE  FALSE
      BY DEF Unscoped
    <3>1. k # Len(stack)
      BY <1>2 DEF Runs, d
    <3>2. k \in 1..Len(stack') /\ stack'[k] = stack[k]
      BY <1>2, <2>7, <3>1
    <3> QED
      BY <3>2 DEF Unscoped, Runs
  <2>10. /\ stirred \subseteq stirred' /\ stirred' \subseteq Detours
         /\ sargs' \in 0..MaxDepth /\ touched' \subseteq Detours \cup Callbacks
    BY <1>1, <2>1 DEF DInv, TypeOK
  <2>11. \A k \in 1..Len(stack') :
           \/ k \in 1..Len(stack) /\ stack'[k] = stack[k]
           \/ NextFits(stack'[k]) /\ NextStirred(stack'[k])
    BY <2>7
  <2>12. det'[d].enabled /\ UNCHANGED cb
    BY <1>1, <2>6
  <2> QED
    BY <1>3, <2>2, <2>3, <2>5, <2>6, <2>7, <2>8, <2>9, <2>10, <2>11, <2>12, FlipStep
<1> QED
  BY <1>4, <1>5

\* The function of a hooked call returns, and the post callbacks are next.
LEMMA OriginalReturnsStep == ASSUME DInv, OriginalReturns PROVE DInv'
<1> DEFINE d == Top.of
           b == (Top.foreign \/ Foreign)
           g == [Top EXCEPT !.foreign = b]
           f == Walk(g, "post")
<1>1. /\ stack # <<>> /\ Top.kind = "hook" /\ Top.phase = "original"
      /\ UNCHANGED <<cb, sargs, stirred>>
  BY DEF OriginalReturns
<1>2. /\ BytesType /\ Bytes /\ Len(stack) \in Nat /\ stack \in Seq(Frames)
      /\ Len(stack) > 0 /\ Len(stack) \in 1..Len(stack) /\ Top = stack[Len(stack)]
      /\ Top \in Frames /\ FrameFits(Top) /\ Len(stack) <= MaxDepth
  BY <1>1, TypeParts
<1>3. d \in Detours /\ ~Doomed /\ Top.cur = None /\ det[d].st # "none"
  BY <1>1, <1>2 DEF FrameFits, Doomed
<1>4. CASE ~Live(d)
  <2>1. touched' = touched \cup {d} /\ UNCHANGED <<det, code, stack, overlap>>
    BY <1>4 DEF OriginalReturns
  <2>2. touched' \subseteq Detours \cup Callbacks
    BY <1>3, <2>1 DEF DInv, TypeOK
  <2> QED
    BY <1>1, <1>3, <2>1, <2>2, TouchStep
<1>5. CASE Live(d)
  <2>1. Enable(d) /\ stack' = SetTop(f) /\ UNCHANGED touched
    BY <1>5 DEF OriginalReturns
  <2>2. Stirred
    BY <1>3 DEF DInv
  <2>3. Live(d) /\ ~Has(d) => d \in stirred
    BY <1>1, <1>2, <2>2 DEF Stirred, StirredFor, WillEnable
  <2>4. g \in Frames /\ g.kind = "hook" /\ g.of = d /\ g.cur = None
    <3>1. b \in BOOLEAN
      BY <1>2 DEF Frames, Foreign
    <3> HIDE DEF b
    <3> QED
      BY <1>1, <1>2, <1>3, <3>1 DEF Frames
  <2> HIDE DEF g
  <2>5. f \in Frames /\ f.phase = "post" /\ f.of = d /\ FrameFits(f) /\ f.kind = "hook"
        /\ f.cur = None
    <3>1. /\ f \in Frames /\ f.phase = "post" /\ f.of = g.of /\ f.kind = "hook" /\ f.cur = g.cur
          /\ det[g.of].st # "none" /\ g.cur = None => FrameFits(f)
      BY <1>3, <2>4, WalkFits
    <3> QED
      BY <1>3, <2>4, <3>1
  <2> HIDE DEF f
  <2>6. SetsTop(f)
    BY <1>1, <1>2, <2>1, <2>5, TopSet
  <2> HIDE DEF d
  <2>7. BytesType' /\ Bytes' /\ det' = [det EXCEPT ![d].enabled = TRUE]
    BY <1>2, <1>3, <1>5, <2>1, EnableBytes
  <2>8. /\ \A e \in Detours : det'[e].st = det[e].st /\ (e # d => det'[e] = det[e])
        /\ det'[d].enabled = TRUE
    BY <1>2, <1>3, <2>7, Flipped
  <2>9. /\ stack' \in Seq(Frames) /\ Len(stack') = Len(stack) /\ Len(stack') <= MaxDepth
        /\ \A k \in 1..Len(stack) : stack'[k] = IF k = Len(stack) THEN f ELSE stack[k]
    BY <1>2, <2>6 DEF SetsTop
  <2>10. \A k \in 1..Len(stack') :
           k < Len(stack') /\ stack'[k].phase \in {"pre", "post"} => stack'[k].cur # None
    BY <1>2, <2>9 DEF DInv, StackFits
  <2>11. \A e \in Detours \ {d} : Unscoped(e)' => Unscoped(e)
    <3> SUFFICES ASSUME NEW e \in Detours \ {d}, Unscoped(e)', NEW k \in 1..Len(stack), Runs(stack[k], e)
                 PROVE  FALSE
      BY DEF Unscoped
    <3>1. k # Len(stack)
      BY <1>2 DEF Runs, d
    <3>2. k \in 1..Len(stack') /\ stack'[k] = stack[k]
      BY <1>2, <2>9, <3>1
    <3> QED
      BY <3>2 DEF Unscoped, Runs
  <2>12. /\ stirred \subseteq stirred' /\ stirred' \subseteq Detours
         /\ sargs' \in 0..MaxDepth /\ touched' \subseteq Detours \cup Callbacks
    BY <1>1, <2>1 DEF DInv, TypeOK
  <2>13. NextFits(f) /\ NextStirred(f)
    <3>1. det'[d].st # "none"
      BY <1>3, <2>8
    <3>2. cb' = cb
      BY <1>1
    <3>3. NextFits(f)
      BY <1>3, <2>5, <3>1, <3>2 DEF FrameFits, NextFits
    <3> QED
      BY <2>5, <3>3 DEF NextStirred, WillEnable
  <2>14. \A k \in 1..Len(stack') :
           \/ k \in 1..Len(stack) /\ stack'[k] = stack[k]
           \/ NextFits(stack'[k]) /\ NextStirred(stack'[k])
    BY <2>9, <2>13
  <2>15. det'[d].enabled /\ UNCHANGED cb
    BY <1>1, <2>8
  <2> QED
    BY <1>3, <2>2, <2>3, <2>7, <2>8, <2>9, <2>10, <2>11, <2>12, <2>14, <2>15, FlipStep
<1> QED
  BY <1>4, <1>5

\* A doomed call calls the function, and finds itself there.
LEMMA DoomedCall ==
  ASSUME DInv, Doomed, Top.phase = "pre", Disable(Top.of)
  PROVE  /\ UNCHANGED <<det, code>> /\ CallPhase(Top.of) = "jump"
<1> DEFINE d == Top.of
<1>1. d \in Detours
  BY TypeParts DEF Doomed, FrameFits
<1>2. ~det[d].enabled /\ code[Target(d)] = d
  BY DEF Doomed
<1>3. Restored(d) = code /\ CallPhase(d) = "jump"
  BY <1>1, <1>2, ConstAssumption DEF Restored, CallPhase
<1>4. det' = det
  <2>1. det' = [det EXCEPT ![d].enabled = FALSE]
    BY DEF Disable
  <2>2. BytesType /\ det[d].enabled = FALSE
    <3>1. BytesType
      BY TypeParts
    <3> QED
      BY <1>1, <1>2, <3>1 DEF BytesType
  <2>3. [det[d] EXCEPT !.enabled = FALSE] = det[d]
    BY <1>1, <2>2 DEF BytesType
  <2> QED
    BY <1>1, <2>1, <2>2, <2>3 DEF BytesType
<1> QED
  BY <1>3, <1>4 DEF Disable

\* The pre callbacks have been called, and the function is.
LEMMA CallOriginalStep == ASSUME DInv, CallOriginal PROVE DInv'
<1> DEFINE b == (Foreign /\ "changed" \in Top.flags)
           p == CallPhase(Top.of)
           f == Idle([Top EXCEPT !.foreign = b, !.flags = {}], p)
<1>1. /\ stack # <<>> /\ Top.kind = "hook" /\ Top.phase = "pre" /\ Top.cur = None /\ Top.todo = {}
      /\ stack' = SetTop(f) /\ Disable(Top.of) /\ UNCHANGED <<cb, sargs, overlap, stirred, touched>>
  BY DEF CallOriginal, Walked, WalkingTop
<1>2. /\ BytesType /\ Bytes /\ Len(stack) \in Nat /\ stack \in Seq(Frames)
      /\ Len(stack) > 0 /\ Len(stack) \in 1..Len(stack) /\ Top = stack[Len(stack)]
      /\ Top \in Frames /\ FrameFits(Top) /\ Len(stack) <= MaxDepth
  BY <1>1, TypeParts
<1>3. Top.of \in Detours /\ det[Top.of].st # "none"
  BY <1>1, <1>2 DEF FrameFits
<1>16. PICK d \in Detours : d = Top.of
  BY <1>3
<1>4. p \in {"jump", "original"}
  BY Phase
<1>5. b \in BOOLEAN
  OBVIOUS
<1>6. p = CallPhase(Top.of)
  OBVIOUS
<1> HIDE DEF b, p
<1>7. /\ f \in Frames /\ f.kind = "hook" /\ f.of = d /\ f.phase = p /\ f.cur = None
      /\ f.todo = {} /\ f.due = {} /\ f.flags = {}
  BY <1>16, <1>1, <1>2, <1>4, <1>5 DEF Frames, Phases, Idle
<1> HIDE DEF f
<1>8. SetsTop(f)
  BY <1>1, <1>2, <1>7, TopSet
<1>9. /\ stack' \in Seq(Frames) /\ Len(stack') = Len(stack) /\ Len(stack') <= MaxDepth
      /\ \A k \in 1..Len(stack) : stack'[k] = IF k = Len(stack) THEN f ELSE stack[k]
  BY <1>2, <1>8 DEF SetsTop
<1>10. \A k \in 1..Len(stack') :
           k < Len(stack') /\ stack'[k].phase \in {"pre", "post"} => stack'[k].cur # None
  BY <1>2, <1>9 DEF DInv, StackFits
<1>11. \A e \in Detours \ {d} : Unscoped(e)' => Unscoped(e)
  <2> SUFFICES ASSUME NEW e \in Detours \ {d}, Unscoped(e)', NEW k \in 1..Len(stack), Runs(stack[k], e)
               PROVE  FALSE
    BY DEF Unscoped
  <2>1. k # Len(stack)
    BY <1>2, <1>16 DEF Runs
  <2>2. k \in 1..Len(stack') /\ stack'[k] = stack[k]
    BY <1>2, <1>9, <2>1
  <2> QED
    BY <2>2 DEF Unscoped, Runs
<1>12. ~Unscoped(d)'
  <2>1. Len(stack) \in 1..Len(stack') /\ stack'[Len(stack)] = f
    BY <1>2, <1>9
  <2> QED
    BY <1>4, <1>7, <2>1 DEF Unscoped, Runs
<1>13. /\ stirred \subseteq stirred' /\ stirred' \subseteq Detours
       /\ sargs' \in 0..MaxDepth /\ touched' \subseteq Detours \cup Callbacks
  BY <1>1 DEF DInv, TypeOK
<1>14. CASE Stirred
  <2>1. WillEnable(Top) /\ (Live(d) /\ ~Has(d) => d \in stirred)
    BY <1>1, <1>2, <1>16, <1>14 DEF Stirred, StirredFor, WillEnable
  <2>2. BytesType' /\ Bytes' /\ det' = [det EXCEPT ![d].enabled = FALSE]
    BY <1>1, <1>2, <1>16, DisableBytes
  <2>3. /\ \A e \in Detours : det'[e].st = det[e].st /\ (e # d => det'[e] = det[e])
        /\ det'[d].enabled = FALSE
    BY <1>2, <2>2, Flipped
  <2>4. NextFits(f)
    BY <1>16, <1>3, <1>4, <1>7, <2>3 DEF NextFits
  <2>5. NextStirred(f)
    <3>1. HasNext(d) <=> Has(d)
      BY <1>1 DEF Has, HasNext
    <3> QED
      BY <1>1, <1>3, <1>7, <2>1, <2>3, <3>1 DEF NextStirred, Live
  <2>6. \A k \in 1..Len(stack') :
           \/ k \in 1..Len(stack) /\ stack'[k] = stack[k]
           \/ NextFits(stack'[k]) /\ NextStirred(stack'[k])
    BY <1>9, <2>4, <2>5
  <2>7. ~det'[d].enabled /\ UNCHANGED cb
    BY <1>1, <2>3
  <2> QED
    BY <1>9, <1>10, <1>11, <1>12, <1>13, <1>14, <2>2, <2>3, <2>6, <2>7, FlipStep
<1>15. CASE Doomed
  <2>1. UNCHANGED <<det, code>> /\ p = "jump"
    BY <1>1, <1>6, <1>15, DoomedCall
  <2>2. /\ Live(d) /\ ~Has(d) /\ ~det[d].enabled /\ code[Target(d)] = d
    BY <1>16, <1>15 DEF Doomed
  <2>3. stack'[Len(stack')] = f /\ Len(stack') > 0
    BY <1>2, <1>9
  <2>4. Doomed'
    BY <1>1, <1>7, <1>9, <2>1, <2>2, <2>3, NewDoom
  <2>5. FrameFits(f)
    BY <1>16, <1>3, <1>4, <1>7 DEF FrameFits
  <2>6. \A k \in 1..Len(stack') : FrameFits(stack'[k])
    BY <1>9, <2>5, TypeParts
  <2>7. \A e \in Detours : Has(e) /\ Unscoped(e)' => Unscoped(e)
    BY <1>11, <2>2
  <2> QED
    BY <1>1, <1>9, <1>10, <1>13, <2>1, <2>4, <2>6, <2>7, StackStep
<1> QED
  BY <1>14, <1>15 DEF DInv

-----------------------------------------------------------------------------
(* The invariant *)

\* At first there is nothing.
LEMMA InitDInv == Init => DInv
<1> SUFFICES ASSUME Init PROVE DInv
  OBVIOUS
<1>1. TypeOK
  <2>1. <<>> \in Seq(Frames) /\ Len(<<>>) = 0
    OBVIOUS
  <2> QED
    BY <2>1, ConstAssumption DEF Init, TypeOK, NoCallback
<1>2. StackFits /\ Stirred
  BY DEF Init, StackFits, Stirred
<1>3. CallbacksFit
  BY DEF Init, CallbacksFit, NoCallback
<1>4. Bytes
  BY Targeted DEF Init, Bytes
<1>5. Armed
  BY DEF Init, Armed, Live
<1> QED
  BY <1>1, <1>2, <1>3, <1>4, <1>5 DEF DInv

\* Every step keeps the invariant.
LEMMA StepDInv == DInv /\ [Next]_vars => DInv'
<1> SUFFICES ASSUME DInv, [Next]_vars PROVE DInv'
  OBVIOUS
<1>1. ASSUME NEW p \in Plugins, EnterPlugin(p) \/ Unload(p) PROVE DInv'
  BY <1>1, EnterPluginStep, UnloadStep
<1>2. CASE LeavePlugin
  BY <1>2, LeavePluginStep
<1>3. ASSUME NEW d \in Detours, Create(d) \/ Release(d) \/ ScriptCall(d) PROVE DInv'
  BY <1>3, CreateStep, ReleaseStep, ScriptCallStep
<1>4. ASSUME NEW d \in Detours, NEW c \in Callbacks, NEW post \in BOOLEAN, Hook(d, c, post) PROVE DInv'
  BY <1>4, HookStep
<1>5. ASSUME NEW c \in Callbacks, Toggle(c) \/ FreeCallback(c) \/ CallNext(c) PROVE DInv'
  BY <1>5, ToggleStep, FreeCallbackStep, CallNextStep
<1>6. ASSUME NEW t \in Targets, Invoke(t) PROVE DInv'
  BY <1>6, InvokeStep
<1>7. ASSUME NEW flags \in SUBSET {"changed", "handled"}, CallbackReturns(flags) PROVE DInv'
  BY <1>7, CallbackReturnsStep
<1>8. CASE ScriptCallReturns
  BY <1>8, ScriptCallReturnsStep
<1>9. CASE CallOriginal
  BY <1>9, CallOriginalStep
<1>10. CASE SkipOriginal
  BY <1>10, SkipOriginalStep
<1>11. CASE OriginalReturns
  BY <1>11, OriginalReturnsStep
<1>12. CASE Return
  BY <1>12, ReturnStep
<1>13. CASE UNCHANGED vars
  BY <1>13 DEF vars, DInv, TypeOK, StackFits, FrameFits, CallbacksFit, Bytes, Armed, Doomed, Stirred,
               StirredFor, Has, Live, Unscoped, Runs, Top
<1> QED
  BY <1>1, <1>2, <1>3, <1>4, <1>5, <1>6, <1>7, <1>8, <1>9, <1>10, <1>11, <1>12, <1>13 DEF Next

\* The invariant holds for any functions, detours, callbacks and plugins.
THEOREM DetourInvariance == Spec => []DInv
BY InitDInv, StepDInv, PTL DEF Spec

\* The invariant says what the property does.
LEMMA DInvHooks == DInv => HooksInPlace
<1> SUFFICES ASSUME DInv PROVE HooksInPlace
  OBVIOUS
<1>1. ASSUME NEW d \in Detours, Live(d)
      PROVE  IF Empty(d) THEN det[d].enabled => d \in stirred
             ELSE Scoped(d) = {} =>
                    det[d].enabled /\ (Target(d) \notin overlap => code[Target(d)] = d)
  <2>1. Empty(d) <=> ~Has(d)
    BY HookedTo DEF Empty, Has
  <2>2. Scoped(d) = {} => Unscoped(d)
    BY DEF Scoped, Unscoped, Runs
  <2>3. /\ ~Has(d) /\ det[d].enabled => d \in stirred
        /\ Has(d) /\ Unscoped(d) => det[d].enabled
    BY <1>1 DEF DInv, Armed
  <2>4. Target(d) \notin overlap /\ det[d].enabled => code[Target(d)] = d
    BY DEF DInv, Bytes
  <2> QED
    BY <2>1, <2>2, <2>3, <2>4
<1>2. ASSUME NEW t \in Targets \ overlap
      PROVE  \/ code[t] = None /\ \A d \in Detours : Target(d) = t => ~det[d].enabled
             \/ \E d \in Detours : Target(d) = t /\ Live(d) /\ det[d].enabled /\ code[t] = d
  <2>1. CASE code[t] = None
    <3>1. \A d \in Detours : d # None
      BY ConstAssumption
    <3> QED
      BY <2>1, <3>1 DEF DInv, Bytes
  <2>2. CASE code[t] # None
    <3>1. code[t] \in Detours
      BY <2>2 DEF DInv, TypeOK
    <3>2. Target(code[t]) = t /\ det[code[t]].enabled
      BY <2>2 DEF DInv, Bytes
    <3>3. Live(code[t])
      BY <3>1, <3>2 DEF DInv, Bytes, Live
    <3> QED
      BY <3>1, <3>2, <3>3
  <2> QED
    BY <2>1, <2>2
<1>3. HookedIsArmed
  BY <1>1 DEF HookedIsArmed
<1>4. CodeAgrees
  BY <1>2 DEF CodeAgrees
<1> QED
  BY <1>3, <1>4 DEF DInv, HooksInPlace

\* Hooking, freeing, calling and unloading in any order leave the bytes of the
\* functions, the flags of the detours and their callbacks in agreement
\* (detour::enable, disable, scope_enable, script_hook, callback_instance::free).
THEOREM Hooks == Spec => []HooksInPlace
BY DetourInvariance, DInvHooks, PTL

\* A step touches a deleted object in three places only.
LEMMA StepDead == DInv /\ DeadTouchedOnlyBy /\ [Next]_vars => DeadTouchedOnlyBy'
<1> SUFFICES ASSUME DInv, DeadTouchedOnlyBy, [Next]_vars PROVE DeadTouchedOnlyBy'
  OBVIOUS
<1>1. CASE UNCHANGED vars
  BY <1>1 DEF vars, DeadTouchedOnlyBy
<1>2. CASE touched = {} /\ UNCHANGED touched
  BY <1>2 DEF DeadTouchedOnlyBy
<1>3. CASE Next /\ ~UNCHANGED touched
  <2>0. touched = {}
    BY <1>3 DEF Next
  <2>1. CASE ScriptCallReturns \/ OriginalReturns
    <3>1. touched' = touched \cup {Top.of} /\ stack' = stack /\ stack # <<>> /\ Top.kind # "plugin"
      BY <1>3, <2>1 DEF ScriptCallReturns, OriginalReturns
    <3>2. Top = stack[Len(stack)] /\ Len(stack) \in 1..Len(stack) /\ Top.of \in Detours
      BY <3>1, TypeParts DEF FrameFits
    <3>3. Top.of \in {stack'[k].of : k \in 1..Len(stack')}
      BY <3>1, <3>2
    <3> QED
      BY <2>0, <3>1, <3>2, <3>3 DEF DeadTouchedOnlyBy
  <2>2. ASSUME NEW flags \in SUBSET {"changed", "handled"}, CallbackReturns(flags)
        PROVE  DeadTouchedOnlyBy'
    <3>1. touched' = touched \cup {Top.cur} /\ stack' = stack /\ stack # <<>> /\ Top.cur # None
      BY <1>3, <2>2 DEF CallbackReturns, WalkingTop
    <3>2. Top = stack[Len(stack)] /\ Len(stack) \in 1..Len(stack) /\ Top.cur \in Callbacks
      BY <3>1, TypeParts DEF Frames
    <3>3. \E k \in 1..Len(stack') : stack'[k].cur = Top.cur
      BY <3>1, <3>2
    <3> QED
      BY <2>0, <3>1, <3>2, <3>3 DEF DeadTouchedOnlyBy
  <2>3. ASSUME NEW t \in Targets, Invoke(t)
        PROVE  DeadTouchedOnlyBy'
    <3>1. touched' = touched \cup {code[t]} /\ code[t] # None /\ ~Live(code[t]) /\ overlap' = overlap
      BY <1>3, <2>3 DEF Invoke
    <3>2. code[t] \in Detours /\ Target(code[t]) = t
      BY <3>1 DEF DInv, TypeOK, Bytes
    <3>3. t \in overlap
      BY <3>1, <3>2 DEF DInv, Bytes, Live
    <3> QED
      BY <2>0, <3>1, <3>2, <3>3 DEF DeadTouchedOnlyBy
  <2> QED
    BY <1>3, <2>1, <2>2, <2>3 DEF Next, EnterPlugin, Unload, LeavePlugin, Create, Release, ScriptCall, Hook,
      Toggle, FreeCallback, CallNext, CallOriginal, SkipOriginal, Return
<1> QED
  BY <1>1, <1>2, <1>3 DEF Next

\* A deleted object is used only when a callback is freed while it runs, a detour
\* is deleted while it is being called, or two detours overlap (callable::call,
\* detour_base::call and the closures that jump to it).
THEOREM DeadTouched == Spec => []DeadTouchedOnlyBy
<1>1. Init => DeadTouchedOnlyBy
  BY DEF Init, DeadTouchedOnlyBy
<1> QED
  BY <1>1, StepDead, DetourInvariance, PTL DEF Spec

-----------------------------------------------------------------------------
(* Each callback once, and the arguments of the call *)

\* What CallsAreFaithful says of one frame, with the callbacks of the next state.
NextOnce(f) ==
  f.kind = "hook" /\ f.phase \in {"pre", "post"} /\ ~f.grown =>
    /\ f.todo \cap f.called = {}
    /\ {c \in f.due : cb'[c].st = "live"} \subseteq f.todo \cup f.called
NextOwn(f, k) ==
  f.kind = "hook" => (f.foreign => f.nested) /\ (~f.nested => sargs' = k)

\* A frame that is as it was, but for callbacks that are gone.
Alike(g, f) ==
  /\ g.kind = f.kind /\ g.phase = f.phase /\ g.due = f.due /\ g.called = f.called
  /\ g.foreign = f.foreign /\ g.nested = f.nested
  /\ \/ g.grown
     \/ /\ g.grown = f.grown /\ g.todo \subseteq f.todo
        /\ \A c \in f.todo : cb'[c].st = "live" => c \in g.todo

\* Each frame is either as it was, or known to be right.
LEMMA Faithful ==
  ASSUME DInv, CallsAreFaithful,
         \A c \in Callbacks : cb[c].st # "none" /\ cb'[c].st = "live" => cb[c].st = "live",
         \A k \in 1..Len(stack') :
           \/ k \in 1..Len(stack) /\ Alike(stack'[k], stack[k]) /\ UNCHANGED sargs
           \/ NextOnce(stack'[k]) /\ NextOwn(stack'[k], k)
  PROVE  CallsAreFaithful'
<1>1. ASSUME NEW k \in 1..Len(stack'), k \in 1..Len(stack), Alike(stack'[k], stack[k]), UNCHANGED sargs
      PROVE  NextOnce(stack'[k]) /\ NextOwn(stack'[k], k)
  <2>1. FrameFits(stack[k]) /\ stack[k].due \subseteq Callbacks /\ stack[k].todo \subseteq Callbacks
    <3>1. stack[k] \in Frames /\ FrameFits(stack[k])
      BY <1>1, TypeParts
    <3> QED
      BY <3>1 DEF Frames
  <2>2. \A c \in stack[k].due : cb'[c].st = "live" => cb[c].st = "live"
    BY <2>1 DEF FrameFits
  <2>3. NextOwn(stack'[k], k)
    BY <1>1 DEF NextOwn, Alike, CallsAreFaithful, ArgsAreOwn
  <2>4. NextOnce(stack'[k])
    <3> DEFINE f == stack[k]
               g == stack'[k]
    <3>1. f.kind = "hook" /\ f.phase \in {"pre", "post"} /\ ~f.grown =>
            /\ f.todo \cap f.called = {}
            /\ {c \in f.due : cb[c].st = "live"} \subseteq f.todo \cup f.called
      BY <1>1 DEF CallsAreFaithful, EachCalledOnce
    <3>2. Alike(g, f)
      BY <1>1
    <3> HIDE DEF f, g
    <3>3. \A c \in f.due : cb'[c].st = "live" => cb[c].st = "live"
      BY <2>2 DEF f
    <3>4. NextOnce(g)
      BY <3>1, <3>2, <3>3 DEF NextOnce, Alike
    <3> QED
      BY <3>4 DEF g
  <2> QED
    BY <2>3, <2>4
<1>2. \A k \in 1..Len(stack') : NextOnce(stack'[k]) /\ NextOwn(stack'[k], k)
  BY <1>1
<1>3. EachCalledOnce'
  BY <1>2 DEF EachCalledOnce, NextOnce
<1>4. ArgsAreOwn'
  BY <1>2 DEF ArgsAreOwn, NextOwn
<1> QED
  BY <1>3, <1>4 DEF CallsAreFaithful

\* The stack is as it was.
LEMMA SameFaithful ==
  ASSUME DInv, CallsAreFaithful, UNCHANGED <<stack, sargs>>,
         \A c \in Callbacks : cb[c].st # "none" /\ cb'[c].st = "live" => cb[c].st = "live"
  PROVE  CallsAreFaithful'
<1>1. \A f : Alike(f, f)
  BY DEF Alike
<1> QED
  BY <1>1, Faithful

\* A frame is pushed that is no hooked call.
LEMMA PushFaithful ==
  ASSUME DInv, CallsAreFaithful, UNCHANGED <<cb, sargs>>, NEW f \in Frames, f.kind # "hook",
         stack' = Append(stack, f)
  PROVE  CallsAreFaithful'
<1>1. Pushes(f) /\ Len(stack) \in Nat
  BY TypeParts, Pushed
<1>2. \A g : Alike(g, g)
  BY DEF Alike
<1>3. \A k \in 1..Len(stack') : \/ k \in 1..Len(stack) /\ stack'[k] = stack[k]
                                \/ stack'[k] = f
  BY <1>1 DEF Pushes
<1>4. \A k : NextOnce(f) /\ NextOwn(f, k)
  BY DEF NextOnce, NextOwn
<1> QED
  BY <1>2, <1>3, <1>4, Faithful

\* A frame is popped.
LEMMA PopFaithful ==
  ASSUME DInv, CallsAreFaithful, UNCHANGED <<cb, sargs>>, stack # <<>>, stack' = Pop
  PROVE  CallsAreFaithful'
<1>1. Pops
  BY TypeParts, Popped
<1>2. \A g : Alike(g, g)
  BY DEF Alike
<1>3. \A k \in 1..Len(stack') : k \in 1..Len(stack) /\ stack'[k] = stack[k]
  BY <1>1 DEF Pops
<1> QED
  BY <1>2, <1>3, Faithful

\* The innermost frame goes on.
LEMMA TopFaithful ==
  ASSUME DInv, CallsAreFaithful, UNCHANGED <<cb, sargs>>, stack # <<>>, NEW f \in Frames,
         stack' = SetTop(f), NextOnce(f), NextOwn(f, Len(stack))
  PROVE  CallsAreFaithful'
<1>1. SetsTop(f) /\ Len(stack) \in Nat
  BY TypeParts, TopSet
<1>2. \A g : Alike(g, g)
  BY DEF Alike
<1>3. \A k \in 1..Len(stack') : \/ k \in 1..Len(stack) /\ stack'[k] = stack[k]
                                \/ k = Len(stack) /\ stack'[k] = f
  BY <1>1 DEF SetsTop
<1> QED
  BY <1>2, <1>3, Faithful

\* Callbacks are freed.
LEMMA EraseFaithful ==
  ASSUME DInv, CallsAreFaithful, UNCHANGED sargs, NEW cs \in SUBSET Callbacks, Erase(cs)
  PROVE  CallsAreFaithful'
<1>1. /\ cb' = [c \in Callbacks |-> IF c \in cs THEN [NoCallback EXCEPT !.st = "freed"] ELSE cb[c]]
      /\ stack' = [k \in DOMAIN stack |-> [stack[k] EXCEPT !.todo = @ \ cs]]
      /\ [NoCallback EXCEPT !.st = "freed"].st = "freed"
  BY DEF Erase, NoCallback
<1>2. \A c \in Callbacks : /\ c \in cs => cb'[c].st = "freed"
                           /\ c \notin cs => cb'[c] = cb[c]
  BY <1>1
<1>3. /\ stack \in Seq(Frames) /\ DOMAIN stack = 1..Len(stack) /\ Len(stack) \in Nat
      /\ \A k \in 1..Len(stack) : stack[k] \in Frames
  BY TypeParts
<1>4. Len(stack') = Len(stack)
  <2>1. DOMAIN stack' = 1..Len(stack)
    BY <1>1, <1>3
  <2> DEFINE g == [k \in DOMAIN stack |-> [stack[k] EXCEPT !.todo = @ \ cs]]
  <2>2. stack' = g /\ DOMAIN g = DOMAIN stack /\ g = [k \in DOMAIN stack |-> g[k]]
    BY <1>1
  <2>3. ASSUME NEW k \in DOMAIN stack PROVE g[k] \in Frames
    <3> DEFINE left == stack[k].todo \ cs
    <3>1. left \in SUBSET Callbacks
      BY <1>3 DEF Frames
    <3>2. g[k] = [stack[k] EXCEPT !.todo = left]
      BY <1>3
    <3> HIDE DEF left
    <3> QED
      BY <1>3, <3>1, <3>2 DEF Frames
  <2> HIDE DEF g
  <2> QED
    BY <1>3, <2>2, <2>3, Mapped
<1>5. ASSUME NEW k \in 1..Len(stack) PROVE Alike(stack'[k], stack[k])
  <2> DEFINE left == stack[k].todo \ cs
             g == stack'[k]
             f == stack[k]
  <2>1. g = [f EXCEPT !.todo = left] /\ f \in Frames
    BY <1>1, <1>3
  <2>2. left \subseteq f.todo /\ \A c \in f.todo : cb'[c].st = "live" => c \in left
    <3>1. f.todo \subseteq Callbacks
      BY <2>1 DEF Frames
    <3> QED
      BY <1>2, <3>1
  <2> HIDE DEF left, g, f
  <2>3. /\ g.kind = f.kind /\ g.phase = f.phase /\ g.due = f.due /\ g.called = f.called
        /\ g.foreign = f.foreign /\ g.nested = f.nested /\ g.grown = f.grown /\ g.todo = left
    BY <2>1 DEF Frames
  <2>4. Alike(g, f)
    BY <2>2, <2>3 DEF Alike
  <2> QED
    BY <2>4 DEF g, f
<1>6. \A c \in Callbacks : cb[c].st # "none" /\ cb'[c].st = "live" => cb[c].st = "live"
  BY <1>2
<1> QED
  BY <1>4, <1>5, <1>6, Faithful

\* A callback is hooked: the walks of its list grow.
LEMMA HookFaithful ==
  ASSUME DInv, CallsAreFaithful, NEW d \in Detours, NEW c \in Callbacks, NEW post \in BOOLEAN,
         Hook(d, c, post)
  PROVE  CallsAreFaithful'
<1> DEFINE new == [st |-> "live", det |-> d, post |-> post, enabled |-> TRUE, owner |-> Running]
<1>1. cb[c].st = "none" /\ cb' = [cb EXCEPT ![c] = new] /\ UNCHANGED sargs
  BY DEF Hook
<1>2. PICK left \in [Walking(d, post) -> SUBSET (Hooked(d, post) \cup {c})] :
       stack' = [k \in DOMAIN stack |->
                   IF k \in Walking(d, post)
                   THEN [stack[k] EXCEPT !.todo = left[k], !.grown = TRUE] ELSE stack[k]]
  BY DEF Hook
<1> HIDE DEF new
<1>3. \A b \in Callbacks : cb[b].st # "none" /\ cb'[b].st = "live" => cb[b].st = "live"
  <2>1. \A b \in Callbacks \ {c} : cb'[b] = cb[b]
    BY <1>1 DEF DInv, TypeOK
  <2> QED
    BY <1>1, <2>1
<1>4. /\ stack \in Seq(Frames) /\ DOMAIN stack = 1..Len(stack) /\ Len(stack) \in Nat
      /\ \A k \in 1..Len(stack) : stack[k] \in Frames
  BY TypeParts
<1>5. ASSUME NEW k \in 1..Len(stack) PROVE Alike(stack'[k], stack[k]) /\ stack'[k] \in Frames
  <2>1. CASE k \in Walking(d, post)
    <3> DEFINE l == left[k]
    <3>1. l \in SUBSET Callbacks
      BY <2>1 DEF Hooked
    <3>2. stack'[k] = [stack[k] EXCEPT !.todo = l, !.grown = TRUE]
      BY <1>2, <1>4, <2>1
    <3> HIDE DEF l
    <3> QED
      BY <1>4, <3>1, <3>2 DEF Frames, Alike
  <2>2. CASE k \notin Walking(d, post)
    <3>1. stack'[k] = stack[k]
      BY <1>2, <1>4, <2>2
    <3> QED
      BY <1>4, <3>1 DEF Alike
  <2> QED
    BY <2>1, <2>2
<1>6. Len(stack') = Len(stack)
  <2> DEFINE g == [k \in DOMAIN stack |->
                     IF k \in Walking(d, post)
                     THEN [stack[k] EXCEPT !.todo = left[k], !.grown = TRUE] ELSE stack[k]]
  <2>1. stack' = g /\ DOMAIN g = DOMAIN stack /\ g = [k \in DOMAIN stack |-> g[k]]
    BY <1>2
  <2> HIDE DEF g
  <2> QED
    BY <1>4, <1>5, <2>1, Mapped
<1> QED
  BY <1>1, <1>3, <1>5, <1>6, Faithful

\* A frame that begins a walk has called none of it, and its arguments are its own.
LEMMA WalkOnce ==
  ASSUME DInv, UNCHANGED cb, NEW f \in Frames, f.kind = "hook", f.of \in Detours,
         NEW phase \in {"pre", "post"}
  PROVE  /\ NextOnce(Walk(f, phase))
         /\ \A k : (f.foreign => f.nested) /\ (~f.nested => sargs' = k) => NextOwn(Walk(f, phase), k)
<1> DEFINE w == Walk(f, phase)
<1>1. w \in Frames /\ w.due = w.todo /\ w.called = {} /\ w.nested = f.nested /\ w.foreign = f.foreign
  BY WalkFits
<1> HIDE DEF w
<1>2. NextOnce(w) /\ \A k : (f.foreign => f.nested) /\ (~f.nested => sargs' = k) => NextOwn(w, k)
  BY <1>1 DEF NextOnce, NextOwn
<1> QED
  BY <1>2 DEF w

\* A call fills the vector of arguments; the calls below are nested from then on.
LEMMA InvokeFaithful ==
  ASSUME DInv, CallsAreFaithful, NEW t \in Targets, Invoke(t)
  PROVE  CallsAreFaithful'
<1>0. UNCHANGED cb
  BY DEF Invoke
<1>1. CASE ~Live(code[t])
  <2>1. UNCHANGED <<stack, sargs>>
    BY <1>1 DEF Invoke
  <2> QED
    BY <1>0, <2>1, SameFaithful
<1>2. CASE Live(code[t])
  <2> DEFINE d == code[t]
             f == [NoFrame EXCEPT !.kind = "hook", !.of = d]
             w == Walk(f, "pre")
  <2>1. Invokes(d) /\ sargs' = Len(stack) + 1 /\ d \in Detours /\ Len(stack) \in Nat
    BY <1>2, InvokePushes, TypeParts
  <2>2. f \in Frames /\ f.kind = "hook" /\ f.of = d /\ f.foreign = FALSE
    BY <2>1 DEF NoFrame, Frames, Phases
  <2>3. /\ Len(stack') = Len(stack) + 1 /\ stack'[Len(stack) + 1] = w
        /\ \A k \in 1..Len(stack) :
             stack'[k] = [stack[k] EXCEPT !.nested = TRUE,
                            !.phase = IF @ = "jump" /\ k = Len(stack) THEN "original" ELSE @]
    BY <2>1 DEF Invokes
  <2> HIDE DEF f
  <2>4. NextOnce(w) /\ NextOwn(w, Len(stack) + 1)
    BY <1>0, <2>1, <2>2, WalkOnce
  <2> HIDE DEF w
  <2>5. ASSUME NEW k \in 1..Len(stack) PROVE NextOnce(stack'[k]) /\ NextOwn(stack'[k], k)
    <3> DEFINE h == stack[k]
               g == [stack[k] EXCEPT !.nested = TRUE,
                       !.phase = IF @ = "jump" /\ k = Len(stack) THEN "original" ELSE @]
    <3>1. /\ g.kind = h.kind /\ g.todo = h.todo /\ g.due = h.due /\ g.called = h.called
          /\ g.grown = h.grown /\ g.nested = TRUE
          /\ \/ g.phase = h.phase
             \/ g.phase = "original"
      BY BelowFits
    <3>2. stack'[k] = g
      BY <2>3
    <3>3. h.kind = "hook" /\ h.phase \in {"pre", "post"} /\ ~h.grown =>
            /\ h.todo \cap h.called = {}
            /\ {c \in h.due : cb[c].st = "live"} \subseteq h.todo \cup h.called
      BY DEF CallsAreFaithful, EachCalledOnce
    <3> HIDE DEF g, h
    <3>4. NextOnce(g) /\ NextOwn(g, k)
      BY <1>0, <3>1, <3>3 DEF NextOnce, NextOwn
    <3> QED
      BY <3>2, <3>4
  <2>6. \A k \in 1..Len(stack') : NextOnce(stack'[k]) /\ NextOwn(stack'[k], k)
    <3>1. \A k \in 1..Len(stack') : k \in 1..Len(stack) \/ k = Len(stack) + 1
      <4>1. Len(stack') = Len(stack) + 1 /\ Len(stack) \in Nat
        BY <2>1, <2>3
      <4> QED
        BY <4>1
    <3>2. stack'[Len(stack) + 1] = w
      BY <2>3
    <3> QED
      BY <2>4, <2>5, <3>1, <3>2
  <2> QED
    BY <1>0, <2>6, Faithful
<1> QED
  BY <1>1, <1>2

\* What is known of the innermost frame of a hooked call.
LEMMA TopKnown ==
  ASSUME DInv, CallsAreFaithful, stack # <<>>, Top.kind = "hook"
  PROVE  /\ Top \in Frames /\ Top.of \in Detours /\ Len(stack) \in Nat
         /\ Top.foreign => Top.nested
         /\ ~Top.nested => sargs = Len(stack)
         /\ Top.phase \in {"pre", "post"} /\ ~Top.grown =>
              /\ Top.todo \cap Top.called = {}
              /\ {c \in Top.due : cb[c].st = "live"} \subseteq Top.todo \cup Top.called
<1>1. /\ Len(stack) \in Nat /\ Len(stack) \in 1..Len(stack) /\ Top = stack[Len(stack)]
      /\ Top \in Frames /\ FrameFits(Top)
  BY TypeParts
<1>2. Top.of \in Detours
  BY <1>1 DEF FrameFits
<1>3. /\ Top.foreign => Top.nested
      /\ ~Top.nested => sargs = Len(stack)
  BY <1>1 DEF CallsAreFaithful, ArgsAreOwn
<1>4. Top.phase \in {"pre", "post"} /\ ~Top.grown =>
        /\ Top.todo \cap Top.called = {}
        /\ {c \in Top.due : cb[c].st = "live"} \subseteq Top.todo \cup Top.called
  BY <1>1 DEF CallsAreFaithful, EachCalledOnce
<1> QED
  BY <1>1, <1>2, <1>3, <1>4

\* The callback that is called moves from what is left to what was called.
LEMMA CallNextFaithful ==
  ASSUME DInv, CallsAreFaithful, NEW c \in Callbacks, CallNext(c)
  PROVE  CallsAreFaithful'
<1> DEFINE f == [Top EXCEPT !.todo = @ \ {c}, !.called = @ \cup {c},
                            !.cur = IF cb[c].enabled THEN c ELSE None]
<1>1. /\ stack # <<>> /\ Top.kind = "hook" /\ Top.phase \in {"pre", "post"}
      /\ c \in Top.todo /\ stack' = SetTop(f) /\ UNCHANGED <<cb, sargs>>
  BY DEF CallNext, WalkingTop
<1>2. /\ Top \in Frames /\ Top.foreign => Top.nested
      /\ ~Top.nested => sargs = Len(stack)
      /\ ~Top.grown =>
           /\ Top.todo \cap Top.called = {}
           /\ {b \in Top.due : cb[b].st = "live"} \subseteq Top.todo \cup Top.called
  BY <1>1, TopKnown
<1>3. Top \in Frames
  BY <1>1, TopKnown
<1>4. /\ f \in Frames /\ f.kind = "hook" /\ f.todo = Top.todo \ {c} /\ f.called = Top.called \cup {c}
      /\ f.due = Top.due /\ f.grown = Top.grown /\ f.nested = Top.nested /\ f.foreign = Top.foreign
  BY <1>1, <1>3 DEF Frames
<1> HIDE DEF f
<1>5. NextOnce(f) /\ NextOwn(f, Len(stack))
  BY <1>1, <1>2, <1>3, <1>4 DEF NextOnce, NextOwn
<1> QED
  BY <1>1, <1>4, <1>5, TopFaithful

\* A walk that is halted owes nothing to the callbacks it did not call.
LEMMA CallbackReturnsFaithful ==
  ASSUME DInv, CallsAreFaithful, NEW flags \in SUBSET {"changed", "handled"}, CallbackReturns(flags)
  PROVE  CallsAreFaithful'
<1>1. /\ stack # <<>> /\ Top.kind = "hook" /\ Top.phase \in {"pre", "post"}
      /\ UNCHANGED <<cb, sargs>>
  BY DEF CallbackReturns, WalkingTop
<1>2. CASE cb[Top.cur].st = "live"
  <2>1. PICK on \in BOOLEAN :
          stack' = SetTop([Top EXCEPT !.cur = None, !.flags = @ \cup flags,
                                      !.todo = IF on THEN @ ELSE {},
                                      !.due = IF on THEN @ ELSE {}])
    BY <1>2 DEF CallbackReturns
  <2> DEFINE f == [Top EXCEPT !.cur = None, !.flags = @ \cup flags,
                              !.todo = IF on THEN @ ELSE {}, !.due = IF on THEN @ ELSE {}]
  <2>2. Top \in Frames
    BY <1>1, TopKnown
  <2>3. /\ Top.foreign => Top.nested
        /\ ~Top.nested => sargs = Len(stack)
        /\ ~Top.grown =>
             /\ Top.todo \cap Top.called = {}
             /\ {b \in Top.due : cb[b].st = "live"} \subseteq Top.todo \cup Top.called
    BY <1>1, TopKnown
  <2>4. /\ f \in Frames /\ f.kind = "hook" /\ f.called = Top.called
        /\ f.todo = (IF on THEN Top.todo ELSE {}) /\ f.due = (IF on THEN Top.due ELSE {})
        /\ f.grown = Top.grown /\ f.nested = Top.nested /\ f.foreign = Top.foreign
    BY <1>1, <2>2 DEF Frames
  <2>5. stack' = SetTop(f)
    BY <2>1
  <2> HIDE DEF f
  <2>6. NextOnce(f) /\ NextOwn(f, Len(stack))
    BY <1>1, <2>3, <2>4 DEF NextOnce, NextOwn
  <2> QED
    BY <1>1, <2>4, <2>5, <2>6, TopFaithful
<1>3. CASE cb[Top.cur].st # "live"
  <2>1. UNCHANGED stack
    BY <1>3 DEF CallbackReturns
  <2> QED
    BY <1>1, <2>1, SameFaithful
<1> QED
  BY <1>2, <1>3

\* Arguments that are written back are another call's only if one ran inside.
LEMMA CallOriginalFaithful ==
  ASSUME DInv, CallsAreFaithful, CallOriginal
  PROVE  CallsAreFaithful'
<1> DEFINE b == (Foreign /\ "changed" \in Top.flags)
           p == CallPhase(Top.of)
           f == Idle([Top EXCEPT !.foreign = b, !.flags = {}], p)
<1>1. /\ stack # <<>> /\ Top.kind = "hook" /\ stack' = SetTop(f) /\ UNCHANGED <<cb, sargs>>
  BY DEF CallOriginal, Walked, WalkingTop
<1>2. Top \in Frames /\ p \in {"jump", "original"} /\ b \in BOOLEAN
  BY <1>1, TopKnown, Phase
<1>3. b => sargs # Len(stack)
  BY DEF Foreign
<1>4. ~Top.nested => sargs = Len(stack)
  BY <1>1, TopKnown
<1> HIDE DEF b, p
<1>5. /\ f \in Frames /\ f.kind = "hook" /\ f.phase = p /\ f.nested = Top.nested /\ f.foreign = b
  BY <1>1, <1>2 DEF Frames, Phases, Idle
<1> HIDE DEF f
<1>6. NextOnce(f) /\ NextOwn(f, Len(stack))
  BY <1>1, <1>2, <1>3, <1>4, <1>5 DEF NextOnce, NextOwn
<1> QED
  BY <1>1, <1>5, <1>6, TopFaithful

\* The walk of the post callbacks, with the arguments as they are now.
LEMMA PostFaithful ==
  ASSUME DInv, CallsAreFaithful, UNCHANGED <<cb, sargs>>, stack # <<>>, Top.kind = "hook",
         NEW g \in Frames, g.kind = "hook", g.of = Top.of, g.nested = Top.nested,
         g.foreign => Top.foreign \/ Foreign, stack' = SetTop(Walk(g, "post"))
  PROVE  CallsAreFaithful'
<1>1. /\ Top.of \in Detours /\ (Top.foreign => Top.nested) /\ (~Top.nested => sargs = Len(stack))
  BY TopKnown
<1>2. (g.foreign => g.nested) /\ (~g.nested => sargs' = Len(stack))
  BY <1>1 DEF Foreign
<1> DEFINE w == Walk(g, "post")
<1>3. NextOnce(w) /\ NextOwn(w, Len(stack))
  BY <1>1, <1>2, WalkOnce
<1>4. w \in Frames
  BY <1>1, WalkFits
<1>5. stack' = SetTop(w)
  OBVIOUS
<1> HIDE DEF w
<1> QED
  BY <1>3, <1>4, <1>5, TopFaithful

\* A handled call goes on to its post callbacks.
LEMMA SkipOriginalFaithful == ASSUME DInv, CallsAreFaithful, SkipOriginal PROVE CallsAreFaithful'
<1> DEFINE b == Foreign
           g == [Top EXCEPT !.foreign = b, !.flags = {}]
<1>1. stack # <<>> /\ Top.kind = "hook" /\ stack' = SetTop(Walk(g, "post")) /\ UNCHANGED <<cb, sargs>>
  BY DEF SkipOriginal, Walked, WalkingTop
<1>2. Top \in Frames /\ b \in BOOLEAN
  BY <1>1, TopKnown DEF Foreign
<1>3. b => Foreign
  OBVIOUS
<1> HIDE DEF b
<1>4. g \in Frames /\ g.kind = "hook" /\ g.of = Top.of /\ g.nested = Top.nested /\ g.foreign = b
  BY <1>1, <1>2 DEF Frames
<1> HIDE DEF g
<1> QED
  BY <1>1, <1>3, <1>4, PostFaithful

\* So does one whose function returns.
LEMMA OriginalReturnsFaithful == ASSUME DInv, CallsAreFaithful, OriginalReturns PROVE CallsAreFaithful'
<1>1. stack # <<>> /\ Top.kind = "hook" /\ UNCHANGED <<cb, sargs>>
  BY DEF OriginalReturns
<1>2. CASE ~Live(Top.of)
  <2>1. UNCHANGED stack
    BY <1>2 DEF OriginalReturns
  <2> QED
    BY <1>1, <2>1, SameFaithful
<1>3. CASE Live(Top.of)
  <2> DEFINE b == (Top.foreign \/ Foreign)
             g == [Top EXCEPT !.foreign = b]
  <2>1. stack' = SetTop(Walk(g, "post"))
    BY <1>3 DEF OriginalReturns
  <2>2. Top \in Frames /\ b \in BOOLEAN
    <3>1. Top \in Frames
      BY <1>1, TopKnown
    <3> QED
      BY <3>1 DEF Frames, Foreign
  <2>3. b => Top.foreign \/ Foreign
    OBVIOUS
  <2> HIDE DEF b
  <2>4. g \in Frames /\ g.kind = "hook" /\ g.of = Top.of /\ g.nested = Top.nested /\ g.foreign = b
    BY <1>1, <2>2 DEF Frames
  <2> HIDE DEF g
  <2> QED
    BY <1>1, <2>1, <2>3, <2>4, PostFaithful
<1> QED
  BY <1>2, <1>3

\* Every step of a faithful call is faithful.
LEMMA StepFaithful == DInv /\ CallsAreFaithful /\ [Next]_vars => CallsAreFaithful'
<1> SUFFICES ASSUME DInv, CallsAreFaithful, [Next]_vars PROVE CallsAreFaithful'
  OBVIOUS
<1>1. ASSUME NEW p \in Plugins, EnterPlugin(p) PROVE CallsAreFaithful'
  <2> DEFINE f == [NoFrame EXCEPT !.of = p]
  <2>1. f \in Frames /\ f.kind # "hook"
    BY DEF NoFrame, Frames, Phases
  <2>2. stack' = Append(stack, f) /\ UNCHANGED <<cb, sargs>>
    BY <1>1 DEF EnterPlugin
  <2> HIDE DEF f
  <2> QED
    BY <2>1, <2>2, PushFaithful
<1>2. ASSUME NEW p \in Plugins, Unload(p) PROVE CallsAreFaithful'
  <2> DEFINE cs == {c \in Callbacks : cb[c].st = "live" /\ cb[c].owner = p}
  <2>1. Erase(cs) /\ UNCHANGED sargs /\ cs \in SUBSET Callbacks
    BY <1>2 DEF Unload
  <2> HIDE DEF cs
  <2> QED
    BY <2>1, EraseFaithful
<1>3. CASE LeavePlugin \/ Return
  BY <1>3, PopFaithful DEF LeavePlugin, Return, Walked, WalkingTop
<1>4. ASSUME NEW d \in Detours, Create(d) PROVE CallsAreFaithful'
  BY <1>4, SameFaithful DEF Create
<1>5. ASSUME NEW d \in Detours, Release(d) PROVE CallsAreFaithful'
  <2> DEFINE cs == Hooked(d, FALSE) \cup Hooked(d, TRUE)
  <2>1. cs \in SUBSET Callbacks
    BY HookedTo
  <2>2. UNCHANGED sargs /\ (UNCHANGED <<cb, stack>> \/ Erase(cs))
    BY <1>5 DEF Release
  <2> HIDE DEF cs
  <2> QED
    BY <2>1, <2>2, SameFaithful, EraseFaithful
<1>6. ASSUME NEW d \in Detours, ScriptCall(d) PROVE CallsAreFaithful'
  <2> DEFINE p == CallPhase(d)
             f == [NoFrame EXCEPT !.kind = "direct", !.of = d, !.phase = p]
  <2>1. stack' = Append(stack, f) /\ UNCHANGED <<cb, sargs>>
    BY <1>6 DEF ScriptCall
  <2>2. p \in {"jump", "original"}
    BY Phase
  <2> HIDE DEF p
  <2>3. f \in Frames /\ f.kind # "hook"
    BY <2>2 DEF NoFrame, Frames, Phases
  <2> HIDE DEF f
  <2> QED
    BY <2>1, <2>3, PushFaithful
<1>7. ASSUME NEW d \in Detours, NEW c \in Callbacks, NEW post \in BOOLEAN, Hook(d, c, post)
      PROVE  CallsAreFaithful'
  BY <1>7, HookFaithful
<1>8. ASSUME NEW c \in Callbacks, Toggle(c) PROVE CallsAreFaithful'
  <2>1. cb' = [cb EXCEPT ![c].enabled = ~@] /\ UNCHANGED <<stack, sargs>>
    BY <1>8 DEF Toggle
  <2>2. \A b \in Callbacks : cb'[b].st = cb[b].st
    BY <2>1 DEF DInv, TypeOK
  <2> QED
    BY <2>1, <2>2, SameFaithful
<1>9. ASSUME NEW c \in Callbacks, FreeCallback(c) PROVE CallsAreFaithful'
  <2>1. {c} \in SUBSET Callbacks
    OBVIOUS
  <2> QED
    BY <1>9, <2>1, EraseFaithful DEF FreeCallback
<1>10. CASE ScriptCallReturns
  BY <1>10, SameFaithful, PopFaithful DEF ScriptCallReturns
<1>11. CASE UNCHANGED vars
  BY <1>11, SameFaithful DEF vars
<1>12. CASE CallOriginal
  BY <1>12, CallOriginalFaithful
<1>13. CASE SkipOriginal
  BY <1>13, SkipOriginalFaithful
<1>14. CASE OriginalReturns
  BY <1>14, OriginalReturnsFaithful
<1>15. ASSUME NEW c \in Callbacks, CallNext(c) PROVE CallsAreFaithful'
  BY <1>15, CallNextFaithful
<1>16. ASSUME NEW t \in Targets, Invoke(t) PROVE CallsAreFaithful'
  BY <1>16, InvokeFaithful
<1>17. ASSUME NEW flags \in SUBSET {"changed", "handled"}, CallbackReturns(flags)
       PROVE  CallsAreFaithful'
  BY <1>17, CallbackReturnsFaithful
<1> QED
  BY <1>1, <1>2, <1>3, <1>4, <1>5, <1>6, <1>7, <1>8, <1>9, <1>10, <1>11, <1>12, <1>13, <1>14,
     <1>15, <1>16, <1>17 DEF Next

\* A hooked call calls each callback once, and hands over its own arguments,
\* unless a callback hooks, halts the walk, or makes another hooked call
\* (detour_base::call, callable::call).
THEOREM Faith == Spec => []CallsAreFaithful
<1>1. Init => CallsAreFaithful
  BY DEF Init, CallsAreFaithful, EachCalledOnce, ArgsAreOwn
<1> QED
  BY <1>1, StepFaithful, DetourInvariance, PTL DEF Spec

=============================================================================
