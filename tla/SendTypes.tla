------------------------------ MODULE SendTypes ------------------------------
(***************************************************************************)
(* sendprop::guess_type (bindings/ent/sendtable.cpp): the type of the      *)
(* variable behind a send prop, which the engine does not keep. It follows *)
(* from the flags, the bits and the proxy, and for a proxy that is not     *)
(* known from what the proxy makes of a variable that guess_type gives it. *)
(* Here are an element of an array, which has a prop of its own, and the   *)
(* prop of the array, whose type is that of the prop before it. Left out   *)
(* are the elements of a CUtlVector, whose proxy wraps another.            *)
(***************************************************************************)
EXTENDS Integers

VARIABLES elem,    \* the prop of the element, and what its proxy reads
          known,   \* the symbols of SendProxy_EHandleToInt and SendProxy_Color32ToInt were found
          wrapper, \* the wrappers that were made: their type, and whether elem was hooked then
          hooked,  \* m_ProxyFn of elem is a closure
          fooled,  \* how a callback was called last: no, by the engine, or by a guess
          asked    \* the last answer of type()

typevars == <<elem, known, wrapper, hooked, fooled, asked>>

Unknown == "unknown"  \* a null type

\* The size of what a type describes.
Width == [bool |-> 1, uchar |-> 1, schar |-> 1, ushort |-> 2, sshort |-> 2, uint |-> 4, sint |-> 4,
          color32 |-> 4, ehandle |-> 4, float |-> 4, vector |-> 12, qangle |-> 12, cstr |-> 4]

\* The standard proxies by what they read, and of the game's own SendProxy_Color32ToInt,
\* SendProxy_EHandleToInt, SendProxy_IntAddOne, SendProxy_ShortAddOne and others.
Reads == [UInt8 |-> 1, UInt16 |-> 2, UInt32 |-> 4, Int8 |-> 1, Int16 |-> 2, Int32 |-> 4,
          Color32 |-> 4, EHandle |-> 4, IntAddOne |-> 4, ShortAddOne |-> 2, Own1 |-> 1, Own4 |-> 4]
UnsignedProxies == {"UInt8", "UInt16", "UInt32", "Color32", "EHandle", "Own1", "Own4"}
SignedProxies == {"Int8", "Int16", "Int32", "IntAddOne", "ShortAddOne", "Own1", "Own4"}
EHandleBits == 21

Ints == [type : {"int"}, unsigned : {TRUE}, bits : {1, EHandleBits, 32}, proxy : UnsignedProxies]
        \cup [type : {"int"}, unsigned : {FALSE}, bits : {32}, proxy : SignedProxies]
Others == [type : {"float", "vector", "angles", "string", "int64"}, unsigned : {FALSE}, bits : {32}, proxy : {"Own4"}]

\* The size of the variable behind a prop.
Size(prop) == CASE prop.type = "int" -> Reads[prop.proxy]
                [] prop.type \in {"vector", "angles"} -> 12
                [] prop.type = "int64" -> 8
                [] OTHER -> 4

\* What the probes show of a proxy. A closure does what the callbacks make of it,
\* and SendProxy_IntAddOne reads an int where guess_type has a short.
LooksLikeColor32(fn) == IF fn = "closure" THEN BOOLEAN ELSE {fn = "Color32"}
LooksLikeShort(fn) == IF fn \in {"closure", "IntAddOne"} THEN BOOLEAN ELSE {fn = "ShortAddOne"}

\* The types of an unsigned and of a signed integer.
GuessUnsigned(prop, fn) ==
  CASE fn = "UInt8" -> {IF prop.bits = 1 THEN "bool" ELSE "uchar"}
    [] fn = "UInt16" -> {"ushort"}
    [] fn = "UInt32" -> {"uint"}
    [] fn \in {"EHandle", "Color32"} /\ known -> {IF fn = "EHandle" THEN "ehandle" ELSE "color32"}
    [] prop.bits = 32 /\ (fn \in {"EHandle", "Color32"} => ~known) /\ fn \notin {"UInt8", "UInt16", "UInt32"} ->
         {IF looks THEN "color32" ELSE "uint" : looks \in LooksLikeColor32(fn)}
    [] OTHER -> {IF prop.bits = EHandleBits THEN "ehandle" ELSE "uint"}

GuessSigned(fn) ==
  CASE fn = "Int8" -> {"schar"}
    [] fn = "Int16" -> {"sshort"}
    [] fn = "Int32" -> {"sint"}
    [] OTHER -> {IF looks THEN "sshort" ELSE "sint" : looks \in LooksLikeShort(fn)}

\* guess_type of a prop whose proxy is now fn.
guess_type(prop, fn) ==
  CASE prop.type = "int" -> IF prop.unsigned THEN GuessUnsigned(prop, fn) ELSE GuessSigned(fn)
    [] prop.type = "float" -> {"float"}
    [] prop.type = "vector" -> {"vector"}
    [] prop.type = "angles" -> {"qangle"}    \* a vector between 0 and 360
    [] prop.type = "string" -> {"cstr"}
    [] OTHER -> {Unknown}

\* A guess that tries the proxy calls it.
Tries(prop, fn) ==
  /\ prop.type = "int"
  /\ fn \notin {"UInt8", "UInt16", "UInt32", "Int8", "Int16", "Int32"}
  /\ prop.unsigned => prop.bits = 32 /\ ~(known /\ fn \in {"EHandle", "Color32"})

m_ProxyFn == IF hooked THEN "closure" ELSE elem.proxy

TInit ==
  /\ elem \in Ints \cup Others /\ known \in BOOLEAN
  /\ wrapper = <<>> /\ hooked = FALSE /\ fooled = "no" /\ asked = "nothing"

\* The constructor of a sendprop, when a script looks it up first: for the prop of
\* an array the guess is about the prop before it.
sendprop(p) ==
  /\ p \notin DOMAIN wrapper /\ asked # "crash"
  /\ \E type \in guess_type(elem, m_ProxyFn) :
       wrapper' = [q \in DOMAIN wrapper \cup {p} |->
                     IF q = p THEN [type |-> type, hooked |-> hooked] ELSE wrapper[q]]
  /\ fooled' = IF hooked /\ Tries(elem, m_ProxyFn) THEN "guess" ELSE "no"
  /\ UNCHANGED <<elem, known, hooked, asked>>

\* The first callback of elem comes, or the last one goes: SendProxies.
Hook ==
  /\ "elem" \in DOMAIN wrapper /\ asked # "crash"
  /\ hooked' = ~hooked
  /\ UNCHANGED <<elem, known, wrapper, fooled, asked>>

\* The engine sends the element.
Send ==
  /\ asked # "crash"
  /\ fooled' = IF hooked THEN "engine" ELSE "no"
  /\ UNCHANGED <<elem, known, wrapper, hooked, asked>>

\* script_type: the wrapper keeps what find_type found, and does not look at it.
script_type(p) ==
  /\ p \in DOMAIN wrapper /\ asked # "crash"
  /\ asked' = IF wrapper[p].type = Unknown THEN "crash" ELSE wrapper[p].type
  /\ UNCHANGED <<elem, known, wrapper, hooked, fooled>>

TNext ==
  \/ \E p \in {"elem", "array"} : sendprop(p) \/ script_type(p)
  \/ Hook
  \/ Send

TSpec == TInit /\ [][TNext]_typevars

-----------------------------------------------------------------------------
(* Properties.                                                             *)

\* The type a script is told is as wide as the variable, so that what it reads
\* with it (mem) stays within the variable, except for a narrow variable behind a
\* proxy of the game's own, SendProxy_IntAddOne, and the array whose element is
\* hooked when its wrapper is made. Then, and then only, a guess calls the
\* callbacks of scripts. Only an integer of 64 bits takes the server down.
TypeFits ==
  /\ \A p \in DOMAIN wrapper :
       wrapper[p].type # Unknown /\ Width[wrapper[p].type] # Size(elem) =>
         \/ elem.proxy \in {"Own1", "IntAddOne"}
         \/ p = "array" /\ wrapper[p].hooked
  /\ fooled = "guess" => "array" \in DOMAIN wrapper /\ wrapper["array"].hooked
  /\ asked = "crash" => elem.type = "int64"
=============================================================================
