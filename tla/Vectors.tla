------------------------------- MODULE Vectors -------------------------------
(***************************************************************************)
(* The classes Vector and QAngle that vmod's Squirrel machine gives to     *)
(* scripts (vm/squirrel/vm.cpp): native functions that find `this` and     *)
(* their arguments by their distance from the top of the stack, and write  *)
(* into the C++ object that an instance holds. A distance greater than the *)
(* number of arguments is in the frame of the caller.                      *)
(*                                                                         *)
(* The three coordinates are treated alike, so a vector is one number here *)
(* and arithmetic gives any number; what matters is whose number changes.  *)
(***************************************************************************)
EXTENDS Integers, Sequences, FiniteSets

CONSTANTS Instances,      \* bound: instances alive at once
          MaxRegisters,   \* bound: registers of the calling script
          Coordinates     \* values of a vector: natural numbers, with zero

VARIABLES registers,      \* what the script's function has in its registers
          heap,           \* the instances: their class and value
          last            \* the last native: the instance it is called on or made, the
                          \* ones it wrote, the coordinates a constructor was given

vars == <<registers, heap, last>>

Classes == {"Vector", "QAngle"}
Unset   == -1             \* the memory of an instance before its constructor wrote it
Free    == [class |-> "none", value |-> Unset]
Number  == "number"
ClassObject == "class"    \* what is called is in the register below `this`

Held == {registers[k] : k \in DOMAIN registers} \cap Instances

Is(obj, class) == obj \in Held /\ heap[obj].class = class

\* The machine frees an instance that no register holds; it is free for the next.
Unheld == Instances \ Held

\* sq_gettop is Len(frame); the object at a negative index, below the frame in
\* the registers of the caller, and below those nothing of use.
At(frame, idx) ==
  LET all == registers \o <<ClassObject>> \o frame
      k   == Len(all) + idx + 1
  IN  IF k \in DOMAIN all THEN all[k] ELSE "outside"

Init ==
  /\ registers = <<>>
  /\ heap = [i \in Instances |-> Free]
  /\ last = [on |-> "none", made |-> {}, wrote |-> {}, coordinates |-> 4]

Did(on, made, wrote, n) == last' = [on |-> on, made |-> made, wrote |-> wrote, coordinates |-> n]
Throws(on) == UNCHANGED heap /\ Did(on, {}, {}, 4)

\* A register gets a value; a new one is the next.
Assign(k, v) ==
  /\ k \in 1 .. Len(registers) + 1 /\ k <= MaxRegisters
  /\ registers' = IF k > Len(registers) THEN Append(registers, v) ELSE [registers EXCEPT ![k] = v]

Load(k) == Assign(k, Number) /\ UNCHANGED heap /\ Did("none", {}, {}, 4)

-----------------------------------------------------------------------------
(* Construction.                                                           *)

\* vector3d_ctor looks for `this` four below the top, whatever was given.
ThisIndex(frame) == -4

\* What a constructor of this class writes to: nothing when one of its reads
\* fails, x first (at -3 from the second argument on), then y and z.
CtorTarget(class, frame) ==
  LET this == At(frame, ThisIndex(frame))
  IN  IF \/ Len(frame) > 4
         \/ Len(frame) >= 2 /\ At(frame, -3) # Number
         \/ Len(frame) >= 3 /\ At(frame, -2) # Number
         \/ Len(frame) = 4 /\ At(frame, -1) # Number
         \/ ~(this = frame[1] \/ Is(this, class))
      THEN {} ELSE {this}

\* Vector(...) and QAngle(...): the machine makes the instance and calls the
\* constructor on it; the mask xnnn takes numbers only, and any number of them.
\* When the constructor throws there is no instance.
vector3d_ctor(class, n, k, i, v) ==
  /\ i \in Unheld
  /\ LET frame == <<i>> \o [j \in 1 .. n |-> Number]
         to    == CtorTarget(class, frame)
     IN  IF to = {}
         THEN Throws("none") /\ UNCHANGED registers
         ELSE /\ heap' = [j \in Instances |->
                            CASE j \in to /\ j = i -> [class |-> class, value |-> v]
                              [] j \in to /\ j # i -> [class |-> class, value |-> 0]
                              [] j = i /\ j \notin to -> [class |-> class, value |-> Unset]
                              [] OTHER -> heap[j]]
              /\ Assign(k, i)
              /\ Did(i, {i}, to, n)

\* create_vector3d: the result of an operation as a new instance.
create_vector3d(class, on, k, i, v) ==
  /\ i \in Unheld
  /\ heap' = [heap EXCEPT ![i] = [class |-> class, value |-> v]]
  /\ Assign(k, i)
  /\ Did(on, {i}, {i}, 3)

-----------------------------------------------------------------------------
(* Members, operators and methods, called on the instance in a register;   *)
(* the machine finds the method in its class, so `this` is of that class.  *)

Answers(this) == UNCHANGED <<registers, heap>> /\ Did(this, {}, {}, 4)

\* vector3d_get, vector3d_str and vector3d_typeof
vector3d_get(this) == this \in Held /\ Answers(this)

\* x, y and z of a QAngle, len, len_sqr, len2d and len2d_sqr of a Vector.
vector3d_len(this) == this \in Held /\ Answers(this)

\* vector3d_dot of two Vectors.
vector3d_dot(this, other) ==
  /\ this \in Held /\ Is(this, "Vector")
  /\ IF Is(other, "Vector") THEN Answers(this) ELSE Throws(this) /\ UNCHANGED registers

MutantWritten(this, other) == IF other \in Instances THEN {other} ELSE {this}

\* The instance that an assigning native writes.
Written(this, other) == {this}

\* vector3d_set with a member that exists, vector3d_zero and vector3d_norm
\* write `this`.
vector3d_set(this, v) ==
  /\ this \in Held
  /\ heap' = [heap EXCEPT ![this].value = v]
  /\ Did(this, {}, {this}, 4)
  /\ UNCHANGED registers

\* vector3d_op: the other operand is a number or an instance of the same class.
\* The operators work on a copy, Add, Subtract, Multiply, Scale and Divide on
\* `this`, and return it.
vector3d_op(this, other, assign, k, i, v) ==
  /\ this \in Held
  /\ IF other # Number /\ ~Is(other, heap[this].class)
     THEN Throws(this) /\ UNCHANGED registers
     ELSE IF assign
          THEN /\ heap' = [j \in Instances |-> IF j \in Written(this, other)
                                               THEN [heap[j] EXCEPT !.value = v] ELSE heap[j]]
               /\ Assign(k, this)
               /\ Did(this, {}, Written(this, other), 4)
          ELSE create_vector3d(heap[this].class, this, k, i, v)

\* vector3d_cross of two Vectors.
vector3d_cross(this, other, k, i, v) ==
  /\ this \in Held /\ Is(this, "Vector")
  /\ IF Is(other, "Vector") THEN create_vector3d("Vector", this, k, i, v)
                            ELSE Throws(this) /\ UNCHANGED registers

\* vector3d_ang of a Vector.
vector3d_ang(this, k, i, v) ==
  this \in Held /\ Is(this, "Vector") /\ create_vector3d("QAngle", this, k, i, v)

\* qangle_fwd, qangle_left, qangle_right and qangle_up.
qangle_fwd(this, k, i, v) ==
  this \in Held /\ Is(this, "QAngle") /\ create_vector3d("Vector", this, k, i, v)

\* The functions register_class gives to the two classes.
Methods ==
  \E k \in 1 .. MaxRegisters, i \in Instances, v \in Coordinates :
    \/ \E class \in Classes, n \in 0 .. 4 : vector3d_ctor(class, n, k, i, v)
    \/ \E this \in Instances : vector3d_get(this) \/ vector3d_len(this)
    \/ \E this \in Instances, other \in Held : vector3d_dot(this, other)
    \/ \E this \in Instances : vector3d_set(this, v)
    \/ \E this \in Instances, other \in Held \cup {Number}, assign \in BOOLEAN :
         vector3d_op(this, other, assign, k, i, v)
    \/ \E this \in Instances, other \in Held : vector3d_cross(this, other, k, i, v)
    \/ \E this \in Instances : vector3d_ang(this, k, i, v)
    \/ \E this \in Instances : qangle_fwd(this, k, i, v)

Next == Methods \/ \E k \in 1 .. MaxRegisters : Load(k)

Spec == Init /\ [][Next]_vars

-----------------------------------------------------------------------------
(* Properties.                                                             *)

\* A native writes the instance it is called on or the one it makes, and no other
\* that the script holds, and an instance that a script can see has been
\* written by its constructor; except that the constructor without coordinates
\* finds a vector of the caller where it looks for `this`: it sets that one to
\* zero and leaves the new one with what was in its memory.
OperandsUntouched ==
  /\ last.wrote \subseteq {last.on} \cup last.made \/ last.coordinates = 0
  /\ last.coordinates \in {1, 2} => last.made = {}
  /\ last.coordinates # 0 => \A i \in last.made : heap[i].value # Unset
=============================================================================
