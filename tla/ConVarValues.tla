---------------------------- MODULE ConVarValues -----------------------------
(***************************************************************************)
(* The value of a console variable (gsdk/vstdlib/convar.cpp, the code that *)
(* vmod uses for variables of its own and of the engine alike) as scripts  *)
(* set and read it (bindings/cvar/convar.cpp). It is kept three times, as  *)
(* a text, a float and an int, and what one setter leaves in each of them  *)
(* another getter reads.                                                   *)
(*                                                                         *)
(* A float is the number of its halves: the large numbers whose text has   *)
(* an exponent are among them, fractions so small are not. A variable with *)
(* a parent writes both and reads the parent: one value stands for the two.*)
(***************************************************************************)
EXTENDS Integers, FiniteSets, FiniteSetsExt

CONSTANTS WordBits,    \* bound: of an int
          ExactBits,   \* bound: of the integers that a float holds exactly
          Radix,       \* bound: of a digit, 10
          ExpChars,    \* bound: the characters of an exponent, 4 as in 1e+05
          IntChars,    \* bound: the characters that InternalSetIntValue makes room for
          FloatChars,  \* bound: the same of InternalSetFloatValue
          Words        \* the texts that are no number and no beginning of true or false

IntMin == -(2^(WordBits - 1))
IntMax == 2^(WordBits - 1) - 1
Ints == IntMin .. IntMax

VARIABLES var,   \* the ConVar: its text, m_fValue, m_nValue, limits and flag
          last   \* what was set last, and how

vvars == <<var, last>>

\* Texts: numbers with and without a decimal, numbers with an exponent, the words
\* and their beginnings, and what is left in memory when a number did not fit.
Exp(n) == [kind |-> "exp", n |-> n]
Num(n) == [kind |-> "num", n |-> n]
Dec(halves) == [kind |-> "dec", n |-> halves]
Word(w) == [kind |-> w, n |-> 0]
Garbage == Word("garbage")
Texts == {Num(n) : n \in Ints \cup {2 * IntMin, 2 * IntMax}} \cup {Exp(n) : n \in {-2, 3, 2 * IntMin, 2 * IntMax}}
         \cup {Dec(h) : h \in {-7, -1, 1, 3, 7}} \cup {Word(w) : w \in Words \cup {"", "tr", "true", "fa", "false"}}

-----------------------------------------------------------------------------
(* Conversions.                                                            *)

Abs(n) == IF n < 0 THEN -n ELSE n

\* The distance of the floats around an integer, which for an int of 32 bits is no
\* more than the last of these.
Ulps == {1, 2, 4, 8, 16, 32, 64, 128, 256}
Ulp(n) == CHOOSE u \in Ulps : Abs(n) <= u * 2^ExactBits /\ \A v \in Ulps : v < u => Abs(n) > v * 2^ExactBits

\* The nearest float to an integer, the even one of two.
Nearest(n) ==
  LET ulp == Ulp(n)
      down == (n \div ulp) * ulp
      up == IF down = n THEN n ELSE down + ulp
  IN  IF n - down < up - n THEN down
      ELSE IF n - down > up - n THEN up
      ELSE IF (down \div ulp) % 2 = 0 THEN down ELSE up

FromInt(n) == 2 * Nearest(n)

\* static_cast<int> of a float: the fraction is dropped, and a float that no int
\* holds, which C++ leaves undefined, becomes the least int of the processor's
\* conversion, or what the compiler put in its place.
Truncated(halves) == IF halves >= 0 THEN halves \div 2 ELSE -((-halves) \div 2)
ToInt(halves, undefined) == IF Truncated(halves) \in Ints THEN Truncated(halves) ELSE undefined

Digits(n) == CHOOSE d \in 1 .. WordBits + 2 : Abs(n) < Radix^d /\ (d > 1 => Abs(n) >= Radix^(d - 1))
Sign(n) == IF n < 0 THEN 1 ELSE 0

\* The digits of an integer without the zeros at its end, and its characters with an exponent.
Significant(n) == IF n = 0 THEN 1 ELSE Digits(n) - Cardinality({z \in 1 .. WordBits + 2 : n % Radix^z = 0})
ExpLength(n) == Significant(n) + ExpChars + IF Significant(n) > 1 THEN 1 ELSE 0

\* The integer with the fewest digits of those that read as this float, the nearest of them.
Near(n) == {m \in n - Ulp(n) .. n + Ulp(n) : Nearest(m) = n}
Shortest(n) == {m \in Near(n) : \A k \in Near(n) :
                  \/ Significant(m) < Significant(k)
                  \/ Significant(m) = Significant(k) /\ Abs(m - n) <= Abs(k - n)}

\* std::to_chars: the text, when there is room for it. A float is written with an
\* exponent where that is shorter.
IntText(n) == IF Digits(n) + Sign(n) <= IntChars THEN Num(n) ELSE Garbage
Round(n) == {m \in Shortest(n) : ExpLength(m) < Digits(m)}
FloatText(halves) ==
  LET whole == Truncated(halves)
      round == IF halves % 2 = 0 THEN Round(whole) ELSE {}
      m == CHOOSE k \in round : TRUE
      chars == Sign(halves) + IF round # {} THEN ExpLength(m)
                              ELSE Digits(whole) + IF halves % 2 = 0 THEN 0 ELSE 2
  IN  IF chars > FloatChars THEN Garbage
      ELSE IF round # {} THEN Exp(m)
      ELSE IF halves % 2 = 0 THEN Num(whole) ELSE Dec(halves)

\* The digit of a text with an exponent that comes before its point.
FirstDigit(n) == LET d == Abs(n) \div Radix^(Digits(n) - 1) IN IF n < 0 THEN -d ELSE d

\* std::from_chars, which leaves the number alone when there is none in the text
\* or when it is out of range; that of an int knows no exponents.
ReadFloat(text, before) ==
  CASE text.kind \in {"num", "exp"} -> FromInt(text.n)
    [] text.kind = "dec" -> text.n
    [] OTHER -> before
ReadInt(text, before) ==
  CASE text.kind = "num" /\ text.n \in Ints -> text.n
    [] text.kind = "dec" /\ Truncated(text.n) \in Ints -> Truncated(text.n)
    [] text.kind = "exp" /\ FirstDigit(text.n) \in Ints -> FirstDigit(text.n)
    [] OTHER -> before

-----------------------------------------------------------------------------
(* Setters.                                                                *)

\* ClampValue of a float: in a competitive game a variable without limits of its
\* own for it always has its default.
Clamped(v, halves) ==
  IF v.fixed THEN v.default
  ELSE IF v.limited /\ halves < v.low THEN v.low
  ELSE IF v.limited /\ halves > v.high THEN v.high ELSE halves

\* ClampValue of an int goes through a float and back, clamped or not.
ClampedInt(v, n, undefined) == ToInt(Clamped(v, FromInt(n)), undefined)

\* The text of the variable, unless it never has one.
Kept(v, text) == IF v.never_string THEN Word("") ELSE text

\* InternalSetValue. true and false are 1 and 0; otherwise the numbers are read
\* from the text, over those of before.
SetText(v, text, undefined) ==
  LET f == IF text.kind = "true" THEN 2 ELSE IF text.kind = "false" THEN 0 ELSE ReadFloat(text, v.f)
      n == IF text.kind = "true" THEN 1 ELSE IF text.kind = "false" THEN 0 ELSE ReadInt(text, v.n)
  IN  [v EXCEPT !.text = Kept(v, text), !.f = Clamped(v, f), !.n = ClampedInt(v, n, undefined)]

\* InternalSetFloatValue
SetFloat(v, halves, undefined) ==
  [v EXCEPT !.text = Kept(v, FloatText(halves)), !.f = Clamped(v, halves),
            !.n = ClampedInt(v, ToInt(halves, undefined), undefined)]

\* SetValue(bool)
SetBool(v, b, undefined) ==
  LET n == IF b THEN 1 ELSE 0
  IN  [v EXCEPT !.text = Kept(v, Num(n)), !.f = Clamped(v, 2 * n), !.n = ClampedInt(v, n, undefined)]

\* InternalSetIntValue
SetInt(v, n, undefined) ==
  [v EXCEPT !.text = Kept(v, IntText(n)), !.f = Clamped(v, FromInt(n)), !.n = ClampedInt(v, n, undefined)]

\* A variable as initialize leaves it, or one of the engine, with a value within its limits.
VInit ==
  \E limited, fixed, never_string \in BOOLEAN, high \in {3, 10} :
    /\ var = [text |-> Kept([never_string |-> never_string], Num(1)), f |-> 2, n |-> 1, limited |-> limited,
              low |-> 0, high |-> high, fixed |-> fixed, default |-> 2, never_string |-> never_string]
    /\ last = [how |-> "initialize", text |-> Num(1), n |-> 1, undefined |-> FALSE, clean |-> TRUE]

\* What is remembered of a call: the text that stands for the value, the value,
\* whether a conversion was undefined, and whether the number was all in the text,
\* as an int reads it.
Remember(how, text, n, over) ==
  last' = [how |-> how, text |-> text, n |-> n, undefined |-> over, clean |-> how # "text" \/ text.kind \in {"num", "dec", "true", "false"}]

\* The conversions of an int at the end of the range go out of it.
Overflows(n) == Nearest(n) \notin Ints

\* script_set of a string and script_set_string
script_set_string(text, undefined) ==
  /\ var' = SetText(var, text, undefined)
  /\ Remember("text", text, 0, ~(ReadInt(text, var.n) \in Ints) \/ Overflows(ReadInt(text, var.n)))

\* script_set of an int and script_set_int
script_set_int(n, undefined) ==
  /\ var' = SetInt(var, n, undefined)
  /\ Remember("int", Num(n), n, Overflows(n))

\* script_set of a float and script_set_float
script_set_float(halves, undefined) ==
  /\ var' = SetFloat(var, halves, undefined)
  /\ Remember("float", IF halves % 2 = 0 THEN Num(Truncated(halves)) ELSE Dec(halves), halves,
              Truncated(halves) \notin Ints \/ Overflows(Truncated(halves)))

\* script_set of a bool and script_set_bool
script_set_bool(b, undefined) ==
  /\ var' = SetBool(var, b, undefined)
  /\ Remember("bool", Num(IF b THEN 1 ELSE 0), IF b THEN 1 ELSE 0, FALSE)

VNext ==
  \E undefined \in {IntMin, IntMax} :
    \/ \E text \in Texts : script_set_string(text, undefined)
    \/ \E n \in Ints : script_set_int(n, undefined)
    \/ \E halves \in {FromInt(n) : n \in Ints \cup {2 * IntMin, 2 * IntMax}} \cup {-7, -1, 1, 3, 7} : script_set_float(halves, undefined)
    \/ \E b \in BOOLEAN : script_set_bool(b, undefined)

VSpec == VInit /\ [][VNext]_vvars

-----------------------------------------------------------------------------
(* Getters.                                                                *)

GetInt == <<"int", var.n>>
GetFloat == <<"float", var.f>>
GetBool == <<"bool", var.n > 0>>

\* script_get reads the type off the text: no characters, or the first of true
\* or false, are a boolean, digits an int, digits with a point a float, and
\* everything else, a sign or an exponent for one, a string.
script_get ==
  CASE var.text.kind \in {"", "tr", "true"} -> <<"bool", TRUE>>
    [] var.text.kind \in {"fa", "false"} -> <<"bool", FALSE>>
    [] var.text.kind = "num" /\ var.text.n >= 0 -> GetInt
    [] var.text.kind = "dec" /\ var.text.n >= 0 -> GetFloat
    [] OTHER -> <<"string", var.text>>

-----------------------------------------------------------------------------
(* Properties.                                                             *)

\* The number fits between the limits, and in an int and a float.
Unhindered == ~var.fixed /\ ~last.undefined /\ (var.limited => last.text.kind \notin {"num", "dec"})

\* What a script sets it reads back with script_get. A number without limits is
\* read as the number it was, rounded to a float when it is an int; what does
\* not come back is a negative number, which comes back as a text, as does a float
\* so round that its text has an exponent, a number too long for the room that is
\* made for its text, a boolean, which is an int
\* afterwards, a text that begins true or false or is empty, and anything at all
\* of a variable that never is a string, which is true.
ReadAsSet ==
  LET value == script_get
  IN  CASE var.never_string -> value = <<"bool", TRUE>>
        [] ~var.never_string /\ var.text = Garbage -> last.how \in {"int", "float"}
        [] ~var.never_string /\ var.text.kind = "exp" ->
             /\ value = <<"string", var.text>>
             /\ IF last.how = "float" THEN last.text.kind = "num" /\ Nearest(var.text.n) = last.text.n
                ELSE last.how = "text" /\ var.text = last.text
        [] ~var.never_string /\ var.text # Garbage /\ var.text.kind # "exp" /\ last.text.kind \in {"num", "dec"} ->
             IF last.text.n < 0 THEN value = <<"string", last.text>>
             ELSE /\ value[1] = IF last.text.kind = "num" THEN "int" ELSE "float"
                  /\ Unhindered /\ (last.how = "text" => last.text.n \in Ints) =>
                       value[2] = IF last.text.kind = "num" THEN Nearest(last.text.n) ELSE last.text.n
        [] OTHER -> \/ value = <<"string", last.text>> /\ last.text.kind \in Words
                    \/ value[1] = "bool" /\ last.text.kind \notin Words

\* The two numbers stay within the limits and stand for the same value, whoever
\* set them, once a number is set that an int and a float both hold; a text with
\* a number too large for an int moves one and leaves the other, and of one with
\* an exponent the int takes the first digit for the number.
NumbersAgree ==
  /\ (var.limited /\ ~var.fixed) => var.f >= var.low /\ var.f <= var.high
  /\ last.clean /\ ~last.undefined /\ (last.text.kind = "num" => last.text.n \in Ints) => var.n = Truncated(var.f)

\* A script that sets a variable in one way and reads it in another gets the same
\* value (script_set_string, script_set_int, script_get, ...), with the exceptions
\* that ReadAsSet and NumbersAgree name.
ValueKept == ReadAsSet /\ NumbersAgree
=============================================================================
