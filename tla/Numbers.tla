------------------------------ MODULE Numbers ------------------------------
(***************************************************************************)
(* vstr_is_int and vstr_is_float of core/str.c: one character after the    *)
(* other, in the states of FloatFmts.  Letters are lower case.             *)
(***************************************************************************)
EXTENDS Integers, Sequences, SequencesExt

Signs == {"+", "-"}
Digit == <<"0", "1", "2", "3", "4", "5", "6", "7", "8", "9">>
DecimalDigits == {"0", "1", "2", "3", "4", "5", "6", "7", "8", "9"}
HexNumerals == DecimalDigits \cup {"a", "b", "c", "d", "e", "f"}
NanCharacters == HexNumerals \cup {"i", "n", "p", "t", "x", "y", "_"}

IsInt(s) == \A n \in 1..Len(s) : s[n] \in DecimalDigits \/ (n = 1 /\ s[n] \in Signs)

Unsigned(s) == IF s # <<>> /\ s[1] \in Signs THEN Tail(s) ELSE s

Inf == <<"i", "n", "f">>
Infinity == Inf \o <<"i", "n", "i", "t", "y">>
Nan == <<"n", "a", "n">>

IsInf(s) == Unsigned(s) \in {Inf, Infinity}
IsNan(s) ==
  /\ IsPrefix(Nan, Unsigned(s))
  /\ \A n \in 4..Len(Unsigned(s)) : Unsigned(s)[n] \in NanCharacters

AtStartUnsigned(prev) == prev = "NUL"      \* mutant
AtStart(prev) == prev \in Signs \cup {"NUL"}

\* "undefined" is left by a 0 behind a digit, and by no other digit.
UndefinedStep(prev, c) ==
  CASE c \in Signs -> IF prev = "NUL" THEN "undefined" ELSE "refused"
    [] c = "0" -> IF prev \in DecimalDigits THEN "decimalPre" ELSE "undefined"
    [] c = "x" -> IF prev = "0" THEN "hexPre" ELSE "refused"
    [] c = "i" -> IF AtStart(prev) THEN "inf" ELSE "refused"
    [] c = "n" -> IF AtStart(prev) THEN "nan" ELSE "refused"
    [] OTHER -> "undefined"

\* Which format a character leads to from another, of a decimal or hexadecimal number.
Leads(format, c) ==
  CASE format \in {"decimalPre", "decimalMeso"} /\ c = "e" -> "decimalPost"
    [] format \in {"hexPre", "hexMeso"} /\ c = "p" -> "hexPost"
    [] format = "decimalPre" /\ c = "." -> "decimalMeso"
    [] format = "hexPre" /\ c = "." -> "hexMeso"
    [] OTHER -> format

\* The digits a format goes on with, and the signs right behind the exponent's letter.
GoesOn(format, prev, c) ==
  \/ c \in IF format \in {"hexPre", "hexMeso", "hexPost"} THEN HexNumerals ELSE DecimalDigits
  \/ c \in Signs /\ <<format, prev>> \in {<<"decimalPost", "e">>, <<"hexPost", "p">>}

FloatStep(format, prev, c) ==
  IF format = "undefined" THEN UndefinedStep(prev, c)
  ELSE IF Leads(format, c) # format THEN Leads(format, c)
  ELSE IF GoesOn(format, prev, c) THEN format
  ELSE "refused"

\* "inf" and "nan" are decided, for all of the text, at the character behind their first.
FloatFormat(s) ==
  LET format[n \in 0..Len(s)] ==
        IF n = 0 THEN "undefined"
        ELSE LET before == format[n - 1]
             IN  IF before \in {"inf", "nan"}
                 THEN IF IsInf(s) \/ IsNan(s) THEN before ELSE "refused"
                 ELSE FloatStep(before, IF n = 1 THEN "NUL" ELSE s[n - 1], s[n])
  IN  format[Len(s)]

\* At the end a "p" is asked for, and "c" where "e" is meant: a "c" never gets there.
IsFloat(s) ==
  LET format == FloatFormat(s)
  IN  format # "refused" /\ ~(format = "hexPost" /\ s[Len(s)] = "p")

-----------------------------------------------------------------------------
(* What the functions are for: numbers as strtod takes them.               *)

Made(s, characters) == ToSet(s) \subseteq characters

\* Digits, with a fraction and an exponent or without.
IsNumeral(s, digits, letter) ==
  \E i \in 0..Len(s) : \E j \in i..Len(s) :
    LET fraction == SubSeq(s, i + 1, j)  exponent == SubSeq(s, j + 1, Len(s))
    IN  /\ Made(SubSeq(s, 1, i), digits) /\ (i > 0 \/ j > 1)
        /\ fraction # <<>> => fraction[1] = "." /\ Made(Tail(fraction), digits)
        /\ exponent # <<>> => /\ exponent[1] = letter
                              /\ Unsigned(Tail(exponent)) # <<>>
                              /\ Made(Unsigned(Tail(exponent)), DecimalDigits)

IsDecimal(s) == IsNumeral(Unsigned(s), DecimalDigits, "e")
IsHex(s) ==
  /\ IsPrefix(<<"0", "x">>, Unsigned(s))
  /\ IsNumeral(SubSeq(Unsigned(s), 3, Len(Unsigned(s))), HexNumerals, "p")

\* All of it.  (Of a nan strtod may take more, in parentheses; it is a nan all the same.)
IsReal(s) == IsDecimal(s) \/ IsHex(s) \/ IsInf(s) \/ Unsigned(s) = Nan
NumberCharacters == Signs \cup NanCharacters \cup {"."}

\* The integer that digits, with a sign or none, stand for.
Amount(digits) ==
  FoldLeft(LAMBDA sum, c : 10 * sum + (CHOOSE n \in 0..9 : Digit[n + 1] = c), 0, digits)
Signed(s) == IF s # <<>> /\ s[1] = "-" THEN -Amount(Tail(s)) ELSE Amount(Unsigned(s))

SignedExponent(s) == \E n \in 2..Len(s) : s[n] \in Signs /\ s[n - 1] = "e"
ZeroBehindDigit(s) ==
  \E n \in 2..Len(s) : s[n] = "0" /\ s[n - 1] \in DecimalDigits /\ \A m \in 1..n : s[m] # "e"

=============================================================================
