--------------------------------- MODULE Cio ---------------------------------
(***************************************************************************)
(* The questions of core/cio.c: cread_line, cread_int, cread_uint and      *)
(* cread_option, each with the loop it asks again in.  A program makes any *)
(* calls, one after the other, of an input that was typed in lines and     *)
(* ends; a step of a call is one attempt.                                  *)
(***************************************************************************)
EXTENDS Words

CONSTANTS
  Inputs,     \* what may be typed
  Calls,      \* [op : {"line"}, ensure_nonempty], [op : {"int", "uint"}], [op : {"option"}, options]
  Half, Long  \* as many as half the values of an int, and of a long: 2^31, 2^63

NumeralList == <<"0", "1", "2", "3", "4", "5", "6", "7", "8", "9">>
NumeralDigits == ToSet(NumeralList)
Signs == {"+", "-"}

WellPosed ==
  /\ "lf" \in Spaces /\ Spaces \cap (NumeralDigits \cup Signs \cup {"NUL"}) = {}
  /\ \A s \in Inputs : s \in Seq(ToSet(s))
  /\ \A c \in Calls : \/ c.op = "line" /\ c.ensure_nonempty \in BOOLEAN
                      \/ c.op \in {"int", "uint"}
                      \/ c.op = "option" /\ c.options \in Nat
  /\ Half \in Nat \ {0} /\ Long \in Nat \ {0}

ASSUME CioAssumption == WellPosed

VARIABLES
  stdin,    \* what is left of the input
  call,     \* the call that was made last, or none
  busy,     \* whether it has yet to return
  line,     \* cread_line's builder, without the NUL
  res,      \* what cread_line returned
  input,    \* what the others did
  typed     \* history: what was left of the input when it was made

vars == <<stdin, call, busy, line, res, input, typed>>

NoCall == [op |-> "none"]

Init ==
  /\ stdin \in Inputs /\ typed = stdin
  /\ call = NoCall /\ busy = FALSE /\ line = <<>> /\ res = <<>> /\ input = 0

Call(c) ==
  /\ ~busy
  /\ call' = c /\ busy' = TRUE /\ line' = <<>> /\ typed' = stdin
  /\ UNCHANGED <<stdin, res, input>>

Behind(s, n) == IF n = None THEN <<>> ELSE Offset(s, n + 1)

-----------------------------------------------------------------------------
(* cread_line.                                                             *)

\* The NUL is one of the builder's items, and no space: no line is blank.
NonBlank(items) == \E c \in ToSet(items) \cup {"NUL"} : c \notin Spaces

\* What was read before a line is refused stays in the builder.
ReadLine ==
  /\ busy /\ call.op = "line"
  /\ \E end \in {CharIndex(stdin, "lf")} :
       /\ stdin' = Behind(stdin, end) /\ line' = line \o Slice(stdin, 0, end)
       /\ IF end # None /\ line' # <<>> /\ (call.ensure_nonempty => NonBlank(line'))
          THEN busy' = FALSE /\ res' = line'
          ELSE busy' = call.ensure_nonempty /\ res' = <<>>
  /\ UNCHANGED <<call, input, typed>>

-----------------------------------------------------------------------------
(* The numbers.                                                            *)

DigitValue(c) == CHOOSE n \in 0..9 : NumeralList[n + 1] = c
ValueOf(digits) ==
  LET value[n \in 0..Len(digits)] ==
        IF n = 0 THEN 0 ELSE 10 * value[n - 1] + DigitValue(digits[n])
  IN  value[Len(digits)]

\* scanf: spaces, line breaks too, are passed over; a sign is taken even if no digit
\* follows, "-" by %u too.  The value is read as a long, or an unsigned long, the last
\* one there is if it is further from 0, and then cut to the bits of an int.
Unspaced(s) == Offset(s, Cardinality({n \in 1..Len(s) : \A m \in 1..n : s[m] \in Spaces}))
SignLength(s) == IF s # <<>> /\ s[1] \in Signs THEN 1 ELSE 0
NumeralLength(s) ==
  Min({n \in SignLength(s)..Len(s) : n = Len(s) \/ s[n + 1] \notin NumeralDigits})
Nearest(value, signed) ==
  IF value \in (IF signed THEN -Long..Long - 1 ELSE 1 - 2 * Long..2 * Long - 1) THEN value
  ELSE IF ~signed THEN 2 * Long - 1
  ELSE IF value < 0 THEN -Long ELSE Long - 1
Wrapped(value, signed) ==
  LET least == IF signed THEN -Half ELSE 0
  IN  least + ((value - least) % (2 * Half))
Converted(value, signed) == Wrapped(Nearest(value, signed), signed)
Scan(s, signed) ==
  LET text == Unspaced(s)
      value == ValueOf(Slice(text, SignLength(text), NumeralLength(text)))
  IN  [matched |-> NumeralLength(text) > SignLength(text),
       value |-> Converted(IF text # <<>> /\ text[1] = "-" THEN -value ELSE value, signed),
       rest |-> Offset(text, NumeralLength(text))]

\* Mutants: one character is dropped; none is.
ClearOne(s) == Offset(s, 1)
ClearNothing(s) == s

ClearStdin(s) == Behind(s, CharIndex(s, "lf"))

\* An answer is a number and the end of its line right behind it, and for cread_option,
\* which calls cread_uint until that is so, it is an option.
InRange(value) == call.op = "option" => value \in 1..call.options
ReadNumber ==
  /\ busy /\ call.op \in {"int", "uint", "option"}
  /\ \E scan \in {Scan(stdin, call.op = "int")} :
       /\ input' = IF scan.matched THEN scan.value ELSE input
       /\ IF scan.matched /\ StartsWith(scan.rest, <<"lf">>)
          THEN stdin' = Offset(scan.rest, 1) /\ busy' = ~InRange(input')
          ELSE stdin' = ClearStdin(scan.rest) /\ UNCHANGED busy
  /\ UNCHANGED <<call, line, res, typed>>

Step == ReadLine \/ ReadNumber

Next == Step \/ \E c \in Calls : Call(c)

\* A call that was made goes on.  Nothing obliges the program to make another.
Spec == Init /\ [][Next]_vars /\ WF_vars(Step)

-----------------------------------------------------------------------------
(* Properties.                                                             *)

\* What a line may be answered with: by itself, unless it is empty and must not be; or by
\* the number it is, with a sign and spaces in front of it and none behind, as far as an
\* int has bits for it; a number that no long can be by the last long on its side, and
\* by the last unsigned long for %u.
NumbersOn(s) ==
  LET starts == {n \in 0..Len(s) : \A m \in 1..n : s[m] \in Spaces}
      digits(t) == IF t # <<>> /\ t[1] \in Signs THEN Tail(t) ELSE t
      numerals == {t \in {Offset(s, n) : n \in starts} :
                     digits(t) # <<>> /\ ToSet(digits(t)) \subseteq NumeralDigits}
  IN  {IF t[1] = "-" THEN -ValueOf(digits(t)) ELSE ValueOf(digits(t)) : t \in numerals}
Possible ==
  CASE call.op = "int" -> -Half..Half - 1
    [] call.op = "uint" -> 0..2 * Half - 1
    [] call.op = "option" -> 1..Min({call.options, 2 * Half - 1})
AnswersOn(s) ==
  IF call.op = "line" THEN IF s = <<>> /\ call.ensure_nonempty THEN {} ELSE {s}
  ELSE {value \in Possible : \E n \in NumbersOn(s) :
                                (value - Nearest(n, call.op = "int")) % (2 * Half) = 0}
LinesOf(s) == SplitByChar(s, "lf", NoOptions)

\* A call reads whole lines, and returns what the first of them that has an answer is
\* answered with; an option of a number of more bits too.  Only cread_line may read the
\* end of the input, which loses what is behind the last line break.
AnswersWhatWasTyped ==
  ~busy /\ call # NoCall =>
    LET lines == LinesOf(SubSeq(typed, 1, Len(typed) - Len(stdin)))
        last == Len(lines) - 1
        result == IF call.op = "line" THEN res ELSE input
    IN  /\ IsSuffix(stdin, typed)
        /\ \/ /\ last > 0 /\ lines[last + 1] = <<>>
              /\ result \in AnswersOn(lines[last])
              /\ \A n \in 1..last - 1 : AnswersOn(lines[n]) = {}
           \/ /\ call.op = "line" /\ ~call.ensure_nonempty
              /\ last = 0 /\ stdin = <<>> /\ result = <<>>

\* A call returns if there is a line to come that has an answer, whatever is before it.
CallReturns ==
  (busy /\ \E n \in 1..Len(LinesOf(stdin)) - 1 : AnswersOn(LinesOf(stdin)[n]) # {}) ~> ~busy

=============================================================================
