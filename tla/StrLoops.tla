------------------------------ MODULE StrLoops ------------------------------
(***************************************************************************)
(* What works on texts: the loops of core/str.c that search a view for     *)
(* characters (CharScan), those that cut a text up (Strings), the console  *)
(* (Cio), which cuts what was typed, and functions that look at a whole    *)
(* text at once.  They share no state.                                     *)
(***************************************************************************)
EXTENDS Strings, Numbers, Paths, Templater

CONSTANTS
  ViewChars,
  Views,        \* the views that are searched
  Word,         \* sizeof(size_t)
  Typings,      \* what may be typed
  Questions,    \* the calls of the console
  Half, Long    \* as many as half the values of an int, and of a long

ASSUME ViewsAssumption == Views \subseteq Seq(ViewChars) /\ Word \in Nat \ {0}

ASSUME PathsAssumption ==
  \A asked \in Inputs : asked.call.op = "path" => asked.call.args \in Seq(Chars) \X Seq(Chars)

VARIABLES view, wanted, address, i, phase, found
VARIABLES stdin, question, busy, gathered, returned, scanned, typed

C == INSTANCE CharScan WITH Chars <- ViewChars, Texts <- Views, text <- view

K == INSTANCE Cio WITH
       Inputs <- Typings, Calls <- Questions, call <- question, line <- gathered, res <- returned, input <- scanned

ASSUME QuestionsAssumption == K!WellPosed

\* No word is read that reaches outside the view or off its alignment (CharScan).
WordsInside == C!WordsInside

\* The searches return the first, or the last, of the characters (CharScan).
FindsIt == C!FindsIt

\* A call of the console returns what the first line with an answer says (Cio).
AnswersWhatWasTyped == K!AnswersWhatWasTyped

-----------------------------------------------------------------------------
(* Numbers, paths and templates.                                           *)

\* is_int is true of digits with a sign in front, and of nothing but a sign.  is_float is
\* true of whatever strtod takes, but for decimal numbers with a sign in the exponent,
\* which it takes only where a 0 is behind another digit.
NumbersRead ==
  call.op = "number" =>
    /\ IsInt(text) <=> Made(Unsigned(text), DecimalDigits)
    /\ IsHex(text) \/ IsInf(text) \/ IsNan(text) => IsFloat(text)
    /\ IsDecimal(text) => (IsFloat(text) <=> (SignedExponent(text) => ZeroBehindDigit(text)))

Bare(path) == IF StartsWith(path, <<".", "/">>) THEN Offset(path, 2) ELSE path
NoDoubled(path) == Occurrences(path, <<"/", "/">>) = {}

\* Joined paths have the parts of each, but for a "./" in front of the later ones, and no
\* slash is doubled that was not so before; and what two such have in common is all of
\* the first argument they share.
PathsJoin ==
  call.op = "path" =>
    LET q == call.args[1]  r == call.args[2]
        joined == JoinMany(<<text, q>>)
        common == GreatestCommonPath(joined, JoinMany(<<text, r>>))
    IN  /\ PathSplit(joined) = PathSplit(text) \o PathSplit(Bare(q))
        /\ PathDepth(joined) = PathDepth(text) + PathDepth(Bare(q))
        /\ NoDoubled(text) /\ NoDoubled(q) => NoDoubled(joined)
        /\ IsPrefix(PathSplit(text), PathSplit(common.text))
        /\ ~common.cstr => PathSplit(text) = <<>>

\* A template's pieces, with the marks between them, are its text; they are text and code
\* by turns, the first being text, and no mark is left in one.
TemplateCopies ==
  call.op = "template" =>
    LET pieces_ == Template(text)
    IN  /\ Joined([n \in 1..Len(pieces_) |-> pieces_[n].text], <<Mark>>) = text
        /\ \A n \in 1..Len(pieces_) :
             pieces_[n].bold = (n % 2 = 0) /\ Mark \notin ToSet(pieces_[n].text)

=============================================================================
