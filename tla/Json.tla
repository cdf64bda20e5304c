-------------------------------- MODULE Json --------------------------------
(***************************************************************************)
(* The JSON reader of ffs/json.c.  It cuts a whole document into tokens by *)
(* recursive descent: json_parse_value calls json_parse_object and         *)
(* json_parse_array, which call it back.  The stack is that of these       *)
(* calls.  Whatever refuses a part refuses the document.                   *)
(*                                                                         *)
(* A part of the text is where it begins and where it ends.                *)
(***************************************************************************)
EXTENDS Integers, Sequences, FiniteSets, FiniteSetsExt

\* [text, tokens]: a file, which is a sequence of Chars, and the tokens it was written
\* from, or <<>>.
CONSTANTS Files

Spaces == {"space", "newline"}
Controls == {"newline"}
Numerals == {"0", "1"}
HexDigits == Numerals \cup {"e"}
Escapable == {"quote", "escape", "n"}
Chars == Spaces \cup HexDigits \cup Escapable
           \cup {"{", "}", "[", "]", ":", ",", "-", ".", "u", "x"}

VARIABLES
  file,
  bucket,   \* val_bucket: where the value that is being parsed begins
  stack,    \* [kind, value, temp, type]: the calls that are running, the inner last
  tokens,   \* [type, from, to]: tokens and token_types
  state     \* "value", "body": in json_parse_value, or in the innermost loop
vars == <<file, bucket, stack, tokens, state>>

Size == Len(file.text)
Char(n) == file.text[n + 1]
Piece(from, to) == [from |-> from, to |-> IF to < from THEN from ELSE to]
Length(piece) == piece.to - piece.from
First(piece) == Char(piece.from)
Text(piece) == SubSeq(file.text, piece.from + 1, piece.to)

PlacesOf(chars, piece) == {n \in piece.from..piece.to - 1 : Char(n) \in chars}
Others(piece) == PlacesOf(Chars \ Spaces, piece)
TrimLeft(piece) == Piece(Min({piece.to} \cup Others(piece)), piece.to)
Trim(piece) ==
  IF Others(piece) = {} THEN Piece(piece.to, piece.to)
  ELSE Piece(Min(Others(piece)), Max(Others(piece)) + 1)

\* slice(piece, 0, index) where index is that of one of the characters, or -1.
UpTo(chars, piece) == Piece(piece.from, Min({piece.to} \cup PlacesOf(chars, piece)))

None == "none"
Top == stack[Len(stack)]
Callers == SubSeq(stack, 1, Len(stack) - 1)

Init ==
  /\ file \in Files
  /\ bucket = Trim(Piece(0, Size))
  /\ stack = <<>> /\ tokens = <<>>
  /\ state = "value"

-----------------------------------------------------------------------------
(* Strings and numbers.                                                    *)

\* json_valid_string.  The loop over the digits of a \u never gets to the second.
ValidString(piece) ==
  LET valid[n \in piece.from..piece.to + 1] ==
        IF n >= piece.to THEN "yes"
        ELSE IF Char(n) # "escape" THEN IF Char(n) \in Controls THEN "no" ELSE valid[n + 1]
        ELSE IF n + 1 = piece.to THEN "no"
        ELSE IF Char(n + 1) # "u" THEN IF Char(n + 1) \in Escapable THEN valid[n + 2] ELSE "no"
        ELSE IF piece.to - (n + 1) >= 5 /\ Char(n + 2) \in HexDigits THEN "loops" ELSE "no"
  IN  valid[piece.from]

ClosingQuotesAny(piece) == PlacesOf({"quote"}, Piece(piece.from + 1, piece.to))      \* mutant

\* json_capture_string: the quotes that have no escape before them.
ClosingQuotes(piece) ==
  {n \in PlacesOf({"quote"}, Piece(piece.from + 1, piece.to)) : Char(n - 1) # "escape"}

AllDigits(piece) == PlacesOf(Chars \ Numerals, piece) = {}

\* json_valid_integer: of a lone "-" the character behind it is looked at.
ValidInteger(piece, behind) ==
  LET sign == IF First(piece) = "-" THEN 1 ELSE 0
      first == IF piece.from + sign = Size THEN behind ELSE Char(piece.from + sign)
  IN  /\ Length(piece) > 0
      /\ \/ Length(piece) = 1 + sign /\ first \in Numerals
         \/ first # "0" /\ AllDigits(Piece(piece.from + sign, piece.to))

\* json_valid_fraction and json_valid_exponent are given what comes after the "." and
\* the "e", and look for them once more.
ValidFraction(piece) ==
  Length(piece) > 0 =>
    First(piece) = "." /\ Length(piece) > 1 /\ AllDigits(Piece(piece.from + 1, piece.to))

ValidExponent(piece) ==
  Length(piece) > 0 =>
    /\ First(piece) = "e"
    /\ Length(piece) > 1 => /\ Char(piece.from + 1) \in Numerals \cup {"-"}
                            /\ AllDigits(Piece(piece.from + 2, piece.to))

ValidNumber(piece, behind) ==
  LET dot == PlacesOf({"."}, piece)  e == PlacesOf({"e"}, piece)
      ends == IF e = {} THEN piece.to ELSE Min(e)
  IN  /\ ValidInteger(UpTo(IF dot = {} THEN {"e"} ELSE {"."}, piece), behind)
      /\ dot # {} => ValidFraction(Piece(Min(dot) + 1, ends))
      /\ e # {} => ValidExponent(Piece(ends + 1, piece.to))

-----------------------------------------------------------------------------
(* The parser.                                                             *)

Refuses == state' = "refused" /\ UNCHANGED <<bucket, stack, tokens>>
Loops == state' = "looping" /\ UNCHANGED <<bucket, stack, tokens>>
Token(type, piece) == [type |-> type, from |-> piece.from, to |-> piece.to]

AnyType(frame, type) == TRUE      \* mutant

\* An array's elements have their last tokens of one type.
SameType(frame, type) == frame.kind = "array" => frame.type \in {None, type}

AfterValue(frame, value) == TrimLeft(Piece(value.to, frame.temp.to))

\* What json_parse_object or json_parse_array does with a value it is given back, the
\* last token of which has that type; json_tokenize leaves alone what is behind it.
Returns(value, type, callers) ==
  IF callers = <<>> THEN state' = "parsed" /\ stack' = callers
  ELSE LET frame == callers[Len(callers)]
           rest == AfterValue(frame, value)
       IN  IF (Length(rest) = 0 \/ First(rest) = ",") /\ SameType(frame, type)
           THEN /\ state' = "body"
                /\ stack' = [callers EXCEPT ![Len(callers)].temp = Piece(rest.from + 1, rest.to),
                                            ![Len(callers)].type = type]
           ELSE state' = "refused" /\ UNCHANGED stack

InValue == state = "value" /\ UNCHANGED <<file, bucket>>

NoValue == InValue /\ Length(bucket) = 0 /\ Refuses

Opening(kind) == IF kind = "object" THEN "{" ELSE "["
Closing(kind) == IF kind = "object" THEN "}" ELSE "]"
StartType(kind) == IF kind = "object" THEN "objectStart" ELSE "arrayStart"
EndType(kind) == IF kind = "object" THEN "objectEnd" ELSE "arrayEnd"

\* capture_by_char from the first character of the bucket.
Captures(kind) ==
  {n \in bucket.from + 1..bucket.to :
     Cardinality(PlacesOf({Opening(kind)}, Piece(bucket.from, n))) =
     Cardinality(PlacesOf({Closing(kind)}, Piece(bucket.from, n)))}

Open(kind) ==
  /\ InValue /\ Length(bucket) > 0 /\ First(bucket) = Opening(kind)
  /\ \/ Captures(kind) = {} /\ Refuses
     \/ /\ Captures(kind) # {}
        /\ LET value == Piece(bucket.from, Min(Captures(kind)))
           IN  stack' = Append(stack,
                 [kind |-> kind, value |-> value, type |-> None,
                  temp |-> Trim(Piece(value.from + 1, value.to - 1))])
        /\ tokens' = Append(tokens, Token(StartType(kind), Piece(bucket.from, bucket.from)))
        /\ state' = "body"

\* The token is what is between the quotes, trimmed; the value has the quotes too.
Symbol ==
  /\ InValue /\ Length(bucket) > 0 /\ First(bucket) = "quote"
  /\ \/ ClosingQuotes(bucket) = {} /\ Refuses
     \/ /\ ClosingQuotes(bucket) # {}
        /\ LET value == Piece(bucket.from, Min(ClosingQuotes(bucket)) + 1)
               symbol == Trim(Piece(value.from + 1, value.to - 1))
           IN  \/ ValidString(symbol) = "no" /\ Refuses
               \/ ValidString(symbol) = "loops" /\ Loops
               \/ /\ ValidString(symbol) = "yes"
                  /\ tokens' = Append(tokens, Token("symbol", symbol))
                  /\ Returns(value, "symbol", stack)

\* Whatever is up to the next comma has to be a number.
Number ==
  /\ InValue /\ Length(bucket) > 0 /\ First(bucket) \notin {"{", "[", "quote"}
  /\ LET number == UpTo({","}, bucket)
     IN  \E behind \in {"0", "x"} :
           \/ (Length(number) = 0 \/ ~ValidNumber(number, behind)) /\ Refuses
           \/ /\ Length(number) > 0 /\ ValidNumber(number, behind)
              /\ tokens' = Append(tokens, Token("number", number))
              /\ Returns(number, "number", stack)

InBody(kind) == state = "body" /\ Top.kind = kind /\ UNCHANGED file

\* One member: the name, and the value it is to have.
Member ==
  /\ InBody("object") /\ PlacesOf({":"}, Top.temp) # {}
  /\ LET assign == Min(PlacesOf({":"}, Top.temp))
         quoted == Trim(Piece(Top.temp.from, assign))
         name == Piece(quoted.from + 1, quoted.to - 1)
     IN  IF Length(quoted) < 2 \/ First(quoted) # "quote" \/ Char(quoted.to - 1) # "quote"
         THEN Refuses
         ELSE \/ ValidString(name) = "no" /\ Refuses
              \/ ValidString(name) = "loops" /\ Loops
              \/ /\ ValidString(name) = "yes"
                 /\ tokens' = Append(tokens, Token("name", name))
                 /\ bucket' = TrimLeft(Piece(assign + 1, Top.temp.to))
                 /\ state' = "value"
                 /\ UNCHANGED stack

Element ==
  /\ InBody("array") /\ Length(Top.temp) > 0
  /\ bucket' = TrimLeft(Top.temp)
  /\ state' = "value"
  /\ UNCHANGED <<stack, tokens>>

\* An object ends where there is no ":" any more, an array where there is nothing.
Over(kind) == IF kind = "object" THEN PlacesOf({":"}, Top.temp) = {} ELSE Length(Top.temp) = 0

Close(kind) ==
  /\ InBody(kind) /\ Over(kind)
  /\ tokens' = Append(tokens, Token(EndType(kind), Piece(Top.value.to - 1, Top.value.to - 1)))
  /\ Returns(Top.value, EndType(kind), Callers)
  /\ UNCHANGED bucket

Next ==
  \/ NoValue \/ Symbol \/ Number \/ Member \/ Element
  \/ \E kind \in {"object", "array"} : Open(kind) \/ Close(kind)

Spec == Init /\ [][Next]_vars

-----------------------------------------------------------------------------
\* What reads the tokens one by one has open: for each object whether a name or a value
\* is next, for each array the type of what it holds, if anything yet.  It is astray
\* where it finds a token it does not expect: names and values in turn in an object,
\* values of one type in an array, and one value in all.
Astray == <<"astray">>
ValueEnds == {"symbol", "number", "objectEnd", "arrayEnd"}
Inner(open) == IF open = <<>> THEN "none" ELSE open[Len(open)]
Outer(open) == SubSeq(open, 1, Len(open) - 1)
ValueExpected(open) == open = <<>> \/ Inner(open) \in ValueEnds \cup {"member", "array"}
ValueRead(open, type) ==
  IF open = <<>> THEN <<"end">>
  ELSE IF Inner(open) = "member" THEN [open EXCEPT ![Len(open)] = "object"]
  ELSE IF Inner(open) \in {"array", type} THEN [open EXCEPT ![Len(open)] = type]
  ELSE Astray

TokenRead(open, type) ==
  IF type \in {"symbol", "number"} /\ ValueExpected(open) THEN ValueRead(open, type)
  ELSE IF type = "objectStart" /\ ValueExpected(open) THEN Append(open, "object")
  ELSE IF type = "arrayStart" /\ ValueExpected(open) THEN Append(open, "array")
  ELSE IF type = "name" /\ Inner(open) = "object" THEN Append(Outer(open), "member")
  ELSE IF type = "objectEnd" /\ Inner(open) = "object" THEN ValueRead(Outer(open), type)
  ELSE IF type = "arrayEnd" /\ Inner(open) \in ValueEnds \cup {"array"}
  THEN ValueRead(Outer(open), type)
  ELSE Astray

Opened(list) ==
  LET after[n \in 0..Len(list)] ==
        IF n = 0 THEN <<>> ELSE TokenRead(after[n - 1], list[n].type)
  IN  after[Len(list)]

\* Of every document that is not refused, the tokens are those of one value: what
\* starts ends, in order, objects have names with values and arrays have elements of
\* one type, although each call appends to the tokens of them all.
TokensNest ==
  /\ state = "parsed" => Opened(tokens) = <<"end">>
  /\ state \in {"value", "body"} =>
       LET open == Opened(tokens)
       IN  /\ open # Astray /\ Len(open) = Len(stack)
           /\ \A n \in 1..Len(stack) :
                stack[n].kind = "object" <=> open[n] \in {"object", "member"}

\* A document that was written from a value is not refused, and its tokens are those
\* it was written from.
ReadsBack ==
  file.tokens # <<>> =>
    /\ state # "refused"
    /\ state = "parsed" =>
         [n \in 1..Len(tokens) |-> <<tokens[n].type, Text(tokens[n])>>] = file.tokens

=============================================================================
