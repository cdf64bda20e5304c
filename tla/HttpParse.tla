----------------------------- MODULE HttpParse -----------------------------
(***************************************************************************)
(* http_parse and the functions it is made of, web/http1.1.c.              *)
(*                                                                         *)
(* What is only ever compared as a whole is one character here: the        *)
(* methods, and the "HTTP/" a version begins with.  The fields are those   *)
(* the hash table is shown to hold: of lines of one name, the last's.      *)
(***************************************************************************)
EXTENDS Uri

Methods == {"GET", "HEAD", "POST", "PUT", "DELETE", "CONNECT", "OPTIONS", "TRACE"}
Http == "HTTP/"
Crlf == <<"cr", "lf">>

TokenChars ==
  Letters \cup Digits
    \cup {"!", "#", "$", "%", "&", "'", "*", "+", "-", ".", "^", "_", "grave", "|", "~"}
Graphs ==
  TokenChars \cup QueryChars \cup {"\"", "<", ">", "[", "]", "{", "}", "\\", Http} \cup Methods
Blanks == {"space", "tab"}

DigitsInOrder == <<"0", "1", "2", "3", "4", "5", "6", "7", "8", "9">>
Value(c) == CHOOSE n \in 0..9 : DigitsInOrder[n + 1] = c

StatusCodes ==
  {100, 101} \cup 200..206 \cup 300..308 \cup 400..418 \cup {421, 422, 426} \cup 500..505

\* A part of a message that was refused; of one that was not, ok is true and the rest is
\* what it holds.
Refused == [ok |-> FALSE]

ParseVersion(version) ==
  IF /\ Len(version) = 4 /\ version[1] = Http /\ version[3] = "."
     /\ {version[2], version[4]} \subseteq Digits
  THEN [ok |-> TRUE, major |-> Value(version[2]), minor |-> Value(version[4])]
  ELSE Refused

CodeValue(code) == 100 * Value(code[1]) + 10 * Value(code[2]) + Value(code[3])
ValidCode(code) == Len(code) = 3 /\ AllIn(code, Digits) /\ CodeValue(code) \in StatusCodes

ValidToken(token) == token # <<>> /\ AllIn(token, TokenChars)

\* It begins and ends with a character that is not blank.
ValidFieldValue(value) ==
  /\ AllIn(value, Graphs \cup Blanks)
  /\ value # <<>> => {value[1], value[Len(value)]} \subseteq Graphs

\* The value is trimmed.
FieldName(line) == Slice(line, 0, CharIndex(line, ":"))
FieldValue(line) == Trimmed(Offset(line, CharIndex(line, ":") + 1))
ValidFieldLine(line) ==
  /\ CharIndex(line, ":") # None
  /\ ValidToken(FieldName(line)) /\ ValidFieldValue(FieldValue(line))

ParseFieldLines(lines) ==
  IF \E n \in 1..Len(lines) : ~ValidFieldLine(lines[n]) THEN Refused
  ELSE LET names == {FieldName(lines[n]) : n \in 1..Len(lines)}
       IN  [ok |-> TRUE, fields |-> [name \in names |->
             FieldValue(lines[Max({n \in 1..Len(lines) : FieldName(lines[n]) = name})])]]

-----------------------------------------------------------------------------
(* Request targets: the forms are tried in this order.                     *)

ValidOriginForm(target) ==
  LET query == CharIndex(target, "?")
  IN  /\ ValidAbemptyPath(Slice(target, 0, query))
      /\ query # None => Valid(Offset(target, query + 1), QueryChars)

ValidAbsoluteForm(target) == ParseAbsolute(target, Zeroed).ok

ValidAuthorityForm(target) ==
  LET parts == SplitByChar(target, ":", NoOptions)
  IN  Len(parts) = 2 /\ ValidHost(parts[1]) /\ ValidPort(parts[2])

Form(target) ==
  IF target = <<"*">> THEN "asterisk"
  ELSE IF ValidOriginForm(target) THEN "origin"
  ELSE IF ValidAbsoluteForm(target) THEN "absolute"
  ELSE IF ValidAuthorityForm(target) THEN "authority" ELSE "none"

Formed(target, form) ==
  IF form = "none" THEN Refused ELSE [ok |-> TRUE, target |-> target, form |-> form]
ParseTarget(target) ==
  IF "space" \in ToSet(target) THEN Refused ELSE Formed(target, Form(target))

-----------------------------------------------------------------------------
(* The start line and the whole message.                                   *)

\* Without a reason, what is behind the version is the reason too.
ParseStatusLine(line) ==
  LET version == CharIndex(line, "space")
      rest == Offset(line, version + 1)
      code == CharIndex(rest, "space")
      reason == Offset(rest, code + 1)
      parsed == ParseVersion(Slice(line, 0, version))
  IN  IF parsed.ok /\ ValidCode(Slice(rest, 0, code)) /\ AllIn(reason, Graphs \cup Blanks)
      THEN [ok |-> TRUE, type |-> "response", status |-> CodeValue(Slice(rest, 0, code)),
            reason |-> reason, version |-> parsed]
      ELSE Refused

Requested(method, target, version) ==
  IF target.ok /\ version.ok
  THEN [ok |-> TRUE, type |-> "request", method |-> method, target |-> target.target,
        form |-> target.form, version |-> version]
  ELSE Refused
ParseRequestLine(line) ==
  LET parts == SplitByChar(line, "space", NoOptions)
  IN  IF Len(parts) = 3 /\ Len(parts[1]) = 1 /\ parts[1][1] \in Methods
      THEN Requested(parts[1][1], ParseTarget(parts[2]), ParseVersion(parts[3]))
      ELSE Refused

FirstOf(status, request) == IF status.ok THEN status ELSE request
ParseStartLine(line) == FirstOf(ParseStatusLine(line), ParseRequestLine(line))

\* The lines are found by SplitByWord, which goes on PointerSize characters from each line
\* break: a field line has lost its first PointerSize - 2.
HeaderLines(header) == SplitByWord(header, Crlf, NoOptions)

\* Mutant: it ends at the last empty line.
HeaderEndLast(raw) ==
  LET breaks == IndexWord(raw, Crlf \o Crlf)
  IN  IF breaks = <<>> THEN None ELSE breaks[Len(breaks)]

\* The header ends at the first empty line.
HeaderEnd(raw) ==
  LET breaks == IndexWord(raw, Crlf \o Crlf)
  IN  IF breaks = <<>> THEN None ELSE breaks[1]

Message(body, start, fields) ==
  IF start.ok /\ fields.ok
  THEN [ok |-> TRUE, start |-> start, fields |-> fields.fields, body |-> body]
  ELSE Refused
HttpParse(raw) ==
  LET end == HeaderEnd(raw)  lines == HeaderLines(Slice(raw, 0, end))
  IN  IF end = None THEN Refused
      ELSE Message(Offset(raw, end + 4), ParseStartLine(lines[1]), ParseFieldLines(Tail(lines)))

=============================================================================
