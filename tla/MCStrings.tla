------------------------------ MODULE MCStrings ------------------------------
(* The loops of StrLoops, and the functions that look at a text at once, each  *)
(* with texts of its own: a pointer of four bytes is shorter than the texts,   *)
(* as one of eight is than most strings, and longer than a line break.         *)
EXTENDS StrLoops, HttpParse, ZeroByte

CONSTANTS MaxSize, MaxView, MaxTyped

open == "("
close == ")"
x == "a"
MCSpaces == {"space", "tab", "cr", "lf"}
MCChars ==
  Graphs \cup Letters \cup MCSpaces \cup {Mark, "%", "b", "i", "n", "o", "w", "y"}

Calls(texts, calls) == [text : texts, call : calls]

CutCalls ==
  [op : {"split"}, chars : {{x}, {open, close}, {"space"}}, trim : BOOLEAN, remove_empty : BOOLEAN]
  \cup [op : {"index"}, chars : {{x}, {open, x}}]
  \cup [op : {"capture"}, cstr : BOOLEAN, offset : {0, 1}, inc : {open}, dec : {close, open}]
  \cup [op : {"trim"}]
CutInputs == Calls(BoundedSeq({open, close, "space", x}, MaxSize), CutCalls)

-----------------------------------------------------------------------------
(* Words and quoting.                                                      *)

WordInputs ==
  Calls(BoundedSeq({open, x}, MaxSize + 3),
        [op : {"word"}, word : {<<x>>, <<open, x>>, <<x, x, open>>, <<x, x, open, x>>}])
  \cup Calls(BoundedSeq({open, close, x}, MaxSize + 1), [op : {"pair"}])
  \cup Calls(BoundedSeq({x, "space", "\"", "\\"}, MaxSize), [op : {"quote"}])

\* Searches for words, and the splitting, capturing and counting by them, give no place,
\* part or number that is not there, and in C strings miss none; what they miss in
\* views is behind a false start; a text that is quoted loses its end.
WordsAsAsked ==
  /\ call.op = "word" =>
       IndexesWord(text, call.word) /\ SplitsByWord(text, call.word) /\ LastOfWord(text, call.word)
  /\ call.op = "pair" => CapturesByWord(text, <<open, x>>, <<close, x>>)
  /\ call.op = "quote" => QuotesStart(text)

-----------------------------------------------------------------------------
(* Numbers, in three parts.                                                *)

Numerals(digits, max) == BoundedSeq(digits, max) \ {<<>>}
Fractions(digits) == {<<>>} \cup {<<".">> \o f : f \in BoundedSeq(digits, 2)}
Exponents(letter) ==
  {<<>>} \cup {<<letter>> \o sign \o e : sign \in {<<>>, <<"+">>, <<"-">>}, e \in Numerals({"0", "5"}, 2)}

NumberInputs ==
  Calls({sign \o whole \o fraction \o exponent :
           sign \in {<<>>, <<"-">>}, whole \in Numerals({"0", "5"}, 2),
           fraction \in Fractions({"0", "5"}), exponent \in Exponents("e")}
        \cup
        {sign \o <<"0", "x">> \o whole \o fraction \o exponent :
           sign \in {<<>>, <<"-">>}, whole \in Numerals({"0", "e"}, 2),
           fraction \in Fractions({"0", "e"}), exponent \in Exponents("p")}
        \cup {sign \o word : sign \in {<<>>, <<"-">>}, word \in {Inf, Infinity, Nan, Nan \o <<"_", "5">>}}
        \cup BoundedSeq({"+", "-", "0", "5", ".", "e", "a"}, 4),
        [op : {"number"}])

-----------------------------------------------------------------------------
(* Paths and templates.                                                    *)

PathInputs ==
  Calls(BoundedSeq({"/", ".", x}, 3),
        [op : {"path"}, args : BoundedSeq({"/", ".", x}, 3) \X BoundedSeq({"/", x}, 2)])

TemplateInputs == Calls(BoundedSeq({Mark, x, "b"}, MaxSize), [op : {"template"}])

-----------------------------------------------------------------------------
(* URIs: texts of any kind, and those written from parts.                  *)

Optional(mark, part) == IF part = <<>> THEN {<<>>, mark} ELSE {mark \o part}

\* What is behind the scheme.  An empty query or fragment may have its mark or not.
RestsOf(uri) ==
  {(IF uri.authority = <<>> THEN <<>> ELSE <<"/", "/">> \o uri.authority) \o uri.path \o q \o f :
     q \in Optional(<<"?">>, uri.query), f \in Optional(<<"#">>, uri.fragment)}

PartsOf(authorities, types, paths) ==
  [scheme : {<<"a">>, <<"h", "+">>}, authority : authorities, path_type : types, path : paths,
   query : {<<>>, <<"/", "?", "%", "2", "F">>}, fragment : {<<>>, <<"a", "?">>, <<"@">>}]
Parts ==
  PartsOf({<<"h">>, <<"h", ":", "8">>, <<"a", "%", "0", "a", "@", "[", "v", "1", ".", ":", "a", "]">>},
          {"abempty"}, {<<>>, <<"/">>, <<"/", "a", "/", "/">>})
  \cup PartsOf({<<>>}, {"absolute"}, {<<"/">> , <<"/", "a", "/", "/">>})
  \cup PartsOf({<<>>}, {"rootless"}, {<<":">>, <<"a", "/", "/">>})
  \cup PartsOf({<<>>}, {"empty"}, {<<>>})

Unreadable(uri) ==
  \/ ":" \in ToSet(uri.authority) /\ "[" \in ToSet(uri.authority)
  \/ uri.path = <<"/">> /\ uri.path_type = "absolute"

UriInputs ==
  Calls(BoundedSeq({"a", "/", "?", "#", "@", ":"}, MaxSize - 1), [op : {"uri"}, parts : {Zeroed}])
  \cup Calls({<<"a", ":", "/", "/">> \o s : s \in BoundedSeq({"a", "?", "#", "@", "%"}, MaxSize - 1)},
             [op : {"uri"}, parts : {Zeroed}])
  \cup UNION {Calls({uri.scheme \o <<":">> \o rest : rest \in RestsOf(uri)},
                    [op : {"uri"}, parts : {uri}]) : uri \in Parts}

FragmentFirst == CharIndex(text, "#") # None /\ CharIndex(text, "#") < CharIndex(text, "?")

ReadAs(parsed) ==
  /\ parsed.ok /\ ~FragmentFirst =>
       text \in {parsed.uri.scheme \o <<":">> \o rest : rest \in RestsOf(parsed.uri)}
  /\ call.parts # Zeroed =>
       IF FragmentFirst \/ Unreadable(call.parts) THEN ~parsed.ok
       ELSE parsed = [ok |-> TRUE, uri |-> call.parts]
ReferenceReadAs(reference) ==
  reference.ok /\ ~Parse(text, Zeroed).ok /\ ~FragmentFirst => text \in RestsOf(reference.uri)

\* A text that is accepted is its parts, in their order and nothing between them, unless
\* a fragment begins before the query; and what was written from parts is accepted, with
\* those parts, but for three kinds: a fragment with a "?" where there is no query, a ":"
\* in a bracketed host, and "/" alone.  A reference has its parts but for the scheme,
\* which one that is no URI may have too.
UriReadBack ==
  call.op = "uri" =>
    /\ ReadAs(Parse(text, Zeroed))
    /\ \A reference \in ParseUriReference(text, Zeroed, {TRUE}) : ReferenceReadAs(reference)

-----------------------------------------------------------------------------
(* Messages, written from a start line, header lines and a body.           *)

Targets == {
  <<"/">>, <<"/", "a", "?", "/">>, <<>>, <<"*">>, <<"h", ":", "8">>, <<"a", ":", "/", "/", "h", "/">>,
  <<"[", "v", "1", ".", "a", "]", ":", "8">> }
Versions == {<<Http, "1", ".", "0">>}
RequestLines ==
  {[type |-> "request", method |-> "GET", target |-> target,
    text |-> <<"GET", "space">> \o target \o <<"space">> \o <<Http, "1", ".", "0">>] : target \in Targets}
StatusLines ==
  {[type |-> "response", status |-> 404, reason |-> reason,
    text |-> <<Http, "1", ".", "0", "space", "4", "0", "4", "space">> \o reason] :
     reason \in {<<>>, <<"a", "space">>}}

FieldLines == {
  <<"a", "b", "t", ":", "space", "/", "tab">>, <<"s", "t", "t", ":">>, <<"h", "b", "t", ":", "x">>,
  <<"a", "t", ":", "t", ":", "x">>, <<"a", ":">>, <<"a", "t", "s", ":", "\"", "cr", "x">>, <<"a", "t", "space">> }

HttpInputs ==
  {[text |-> start.text \o Crlf \o FlattenSeq([n \in 1..Len(lines) |-> lines[n] \o Crlf]) \o Crlf \o body,
    call |-> [op |-> "http", start |-> start, lines |-> lines, body |-> body]] :
     start \in RequestLines \cup StatusLines, lines \in BoundedSeq(FieldLines, 3),
     body \in {<<>>, <<"a", "a", "cr", "lf", "cr", "lf">>}}

CutName(line) == Offset(FieldName(line), PointerSize - 2)

StartReadAs(parsed, start) ==
  /\ parsed.type = start.type /\ <<parsed.version.major, parsed.version.minor>> = <<1, 0>>
  /\ IF start.type = "request" THEN parsed.method = start.method /\ parsed.target = start.target
     ELSE parsed.status = start.status /\ parsed.reason = start.reason

\* Each field is the last line of its name.
FieldsReadAs(fields, lines) ==
  \A name \in DOMAIN fields : \E n \in 1..Len(lines) :
    /\ CutName(lines[n]) = name /\ fields[name] = FieldValue(lines[n])
    /\ \A m \in n + 1..Len(lines) : CutName(lines[m]) # name

MessageReadAs(parsed, start, lines, body, named) ==
  /\ parsed.ok =>
       /\ StartReadAs(parsed.start, start) /\ parsed.body = body
       /\ named = 1..Len(lines) => FieldsReadAs(parsed.fields, lines)
  /\ named = 1..Len(lines) =>
       parsed.ok /\ DOMAIN parsed.fields = {CutName(lines[n]) : n \in 1..Len(lines)}

\* The start line and the body of a message that is accepted are those that were written,
\* whatever lines are between them, and each field is one of those lines, the last of
\* its name, without the first PointerSize - 2 characters.  A message without fields, or
\* with well-formed ones whose names are longer than that, is accepted.
MessageReadBack ==
  call.op = "http" =>
    MessageReadAs(HttpParse(text), call.start, call.lines, call.body,
      {n \in 1..Len(call.lines) : ValidFieldLine(call.lines[n]) /\ CutName(call.lines[n]) # <<>>})

-----------------------------------------------------------------------------
(* Searches: views of two characters up to three words long, and views of any  *)
(* four, at every address.  The bytes of a word have two bits, so that borrows *)
(* pass bytes with and without their high bit.                                 *)

MCViews == BoundedSeq({0, 1}, MaxView) \cup [1..Word + 1 -> ViewChars]

\* The word at an aligned address, its first byte the lowest.
WordAt[start \in Nat, n \in 0..Bytes] ==
  IF n = Bytes THEN 0 ELSE view[start + n + 1] * 2^(Bits * n) + WordAt[start, n + 1]

\* Wherever a loop is at a word, the bits say of it what CharScan's loop goes by:
\* that one of the characters is in it.  The borrows of the subtraction never hide a
\* byte, nor show one where there is none.
StopsWhereItIs ==
  /\ phase = "words" /\ i + Word < C!Size =>
       (StopsAt(WordAt[i, 0], wanted) <=> C!WordHasOne(i))
  /\ phase = "lastWords" /\ i >= Word =>
       (StopsAt(WordAt[i - Word, 0], wanted) <=> C!WordHasOne(i - Word))

-----------------------------------------------------------------------------
(* The console: what can be typed with a few keys, and numbers of ints of two  *)
(* bits and longs of four: 11 and -1 are 3, and -11 is 1 or, as the least long,*)
(* 0.                                                                          *)

MCTypings == BoundedSeq({"lf", "space", "-", "1", x}, MaxTyped)
MCQuestions ==
  [op : {"line"}, ensure_nonempty : BOOLEAN] \cup [op : {"int", "uint"}]
    \cup [op : {"option"}, options : {2}]

-----------------------------------------------------------------------------
MCInputs ==
  CutInputs \cup WordInputs \cup NumberInputs \cup PathInputs \cup TemplateInputs \cup UriInputs
    \cup HttpInputs

svars == <<view, wanted, address, i, phase, found>>
kvars == <<stdin, question, busy, gathered, returned, scanned, typed>>

CutsIdle ==
  /\ text = <<>> /\ call = [op |-> "none"]
  /\ at = 0 /\ pieces = <<>> /\ balance = 0 /\ state = "idle"
SearchIdle ==
  /\ view = <<>> /\ wanted = {} /\ address = 0 /\ i = 0 /\ phase = "idle" /\ found = -1
ConsoleIdle ==
  /\ stdin = <<>> /\ question = K!NoCall /\ busy = FALSE
  /\ gathered = <<>> /\ returned = <<>> /\ scanned = 0 /\ typed = <<>>

MCInit ==
  \/ Init /\ SearchIdle /\ ConsoleIdle
  \/ CutsIdle /\ C!Init /\ ConsoleIdle
  \/ CutsIdle /\ SearchIdle /\ K!Init
MCNext ==
  \/ state # "idle" /\ Next /\ UNCHANGED <<svars, kvars>>
  \/ phase # "idle" /\ C!Next /\ UNCHANGED <<vars, kvars>>
  \/ state = "idle" /\ phase = "idle" /\ K!Next /\ UNCHANGED <<vars, svars>>
MCSpec == MCInit /\ [][MCNext]_<<vars, svars, kvars>>

=============================================================================
