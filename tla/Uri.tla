-------------------------------- MODULE Uri --------------------------------
(***************************************************************************)
(* The URIs of web/uri.c.  A parse has two results: whether the text was   *)
(* accepted, and the URI with what was written into it, which is kept even *)
(* where a later part is refused.                                          *)
(***************************************************************************)
EXTENDS Words

Digits == {"0", "1", "2", "3", "4", "5", "6", "7", "8", "9"}
HexDigits == Digits \cup {"A", "B", "C", "D", "E", "F", "a", "b", "c", "d", "e", "f"}
Letters == (HexDigits \ Digits) \cup {"h", "p", "s", "t", "v", "x"}

Unreserved == Letters \cup Digits \cup {"-", ".", "_", "~"}
SubDelims == {"!", "$", "&", "'", "(", ")", "*", "+", ",", ";", "="}
RegNameChars == Unreserved \cup SubDelims
UserinfoChars == RegNameChars \cup {":"}
SegmentChars == UserinfoChars \cup {"@"}
QueryChars == SegmentChars \cup {"/", "?"}

AllIn(s, chars) == \A n \in 1..Len(s) : s[n] \in chars

\* Mutant: off by one.
PctEncodedNotLast(s, n) == n + 2 < Len(s) /\ {s[n + 1], s[n + 2]} \subseteq HexDigits

PctEncoded(s, n) == n + 2 <= Len(s) /\ {s[n + 1], s[n + 2]} \subseteq HexDigits

\* Characters of the set, and escapes.
Valid(s, chars) ==
  \A n \in 1..Len(s) : s[n] \in chars \/ (s[n] = "%" /\ PctEncoded(s, n))

-----------------------------------------------------------------------------
(* uri_decode.                                                             *)

\* Only the second digit counts, from "0" or "A" on: a NUL, or a character that is none
\* of those that end or separate a path.
PctDecoded(snd) == IF snd \in {"0", "A"} THEN "NUL" ELSE "other"

\* Behind an escape a character is passed over.
Decode(s) ==
  LET from[n \in 1..Len(s) + 4] ==
        IF n > Len(s) THEN <<>>
        ELSE IF s[n] = "%" THEN <<PctDecoded(s[n + 2])>> \o from[n + 4]
        ELSE <<s[n]>> \o from[n + 1]
  IN  from[1]

\* The C string that is at the start of the characters.
Cstr(s) == Slice(s, 0, CharIndex(s, "NUL"))

-----------------------------------------------------------------------------
(* Hosts and authorities.                                                  *)

\* Behind "25" no digit is asked for, only what comes before "6" in ASCII.
NotAboveFive ==
  {"0", "1", "2", "3", "4", "5", "!", "#", "$", "%", "&", "'", "(", ")", "*", "+", ",", "-", "/"}

Octet(s) ==
  CASE Len(s) = 1 -> s[1] \in Digits
    [] Len(s) = 2 -> s[1] \in Digits \ {"0"} /\ s[2] \in Digits
    [] Len(s) = 3 ->
         /\ s[1] = "2" /\ s[2] \in {"0", "1", "2", "3", "4", "5"}
         /\ s[3] \in IF s[2] = "5" THEN NotAboveFive ELSE Digits
    [] OTHER -> FALSE

ValidIpv4(ip) ==
  LET splits == SplitByChar(ip, ".", NoOptions)
  IN  Len(ip) \in 7..15 /\ Len(splits) = 4 /\ \A n \in 1..4 : Octet(splits[n])

\* How many parts there may be does not depend on whether "::" stands for any.
ValidIpv6(ip) ==
  LET dccount == CountWord(ip, <<":", ":">>)
      splits == SplitByChar(ip, ":", RemoveEmpty)
      ipv4 == IF splits # <<>> /\ ValidIpv4(splits[Len(splits)]) /\ IsSuffix(splits[Len(splits)], ip)
              THEN 1 ELSE 0
  IN  /\ Len(ip) \in 2..45
      /\ dccount <= 1
      /\ Len(splits) <= 8 - dccount - ipv4
      /\ \A n \in 1..Len(splits) - ipv4 : Len(splits[n]) <= 4 /\ AllIn(splits[n], HexDigits)

ValidIpvfuture(ip) ==
  LET dot == CharIndex(ip, ".")
  IN  /\ Len(ip) >= 4 /\ ip[1] = "v"
      /\ dot \notin {None, Len(ip) - 1}
      /\ AllIn(Slice(ip, 1, dot), HexDigits)
      /\ AllIn(Offset(ip, dot + 1), RegNameChars \cup {":"})

ValidIpLiteral(ip) ==
  ip # <<>> /\ IF ip[1] = "v" THEN ValidIpvfuture(ip) ELSE ValidIpv6(ip)

ValidHost(host) ==
  /\ host # <<>>
  /\ IF host[1] = "[" THEN host[Len(host)] = "]" /\ ValidIpLiteral(Slice(host, 1, Len(host) - 1))
     ELSE ValidIpv4(host) \/ Valid(host, RegNameChars)

ValidPort(port) == AllIn(port, Digits)

\* The userinfo's first two characters are not looked at.
ValidAuthority(authority) ==
  LET userinfo == CharIndex(authority, "@")
      rest == Offset(authority, userinfo + 1)
      port == CharIndex(rest, ":")
  IN  /\ userinfo # None => Valid(Slice(authority, 2, userinfo), UserinfoChars)
      /\ ValidHost(Slice(rest, 0, port))
      /\ port # None => ValidPort(Offset(rest, port + 1))

-----------------------------------------------------------------------------
(* Paths.                                                                  *)

ValidSegment(segment) == Valid(segment, SegmentChars)

\* The segments, of which the one numbered nz must not be empty.
ValidSegments(path, nz) ==
  LET splits == SplitByChar(path, "/", NoOptions)
  IN  \A n \in 1..Len(splits) : ValidSegment(splits[n]) /\ (n = nz => splits[n] # <<>>)

ValidAbemptyPath(path) == path = <<>> \/ (path[1] = "/" /\ ValidSegments(path, 0))
ValidAbsolutePath(path) == path # <<>> /\ path[1] = "/" /\ ValidSegments(path, 2)
ValidRootlessPath(path) == path # <<>> /\ path[1] # "/" /\ ValidSegments(path, 1)

-----------------------------------------------------------------------------
(* URIs.  Each step goes on from what the one before gave.                 *)

Zeroed == [scheme |-> <<>>, authority |-> <<>>, path_type |-> "abempty", path |-> <<>>,
           query |-> <<>>, fragment |-> <<>>]

Start(uri) == [ok |-> TRUE, uri |-> uri]
Stops(result) == [result EXCEPT !.ok = FALSE]
Sets(result, valid, uri) ==
  IF ~result.ok THEN result ELSE IF valid THEN [result EXCEPT !.uri = uri] ELSE Stops(result)

ParseScheme(scheme, result) ==
  Sets(result, /\ scheme # <<>> /\ scheme[1] \in Letters
               /\ AllIn(scheme, Letters \cup Digits \cup {"+", "-", "."}),
       [result.uri EXCEPT !.scheme = scheme])

PathOf(uri, authority, type, path) ==
  [uri EXCEPT !.authority = authority, !.path_type = type, !.path = path]

\* What has no "//" in front, or nothing but that, is a path.
ParsePart(part, result, rootless) ==
  LET rest == Offset(part, 2)
      end == CharIndex(rest, "/")
      authority == Slice(rest, 0, end)
      path == IF end = None THEN <<>> ELSE Offset(rest, end)
  IN  CASE part = <<>> -> Sets(result, TRUE, PathOf(result.uri, <<>>, "empty", <<>>))
        [] Len(part) > 2 /\ StartsWith(part, <<"/", "/">>) ->
             Sets(result, ValidAuthority(authority) /\ ValidAbemptyPath(path),
                  PathOf(result.uri, authority, "abempty", path))
        [] OTHER ->
             IF part[1] = "/"
             THEN Sets(result, ValidAbsolutePath(part), PathOf(result.uri, <<>>, "absolute", part))
             ELSE Sets(result, ValidRootlessPath(part), PathOf(result.uri, <<>>, rootless, part))

ParseHierPart(hier, result) == ParsePart(hier, result, "rootless")
ParseRelativePart(part, result) == ParsePart(part, result, "noscheme")

ParseQuery(query, result) ==
  Sets(result, Valid(query, QueryChars), [result.uri EXCEPT !.query = query])
ParseFragment(fragment, result) ==
  Sets(result, Valid(fragment, QueryChars), [result.uri EXCEPT !.fragment = fragment])

\* A "?" starts a query wherever it is, in a fragment too: then the query ends before it
\* starts, which makes it empty.
Queried(parted, rest, end) ==
  LET query == CharIndex(rest, "?")
  IN  IF query = None THEN parted ELSE ParseQuery(Slice(rest, query + 1, end), parted)
Fragmented(queried, rest, fragment) ==
  IF fragment = None THEN queried ELSE ParseFragment(Offset(rest, fragment + 1), queried)

ParseRest(rest, result, Part(_, _)) ==
  LET query == CharIndex(rest, "?")  fragment == CharIndex(rest, "#")
      part == Slice(rest, 0, IF query = None THEN fragment ELSE query)
  IN  Fragmented(Queried(Part(part, result), rest, fragment), rest, fragment)

Schemed(raw, uri, Rest(_, _)) ==
  LET end == CharIndex(raw, ":")
  IN  IF end = None THEN Stops(Start(uri))
      ELSE Rest(Offset(raw, end + 1), ParseScheme(Slice(raw, 0, end), Start(uri)))

Parse(raw, uri) == Schemed(raw, uri, LAMBDA rest, result : ParseRest(rest, result, ParseHierPart))

ParseAbsolute(raw, uri) ==
  LET rest(s, result) == Queried(ParseHierPart(Slice(s, 0, CharIndex(s, "?")), result), s, None)
  IN  Schemed(raw, uri, rest)

\* It ends without a return: what it returns, where it gets there, is any of returns.
Returned(result, returns) == {[result EXCEPT !.ok = @ /\ r] : r \in returns}
ParseRelativeRef(raw, uri, returns) ==
  Returned(ParseRest(raw, Start(uri), ParseRelativePart), returns)

\* A scheme that was read before the first parse failed stays.
OrRelative(parsed, raw, returns) ==
  IF parsed.ok THEN {parsed} ELSE ParseRelativeRef(raw, parsed.uri, returns)
ParseUriReference(raw, uri, returns) == OrRelative(Parse(raw, uri), raw, returns)

=============================================================================
