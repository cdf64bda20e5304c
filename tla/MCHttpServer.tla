---------------------------- MODULE MCHttpServer ----------------------------
(* Two clients, each with a message that is answered 200 or 404, 426, or not *)
(* at all (malformed, a response, or cut off by a zero), in one segment or   *)
(* in two, cut in the header or behind it.  Pointers are of eight bytes.     *)
EXTENDS HttpServer

CONSTANTS c1, c2

Crlf == <<"cr", "lf">>
Msg(start, rest, cut) ==
  LET text == start \o Crlf \o rest
  IN  [text |-> text, ends |-> IF cut = 0 THEN <<Len(text)>> ELSE <<cut, Len(text)>>]
Get(target, version) == <<"GET", "space">> \o target \o <<"space", "HTTP/">> \o version
Field == <<"x", "x", "x", "x", "x", "x", "a", ":", "space", "a">>

MCMessages == {
  Msg(Get(<<"/">>, <<"1", ".", "1">>), Crlf, 0),
  Msg(Get(<<"/", "%", "2", "0", "a">>, <<"1", ".", "0">>), Field \o Crlf \o Crlf \o <<"a", "NUL">>, 15),
  Msg(Get(<<>>, <<"1", ".", "1">>), Crlf \o <<"a">> \o Crlf, 0),
  Msg(Get(<<"/", "a">>, <<"0", ".", "9">>), Crlf \o <<"a">>, 13),
  Msg(<<"HTTP/", "1", ".", "1", "space", "2", "0", "0", "space", "a">>, Crlf, 0),
  Msg(Get(<<"/">>, <<"1", ".", "1">>), <<"NUL">> \o Crlf \o Crlf, 0) }

MCSpaces == {"space", "tab", "cr", "lf"}
MCTrue == {TRUE}

=============================================================================
