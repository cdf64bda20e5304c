----------------------------- MODULE HttpServer -----------------------------
(***************************************************************************)
(* The HTTP server: server_start, server_start_receiving, server_shutdown  *)
(* and the responses of web/http1.1server.c, with the handle_client of     *)
(* main.c.  The server is one thread that takes one connection at a time;  *)
(* the clients, the TCP stack between them and whoever throws the kill     *)
(* switch run beside it.                                                   *)
(*                                                                         *)
(* A message is a text that is sent in segments.  The server reads         *)
(* whatever has arrived, once, and gives it to http_parse (HttpParse).     *)
(***************************************************************************)
EXTENDS Integers, Sequences, SequencesExt

CONSTANTS
  Clients,
  Messages,      \* [text, ends]: ends[n] characters are in the first n segments
  Backlog,       \* how many connections wait to be accepted (listen)
  ParseResults,  \* what http_parse, which ends without a return, may return
  Resets,        \* whether a client may abort its connection
  Spaces, PointerSize   \* those of Words

Nobody == "nobody"

ASSUME ConstantsAssumption ==
  /\ Nobody \notin Clients
  /\ \A m \in Messages :
       /\ m.text \in Seq(ToSet(m.text)) /\ m.ends \in Seq(Nat) /\ m.ends # <<>>
       /\ \A k, n \in 1..Len(m.ends) : k <= n => m.ends[k] <= m.ends[n]
       /\ m.ends[Len(m.ends)] = Len(m.text)
  /\ Backlog \in Nat \ {0}
  /\ ParseResults \subseteq BOOLEAN /\ ParseResults # {}
  /\ Resets \in BOOLEAN
  /\ PointerSize \in Nat \ {0, 1}

VARIABLES
  pc,          \* where the server is
  queue,       \* connections made and not yet accepted, in order
  current,     \* client_fd: the client of the accepted connection, or nobody
  received,    \* segments recv gave for it; -1 when it failed
  msg,         \* what http_parse made of them; refused before that
  kill_switch,
  link,        \* link[c]: the connection as the client c sees it
  message,     \* message[c]: what c sends
  sent,        \* sent[c]: segments of it that have reached the server's side
  unread,      \* unread[c]: those of them the server has not read
  response,    \* response[c]: the status c was sent, and did not lose
  late         \* history: connections accepted since the switch was thrown

server == <<pc, queue, current, received, msg>>
client == <<link, message, sent, unread>>
vars == <<server, kill_switch, client, response, late>>

NoResponse == 0

H == INSTANCE HttpParse

Size(m) == Len(m.ends)

\* What is in the buffer once n segments are: as a C string it ends at a NUL, the first
\* of the zeros behind what was received or one that was sent.
Buffer(m, n) == H!Cstr(SubSeq(m.text, 1, m.ends[n]))

\* What http_parse makes of each message, cut off anywhere.
Parses ==
  {[text |-> text, msg |-> H!HttpParse(text)] :
     text \in UNION {{Buffer(m, n) : n \in 1..Size(m)} : m \in Messages}}

Init ==
  /\ pc = "start" /\ queue = <<>> /\ current = Nobody
  /\ received = 0 /\ msg = H!Refused /\ kill_switch = FALSE
  /\ link = [c \in Clients |-> "new"]
  /\ message \in [Clients -> Messages]
  /\ sent = [c \in Clients |-> 0] /\ unread = [c \in Clients |-> 0]
  /\ response = [c \in Clients |-> NoResponse]
  /\ late = 0

-----------------------------------------------------------------------------
(* The clients and the network.                                            *)

Listening == pc \notin {"start", "down", "dead"}

\* A connection is made before it is accepted; with the backlog full it waits.
Connect(c) ==
  /\ Listening /\ link[c] = "new" /\ Len(queue) < Backlog
  /\ link' = [link EXCEPT ![c] = "open"]
  /\ queue' = Append(queue, c)
  /\ UNCHANGED <<pc, current, received, msg, kill_switch, message, sent, unread,
                 response, late>>

Send(c) ==
  /\ link[c] = "open" /\ sent[c] < Size(message[c])
  /\ sent' = [sent EXCEPT ![c] = @ + 1]
  /\ unread' = [unread EXCEPT ![c] = @ + 1]
  /\ UNCHANGED <<server, kill_switch, link, message, response, late>>

\* The client is through with sending, or gives up; it can still be answered.
Shut(c) ==
  /\ link[c] = "open"
  /\ link' = [link EXCEPT ![c] = "shut"]
  /\ UNCHANGED <<server, kill_switch, message, sent, unread, response, late>>

Reset(c) ==
  /\ Resets /\ link[c] \in {"open", "shut"}
  /\ link' = [link EXCEPT ![c] = "reset"]
  /\ UNCHANGED <<server, kill_switch, message, sent, unread, response, late>>

ThrowSwitch ==
  /\ ~kill_switch /\ kill_switch' = TRUE
  /\ UNCHANGED <<server, client, response, late>>

-----------------------------------------------------------------------------
(* The server.                                                             *)

\* server_start: the socket listens, or the program exits.
Start ==
  /\ pc = "start" /\ pc' \in {"loop", "dead"}
  /\ UNCHANGED <<queue, current, received, msg, kill_switch, client, response, late>>

\* The switch is looked at between two connections and at no other time.
Loop ==
  /\ pc = "loop"
  /\ pc' = IF kill_switch THEN "stopped" ELSE "accept"
  /\ UNCHANGED <<queue, current, received, msg, kill_switch, client, response, late>>

Accept ==
  /\ pc = "accept" /\ queue # <<>>
  /\ current' = Head(queue) /\ queue' = Tail(queue)
  /\ received' = 0 /\ msg' = H!Refused
  /\ pc' = "recv"
  /\ late' = IF kill_switch THEN late + 1 ELSE late
  /\ UNCHANGED <<kill_switch, client, response>>

\* accept fails: a message on stderr, and back to the loop's condition.
AcceptFails ==
  /\ pc = "accept" /\ pc' = "loop"
  /\ UNCHANGED <<queue, current, received, msg, kill_switch, client, response, late>>

\* Mutant: an end of the client's data is taken for "nothing yet".
RecvRetries ==
  /\ pc = "recv"
  /\ \/ /\ link[current] # "reset" /\ unread[current] > 0
        /\ received' = unread[current]
     \/ link[current] = "reset" /\ received' = -1
  /\ unread' = [unread EXCEPT ![current] = 0]
  /\ pc' = "parse"
  /\ UNCHANGED <<queue, current, msg, kill_switch, link, message, sent, response, late>>

\* recv waits for a segment and takes all there are: once, and for as long as
\* the client likes.  It gives 0 when there will be none, -1 on a reset.
Recv ==
  /\ pc = "recv"
  /\ \/ /\ link[current] # "reset" /\ unread[current] > 0
        /\ received' = unread[current]
     \/ link[current] = "shut" /\ unread[current] = 0 /\ received' = 0
     \/ link[current] = "reset" /\ received' = -1
  /\ unread' = [unread EXCEPT ![current] = 0]
  /\ pc' = "parse"
  /\ UNCHANGED <<queue, current, msg, kill_switch, link, message, sent, response, late>>

\* Mutant: what has been received is parsed only if it is the whole message.
ReceivedAll(m) == received = Size(m)

Received(m) == received > 0

Parse ==
  /\ pc = "parse"
  /\ IF Received(message[current])
     THEN \E parse \in Parses :
            parse.text = Buffer(message[current], received) /\ msg' = parse.msg
     ELSE UNCHANGED msg
  /\ pc' = "dispatch"
  /\ UNCHANGED <<queue, current, received, kill_switch, client, response, late>>

\* A request that http_parse returned TRUE for; it ends without a return.
Answerable == msg.ok /\ msg.start.type = "request"

\* Mutant: a message that is not handled is skipped.
DispatchSkips ==
  /\ pc = "dispatch"
  /\ \E r \in ParseResults : pc' = IF r /\ Answerable THEN "handle" ELSE "loop"
  /\ UNCHANGED <<queue, current, received, msg, kill_switch, client, response, late>>

Dispatch ==
  /\ pc = "dispatch"
  /\ \E r \in ParseResults : pc' = IF r /\ Answerable THEN "handle" ELSE "close"
  /\ UNCHANGED <<queue, current, received, msg, kill_switch, client, response, late>>

\* What the target decodes to, as a C string; that of an empty one is not terminated.
IsRoot(target) == H!Cstr(H!Decode(target)) = <<"/">>

\* Mutant: the target is looked at first.
StatusesOfTarget(request) ==
  IF request.target # <<>> /\ ~IsRoot(request.target) THEN {404}
  ELSE IF request.version.major = 0 THEN {426} ELSE {200, 404}

\* handle_client: version 0.x is told to upgrade, whatever it asks for; of the
\* others "/" gets index.html, if the file can be read, and the rest nothing.
Statuses(request) ==
  IF request.version.major = 0 THEN {426}
  ELSE IF request.target = <<>> \/ IsRoot(request.target) THEN {200, 404} ELSE {404}

\* send, with its result ignored.  To a client that is gone it fails or, where
\* the connection was reset, raises SIGPIPE, which ends the program.
Handle ==
  /\ pc = "handle"
  /\ \/ /\ link[current] \in {"open", "shut"}
        /\ \E s \in Statuses(msg.start) : response' = [response EXCEPT ![current] = s]
        /\ pc' = "close"
     \/ link[current] = "reset" /\ pc' \in {"close", "dead"} /\ UNCHANGED response
  /\ UNCHANGED <<queue, current, received, msg, kill_switch, client, late>>

\* Mutant: after a connection the next one is accepted, whatever the switch says.
CloseAndAccept ==
  /\ pc = "close"
  /\ link' = [link EXCEPT ![current] = "done"]
  /\ UNCHANGED response
  /\ current' = Nobody
  /\ pc' = "accept"
  /\ UNCHANGED <<queue, received, msg, kill_switch, message, sent, unread, late>>

\* close, which resets the connection if segments were left unread: the client
\* may then lose the response.
Close ==
  /\ pc = "close"
  /\ link' = [link EXCEPT ![current] = "done"]
  /\ \/ UNCHANGED response
     \/ unread[current] > 0 /\ response' = [response EXCEPT ![current] = NoResponse]
  /\ current' = Nobody
  /\ pc' = "loop"
  /\ UNCHANGED <<queue, received, msg, kill_switch, message, sent, unread, late>>

\* server_shutdown: the connections nobody accepted are reset.
Shutdown ==
  /\ pc = "stopped" /\ pc' = "down"
  /\ link' = [c \in Clients |-> IF \E n \in 1..Len(queue) : queue[n] = c
                                THEN "done" ELSE link[c]]
  /\ queue' = <<>>
  /\ UNCHANGED <<current, received, msg, kill_switch, message, sent, unread, response, late>>

Serve == Start \/ Loop \/ Accept \/ Recv \/ Parse \/ Dispatch \/ Handle \/ Close \/ Shutdown

Next ==
  \/ Serve \/ AcceptFails \/ ThrowSwitch
  \/ \E c \in Clients : Connect(c) \/ Send(c) \/ Shut(c) \/ Reset(c)

Spec == Init /\ [][Next]_vars

\* The server runs when it can and accept does not fail for ever.  A client
\* sends its message, or gives up and says so: without that, recv has no end.
FairSpec ==
  /\ Spec
  /\ WF_vars(Serve) /\ SF_vars(Accept)
  /\ \A c \in Clients : WF_vars(Send(c) \/ Shut(c))

-----------------------------------------------------------------------------
(* Properties.                                                             *)

Waiting(c) == \E n \in 1..Len(queue) : queue[n] = c

\* Every connection is in one place: waiting, being served, or closed; none is
\* leaked by an early way out of the loop's body, none is served twice.
ConnectionsAccounted ==
  /\ \A m, n \in 1..Len(queue) : queue[m] = queue[n] => m = n
  /\ pc # "dead" => \A c \in Clients :
       link[c] \in {"open", "shut", "reset"} <=> (Waiting(c) \/ current = c)
  /\ current # Nobody => ~Waiting(current)

\* What a message says of itself: the targets and versions its first line can be cut up
\* into, and the numbers of segments that hold its header, no zero being in that.
Asks == [m \in Messages |->
  {ask \in {[target |-> SubSeq(m.text, 3, n), version |-> SubSeq(m.text, n + 3, n + 5)] :
            n \in 2..Len(m.text) - 5} :
     /\ "space" \notin ToSet(ask.target)
     /\ \E method \in H!Methods :
          IsPrefix(<<method, "space">> \o ask.target \o <<"space", H!Http>> \o ask.version \o H!Crlf,
                   m.text)}]
HeaderIn == [m \in Messages |->
  {n \in 1..Size(m) : \E k \in H!Occurrences(SubSeq(m.text, 1, m.ends[n]), H!Crlf \o H!Crlf) :
     "NUL" \notin ToSet(SubSeq(m.text, 1, k))}]
TakenForRoot(target) ==
  \/ target \in {<<>>, <<"/">>}
  \/ Len(target) > 3 /\ IsPrefix(<<"/", "%">>, target) /\ target[4] \in {"0", "A"}

\* A client is only ever sent the answer to its own message: a request of which all the
\* header had been sent.  It is told to upgrade exactly if it has version 0.x, and gets
\* the page only for "/", or what is taken for it: no target, and one that goes on with
\* an escape that ends in 0 or A.
RightResponse ==
  \A c \in Clients : response[c] # NoResponse =>
    /\ sent[c] \in HeaderIn[message[c]]
    /\ \E ask \in Asks[message[c]] :
         /\ response[c] = 426 <=> ask.version[1] = "0"
         /\ response[c] = 200 => TakenForRoot(ask.target)

\* Once the kill switch is thrown one more connection is taken, at most.
OneLateConnection == late <= 1

\* A connection that was made does not wait for ever, however many segments a
\* message comes in and whatever becomes of it.
EveryoneIsClosed ==
  \A c \in Clients : link[c] = "open" ~> (link[c] = "done" \/ pc = "dead")

\* A well-formed request whose header is there when the server turns to its client is
\* answered, whether or not its body is, unless the client aborts.
WellFormed ==
  {m \in Messages : LET whole == H!HttpParse(m.text) IN whole.ok /\ whole.start.type = "request"}
HeadersAnswered ==
  \A c \in Clients :
    (/\ current = c /\ pc = "recv"
     /\ message[c] \in WellFormed /\ unread[c] \in HeaderIn[message[c]])
    ~> (response[c] # NoResponse \/ link[c] = "reset")

=============================================================================
