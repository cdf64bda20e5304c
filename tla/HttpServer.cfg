\* Two clients that send, give up or abort, and a backlog that holds one of them.
CONSTANTS
  c1 = c1  c2 = c2
  Clients = {c1, c2}
  Messages <- MCMessages
  Backlog = 1
  ParseResults <- MCTrue
  Resets = TRUE
  Spaces <- MCSpaces
  PointerSize = 8
SPECIFICATION FairSpec
INVARIANTS ConnectionsAccounted RightResponse OneLateConnection
PROPERTIES EveryoneIsClosed HeadersAnswered
\* The server stops for good after server_shutdown or a failed start.
CHECK_DEADLOCK FALSE
