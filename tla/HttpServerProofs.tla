-------------------------- MODULE HttpServerProofs --------------------------
(***************************************************************************)
(* What HttpServer is proved to do for any clients, messages and backlog:  *)
(* no connection is leaked, kept twice or served twice, after the kill     *)
(* switch at most one is taken, and a client is only sent the answer to    *)
(* its own message.                                                        *)
(*                                                                         *)
(* The last rests on what HttpParse makes of any text.  Its searches and   *)
(* splits are functions that recur from a place of the text to one further *)
(* on (IsLoop); what they give is proved from the last place backwards.    *)
(***************************************************************************)
EXTENDS HttpServer, TLAPS, SequenceTheorems, WellFoundedInduction

\* Where the server is while it has no connection of its own.
Between == {"start", "loop", "accept", "stopped", "down"}

Typed ==
  /\ queue \in Seq(Clients)
  /\ current \in Clients \cup {Nobody}
  /\ link \in [Clients -> {"new", "open", "shut", "reset", "done"}]

Distinct == \A m, n \in 1..Len(queue) : queue[m] = queue[n] => m = n

Connected(c) == link[c] \in {"open", "shut", "reset"}

Accounted == pc # "dead" => \A c \in Clients : Connected(c) <=> (Waiting(c) \/ current = c)

Held == pc # "dead" => (current = Nobody <=> pc \in Between)

CInv == Typed /\ Distinct /\ Accounted /\ Held /\ (current # Nobody => ~Waiting(current))

LEMMA CInit == Init => CInv
  BY ConstantsAssumption DEF Init, CInv, Typed, Distinct, Accounted, Held, Connected, Waiting, Between

\* The steps that leave the queue, the links and the server's own connection alone.
LEMMA StandsStill ==
  ASSUME CInv, UNCHANGED <<queue, current, link>>,
         \/ pc' = "dead"
         \/ pc # "dead" /\ (pc \in Between <=> pc' \in Between)
         \/ UNCHANGED pc
  PROVE CInv'
  BY DEF CInv, Typed, Distinct, Accounted, Held, Connected, Waiting

LEMMA ConnectKeeps == ASSUME CInv, NEW c \in Clients, Connect(c) PROVE CInv'
<1> USE DEF CInv, Typed, Distinct, Accounted, Held, Connected, Waiting, Connect, Listening
<1>1. ~Waiting(c) /\ current # c
  OBVIOUS
<1>2. Len(queue') = Len(queue) + 1
      /\ \A n \in 1..Len(queue) : queue'[n] = queue[n]
      /\ queue'[Len(queue) + 1] = c /\ queue' \in Seq(Clients)
  OBVIOUS
<1>3. Typed' /\ Held'
  BY <1>2
<1>4. Distinct'
  BY <1>1, <1>2
<1>5. \A d \in Clients : Waiting(d)' <=> Waiting(d) \/ d = c
  BY <1>2
<1>6. Accounted'
  BY <1>1, <1>5
<1>7. current' # Nobody => ~Waiting(current)'
  BY <1>1, <1>5
<1> QED
  BY <1>3, <1>4, <1>6, <1>7

LEMMA AcceptKeeps == ASSUME CInv, Accept PROVE CInv'
<1> USE DEF CInv, Typed, Distinct, Accounted, Held, Connected, Waiting, Accept, Between
<1>1. /\ queue \in Seq(Clients) /\ Len(queue) \in Nat /\ Len(queue) > 0
      /\ current' = queue[1] /\ current' \in Clients
  OBVIOUS
<1>2. Len(queue') = Len(queue) - 1 /\ \A n \in 1..Len(queue') : queue'[n] = queue[n + 1]
  OBVIOUS
<1>3. \A n \in 1..Len(queue') : n + 1 \in 1..Len(queue) /\ 1 \in 1..Len(queue) /\ n + 1 # 1
  BY <1>1, <1>2
<1>4. Typed'
  BY <1>1 DEF client
<1>5. Distinct'
  BY <1>1, <1>2, <1>3
<1>6. ~Waiting(current)'
  <2>1. \A n \in 1..Len(queue') : queue'[n] # current'
    BY <1>1, <1>2, <1>3
  <2> QED
    BY <2>1
<1>7. \A d \in Clients : Waiting(d) <=> (Waiting(d)' \/ current' = d)
  <2> SUFFICES ASSUME NEW d \in Clients PROVE Waiting(d) <=> (Waiting(d)' \/ current' = d)
    OBVIOUS
  <2>1. ASSUME NEW n \in 1..Len(queue), queue[n] = d PROVE Waiting(d)' \/ current' = d
    <3>1. CASE n = 1
      BY <2>1, <3>1, <1>1
    <3>2. CASE n # 1
      <4>1. n - 1 \in 1..Len(queue') /\ (n - 1) + 1 = n
        BY <1>1, <1>2, <3>2
      <4>2. queue'[n - 1] = d
        BY <2>1, <4>1, <1>2
      <4> QED
        BY <4>1, <4>2
    <3> QED
      BY <3>1, <3>2
  <2>2. Waiting(d)' => Waiting(d)
    BY <1>2, <1>3
  <2>3. current' = d => Waiting(d)
    BY <1>1
  <2> QED
    BY <2>1, <2>2, <2>3
<1>8. Accounted'
  <2>1. current = Nobody /\ link' = link /\ \A d \in Clients : d # Nobody
    BY ConstantsAssumption DEF client
  <2>2. \A d \in Clients : Connected(d)' <=> (Waiting(d)' \/ current' = d)
    BY <2>1, <1>7
  <2> QED
    BY <2>2
<1>9. Held'
  BY <1>1, ConstantsAssumption
<1> QED
  BY <1>4, <1>5, <1>6, <1>8, <1>9

LEMMA CloseKeeps == ASSUME CInv, Close PROVE CInv'
<1> USE DEF CInv, Typed, Distinct, Accounted, Held, Connected, Waiting, Close, Between
<1>1. current \in Clients /\ ~Waiting(current)
  OBVIOUS
<1>2. Typed' /\ Distinct' /\ Held'
  OBVIOUS
<1>3. \A c \in Clients : link'[c] = IF c = current THEN "done" ELSE link[c]
  OBVIOUS
<1>4. Accounted'
  BY <1>1, <1>3, ConstantsAssumption
<1> QED
  BY <1>2, <1>4

LEMMA ShutdownKeeps == ASSUME CInv, Shutdown PROVE CInv'
<1> USE DEF CInv, Typed, Distinct, Accounted, Held, Connected, Waiting, Shutdown, Between
<1>1. Typed' /\ Distinct' /\ Held'
  OBVIOUS
<1>2. current = Nobody /\ \A c \in Clients : ~Waiting(c)' /\ (link'[c] = IF Waiting(c) THEN "done" ELSE link[c])
  OBVIOUS
<1>3. Accounted'
  BY <1>2, ConstantsAssumption
<1> QED
  BY <1>1, <1>2, <1>3

\* A client that is through with its connection, or aborts it, still has it.
LEMMA ClientKeeps == ASSUME CInv, NEW c \in Clients, Send(c) \/ Shut(c) \/ Reset(c) PROVE CInv'
  BY DEF CInv, Typed, Distinct, Accounted, Held, Connected, Waiting, Send, Shut, Reset, server

LEMMA CNext == CInv /\ [Next]_vars => CInv'
<1> SUFFICES ASSUME CInv, [Next]_vars PROVE CInv'
  OBVIOUS
<1>1. CASE Start \/ Loop \/ AcceptFails \/ Recv \/ Parse \/ Dispatch \/ Handle
  BY <1>1, StandsStill DEF Start, Loop, AcceptFails, Recv, Parse, Dispatch, Handle, Between, client
<1>2. CASE ThrowSwitch \/ UNCHANGED vars
  BY <1>2, StandsStill DEF ThrowSwitch, vars, server, client
<1>3. CASE Accept \/ Close \/ Shutdown
  BY <1>3, AcceptKeeps, CloseKeeps, ShutdownKeeps
<1>4. CASE \E c \in Clients : Connect(c) \/ Send(c) \/ Shut(c) \/ Reset(c)
  BY <1>4, ConnectKeeps, ClientKeeps
<1> QED
  BY <1>1, <1>2, <1>3, <1>4 DEF Next, Serve

\* Every connection that was made and not yet closed is in the backlog once, or the one
\* that is being served, and never both (server_start_receiving, server_shutdown).
THEOREM NoConnectionIsLost == Spec => []ConnectionsAccounted
<1>1. CInv => ConnectionsAccounted
  BY DEF CInv, Distinct, Accounted, Connected, ConnectionsAccounted
<1> QED
  BY CInit, CNext, <1>1, PTL DEF Spec

-----------------------------------------------------------------------------
(* The kill switch.                                                        *)

\* After a late connection the switch is looked at before another is accepted.
LInv == late = 0 \/ (late = 1 /\ kill_switch /\ pc # "accept")

\* Once the kill switch is thrown one more connection is taken, at most: it is looked
\* at between two of them (the loop of server_start_receiving).
THEOREM StopsInTime == Spec => []OneLateConnection
<1>1. Init => LInv
  BY DEF Init, LInv
<1>2. LInv /\ [Next]_vars => LInv'
  <2> SUFFICES ASSUME LInv, [Next]_vars PROVE LInv'
    OBVIOUS
  <2> USE DEF LInv
  <2>1. CASE Start \/ Loop \/ AcceptFails \/ Recv \/ Parse \/ Dispatch \/ Handle
    BY <2>1 DEF Start, Loop, AcceptFails, Recv, Parse, Dispatch, Handle
  <2>2. CASE Accept \/ Close \/ Shutdown \/ ThrowSwitch
    BY <2>2 DEF Accept, Close, Shutdown, ThrowSwitch, server
  <2>3. CASE \E c \in Clients : Connect(c) \/ Send(c) \/ Shut(c) \/ Reset(c)
    BY <2>3 DEF Connect, Send, Shut, Reset, server
  <2>4. CASE UNCHANGED vars
    BY <2>4 DEF vars, server
  <2> QED
    BY <2>1, <2>2, <2>3, <2>4 DEF Next, Serve
<1>3. LInv => OneLateConnection
  BY DEF LInv, OneLateConnection
<1> QED
  BY <1>1, <1>2, <1>3, PTL DEF Spec

-----------------------------------------------------------------------------
(* Recursion over the places of a text, each time from one further on.     *)

IsLoop(f, low, top, more, glued, head, next, last) ==
  f = [n \in low..top |->
         IF n \notin more THEN last[n]
         ELSE IF n \in glued THEN head[n] \o f[next[n]] ELSE f[next[n]]]

Onward(low, top, more, next) == \A n \in more : n \in low..top => next[n] \in n + 1..top

\* What is in G where the recursion ends is in G on the way back.
Keeps(G, low, top, more, glued, head, last) ==
  /\ \A n \in low..top : n \notin more => last[n] \in G
  /\ \A n \in more : n \in low..top =>
       \A g \in G : (IF n \in glued THEN head[n] \o g ELSE g) \in G

LEMMA LoopExists ==
  ASSUME NEW low \in Nat, NEW top \in Nat, low <= top, NEW more, NEW glued, NEW head, NEW next, NEW last,
         Onward(low, top, more, next)
  PROVE  \E f : IsLoop(f, low, top, more, glued, head, next, last)
<1> DEFINE none == {k \in Nat : k <= top - low /\
                      ~\E f : IsLoop(f, top - k, top, more, glued, head, next, last)}
<1>1. ASSUME none # {} PROVE FALSE
  <2>1. PICK k \in none : \A j \in none : ~(<<j, k>> \in OpToRel(<, Nat))
    BY <1>1, WFMin, NatLessThanWellFounded
  <2>2. \A j \in none : ~(j < k)
    BY <2>1, Zenon DEF OpToRel
  <2> DEFINE m == top - k
  <2>3. /\ k \in Nat /\ m \in low..top
        /\ ~\E f : IsLoop(f, m, top, more, glued, head, next, last)
    OBVIOUS
  <2>4. \E f : \A n \in m + 1..top :
          f[n] = IF n \notin more THEN last[n]
                 ELSE IF n \in glued THEN head[n] \o f[next[n]] ELSE f[next[n]]
    <3>1. CASE k = 0
      <4>1. m + 1..top = {}
        BY <3>1
      <4> QED
        BY <4>1
    <3>2. CASE k # 0
      <4>1. k - 1 \in Nat /\ k - 1 <= top - low /\ k - 1 < k /\ top - (k - 1) = m + 1
        BY <2>3, <3>2
      <4>2. k - 1 \notin none
        BY <2>2, <4>1
      <4>3. PICK f : IsLoop(f, top - (k - 1), top, more, glued, head, next, last)
        BY <4>1, <4>2
      <4> HIDE DEF m
      <4>4. IsLoop(f, m + 1, top, more, glued, head, next, last)
        BY <4>1, <4>3
      <4> QED
        BY <4>4 DEF IsLoop
    <3> QED
      BY <3>1, <3>2
  <2>5. PICK f : \A n \in m + 1..top :
          f[n] = IF n \notin more THEN last[n]
                 ELSE IF n \in glued THEN head[n] \o f[next[n]] ELSE f[next[n]]
    BY <2>4
  <2> HIDE DEF m
  <2> DEFINE here == IF m \notin more THEN last[m]
                     ELSE IF m \in glued THEN head[m] \o f[next[m]] ELSE f[next[m]]
             g == [n \in m..top |-> IF n = m THEN here ELSE f[n]]
  <2>6. ASSUME NEW n \in m..top
        PROVE  g[n] = IF n \notin more THEN last[n]
                      ELSE IF n \in glued THEN head[n] \o g[next[n]] ELSE g[next[n]]
    <3>1. n \in more => next[n] \in m..top /\ next[n] # m /\ g[next[n]] = f[next[n]]
      <4> SUFFICES ASSUME n \in more
                   PROVE  next[n] \in m..top /\ next[n] # m /\ g[next[n]] = f[next[n]]
        OBVIOUS
      <4>1. next[n] \in n + 1..top
        BY <2>3 DEF Onward
      <4>2. next[n] \in m..top /\ next[n] # m
        BY <2>3, <4>1
      <4> HIDE DEF here
      <4> QED
        BY <4>2
    <3>2. CASE n = m
      <4>1. g[n] = here
        BY <3>2
      <4> HIDE DEF g
      <4> QED
        BY <3>1, <3>2, <4>1
    <3>3. CASE n # m
      <4>1. g[n] = f[n] /\ n \in m + 1..top
        BY <2>3, <3>3
      <4> HIDE DEF g
      <4> QED
        BY <2>5, <3>1, <4>1
    <3> QED
      BY <3>2, <3>3
  <2>7. IsLoop(g, m, top, more, glued, head, next, last)
    BY <2>6 DEF IsLoop
  <2> QED
    BY <2>3, <2>7
<1>2. top - low \in Nat /\ top - (top - low) = low
  OBVIOUS
<1>3. top - low \notin none
  BY <1>1
<1> QED
  BY <1>2, <1>3

LEMMA LoopGives ==
  ASSUME NEW low \in Nat, NEW top \in Nat, NEW more, NEW glued, NEW head, NEW next, NEW last,
         Onward(low, top, more, next),
         NEW f, IsLoop(f, low, top, more, glued, head, next, last),
         NEW G, Keeps(G, low, top, more, glued, head, last)
  PROVE  \A n \in low..top : f[n] \in G
<1> DEFINE none == {k \in Nat : top - k \in low..top /\ f[top - k] \notin G}
<1>1. ASSUME none # {} PROVE FALSE
  <2>1. PICK k \in none : \A j \in none : ~(<<j, k>> \in OpToRel(<, Nat))
    BY <1>1, WFMin, NatLessThanWellFounded
  <2>2. \A j \in none : ~(j < k)
    BY <2>1, Zenon DEF OpToRel
  <2> DEFINE m == top - k
  <2>3. k \in Nat /\ m \in low..top /\ f[m] \notin G
    OBVIOUS
  <2>4. f[m] = IF m \notin more THEN last[m]
               ELSE IF m \in glued THEN head[m] \o f[next[m]] ELSE f[next[m]]
    BY <2>3 DEF IsLoop
  <2>5. m \in more
    BY <2>3, <2>4 DEF Keeps
  <2>6. next[m] \in m + 1..top
    BY <2>3, <2>5 DEF Onward
  <2>7. f[next[m]] \in G
    <3> DEFINE j == top - next[m]
    <3>1. j \in Nat /\ j < k /\ top - j = next[m] /\ next[m] \in low..top
      BY <2>3, <2>6
    <3> QED
      BY <2>2, <3>1
  <2> HIDE DEF m
  <2>8. (IF m \in glued THEN head[m] \o f[next[m]] ELSE f[next[m]]) \in G
    BY <2>3, <2>5, <2>7 DEF Keeps
  <2> QED
    BY <2>3, <2>4, <2>5, <2>8
<1> SUFFICES ASSUME NEW n \in low..top, f[n] \notin G PROVE FALSE
  OBVIOUS
<1>2. top - n \in Nat /\ top - (top - n) = n
  OBVIOUS
<1> QED
  BY <1>1, <1>2

-----------------------------------------------------------------------------
(* Texts, and the first place of a character in them.                      *)

LEMMA LeastIs ==
  ASSUME NEW places \in SUBSET Nat
  PROVE  \/ places = {} /\ H!Least(places) = H!None
         \/ H!Least(places) \in places /\ \A n \in places : H!Least(places) <= n
<1>1. CASE places = {}
  BY <1>1 DEF H!Least
<1>2. CASE places # {}
  <2>1. PICK m \in places : \A n \in places : ~(<<n, m>> \in OpToRel(<, Nat))
    BY <1>2, WFMin, NatLessThanWellFounded
  <2>2. \A n \in places : ~(n < m)
    BY <2>1, Zenon DEF OpToRel
  <2>3. \A n \in places : m <= n
    BY <2>2
  <2>4. H!Min(places) \in places /\ \A n \in places : H!Min(places) <= n
    BY <2>3 DEF H!Min
  <2> QED
    BY <1>2, <2>4 DEF H!Least
<1> QED
  BY <1>1, <1>2

LEMMA OffsetIs ==
  ASSUME NEW S, NEW s \in Seq(S), NEW n \in 0..Len(s)
  PROVE  /\ H!Offset(s, n) \in Seq(S) /\ Len(H!Offset(s, n)) = Len(s) - n
         /\ \A m \in 1..Len(s) - n : H!Offset(s, n)[m] = s[n + m]
BY DEF H!Offset

LEMMA OffsetBehind ==
  ASSUME NEW S, NEW s \in Seq(S), NEW n \in Nat, n >= Len(s)
  PROVE  H!Offset(s, n) = <<>>
BY DEF H!Offset

LEMMA SliceIs ==
  ASSUME NEW S, NEW s \in Seq(S), NEW n \in 0..Len(s)
  PROVE  /\ H!Slice(s, 0, n) = SubSeq(s, 1, n)
         /\ SubSeq(s, 1, n) \in Seq(S) /\ Len(SubSeq(s, 1, n)) = n
         /\ \A m \in 1..n : SubSeq(s, 1, n)[m] = s[m]
BY DEF H!Slice, H!None

LEMMA SliceAll ==
  ASSUME NEW S, NEW s \in Seq(S)
  PROVE  H!Slice(s, 0, H!None) = s
BY DEF H!Slice

LEMMA CharIndexIs ==
  ASSUME NEW S, NEW s \in Seq(S), NEW c
  PROVE  \/ H!CharIndex(s, c) = H!None /\ \A m \in 1..Len(s) : s[m] # c
         \/ /\ H!CharIndex(s, c) \in 0..Len(s) - 1 /\ s[H!CharIndex(s, c) + 1] = c
            /\ \A m \in 1..H!CharIndex(s, c) : s[m] # c
<1> DEFINE places == {n \in 0..Len(s) - 1 : s[n + 1] \in {c}}
<1>1. places \in SUBSET Nat /\ H!CharIndex(s, c) = H!Least(places)
  BY DEF H!CharIndex, H!FirstCharIndex
<1>2. \A m \in 1..Len(s) : s[m] = c <=> m - 1 \in places
  <2> SUFFICES ASSUME NEW m \in 1..Len(s) PROVE s[m] = c <=> m - 1 \in places
    OBVIOUS
  <2>1. m - 1 \in 0..Len(s) - 1 /\ m - 1 + 1 = m
    OBVIOUS
  <2> QED
    BY <2>1
<1>3. \A n \in places : n \in 0..Len(s) - 1 /\ s[n + 1] = c
  OBVIOUS
<1> HIDE DEF places
<1> DEFINE first == H!Least(places)
<1>4. CASE places = {} /\ first = H!None
  BY <1>1, <1>2, <1>4
<1>5. CASE first \in places /\ \A n \in places : first <= n
  <2>1. first \in 0..Len(s) - 1 /\ s[first + 1] = c
    BY <1>3, <1>5
  <2>2. ASSUME NEW m \in 1..first, s[m] = c PROVE FALSE
    <3>1. m \in 1..Len(s)
      BY <2>1
    <3>2. m - 1 \in places
      BY <1>2, <2>2, <3>1
    <3> QED
      BY <1>5, <2>1, <3>2
  <2> QED
    BY <1>1, <2>1, <2>2
<1> QED
  BY <1>1, <1>4, <1>5, LeastIs

\* The same behind the first n characters.
LEMMA NextIs ==
  ASSUME NEW S, NEW s \in Seq(S), NEW n \in 0..Len(s), NEW c,
         NEW i, i = H!CharIndex(H!Offset(s, n), c)
  PROVE  \/ /\ i = H!None /\ \A m \in n + 1..Len(s) : s[m] # c
            /\ H!Slice(H!Offset(s, n), 0, i) = H!Offset(s, n)
         \/ /\ i \in Nat /\ n + i < Len(s) /\ s[n + i + 1] = c
            /\ \A m \in n + 1..n + i : s[m] # c
            /\ H!Slice(H!Offset(s, n), 0, i) \in Seq(S) /\ Len(H!Slice(H!Offset(s, n), 0, i)) = i
            /\ \A m \in 1..i : H!Slice(H!Offset(s, n), 0, i)[m] = s[n + m]
<1> DEFINE rest == H!Offset(s, n)
<1>1. /\ rest \in Seq(S) /\ Len(rest) = Len(s) - n
      /\ \A m \in 1..Len(s) - n : rest[m] = s[n + m]
  BY OffsetIs
<1>2. i = H!CharIndex(rest, c)
  OBVIOUS
<1> HIDE DEF rest
<1>3. CASE i = H!None /\ \A m \in 1..Len(rest) : rest[m] # c
  <2>1. ASSUME NEW m \in n + 1..Len(s) PROVE s[m] # c
    <3>1. m - n \in 1..Len(s) - n /\ n + (m - n) = m
      OBVIOUS
    <3> QED
      BY <1>1, <1>3, <3>1
  <2>2. H!Slice(rest, 0, H!None) = rest
    BY <1>1, SliceAll
  <2> QED
    BY <1>3, <2>1, <2>2 DEF rest
<1>4. CASE /\ i \in 0..Len(rest) - 1 /\ rest[i + 1] = c
           /\ \A m \in 1..i : rest[m] # c
  <2>1. i \in Nat /\ n + i < Len(s) /\ i + 1 \in 1..Len(s) - n /\ n + (i + 1) = n + i + 1
        /\ i \in 0..Len(rest)
    BY <1>1, <1>4
  <2>2. s[n + i + 1] = c
    BY <1>1, <1>4, <2>1
  <2>3. ASSUME NEW m \in n + 1..n + i PROVE s[m] # c
    <3>1. m - n \in 1..i /\ m - n \in 1..Len(s) - n /\ n + (m - n) = m
      BY <2>1
    <3> QED
      BY <1>1, <1>4, <3>1
  <2> DEFINE cut == H!Slice(rest, 0, i)
  <2>4. /\ cut \in Seq(S) /\ Len(cut) = i /\ \A m \in 1..i : cut[m] = rest[m]
    <3>1. rest \in Seq(S) /\ i \in 0..Len(rest)
      BY <1>1, <2>1
    <3>2. /\ cut = SubSeq(rest, 1, i)
          /\ SubSeq(rest, 1, i) \in Seq(S) /\ Len(SubSeq(rest, 1, i)) = i
          /\ \A m \in 1..i : SubSeq(rest, 1, i)[m] = rest[m]
      BY <3>1, SliceIs
    <3> HIDE DEF cut
    <3> QED
      BY <3>2
  <2> HIDE DEF cut
  <2>5. \A m \in 1..i : cut[m] = s[n + m]
    <3> SUFFICES ASSUME NEW m \in 1..i PROVE cut[m] = s[n + m]
      OBVIOUS
    <3>1. m \in 1..Len(s) - n
      BY <2>1
    <3> QED
      BY <1>1, <2>4, <3>1
  <2> QED
    BY <2>1, <2>2, <2>3, <2>4, <2>5 DEF rest, cut
<1> QED
  BY <1>1, <1>2, <1>3, <1>4, CharIndexIs

\* A word in a text, from the place n on.
At(s, n, word) == n + Len(word) <= Len(s) /\ \A m \in 1..Len(word) : s[n + m] = word[m]

LEMMA StartsIs ==
  ASSUME NEW S, NEW s \in Seq(S), NEW T, NEW word \in Seq(T), NEW n \in 0..Len(s)
  PROVE  H!StartsWith(H!Offset(s, n), word) <=> At(s, n, word)
<1> DEFINE rest == H!Offset(s, n)
<1>1. /\ rest \in Seq(S) /\ Len(rest) = Len(s) - n
      /\ \A m \in 1..Len(s) - n : rest[m] = s[n + m]
  BY OffsetIs
<1> HIDE DEF rest
<1>2. H!StartsWith(rest, word) <=> Len(word) <= Len(rest) /\ \A m \in 1..Len(word) : word[m] = rest[m]
  BY <1>1 DEF H!StartsWith, H!IsPrefix
<1>3. Len(word) \in Nat /\ Len(s) \in Nat
  BY LenProperties
<1>4. Len(word) <= Len(s) - n => \A m \in 1..Len(word) : m \in 1..Len(s) - n
  BY <1>3
<1>5. H!StartsWith(rest, word) <=> At(s, n, word)
  <2>1. CASE Len(word) <= Len(s) - n
    <3>1. \A m \in 1..Len(word) : rest[m] = s[n + m]
      BY <1>1, <1>4, <2>1
    <3>2. n + Len(word) <= Len(s)
      BY <1>3, <2>1
    <3> QED
      BY <1>1, <1>2, <2>1, <3>1, <3>2 DEF At
  <2>2. CASE ~(Len(word) <= Len(s) - n)
    <3>1. ~(n + Len(word) <= Len(s))
      BY <1>3, <2>2
    <3> QED
      BY <1>1, <1>2, <2>2, <3>1 DEF At
  <2> QED
    BY <2>1, <2>2
<1> QED
  BY <1>5 DEF rest

-----------------------------------------------------------------------------
(* What the searches and the splits give.                                  *)

IsSearch(f, s, word) ==
  f = [n \in 0..Len(s) + Len(word) |->
         IF H!CharIndex(H!Offset(s, n), word[1]) = H!None THEN H!None
         ELSE IF H!StartsWith(H!Offset(s, n + H!CharIndex(H!Offset(s, n), word[1])), word)
         THEN n + H!CharIndex(H!Offset(s, n), word[1])
         ELSE f[n + H!CharIndex(H!Offset(s, n), word[1]) + Len(word)]]

\* Where a word is found it is.
LEMMA WordIndexIs ==
  ASSUME NEW S, NEW s \in Seq(S), NEW T, NEW word \in Seq(T), word # <<>>
  PROVE  \/ H!WordIndex(s, word) = H!None
         \/ H!WordIndex(s, word) \in 0..Len(s) /\ At(s, H!WordIndex(s, word), word)
<1> DEFINE top == Len(s) + Len(word)
           index(n) == H!CharIndex(H!Offset(s, n), word[1])
           starts(n) == H!StartsWith(H!Offset(s, n + index(n)), word)
           more == {n \in 0..top : index(n) # H!None /\ ~starts(n)}
           next == [n \in 0..top |-> n + index(n) + Len(word)]
           last == [n \in 0..top |-> IF index(n) = H!None THEN H!None ELSE n + index(n)]
           glued == {}
           G == {H!None} \cup {k \in 0..Len(s) : At(s, k, word)}
<1>1. Len(s) \in Nat /\ Len(word) \in Nat /\ Len(word) >= 1 /\ top \in Nat /\ 0 \in Nat /\ 0 <= top
  <2>1. Len(word) # 0
    BY EmptySeq
  <2> QED
    BY <2>1, LenProperties
<1>2. ASSUME NEW n \in 0..top, index(n) # H!None
      PROVE  index(n) \in Nat /\ n + index(n) < Len(s)
  <2>1. CASE n <= Len(s)
    <3>1. n \in 0..Len(s)
      BY <1>1, <2>1
    <3>2. index(n) = H!CharIndex(H!Offset(s, n), word[1])
      OBVIOUS
    <3> HIDE DEF index
    <3> QED
      BY <1>2, <3>1, <3>2, NextIs
  <2>2. CASE ~(n <= Len(s))
    <3>1. H!Offset(s, n) = <<>>
      BY <1>1, <2>2, OffsetBehind
    <3>2. Len(<<>>) = 0
      OBVIOUS
    <3>3. H!CharIndex(<<>>, word[1]) = H!None
      BY <3>2 DEF H!CharIndex, H!FirstCharIndex, H!Least
    <3> QED
      BY <1>2, <3>1, <3>3
  <2> QED
    BY <2>1, <2>2
<1>3. \A n \in 0..top : (starts(n) /\ index(n) # H!None) => At(s, n + index(n), word)
  <2> SUFFICES ASSUME NEW n \in 0..top, starts(n), index(n) # H!None
               PROVE  At(s, n + index(n), word)
    OBVIOUS
  <2>1. n + index(n) \in 0..Len(s)
    BY <1>1, <1>2
  <2> HIDE DEF index
  <2> QED
    BY <2>1, StartsIs
<1>4. ASSUME NEW f
      PROVE  IsSearch(f, s, word) <=> IsLoop(f, 0, top, more, glued, last, next, last)
  <2> DEFINE value(n) == IF index(n) = H!None THEN H!None
                         ELSE IF starts(n) THEN n + index(n) ELSE f[n + index(n) + Len(word)]
             other(n) == IF n \notin more THEN last[n]
                         ELSE IF n \in glued THEN last[n] \o f[next[n]] ELSE f[next[n]]
  <2>1. \A n \in 0..top : value(n) = other(n)
    <3> HIDE DEF index, starts
    <3> QED
      OBVIOUS
  <2>2. IsSearch(f, s, word) <=> f = [n \in 0..top |-> value(n)]
    BY DEF IsSearch
  <2>3. IsLoop(f, 0, top, more, glued, last, next, last) <=> f = [n \in 0..top |-> other(n)]
    BY DEF IsLoop
  <2> HIDE DEF value, other
  <2>4. [n \in 0..top |-> value(n)] = [n \in 0..top |-> other(n)]
    BY <2>1
  <2> QED
    BY <2>2, <2>3, <2>4
<1>5. Onward(0, top, more, next)
  <2> SUFFICES ASSUME NEW n \in more PROVE next[n] \in n + 1..top
    BY DEF Onward
  <2>1. n \in 0..top /\ index(n) \in Nat /\ n + index(n) < Len(s)
    BY <1>2
  <2>2. next[n] = n + index(n) + Len(word)
    BY <2>1
  <2> HIDE DEF index, next
  <2> QED
    BY <1>1, <2>1, <2>2
<1>6. \E f : IsLoop(f, 0, top, more, glued, last, next, last)
  <2> HIDE DEF top, more, next, last, glued
  <2> QED
    BY <1>1, <1>5, LoopExists
<1> DEFINE from == CHOOSE f : IsSearch(f, s, word)
<1>7. H!WordIndex(s, word) = from[0]
  BY DEF H!WordIndex, IsSearch
<1>8. IsSearch(from, s, word)
  BY <1>4, <1>6
<1> HIDE DEF from
<1>9. IsLoop(from, 0, top, more, glued, last, next, last)
  BY <1>4, <1>8
<1>10. \A n \in 0..top : n \notin more => last[n] \in G
  <2> SUFFICES ASSUME NEW n \in 0..top, n \notin more PROVE last[n] \in G
    OBVIOUS
  <2>1. CASE index(n) = H!None
    BY <2>1
  <2>2. CASE index(n) # H!None
    <3>1. index(n) \in Nat /\ n + index(n) < Len(s) /\ last[n] = n + index(n)
      BY <1>2, <2>2
    <3>2. At(s, n + index(n), word)
      BY <1>3, <2>2
    <3> HIDE DEF index, last
    <3>3. n + index(n) \in 0..Len(s)
      BY <1>1, <3>1
    <3> QED
      BY <3>1, <3>2, <3>3
  <2> QED
    BY <2>1, <2>2
<1>11. \A n \in more : n \in 0..top =>
         \A g \in G : (IF n \in glued THEN last[n] \o g ELSE g) \in G
  OBVIOUS
<1>12. from[0] \in G
  <2>1. Keeps(G, 0, top, more, glued, last, last)
    BY <1>10, <1>11 DEF Keeps
  <2>2. \A n \in 0..top : from[n] \in G
    <3> HIDE DEF top, more, next, last, glued, G
    <3> QED
      BY <1>1, <1>5, <1>9, <2>1, LoopGives
  <2> QED
    BY <1>1, <2>2
<1> QED
  BY <1>7, <1>12

LEMMA NextWordIs ==
  ASSUME NEW S, NEW s \in Seq(S), NEW T, NEW word \in Seq(T), word # <<>>, NEW n \in Nat,
         NEW i, i = H!WordIndex(H!Offset(s, n), word)
  PROVE  \/ i = H!None
         \/ i \in Nat /\ n + i < Len(s) /\ At(s, n + i, word)
<1> DEFINE rest == H!Offset(s, n)
<1>1. Len(s) \in Nat /\ Len(word) \in Nat /\ Len(word) >= 1
  <2>1. Len(word) # 0
    BY EmptySeq
  <2> QED
    BY <2>1, LenProperties
<1>2. CASE n <= Len(s)
  <2>1. /\ rest \in Seq(S) /\ Len(rest) = Len(s) - n
        /\ \A m \in 1..Len(s) - n : rest[m] = s[n + m]
    BY <1>1, <1>2, OffsetIs
  <2> HIDE DEF rest
  <2>2. ASSUME i \in 0..Len(rest), At(rest, i, word)
        PROVE  i \in Nat /\ n + i < Len(s) /\ At(s, n + i, word)
    <3>1. i + Len(word) <= Len(s) - n /\ \A m \in 1..Len(word) : rest[i + m] = word[m]
      BY <2>1, <2>2 DEF At
    <3>2. i \in Nat /\ n + i < Len(s) /\ n + i + Len(word) <= Len(s)
      BY <1>1, <2>2, <3>1
    <3>3. ASSUME NEW m \in 1..Len(word) PROVE s[n + i + m] = word[m]
      <4>1. i + m \in 1..Len(s) - n /\ n + (i + m) = n + i + m
        BY <1>1, <3>1, <3>2
      <4> QED
        BY <2>1, <3>1, <4>1
    <3> QED
      BY <3>2, <3>3 DEF At
  <2>3. H!WordIndex(rest, word) = H!None
          \/ (H!WordIndex(rest, word) \in 0..Len(rest) /\ At(rest, H!WordIndex(rest, word), word))
    BY <2>1, WordIndexIs
  <2>4. i = H!WordIndex(rest, word)
    BY DEF rest
  <2> QED
    BY <2>2, <2>3, <2>4
<1>3. CASE ~(n <= Len(s))
  <2>1. rest = <<>>
    BY <1>1, <1>3, OffsetBehind
  <2>2. <<>> \in Seq(S) /\ Len(<<>>) = 0
    OBVIOUS
  <2>3. H!WordIndex(<<>>, word) = H!None
          \/ (H!WordIndex(<<>>, word) \in 0..0 /\ At(<<>>, H!WordIndex(<<>>, word), word))
    BY <2>2, WordIndexIs
  <2>4. ~(H!WordIndex(<<>>, word) \in 0..0 /\ At(<<>>, H!WordIndex(<<>>, word), word))
    BY <1>1, <2>2 DEF At
  <2> QED
    BY <2>1, <2>3, <2>4
<1> QED
  BY <1>1, <1>2, <1>3

IsIndices(f, s, word) ==
  f = [n \in 0..Len(s) |->
         IF H!WordIndex(H!Offset(s, n), word) = H!None THEN <<>>
         ELSE <<n + H!WordIndex(H!Offset(s, n), word)>>
                \o f[n + H!WordIndex(H!Offset(s, n), word) + 1]]

\* The first place of the word that is found.
LEMMA IndexWordIs ==
  ASSUME NEW S, NEW s \in Seq(S), NEW T, NEW word \in Seq(T), word # <<>>,
         H!IndexWord(s, word) # <<>>
  PROVE  /\ H!IndexWord(s, word)[1] \in 0..Len(s)
         /\ At(s, H!IndexWord(s, word)[1], word)
<1> DEFINE top == Len(s)
           index(n) == H!WordIndex(H!Offset(s, n), word)
           more == {n \in 0..top : index(n) # H!None}
           next == [n \in 0..top |-> n + index(n) + 1]
           head == [n \in 0..top |-> <<n + index(n)>>]
           last == [n \in 0..top |-> <<>>]
           G == Seq(Nat)
<1>1. top \in Nat /\ 0 \in Nat /\ 0 <= top
  BY LenProperties
<1>2. ASSUME NEW n \in 0..top, index(n) # H!None
      PROVE  index(n) \in Nat /\ n + index(n) < Len(s) /\ At(s, n + index(n), word)
  <2>1. n \in Nat /\ index(n) = H!WordIndex(H!Offset(s, n), word)
    OBVIOUS
  <2> HIDE DEF index
  <2> QED
    BY <1>2, <2>1, NextWordIs
<1>3. ASSUME NEW f
      PROVE  IsIndices(f, s, word) <=> IsLoop(f, 0, top, more, more, head, next, last)
  <2> DEFINE value(n) == IF index(n) = H!None THEN <<>> ELSE <<n + index(n)>> \o f[n + index(n) + 1]
             other(n) == IF n \notin more THEN last[n]
                         ELSE IF n \in more THEN head[n] \o f[next[n]] ELSE f[next[n]]
  <2>1. \A n \in 0..top : value(n) = other(n)
    <3> HIDE DEF index
    <3> QED
      OBVIOUS
  <2>2. IsIndices(f, s, word) <=> f = [n \in 0..top |-> value(n)]
    BY DEF IsIndices
  <2>3. IsLoop(f, 0, top, more, more, head, next, last) <=> f = [n \in 0..top |-> other(n)]
    BY DEF IsLoop
  <2> HIDE DEF value, other
  <2>4. [n \in 0..top |-> value(n)] = [n \in 0..top |-> other(n)]
    BY <2>1
  <2> QED
    BY <2>2, <2>3, <2>4
<1>4. Onward(0, top, more, next)
  <2> SUFFICES ASSUME NEW n \in more PROVE next[n] \in n + 1..top
    BY DEF Onward
  <2>1. n \in 0..top /\ index(n) \in Nat /\ n + index(n) < Len(s)
    BY <1>2
  <2>2. next[n] = n + index(n) + 1
    BY <2>1
  <2> HIDE DEF index, next
  <2> QED
    BY <1>1, <2>1, <2>2
<1>5. \E f : IsLoop(f, 0, top, more, more, head, next, last)
  <2> HIDE DEF top, more, next, last, head
  <2> QED
    BY <1>1, <1>4, LoopExists
<1> DEFINE from == CHOOSE f : IsIndices(f, s, word)
<1>6. H!IndexWord(s, word) = from[0]
  BY DEF H!IndexWord, H!Indices, IsIndices
<1>7. IsIndices(from, s, word)
  BY <1>3, <1>5
<1> HIDE DEF from
<1>8. IsLoop(from, 0, top, more, more, head, next, last)
  BY <1>3, <1>7
<1>9. Keeps(G, 0, top, more, more, head, last)
  <2>1. \A n \in 0..top : n \notin more => last[n] \in G
    OBVIOUS
  <2>2. ASSUME NEW n \in more, n \in 0..top, NEW g \in G
        PROVE  head[n] \o g \in G
    <3>1. n + index(n) \in Nat
      BY <1>2
    <3>2. head[n] = <<n + index(n)>>
      OBVIOUS
    <3> HIDE DEF index, head
    <3> QED
      BY <3>1, <3>2
  <2> HIDE DEF more, head, last, G, top
  <2> QED
    BY <2>1, <2>2 DEF Keeps
<1>10. \A n \in 0..top : from[n] \in G
  <2> HIDE DEF top, more, next, last, head, G
  <2> QED
    BY <1>1, <1>4, <1>8, <1>9, LoopGives
<1>11. from[0] = IF index(0) = H!None THEN <<>> ELSE <<0 + index(0)>> \o from[0 + index(0) + 1]
  <2>1. \A n \in 0..top : from[n] = IF index(n) = H!None THEN <<>>
                                   ELSE <<n + index(n)>> \o from[n + index(n) + 1]
    BY <1>7 DEF IsIndices
  <2>2. 0 \in 0..top
    BY <1>1
  <2> HIDE DEF index, top
  <2> QED
    BY <2>1, <2>2
<1>12. index(0) # H!None /\ 0 \in 0..top
  BY <1>1, <1>6, <1>11
<1>13. index(0) \in Nat /\ 0 + index(0) < Len(s) /\ At(s, 0 + index(0), word)
  BY <1>2, <1>12
<1>14. from[0 + index(0) + 1] \in Seq(Nat)
  BY <1>1, <1>10, <1>13
<1>15. from[0][1] = index(0)
  <2> HIDE DEF index
  <2> QED
    BY <1>11, <1>12, <1>13, <1>14
<1> HIDE DEF index
<1> QED
  BY <1>6, <1>13, <1>15

IsSplits(f, s, index, skip) ==
  f = [n \in 0..Len(s) + skip |->
         H!Kept(H!Slice(H!Offset(s, n), 0, index[n]), H!NoOptions)
           \o (IF index[n] = H!None THEN <<>> ELSE f[n + index[n] + skip])]

\* The places a search gives from n on, where it gives any.
Finds(index, s, skip) ==
  \A n \in 0..Len(s) + skip :
    index[n] = H!None \/ (index[n] \in Nat /\ n + index[n] < Len(s))

\* What the splitting from n on is made of.
Splitting(f, s, index, skip, S) ==
  \A n \in 0..Len(s) + skip :
    /\ f[n] \in Seq(Seq(S)) /\ f[n] # <<>>
    /\ index[n] = H!None => f[n] = <<H!Slice(H!Offset(s, n), 0, index[n])>>
    /\ index[n] # H!None => f[n] = <<H!Slice(H!Offset(s, n), 0, index[n])>> \o f[n + index[n] + skip]

LEMMA SplitsAre ==
  ASSUME NEW S, NEW s \in Seq(S), NEW skip \in Nat \ {0}, NEW index, Finds(index, s, skip)
  PROVE  /\ \E f : IsSplits(f, s, index, skip)
         /\ \A f : IsSplits(f, s, index, skip) => Splitting(f, s, index, skip, S)
<1> DEFINE top == Len(s) + skip
           cut(n) == H!Slice(H!Offset(s, n), 0, index[n])
           more == {n \in 0..top : index[n] # H!None}
           next == [n \in 0..top |-> n + index[n] + skip]
           head == [n \in 0..top |-> <<cut(n)>>]
           G == {g \in Seq(Seq(S)) : g # <<>>}
<1>1. Len(s) \in Nat /\ top \in Nat /\ 0 \in Nat /\ 0 <= top
  BY LenProperties
<1>2. ASSUME NEW n \in 0..top PROVE cut(n) \in Seq(S)
  <2>1. CASE n <= Len(s)
    <3>1. H!Offset(s, n) \in Seq(S) /\ Len(H!Offset(s, n)) = Len(s) - n
      BY <1>1, <2>1, OffsetIs
    <3>2. CASE index[n] = H!None
      <4>1. H!Slice(H!Offset(s, n), 0, H!None) = H!Offset(s, n)
        BY <3>1, SliceAll
      <4> QED
        BY <3>1, <3>2, <4>1
    <3>3. CASE index[n] \in Nat /\ n + index[n] < Len(s)
      <4>1. index[n] \in 0..Len(H!Offset(s, n))
        BY <1>1, <2>1, <3>1, <3>3
      <4>2. cut(n) = SubSeq(H!Offset(s, n), 1, index[n]) /\ SubSeq(H!Offset(s, n), 1, index[n]) \in Seq(S)
        BY <3>1, <4>1, SliceIs
      <4> QED
        BY <4>2
    <3> QED
      BY <3>2, <3>3 DEF Finds
  <2>2. CASE ~(n <= Len(s))
    <3>1. H!Offset(s, n) = <<>>
      BY <1>1, <2>2, OffsetBehind
    <3>2. index[n] = H!None
      BY <1>1, <2>2 DEF Finds
    <3>3. <<>> \in Seq(S)
      OBVIOUS
    <3>4. H!Slice(<<>>, 0, H!None) = <<>>
      BY <3>3, SliceAll
    <3> QED
      BY <3>1, <3>2, <3>3, <3>4
  <2> QED
    BY <2>1, <2>2
<1>3. Onward(0, top, more, next)
  <2> SUFFICES ASSUME NEW n \in more PROVE next[n] \in n + 1..top
    BY DEF Onward
  <2>1. n \in 0..top /\ index[n] \in Nat /\ n + index[n] < Len(s)
    BY DEF Finds
  <2>2. next[n] = n + index[n] + skip
    BY <2>1
  <2> HIDE DEF next
  <2> QED
    BY <1>1, <2>1, <2>2
<1>4. \A x : H!Kept(x, H!NoOptions) = <<x>>
  BY DEF H!Kept, H!NoOptions
<1>5. ASSUME NEW f
      PROVE  IsLoop(f, 0, top, more, more, head, next, head)
               <=> f = [n \in 0..top |-> IF index[n] = H!None THEN <<cut(n)>>
                                         ELSE <<cut(n)>> \o f[n + index[n] + skip]]
  <2> DEFINE value(n) == IF index[n] = H!None THEN <<cut(n)>>
                         ELSE <<cut(n)>> \o f[n + index[n] + skip]
             other(n) == IF n \notin more THEN head[n]
                         ELSE IF n \in more THEN head[n] \o f[next[n]] ELSE f[next[n]]
  <2>1. \A n \in 0..top : value(n) = other(n)
    <3> HIDE DEF cut
    <3> QED
      OBVIOUS
  <2>3. IsLoop(f, 0, top, more, more, head, next, head) <=> f = [n \in 0..top |-> other(n)]
    BY DEF IsLoop
  <2> HIDE DEF value, other
  <2>4. [n \in 0..top |-> value(n)] = [n \in 0..top |-> other(n)]
    BY <2>1
  <2> QED
    BY <2>3, <2>4 DEF value
<1>6. ASSUME NEW f
      PROVE  IsSplits(f, s, index, skip)
               <=> f = [n \in 0..top |-> IF index[n] = H!None THEN <<cut(n)>>
                                         ELSE <<cut(n)>> \o f[n + index[n] + skip]]
  <2> DEFINE value(n) == IF index[n] = H!None THEN <<cut(n)>>
                         ELSE <<cut(n)>> \o f[n + index[n] + skip]
             kept(n) == H!Kept(cut(n), H!NoOptions)
                          \o (IF index[n] = H!None THEN <<>> ELSE f[n + index[n] + skip])
  <2>1. ASSUME NEW n \in 0..top PROVE value(n) = kept(n)
    <3>1. kept(n) = <<cut(n)>> \o (IF index[n] = H!None THEN <<>> ELSE f[n + index[n] + skip])
      BY <1>4, Zenon
    <3>2. <<cut(n)>> \o <<>> = <<cut(n)>>
      BY <1>2
    <3> HIDE DEF cut, kept
    <3> QED
      BY <3>1, <3>2
  <2>2. IsSplits(f, s, index, skip) <=> f = [n \in 0..top |-> kept(n)]
    BY DEF IsSplits
  <2> HIDE DEF value, kept
  <2>3. [n \in 0..top |-> value(n)] = [n \in 0..top |-> kept(n)]
    BY <2>1
  <2> QED
    BY <2>2, <2>3 DEF value
<1>7. \E f : IsLoop(f, 0, top, more, more, head, next, head)
  <2> HIDE DEF top, more, next, head
  <2> QED
    BY <1>1, <1>3, LoopExists
<1>8. \E f : IsSplits(f, s, index, skip)
  <2> HIDE DEF top, more, next, head, cut
  <2> QED
    BY <1>5, <1>6, <1>7
<1>9. Keeps(G, 0, top, more, more, head, head)
  <2>1. ASSUME NEW n \in 0..top PROVE head[n] \in G /\ \A g \in G : head[n] \o g \in G
    <3>1. cut(n) \in Seq(S) /\ head[n] = <<cut(n)>>
      BY <1>2
    <3> HIDE DEF cut, head
    <3>2. <<cut(n)>> \in Seq(Seq(S)) /\ Len(<<cut(n)>>) = 1
      BY <3>1
    <3>3. ASSUME NEW g \in G PROVE <<cut(n)>> \o g \in G
      <4>1. <<cut(n)>> \o g \in Seq(Seq(S)) /\ Len(<<cut(n)>> \o g) = 1 + Len(g) /\ Len(g) \in Nat
        BY <3>2
      <4> QED
        BY <4>1
    <3> QED
      BY <3>1, <3>2, <3>3
  <2> HIDE DEF more, head, G, top
  <2> QED
    BY <2>1 DEF Keeps
<1>10. ASSUME NEW f, IsSplits(f, s, index, skip) PROVE Splitting(f, s, index, skip, S)
  <2>1. \A n \in 0..top : f[n] \in G
    <3>1. IsLoop(f, 0, top, more, more, head, next, head)
      <4> HIDE DEF more, next, head, cut
      <4> QED
        BY <1>5, <1>6, <1>10
    <3> HIDE DEF top, more, next, head, G
    <3> QED
      BY <1>1, <1>3, <1>9, <3>1, LoopGives
  <2>2. \A n \in 0..top : f[n] = IF index[n] = H!None THEN <<cut(n)>>
                                 ELSE <<cut(n)>> \o f[n + index[n] + skip]
    <3>1. f = [n \in 0..top |-> IF index[n] = H!None THEN <<cut(n)>>
                                 ELSE <<cut(n)>> \o f[n + index[n] + skip]]
      BY <1>6, <1>10
    <3> HIDE DEF cut
    <3> QED
      BY <3>1
  <2> QED
    BY <2>1, <2>2 DEF Splitting
<1> QED
  BY <1>8, <1>10

\* Splitting by a character.
IsCharSplits(f, s, c) ==
  f = [n \in 0..Len(s) + 1 |->
         H!Kept(H!Slice(H!Offset(s, n), 0, H!CharIndex(H!Offset(s, n), c)), H!NoOptions)
           \o (IF H!CharIndex(H!Offset(s, n), c) = H!None THEN <<>>
               ELSE f[n + H!CharIndex(H!Offset(s, n), c) + 1])]

CharIndices(s, c) == [n \in 0..Len(s) + 1 |-> H!CharIndex(H!Offset(s, n), c)]

LEMMA SplitByCharIs ==
  ASSUME NEW S, NEW s \in Seq(S), NEW c
  PROVE  \E f : /\ f[0] = H!SplitByChar(s, c, H!NoOptions)
                /\ Splitting(f, s, CharIndices(s, c), 1, S)
<1> DEFINE index == CharIndices(s, c)
<1>1. Finds(index, s, 1)
  <2> SUFFICES ASSUME NEW n \in 0..Len(s) + 1
               PROVE  index[n] = H!None \/ (index[n] \in Nat /\ n + index[n] < Len(s))
    BY DEF Finds
  <2>1. index[n] = H!CharIndex(H!Offset(s, n), c)
    BY DEF CharIndices
  <2>2. Len(s) \in Nat
    BY LenProperties
  <2> HIDE DEF index
  <2>3. CASE n <= Len(s)
    <3>1. n \in 0..Len(s)
      BY <2>2, <2>3
    <3> QED
      BY <2>1, <3>1, NextIs
  <2>4. CASE ~(n <= Len(s))
    <3>1. H!Offset(s, n) = <<>>
      BY <2>2, <2>4, OffsetBehind
    <3>2. Len(<<>>) = 0
      OBVIOUS
    <3>3. H!CharIndex(<<>>, c) = H!None
      BY <3>2 DEF H!CharIndex, H!FirstCharIndex, H!Least
    <3> QED
      BY <2>1, <3>1, <3>3
  <2> QED
    BY <2>3, <2>4
<1>2. ASSUME NEW f PROVE IsCharSplits(f, s, c) <=> IsSplits(f, s, index, 1)
  <2> DEFINE value(n) == H!Kept(H!Slice(H!Offset(s, n), 0, H!CharIndex(H!Offset(s, n), c)), H!NoOptions)
                           \o (IF H!CharIndex(H!Offset(s, n), c) = H!None THEN <<>>
                               ELSE f[n + H!CharIndex(H!Offset(s, n), c) + 1])
             other(n) == H!Kept(H!Slice(H!Offset(s, n), 0, index[n]), H!NoOptions)
                           \o (IF index[n] = H!None THEN <<>> ELSE f[n + index[n] + 1])
  <2>1. ASSUME NEW n \in 0..Len(s) + 1 PROVE value(n) = other(n)
    <3>1. index[n] = H!CharIndex(H!Offset(s, n), c)
      BY DEF CharIndices
    <3> HIDE DEF index
    <3> QED
      BY <3>1
  <2>2. IsCharSplits(f, s, c) <=> f = [n \in 0..Len(s) + 1 |-> value(n)]
    BY DEF IsCharSplits
  <2>3. IsSplits(f, s, index, 1) <=> f = [n \in 0..Len(s) + 1 |-> other(n)]
    BY DEF IsSplits
  <2> HIDE DEF value, other
  <2>4. [n \in 0..Len(s) + 1 |-> value(n)] = [n \in 0..Len(s) + 1 |-> other(n)]
    BY <2>1
  <2> QED
    BY <2>2, <2>3, <2>4
<1> HIDE DEF index
<1> DEFINE from == CHOOSE f : IsCharSplits(f, s, c)
<1>3. H!SplitByChar(s, c, H!NoOptions) = from[0]
  BY DEF H!SplitByChar, H!Splits, IsCharSplits
<1>4. 1 \in Nat \ {0}
  OBVIOUS
<1>5. /\ \E f : IsSplits(f, s, index, 1)
      /\ \A f : IsSplits(f, s, index, 1) => Splitting(f, s, index, 1, S)
  BY <1>1, <1>4, SplitsAre
<1>6. IsCharSplits(from, s, c)
  BY <1>2, <1>5
<1> HIDE DEF from
<1>7. Splitting(from, s, index, 1, S)
  BY <1>2, <1>5, <1>6
<1> QED
  BY <1>3, <1>7 DEF index

IsWordSplits(f, s, word) ==
  f = [n \in 0..Len(s) + PointerSize |->
         H!Kept(H!Slice(H!Offset(s, n), 0, H!WordIndex(H!Offset(s, n), word)), H!NoOptions)
           \o (IF H!WordIndex(H!Offset(s, n), word) = H!None THEN <<>>
               ELSE f[n + H!WordIndex(H!Offset(s, n), word) + PointerSize])]

WordIndices(s, word) == [n \in 0..Len(s) + PointerSize |-> H!WordIndex(H!Offset(s, n), word)]

LEMMA SplitByWordIs ==
  ASSUME NEW S, NEW s \in Seq(S), NEW T, NEW word \in Seq(T), word # <<>>,
         PointerSize \in Nat \ {0}
  PROVE  \E f : /\ f[0] = H!SplitByWord(s, word, H!NoOptions)
                /\ Splitting(f, s, WordIndices(s, word), PointerSize, S)
<1> DEFINE index == WordIndices(s, word)
<1>1. Finds(index, s, PointerSize)
  <2> SUFFICES ASSUME NEW n \in 0..Len(s) + PointerSize
               PROVE  index[n] = H!None \/ (index[n] \in Nat /\ n + index[n] < Len(s))
    BY DEF Finds
  <2>1. index[n] = H!WordIndex(H!Offset(s, n), word)
    BY DEF WordIndices
  <2>2. n \in Nat
    BY LenProperties
  <2> HIDE DEF index
  <2> QED
    BY <2>1, <2>2, NextWordIs
<1>2. ASSUME NEW f PROVE IsWordSplits(f, s, word) <=> IsSplits(f, s, index, PointerSize)
  <2> DEFINE value(n) == H!Kept(H!Slice(H!Offset(s, n), 0, H!WordIndex(H!Offset(s, n), word)), H!NoOptions)
                           \o (IF H!WordIndex(H!Offset(s, n), word) = H!None THEN <<>>
                               ELSE f[n + H!WordIndex(H!Offset(s, n), word) + PointerSize])
             other(n) == H!Kept(H!Slice(H!Offset(s, n), 0, index[n]), H!NoOptions)
                           \o (IF index[n] = H!None THEN <<>> ELSE f[n + index[n] + PointerSize])
  <2>1. ASSUME NEW n \in 0..Len(s) + PointerSize PROVE value(n) = other(n)
    <3>1. index[n] = H!WordIndex(H!Offset(s, n), word)
      BY DEF WordIndices
    <3> HIDE DEF index
    <3> QED
      BY <3>1
  <2>2. IsWordSplits(f, s, word) <=> f = [n \in 0..Len(s) + PointerSize |-> value(n)]
    BY DEF IsWordSplits
  <2>3. IsSplits(f, s, index, PointerSize) <=> f = [n \in 0..Len(s) + PointerSize |-> other(n)]
    BY DEF IsSplits
  <2> HIDE DEF value, other
  <2>4. [n \in 0..Len(s) + PointerSize |-> value(n)] = [n \in 0..Len(s) + PointerSize |-> other(n)]
    BY <2>1
  <2> QED
    BY <2>2, <2>3, <2>4
<1> HIDE DEF index
<1> DEFINE from == CHOOSE f : IsWordSplits(f, s, word)
<1>3. H!SplitByWord(s, word, H!NoOptions) = from[0]
  BY DEF H!SplitByWord, H!Splits, IsWordSplits
<1>5. /\ \E f : IsSplits(f, s, index, PointerSize)
      /\ \A f : IsSplits(f, s, index, PointerSize) => Splitting(f, s, index, PointerSize, S)
  BY <1>1, SplitsAre
<1>6. IsWordSplits(from, s, word)
  BY <1>2, <1>5
<1> HIDE DEF from
<1>7. Splitting(from, s, index, PointerSize, S)
  BY <1>2, <1>5, <1>6
<1> QED
  BY <1>3, <1>7 DEF index

-----------------------------------------------------------------------------
(* The parts of a line, and the line of a header.                          *)

\* A part is the text from one place to another.
Part(x, s, from, to) ==
  /\ from \in 0..Len(s) /\ to \in from..Len(s) /\ Len(x) = to - from
  /\ \A m \in 1..to - from : x[m] = s[from + m]

LastPart(f, s, n, c, S) ==
  /\ \A m \in n + 1..Len(s) : s[m] # c
  /\ Len(f[n]) = 1 /\ f[n][1] \in Seq(S) /\ Part(f[n][1], s, n, Len(s))

PartTo(f, s, n, k, c, S) ==
  /\ s[k + 1] = c /\ \A m \in n + 1..k : s[m] # c
  /\ f[n][1] \in Seq(S) /\ Part(f[n][1], s, n, k)
  /\ Len(f[n]) = 1 + Len(f[k + 1])
  /\ \A m \in 1..Len(f[k + 1]) : f[n][m + 1] = f[k + 1][m]

LEMMA SplitStep ==
  ASSUME NEW S, NEW s \in Seq(S), NEW c, NEW f, Splitting(f, s, CharIndices(s, c), 1, S),
         NEW n \in 0..Len(s)
  PROVE  \/ LastPart(f, s, n, c, S)
         \/ \E k \in n..Len(s) - 1 : PartTo(f, s, n, k, c, S)
<1> DEFINE i == H!CharIndex(H!Offset(s, n), c)
           cut == H!Slice(H!Offset(s, n), 0, i)
<1>1. Len(s) \in Nat /\ n \in 0..Len(s) + 1
  BY LenProperties
<1>2. CharIndices(s, c)[n] = i
  BY <1>1 DEF CharIndices
<1>3. /\ f[n] \in Seq(Seq(S)) /\ f[n] # <<>>
      /\ i = H!None => f[n] = <<cut>>
      /\ i # H!None => f[n] = <<cut>> \o f[n + i + 1]
  BY <1>1, <1>2 DEF Splitting
<1>4. CASE i = H!None /\ (\A m \in n + 1..Len(s) : s[m] # c) /\ cut = H!Offset(s, n)
  <2>1. /\ cut \in Seq(S) /\ Len(cut) = Len(s) - n
        /\ \A m \in 1..Len(s) - n : cut[m] = s[n + m]
    BY <1>4, OffsetIs
  <2> HIDE DEF cut, i
  <2>2. Part(cut, s, n, Len(s))
    BY <1>1, <2>1 DEF Part
  <2>3. f[n] = <<cut>>
    BY <1>3, <1>4
  <2>4. Len(f[n]) = 1 /\ f[n][1] = cut
    BY <2>3
  <2> QED
    BY <1>4, <2>1, <2>2, <2>4 DEF LastPart
<1>5. CASE /\ i \in Nat /\ n + i < Len(s) /\ s[n + i + 1] = c
           /\ \A m \in n + 1..n + i : s[m] # c
           /\ cut \in Seq(S) /\ Len(cut) = i
           /\ \A m \in 1..i : cut[m] = s[n + m]
  <2> HIDE DEF i, cut
  <2> DEFINE k == n + i
  <2>1. k \in n..Len(s) - 1 /\ k - n = i /\ k + 1 \in 0..Len(s) + 1 /\ n + i + 1 = k + 1
    BY <1>1, <1>5
  <2>2. s[k + 1] = c /\ \A m \in n + 1..k : s[m] # c
    BY <1>5
  <2>3. i # H!None
    BY <1>5 DEF H!None
  <2>4. f[n] = <<cut>> \o f[k + 1]
    BY <1>3, <2>3
  <2> HIDE DEF k
  <2>5. Part(cut, s, n, k)
    BY <1>1, <1>5, <2>1 DEF Part
  <2>6. f[k + 1] \in Seq(Seq(S))
    BY <2>1 DEF Splitting
  <2>7. /\ f[n][1] = cut /\ Len(f[n]) = 1 + Len(f[k + 1])
        /\ \A m \in 1..Len(f[k + 1]) : f[n][m + 1] = f[k + 1][m]
    <3>1. <<cut>> \in Seq(Seq(S)) /\ Len(<<cut>>) = 1 /\ <<cut>>[1] = cut
      BY <1>5
    <3> QED
      BY <2>4, <2>6, <3>1
  <2> QED
    BY <1>5, <2>1, <2>2, <2>5, <2>7 DEF PartTo
<1>6. /\ n \in 0..Len(s) /\ i = H!CharIndex(H!Offset(s, n), c)
      /\ cut = H!Slice(H!Offset(s, n), 0, i)
  OBVIOUS
<1> HIDE DEF i, cut
<1> QED
  BY <1>4, <1>5, <1>6, NextIs

\* Where there are three parts, the character is in two places.
LEMMA ThreeParts ==
  ASSUME NEW S, NEW s \in Seq(S), NEW c, Len(H!SplitByChar(s, c, H!NoOptions)) = 3
  PROVE  \E k \in 0..Len(s) - 1 : \E j \in k + 1..Len(s) - 1 :
           /\ s[k + 1] = c /\ s[j + 1] = c
           /\ H!SplitByChar(s, c, H!NoOptions)[1] \in Seq(S)
           /\ H!SplitByChar(s, c, H!NoOptions)[2] \in Seq(S)
           /\ H!SplitByChar(s, c, H!NoOptions)[3] \in Seq(S)
           /\ Part(H!SplitByChar(s, c, H!NoOptions)[1], s, 0, k)
           /\ Part(H!SplitByChar(s, c, H!NoOptions)[2], s, k + 1, j)
           /\ Part(H!SplitByChar(s, c, H!NoOptions)[3], s, j + 1, Len(s))
<1> DEFINE parts == H!SplitByChar(s, c, H!NoOptions)
<1> HIDE DEF parts
<1>1. Len(s) \in Nat
  BY LenProperties
<1>2. PICK f : f[0] = parts /\ Splitting(f, s, CharIndices(s, c), 1, S)
  BY SplitByCharIs DEF parts
<1>3. Len(f[0]) = 3
  BY <1>2 DEF parts
<1>4. PICK k \in 0..Len(s) - 1 : PartTo(f, s, 0, k, c, S)
  <2>1. 0 \in 0..Len(s)
    BY <1>1
  <2>2. LastPart(f, s, 0, c, S) \/ \E k \in 0..Len(s) - 1 : PartTo(f, s, 0, k, c, S)
    BY <1>2, <2>1, SplitStep
  <2> QED
    BY <1>3, <2>2 DEF LastPart
<1>5. k + 1 \in 0..Len(s) /\ k + 1 \in 0..Len(s) + 1
  BY <1>1
<1>6. Len(f[k + 1]) = 2
  <2>1. Len(f[k + 1]) \in Nat
    <3>1. f[k + 1] \in Seq(Seq(S))
      BY <1>2, <1>5 DEF Splitting
    <3> QED
      BY <3>1, LenProperties
  <2>2. 3 = 1 + Len(f[k + 1])
    BY <1>3, <1>4 DEF PartTo
  <2> DEFINE left == Len(f[k + 1])
  <2> HIDE DEF left
  <2>3. left \in Nat /\ 3 = 1 + left => left = 2
    OBVIOUS
  <2> QED
    BY <2>1, <2>2, <2>3 DEF left
<1>7. PICK j \in k + 1..Len(s) - 1 : PartTo(f, s, k + 1, j, c, S)
  <2>1. LastPart(f, s, k + 1, c, S) \/ \E j \in k + 1..Len(s) - 1 : PartTo(f, s, k + 1, j, c, S)
    BY <1>2, <1>5, SplitStep
  <2> QED
    BY <1>6, <2>1 DEF LastPart
<1>8. j + 1 \in 0..Len(s) /\ j + 1 \in 0..Len(s) + 1
  BY <1>1, <1>5
<1>9. Len(f[j + 1]) = 1
  <2>1. Len(f[j + 1]) \in Nat
    <3>1. f[j + 1] \in Seq(Seq(S))
      BY <1>2, <1>8 DEF Splitting
    <3> QED
      BY <3>1, LenProperties
  <2>2. 2 = 1 + Len(f[j + 1])
    BY <1>6, <1>7 DEF PartTo
  <2> DEFINE left == Len(f[j + 1])
  <2> HIDE DEF left
  <2>3. left \in Nat /\ 2 = 1 + left => left = 1
    OBVIOUS
  <2> QED
    BY <2>1, <2>2, <2>3 DEF left
<1>10. LastPart(f, s, j + 1, c, S)
  <2>1. LastPart(f, s, j + 1, c, S) \/ \E i \in j + 1..Len(s) - 1 : PartTo(f, s, j + 1, i, c, S)
    BY <1>2, <1>8, SplitStep
  <2>2. ASSUME NEW i \in j + 1..Len(s) - 1, PartTo(f, s, j + 1, i, c, S) PROVE FALSE
    <3>1. i + 1 \in 0..Len(s) + 1
      BY <1>8
    <3>2. f[i + 1] # <<>> /\ f[i + 1] \in Seq(Seq(S))
      BY <1>2, <3>1 DEF Splitting
    <3>3. Len(f[i + 1]) \in Nat /\ Len(f[i + 1]) # 0
      BY <3>2, EmptySeq, LenProperties
    <3>4. 1 = 1 + Len(f[i + 1])
      BY <1>9, <2>2 DEF PartTo
    <3> QED
      BY <3>3, <3>4
  <2> QED
    BY <2>1, <2>2
<1>11. parts[1] = f[0][1] /\ parts[2] = f[k + 1][1] /\ parts[3] = f[j + 1][1]
  <2>1. f[0][1 + 1] = f[k + 1][1] /\ f[0][2 + 1] = f[k + 1][2] /\ f[k + 1][1 + 1] = f[j + 1][1]
    <3>1. 1 \in 1..Len(f[k + 1]) /\ 2 \in 1..Len(f[k + 1]) /\ 1 \in 1..Len(f[j + 1])
      BY <1>6, <1>9
    <3> QED
      BY <1>4, <1>7, <3>1 DEF PartTo
  <2> QED
    BY <1>2, <2>1
<1>12. parts[1] \in Seq(S) /\ parts[2] \in Seq(S) /\ parts[3] \in Seq(S)
  BY <1>4, <1>7, <1>10, <1>11 DEF PartTo, LastPart
<1>13. Part(parts[1], s, 0, k) /\ Part(parts[2], s, k + 1, j) /\ Part(parts[3], s, j + 1, Len(s))
  BY <1>4, <1>7, <1>10, <1>11 DEF PartTo, LastPart
<1>14. s[k + 1] = c /\ s[j + 1] = c
  BY <1>4, <1>7 DEF PartTo
<1> QED
  BY <1>12, <1>13, <1>14 DEF parts

-----------------------------------------------------------------------------
(* A request and the text it is in.                                        *)

LEMMA FirstLine ==
  ASSUME NEW S, NEW s \in Seq(S), NEW T, NEW word \in Seq(T), word # <<>>,
         PointerSize \in Nat \ {0}
  PROVE  /\ H!SplitByWord(s, word, H!NoOptions)[1] \in Seq(S)
         /\ \E i \in 0..Len(s) : /\ Part(H!SplitByWord(s, word, H!NoOptions)[1], s, 0, i)
                                 /\ i = Len(s) \/ At(s, i, word)
<1> DEFINE lines == H!SplitByWord(s, word, H!NoOptions)
           index == WordIndices(s, word)
           rest == H!Offset(s, 0)
           cut == H!Slice(rest, 0, index[0])
<1> HIDE DEF lines, index
<1>1. Len(s) \in Nat /\ 0 \in 0..Len(s) /\ 0 \in 0..Len(s) + PointerSize /\ 0 \in Nat
  BY LenProperties
<1>2. PICK f : f[0] = lines /\ Splitting(f, s, index, PointerSize, S)
  BY SplitByWordIs DEF lines, index
<1>3. index[0] = H!WordIndex(rest, word)
  BY <1>1 DEF index, WordIndices
<1>4. index[0] = H!None \/ (index[0] \in Nat /\ 0 + index[0] < Len(s) /\ At(s, 0 + index[0], word))
  BY <1>1, <1>3, NextWordIs
<1>5. /\ rest \in Seq(S) /\ Len(rest) = Len(s) - 0
      /\ \A m \in 1..Len(s) - 0 : rest[m] = s[0 + m]
  BY <1>1, OffsetIs
<1>6. /\ rest \in Seq(S) /\ Len(rest) = Len(s) /\ \A m \in 1..Len(s) : rest[m] = s[0 + m]
  BY <1>1, <1>5
<1> HIDE DEF rest
<1>7. lines[1] = cut
  <2>1. CASE index[0] = H!None
    <3>1. lines = <<cut>>
      BY <1>1, <1>2, <2>1 DEF Splitting, rest
    <3> HIDE DEF cut
    <3> QED
      BY <3>1
  <2>2. CASE index[0] # H!None
    <3>0. lines = <<cut>> \o f[0 + index[0] + PointerSize]
      BY <1>1, <1>2, <2>2 DEF Splitting, rest
    <3>1. lines = <<cut>> \o f[0 + index[0] + PointerSize] /\ 0 + index[0] + PointerSize \in 0..Len(s) + PointerSize
      BY <1>1, <1>4, <2>2, <3>0
    <3>2. f[0 + index[0] + PointerSize] \in Seq(Seq(S))
      BY <1>2, <3>1 DEF Splitting
    <3> HIDE DEF cut
    <3>3. \A g \in Seq(Seq(S)) : (<<cut>> \o g)[1] = cut
      OBVIOUS
    <3> QED
      BY <3>1, <3>2, <3>3
  <2> QED
    BY <2>1, <2>2
<1>8. CASE index[0] = H!None
  <2>1. cut = rest
    BY <1>6, <1>8, SliceAll
  <2>2. Part(rest, s, 0, Len(s))
    BY <1>1, <1>6 DEF Part
  <2>3. Len(s) \in 0..Len(s)
    BY <1>1
  <2> QED
    BY <1>6, <1>7, <2>1, <2>2, <2>3 DEF lines
<1>9. CASE index[0] \in Nat /\ 0 + index[0] < Len(s) /\ At(s, 0 + index[0], word)
  <2> DEFINE i == index[0]
  <2> HIDE DEF i
  <2>1. i \in 0..Len(s) /\ i \in 0..Len(rest) /\ At(s, i, word)
    <3>1. 0 + i = i
      BY <1>9 DEF i
    <3> QED
      BY <1>1, <1>6, <1>9, <3>1 DEF i
  <2>2. /\ cut = SubSeq(rest, 1, i)
        /\ SubSeq(rest, 1, i) \in Seq(S) /\ Len(SubSeq(rest, 1, i)) = i
        /\ \A m \in 1..i : SubSeq(rest, 1, i)[m] = rest[m]
    BY <1>6, <2>1, SliceIs DEF i
  <2>3. cut \in Seq(S) /\ Len(cut) = i /\ \A m \in 1..i : cut[m] = s[0 + m]
    <3> HIDE DEF cut
    <3> QED
      BY <1>1, <1>6, <2>1, <2>2
  <2> HIDE DEF cut
  <2>4. Part(cut, s, 0, i)
    BY <1>1, <2>1, <2>3 DEF Part
  <2> QED
    BY <1>7, <2>1, <2>3, <2>4 DEF lines
<1> QED
  BY <1>4, <1>8, <1>9

\* What has "\r\n\r\n" in one place has "\r\n" there, and so has what it is cut from.
LEMMA CrlfIs ==
  /\ H!Crlf \in Seq({"cr", "lf"}) /\ H!Crlf # <<>> /\ Len(H!Crlf) = 2
  /\ H!Crlf[1] = "cr" /\ H!Crlf[2] = "lf"
  /\ H!Crlf \o H!Crlf \in Seq({"cr", "lf"}) /\ H!Crlf \o H!Crlf # <<>>
  /\ Len(H!Crlf \o H!Crlf) = 4
  /\ (H!Crlf \o H!Crlf)[1] = "cr" /\ (H!Crlf \o H!Crlf)[2] = "lf"
<1>1. /\ H!Crlf \in Seq({"cr", "lf"}) /\ Len(H!Crlf) = 2 /\ H!Crlf # <<>>
      /\ H!Crlf[1] = "cr" /\ H!Crlf[2] = "lf"
  BY DEF H!Crlf
<1>2. /\ H!Crlf \o H!Crlf \in Seq({"cr", "lf"}) /\ Len(H!Crlf \o H!Crlf) = 4
      /\ (H!Crlf \o H!Crlf)[1] = "cr" /\ (H!Crlf \o H!Crlf)[2] = "lf"
  <2> DEFINE word == H!Crlf
  <2> HIDE DEF word
  <2>1. word \in Seq({"cr", "lf"}) /\ Len(word) = 2 /\ word[1] = "cr" /\ word[2] = "lf"
    BY <1>1 DEF word
  <2>2. /\ word \o word \in Seq({"cr", "lf"}) /\ Len(word \o word) = Len(word) + Len(word)
        /\ \A i \in 1..Len(word) + Len(word) :
             (word \o word)[i] = IF i <= Len(word) THEN word[i] ELSE word[i - Len(word)]
    BY <2>1, ConcatProperties
  <2>3. Len(word \o word) = 4 /\ (word \o word)[1] = "cr" /\ (word \o word)[2] = "lf"
    BY <2>1, <2>2
  <2> QED
    BY <2>2, <2>3 DEF word
<1>3. H!Crlf \o H!Crlf # <<>>
  BY <1>2
<1> QED
  BY <1>1, <1>2, <1>3

LEMMA HeaderLine ==
  ASSUME NEW S, NEW raw \in Seq(S), NEW k \in 0..Len(raw), At(raw, k, H!Crlf \o H!Crlf),
         PointerSize \in Nat \ {0}
  PROVE  /\ H!HeaderLines(H!Slice(raw, 0, k))[1] \in Seq(S)
         /\ \E i \in 0..Len(raw) : /\ Part(H!HeaderLines(H!Slice(raw, 0, k))[1], raw, 0, i)
                                   /\ At(raw, i, H!Crlf)
<1> DEFINE header == H!Slice(raw, 0, k)
           line == H!HeaderLines(header)[1]
<1>1. Len(raw) \in Nat
  BY LenProperties
<1>2. /\ header \in Seq(S) /\ Len(header) = k /\ \A m \in 1..k : header[m] = raw[m]
  <2>1. header = SubSeq(raw, 1, k)
    BY SliceIs
  <2>2. /\ SubSeq(raw, 1, k) \in Seq(S) /\ Len(SubSeq(raw, 1, k)) = k
        /\ \A m \in 1..k : SubSeq(raw, 1, k)[m] = raw[m]
    BY SliceIs
  <2> QED
    BY <2>1, <2>2
<1> HIDE DEF header
<1>3. At(raw, k, H!Crlf)
  <2> DEFINE four == H!Crlf \o H!Crlf
  <2>1. Len(four) = 4 /\ four[1] = "cr" /\ four[2] = "lf"
    BY CrlfIs
  <2> HIDE DEF four
  <2>2. k + 4 <= Len(raw) /\ \A m \in 1..4 : raw[k + m] = four[m]
    BY <2>1 DEF At, four
  <2> QED
    BY <1>1, <2>1, <2>2, CrlfIs DEF At
<1>4. line = H!SplitByWord(header, H!Crlf, H!NoOptions)[1]
  BY DEF H!HeaderLines
<1>5. /\ line \in Seq(S)
      /\ \E i \in 0..Len(header) : Part(line, header, 0, i) /\ (i = Len(header) \/ At(header, i, H!Crlf))
  <2>1. H!Crlf \in Seq({"cr", "lf"}) /\ H!Crlf # <<>>
    BY CrlfIs
  <2> HIDE DEF line
  <2> QED
    BY <1>2, <1>4, <2>1, FirstLine
<1> HIDE DEF line
<1>6. PICK i \in 0..Len(header) : Part(line, header, 0, i) /\ (i = Len(header) \/ At(header, i, H!Crlf))
  BY <1>5
<1>7. i \in 0..Len(raw) /\ i \in 0..k
  BY <1>1, <1>2, <1>6
<1>8. Part(line, raw, 0, i)
  <2>1. Len(line) = i - 0 /\ \A m \in 1..i - 0 : line[m] = header[0 + m]
    BY <1>6 DEF Part
  <2>2. ASSUME NEW m \in 1..i - 0 PROVE line[m] = raw[0 + m]
    <3>1. m \in 1..k /\ 0 + m = m
      BY <1>7
    <3> QED
      BY <1>2, <2>1, <3>1
  <2> QED
    BY <1>7, <2>1, <2>2 DEF Part
<1>9. At(raw, i, H!Crlf)
  <2>1. CASE i = Len(header)
    BY <1>2, <1>3, <2>1
  <2>2. CASE At(header, i, H!Crlf)
    <3>1. i + 2 <= k /\ \A m \in 1..2 : header[i + m] = H!Crlf[m]
      BY <1>2, <2>2, CrlfIs DEF At
    <3>2. ASSUME NEW m \in 1..2 PROVE raw[i + m] = H!Crlf[m]
      <4>1. i + m \in 1..k
        BY <1>7, <3>1
      <4> QED
        BY <1>2, <3>1, <4>1
    <3>3. i + 2 <= Len(raw)
      BY <1>1, <1>7, <3>1
    <3> QED
      BY <3>2, <3>3, CrlfIs DEF At
  <2> QED
    BY <1>6, <2>1, <2>2
<1> QED
  BY <1>5, <1>7, <1>8, <1>9 DEF line, header

\* A request line, and what is made of it.
RequestIn(line, start, S) ==
  \E j \in 2..Len(line) :
    /\ Len(line) = j + 5
    /\ line[1] \in H!Methods /\ line[2] = "space" /\ line[j + 1] = "space"
    /\ line[j + 2] = H!Http /\ line[j + 3] \in H!Digits
    /\ start.target \in Seq(S) /\ Part(start.target, line, 2, j) /\ "space" \notin ToSet(start.target)
    /\ H!Form(start.target) # "none"
    /\ start.version.major = H!Value(line[j + 3])

LEMMA RequestLineIs ==
  ASSUME NEW S, NEW line \in Seq(S), NEW start, start = H!ParseStartLine(line),
         start.ok, start.type = "request"
  PROVE  RequestIn(line, start, S)
<1> DEFINE parts == H!SplitByChar(line, "space", H!NoOptions)
           target == H!ParseTarget(parts[2])
           version == H!ParseVersion(parts[3])
<1> HIDE DEF parts
<1>1. H!Refused.ok = FALSE
  BY DEF H!Refused
<1>2. start = H!ParseRequestLine(line)
  <2>1. H!ParseStatusLine(line) = H!Refused \/ H!ParseStatusLine(line).type = "response"
    BY DEF H!ParseStatusLine
  <2> QED
    BY <1>1, <2>1 DEF H!ParseStartLine, H!FirstOf
<1>3. /\ Len(parts) = 3 /\ Len(parts[1]) = 1 /\ parts[1][1] \in H!Methods
      /\ start = H!Requested(parts[1][1], target, version)
  <2>1. H!ParseRequestLine(line)
          = IF Len(parts) = 3 /\ Len(parts[1]) = 1 /\ parts[1][1] \in H!Methods
            THEN H!Requested(parts[1][1], target, version) ELSE H!Refused
    BY DEF H!ParseRequestLine, parts
  <2> HIDE DEF target, version
  <2> QED
    BY <1>1, <1>2, <2>1
<1>4. target.ok /\ version.ok /\ start.target = target.target /\ start.version = version
  <2> HIDE DEF target, version
  <2> QED
    BY <1>1, <1>3 DEF H!Requested
<1>5. /\ "space" \notin ToSet(parts[2]) /\ H!Form(parts[2]) # "none" /\ target.target = parts[2]
  <2>1. target = IF "space" \in ToSet(parts[2]) THEN H!Refused ELSE H!Formed(parts[2], H!Form(parts[2]))
    BY DEF H!ParseTarget, ToSet, H!ToSet
  <2> DEFINE form == H!Form(parts[2])
  <2> HIDE DEF target, form
  <2>2. "space" \notin ToSet(parts[2]) /\ target = H!Formed(parts[2], form)
    BY <1>1, <1>4, <2>1 DEF form
  <2>3. form # "none" /\ target.target = parts[2]
    BY <1>1, <1>4, <2>2 DEF H!Formed
  <2> QED
    BY <2>2, <2>3 DEF form
<1>6. /\ Len(parts[3]) = 4 /\ parts[3][1] = H!Http /\ parts[3][2] \in H!Digits
      /\ version.major = H!Value(parts[3][2])
  BY <1>1, <1>4 DEF H!ParseVersion
<1>7. PICK k \in 0..Len(line) - 1 : \E j \in k + 1..Len(line) - 1 :
           /\ line[k + 1] = "space" /\ line[j + 1] = "space"
           /\ parts[1] \in Seq(S) /\ parts[2] \in Seq(S) /\ parts[3] \in Seq(S)
           /\ Part(parts[1], line, 0, k)
           /\ Part(parts[2], line, k + 1, j)
           /\ Part(parts[3], line, j + 1, Len(line))
  BY <1>3, ThreeParts DEF parts
<1>8. PICK j \in k + 1..Len(line) - 1 :
           /\ line[k + 1] = "space" /\ line[j + 1] = "space"
           /\ parts[1] \in Seq(S) /\ parts[2] \in Seq(S) /\ parts[3] \in Seq(S)
           /\ Part(parts[1], line, 0, k)
           /\ Part(parts[2], line, k + 1, j)
           /\ Part(parts[3], line, j + 1, Len(line))
  BY <1>7
<1>9. Len(line) \in Nat
  BY LenProperties
<1>10. k = 1 /\ line[1] = parts[1][1]
  <2>1. Len(parts[1]) = k - 0 /\ \A m \in 1..k - 0 : parts[1][m] = line[0 + m]
    BY <1>8 DEF Part
  <2>2. k = 1
    <3>1. 1 = k - 0
      BY <1>3, <2>1
    <3>2. k \in Nat
      OBVIOUS
    <3> QED
      BY <3>1, <3>2
  <2>3. 1 \in 1..k - 0 /\ 0 + 1 = 1
    BY <2>2
  <2> QED
    BY <2>1, <2>2, <2>3
<1>11. /\ j \in 2..Len(line) /\ line[2] = "space" /\ line[j + 1] = "space"
       /\ Part(parts[2], line, 2, j) /\ Part(parts[3], line, j + 1, Len(line))
  <2>1. k + 1 = 2
    BY <1>10
  <2> QED
    BY <1>8, <1>9, <2>1
<1>12. Len(line) = j + 5 /\ line[j + 2] = parts[3][1] /\ line[j + 3] = parts[3][2]
  <2>1. /\ Len(parts[3]) = Len(line) - (j + 1)
        /\ \A m \in 1..Len(line) - (j + 1) : parts[3][m] = line[j + 1 + m]
    BY <1>11 DEF Part
  <2>2. Len(line) = j + 5
    <3>1. 4 = Len(line) - (j + 1)
      BY <1>6, <2>1
    <3>2. j \in Nat
      BY <1>11
    <3> QED
      BY <1>9, <3>1, <3>2
  <2>3. 1 \in 1..Len(line) - (j + 1) /\ 2 \in 1..Len(line) - (j + 1) /\ j + 1 + 1 = j + 2 /\ j + 1 + 2 = j + 3
    BY <1>11, <2>2
  <2> QED
    BY <2>1, <2>2, <2>3
<1>13. /\ start.target = parts[2] /\ start.version.major = H!Value(parts[3][2]) /\ parts[2] \in Seq(S)
  BY <1>4, <1>5, <1>6, <1>8
<1> HIDE DEF target, version
<1> QED
  BY <1>3, <1>5, <1>6, <1>10, <1>11, <1>12, <1>13 DEF RequestIn

LEMMA ParsedIs ==
  ASSUME NEW S, NEW raw \in Seq(S), NEW whole, whole = H!HttpParse(raw),
         whole.ok, whole.start.type = "request"
  PROVE  /\ \E k \in 0..Len(raw) : At(raw, k, H!Crlf \o H!Crlf)
         /\ \E line \in Seq(S) : \E i \in 0..Len(raw) :
              Part(line, raw, 0, i) /\ At(raw, i, H!Crlf) /\ RequestIn(line, whole.start, S)
<1> DEFINE end == H!HeaderEnd(raw)
           breaks == H!IndexWord(raw, H!Crlf \o H!Crlf)
           lines == H!HeaderLines(H!Slice(raw, 0, end))
           line == lines[1]
           start == H!ParseStartLine(line)
           fields == H!ParseFieldLines(Tail(lines))
<1>1. H!Refused.ok = FALSE
  BY DEF H!Refused
<1>2. whole = IF end = H!None THEN H!Refused ELSE H!Message(H!Offset(raw, end + 4), start, fields)
  BY DEF H!HttpParse
<1>3. end # H!None /\ start.ok /\ whole.start = start
  <2> HIDE DEF end, start, fields
  <2> QED
    BY <1>1, <1>2 DEF H!Message
<1>4. end \in 0..Len(raw) /\ At(raw, end, H!Crlf \o H!Crlf)
  <2>1. end = IF breaks = <<>> THEN H!None ELSE breaks[1]
    BY DEF H!HeaderEnd
  <2>2. breaks # <<>> /\ end = breaks[1]
    <3> HIDE DEF end, breaks
    <3> QED
      BY <1>3, <2>1
  <2>3. H!Crlf \o H!Crlf \in Seq({"cr", "lf"}) /\ H!Crlf \o H!Crlf # <<>>
    BY CrlfIs
  <2>4. breaks[1] \in 0..Len(raw) /\ At(raw, breaks[1], H!Crlf \o H!Crlf)
    BY <2>2, <2>3, IndexWordIs
  <2> QED
    BY <2>2, <2>4
<1>5. PointerSize \in Nat \ {0}
  BY ConstantsAssumption
<1> HIDE DEF end
<1>6. /\ line \in Seq(S)
      /\ \E i \in 0..Len(raw) : Part(line, raw, 0, i) /\ At(raw, i, H!Crlf)
  BY <1>4, <1>5, HeaderLine
<1> HIDE DEF line
<1>7. RequestIn(line, start, S)
  BY <1>3, <1>6, RequestLineIs
<1> HIDE DEF start
<1> QED
  BY <1>3, <1>4, <1>6, <1>7

\* What is in the buffer is the text up to the first NUL, or to what was sent.
Begins(raw, text, n) ==
  /\ Len(raw) <= n /\ n <= Len(text)
  /\ \A k \in 1..Len(raw) : raw[k] = text[k] /\ raw[k] # "NUL"

LEMMA EndsIn ==
  ASSUME NEW m \in Messages, NEW n \in 1..Size(m)
  PROVE  m.ends[n] \in 0..Len(m.text)
<1>1. /\ m.text \in Seq(ToSet(m.text)) /\ m.ends \in Seq(Nat) /\ m.ends # <<>>
      /\ \A k, j \in 1..Len(m.ends) : k <= j => m.ends[k] <= m.ends[j]
      /\ m.ends[Len(m.ends)] = Len(m.text)
  BY ConstantsAssumption
<1> DEFINE ends == m.ends
<1> HIDE DEF ends
<1>2. Len(ends) \in Nat /\ n \in 1..Len(ends) /\ Len(ends) \in 1..Len(ends) /\ n <= Len(ends)
  BY <1>1 DEF Size, ends
<1>3. ends[n] <= ends[Len(ends)] /\ ends[n] \in Nat
  BY <1>1, <1>2 DEF ends
<1>4. Len(m.text) \in Nat
  BY <1>1, LenProperties
<1> QED
  BY <1>1, <1>3, <1>4 DEF ends

LEMMA CstrIs ==
  ASSUME NEW S, NEW s \in Seq(S)
  PROVE  /\ H!Cstr(s) \in Seq(S) /\ Len(H!Cstr(s)) <= Len(s)
         /\ \A k \in 1..Len(H!Cstr(s)) : H!Cstr(s)[k] = s[k] /\ s[k] # "NUL"
         /\ Len(H!Cstr(s)) < Len(s) => s[Len(H!Cstr(s)) + 1] = "NUL"
<1> DEFINE i == H!CharIndex(s, "NUL")
           c == H!Slice(s, 0, i)
<1>1. H!Cstr(s) = c
  BY DEF H!Cstr
<1>2. Len(s) \in Nat
  BY LenProperties
<1>3. CASE i = H!None /\ \A k \in 1..Len(s) : s[k] # "NUL"
  <2>1. c = s
    BY <1>3, SliceAll
  <2> QED
    BY <1>1, <1>2, <1>3, <2>1
<1>4. CASE i \in 0..Len(s) - 1 /\ s[i + 1] = "NUL" /\ \A k \in 1..i : s[k] # "NUL"
  <2>0. i \in 0..Len(s)
    BY <1>2, <1>4
  <2>1. /\ c = SubSeq(s, 1, i)
        /\ SubSeq(s, 1, i) \in Seq(S) /\ Len(SubSeq(s, 1, i)) = i
        /\ \A k \in 1..i : SubSeq(s, 1, i)[k] = s[k]
    BY <2>0, SliceIs
  <2>2. c \in Seq(S) /\ Len(c) = i /\ \A k \in 1..i : c[k] = s[k]
    BY <2>1
  <2> HIDE DEF c, i
  <2> QED
    BY <1>1, <1>2, <1>4, <2>0, <2>2
<1> QED
  BY <1>3, <1>4, CharIndexIs

LEMMA BufferIs ==
  ASSUME NEW m \in Messages, NEW n \in 1..Size(m)
  PROVE  Buffer(m, n) \in Seq(ToSet(m.text)) /\ Begins(Buffer(m, n), m.text, m.ends[n])
<1> DEFINE top == m.ends[n]
           s == SubSeq(m.text, 1, top)
           S == ToSet(m.text)
<1>1. m.text \in Seq(S)
  BY ConstantsAssumption
<1>2. top \in 0..Len(m.text) /\ Len(m.text) \in Nat
  BY <1>1, EndsIn, LenProperties
<1> HIDE DEF top, S
<1>3. s \in Seq(S) /\ Len(s) = top /\ \A k \in 1..top : s[k] = m.text[k]
  BY <1>1, <1>2, SliceIs
<1>4. Buffer(m, n) = H!Cstr(s)
  BY DEF Buffer, top
<1> HIDE DEF s
<1> DEFINE raw == H!Cstr(s)
<1> HIDE DEF raw
<1>5. /\ raw \in Seq(S) /\ Len(raw) <= Len(s)
      /\ \A k \in 1..Len(raw) : raw[k] = s[k] /\ s[k] # "NUL"
  BY <1>3, CstrIs DEF raw
<1>6. Begins(raw, m.text, top)
  <2>1. Len(raw) \in Nat /\ Len(raw) <= top /\ top <= Len(m.text)
    BY <1>2, <1>3, <1>5, LenProperties
  <2>2. \A k \in 1..Len(raw) : k \in 1..top
    BY <1>2, <2>1
  <2> QED
    BY <1>3, <1>5, <2>1, <2>2 DEF Begins
<1> QED
  BY <1>4, <1>5, <1>6 DEF raw, top, S

LEMMA ValueZero == ASSUME NEW d \in H!Digits PROVE H!Value(d) = 0 <=> d = "0"
<1> DEFINE order == H!DigitsInOrder
<1>1. /\ order[1] = "0" /\ order[2] = "1" /\ order[3] = "2" /\ order[4] = "3" /\ order[5] = "4"
      /\ order[6] = "5" /\ order[7] = "6" /\ order[8] = "7" /\ order[9] = "8" /\ order[10] = "9"
  BY DEF H!DigitsInOrder
<1> HIDE DEF order
<1>2. \E n \in 0..9 : order[n + 1] = d
  <2>1. \A n \in 0..9 : order[n + 1] = d => \E k \in 0..9 : order[k + 1] = d
    OBVIOUS
  <2>2. /\ order[0 + 1] = "0" /\ order[1 + 1] = "1" /\ order[2 + 1] = "2" /\ order[3 + 1] = "3"
        /\ order[4 + 1] = "4" /\ order[5 + 1] = "5" /\ order[6 + 1] = "6" /\ order[7 + 1] = "7"
        /\ order[8 + 1] = "8" /\ order[9 + 1] = "9"
    BY <1>1
  <2>3. d \in {"0", "1", "2", "3", "4", "5", "6", "7", "8", "9"}
    BY DEF H!Digits
  <2> QED
    BY <2>2, <2>3
<1>3. H!Value(d) \in 0..9 /\ order[H!Value(d) + 1] = d
  BY <1>2 DEF H!Value, order
<1>4. ASSUME H!Value(d) = 0 PROVE d = "0"
  BY <1>1, <1>3, <1>4
<1>5. ASSUME d = "0" PROVE H!Value(d) = 0
  <2> DEFINE v == H!Value(d)
  <2> HIDE DEF v
  <2>1. v \in 0..9 /\ order[v + 1] = "0"
    BY <1>3, <1>5 DEF v
  <2>2. v \in {0, 1, 2, 3, 4, 5, 6, 7, 8, 9}
    BY <2>1
  <2>3. v = 0
    BY <1>1, <2>1, <2>2
  <2> QED
    BY <2>3 DEF v
<1> QED
  BY <1>4, <1>5

LEMMA PartIs ==
  ASSUME NEW S, NEW s \in Seq(S), NEW x \in Seq(S), NEW from \in Nat, NEW to \in Nat,
         Part(x, s, from, to)
  PROVE  x = SubSeq(s, from + 1, to)
<1> DEFINE cut == SubSeq(s, from + 1, to)
<1>1. /\ Len(s) \in Nat /\ from <= to /\ to <= Len(s) /\ Len(x) = to - from
      /\ \A m \in 1..to - from : x[m] = s[from + m]
  BY LenProperties DEF Part
<1>2. \A k \in from + 1..to : s[k] \in S
  <2> SUFFICES ASSUME NEW k \in from + 1..to PROVE s[k] \in S
    OBVIOUS
  <2>1. k \in 1..Len(s)
    BY <1>1
  <2> QED
    BY <2>1
<1>3. from + 1 \in Int /\ to \in Int
  OBVIOUS
<1>4. /\ cut \in Seq(S)
      /\ Len(cut) = IF from + 1 <= to THEN to - (from + 1) + 1 ELSE 0
      /\ \A k \in 1..to - (from + 1) + 1 : cut[k] = s[from + 1 + k - 1]
  BY <1>2, <1>3, SubSeqProperties
<1> HIDE DEF cut
<1>5. Len(cut) = to - from
  BY <1>1, <1>4
<1>6. ASSUME NEW k \in 1..to - from PROVE x[k] = cut[k]
  <2>1. k \in 1..to - (from + 1) + 1 /\ from + 1 + k - 1 = from + k
    OBVIOUS
  <2>2. cut[k] = s[from + 1 + k - 1]
    BY <1>4, <2>1
  <2> QED
    BY <1>1, <2>1, <2>2
<1>7. x = cut
  BY <1>1, <1>4, <1>5, <1>6, SeqEqual
<1> QED
  BY <1>7 DEF cut

LEMMA PairIs ==
  ASSUME NEW S, NEW s \in Seq(S), NEW from \in Nat, from + 2 <= Len(s), NEW a, NEW b,
         s[from + 1] = a, s[from + 2] = b
  PROVE  <<a, b>> = SubSeq(s, from + 1, from + 2) /\ <<a, b>> \in Seq(S)
<1>1. Len(s) \in Nat
  BY LenProperties
<1>2. a \in S /\ b \in S
  <2>1. from + 1 \in 1..Len(s) /\ from + 2 \in 1..Len(s)
    BY <1>1
  <2> QED
    BY <2>1
<1> DEFINE x == <<a, b>>
<1>3. x \in Seq(S) /\ Len(x) = 2 /\ x[1] = a /\ x[2] = b
  BY <1>2
<1> HIDE DEF x
<1>4. from + 2 \in Nat /\ from \in 0..Len(s) /\ from + 2 \in from..Len(s) /\ (from + 2) - from = 2
  BY <1>1
<1>5. \A m \in 1..2 : x[m] = s[from + m]
  BY <1>3
<1>6. Part(x, s, from, from + 2)
  BY <1>3, <1>4, <1>5 DEF Part
<1>7. x = SubSeq(s, from + 1, from + 2)
  BY <1>3, <1>4, <1>6, PartIs
<1> QED
  BY <1>3, <1>7 DEF x

\* A text that begins with a line as RequestIn has it, and a line break.
AsksAt(text, target, j) ==
  /\ j \in 2..Len(text) - 7 /\ text[1] \in H!Methods /\ text[2] = "space"
  /\ Part(target, text, 2, j)
  /\ text[j + 1] = "space" /\ text[j + 2] = H!Http
  /\ text[j + 6] = "cr" /\ text[j + 7] = "lf"

LEMMA AskIsPrefix ==
  ASSUME NEW S, NEW text \in Seq(S), NEW target \in Seq(S), NEW j \in Nat, AsksAt(text, target, j)
  PROVE  /\ target = SubSeq(text, 3, j)
         /\ <<text[1], "space">> \o target \o <<"space", H!Http>> \o SubSeq(text, j + 3, j + 5) \o H!Crlf
              = SubSeq(text, 1, j + 7)
<1>1. Len(text) \in Nat /\ 2 <= j /\ j + 7 <= Len(text)
  BY LenProperties DEF AsksAt
<1>2. <<text[1], "space">> = SubSeq(text, 1, 2)
  <2>1. text[0 + 1] = text[1] /\ text[0 + 2] = "space" /\ 0 + 2 <= Len(text) /\ 0 \in Nat
    BY <1>1 DEF AsksAt
  <2>2. <<text[1], "space">> = SubSeq(text, 0 + 1, 0 + 2)
    BY <2>1, PairIs
  <2> QED
    BY <2>2
<1>3. target = SubSeq(text, 3, j)
  <2>1. target = SubSeq(text, 2 + 1, j)
    BY PartIs DEF AsksAt
  <2> QED
    BY <2>1
<1>4. <<"space", H!Http>> = SubSeq(text, j + 1, j + 2)
  <2>1. j + 2 <= Len(text)
    BY <1>1
  <2> QED
    BY <2>1, PairIs DEF AsksAt
<1>5. H!Crlf = SubSeq(text, j + 6, j + 7)
  <2>1. (j + 5) + 2 <= Len(text) /\ j + 5 \in Nat /\ (j + 5) + 1 = j + 6 /\ (j + 5) + 2 = j + 7
    BY <1>1
  <2>2. text[(j + 5) + 1] = "cr" /\ text[(j + 5) + 2] = "lf"
    BY <2>1 DEF AsksAt
  <2>3. <<"cr", "lf">> = SubSeq(text, (j + 5) + 1, (j + 5) + 2)
    BY <2>1, <2>2, PairIs
  <2> QED
    BY <2>1, <2>3 DEF H!Crlf
<1>6. SubSeq(text, 1, 2) \o SubSeq(text, 3, j) = SubSeq(text, 1, j)
  <2>1. 1 \in 1..Len(text) + 1 /\ 2 \in 1 - 1..Len(text) /\ j \in 2..Len(text)
    BY <1>1
  <2>2. SubSeq(text, 1, 2) \o SubSeq(text, 2 + 1, j) = SubSeq(text, 1, j)
    BY <2>1, ConcatAdjacentSubSeq
  <2> QED
    BY <2>2
<1>7. SubSeq(text, 1, j) \o SubSeq(text, j + 1, j + 2) = SubSeq(text, 1, j + 2)
  <2>1. 1 \in 1..Len(text) + 1 /\ j \in 1 - 1..Len(text) /\ j + 2 \in j..Len(text)
    BY <1>1
  <2> QED
    BY <2>1, ConcatAdjacentSubSeq
<1>8. SubSeq(text, 1, j + 2) \o SubSeq(text, j + 3, j + 5) = SubSeq(text, 1, j + 5)
  <2>1. 1 \in 1..Len(text) + 1 /\ j + 2 \in 1 - 1..Len(text) /\ j + 5 \in j + 2..Len(text)
    BY <1>1
  <2>2. SubSeq(text, 1, j + 2) \o SubSeq(text, (j + 2) + 1, j + 5) = SubSeq(text, 1, j + 5)
    BY <2>1, ConcatAdjacentSubSeq
  <2>3. (j + 2) + 1 = j + 3
    OBVIOUS
  <2> QED
    BY <2>2, <2>3
<1>9. SubSeq(text, 1, j + 5) \o SubSeq(text, j + 6, j + 7) = SubSeq(text, 1, j + 7)
  <2>1. 1 \in 1..Len(text) + 1 /\ j + 5 \in 1 - 1..Len(text) /\ j + 7 \in j + 5..Len(text)
    BY <1>1
  <2>2. SubSeq(text, 1, j + 5) \o SubSeq(text, (j + 5) + 1, j + 7) = SubSeq(text, 1, j + 7)
    BY <2>1, ConcatAdjacentSubSeq
  <2>3. (j + 5) + 1 = j + 6
    OBVIOUS
  <2> QED
    BY <2>2, <2>3
<1> QED
  BY <1>2, <1>3, <1>4, <1>5, <1>6, <1>7, <1>8, <1>9, Zenon

LEMMA AskIs ==
  ASSUME NEW m \in Messages, NEW S, m.text \in Seq(S),
         NEW raw \in Seq(S), NEW n \in Nat, Begins(raw, m.text, n),
         NEW line \in Seq(S), NEW i \in 0..Len(raw), Part(line, raw, 0, i), At(raw, i, H!Crlf),
         NEW start, RequestIn(line, start, S)
  PROVE  \E ask \in Asks[m] : /\ ask.target = start.target
                              /\ ask.version[1] = "0" <=> start.version.major = 0
<1> DEFINE text == m.text
<1> HIDE DEF text
<1>1. text \in Seq(S) /\ Len(text) \in Nat /\ Len(raw) \in Nat /\ Len(raw) <= Len(text)
      /\ \A k \in 1..Len(raw) : raw[k] = text[k]
  <2>1. text \in Seq(S)
    BY DEF text
  <2>2. Len(text) \in Nat /\ Len(raw) \in Nat
    BY <2>1, LenProperties
  <2>3. Len(raw) <= n /\ n <= Len(text) /\ \A k \in 1..Len(raw) : raw[k] = text[k]
    BY DEF Begins, text
  <2>4. Len(raw) <= Len(text)
    BY <2>2, <2>3
  <2> QED
    BY <2>1, <2>2, <2>3, <2>4
<1>2. PICK j \in 2..Len(line) :
        /\ Len(line) = j + 5
        /\ line[1] \in H!Methods /\ line[2] = "space" /\ line[j + 1] = "space"
        /\ line[j + 2] = H!Http /\ line[j + 3] \in H!Digits
        /\ start.target \in Seq(S) /\ Part(start.target, line, 2, j) /\ "space" \notin ToSet(start.target)
        /\ start.version.major = H!Value(line[j + 3])
  BY DEF RequestIn
<1> DEFINE target == start.target
<1> HIDE DEF target
<1>3. i = j + 5 /\ j \in Nat /\ 2 <= j
  <2>1. Len(line) = i - 0
    BY DEF Part
  <2>2. i - 0 = j + 5 /\ i \in Nat /\ j \in Nat
    BY <1>2, <2>1
  <2> QED
    BY <2>2
<1>4. j + 7 <= Len(raw) /\ raw[j + 6] = "cr" /\ raw[j + 7] = "lf"
  <2>1. i + 2 <= Len(raw) /\ \A k \in 1..2 : raw[i + k] = H!Crlf[k]
    BY CrlfIs DEF At
  <2>2. raw[i + 1] = "cr" /\ raw[i + 2] = "lf"
    BY <2>1, CrlfIs
  <2>3. i + 1 = j + 6 /\ i + 2 = j + 7
    BY <1>3
  <2> QED
    BY <2>1, <2>2, <2>3
<1>5. \A k \in 1..j + 7 : raw[k] = text[k]
  BY <1>1, <1>3, <1>4
<1>6. \A k \in 1..j + 5 : line[k] = text[k]
  <2>1. \A k \in 1..i - 0 : line[k] = raw[0 + k]
    BY DEF Part
  <2>2. ASSUME NEW k \in 1..j + 5 PROVE line[k] = text[k]
    <3>1. k \in 1..i - 0 /\ 0 + k = k /\ k \in 1..j + 7
      BY <1>3
    <3> QED
      BY <1>5, <2>1, <3>1
  <2> QED
    BY <2>2
<1>7. Part(target, text, 2, j)
  <2>1. /\ j \in 2..Len(line) /\ Len(target) = j - 2
        /\ \A k \in 1..j - 2 : target[k] = line[2 + k]
    BY <1>2 DEF Part, target
  <2>2. 2 \in 0..Len(text) /\ j \in 2..Len(text)
    BY <1>1, <1>3, <1>4
  <2>3. ASSUME NEW k \in 1..j - 2 PROVE target[k] = text[2 + k]
    <3>1. 2 + k \in 1..j + 5
      BY <1>3
    <3> QED
      BY <1>6, <2>1, <3>1
  <2> QED
    BY <2>1, <2>2, <2>3 DEF Part
<1>8. AsksAt(text, target, j) /\ text[1] \in H!Methods /\ text[j + 3] = line[j + 3]
  <2>1. j \in 2..Len(text) - 7
    BY <1>1, <1>3, <1>4
  <2>2. 1 \in 1..j + 5 /\ 2 \in 1..j + 5 /\ j + 1 \in 1..j + 5 /\ j + 2 \in 1..j + 5 /\ j + 3 \in 1..j + 5
        /\ j + 6 \in 1..j + 7 /\ j + 7 \in 1..j + 7
    BY <1>3
  <2>3. /\ text[1] = line[1] /\ text[2] = line[2] /\ text[j + 1] = line[j + 1]
        /\ text[j + 2] = line[j + 2] /\ text[j + 3] = line[j + 3]
        /\ text[j + 6] = "cr" /\ text[j + 7] = "lf"
    BY <1>4, <1>5, <1>6, <2>2
  <2> QED
    BY <1>2, <1>7, <2>1, <2>3 DEF AsksAt
<1> DEFINE version == SubSeq(text, j + 3, j + 5)
           ask == [target |-> target, version |-> version]
           first == <<text[1], "space">> \o target \o <<"space", H!Http>> \o version \o H!Crlf
<1>9. target = SubSeq(text, 3, j) /\ first = SubSeq(text, 1, j + 7)
  BY <1>1, <1>2, <1>3, <1>8, AskIsPrefix DEF target
<1>10. version[1] = text[j + 3]
  BY <1>1, <1>3, <1>4
<1>11. IsPrefix(first, text)
  <2>1. j + 7 \in 0..Len(text)
    BY <1>1, <1>3, <1>4
  <2>2. /\ SubSeq(text, 1, j + 7) \in Seq(S) /\ Len(SubSeq(text, 1, j + 7)) = j + 7
        /\ \A k \in 1..j + 7 : SubSeq(text, 1, j + 7)[k] = text[k]
    BY <1>1, <2>1, SliceIs
  <2> HIDE DEF first
  <2>3. first \in Seq(S) /\ Len(first) = j + 7 /\ \A k \in 1..j + 7 : first[k] = text[k]
    BY <1>9, <2>2
  <2>4. Len(first) <= Len(text)
    BY <2>1, <2>3
  <2> QED
    BY <1>1, <2>3, <2>4 DEF IsPrefix
<1>12. ask \in Asks[m]
  <2>1. j \in 2..Len(text) - 5
    BY <1>1, <1>3, <1>4
  <2>2. "space" \notin ToSet(target)
    BY <1>2 DEF target
  <2>3. ask = [target |-> SubSeq(text, 3, j), version |-> SubSeq(text, j + 3, j + 5)]
    BY <1>9
  <2>4. \E method \in H!Methods :
          IsPrefix(<<method, "space">> \o ask.target \o <<"space", H!Http>> \o ask.version \o H!Crlf, text)
    BY <1>8, <1>11
  <2>5. Asks[m] = {a \in {[target |-> SubSeq(text, 3, k), version |-> SubSeq(text, k + 3, k + 5)] :
                           k \in 2..Len(text) - 5} :
                     /\ "space" \notin ToSet(a.target)
                     /\ \E method \in H!Methods :
                          IsPrefix(<<method, "space">> \o a.target \o <<"space", H!Http>> \o a.version \o H!Crlf,
                                   text)}
    BY DEF Asks, text
  <2>6. ask.target = target
    OBVIOUS
  <2> HIDE DEF ask
  <2> QED
    BY <2>1, <2>2, <2>3, <2>4, <2>5, <2>6
<1>13. ask.version[1] = "0" <=> start.version.major = 0
  <2>1. ask.version[1] = line[j + 3]
    BY <1>8, <1>10
  <2> QED
    BY <1>2, <2>1, ValueZero
<1> QED
  BY <1>12, <1>13 DEF target

-----------------------------------------------------------------------------
(* What is taken for the root.                                             *)

IsDecode(f, t) ==
  f = [n \in 1..Len(t) + 4 |->
         IF n > Len(t) THEN <<>>
         ELSE IF t[n] = "%" THEN <<H!PctDecoded(t[n + 2])>> \o f[n + 4]
         ELSE <<t[n]>> \o f[n + 1]]

LEMMA DecodeIs ==
  ASSUME NEW S, NEW t \in Seq(S)
  PROVE  \E f : /\ IsDecode(f, t) /\ f[1] = H!Decode(t)
                /\ \A n \in 1..Len(t) + 4 : f[n] \in Seq(S \cup {"NUL", "other"})
<1> DEFINE top == Len(t) + 4
           more == {n \in 1..top : n <= Len(t)}
           first(n) == IF t[n] = "%" THEN H!PctDecoded(t[n + 2]) ELSE t[n]
           then(n) == IF t[n] = "%" THEN n + 4 ELSE n + 1
           head == [n \in 1..top |-> <<first(n)>>]
           next == [n \in 1..top |-> then(n)]
           last == [n \in 1..top |-> <<>>]
           G == Seq(S \cup {"NUL", "other"})
<1>1. Len(t) \in Nat /\ top \in Nat /\ 1 \in Nat /\ 1 <= top
  BY LenProperties
<1>2. Onward(1, top, more, next)
  <2> SUFFICES ASSUME NEW n \in more PROVE next[n] \in n + 1..top
    BY DEF Onward
  <2>1. n \in 1..top /\ n <= Len(t) /\ next[n] = then(n)
    OBVIOUS
  <2> HIDE DEF next
  <2> QED
    BY <1>1, <2>1
<1>3. ASSUME NEW f PROVE IsDecode(f, t) <=> IsLoop(f, 1, top, more, more, head, next, last)
  <2> DEFINE value(n) == IF n > Len(t) THEN <<>>
                         ELSE IF t[n] = "%" THEN <<H!PctDecoded(t[n + 2])>> \o f[n + 4]
                         ELSE <<t[n]>> \o f[n + 1]
             other(n) == IF n \notin more THEN last[n]
                         ELSE IF n \in more THEN head[n] \o f[next[n]] ELSE f[next[n]]
  <2>1. ASSUME NEW n \in 1..top PROVE value(n) = other(n)
    <3>1. head[n] = <<first(n)>> /\ next[n] = then(n) /\ last[n] = <<>>
      OBVIOUS
    <3>2. n \in more <=> ~(n > Len(t))
      BY <1>1
    <3> HIDE DEF head, next, last, more
    <3> QED
      BY <3>1, <3>2
  <2>2. IsDecode(f, t) <=> f = [n \in 1..top |-> value(n)]
    BY DEF IsDecode
  <2>3. IsLoop(f, 1, top, more, more, head, next, last) <=> f = [n \in 1..top |-> other(n)]
    BY DEF IsLoop
  <2> HIDE DEF value, other
  <2>4. [n \in 1..top |-> value(n)] = [n \in 1..top |-> other(n)]
    BY <2>1
  <2> QED
    BY <2>2, <2>3, <2>4
<1>4. \E f : IsLoop(f, 1, top, more, more, head, next, last)
  <2> HIDE DEF top, more, next, last, head
  <2> QED
    BY <1>1, <1>2, LoopExists
<1> DEFINE from == CHOOSE f : IsDecode(f, t)
<1>5. H!Decode(t) = from[1]
  BY DEF H!Decode, IsDecode
<1>6. IsDecode(from, t)
  BY <1>3, <1>4
<1> HIDE DEF from
<1>7. Keeps(G, 1, top, more, more, head, last)
  <2>1. ASSUME NEW n \in more, NEW g \in G PROVE head[n] \o g \in G
    <3>1. n \in 1..Len(t) /\ head[n] = <<first(n)>>
      BY <1>1
    <3>2. first(n) \in S \cup {"NUL", "other"}
      BY <3>1 DEF H!PctDecoded
    <3> HIDE DEF head, first
    <3>3. <<first(n)>> \in G
      BY <3>2
    <3> QED
      BY <3>1, <3>3
  <2>2. \A n \in 1..top : last[n] \in G
    OBVIOUS
  <2> HIDE DEF more, head, last, G, top
  <2> QED
    BY <2>1, <2>2 DEF Keeps
<1>8. \A n \in 1..top : from[n] \in G
  <2> HIDE DEF top, more, next, last, head, G
  <2> QED
    BY <1>1, <1>2, <1>3, <1>6, <1>7, LoopGives
<1> QED
  BY <1>5, <1>6, <1>8

\* A text without a NUL decodes to "/" only if it begins so.
LEMMA RootIs ==
  ASSUME NEW S, NEW t \in Seq(S), \A n \in 1..Len(t) : t[n] # "NUL", IsRoot(t)
  PROVE  /\ Len(t) >= 1 /\ t[1] = "/"
         /\ Len(t) >= 2 => t[2] = "%" /\ t[4] \in {"0", "A"}
<1> DEFINE S2 == S \cup {"NUL", "other"}
           d == H!Decode(t)
           c == H!Cstr(d)
<1>1. Len(t) \in Nat
  BY LenProperties
<1>2. PICK f : /\ IsDecode(f, t) /\ f[1] = d
               /\ \A n \in 1..Len(t) + 4 : f[n] \in Seq(S2)
  BY DecodeIs
<1> HIDE DEF d, S2
<1>3. \A n \in 1..Len(t) + 4 :
        f[n] = IF n > Len(t) THEN <<>>
               ELSE IF t[n] = "%" THEN <<H!PctDecoded(t[n + 2])>> \o f[n + 4]
               ELSE <<t[n]>> \o f[n + 1]
  BY <1>2 DEF IsDecode
<1>4. c = <<"/">>
  BY DEF IsRoot, d
<1>5. d \in Seq(S2)
  <2>1. 1 \in 1..Len(t) + 4
    BY <1>1
  <2> QED
    BY <1>2, <2>1
<1>6. Len(c) = 1 /\ c[1] = "/"
  <2> HIDE DEF c
  <2> QED
    BY <1>4
<1>7. /\ Len(d) >= 1 /\ d[1] = "/"
      /\ Len(d) > 1 => d[2] = "NUL"
  <2>1. /\ Len(c) <= Len(d) /\ \A k \in 1..Len(c) : c[k] = d[k]
        /\ Len(c) < Len(d) => d[Len(c) + 1] = "NUL"
    BY <1>5, CstrIs
  <2>2. Len(d) \in Nat
    BY <1>5, LenProperties
  <2> HIDE DEF c
  <2> QED
    BY <1>6, <2>1, <2>2
<1>8. \A x : H!PctDecoded(x) \in {"NUL", "other"} /\ (H!PctDecoded(x) = "NUL" => x \in {"0", "A"})
  BY DEF H!PctDecoded
<1>9. \A x, g : g \in Seq(S2) /\ x \in S2 =>
        /\ (<<x>> \o g)[1] = x /\ Len(<<x>> \o g) = 1 + Len(g)
        /\ Len(g) >= 1 => (<<x>> \o g)[2] = g[1]
  OBVIOUS
<1>10. Len(t) >= 1
  <2> SUFFICES ASSUME ~(Len(t) >= 1) PROVE FALSE
    OBVIOUS
  <2>1. 1 \in 1..Len(t) + 4 /\ 1 > Len(t)
    BY <1>1
  <2>2. d = <<>>
    BY <1>2, <1>3, <2>1
  <2>3. Len(d) = 0
    BY <2>2
  <2> QED
    BY <1>7, <2>3
<1>11. 1 \in 1..Len(t) + 4 /\ ~(1 > Len(t)) /\ 1 \in 1..Len(t) /\ 5 \in 1..Len(t) + 4 /\ 2 \in 1..Len(t) + 4
  BY <1>1, <1>10
<1>12. t[1] # "%"
  <2> SUFFICES ASSUME t[1] = "%" PROVE FALSE
    OBVIOUS
  <2> DEFINE x == H!PctDecoded(t[1 + 2])  g == f[1 + 4]
  <2>1. d = <<x>> \o g
    BY <1>2, <1>3, <1>11
  <2>2. g \in Seq(S2)
    BY <1>2, <1>11
  <2>3. x \in {"NUL", "other"}
    BY <1>8
  <2> HIDE DEF x, g
  <2>4. d[1] = x
    BY <1>9, <2>1, <2>2, <2>3 DEF S2
  <2> QED
    BY <1>7, <2>3, <2>4
<1> DEFINE g == f[2]
<1>13. d = <<t[1]>> \o g /\ g \in Seq(S2) /\ t[1] \in S2
  <2>1. d = <<t[1]>> \o f[1 + 1]
    BY <1>2, <1>3, <1>11, <1>12
  <2>2. 1 + 1 = 2 /\ t[1] \in S /\ f[2] \in Seq(S2)
    BY <1>2, <1>11
  <2> QED
    BY <2>1, <2>2 DEF S2
<1> HIDE DEF g
<1>14. d[1] = t[1] /\ Len(d) = 1 + Len(g) /\ (Len(g) >= 1 => d[2] = g[1]) /\ Len(g) \in Nat
  <2>1. /\ (<<t[1]>> \o g)[1] = t[1] /\ Len(<<t[1]>> \o g) = 1 + Len(g)
        /\ Len(g) >= 1 => (<<t[1]>> \o g)[2] = g[1]
    BY <1>9, <1>13
  <2> QED
    BY <1>13, <2>1, LenProperties
<1>15. ASSUME Len(t) >= 2 PROVE t[2] = "%" /\ t[4] \in {"0", "A"}
  <2>1. 2 \in 1..Len(t) /\ ~(2 > Len(t)) /\ 2 \in 1..Len(t) + 4 /\ 6 \in 1..Len(t) + 4 /\ 3 \in 1..Len(t) + 4
    BY <1>1, <1>15
  <2>2. ASSUME NEW x \in S2, NEW h \in Seq(S2), g = <<x>> \o h PROVE x = "NUL"
    <3>1. g[1] = x /\ Len(g) = 1 + Len(h) /\ Len(h) \in Nat
      BY <1>9, <2>2, LenProperties
    <3>2. Len(g) >= 1
      BY <3>1
    <3>3. Len(d) > 1 /\ d[2] = x
      BY <1>14, <3>1, <3>2
    <3> QED
      BY <1>7, <3>3
  <2>3. CASE t[2] = "%"
    <3> DEFINE x == H!PctDecoded(t[2 + 2])  h == f[2 + 4]
    <3>1. g = <<x>> \o h
      BY <1>3, <2>1, <2>3 DEF g
    <3>2. h \in Seq(S2) /\ x \in {"NUL", "other"}
      BY <1>2, <1>8, <2>1
    <3> HIDE DEF x, h
    <3>3. x = "NUL"
      BY <2>2, <3>1, <3>2 DEF S2
    <3>4. t[2 + 2] \in {"0", "A"}
      BY <1>8, <3>3 DEF x
    <3> QED
      BY <2>3, <3>4
  <2>4. CASE t[2] # "%"
    <3> DEFINE h == f[2 + 1]
    <3>1. g = <<t[2]>> \o h
      BY <1>3, <2>1, <2>4 DEF g
    <3>2. h \in Seq(S2) /\ t[2] \in S
      BY <1>2, <2>1
    <3> HIDE DEF h
    <3>3. t[2] = "NUL"
      BY <2>2, <3>1, <3>2 DEF S2
    <3> QED
      BY <2>1, <3>3
  <2> QED
    BY <2>3, <2>4
<1>16. t[1] = "/"
  BY <1>7, <1>14
<1> QED
  BY <1>10, <1>15, <1>16

LEMMA FirstPart ==
  ASSUME NEW S, NEW s \in Seq(S), NEW c
  PROVE  /\ H!SplitByChar(s, c, H!NoOptions)[1] \in Seq(S)
         /\ \E k \in 0..Len(s) : Part(H!SplitByChar(s, c, H!NoOptions)[1], s, 0, k)
<1> DEFINE parts == H!SplitByChar(s, c, H!NoOptions)
<1> HIDE DEF parts
<1>1. PICK f : f[0] = parts /\ Splitting(f, s, CharIndices(s, c), 1, S)
  BY SplitByCharIs DEF parts
<1>2. Len(s) \in Nat /\ 0 \in 0..Len(s) /\ Len(s) \in 0..Len(s)
  BY LenProperties
<1>3. LastPart(f, s, 0, c, S) \/ \E k \in 0..Len(s) - 1 : PartTo(f, s, 0, k, c, S)
  BY <1>1, <1>2, SplitStep
<1>4. CASE LastPart(f, s, 0, c, S)
  BY <1>1, <1>2, <1>4 DEF LastPart, parts
<1>5. CASE \E k \in 0..Len(s) - 1 : PartTo(f, s, 0, k, c, S)
  <2>1. PICK k \in 0..Len(s) - 1 : PartTo(f, s, 0, k, c, S)
    BY <1>5
  <2>2. k \in 0..Len(s)
    BY <1>2
  <2> QED
    BY <1>1, <2>1, <2>2 DEF PartTo, parts
<1> QED
  BY <1>3, <1>4, <1>5

\* The second part of a text that begins with the character.
LEMMA SecondPart ==
  ASSUME NEW S, NEW s \in Seq(S), NEW c, Len(s) >= 2, s[1] = c, s[2] # c
  PROVE  /\ Len(H!SplitByChar(s, c, H!NoOptions)) \in Nat
         /\ Len(H!SplitByChar(s, c, H!NoOptions)) >= 2
         /\ \E k \in 2..Len(s) : Part(H!SplitByChar(s, c, H!NoOptions)[2], s, 1, k)
<1> DEFINE parts == H!SplitByChar(s, c, H!NoOptions)
<1> HIDE DEF parts
<1>1. PICK f : f[0] = parts /\ Splitting(f, s, CharIndices(s, c), 1, S)
  BY SplitByCharIs DEF parts
<1>2. Len(s) \in Nat /\ 0 \in 0..Len(s) /\ 1 \in 0..Len(s)
  BY LenProperties
<1>3. LastPart(f, s, 0, c, S) \/ \E k \in 0..Len(s) - 1 : PartTo(f, s, 0, k, c, S)
  BY <1>1, <1>2, SplitStep
<1>4. ~LastPart(f, s, 0, c, S)
  <2>1. 1 \in 0 + 1..Len(s)
    BY <1>2
  <2> QED
    BY <2>1 DEF LastPart
<1>5. PICK k \in 0..Len(s) - 1 : PartTo(f, s, 0, k, c, S)
  BY <1>3, <1>4
<1>6. k = 0
  <2>1. \A m \in 0 + 1..k : s[m] # c
    BY <1>5 DEF PartTo
  <2>2. k # 0 => 1 \in 0 + 1..k
    OBVIOUS
  <2> QED
    BY <2>1, <2>2
<1>7. /\ Len(f[0]) = 1 + Len(f[1])
      /\ \A m \in 1..Len(f[1]) : f[0][m + 1] = f[1][m]
  BY <1>5, <1>6 DEF PartTo
<1>8. f[1] \in Seq(Seq(S)) /\ f[1] # <<>>
  <2>1. 1 \in 0..Len(s) + 1
    BY <1>2
  <2> QED
    BY <1>1, <2>1 DEF Splitting
<1>9. Len(f[1]) \in Nat /\ Len(f[1]) # 0
  BY <1>8, EmptySeq, LenProperties
<1>10. /\ Len(parts) \in Nat /\ Len(parts) >= 2 /\ parts[2] = f[1][1]
  <2> DEFINE left == Len(f[1])
  <2>1. left \in Nat /\ left # 0 /\ Len(f[0]) = 1 + left
    BY <1>7, <1>9
  <2>2. 1 \in 1..left
    BY <2>1
  <2>3. f[0][1 + 1] = f[1][1]
    BY <1>7, <2>2
  <2> HIDE DEF left
  <2>4. Len(f[0]) \in Nat /\ Len(f[0]) >= 2
    BY <2>1
  <2> QED
    BY <1>1, <2>3, <2>4
<1>11. LastPart(f, s, 1, c, S) \/ \E j \in 1..Len(s) - 1 : PartTo(f, s, 1, j, c, S)
  BY <1>1, <1>2, SplitStep
<1>12. \E j \in 2..Len(s) : Part(f[1][1], s, 1, j)
  <2>1. CASE LastPart(f, s, 1, c, S)
    <3>1. Len(s) \in 2..Len(s)
      BY <1>2
    <3> QED
      BY <2>1, <3>1 DEF LastPart
  <2>2. ASSUME NEW j \in 1..Len(s) - 1, PartTo(f, s, 1, j, c, S) PROVE \E i \in 2..Len(s) : Part(f[1][1], s, 1, i)
    <3>1. s[j + 1] = c /\ Part(f[1][1], s, 1, j)
      BY <2>2 DEF PartTo
    <3>2. j # 1
      <4>1. 1 + 1 = 2
        OBVIOUS
      <4> QED
        BY <3>1, <4>1
    <3>3. j \in 2..Len(s)
      BY <1>2, <3>2
    <3> QED
      BY <3>1, <3>3
  <2> QED
    BY <1>11, <2>1, <2>2
<1> QED
  BY <1>10, <1>12 DEF parts

\* A target that begins with "/" can only be in origin form.
LEMMA NotAbsolute ==
  ASSUME NEW S, NEW t \in Seq(S), t # <<>>, t[1] = "/"
  PROVE  ~H!ValidAbsoluteForm(t)
<1> DEFINE end == H!CharIndex(t, ":")
           scheme == H!Slice(t, 0, end)
           start == H!Start(H!Zeroed)
           schemed == H!ParseScheme(scheme, start)
<1>1. start = [ok |-> TRUE, uri |-> H!Zeroed]
  BY DEF H!Start
<1> HIDE DEF start
<1>2. H!Stops(start).ok = FALSE
  BY <1>1 DEF H!Stops
<1>3. end # H!None => schemed.ok = FALSE
  <2> SUFFICES ASSUME end # H!None PROVE schemed.ok = FALSE
    OBVIOUS
  <2>1. end \in 0..Len(t) - 1
    BY CharIndexIs
  <2>2. Len(t) \in Nat
    BY LenProperties
  <2>3. end \in 0..Len(t)
    BY <2>1, <2>2
  <2>4. /\ scheme = SubSeq(t, 1, end) /\ Len(SubSeq(t, 1, end)) = end
        /\ \A m \in 1..end : SubSeq(t, 1, end)[m] = t[m]
    BY <2>3, SliceIs
  <2>5. scheme = <<>> \/ scheme[1] = "/"
    <3>1. CASE end = 0
      <4>1. SubSeq(t, 1, 0) = <<>>
        OBVIOUS
      <4> QED
        BY <2>4, <3>1, <4>1
    <3>2. CASE end # 0
      <4>1. 1 \in 1..end
        BY <2>3, <3>2
      <4> QED
        BY <2>4, <4>1
    <3> QED
      BY <3>1, <3>2
  <2> HIDE DEF scheme
  <2>6. ~(scheme # <<>> /\ scheme[1] \in H!Letters)
    BY <2>5 DEF H!Letters, H!HexDigits, H!Digits
  <2>7. schemed = H!Stops(start)
    BY <1>1, <2>6 DEF H!ParseScheme, H!Sets
  <2> QED
    BY <1>2, <2>7
<1>4. \A r, v, u : r.ok = FALSE => H!Sets(r, v, u) = r
  BY DEF H!Sets
<1> HIDE DEF schemed
<1>5. ASSUME schemed.ok = FALSE
      PROVE  \A part : H!ParseHierPart(part, schemed) = schemed
  BY <1>4, <1>5 DEF H!ParseHierPart, H!ParsePart
<1>6. ASSUME schemed.ok = FALSE
      PROVE  \A rest : H!Queried(schemed, rest, H!None) = schemed
  BY <1>4, <1>5, <1>6 DEF H!Queried, H!ParseQuery
<1>7. H!ParseAbsolute(t, H!Zeroed)
        = IF end = H!None THEN H!Stops(start)
          ELSE H!Queried(H!ParseHierPart(H!Slice(H!Offset(t, end + 1), 0,
                                                 H!CharIndex(H!Offset(t, end + 1), "?")), schemed),
                         H!Offset(t, end + 1), H!None)
  BY DEF H!ParseAbsolute, H!Schemed, start, schemed
<1> HIDE DEF end
<1>8. H!ParseAbsolute(t, H!Zeroed).ok = FALSE
  <2>1. CASE end = H!None
    BY <1>2, <1>7, <2>1
  <2>2. CASE end # H!None
    BY <1>3, <1>5, <1>6, <1>7, <2>2
  <2> QED
    BY <2>1, <2>2
<1> QED
  BY <1>8 DEF H!ValidAbsoluteForm

LEMMA NotAuthority ==
  ASSUME NEW S, NEW t \in Seq(S), t # <<>>, t[1] = "/"
  PROVE  ~H!ValidAuthorityForm(t)
<1> DEFINE host == H!SplitByChar(t, ":", H!NoOptions)[1]
<1> HIDE DEF host
<1>1. PICK k \in 0..Len(t) : Part(host, t, 0, k)
  BY FirstPart DEF host
<1>2. host \in Seq(S)
  BY FirstPart DEF host
<1>3. host # <<>> => host[1] = "/" /\ 1 \in 1..Len(host)
  <2> SUFFICES ASSUME host # <<>> PROVE host[1] = "/" /\ 1 \in 1..Len(host)
    OBVIOUS
  <2>1. Len(host) \in Nat /\ Len(host) # 0
    BY <1>2, EmptySeq, LenProperties
  <2>2. Len(host) = k - 0 /\ \A m \in 1..k - 0 : host[m] = t[0 + m]
    BY <1>1 DEF Part
  <2>3. 1 \in 1..Len(host) /\ 0 + 1 = 1
    BY <2>1
  <2>4. host[1] = t[0 + 1]
    BY <2>2, <2>3
  <2> QED
    BY <2>3, <2>4
<1>4. host # <<>> => ~H!Valid(host, H!RegNameChars)
  <2>1. "/" \notin H!RegNameChars /\ "/" # "%"
    BY DEF H!RegNameChars, H!Unreserved, H!SubDelims, H!Letters, H!HexDigits, H!Digits
  <2> QED
    BY <1>3, <2>1 DEF H!Valid
<1>5. host # <<>> => ~H!ValidIpv4(host)
  <2> SUFFICES ASSUME host # <<>>, H!ValidIpv4(host) PROVE FALSE
    OBVIOUS
  <2> DEFINE octet == H!SplitByChar(host, ".", H!NoOptions)[1]
  <2>1. H!Octet(octet)
    BY DEF H!ValidIpv4
  <2> HIDE DEF octet
  <2>2. PICK j \in 0..Len(host) : Part(octet, host, 0, j)
    BY <1>2, FirstPart DEF octet
  <2>3. Len(octet) = j - 0 /\ \A m \in 1..j - 0 : octet[m] = host[0 + m]
    BY <2>2 DEF Part
  <2>4. Len(octet) \in {1, 2, 3} /\ octet[1] \in H!Digits
    <3>1. "2" \in H!Digits
      BY DEF H!Digits
    <3> QED
      BY <2>1, <3>1 DEF H!Octet
  <2>5. j \in {1, 2, 3}
    <3>1. j - 0 \in {1, 2, 3} /\ j \in Nat
      BY <2>3, <2>4
    <3> QED
      BY <3>1
  <2>6. 1 \in 1..j - 0 /\ 0 + 1 = 1
    BY <2>5
  <2>7. octet[1] = host[1]
    BY <2>3, <2>6
  <2> QED
    BY <1>3, <2>4, <2>7 DEF H!Digits
<1>6. ~H!ValidHost(host)
  BY <1>3, <1>4, <1>5 DEF H!ValidHost
<1> QED
  BY <1>6 DEF H!ValidAuthorityForm, host

\* In origin form an escape is whole.
LEMMA OriginForm ==
  ASSUME NEW S, NEW t \in Seq(S), H!ValidOriginForm(t), Len(t) >= 2, t[1] = "/", t[2] = "%"
  PROVE  Len(t) > 3
<1> DEFINE query == H!CharIndex(t, "?")
           path == H!Slice(t, 0, query)
           parts == H!SplitByChar(path, "/", H!NoOptions)
<1>1. Len(t) \in Nat
  BY LenProperties
<1>2. path \in Seq(S) /\ Len(path) >= 2 /\ Len(path) <= Len(t) /\ path[1] = "/" /\ path[2] = "%"
  <2>1. CASE query = H!None
    <3>1. path = t
      BY <2>1, SliceAll
    <3> QED
      BY <1>1, <3>1
  <2>2. CASE query \in 0..Len(t) - 1 /\ t[query + 1] = "?"
    <3> HIDE DEF query
    <3>1. query # 0 /\ query # 1
      <4>1. 0 + 1 = 1 /\ 1 + 1 = 2
        OBVIOUS
      <4> QED
        BY <2>2, <4>1
    <3>2. query \in 0..Len(t) /\ query >= 2
      BY <1>1, <2>2, <3>1
    <3>3. /\ path = SubSeq(t, 1, query) /\ SubSeq(t, 1, query) \in Seq(S)
          /\ Len(SubSeq(t, 1, query)) = query
          /\ \A m \in 1..query : SubSeq(t, 1, query)[m] = t[m]
      BY <3>2, SliceIs
    <3>4. 1 \in 1..query /\ 2 \in 1..query
      BY <3>2
    <3>5. path \in Seq(S) /\ Len(path) = query /\ path[1] = t[1] /\ path[2] = t[2]
      BY <3>3, <3>4
    <3> HIDE DEF path
    <3> QED
      BY <3>2, <3>5
  <2> QED
    BY <2>1, <2>2, CharIndexIs
<1>3. H!ValidAbemptyPath(path)
  BY DEF H!ValidOriginForm
<1> HIDE DEF path
<1>4. H!ValidSegments(path, 0)
  <2>1. path # <<>>
    BY <1>2
  <2> QED
    BY <1>3, <2>1 DEF H!ValidAbemptyPath
<1>5. /\ Len(parts) \in Nat /\ Len(parts) >= 2
      /\ \E k \in 2..Len(path) : Part(parts[2], path, 1, k)
  BY <1>2, SecondPart
<1> DEFINE x == parts[2]
<1>6. H!Valid(x, H!SegmentChars)
  <2>1. \A n \in 1..Len(parts) : H!ValidSegment(parts[n])
    BY <1>4 DEF H!ValidSegments
  <2>2. 2 \in 1..Len(parts)
    BY <1>5
  <2> QED
    BY <2>1, <2>2 DEF H!ValidSegment
<1> HIDE DEF parts
<1>7. PICK k \in 2..Len(path) : Part(x, path, 1, k)
  BY <1>5
<1> HIDE DEF x
<1>8. Len(x) = k - 1 /\ \A m \in 1..k - 1 : x[m] = path[1 + m]
  BY <1>7 DEF Part
<1>9. 1 \in 1..k - 1 /\ 1 + 1 = 2
  OBVIOUS
<1>10. x[1] = "%" /\ 1 \in 1..Len(x)
  <2>1. x[1] = path[1 + 1]
    BY <1>8, <1>9
  <2> QED
    BY <1>2, <1>8, <1>9, <2>1
<1>11. "%" \notin H!SegmentChars
  BY DEF H!SegmentChars, H!UserinfoChars, H!RegNameChars, H!Unreserved, H!SubDelims,
         H!Letters, H!HexDigits, H!Digits
<1>12. 1 + 2 <= Len(x)
  BY <1>6, <1>10, <1>11 DEF H!Valid, H!PctEncoded
<1>13. 3 <= k - 1 /\ k <= Len(path) /\ Len(path) \in Nat
  <2>1. Len(path) \in Nat
    BY <1>2, LenProperties
  <2> QED
    BY <1>8, <1>12, <2>1
<1> QED
  BY <1>1, <1>2, <1>13

LEMMA RootTaken ==
  ASSUME NEW S, NEW t \in Seq(S), \A n \in 1..Len(t) : t[n] # "NUL", IsRoot(t),
         H!Form(t) # "none"
  PROVE  TakenForRoot(t)
<1>1. /\ Len(t) >= 1 /\ t[1] = "/"
      /\ Len(t) >= 2 => t[2] = "%" /\ t[4] \in {"0", "A"}
  BY RootIs
<1>2. Len(t) \in Nat
  BY LenProperties
<1>3. CASE Len(t) = 1
  <2>1. t = <<"/">>
    BY <1>1, <1>3
  <2> QED
    BY <2>1 DEF TakenForRoot
<1>4. CASE Len(t) >= 2
  <2>1. t # <<>> /\ t # <<"*">>
    BY <1>1
  <2>2. H!ValidOriginForm(t)
    BY <1>1, <2>1, NotAbsolute, NotAuthority DEF H!Form
  <2>3. Len(t) > 3
    BY <1>1, <1>4, <2>2, OriginForm
  <2>4. IsPrefix(<<"/", "%">>, t)
    <3> DEFINE x == <<"/", "%">>
    <3>1. Len(x) = 2 /\ x[1] = "/" /\ x[2] = "%"
      OBVIOUS
    <3> HIDE DEF x
    <3>2. Len(x) <= Len(t) /\ \A m \in 1..Len(x) : x[m] = t[m]
      BY <1>1, <1>2, <1>4, <3>1
    <3> QED
      BY <3>2 DEF IsPrefix, x
  <2> QED
    BY <1>1, <1>4, <2>3, <2>4 DEF TakenForRoot
<1>5. Len(t) >= 1
  BY <1>1
<1>6. Len(t) = 1 \/ Len(t) >= 2
  <2> DEFINE size == Len(t)
  <2>1. size \in Nat /\ size >= 1
    BY <1>2, <1>5
  <2> HIDE DEF size
  <2>2. size = 1 \/ size >= 2
    BY <2>1
  <2> QED
    BY <2>2 DEF size
<1> QED
  BY <1>3, <1>4, <1>6

-----------------------------------------------------------------------------
(* The answers.                                                            *)

\* What RightResponse says of an answer to n segments of a message.
Right(m, n, status) ==
  /\ n \in HeaderIn[m]
  /\ \E ask \in Asks[m] :
       /\ status = 426 <=> ask.version[1] = "0"
       /\ status = 200 => TakenForRoot(ask.target)

LEMMA HeaderIs ==
  ASSUME NEW m \in Messages, NEW n \in 1..Size(m)
  PROVE  n \in HeaderIn[m]
           <=> \E k \in Nat : /\ At(SubSeq(m.text, 1, m.ends[n]), k, H!Crlf \o H!Crlf)
                              /\ \A j \in 1..k : m.text[j] # "NUL"
<1> DEFINE s == SubSeq(m.text, 1, m.ends[n])
           S == ToSet(m.text)
           four == H!Crlf \o H!Crlf
           places == H!Occurrences(s, four)
<1>1. m.text \in Seq(S) /\ m.ends[n] \in 0..Len(m.text)
  BY ConstantsAssumption, EndsIn
<1>2. s \in Seq(S) /\ Len(s) \in Nat /\ Len(s) = m.ends[n] /\ \A k \in 1..Len(s) : s[k] = m.text[k]
  BY <1>1, SliceIs, LenProperties
<1>3. four \in Seq({"cr", "lf"}) /\ Len(four) = 4
  BY CrlfIs
<1>4. n \in HeaderIn[m] <=> \E k \in places : "NUL" \notin ToSet(SubSeq(m.text, 1, k))
  BY DEF HeaderIn
<1> HIDE DEF s, four, S
<1>5. ASSUME NEW k \in Nat PROVE k \in places <=> At(s, k, four)
  <2>1. k \in places <=> k \in 0..Len(s) - Len(four) /\ H!StartsWith(H!Offset(s, k), four)
    BY DEF H!Occurrences
  <2> HIDE DEF places
  <2>2. ASSUME k + 4 <= Len(s) PROVE H!StartsWith(H!Offset(s, k), four) <=> At(s, k, four)
    <3>1. k \in 0..Len(s)
      BY <1>2, <2>2
    <3> QED
      BY <1>2, <1>3, <3>1, StartsIs
  <2>3. At(s, k, four) => k + 4 <= Len(s)
    BY <1>3 DEF At
  <2>4. k \in 0..Len(s) - Len(four) <=> k + 4 <= Len(s)
    BY <1>2, <1>3
  <2> QED
    BY <2>1, <2>2, <2>3, <2>4
<1>6. places \subseteq Nat
  BY <1>2, <1>3 DEF H!Occurrences
<1> HIDE DEF places
<1>7. ASSUME NEW k \in Nat, At(s, k, four)
      PROVE  "NUL" \notin ToSet(SubSeq(m.text, 1, k)) <=> \A j \in 1..k : m.text[j] # "NUL"
  <2>1. k + 4 <= Len(s)
    BY <1>3, <1>7 DEF At
  <2>2. k \in 0..Len(m.text)
    BY <1>1, <1>2, <2>1
  <2> DEFINE cut == SubSeq(m.text, 1, k)
  <2>3. Len(cut) = k /\ \A j \in 1..k : cut[j] = m.text[j]
    BY <1>1, <2>2, SliceIs
  <2> HIDE DEF cut
  <2> QED
    BY <2>3 DEF ToSet, cut
<1> QED
  BY <1>4, <1>5, <1>6, <1>7 DEF s, four

\* What was sent later does not take the header away.
LEMMA HeaderStays ==
  ASSUME NEW m \in Messages, NEW n \in HeaderIn[m], NEW n2 \in n..Size(m)
  PROVE  n2 \in HeaderIn[m]
<1>1. n \in 1..Size(m) /\ n2 \in 1..Size(m)
  <2>1. n \in 1..Size(m)
    BY DEF HeaderIn
  <2>2. Size(m) \in Nat
    BY ConstantsAssumption DEF Size
  <2> QED
    BY <2>1, <2>2
<1> DEFINE s == SubSeq(m.text, 1, m.ends[n])
           s2 == SubSeq(m.text, 1, m.ends[n2])
           four == H!Crlf \o H!Crlf
<1>2. /\ m.text \in Seq(ToSet(m.text))
      /\ m.ends[n] \in 0..Len(m.text) /\ m.ends[n2] \in 0..Len(m.text)
      /\ m.ends[n] <= m.ends[n2]
  <2>1. m.ends[n] <= m.ends[n2]
    BY <1>1, ConstantsAssumption DEF Size
  <2> QED
    BY <1>1, <2>1, ConstantsAssumption, EndsIn
<1>3. Len(s) = m.ends[n] /\ \A k \in 1..m.ends[n] : s[k] = m.text[k]
  BY <1>2, SliceIs
<1>4. Len(s2) = m.ends[n2] /\ \A k \in 1..m.ends[n2] : s2[k] = m.text[k]
  BY <1>2, SliceIs
<1>5. PICK k \in Nat : At(s, k, four) /\ \A j \in 1..k : m.text[j] # "NUL"
  BY <1>1, HeaderIs
<1> HIDE DEF s, s2, four
<1>6. Len(four) = 4
  BY CrlfIs DEF four
<1>7. At(s2, k, four)
  <2>1. k + 4 <= Len(s) /\ \A j \in 1..4 : s[k + j] = four[j]
    BY <1>5, <1>6 DEF At
  <2>2. k + 4 <= Len(s2)
    BY <1>2, <1>3, <1>4, <2>1
  <2>3. ASSUME NEW j \in 1..4 PROVE s2[k + j] = four[j]
    <3>1. k + j \in 1..m.ends[n] /\ k + j \in 1..m.ends[n2]
      <4> DEFINE e1 == m.ends[n]  e2 == m.ends[n2]
      <4>1. e1 \in Nat /\ e2 \in Nat /\ e1 <= e2 /\ k + 4 <= e1
        BY <1>2, <1>3, <2>1
      <4> HIDE DEF e1, e2
      <4>2. k + j \in 1..e1 /\ k + j \in 1..e2
        BY <4>1
      <4> QED
        BY <4>2 DEF e1, e2
    <3> QED
      BY <1>3, <1>4, <2>1, <3>1
  <2> QED
    BY <1>6, <2>2, <2>3 DEF At
<1> QED
  BY <1>1, <1>5, <1>7, HeaderIs DEF s2, four

\* What the server makes of n segments of a message, and may answer.
Answered(m, n, status) ==
  /\ H!HttpParse(Buffer(m, n)).ok /\ H!HttpParse(Buffer(m, n)).start.type = "request"
  /\ status \in Statuses(H!HttpParse(Buffer(m, n)).start)

LEMMA AnswerIsRight ==
  ASSUME NEW m \in Messages, NEW n \in 1..Size(m), NEW status, Answered(m, n, status)
  PROVE  Right(m, n, status)
<1> DEFINE raw == Buffer(m, n)
           whole == H!HttpParse(raw)
           start == whole.start
           S == ToSet(m.text)
           top == m.ends[n]
<1>1. whole.ok /\ start.type = "request" /\ status \in Statuses(start)
  BY DEF Answered
<1>2. m.text \in Seq(S) /\ raw \in Seq(S) /\ Begins(raw, m.text, top) /\ top \in 0..Len(m.text)
  BY ConstantsAssumption, BufferIs, EndsIn
<1> HIDE DEF raw, S, top
<1>3. /\ \E k \in 0..Len(raw) : At(raw, k, H!Crlf \o H!Crlf)
      /\ \E line \in Seq(S) : \E i \in 0..Len(raw) :
           Part(line, raw, 0, i) /\ At(raw, i, H!Crlf) /\ RequestIn(line, start, S)
  <2> HIDE DEF whole
  <2> QED
    BY <1>1, <1>2, ParsedIs DEF whole
<1> HIDE DEF whole, start
<1>4. n \in HeaderIn[m]
  <2> DEFINE s == SubSeq(m.text, 1, top)
             four == H!Crlf \o H!Crlf
  <2>1. PICK k \in 0..Len(raw) : At(raw, k, four)
    BY <1>3
  <2>2. Len(s) = top /\ \A j \in 1..top : s[j] = m.text[j]
    BY <1>2, SliceIs
  <2>3. Len(four) = 4
    BY CrlfIs
  <2> HIDE DEF s, four
  <2>4. /\ Len(raw) \in Nat /\ Len(raw) <= top /\ top \in Nat
        /\ \A j \in 1..Len(raw) : raw[j] = m.text[j] /\ raw[j] # "NUL"
    BY <1>2, LenProperties DEF Begins
  <2>5. k \in Nat /\ k + 4 <= Len(raw) /\ \A j \in 1..4 : raw[k + j] = four[j]
    BY <2>1, <2>3 DEF At
  <2>6. ASSUME NEW j \in 1..4 PROVE s[k + j] = four[j]
    <3>1. k + j \in 1..Len(raw) /\ k + j \in 1..top
      BY <2>4, <2>5
    <3> QED
      BY <2>2, <2>4, <2>5, <3>1
  <2>7. k + 4 <= Len(s)
    BY <2>2, <2>4, <2>5
  <2>8. At(s, k, four)
    BY <2>3, <2>6, <2>7 DEF At
  <2>9. \A j \in 1..k : m.text[j] # "NUL"
    <3>1. \A j \in 1..k : j \in 1..Len(raw)
      BY <2>4, <2>5
    <3> QED
      BY <2>4, <3>1
  <2> QED
    BY <2>5, <2>8, <2>9, HeaderIs DEF s, four, top
<1>5. PICK line \in Seq(S), i \in 0..Len(raw) :
        Part(line, raw, 0, i) /\ At(raw, i, H!Crlf) /\ RequestIn(line, start, S)
  BY <1>3
<1>6. PICK ask \in Asks[m] : /\ ask.target = start.target
                             /\ ask.version[1] = "0" <=> start.version.major = 0
  BY <1>2, <1>5, AskIs
<1> DEFINE target == start.target
<1>7. /\ target \in Seq(S) /\ H!Form(target) # "none" /\ \A j \in 1..Len(target) : target[j] # "NUL"
  <2>1. PICK j \in 2..Len(line) : /\ Part(target, line, 2, j) /\ Len(line) = j + 5
                                  /\ target \in Seq(S) /\ H!Form(target) # "none"
    BY <1>5 DEF RequestIn
  <2>2. Len(target) = j - 2 /\ \A h \in 1..j - 2 : target[h] = line[2 + h]
    BY <2>1 DEF Part
  <2>3. Len(line) = i - 0 /\ \A h \in 1..i - 0 : line[h] = raw[0 + h]
    BY <1>5 DEF Part
  <2>4. \A h \in 1..Len(raw) : raw[h] # "NUL"
    BY <1>2 DEF Begins
  <2>5. ASSUME NEW h \in 1..Len(target) PROVE target[h] # "NUL"
    <3>1. h \in 1..j - 2
      BY <2>2
    <3>2. i - 0 = j + 5 /\ Len(raw) \in Nat
      BY <1>2, <2>1, <2>3, LenProperties
    <3>3. 2 + h \in 1..i - 0 /\ 0 + (2 + h) = 2 + h /\ 2 + h \in 1..Len(raw)
      BY <3>1, <3>2
    <3>4. target[h] = line[2 + h] /\ line[2 + h] = raw[0 + (2 + h)]
      BY <2>2, <2>3, <3>1, <3>3
    <3> QED
      BY <2>4, <3>3, <3>4
  <2> QED
    BY <2>1, <2>5
<1> DEFINE major == start.version.major
<1>8. CASE major = 0
  <2>1. status = 426
    BY <1>1, <1>8 DEF Statuses
  <2> QED
    BY <1>4, <1>6, <1>8, <2>1 DEF Right
<1>9. CASE major # 0
  <2>1. status # 426 /\ (status = 200 => target = <<>> \/ IsRoot(target))
    <3>1. status \in IF target = <<>> \/ IsRoot(target) THEN {200, 404} ELSE {404}
      BY <1>1, <1>9 DEF Statuses
    <3> QED
      BY <3>1
  <2> HIDE DEF target
  <2>2. status = 200 => TakenForRoot(target)
    <3>1. target = <<>> => TakenForRoot(target)
      BY DEF TakenForRoot
    <3> QED
      BY <1>7, <2>1, <3>1, RootTaken
  <2> QED
    BY <1>4, <1>6, <1>9, <2>1, <2>2 DEF Right, target
<1> QED
  BY <1>8, <1>9

-----------------------------------------------------------------------------
(* The steps.                                                              *)

Sends ==
  /\ message \in [Clients -> Messages]
  /\ sent \in [Clients -> Nat] /\ unread \in [Clients -> Nat]
  /\ \A c \in Clients : unread[c] <= sent[c] /\ sent[c] <= Size(message[c])

Served == {"recv", "parse", "dispatch", "handle", "close"}

\* What was received of the message is what was sent of it then, or there is none.
Parsed(c) ==
  /\ received \in Int /\ received <= sent[c]
  /\ pc \in {"recv", "parse"} => msg = H!Refused
  /\ pc \in {"dispatch", "handle"} =>
       msg = H!Refused \/ (received > 0 /\ msg = H!HttpParse(Buffer(message[c], received)))
  /\ pc = "handle" => Answerable

InHand == pc \in Served => current \in Clients /\ Parsed(current)

Responses ==
  /\ response \in [Clients -> Nat]
  /\ \A c \in Clients : response[c] # NoResponse =>
       \E n \in 1..sent[c] : Answered(message[c], n, response[c])

AInv == CInv /\ Sends /\ InHand /\ Responses

LEMMA AInit == Init => AInv
<1> SUFFICES ASSUME Init PROVE AInv
  OBVIOUS
<1>1. \A m \in Messages : Size(m) \in Nat
  BY ConstantsAssumption DEF Size
<1>2. Sends
  BY <1>1 DEF Init, Sends
<1>3. InHand /\ Responses
  BY DEF Init, InHand, Served, Responses, NoResponse
<1> QED
  BY CInit, <1>2, <1>3 DEF AInv

\* What the clients sent before, and were answered, stands.
LEMMA ResponsesStay ==
  ASSUME Responses, Sends, message' = message, response' = response,
         \A c \in Clients : sent'[c] \in Nat /\ sent[c] <= sent'[c]
  PROVE  Responses'
<1> SUFFICES ASSUME NEW c \in Clients, response[c] # NoResponse
             PROVE  \E n \in 1..sent'[c] : Answered(message[c], n, response[c])
  BY DEF Responses, Answered
<1>1. PICK n \in 1..sent[c] : Answered(message[c], n, response[c])
  BY DEF Responses
<1>2. n \in 1..sent'[c]
  BY DEF Sends
<1> QED
  BY <1>1, <1>2

\* The steps that touch no message, no answer and nothing that was received.
LEMMA HandStays ==
  ASSUME Sends, InHand, Responses,
         UNCHANGED <<message, sent, unread, response, received, msg, current>>,
         \/ pc' \notin Served
         \/ pc \in Served /\ (pc \in {"recv", "parse"} <=> pc' \in {"recv", "parse"})
            /\ (pc' = "handle" => Answerable) /\ (pc' \in {"dispatch", "handle"} => pc \in {"dispatch", "handle"})
  PROVE  Sends' /\ InHand' /\ Responses'
<1>1. Sends'
  BY DEF Sends
<1>2. InHand'
  BY DEF InHand, Parsed, Served, Answerable
<1>3. Responses'
  BY DEF Responses
<1> QED
  BY <1>1, <1>2, <1>3

LEMMA SendKeeps ==
  ASSUME AInv, NEW c \in Clients, Send(c)
  PROVE  Sends' /\ InHand' /\ Responses'
<1>1. /\ message \in [Clients -> Messages] /\ sent \in [Clients -> Nat] /\ unread \in [Clients -> Nat]
      /\ \A d \in Clients : unread[d] <= sent[d] /\ sent[d] <= Size(message[d])
  BY DEF AInv, Sends
<1>2. /\ sent[c] < Size(message[c]) /\ message' = message /\ response' = response
      /\ sent' = [sent EXCEPT ![c] = sent[c] + 1] /\ unread' = [unread EXCEPT ![c] = unread[c] + 1]
      /\ UNCHANGED <<pc, current, received, msg>>
  BY DEF Send, server
<1>3. \A d \in Clients : Size(message[d]) \in Nat
  BY <1>1, ConstantsAssumption DEF Size
<1>4. /\ sent' \in [Clients -> Nat] /\ unread' \in [Clients -> Nat]
      /\ \A d \in Clients : /\ sent'[d] = IF d = c THEN sent[d] + 1 ELSE sent[d]
                            /\ unread'[d] = IF d = c THEN unread[d] + 1 ELSE unread[d]
  BY <1>1, <1>2
<1>5. Sends'
  <2>1. ASSUME NEW d \in Clients PROVE unread'[d] <= sent'[d] /\ sent'[d] <= Size(message[d])
    <3>1. /\ sent[d] \in Nat /\ unread[d] \in Nat /\ Size(message[d]) \in Nat
          /\ unread[d] <= sent[d] /\ sent[d] <= Size(message[d])
          /\ d = c => sent[d] < Size(message[d])
      BY <1>1, <1>2, <1>3
    <3> QED
      BY <1>4, <3>1
  <2> QED
    BY <1>1, <1>2, <1>4, <2>1 DEF Sends, Size
<1>6. \A d \in Clients : sent'[d] \in Nat /\ sent[d] <= sent'[d]
  BY <1>1, <1>4
<1>7. InHand'
  <2> SUFFICES ASSUME pc \in Served PROVE current \in Clients /\ Parsed(current)'
    BY <1>2 DEF InHand
  <2>1. current \in Clients /\ Parsed(current)
    BY DEF AInv, InHand
  <2>2. received \in Int /\ received <= sent'[current]
    <3>1. received \in Int /\ received <= sent[current] /\ sent[current] \in Nat
      BY <1>1, <2>1 DEF Parsed
    <3> QED
      BY <1>6, <2>1, <3>1
  <2> QED
    BY <1>2, <2>1, <2>2 DEF Parsed, Answerable
<1>8. Responses'
  BY <1>2, <1>6, ResponsesStay DEF AInv
<1> QED
  BY <1>5, <1>7, <1>8

LEMMA TakeKeeps ==
  ASSUME AInv, Accept
  PROVE  Sends' /\ InHand' /\ Responses'
<1>1. /\ queue # <<>> /\ current' = Head(queue) /\ received' = 0 /\ msg' = H!Refused
      /\ pc' = "recv" /\ UNCHANGED <<message, sent, unread, response>>
  BY DEF Accept, client
<1>2. current' \in Clients
  BY <1>1 DEF AInv, CInv, Typed
<1>3. Sends' /\ Responses'
  BY <1>1 DEF AInv, Sends, Responses
<1>4. sent'[current'] \in Nat
  BY <1>2, <1>3 DEF Sends
<1>5. InHand'
  BY <1>1, <1>2, <1>4 DEF InHand, Parsed
<1> QED
  BY <1>3, <1>5

LEMMA RecvKeeps ==
  ASSUME AInv, Recv
  PROVE  Sends' /\ InHand' /\ Responses'
<1>1. current \in Clients /\ Parsed(current) /\ msg = H!Refused
  BY DEF AInv, InHand, Served, Recv, Parsed
<1>2. /\ message \in [Clients -> Messages] /\ sent \in [Clients -> Nat] /\ unread \in [Clients -> Nat]
      /\ \A d \in Clients : unread[d] <= sent[d] /\ sent[d] <= Size(message[d])
  BY DEF AInv, Sends
<1>3. /\ received' \in {unread[current], 0, -1} /\ unread' = [unread EXCEPT ![current] = 0]
      /\ pc' = "parse" /\ UNCHANGED <<current, msg, message, sent, response>>
  BY DEF Recv
<1>4. unread' \in [Clients -> Nat] /\ \A d \in Clients : unread'[d] = IF d = current THEN 0 ELSE unread[d]
  BY <1>2, <1>3
<1>5. Sends'
  <2>1. \A d \in Clients : unread'[d] <= sent[d]
    BY <1>2, <1>4
  <2> QED
    BY <1>2, <1>3, <1>4, <2>1 DEF Sends, Size
<1>6. received' \in Int /\ received' <= sent[current]
  <2>1. sent[current] \in Nat /\ unread[current] \in Nat /\ unread[current] <= sent[current]
    BY <1>1, <1>2
  <2> QED
    BY <1>3, <2>1
<1>7. InHand'
  BY <1>1, <1>3, <1>6 DEF InHand, Parsed
<1>8. Responses'
  BY <1>3 DEF AInv, Responses
<1> QED
  BY <1>5, <1>7, <1>8

LEMMA ParseKeeps ==
  ASSUME AInv, Parse
  PROVE  Sends' /\ InHand' /\ Responses'
<1>1. /\ current \in Clients /\ received \in Int /\ received <= sent[current] /\ msg = H!Refused
  BY DEF AInv, InHand, Served, Parse, Parsed
<1>2. pc' = "dispatch" /\ UNCHANGED <<current, received, message, sent, unread, response>>
  BY DEF Parse, client
<1>3. msg' = H!Refused \/ (received > 0 /\ msg' = H!HttpParse(Buffer(message[current], received)))
  <2>1. CASE Received(message[current])
    <3>1. PICK parse \in Parses : parse.text = Buffer(message[current], received) /\ msg' = parse.msg
      BY <2>1 DEF Parse
    <3>2. parse.msg = H!HttpParse(parse.text)
      BY DEF Parses
    <3>3. received > 0
      BY <2>1 DEF Received
    <3>4. msg' = H!HttpParse(Buffer(message[current], received))
      BY <3>1, <3>2
    <3> QED
      BY <3>3, <3>4
  <2>2. CASE ~Received(message[current])
    BY <1>1, <2>2 DEF Parse
  <2> QED
    BY <2>1, <2>2
<1>4. InHand'
  BY <1>1, <1>2, <1>3 DEF InHand, Parsed
<1>5. Sends' /\ Responses'
  BY <1>2 DEF AInv, Sends, Responses
<1> QED
  BY <1>4, <1>5

LEMMA HandleKeeps ==
  ASSUME AInv, Handle
  PROVE  Sends' /\ InHand' /\ Responses'
<1>1. /\ current \in Clients /\ Parsed(current) /\ Answerable
  BY DEF AInv, InHand, Served, Handle, Parsed
<1>2. received > 0 /\ msg = H!HttpParse(Buffer(message[current], received))
  <2>1. H!Refused.ok = FALSE
    BY DEF H!Refused
  <2>2. msg # H!Refused
    BY <1>1, <2>1 DEF Answerable
  <2> QED
    BY <1>1, <2>2 DEF Parsed, Handle
<1>3. UNCHANGED <<current, received, msg, message, sent, unread>> /\ pc' \in {"close", "dead"}
  BY DEF Handle, client
<1>4. Sends' /\ InHand'
  <2>1. Sends'
    BY <1>3 DEF AInv, Sends
  <2>2. Parsed(current)'
    BY <1>1, <1>3 DEF Parsed
  <2> QED
    BY <1>1, <1>3, <2>1, <2>2 DEF InHand
<1>5. ASSUME response' = response PROVE Responses'
  BY <1>3, <1>5 DEF AInv, Responses
<1>6. ASSUME NEW s \in Statuses(msg.start), response' = [response EXCEPT ![current] = s]
      PROVE  Responses'
  <2>1. Answered(message[current], received, s)
    BY <1>1, <1>2, <1>6 DEF Answered, Answerable
  <2>2. received \in 1..sent[current]
    <3>1. received \in Int /\ received <= sent[current] /\ sent[current] \in Nat
      BY <1>1 DEF Parsed, AInv, Sends
    <3> QED
      BY <1>2, <3>1
  <2>3. s \in Nat
    <3>1. s \in {426} \cup {200, 404} \cup {404}
      BY <1>6 DEF Statuses
    <3> QED
      BY <3>1
  <2>4. response \in [Clients -> Nat]
    BY DEF AInv, Responses
  <2>5. response' \in [Clients -> Nat] /\ \A c \in Clients : response'[c] = IF c = current THEN s ELSE response[c]
    BY <1>6, <2>3, <2>4
  <2>6. ASSUME NEW c \in Clients, response'[c] # NoResponse
        PROVE  \E n \in 1..sent[c] : Answered(message[c], n, response'[c])
    <3>1. CASE c = current
      BY <2>1, <2>2, <2>5, <3>1
    <3>2. CASE c # current
      BY <2>5, <2>6, <3>2 DEF AInv, Responses
    <3> QED
      BY <3>1, <3>2
  <2> QED
    BY <1>3, <2>5, <2>6 DEF Responses, Answered
<1>7. Responses'
  BY <1>5, <1>6 DEF Handle
<1> QED
  BY <1>4, <1>7

LEMMA CloseLoses ==
  ASSUME AInv, Close
  PROVE  Sends' /\ InHand' /\ Responses'
<1>1. UNCHANGED <<message, sent, unread>> /\ pc' = "loop"
  BY DEF Close
<1>2. Sends' /\ InHand'
  BY <1>1 DEF AInv, Sends, InHand, Served
<1>3. response' = response \/ response' = [response EXCEPT ![current] = NoResponse]
  BY DEF Close
<1>4. /\ response \in [Clients -> Nat] /\ response' \in [Clients -> Nat]
      /\ \A c \in Clients : response'[c] \in {response[c], NoResponse}
  BY <1>3 DEF AInv, Responses, NoResponse
<1>5. Responses'
  <2>1. ASSUME NEW c \in Clients, response'[c] # NoResponse
        PROVE  \E n \in 1..sent[c] : Answered(message[c], n, response'[c])
    <3>1. response'[c] = response[c]
      BY <1>4, <2>1
    <3> QED
      BY <2>1, <3>1 DEF AInv, Responses
  <2> QED
    BY <1>1, <1>4, <2>1 DEF Responses, Answered
<1> QED
  BY <1>2, <1>5

LEMMA ANext == AInv /\ [Next]_vars => AInv'
<1> SUFFICES ASSUME AInv, [Next]_vars PROVE AInv'
  OBVIOUS
<1>1. CInv'
  BY CNext DEF AInv
<1>2. Sends /\ InHand /\ Responses
  BY DEF AInv
<1>3. CASE Start \/ Loop \/ AcceptFails \/ Shutdown
  BY <1>1, <1>2, <1>3, HandStays DEF AInv, Start, Loop, AcceptFails, Shutdown, Served, client
<1>4. CASE Dispatch
  BY <1>1, <1>2, <1>4, HandStays DEF AInv, Dispatch, Served, client
<1>5. CASE ThrowSwitch \/ UNCHANGED vars
  BY <1>1, <1>2, <1>5, HandStays DEF AInv, ThrowSwitch, vars, server, client, Served, InHand, Parsed
<1>6. CASE \E c \in Clients : Connect(c) \/ Shut(c) \/ Reset(c)
  BY <1>1, <1>2, <1>6, HandStays DEF AInv, Connect, Shut, Reset, server, Served, InHand, Parsed
<1>7. CASE \E c \in Clients : Send(c)
  BY <1>1, <1>7, SendKeeps DEF AInv
<1>8. CASE Accept \/ Recv \/ Parse \/ Handle \/ Close
  BY <1>1, <1>8, TakeKeeps, RecvKeeps, ParseKeeps, HandleKeeps, CloseLoses DEF AInv
<1> QED
  BY <1>3, <1>4, <1>5, <1>6, <1>7, <1>8 DEF Next, Serve

\* A client is only ever sent the answer to its own message, whatever the messages are and
\* wherever they are cut: a request of which all the header had been sent, told to upgrade
\* exactly for version 0.x, and given the page only for what is taken for "/" (http_parse,
\* handle_client, and the order of recv, parse and send in server_start_receiving).
THEOREM AnswersItsOwnMessage == Spec => []RightResponse
<1>1. AInv => RightResponse
  <2> SUFFICES ASSUME AInv, NEW c \in Clients, response[c] # NoResponse
               PROVE  Right(message[c], sent[c], response[c])
    BY DEF RightResponse, Right
  <2>1. PICK n \in 1..sent[c] : Answered(message[c], n, response[c])
    BY DEF AInv, Responses
  <2>2. message[c] \in Messages /\ sent[c] \in Nat /\ sent[c] <= Size(message[c])
    BY DEF AInv, Sends
  <2>3. Size(message[c]) \in Nat
    BY <2>2, ConstantsAssumption DEF Size
  <2>4. n \in 1..Size(message[c]) /\ sent[c] \in n..Size(message[c])
    BY <2>2, <2>3
  <2>5. Right(message[c], n, response[c])
    BY <2>1, <2>2, <2>4, AnswerIsRight
  <2>6. sent[c] \in HeaderIn[message[c]]
    BY <2>2, <2>4, <2>5, HeaderStays DEF Right
  <2> QED
    BY <2>5, <2>6 DEF Right
<1> QED
  BY AInit, ANext, <1>1, PTL DEF Spec

=============================================================================
