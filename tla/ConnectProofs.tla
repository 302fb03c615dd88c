---------------------------- MODULE ConnectProofs ----------------------------
(***************************************************************************)
(* Proofs about Connect: however many pages open one link, and whatever    *)
(* faults strike, a session key is the key of two pages in opposite roles, *)
(* nobody breaks the protocol, and without a fault only a page that came   *)
(* third is turned away.                                                   *)
(***************************************************************************)
EXTENDS Connect, TLAPS

USE BoundAssumption, FaultAssumption

-----------------------------------------------------------------------------
(* The inductive invariant: a page and its current socket                  *)

RoleOf(intent) == IF intent = "create" THEN "initiator" ELSE "joiner"

\* A page that was not told its role has done nothing yet.
Pristine(q) ==
  /\ q.st \in {"IDLE", "CONNECTING", "TERMINATED"}
  /\ q.sending = "no" \/ q.st = "TERMINATED"
  /\ q.inq = <<>> /\ q.peer = NoPage /\ q.handling = "no"

\* A page by itself.
Own(q) ==
  /\ q.role = "undefined" => Pristine(q)
  /\ q.role # "undefined" => q.role = RoleOf(q.intentTried) /\ q.st # "IDLE"
  /\ q.handling # "no" => q.inq # <<>> /\ q.st \notin {"IDLE", "ACTIVE", "TERMINATED"}
  /\ q.inq = <<>> \/ q.inq = <<Head(q.inq)>>
  /\ q.inq # <<>> => q.peer = NoPage
  /\ q.st = "ACTIVE" => q.peer # NoPage
  /\ q.st = "IDLE" => q.intentTried = "create"
  /\ q.reason \notin {"BAD_STATE", "handshake_unexpected"}

Unopened(k) ==
  k.client = "none" /\ k.server = "none" /\ k.paired = FALSE /\ k.handshakeForwards = 0

\* A page and the frames it has sent: one HELLO, then, told its role and its
\* pair, one HANDSHAKE.
Line(q, k, u) ==
  /\ q.st = "IDLE" => Unopened(k) /\ u = <<>>
  /\ q.st # "IDLE" => k.client \in {"open", "closed"} /\ k.server \in {"open", "closed"}
  /\ u = <<"HELLO">> => k.paired = FALSE /\ k.handshakeForwards = 0 /\ q.role = "undefined"
  /\ u = <<"HANDSHAKE">> => k.handshakeForwards = 0
  /\ u = <<"HANDSHAKE">> \/ k.handshakeForwards # 0 =>
       k.paired = TRUE /\ q.role # "undefined" /\ q.sending = "done"
  /\ q.st # "TERMINATED" /\ q.sending # "no" => k.paired = TRUE /\ q.role # "undefined"
  /\ q.inq # <<>> \/ q.peer # NoPage => k.paired = TRUE
  /\ q.st = "TERMINATED" => k.client = "closed"

\* A page and the frames on their way to it: ACK comes first, a refusal comes
\* alone, and there is one HANDSHAKE at most.
Expected(q, k, d, i) ==
  /\ d[i].type # "BAD_STATE"
  /\ d[i].type = "ROOM_ALREADY_EXISTS" =>
       /\ Len(d) = 1 /\ k.server = "closed" /\ k.paired = FALSE
       /\ q.intentTried = "create" /\ q.role = "undefined"
  /\ d[i].type = "ACK" =>
       /\ i = 1 /\ d[i].role = RoleOf(q.intentTried) /\ q.role = "undefined"
       /\ q.intentTried = "join" => k.paired = TRUE
  /\ d[i].type \in {"PEER_JOINED", "HANDSHAKE"} =>
       /\ k.paired = TRUE
       /\ q.role = "undefined" => d[1].type = "ACK"
  /\ d[i].type = "HANDSHAKE" =>
       /\ q.inq = <<>> /\ q.peer = NoPage /\ d[i].from # NoPage
       /\ \A j \in 1..Len(d) : d[j].type = "HANDSHAKE" => i = j

Queue(q, k, u, d) ==
  /\ u = <<"HELLO">> \/ q.st = "IDLE" => d = <<>>
  /\ \A i \in 1..Len(d) : Expected(q, k, d, i)

\* The socket that the page does not use yet, or does not use any more.
Aside(p) ==
  /\ page[p].intentTried = "create" =>
       Unopened(sock[<<p, "join">>]) /\ up[<<p, "join">>] = <<>> /\ down[<<p, "join">>] = <<>>
  /\ page[p].intentTried = "join" =>
       /\ sock[<<p, "create">>].client \in {"closing", "closed"}
       /\ sock[<<p, "create">>].server = "closed" /\ sock[<<p, "create">>].paired = FALSE
       /\ sock[<<p, "create">>].handshakeForwards = 0 /\ up[<<p, "create">>] = <<>>

Local(p) ==
  /\ Own(page[p])
  /\ Line(page[p], sock[Current(p)], up[Current(p)])
  /\ Queue(page[p], sock[Current(p)], up[Current(p)], down[Current(p)])
  /\ Aside(p)

-----------------------------------------------------------------------------
(* The inductive invariant: the room                                       *)

Layout ==
  /\ room.state = "none" => room.initiator = NoSock /\ room.joiner = NoSock
  /\ room.state = "WAITING" => /\ room.initiator # NoSock /\ room.joiner = NoSock
                               /\ sock[room.initiator].paired = FALSE
  /\ room.state = "PAIRED" => /\ room.initiator # NoSock /\ room.joiner # NoSock
                              /\ sock[room.initiator].paired = TRUE
                              /\ sock[room.joiner].paired = TRUE
  /\ room.state = "HALF_OPEN" => room.initiator = NoSock \/ room.joiner = NoSock
  /\ room.initiator # NoSock => room.initiator[2] = "create"
  /\ room.joiner # NoSock => room.joiner[2] = "join"

\* A socket in the room is its page's current one, and was told so first.
Member(s) == s # NoSock /\ s \in {room.initiator, room.joiner}
Seat(s) ==
  /\ s = Current(s[1]) /\ sock[s].server = "open" /\ up[s] # <<"HELLO">>
  /\ Reaches(s) /\ page[s[1]].role = "undefined" => down[s] # <<>> /\ Head(down[s]).type = "ACK"

RoomInv == Layout /\ \A s \in Sock : Member(s) => Seat(s)

BaseInv == TypeOK /\ (\A p \in Page : Local(p)) /\ RoomInv

-----------------------------------------------------------------------------
(* The inductive invariant: who hears whom                                 *)

\* x's HANDSHAKE is on its way to the page, waits in its chain, or was used.
Hears(q, d, x) ==
  \/ q.peer = x
  \/ q.inq = <<x>>
  \/ \E i \in 1..Len(d) : d[i].type = "HANDSHAKE" /\ d[i].from = x
Heard(p, x) == Hears(page[p], down[Current(p)], x)

Together(p, x) ==
  \/ room.initiator = Current(p) /\ room.joiner = Current(x)
  \/ room.initiator = Current(x) /\ room.joiner = Current(p)

Linked(p, x) == Heard(p, x) \/ Heard(x, p) \/ Together(p, x)

\* Who is heard has been paired with the hearer, in the other role, and has had
\* its one HANDSHAKE forwarded.
HeardInv ==
  \A p, x \in Page : Heard(p, x) =>
    /\ p # x /\ page[p].intentTried # page[x].intentTried
    /\ sock[Current(p)].paired = TRUE /\ sock[Current(x)].handshakeForwards = 1

\* Nobody is linked with two.
Matching == \A p, x, y \in Page : Linked(p, x) /\ Linked(p, y) => x = y

MatchInv == HeardInv /\ Matching

-----------------------------------------------------------------------------
(* The inductive invariant: no fault so far                                *)

Refusal == {"ROOM_ALREADY_EXISTS", "ROOM_FULL"}

\* A page is sent nothing but what brings it together with another or turns it
\* away, and a socket that the server has closed has the refusal on its way.
Calm(q, k, d) ==
  /\ q.reason \in {"none", "ROOM_FULL"}
  /\ \A i \in 1..Len(d) : \/ d[i].type \in {"ACK", "PEER_JOINED", "HANDSHAKE"}
                          \/ d[i].type \in Refusal /\ k.server = "closed"
  /\ k.client = "open" /\ k.server = "closed" => Len(d) = 1 /\ d[1].type \in Refusal

\* No socket is lost, and a page leaves a socket only after the server has.
Sound(k) == k.lost = FALSE /\ (k.client \in {"closing", "closed"} => k.server = "closed")

\* Who was told to join, or will be, finds the room.
Vacant ==
  room.state = "none" => \A p \in Page :
    /\ page[p].intentTried = "create"
    /\ \A i \in 1..Len(down[Current(p)]) : down[Current(p)][i].type # "ROOM_ALREADY_EXISTS"

CalmInv ==
  /\ \A s \in Sock : Sound(sock[s])
  /\ \A p \in Page : /\ Calm(page[p], sock[Current(p)], down[Current(p)])
                     /\ sock[Current(p)].paired = TRUE => Member(Current(p))
  /\ Vacant

-----------------------------------------------------------------------------
(* Types                                                                   *)

Reason == ErrorCode \cup {"none", "handshake_unexpected", "handshake_failed", "peer_gone",
                          "ws_close", "user_panic"}

LEMMA SockFacts ==
  /\ \A s \in Sock : s[1] \in Page /\ s[2] \in {"create", "join"} /\ s = <<s[1], s[2]>> /\ s # NoSock
  /\ \A p \in Page, i \in {"create", "join"} :
       <<p, i>> \in Sock /\ <<p, i>>[1] = p /\ <<p, i>>[2] = i /\ <<p, i>> # NoSock
  /\ \A p \in Page : p # NoPage
  /\ NoSock \notin Sock
BY DEF Sock, NoSock, Page, NoPage

LEMMA UpFacts ==
  /\ Head(<<"HELLO">>) = "HELLO" /\ Tail(<<"HELLO">>) = <<>> /\ <<"HELLO">> # <<>>
  /\ Head(<<"HANDSHAKE">>) = "HANDSHAKE" /\ Tail(<<"HANDSHAKE">>) = <<>>
  /\ <<"HANDSHAKE">> # <<>> /\ <<"HANDSHAKE">> # <<"HELLO">>
  /\ Append(<<>>, "HANDSHAKE") = <<"HANDSHAKE">>
OBVIOUS

LEMMA EndedTyped ==
  ASSUME NEW q \in PageState, NEW x \in Reason
  PROVE  /\ EndedAs(q, x) \in PageState
         /\ EndedAs(q, x).st = "TERMINATED" /\ EndedAs(q, x).reason = x
         /\ EndedAs(q, x).inq = <<>> /\ EndedAs(q, x).sending = "done"
         /\ EndedAs(q, x).handling = "no" /\ EndedAs(q, x).role = q.role
         /\ EndedAs(q, x).intentTried = q.intentTried /\ EndedAs(q, x).peer = q.peer
<1>1. <<>> \in Seq(Page)
  OBVIOUS
<1>2. \A e \in Seq(Page) :
        [q EXCEPT !.st = "TERMINATED", !.reason = x, !.inq = e, !.sending = "done",
                  !.handling = "no"] \in PageState
  BY DEF PageState, Reason
<1>3. EndedAs(q, x) \in PageState
  BY <1>1, <1>2 DEF EndedAs
<1>4. QED
  BY <1>3 DEF EndedAs, PageState

LEMMA SendTyped ==
  ASSUME NEW q \in PageState
  PROVE  LET n == SendLocalHandshake(q)
         IN /\ n \in PageState
            /\ n.st = q.st /\ n.intentTried = q.intentTried /\ n.role = q.role
            /\ n.ephemeral = q.ephemeral /\ n.handling = q.handling /\ n.inq = q.inq
            /\ n.peer = q.peer /\ n.reason = q.reason
            /\ n.sending = q.sending \/ (q.sending = "no" /\ n.sending \in {"key", "wrap"})
            /\ n.sending # "no"
<1>1. CASE q.sending # "no"
  BY <1>1 DEF SendLocalHandshake
<1>2. CASE q.sending = "no"
  <2>1. PICK v \in {"key", "wrap"} : SendLocalHandshake(q) = [q EXCEPT !.sending = v]
    <3>1. CASE q.ephemeral = "ready"
      BY <1>2, <3>1 DEF SendLocalHandshake
    <3>2. CASE q.ephemeral # "ready"
      BY <1>2, <3>2 DEF SendLocalHandshake
    <3>3. QED
      BY <3>1, <3>2
  <2>2. [q EXCEPT !.sending = v] \in PageState
    BY DEF PageState
  <2>3. QED
    BY <1>2, <2>1, <2>2 DEF PageState
<1>3. QED
  BY <1>1, <1>2

LEMMA DerivedTyped ==
  ASSUME NEW q \in PageState, q.inq # <<>>
  PROVE  LET n == Derived(q)
         IN /\ n \in PageState /\ Head(q.inq) \in Page
            /\ n.st = "ACTIVE" /\ n.intentTried = q.intentTried /\ n.role = q.role
            /\ n.sending = q.sending /\ n.handling = "no" /\ n.inq = Tail(q.inq)
            /\ n.peer = Head(q.inq) /\ n.reason = q.reason
<1>1. q.inq \in Seq(Page)
  BY DEF PageState
<1>2. Head(q.inq) \in Page /\ Tail(q.inq) \in Seq(Page)
  BY <1>1
<1>3. \A e \in Seq(Page), h \in Page :
        [q EXCEPT !.st = "ACTIVE", !.peer = h, !.inq = e, !.handling = "no"] \in PageState
  BY DEF PageState
<1>4. Derived(q) \in PageState
  BY <1>2, <1>3 DEF Derived
<1>5. QED
  BY <1>2, <1>4 DEF Derived, PageState

\* A HANDSHAKE in the chain is the only one.
LEMMA OnlyOne ==
  ASSUME NEW q \in PageState, Own(q), q.inq # <<>>
  PROVE  /\ q.inq = <<Head(q.inq)>> /\ Head(q.inq) \in Page /\ Tail(q.inq) = <<>>
<1>1. q.inq \in Seq(Page) /\ q.inq = <<Head(q.inq)>>
  BY DEF PageState, Own
<1>2. Head(q.inq) \in Page
  BY <1>1
<1>3. \A h \in Page : Tail(<<h>>) = <<>>
  OBVIOUS
<1>4. QED
  BY <1>1, <1>2, <1>3

-----------------------------------------------------------------------------
(* Frames on their way to a page                                           *)

\* The first frame has arrived.
LEMMA QueueTail ==
  ASSUME NEW q, NEW n, NEW k, NEW l, NEW u, NEW d \in Seq(Frame), d # <<>>, Queue(q, k, u, d),
         l.paired = k.paired, n.st # "IDLE", n.intentTried = q.intentTried,
         n.role # "undefined" \/ (n.role = q.role /\ Head(d).type # "ACK"),
         Head(d).type = "HANDSHAKE" \/ (n.inq \in {q.inq, <<>>} /\ n.peer = q.peer)
  PROVE  /\ Queue(n, l, u, Tail(d)) /\ Tail(d) \in Seq(Frame) /\ Head(d) \in Frame
         /\ Expected(q, k, d, 1) /\ d[1] = Head(d) /\ u # <<"HELLO">>
<1> DEFINE e == Tail(d)
<1>1. /\ e \in Seq(Frame) /\ Len(e) = Len(d) - 1 /\ Head(d) = d[1] /\ Len(d) \in Nat \ {0}
      /\ Head(d) \in Frame /\ \A i \in 1..Len(e) : e[i] = d[i + 1]
  OBVIOUS
<1> HIDE DEF e
<1>2. Expected(q, k, d, 1) /\ u # <<"HELLO">>
  BY <1>1 DEF Queue
<1>3. ASSUME NEW i \in 1..Len(e) PROVE Expected(n, l, e, i)
  <2>1. i + 1 \in 1..Len(d) /\ i + 1 # 1 /\ e[i] = d[i + 1] /\ Len(d) # 1
    BY <1>1
  <2>2. Expected(q, k, d, i + 1)
    BY <2>1 DEF Queue
  <2>3. e[i].type \notin {"BAD_STATE", "ROOM_ALREADY_EXISTS", "ACK"}
    BY <2>1, <2>2 DEF Expected
  <2>4. ASSUME e[i].type \in {"PEER_JOINED", "HANDSHAKE"}
        PROVE  l.paired = TRUE /\ n.role # "undefined"
    <3>1. k.paired = TRUE /\ (q.role = "undefined" => Head(d).type = "ACK")
      BY <1>1, <2>1, <2>2, <2>4 DEF Expected
    <3>2. QED
      BY <3>1
  <2>5. ASSUME e[i].type = "HANDSHAKE"
        PROVE  /\ n.inq = <<>> /\ n.peer = NoPage /\ e[i].from # NoPage
               /\ \A j \in 1..Len(e) : e[j].type = "HANDSHAKE" => i = j
    <3>1. /\ q.inq = <<>> /\ q.peer = NoPage /\ d[i + 1].from # NoPage
          /\ \A j \in 1..Len(d) : d[j].type = "HANDSHAKE" => i + 1 = j
      BY <2>1, <2>2, <2>5 DEF Expected
    <3>2. Head(d).type # "HANDSHAKE"
      BY <1>1, <2>1, <3>1
    <3>3. \A j \in 1..Len(e) : e[j].type = "HANDSHAKE" => i = j
      <4> SUFFICES ASSUME NEW j \in 1..Len(e), e[j].type = "HANDSHAKE" PROVE i = j
        OBVIOUS
      <4>1. j + 1 \in 1..Len(d) /\ d[j + 1].type = "HANDSHAKE"
        BY <1>1
      <4>2. i + 1 = j + 1
        BY <3>1, <4>1
      <4>3. QED
        BY <4>2
    <3>4. QED
      BY <2>1, <3>1, <3>2, <3>3
  <2>6. QED
    BY <2>3, <2>4, <2>5 DEF Expected
<1>4. Queue(n, l, u, e)
  BY <1>2, <1>3 DEF Queue
<1>5. QED
  BY <1>1, <1>2, <1>4 DEF e

\* The server sends a frame to a socket that it has open.
Sendable(q, l, d, f) ==
  /\ f.type # "BAD_STATE"
  /\ f.type = "ROOM_ALREADY_EXISTS" =>
       /\ d = <<>> /\ l.server = "closed" /\ l.paired = FALSE
       /\ q.intentTried = "create" /\ q.role = "undefined"
  /\ f.type = "ACK" =>
       /\ d = <<>> /\ f.role = RoleOf(q.intentTried) /\ q.role = "undefined"
       /\ q.intentTried = "join" => l.paired = TRUE
  /\ f.type \in {"PEER_JOINED", "HANDSHAKE"} =>
       /\ l.paired = TRUE
       /\ q.role = "undefined" => d # <<>> /\ Head(d).type = "ACK"
  /\ f.type = "HANDSHAKE" =>
       /\ q.inq = <<>> /\ q.peer = NoPage /\ f.from # NoPage
       /\ \A j \in 1..Len(d) : d[j].type # "HANDSHAKE"

LEMMA QueueAppend ==
  ASSUME NEW q, NEW k, NEW l, NEW u, NEW v, NEW d \in Seq(Frame), NEW f \in Frame,
         Queue(q, k, u, d), k.server = "open", l.paired = TRUE \/ l.paired = k.paired,
         v # <<"HELLO">>, q.st # "IDLE", Sendable(q, l, d, f)
  PROVE  Queue(q, l, v, Append(d, f)) /\ Append(d, f) \in Seq(Frame)
<1> DEFINE e == Append(d, f)
<1>1. /\ e \in Seq(Frame) /\ Len(e) = Len(d) + 1 /\ e[Len(d) + 1] = f /\ Len(d) \in Nat
      /\ \A i \in 1..Len(d) : e[i] = d[i]
      /\ d = <<>> <=> Len(d) = 0
      /\ d # <<>> => Head(d) = d[1] /\ 1 \in 1..Len(d)
  OBVIOUS
<1> HIDE DEF e
<1>2. ASSUME NEW i \in 1..Len(e) PROVE Expected(q, l, e, i)
  <2>1. CASE i \in 1..Len(d)
    <3>1. Expected(q, k, d, i) /\ e[i] = d[i] /\ e[1] = d[1]
      BY <1>1, <2>1 DEF Queue
    <3>2. e[i].type \notin {"BAD_STATE", "ROOM_ALREADY_EXISTS"}
      BY <3>1 DEF Expected
    <3>3. e[i].type = "HANDSHAKE" => \A j \in 1..Len(e) : e[j].type = "HANDSHAKE" => i = j
      <4> SUFFICES ASSUME e[i].type = "HANDSHAKE", NEW j \in 1..Len(e), e[j].type = "HANDSHAKE"
                   PROVE  i = j
        OBVIOUS
      <4>1. CASE j \in 1..Len(d)
        BY <1>1, <2>1, <3>1, <4>1 DEF Expected
      <4>2. CASE j = Len(d) + 1
        BY <1>1, <2>1, <3>1, <4>2 DEF Sendable
      <4>3. QED
        BY <1>1, <4>1, <4>2
    <3>4. QED
      BY <3>1, <3>2, <3>3 DEF Expected
  <2>2. CASE i = Len(d) + 1
    <3>1. e[i] = f
      BY <1>1, <2>2
    <3>2. d = <<>> => i = 1 /\ Len(e) = 1
      BY <1>1, <2>2
    <3>3. d # <<>> => e[1] = Head(d)
      BY <1>1
    <3>4. f.type = "HANDSHAKE" => \A j \in 1..Len(e) : e[j].type = "HANDSHAKE" => i = j
      BY <1>1, <2>2 DEF Sendable
    <3>5. QED
      BY <3>1, <3>2, <3>3, <3>4 DEF Sendable, Expected
  <2>3. QED
    BY <1>1, <2>1, <2>2
<1>3. Queue(q, l, v, e)
  BY <1>2 DEF Queue
<1>4. QED
  BY <1>1, <1>3 DEF e

\* Nothing arrives, while page and socket move on.
LEMMA QueueSame ==
  ASSUME NEW q, NEW n, NEW k, NEW l, NEW u, NEW v, NEW d, Queue(q, k, u, d),
         l.paired = k.paired \/ (l.paired = TRUE /\ k.server # "closed"),
         l.server \in {k.server, "closed"}, n.st # "IDLE", v # <<"HELLO">> \/ v = u,
         n.intentTried = q.intentTried, n.role = q.role,
         (\E i \in 1..Len(d) : d[i].type = "HANDSHAKE") => n.inq \in {q.inq, <<>>} /\ n.peer = q.peer
  PROVE  Queue(n, l, v, d)
<1>1. ASSUME NEW i \in 1..Len(d) PROVE Expected(n, l, d, i)
  <2>1. Expected(q, k, d, i)
    BY DEF Queue
  <2>2. QED
    BY <2>1 DEF Expected
<1>2. QED
  BY <1>1 DEF Queue

LEMMA QueueServed ==
  ASSUME NEW q, NEW k, NEW l, NEW u, NEW v, NEW d, Queue(q, k, u, d), q.st # "IDLE",
         l.paired = k.paired \/ (l.paired = TRUE /\ k.server # "closed"),
         l.server = k.server \/ l.server = "closed", v # <<"HELLO">> \/ v = u
  PROVE  Queue(q, l, v, d)
<1>1. ASSUME NEW i \in 1..Len(d) PROVE Expected(q, l, d, i)
  <2>1. Expected(q, k, d, i)
    BY DEF Queue
  <2>2. QED
    BY <2>1 DEF Expected
<1>2. QED
  BY <1>1 DEF Queue

LEMMA QueueEmpty ==
  ASSUME NEW q, NEW k, NEW u
  PROVE  Queue(q, k, u, <<>>)
BY DEF Queue

-----------------------------------------------------------------------------
(* Pages and sockets that a step leaves alone                              *)

LEMMA CurrentSock ==
  ASSUME TypeOK
  PROVE  \A p \in Page : /\ Current(p) \in Sock /\ Current(p)[1] = p /\ page[p] \in PageState
                         /\ sock[Current(p)] \in SocketState /\ down[Current(p)] \in Seq(Frame)
                         /\ Current(p)[2] = page[p].intentTried
                         /\ page[p].intentTried \in {"create", "join"}
                         /\ up[Current(p)] \in {<<>>, <<"HELLO">>, <<"HANDSHAKE">>}
<1> TAKE p \in Page
<1>1. page[p] \in PageState /\ page[p].intentTried \in {"create", "join"}
  BY DEF TypeOK, PageState
<1>2. Current(p) \in Sock /\ Current(p)[1] = p /\ Current(p)[2] = page[p].intentTried
  BY <1>1, SockFacts DEF Current
<1>3. QED
  BY <1>1, <1>2 DEF TypeOK

Same(s) == sock'[s] = sock[s] /\ up'[s] = up[s] /\ down'[s] = down[s]

\* The invariant of a page after a step that does not change its intent.
Stays(x) ==
  /\ page'[x].intentTried = page[x].intentTried
  /\ Own(page'[x])
  /\ Line(page'[x], sock'[Current(x)], up'[Current(x)])
  /\ Queue(page'[x], sock'[Current(x)], up'[Current(x)], down'[Current(x)])

LEMMA Locals ==
  ASSUME TypeOK, \A x \in Page : Local(x), \A x \in Page : Stays(x),
         \A s \in Sock : s # Current(s[1]) => Same(s)
  PROVE  \A x \in Page : Local(x)'
<1> TAKE x \in Page
<1>1. Current(x)' = Current(x) /\ page'[x].intentTried = page[x].intentTried
  BY DEF Stays, Current
<1>2. page[x].intentTried = "create" => Same(<<x, "join">>)
  BY SockFacts, CurrentSock
<1>3. page[x].intentTried = "join" => Same(<<x, "create">>)
  BY SockFacts, CurrentSock
<1>4. Aside(x)'
  BY <1>1, <1>2, <1>3 DEF Local, Aside, Same
<1>5. QED
  BY <1>1, <1>4 DEF Stays, Local

LEMMA StaysPut ==
  ASSUME NEW x \in Page, Local(x), page'[x] = page[x], Same(Current(x))
  PROVE  Stays(x)
BY DEF Stays, Local, Same

\* A step of one page and its socket.
LEMMA OnePage ==
  ASSUME TypeOK, \A x \in Page : Local(x), NEW p \in Page, Stays(p),
         \A x \in Page : x # p => page'[x] = page[x],
         \A s \in Sock : s # Current(p) => Same(s)
  PROVE  \A x \in Page : Local(x)'
<1>1. ASSUME NEW x \in Page, x # p PROVE Stays(x)
  <2>1. Current(x) # Current(p) /\ Current(x) \in Sock
    BY <1>1, CurrentSock
  <2>2. QED
    BY <1>1, <2>1, StaysPut
<1>2. ASSUME NEW s \in Sock, s # Current(s[1]) PROVE Same(s)
  <2>1. s # Current(p)
    BY <1>2, CurrentSock
  <2>2. QED
    BY <2>1
<1>3. QED
  BY <1>1, <1>2, Locals

\* The room stays as it is.
LEMMA RoomKept ==
  ASSUME RoomInv, room \in RoomState, room' = room,
         \A s \in Sock : Member(s) => sock'[s].paired = sock[s].paired /\ Seat(s)'
  PROVE  RoomInv'
<1>1. room.initiator # NoSock => room.initiator \in Sock /\ Member(room.initiator)
  BY DEF RoomState, Member
<1>2. room.joiner # NoSock => room.joiner \in Sock /\ Member(room.joiner)
  BY DEF RoomState, Member
<1>3. Layout'
  BY <1>1, <1>2 DEF RoomInv, Layout
<1>4. \A s : Member(s)' = Member(s)
  BY DEF Member
<1>5. QED
  BY <1>3, <1>4 DEF RoomInv

-----------------------------------------------------------------------------
(* The page                                                                *)

\* What a step of the page with its current socket must keep.
LEMMA PageStep ==
  ASSUME BaseInv, TypeOK', NEW p \in Page, NEW n, page' = [page EXCEPT ![p] = n],
         n.intentTried = page[p].intentTried, room' = room,
         \A s \in Sock : s # Current(p) => Same(s),
         NEW c, c = Current(p), sock'[c].server = sock[c].server, sock'[c].paired = sock[c].paired,
         Own(n), Line(n, sock'[c], up'[c]), Queue(n, sock'[c], up'[c], down'[c]),
         up'[c] # <<"HELLO">> \/ up'[c] = up[c],
         n.role = "undefined" =>
           /\ page[p].role = "undefined"
           /\ sock'[c].client # "open" \/ (sock'[c] = sock[c] /\ down'[c] = down[c])
  PROVE  BaseInv'
<1>1. TypeOK /\ (\A x \in Page : Local(x)) /\ RoomInv
  BY DEF BaseInv
<1>2. page'[p] = n /\ \A x \in Page : x # p => page'[x] = page[x]
  BY <1>1 DEF TypeOK
<1>3. Stays(p)
  BY <1>2 DEF Stays
<1>4. \A x \in Page : Local(x)'
  BY <1>1, <1>2, <1>3, OnePage
<1>5. \A x \in Page : Current(x)' = Current(x)
  BY <1>2 DEF Current
<1>6. ASSUME NEW s \in Sock, Member(s)
      PROVE  sock'[s].paired = sock[s].paired /\ Seat(s)'
  <2>1. Seat(s) /\ s = Current(s[1]) /\ s[1] \in Page
    BY <1>1, <1>6, SockFacts DEF RoomInv, Seat
  <2>2. (s = Current(s[1]))'
    BY <1>5, <2>1
  <2>3. CASE s = c
    <3>1. s[1] = p
      BY <1>1, <2>3, CurrentSock
    <3>2. sock'[s].server = "open" /\ up'[s] # <<"HELLO">>
      BY <2>1, <2>3 DEF Seat
    <3>3. ASSUME Reaches(s)', page'[p].role = "undefined"
          PROVE  down'[s] # <<>> /\ Head(down'[s]).type = "ACK"
      BY <1>2, <2>1, <2>3, <3>1, <3>3 DEF Seat, Reaches
    <3>4. QED
      BY <2>2, <2>3, <3>1, <3>2, <3>3 DEF Seat
  <2>4. CASE s # c
    <3>1. Same(s) /\ s[1] # p
      BY <2>1, <2>4
    <3>2. page'[s[1]] = page[s[1]]
      BY <1>2, <2>1, <3>1
    <3>3. QED
      BY <2>1, <2>2, <3>1, <3>2 DEF Same, Seat, Reaches
  <2>5. QED
    BY <2>3, <2>4
<1>7. RoomInv'
  BY <1>1, <1>6, RoomKept DEF TypeOK
<1>8. QED
  BY <1>4, <1>7 DEF BaseInv

LEMMA LocalFacts ==
  ASSUME BaseInv, NEW p \in Page
  PROVE  /\ TypeOK /\ Local(p) /\ page[p] \in PageState /\ Own(page[p])
         /\ Line(page[p], sock[Current(p)], up[Current(p)])
         /\ Queue(page[p], sock[Current(p)], up[Current(p)], down[Current(p)])
         /\ Current(p) \in Sock /\ sock[Current(p)] \in SocketState
         /\ down[Current(p)] \in Seq(Frame)
         /\ up[Current(p)] \in {<<>>, <<"HELLO">>, <<"HANDSHAKE">>}
BY CurrentSock DEF BaseInv, Local

\* A step of the page alone: only its record changes.
LEMMA RecordStep ==
  ASSUME BaseInv, NEW p \in Page, NEW n \in PageState, page' = [page EXCEPT ![p] = n],
         UNCHANGED <<sock, up, down, room>>, faults' \in Seq(Faults), Len(faults') <= MaxFaults,
         n.intentTried = page[p].intentTried, n.role = page[p].role, n.st # "IDLE",
         Own(n), n.peer = page[p].peer \/ page[p].inq # <<>>, n.inq \in {page[p].inq, <<>>},
         Line(n, sock[Current(p)], up[Current(p)])
  PROVE  BaseInv'
<1> DEFINE c == Current(p)
<1>1. /\ TypeOK /\ Queue(page[p], sock[c], up[c], down[c])
  BY LocalFacts
<1>2. TypeOK'
  BY <1>1 DEF TypeOK
<1>3. (\E i \in 1..Len(down[c]) : down[c][i].type = "HANDSHAKE") => n.peer = page[p].peer
  BY <1>1 DEF Queue, Expected
<1>4. Queue(n, sock[c], up[c], down[c])
  BY <1>1, <1>3, QueueSame
<1>5. QED
  BY <1>2, <1>4, PageStep DEF Same

LEMMA EphemeralReadyBase ==
  ASSUME BaseInv, NEW p \in Page, EphemeralReady(p)
  PROVE  BaseInv'
<1> DEFINE q == page[p]
           h == IF q.handling = "key" THEN "derive" ELSE q.handling
           n == [q EXCEPT !.ephemeral = "ready", !.sending = "wrap", !.handling = h]
<1>1. /\ q \in PageState /\ Own(q) /\ Line(q, sock[Current(p)], up[Current(p)]) /\ TypeOK
  BY LocalFacts
<1>2. page' = [page EXCEPT ![p] = n] /\ UNCHANGED <<sock, up, down, room, faults>>
  BY <1>1 DEF EphemeralReady, TypeOK
<1>3. q.st \notin {"IDLE", "TERMINATED"} /\ q.sending = "key"
  BY DEF EphemeralReady, Alive
<1>4. h \in {"no", "key", "derive"} /\ (h = "no" <=> q.handling = "no")
  BY <1>1 DEF PageState
<1> HIDE DEF h
<1>5. /\ n \in PageState
      /\ n.st = q.st /\ n.intentTried = q.intentTried /\ n.role = q.role /\ n.inq = q.inq
      /\ n.peer = q.peer /\ n.reason = q.reason /\ n.sending = "wrap" /\ n.handling = h
  BY <1>1, <1>4 DEF PageState
<1> HIDE DEF n
<1>6. Own(n)
  BY <1>1, <1>3, <1>4, <1>5 DEF Own, Pristine
<1>7. Line(n, sock[Current(p)], up[Current(p)])
  BY <1>1, <1>3, <1>5 DEF Line
<1>8. QED
  BY <1>1, <1>2, <1>3, <1>5, <1>6, <1>7, RecordStep DEF TypeOK

LEMMA HandshakeCompletesBase ==
  ASSUME BaseInv, NEW p \in Page, HandshakeCompletes(p)
  PROVE  BaseInv'
<1> DEFINE q == page[p]
           n == Derived(q)
<1>1. /\ q \in PageState /\ Own(q) /\ Line(q, sock[Current(p)], up[Current(p)]) /\ TypeOK
  BY LocalFacts
<1>2. page' = [page EXCEPT ![p] = n] /\ UNCHANGED <<sock, up, down, room, faults>>
  BY <1>1 DEF HandshakeCompletes, TypeOK
<1>3. q.st \notin {"IDLE", "TERMINATED"} /\ q.handling = "derive" /\ q.inq # <<>>
  BY <1>1 DEF HandshakeCompletes, Alive, Own
<1>4. /\ n \in PageState /\ Head(q.inq) \in Page
      /\ n.st = "ACTIVE" /\ n.intentTried = q.intentTried /\ n.role = q.role
      /\ n.sending = q.sending /\ n.handling = "no" /\ n.inq = Tail(q.inq)
      /\ n.peer = Head(q.inq) /\ n.reason = q.reason
  BY <1>1, <1>3, DerivedTyped
<1>5. n.inq = <<>> /\ n.peer # NoPage
  BY <1>1, <1>3, <1>4, OnlyOne, SockFacts
<1>6. q.role # "undefined"
  BY <1>1, <1>3 DEF Own, Pristine
<1> HIDE DEF n
<1>7. Own(n)
  BY <1>1, <1>4, <1>5, <1>6 DEF Own
<1>8. Line(n, sock[Current(p)], up[Current(p)])
  BY <1>1, <1>3, <1>4 DEF Line
<1>9. QED
  BY <1>1, <1>2, <1>3, <1>4, <1>5, <1>7, <1>8, RecordStep DEF TypeOK

\* A socket record with its client end closed.
LEMMA ClientTyped ==
  ASSUME NEW k \in SocketState, NEW v \in {"open", "closing", "closed"}
  PROVE  LET l == [k EXCEPT !.client = v]
         IN /\ l \in SocketState /\ l.client = v /\ l.server = k.server /\ l.lost = k.lost
            /\ l.paired = k.paired /\ l.handshakeForwards = k.handshakeForwards
BY DEF SocketState

\* The page ends, and its socket with it.
LEMMA EndBase ==
  ASSUME BaseInv, NEW p \in Page, Alive(p), NEW x \in Reason \ {"BAD_STATE", "handshake_unexpected"},
         Terminate(p, x), up' = up, room' = room, faults' \in Seq(Faults), Len(faults') <= MaxFaults,
         \/ down' = down
         \/ /\ down[Current(p)] # <<>> /\ Head(down[Current(p)]).type # "ACK"
            /\ down' = [down EXCEPT ![Current(p)] = Tail(@)]
  PROVE  BaseInv'
<1> DEFINE q == page[p]
           c == Current(p)
           n == EndedAs(q, x)
           l == [sock[c] EXCEPT !.client = "closed"]
<1>1. /\ TypeOK /\ q \in PageState /\ Own(q) /\ Line(q, sock[c], up[c])
      /\ Queue(q, sock[c], up[c], down[c])
      /\ c \in Sock /\ sock[c] \in SocketState /\ down[c] \in Seq(Frame)
  BY LocalFacts
<1>2. page' = [page EXCEPT ![p] = n] /\ sock' = [sock EXCEPT ![c] = l]
  BY <1>1 DEF Terminate, TypeOK
<1>3. /\ n \in PageState /\ n.st = "TERMINATED" /\ n.reason = x /\ n.inq = <<>>
      /\ n.sending = "done" /\ n.handling = "no" /\ n.role = q.role
      /\ n.intentTried = q.intentTried /\ n.peer = q.peer
  BY <1>1, EndedTyped
<1>4. /\ l \in SocketState /\ l.client = "closed" /\ l.server = sock[c].server
      /\ l.paired = sock[c].paired /\ l.handshakeForwards = sock[c].handshakeForwards
  BY <1>1, ClientTyped
<1> HIDE DEF n, l
<1>5. sock'[c] = l /\ sock' \in [Sock -> SocketState] /\ \A s \in Sock : s # c => sock'[s] = sock[s]
  BY <1>1, <1>2, <1>4 DEF TypeOK
<1>6. q.st # "IDLE"
  BY DEF Alive
<1>7. Own(n)
  BY <1>1, <1>3 DEF Own, Pristine
<1>8. Line(n, l, up'[c])
  BY <1>1, <1>3, <1>4, <1>6 DEF Line
<1>9. /\ Queue(n, l, up'[c], down'[c]) /\ down' \in [Sock -> Seq(Frame)]
      /\ \A s \in Sock : s # c => down'[s] = down[s]
  <2>1. CASE down' = down
    <3>1. Queue(n, l, up[c], down[c])
      BY <1>1, <1>3, <1>4, QueueSame
    <3>2. QED
      BY <1>1, <2>1, <3>1 DEF TypeOK
  <2>2. CASE /\ down[c] # <<>> /\ Head(down[c]).type # "ACK"
             /\ down' = [down EXCEPT ![c] = Tail(@)]
    <3>1. Queue(n, l, up[c], Tail(down[c])) /\ Tail(down[c]) \in Seq(Frame)
      BY <1>1, <1>3, <1>4, <2>2, QueueTail
    <3>2. QED
      BY <1>1, <2>2, <3>1 DEF TypeOK
  <2>3. QED
    BY <2>1, <2>2
<1>10. TypeOK'
  BY <1>1, <1>2, <1>3, <1>5, <1>9 DEF TypeOK
<1>11. \A s \in Sock : s # c => Same(s)
  BY <1>5, <1>9 DEF Same
<1>12. /\ Line(n, sock'[c], up'[c]) /\ Queue(n, sock'[c], up'[c], down'[c])
       /\ sock'[c].client # "open" /\ sock'[c].server = sock[c].server
       /\ sock'[c].paired = sock[c].paired /\ up'[c] = up[c]
  BY <1>4, <1>5, <1>8, <1>9
<1>13. QED
  BY <1>2, <1>3, <1>7, <1>10, <1>11, <1>12, PageStep

LEMMA HandleHandshakeBase ==
  ASSUME BaseInv, NEW p \in Page, HandleHandshake(p)
  PROVE  BaseInv'
<1> DEFINE q == page[p]
           m == SendLocalHandshake(q)
<1>1. /\ q \in PageState /\ Own(q) /\ Line(q, sock[Current(p)], up[Current(p)]) /\ TypeOK
  BY LocalFacts
<1>2. q.st \notin {"IDLE", "TERMINATED"} /\ q.inq # <<>>
  BY DEF HandleHandshake, Alive
<1>3. q.st # "ACTIVE" /\ q.role # "undefined" /\ q.peer = NoPage
  BY <1>1, <1>2 DEF Own, Pristine
<1>4. /\ m \in PageState /\ m.st = q.st /\ m.intentTried = q.intentTried /\ m.role = q.role
      /\ m.ephemeral = q.ephemeral /\ m.handling = q.handling /\ m.inq = q.inq
      /\ m.peer = q.peer /\ m.reason = q.reason
      /\ m.sending = q.sending \/ (q.sending = "no" /\ m.sending \in {"key", "wrap"})
      /\ m.sending # "no"
  BY <1>1, SendTyped
<1> HIDE DEF m
<1>5. m.ephemeral \in {"none", "ready", "failed"} /\ Tail(m.inq) = <<>>
  BY <1>1, <1>2, <1>4, OnlyOne DEF PageState
<1> DEFINE next == [none |-> [m EXCEPT !.handling = "key"],
                    ready |-> [m EXCEPT !.handling = "derive"],
                    failed |-> [m EXCEPT !.inq = Tail(@)]]
           n == next[m.ephemeral]
<1>6. page' = [page EXCEPT ![p] = n] /\ UNCHANGED <<sock, up, down, room, faults>>
  BY <1>3 DEF HandleHandshake, m
<1>7. \/ n = [m EXCEPT !.handling = "key"] \/ n = [m EXCEPT !.handling = "derive"]
      \/ n = [m EXCEPT !.inq = <<>>]
  <2>1. [m EXCEPT !.inq = Tail(@)] = [m EXCEPT !.inq = <<>>]
    BY <1>4, <1>5 DEF PageState
  <2>2. \A a, b, d : /\ [none |-> a, ready |-> b, failed |-> d]["none"] = a
                     /\ [none |-> a, ready |-> b, failed |-> d]["ready"] = b
                     /\ [none |-> a, ready |-> b, failed |-> d]["failed"] = d
    OBVIOUS
  <2>3. next["none"] = [m EXCEPT !.handling = "key"] /\ next["ready"] = [m EXCEPT !.handling = "derive"]
        /\ next["failed"] = [m EXCEPT !.inq = <<>>]
    BY <2>1, <2>2
  <2> HIDE DEF next
  <2>4. QED
    BY <1>5, <2>3
<1> HIDE DEF n
<1>8. /\ n \in PageState
      /\ n.st = q.st /\ n.intentTried = q.intentTried /\ n.role = q.role /\ n.peer = q.peer
      /\ n.reason = q.reason /\ n.sending = m.sending
      /\ \/ n.inq = <<>> /\ n.handling = q.handling
         \/ n.inq = q.inq
  <2>1. \A v \in {"key", "derive"} : [m EXCEPT !.handling = v] \in PageState
    BY <1>4 DEF PageState
  <2>2. \A e \in Seq(Page) : [m EXCEPT !.inq = e] \in PageState
    BY <1>4 DEF PageState
  <2>3. n \in PageState
    <3>1. <<>> \in Seq(Page)
      OBVIOUS
    <3>2. [m EXCEPT !.inq = <<>>] \in PageState
      BY <2>2, <3>1
    <3>3. QED
      BY <1>7, <2>1, <3>2, Zenon
  <2>4. QED
    BY <1>4, <1>7, <2>3 DEF PageState
<1>9. q.handling = "no"
  BY DEF HandleHandshake
<1>10. Own(n)
  BY <1>1, <1>2, <1>3, <1>8, <1>9 DEF Own
<1>11. Line(n, sock[Current(p)], up[Current(p)])
  <2>1. sock[Current(p)].paired = TRUE
    BY <1>1, <1>2 DEF Line
  <2>2. QED
    BY <1>1, <1>2, <1>3, <1>4, <1>8, <2>1 DEF Line
<1>12. QED
  BY <1>1, <1>2, <1>6, <1>8, <1>10, <1>11, RecordStep DEF TypeOK

LEMMA HandshakeWrappedBase ==
  ASSUME BaseInv, NEW p \in Page, HandshakeWrapped(p)
  PROVE  BaseInv'
<1> DEFINE q == page[p]
           c == Current(p)
           v == IF q.st \in {"CONNECTING", "WAITING_FOR_PEER"} THEN "HANDSHAKING" ELSE q.st
           n == [q EXCEPT !.sending = "done", !.st = v]
           u == IF sock[c].lost THEN up[c] ELSE Append(up[c], "HANDSHAKE")
<1>1. /\ TypeOK /\ q \in PageState /\ Own(q) /\ Line(q, sock[c], up[c])
      /\ Queue(q, sock[c], up[c], down[c])
      /\ c \in Sock /\ up[c] \in {<<>>, <<"HELLO">>, <<"HANDSHAKE">>}
  BY LocalFacts
<1>2. page' = [page EXCEPT ![p] = n] /\ up' = [up EXCEPT ![c] = u]
  BY <1>1 DEF HandshakeWrapped, TypeOK
<1>3. UNCHANGED <<sock, down, room, faults>>
  BY DEF HandshakeWrapped
<1>4. q.st \notin {"IDLE", "TERMINATED"} /\ q.sending = "wrap"
  BY DEF HandshakeWrapped, Alive
<1>5. /\ up[c] = <<>> /\ sock[c].handshakeForwards = 0 /\ sock[c].paired = TRUE
      /\ q.role # "undefined"
  BY <1>1, <1>4 DEF Line
<1>6. u \in {<<>>, <<"HANDSHAKE">>}
  BY <1>5, UpFacts
<1>7. /\ v \in {"CONNECTING", "WAITING_FOR_PEER", "HANDSHAKING", "ACTIVE"}
      /\ v # "CONNECTING" /\ (v = "ACTIVE" <=> q.st = "ACTIVE")
  BY <1>1, <1>4 DEF PageState
<1> HIDE DEF u, v
<1>8. /\ n \in PageState
      /\ n.st = v /\ n.intentTried = q.intentTried /\ n.role = q.role /\ n.inq = q.inq
      /\ n.peer = q.peer /\ n.reason = q.reason /\ n.sending = "done" /\ n.handling = q.handling
  BY <1>1, <1>7 DEF PageState
<1> HIDE DEF n
<1>9. Own(n)
  BY <1>1, <1>4, <1>5, <1>7, <1>8 DEF Own
<1>10. Line(n, sock[c], u)
  BY <1>1, <1>4, <1>5, <1>6, <1>7, <1>8, UpFacts DEF Line
<1>11. u # <<"HELLO">> /\ n.st # "IDLE"
  BY <1>6, <1>7, <1>8, UpFacts
<1>12. Queue(n, sock[c], u, down[c])
  BY <1>1, <1>8, <1>11, QueueSame
<1>13. up'[c] = u /\ \A s \in Sock : s # c => Same(s)
  BY <1>1, <1>2, <1>3 DEF Same, TypeOK
<1>14. up' \in [Sock -> {<<>>, <<"HELLO">>, <<"HANDSHAKE">>}]
  BY <1>1, <1>2, <1>6 DEF TypeOK
<1>15. page' \in [Page -> PageState]
  BY <1>1, <1>2, <1>8 DEF TypeOK
<1>16. TypeOK'
  BY <1>1, <1>3, <1>14, <1>15 DEF TypeOK
<1>17. Line(n, sock'[c], up'[c]) /\ Queue(n, sock'[c], up'[c], down'[c])
  BY <1>3, <1>10, <1>12, <1>13
<1>18. QED
  BY <1>2, <1>3, <1>5, <1>8, <1>9, <1>11, <1>13, <1>16, <1>17, PageStep

LEMMA FaultTyped ==
  ASSUME TypeOK, NEW f, Fault(f)
  PROVE  faults' \in Seq(Faults) /\ Len(faults') <= MaxFaults
BY DEF TypeOK, Fault

LEMMA HandshakeFailsBase ==
  ASSUME BaseInv, NEW p \in Page, HandshakeFails(p)
  PROVE  BaseInv'
<1> DEFINE q == page[p]
<1>1. /\ q \in PageState /\ Own(q) /\ Line(q, sock[Current(p)], up[Current(p)]) /\ TypeOK
  BY LocalFacts
<1>2. faults' \in Seq(Faults) /\ Len(faults') <= MaxFaults /\ UNCHANGED <<up, down, room>>
  BY <1>1, FaultTyped DEF HandshakeFails
<1>3. q.st \notin {"IDLE", "TERMINATED"} /\ Alive(p)
  BY DEF HandshakeFails, Alive
<1>4. ASSUME NEW n \in PageState, page' = [page EXCEPT ![p] = n], UNCHANGED sock,
             q.sending \in {"key", "wrap"}, n.sending = "failed",
             n.st = q.st, n.intentTried = q.intentTried, n.role = q.role, n.peer = q.peer,
             n.reason = q.reason, n.inq \in {q.inq, <<>>},
             n.handling = "no" \/ (n.handling = q.handling /\ n.inq = q.inq)
      PROVE  BaseInv'
  <2>1. Own(n)
    BY <1>1, <1>3, <1>4 DEF Own, Pristine
  <2>2. Line(n, sock[Current(p)], up[Current(p)])
    BY <1>1, <1>3, <1>4 DEF Line
  <2>3. QED
    BY <1>2, <1>3, <1>4, <2>1, <2>2, RecordStep
<1>5. CASE /\ q.sending = "key" /\ UNCHANGED sock
           /\ page' = [page EXCEPT ![p].ephemeral = "failed", ![p].sending = "failed",
                                   ![p].inq = IF page[p].handling = "key" THEN Tail(@) ELSE @,
                                   ![p].handling = "no"]
  <2> DEFINE e == IF q.handling = "key" THEN Tail(q.inq) ELSE q.inq
             n == [q EXCEPT !.ephemeral = "failed", !.sending = "failed", !.inq = e,
                            !.handling = "no"]
  <2>1. page' = [page EXCEPT ![p] = n]
    BY <1>1, <1>5 DEF TypeOK
  <2>2. e \in {q.inq, <<>>} /\ e \in Seq(Page)
    <3>1. q.handling = "key" => Tail(q.inq) = <<>>
      BY <1>1, OnlyOne DEF Own
    <3>2. q.inq \in Seq(Page) /\ <<>> \in Seq(Page)
      BY <1>1 DEF PageState
    <3>3. QED
      BY <3>1, <3>2, Zenon
  <2> HIDE DEF e
  <2>3. \A i \in Seq(Page) : [q EXCEPT !.ephemeral = "failed", !.sending = "failed", !.inq = i,
                                       !.handling = "no"] \in PageState
    BY <1>1 DEF PageState
  <2>4. n \in PageState
    BY <2>2, <2>3
  <2>5. /\ n.sending = "failed" /\ n.st = q.st /\ n.inq = e
        /\ n.intentTried = q.intentTried /\ n.role = q.role /\ n.peer = q.peer
        /\ n.reason = q.reason /\ n.handling = "no"
    BY <1>1 DEF PageState
  <2> HIDE DEF n
  <2>6. QED
    BY <1>4, <1>5, <2>1, <2>2, <2>4, <2>5
<1>6. CASE q.sending = "wrap" /\ page' = [page EXCEPT ![p].sending = "failed"] /\ UNCHANGED sock
  <2> DEFINE n == [q EXCEPT !.sending = "failed"]
  <2>1. page' = [page EXCEPT ![p] = n]
    BY <1>1, <1>6 DEF TypeOK
  <2>2. /\ n \in PageState /\ n.sending = "failed" /\ n.st = q.st /\ n.inq = q.inq
        /\ n.intentTried = q.intentTried /\ n.role = q.role /\ n.peer = q.peer
        /\ n.reason = q.reason /\ n.handling = q.handling
    BY <1>1 DEF PageState
  <2> HIDE DEF n
  <2>3. QED
    BY <1>4, <1>6, <2>1, <2>2
<1>7. CASE q.handling = "derive" /\ Terminate(p, "handshake_failed")
  <2>1. "handshake_failed" \in Reason \ {"BAD_STATE", "handshake_unexpected"}
    BY DEF Reason
  <2>2. QED
    BY <1>2, <1>3, <1>7, <2>1, EndBase
<1>8. QED
  BY <1>5, <1>6, <1>7 DEF HandshakeFails

LEMMA LeaveBase ==
  ASSUME BaseInv, NEW p \in Page, Leave(p)
  PROVE  BaseInv'
<1>1. TypeOK
  BY DEF BaseInv
<1>2. faults' \in Seq(Faults) /\ Len(faults') <= MaxFaults /\ UNCHANGED <<up, down, room>>
  BY <1>1, FaultTyped DEF Leave
<1>3. "user_panic" \in Reason \ {"BAD_STATE", "handshake_unexpected"}
  BY DEF Reason
<1>4. QED
  BY <1>2, <1>3, EndBase DEF Leave

\* A socket in the room whose page and ends a step leaves alone.
LEMMA SeatKept ==
  ASSUME NEW s \in Sock, Seat(s), Same(s), page'[s[1]] = page[s[1]]
  PROVE  Seat(s)' /\ sock'[s].paired = sock[s].paired
BY DEF Seat, Same, Current, Reaches

\* A step of a page with a socket that is not in the room.
LEMMA Outside ==
  ASSUME BaseInv, NEW p \in Page, room' = room,
         \A x \in Page : x # p => page'[x] = page[x],
         \A s \in Sock : s[1] # p => Same(s),
         ~Member(<<p, "create">>), ~Member(<<p, "join">>)
  PROVE  RoomInv'
<1>1. RoomInv /\ room \in RoomState
  BY DEF BaseInv, TypeOK
<1>2. ASSUME NEW s \in Sock, Member(s) PROVE sock'[s].paired = sock[s].paired /\ Seat(s)'
  <2>1. s[1] # p /\ s[1] \in Page
    BY <1>2, SockFacts
  <2>2. Seat(s) /\ Same(s) /\ page'[s[1]] = page[s[1]]
    BY <1>1, <1>2, <2>1 DEF RoomInv
  <2>3. QED
    BY <2>2, SeatKept
<1>3. QED
  BY <1>1, <1>2, RoomKept

\* A socket in the room is open at the server and is its page's current one.
LEMMA NotMember ==
  ASSUME BaseInv, NEW s \in Sock, sock[s].server # "open" \/ s # Current(s[1]) \/ up[s] = <<"HELLO">>
  PROVE  ~Member(s)
BY DEF BaseInv, RoomInv, Seat

LEMMA OpenTyped ==
  ASSUME NEW k \in SocketState
  PROVE  LET l == [k EXCEPT !.client = "open", !.server = "open"]
         IN /\ l \in SocketState /\ l.client = "open" /\ l.server = "open" /\ l.lost = k.lost
            /\ l.paired = k.paired /\ l.handshakeForwards = k.handshakeForwards
BY DEF SocketState

LEMMA StartBase ==
  ASSUME BaseInv, NEW p \in Page, Start(p)
  PROVE  BaseInv'
<1> DEFINE q == page[p]
           c == Current(p)
           n == [q EXCEPT !.st = "CONNECTING"]
           l == [sock[c] EXCEPT !.client = "open", !.server = "open"]
<1>1. /\ TypeOK /\ q \in PageState /\ Own(q) /\ Line(q, sock[c], up[c]) /\ Local(p)
      /\ Queue(q, sock[c], up[c], down[c]) /\ c \in Sock /\ sock[c] \in SocketState
  BY LocalFacts
<1>2. q.st = "IDLE" /\ q.intentTried = "create" /\ c = <<p, "create">>
  BY <1>1 DEF Start, Own, Current
<1>3. Unopened(sock[c]) /\ down[c] = <<>> /\ Pristine(q) /\ q.role = "undefined"
  BY <1>1, <1>2 DEF Line, Queue, Own
<1>4. /\ page' = [page EXCEPT ![p] = n] /\ sock' = [sock EXCEPT ![c] = l]
      /\ up' = [up EXCEPT ![c] = <<"HELLO">>] /\ UNCHANGED <<down, room, faults>>
  BY <1>1, <1>2 DEF Start, OpenWith, TypeOK
<1>5. /\ n \in PageState /\ n.st = "CONNECTING" /\ n.intentTried = "create"
      /\ n.role = "undefined" /\ n.sending = "no" /\ n.handling = "no" /\ n.inq = <<>>
      /\ n.peer = NoPage /\ n.reason = q.reason
  BY <1>1, <1>2, <1>3 DEF PageState, Pristine
<1>6. /\ l \in SocketState /\ l.client = "open" /\ l.server = "open"
      /\ l.paired = FALSE /\ l.handshakeForwards = 0
  BY <1>1, <1>3, OpenTyped DEF Unopened
<1> HIDE DEF n, l
<1>7. /\ sock'[c] = l /\ up'[c] = <<"HELLO">> /\ down'[c] = <<>> /\ page'[p] = n
      /\ \A s \in Sock : s # c => Same(s)
      /\ \A x \in Page : x # p => page'[x] = page[x]
  BY <1>1, <1>3, <1>4 DEF Same, TypeOK
<1>8. page' \in [Page -> PageState] /\ sock' \in [Sock -> SocketState]
  BY <1>1, <1>4, <1>5, <1>6 DEF TypeOK
<1>9. up' \in [Sock -> {<<>>, <<"HELLO">>, <<"HANDSHAKE">>}]
  BY <1>1, <1>4 DEF TypeOK
<1>10. TypeOK'
  BY <1>1, <1>4, <1>8, <1>9 DEF TypeOK
<1>11. Own(n)
  BY <1>1, <1>5 DEF Own, Pristine
<1>12. Line(n, l, <<"HELLO">>)
  BY <1>5, <1>6, UpFacts DEF Line
<1>13. Stays(p)
  BY <1>2, <1>5, <1>7, <1>11, <1>12, QueueEmpty DEF Stays
<1>14. \A x \in Page : Local(x)'
  BY <1>1, <1>7, <1>13, OnePage DEF BaseInv
<1>15. ~Member(<<p, "create">>) /\ ~Member(<<p, "join">>)
  BY <1>2, <1>3, NotMember, SockFacts DEF Unopened
<1>16. \A s \in Sock : s[1] # p => Same(s)
  BY <1>2, <1>7, SockFacts
<1>17. RoomInv'
  BY <1>4, <1>7, <1>15, <1>16, Outside
<1>18. QED
  BY <1>10, <1>14, <1>17 DEF BaseInv

LEMMA SocketClosesBase ==
  ASSUME BaseInv, NEW s \in Sock, SocketCloses(s)
  PROVE  BaseInv'
<1> DEFINE p == s[1]
           l == [sock[s] EXCEPT !.client = "closed"]
<1>1. p \in Page /\ s[2] \in {"create", "join"} /\ s = <<p, s[2]>>
  BY SockFacts
<1> HIDE DEF p
<1>2. /\ TypeOK /\ page[p] \in PageState /\ Own(page[p]) /\ Local(p)
      /\ Line(page[p], sock[Current(p)], up[Current(p)])
      /\ Queue(page[p], sock[Current(p)], up[Current(p)], down[Current(p)])
  BY <1>1, LocalFacts
<1>3. /\ UNCHANGED <<up, down, room, faults>> /\ sock[s].client \in {"open", "closing"}
      /\ sock' = [sock EXCEPT ![s] = l] /\ sock[s] \in SocketState
  BY <1>2 DEF SocketCloses, TypeOK
<1>4. /\ l \in SocketState /\ l.client = "closed" /\ l.server = sock[s].server
      /\ l.paired = sock[s].paired /\ l.handshakeForwards = sock[s].handshakeForwards
  BY <1>3, ClientTyped
<1> HIDE DEF l
<1>5. sock'[s] = l /\ sock' \in [Sock -> SocketState] /\ \A t \in Sock : t # s => Same(t)
  BY <1>2, <1>3, <1>4 DEF Same, TypeOK
<1>6. CASE s = Current(p) /\ Alive(p)
  <2>1. Terminate(p, "ws_close")
    BY <1>6 DEF SocketCloses, CloseConcerns, Terminate, p
  <2>2. "ws_close" \in Reason \ {"BAD_STATE", "handshake_unexpected"}
    BY DEF Reason
  <2>3. faults' \in Seq(Faults) /\ Len(faults') <= MaxFaults
    BY <1>2, <1>3 DEF TypeOK
  <2>4. QED
    BY <1>1, <1>3, <1>6, <2>1, <2>2, <2>3, EndBase
<1>7. CASE s = Current(p) /\ ~Alive(p)
  <2>1. page' = page /\ page' = [page EXCEPT ![p] = page[p]]
    BY <1>2, <1>7 DEF SocketCloses, CloseConcerns, TypeOK, p
  <2>2. page[p].st # "IDLE"
    BY <1>2, <1>3, <1>7 DEF Line, Unopened
  <2>3. TypeOK'
    BY <1>2, <1>3, <1>5, <2>1 DEF TypeOK
  <2>4. Line(page[p], sock'[s], up'[s])
    BY <1>2, <1>3, <1>4, <1>5, <1>7, <2>2 DEF Line
  <2>5. Queue(page[p], sock'[s], up'[s], down'[s])
    BY <1>2, <1>3, <1>4, <1>5, <1>7, <2>2, QueueSame
  <2>6. /\ sock'[s].client # "open" /\ sock'[s].server = sock[s].server
        /\ sock'[s].paired = sock[s].paired
    BY <1>4, <1>5
  <2>7. QED
    BY <1>1, <1>2, <1>3, <1>5, <1>7, <2>1, <2>3, <2>4, <2>5, <2>6, PageStep
<1>8. CASE s # Current(p)
  <2>1. page' = page
    BY <1>8 DEF SocketCloses, CloseConcerns, p
  <2>2. TypeOK'
    BY <1>2, <1>3, <1>5, <2>1 DEF TypeOK
  <2>3. page[p].intentTried = "join" /\ s = <<p, "create">>
    BY <1>1, <1>2, <1>3, <1>8, CurrentSock DEF Local, Aside, Unopened, Current
  <2>4. \A x \in Page : Current(x)' = Current(x) /\ Current(x) \in Sock /\ Current(x) # s
    BY <1>1, <1>2, <1>8, <2>1, CurrentSock DEF Current
  <2>5. ASSUME NEW x \in Page PROVE Local(x)'
    <3>1. Local(x) /\ Same(Current(x))
      BY <1>5, <2>4 DEF BaseInv
    <3>2. Aside(x)'
      <4>1. CASE x = p
        BY <1>2, <1>3, <1>4, <1>5, <2>1, <2>3, <4>1 DEF Local, Aside
      <4>2. CASE x # p
        <5>1. Same(<<x, "create">>) /\ Same(<<x, "join">>)
          BY <1>5, <2>3, <4>2, SockFacts
        <5>2. QED
          BY <2>1, <3>1, <5>1 DEF Local, Aside, Same
      <4>3. QED
        BY <4>1, <4>2
    <3>3. QED
      BY <2>1, <2>4, <3>1, <3>2 DEF Local, Same
  <2>6. ASSUME NEW t \in Sock, Member(t) PROVE sock'[t].paired = sock[t].paired /\ Seat(t)'
    <3>1. Seat(t) /\ t # s
      BY <1>8, <2>6 DEF BaseInv, RoomInv, Seat, p
    <3>2. QED
      BY <1>5, <2>1, <3>1, SeatKept
  <2>7. RoomInv'
    BY <1>3, <2>6, RoomKept DEF BaseInv, TypeOK
  <2>8. QED
    BY <2>2, <2>5, <2>7 DEF BaseInv
<1>9. QED
  BY <1>6, <1>7, <1>8

\* A frame arrives at a page and leaves the page's socket as it is.
LEMMA TakeBase ==
  ASSUME BaseInv, NEW p \in Page, NEW c, c = Current(p), down[c] # <<>>,
         down' = [down EXCEPT ![c] = Tail(@)], UNCHANGED <<sock, up, room, faults>>,
         NEW n \in PageState, page' = [page EXCEPT ![p] = n], n.st # "IDLE",
         n.intentTried = page[p].intentTried, n.role # "undefined",
         n.role = page[p].role \/ Head(down[c]).type = "ACK",
         Head(down[c]).type = "HANDSHAKE" \/ (n.inq = page[p].inq /\ n.peer = page[p].peer),
         Own(n), Line(n, sock[c], up[c])
  PROVE  BaseInv'
<1>1. /\ TypeOK /\ c \in Sock /\ down[c] \in Seq(Frame)
      /\ Queue(page[p], sock[c], up[c], down[c])
  BY LocalFacts
<1>2. Queue(n, sock[c], up[c], Tail(down[c])) /\ Tail(down[c]) \in Seq(Frame)
  BY <1>1, QueueTail
<1>3. /\ down'[c] = Tail(down[c]) /\ down' \in [Sock -> Seq(Frame)]
      /\ \A s \in Sock : s # c => Same(s)
  BY <1>1, <1>2 DEF Same, TypeOK
<1>4. TypeOK'
  BY <1>1, <1>3 DEF TypeOK
<1>5. QED
  BY <1>2, <1>3, <1>4, PageStep

\* The first frame on its way to a live page.
LEMMA FirstFrame ==
  ASSUME BaseInv, NEW p \in Page, NEW c, c = Current(p), sock[c].client = "open", down[c] # <<>>
  PROVE  /\ Expected(page[p], sock[c], down[c], 1) /\ down[c][1] = Head(down[c])
         /\ Head(down[c]) \in Frame /\ up[c] # <<"HELLO">>
         /\ page[p].st \notin {"IDLE", "TERMINATED"} /\ Alive(p)
<1>1. /\ Line(page[p], sock[c], up[c]) /\ Queue(page[p], sock[c], up[c], down[c])
      /\ down[c] \in Seq(Frame) /\ page[p] \in PageState
  BY LocalFacts
<1>2. 1 \in 1..Len(down[c]) /\ down[c][1] = Head(down[c]) /\ Head(down[c]) \in Frame
  BY <1>1
<1>3. page[p].st \notin {"IDLE", "TERMINATED"}
  BY <1>1 DEF Line, Unopened
<1>4. QED
  BY <1>1, <1>2, <1>3 DEF Queue, Alive

\* The ACK tells the page its role.
LEMMA AckBase ==
  ASSUME BaseInv, NEW p \in Page, Arrives(Current(p), "ACK"), UNCHANGED <<sock, up>>,
         NEW f, f = Head(down[Current(p)]),
         page' = [page EXCEPT ![p] =
             IF f.role = "initiator" THEN [@ EXCEPT !.role = f.role, !.st = "WAITING_FOR_PEER"]
             ELSE SendLocalHandshake([@ EXCEPT !.role = f.role])]
  PROVE  BaseInv'
<1> DEFINE q == page[p]
           c == Current(p)
<1>1. /\ TypeOK /\ q \in PageState /\ Own(q) /\ Line(q, sock[c], up[c])
      /\ up[c] \in {<<>>, <<"HELLO">>, <<"HANDSHAKE">>}
  BY LocalFacts
<1>2. /\ sock[c].client = "open" /\ down[c] # <<>> /\ f.type = "ACK"
      /\ down' = [down EXCEPT ![c] = Tail(@)] /\ UNCHANGED <<room, faults>>
  BY DEF Arrives
<1>3. /\ Expected(q, sock[c], down[c], 1) /\ down[c][1] = f /\ f \in Frame
      /\ up[c] # <<"HELLO">> /\ q.st \notin {"IDLE", "TERMINATED"}
  BY <1>2, FirstFrame
<1>4. /\ f.role = RoleOf(q.intentTried) /\ q.role = "undefined"
      /\ q.intentTried = "join" => sock[c].paired = TRUE
  BY <1>2, <1>3 DEF Expected
<1>5. /\ Pristine(q) /\ q.sending = "no" /\ f.role \in Role /\ q.intentTried \in {"create", "join"}
      /\ (f.role = "initiator" <=> q.intentTried = "create") /\ up[c] = <<>>
      /\ sock[c].handshakeForwards = 0
  BY <1>1, <1>3, <1>4 DEF Own, Pristine, RoleOf, Role, PageState, Line
<1>6. CASE f.role = "initiator"
  <2> DEFINE n == [q EXCEPT !.role = f.role, !.st = "WAITING_FOR_PEER"]
  <2>1. page' = [page EXCEPT ![p] = n]
    BY <1>6
  <2>2. /\ n \in PageState /\ n.role = f.role /\ n.st = "WAITING_FOR_PEER"
        /\ n.intentTried = q.intentTried /\ n.sending = q.sending /\ n.handling = q.handling
        /\ n.inq = q.inq /\ n.peer = q.peer /\ n.reason = q.reason
    BY <1>1, <1>5 DEF PageState
  <2> HIDE DEF n
  <2>3. Own(n) /\ n.role # "undefined"
    BY <1>1, <1>4, <1>5, <2>2 DEF Own, Pristine, Role
  <2>4. Line(n, sock[c], up[c])
    BY <1>1, <1>3, <1>5, <2>2 DEF Line
  <2>5. QED
    BY <1>2, <2>1, <2>2, <2>3, <2>4, TakeBase
<1>7. CASE f.role # "initiator"
  <2> DEFINE m == [q EXCEPT !.role = f.role]
             n == SendLocalHandshake(m)
  <2>1. page' = [page EXCEPT ![p] = n]
    BY <1>7
  <2>2. /\ m \in PageState /\ m.role = f.role /\ m.st = q.st
        /\ m.intentTried = q.intentTried /\ m.sending = q.sending /\ m.handling = q.handling
        /\ m.inq = q.inq /\ m.peer = q.peer /\ m.reason = q.reason
    BY <1>1, <1>5 DEF PageState
  <2> HIDE DEF m
  <2>3. /\ n \in PageState
        /\ n.st = m.st /\ n.intentTried = m.intentTried /\ n.role = m.role
        /\ n.handling = m.handling /\ n.inq = m.inq
        /\ n.peer = m.peer /\ n.reason = m.reason /\ n.sending # "done"
    BY <1>5, <2>2, SendTyped
  <2> HIDE DEF n
  <2>4. Own(n) /\ n.role # "undefined"
    BY <1>1, <1>3, <1>4, <1>5, <2>2, <2>3 DEF Own, Pristine, Role
  <2>5. Line(n, sock[c], up[c])
    BY <1>1, <1>3, <1>4, <1>5, <1>7, <2>2, <2>3, <2>4 DEF Line
  <2>6. QED
    BY <1>2, <1>3, <2>1, <2>2, <2>3, <2>4, <2>5, TakeBase
<1>8. QED
  BY <1>6, <1>7

LEMMA PeerJoinedBase ==
  ASSUME BaseInv, NEW p \in Page, Arrives(Current(p), "PEER_JOINED"), UNCHANGED <<sock, up>>,
         page' = [page EXCEPT ![p] = IF @.st = "ACTIVE" THEN @ ELSE SendLocalHandshake(@)]
  PROVE  BaseInv'
<1> DEFINE q == page[p]
           c == Current(p)
           n == IF q.st = "ACTIVE" THEN q ELSE SendLocalHandshake(q)
<1>1. /\ TypeOK /\ q \in PageState /\ Own(q) /\ Line(q, sock[c], up[c])
  BY LocalFacts
<1>2. /\ sock[c].client = "open" /\ down[c] # <<>> /\ Head(down[c]).type = "PEER_JOINED"
      /\ down' = [down EXCEPT ![c] = Tail(@)] /\ UNCHANGED <<room, faults>>
  BY DEF Arrives
<1>3. /\ Expected(q, sock[c], down[c], 1) /\ down[c][1] = Head(down[c])
      /\ q.st \notin {"IDLE", "TERMINATED"}
  BY <1>2, FirstFrame
<1>4. sock[c].paired = TRUE /\ q.role # "undefined"
  BY <1>2, <1>3 DEF Expected
<1>5. page' = [page EXCEPT ![p] = n]
  BY <1>1 DEF TypeOK
<1>6. /\ n \in PageState
      /\ n.st = q.st /\ n.intentTried = q.intentTried /\ n.role = q.role
      /\ n.handling = q.handling /\ n.inq = q.inq /\ n.peer = q.peer /\ n.reason = q.reason
      /\ n.sending = q.sending \/ (q.sending = "no" /\ n.sending \in {"key", "wrap"})
  BY <1>1, SendTyped
<1> HIDE DEF n
<1>7. Own(n)
  BY <1>1, <1>4, <1>6 DEF Own
<1>8. Line(n, sock[c], up[c])
  BY <1>1, <1>3, <1>4, <1>6 DEF Line
<1>9. QED
  BY <1>2, <1>3, <1>4, <1>5, <1>6, <1>7, <1>8, TakeBase

LEMMA TakeHandshakeBase ==
  ASSUME BaseInv, NEW p \in Page, Arrives(Current(p), "HANDSHAKE"), UNCHANGED <<sock, up>>,
         page' = [page EXCEPT ![p].inq = Append(@, Head(down[Current(p)]).from)]
  PROVE  BaseInv'
<1> DEFINE q == page[p]
           c == Current(p)
           f == Head(down[c])
           n == [q EXCEPT !.inq = <<f.from>>]
<1>1. /\ TypeOK /\ q \in PageState /\ Own(q) /\ Line(q, sock[c], up[c])
  BY LocalFacts
<1>2. /\ sock[c].client = "open" /\ down[c] # <<>> /\ f.type = "HANDSHAKE"
      /\ down' = [down EXCEPT ![c] = Tail(@)] /\ UNCHANGED <<room, faults>>
  BY DEF Arrives
<1>3. /\ Expected(q, sock[c], down[c], 1) /\ down[c][1] = f /\ f \in Frame
      /\ q.st \notin {"IDLE", "TERMINATED"}
  BY <1>2, FirstFrame
<1> HIDE DEF f
<1>4. /\ sock[c].paired = TRUE /\ q.role # "undefined" /\ q.inq = <<>> /\ q.peer = NoPage
      /\ f.from # NoPage
  BY <1>2, <1>3 DEF Expected
<1>5. f.from \in Page
  BY <1>3, <1>4 DEF Frame
<1>6. Append(q.inq, f.from) = <<f.from>> /\ Head(<<f.from>>) = f.from /\ <<f.from>> # <<>>
  BY <1>4, <1>5
<1>7. page' = [page EXCEPT ![p] = n]
  <2>1. page' = [page EXCEPT ![p] = [q EXCEPT !.inq = Append(q.inq, f.from)]]
    BY <1>1 DEF TypeOK, f
  <2>2. QED
    BY <1>6, <2>1
<1>8. /\ n \in PageState
      /\ n.st = q.st /\ n.intentTried = q.intentTried /\ n.role = q.role
      /\ n.handling = q.handling /\ n.inq = <<f.from>> /\ n.peer = q.peer /\ n.reason = q.reason
      /\ n.sending = q.sending
  <2>1. <<f.from>> \in Seq(Page)
    BY <1>5
  <2>2. \A e \in Seq(Page) : [q EXCEPT !.inq = e] \in PageState
    BY <1>1 DEF PageState
  <2>3. n \in PageState
    BY <2>1, <2>2
  <2>4. QED
    BY <1>1, <2>3 DEF PageState
<1> HIDE DEF n
<1>9. Own(n)
  BY <1>1, <1>3, <1>4, <1>6, <1>8 DEF Own
<1>10. Line(n, sock[c], up[c])
  BY <1>1, <1>3, <1>4, <1>8 DEF Line
<1>11. QED
  BY <1>2, <1>3, <1>4, <1>7, <1>8, <1>9, <1>10, TakeBase DEF f

\* reopenAsJoiner: the page changes sockets.
LEMMA ReopenBase ==
  ASSUME BaseInv, NEW p \in Page, Arrives(Current(p), "ROOM_ALREADY_EXISTS"),
         page' = [page EXCEPT ![p].st = "CONNECTING", ![p].intentTried = "join"],
         OpenWith(<<p, "join">>, [sock EXCEPT ![Current(p)].client = "closing"])
  PROVE  /\ BaseInv' /\ Current(p) = <<p, "create">> /\ page'[p].intentTried = "join"
         /\ down[Current(p)] = <<Head(down[Current(p)])>>
         /\ sock[Current(p)].handshakeForwards = 0 /\ down'[<<p, "join">>] = <<>>
         /\ page[p].inq = <<>> /\ page[p].peer = NoPage
         /\ page'[p].inq = <<>> /\ page'[p].peer = NoPage
         /\ \A s \in Sock : s[1] # p => Same(s)
         /\ \A x \in Page : x # p => page'[x] = page[x]
         /\ page'[p].reason = page[p].reason
         /\ sock'[Current(p)].server = "closed" /\ sock'[Current(p)].lost = sock[Current(p)].lost
         /\ sock'[<<p, "join">>].client = "open" /\ sock'[<<p, "join">>].server = "open"
         /\ sock'[<<p, "join">>].paired = FALSE
         /\ sock'[<<p, "join">>].lost = sock[<<p, "join">>].lost
<1> DEFINE q == page[p]
           c == Current(p)
           j == <<p, "join">>
           n == [q EXCEPT !.st = "CONNECTING", !.intentTried = "join"]
           l == [sock[c] EXCEPT !.client = "closing"]
           k == [sock[j] EXCEPT !.client = "open", !.server = "open"]
<1>1. /\ TypeOK /\ q \in PageState /\ Own(q) /\ Line(q, sock[c], up[c]) /\ Aside(p)
      /\ up[c] \in {<<>>, <<"HELLO">>, <<"HANDSHAKE">>} /\ down[c] \in Seq(Frame)
      /\ c \in Sock /\ j \in Sock /\ sock[c] \in SocketState /\ sock[j] \in SocketState
  <2>1. /\ TypeOK /\ q \in PageState /\ Own(q) /\ Line(q, sock[c], up[c]) /\ Local(p)
        /\ up[c] \in {<<>>, <<"HELLO">>, <<"HANDSHAKE">>} /\ down[c] \in Seq(Frame)
        /\ c \in Sock /\ sock[c] \in SocketState
    BY LocalFacts
  <2>2. Aside(p)
    BY <2>1 DEF Local
  <2>3. j \in Sock
    BY SockFacts
  <2>4. sock[j] \in SocketState
    BY <2>1, <2>3 DEF TypeOK
  <2>5. QED
    BY <2>1, <2>2, <2>3, <2>4
<1>2. /\ sock[c].client = "open" /\ down[c] # <<>> /\ Head(down[c]).type = "ROOM_ALREADY_EXISTS"
      /\ down' = [down EXCEPT ![c] = Tail(@)] /\ UNCHANGED <<room, faults>>
  BY DEF Arrives
<1>3. /\ Expected(q, sock[c], down[c], 1) /\ down[c][1] = Head(down[c])
      /\ q.st \notin {"IDLE", "TERMINATED"} /\ up[c] # <<"HELLO">>
  BY <1>2, FirstFrame
<1>4. /\ Len(down[c]) = 1 /\ sock[c].server = "closed" /\ sock[c].paired = FALSE
      /\ q.intentTried = "create" /\ q.role = "undefined"
  BY <1>2, <1>3 DEF Expected
<1>5. c = <<p, "create">> /\ c # j
  BY <1>4, SockFacts DEF Current
<1>6. /\ Unopened(sock[j]) /\ up[j] = <<>> /\ down[j] = <<>>
  BY <1>1, <1>4 DEF Aside
<1>7. Pristine(q) /\ q.sending = "no" /\ up[c] = <<>> /\ sock[c].handshakeForwards = 0
  BY <1>1, <1>3, <1>4 DEF Own, Pristine, Line
<1>8. down[c] = <<Head(down[c])>> /\ Tail(down[c]) \in Seq(Frame)
  BY <1>1, <1>2, <1>4
<1>9. page' = [page EXCEPT ![p] = n] /\ up' = [up EXCEPT ![j] = <<"HELLO">>]
  BY <1>1 DEF OpenWith, TypeOK
<1>10. /\ l \in SocketState /\ l.client = "closing" /\ l.server = sock[c].server
       /\ l.lost = sock[c].lost /\ l.paired = sock[c].paired /\ l.handshakeForwards = sock[c].handshakeForwards
  BY <1>1, ClientTyped
<1>11. /\ k \in SocketState /\ k.client = "open" /\ k.server = "open" /\ k.paired = FALSE
       /\ k.handshakeForwards = 0 /\ k.lost = sock[j].lost
  BY <1>1, <1>6, OpenTyped DEF Unopened
<1>12. /\ sock'[c] = l /\ sock'[j] = k /\ sock' \in [Sock -> SocketState]
       /\ \A s \in Sock : s \notin {c, j} => sock'[s] = sock[s]
  <2>1. [sock EXCEPT ![c].client = "closing"] = [sock EXCEPT ![c] = l]
    BY <1>1 DEF TypeOK
  <2>2. sock' = [[sock EXCEPT ![c] = l] EXCEPT ![j].client = "open", ![j].server = "open"]
    BY <2>1 DEF OpenWith
  <2> HIDE DEF l
  <2>3. [sock EXCEPT ![c] = l][j] = sock[j]
    BY <1>1, <1>5 DEF TypeOK
  <2>4. sock' = [[sock EXCEPT ![c] = l] EXCEPT ![j] = k]
    BY <1>1, <1>10, <2>2, <2>3 DEF TypeOK
  <2> HIDE DEF k
  <2>5. QED
    BY <1>1, <1>5, <1>10, <1>11, <2>4 DEF TypeOK
<1>13. /\ n \in PageState /\ n.st = "CONNECTING" /\ n.intentTried = "join" /\ n.role = "undefined"
       /\ n.sending = "no" /\ n.handling = "no" /\ n.inq = <<>> /\ n.peer = NoPage
       /\ n.reason = q.reason
  BY <1>1, <1>4, <1>7 DEF PageState, Pristine
<1> HIDE DEF n, l, k
<1>14. /\ page'[p] = n /\ page' \in [Page -> PageState]
       /\ \A x \in Page : x # p => page'[x] = page[x]
  BY <1>1, <1>9, <1>13 DEF TypeOK
<1>15. /\ up'[j] = <<"HELLO">> /\ up'[c] = <<>> /\ \A s \in Sock : s # j => up'[s] = up[s]
       /\ up' \in [Sock -> {<<>>, <<"HELLO">>, <<"HANDSHAKE">>}]
  BY <1>1, <1>5, <1>7, <1>9 DEF TypeOK
<1>16. /\ down'[j] = <<>> /\ \A s \in Sock : s # c => down'[s] = down[s]
       /\ down' \in [Sock -> Seq(Frame)]
  BY <1>1, <1>2, <1>5, <1>6, <1>8 DEF TypeOK
<1>17. TypeOK'
  BY <1>1, <1>2, <1>12, <1>14, <1>15, <1>16 DEF TypeOK
<1>18. \A s \in Sock : s[1] # p => Same(s)
  BY <1>5, <1>12, <1>15, <1>16, SockFacts DEF Same
<1>19. Local(p)'
  <2>1. Current(p)' = j
    BY <1>13, <1>14 DEF Current
  <2>2. Own(n)
    BY <1>1, <1>13 DEF Own, Pristine
  <2>3. Line(n, k, <<"HELLO">>)
    BY <1>11, <1>13, UpFacts DEF Line
  <2>4. Aside(p)'
    BY <1>4, <1>5, <1>7, <1>10, <1>12, <1>13, <1>14, <1>15 DEF Aside
  <2>5. Own(page'[p]) /\ Line(page'[p], sock'[j], up'[j])
    BY <1>12, <1>14, <1>15, <2>2, <2>3
  <2>6. Queue(page'[p], sock'[j], up'[j], down'[j])
    BY <1>16, QueueEmpty
  <2>7. QED
    BY <2>1, <2>4, <2>5, <2>6 DEF Local
<1>20. ASSUME NEW x \in Page, x # p PROVE Local(x)'
  <2>1. page'[x] = page[x] /\ Current(x)' = Current(x)
    BY <1>14, <1>20 DEF Current
  <2>2. Same(Current(x)) /\ Same(<<x, "create">>) /\ Same(<<x, "join">>)
    BY <1>1, <1>18, <1>20, SockFacts, CurrentSock
  <2>3. QED
    BY <2>1, <2>2 DEF BaseInv, Local, Aside, Same
<1>21. ~Member(<<p, "create">>) /\ ~Member(<<p, "join">>)
  BY <1>1, <1>4, <1>5, NotMember, SockFacts
<1>22. RoomInv'
  BY <1>2, <1>14, <1>18, <1>21, Outside
<1>23. BaseInv'
  BY <1>17, <1>19, <1>20, <1>22 DEF BaseInv
<1>24. QED
  BY <1>4, <1>5, <1>7, <1>8, <1>10, <1>11, <1>12, <1>13, <1>14, <1>16, <1>18, <1>23 DEF Pristine

LEMMA ArriveBase ==
  ASSUME BaseInv, NEW p \in Page, Arrive(p)
  PROVE  BaseInv'
<1> DEFINE c == Current(p)
           f == Head(down[c])
<1>1. TypeOK
  BY DEF BaseInv
<1>2. ASSUME NEW code \in {"PEER_DISCONNECTED"} \cup ErrorCode,
             NEW x \in Reason, x = IF code = "PEER_DISCONNECTED" THEN "peer_gone" ELSE code,
             Arrives(c, code), Terminate(p, x), UNCHANGED up
      PROVE  BaseInv'
  <2>1. /\ sock[c].client = "open" /\ down[c] # <<>> /\ Head(down[c]).type = code
        /\ down' = [down EXCEPT ![c] = Tail(@)] /\ UNCHANGED <<room, faults>>
    BY <1>2 DEF Arrives
  <2>2. Expected(page[p], sock[c], down[c], 1) /\ down[c][1] = Head(down[c]) /\ Alive(p)
    BY <2>1, FirstFrame
  <2>3. code # "BAD_STATE"
    BY <2>1, <2>2 DEF Expected
  <2>4. x \in Reason \ {"BAD_STATE", "handshake_unexpected"} /\ code # "ACK"
    BY <1>2, <2>3 DEF ErrorCode
  <2>5. faults' \in Seq(Faults) /\ Len(faults') <= MaxFaults
    BY <1>1, <2>1 DEF TypeOK
  <2>6. QED
    BY <1>2, <2>1, <2>2, <2>4, <2>5, EndBase
<1>3. CASE Arrives(c, "PEER_DISCONNECTED") /\ Terminate(p, "peer_gone") /\ UNCHANGED up
  <2>1. "peer_gone" \in Reason
    BY DEF Reason
  <2>2. QED
    BY <1>2, <1>3, <2>1
<1>4. CASE /\ \E code \in ErrorCode \ {"ROOM_ALREADY_EXISTS"} : Arrives(c, code) /\ Terminate(p, code)
           /\ UNCHANGED up
  <2>1. PICK code \in ErrorCode : Arrives(c, code) /\ Terminate(p, code)
    BY <1>4
  <2>2. code \in Reason /\ code # "PEER_DISCONNECTED"
    BY DEF Reason, ErrorCode
  <2>3. QED
    BY <1>2, <1>4, <2>1, <2>2
<1>5. CASE /\ Arrives(c, "ACK")
           /\ page' = [page EXCEPT ![p] =
             IF f.role = "initiator" THEN [@ EXCEPT !.role = f.role, !.st = "WAITING_FOR_PEER"]
             ELSE SendLocalHandshake([@ EXCEPT !.role = f.role])]
           /\ UNCHANGED <<sock, up>>
  BY <1>5, AckBase
<1>6. CASE /\ Arrives(c, "PEER_JOINED")
           /\ page' = [page EXCEPT ![p] = IF @.st = "ACTIVE" THEN @ ELSE SendLocalHandshake(@)]
           /\ UNCHANGED <<sock, up>>
  BY <1>6, PeerJoinedBase
<1>7. CASE /\ Arrives(c, "HANDSHAKE")
           /\ page' = [page EXCEPT ![p].inq = Append(@, f.from)]
           /\ UNCHANGED <<sock, up>>
  BY <1>7, TakeHandshakeBase
<1>8. CASE /\ Arrives(c, "ROOM_ALREADY_EXISTS")
           /\ page' = [page EXCEPT ![p].st = "CONNECTING", ![p].intentTried = "join"]
           /\ OpenWith(<<p, "join">>, [sock EXCEPT ![c].client = "closing"])
  BY <1>8, ReopenBase
<1>9. QED
  BY <1>3, <1>4, <1>5, <1>6, <1>7, <1>8 DEF Arrive

-----------------------------------------------------------------------------
(* The server                                                              *)

\* A socket that the server has open is its page's current one.
LEMMA ServedIsCurrent ==
  ASSUME BaseInv, NEW s \in Sock, sock[s].server = "open" \/ sock[s].client = "open"
  PROVE  s[1] \in Page /\ s = Current(s[1]) /\ page[s[1]].st # "IDLE"
<1>1. s[1] \in Page /\ s[2] \in {"create", "join"} /\ s = <<s[1], s[2]>>
  BY SockFacts
<1>2. /\ Local(s[1]) /\ page[s[1]] \in PageState
      /\ Line(page[s[1]], sock[Current(s[1])], up[Current(s[1])])
  BY <1>1, LocalFacts
<1>3. s = Current(s[1])
  BY <1>1, <1>2 DEF Local, Aside, Unopened, Current, PageState
<1>4. QED
  BY <1>1, <1>2, <1>3 DEF Line, Unopened

\* A frame that the server receives is the only one on its way.
LEMMA ReceivesFacts ==
  ASSUME BaseInv, NEW s \in Sock, NEW w \in {"HELLO", "HANDSHAKE"}, Receives(s, w)
  PROVE  /\ s[1] \in Page /\ s = Current(s[1]) /\ page[s[1]].st # "IDLE"
         /\ sock[s].server = "open" /\ up[s] = <<w>> /\ up' = [up EXCEPT ![s] = <<>>] /\ page' = page
<1>1. sock[s].server = "open" /\ up[s] # <<>> /\ Head(up[s]) = w /\ page' = page
  BY DEF Receives
<1>2. up[s] \in {<<>>, <<"HELLO">>, <<"HANDSHAKE">>} /\ up \in [Sock -> {<<>>, <<"HELLO">>, <<"HANDSHAKE">>}]
  BY DEF BaseInv, TypeOK
<1>3. up[s] = <<w>> /\ Tail(up[s]) = <<>>
  BY <1>1, <1>2, UpFacts
<1>4. up' = [up EXCEPT ![s] = <<>>]
  BY <1>2, <1>3 DEF Receives
<1>5. QED
  BY <1>1, <1>3, <1>4, ServedIsCurrent

LEMMA HelloFacts ==
  ASSUME BaseInv, NEW s \in Sock, up[s] = <<"HELLO">>, s = Current(s[1]), s[1] \in Page
  PROVE  /\ sock[s].paired = FALSE /\ sock[s].handshakeForwards = 0 /\ down[s] = <<>>
         /\ page[s[1]].role = "undefined" /\ page[s[1]].intentTried = s[2] /\ ~Member(s)
<1>1. /\ Line(page[s[1]], sock[s], up[s]) /\ Queue(page[s[1]], sock[s], up[s], down[s])
  BY LocalFacts
<1>2. page[s[1]].intentTried = s[2]
  BY SockFacts DEF Current
<1>3. QED
  BY <1>1, <1>2, NotMember DEF Line, Queue

LEMMA NoticeTyped ==
  ASSUME NEW type \in FrameType
  PROVE  /\ Notice(type) \in Frame /\ Notice(type).type = type
         /\ \A r \in Role : /\ [Notice(type) EXCEPT !.role = r] \in Frame
                            /\ [Notice(type) EXCEPT !.role = r].type = type
                            /\ [Notice(type) EXCEPT !.role = r].role = r
         /\ \A x \in Page : /\ [Notice(type) EXCEPT !.from = x] \in Frame
                            /\ [Notice(type) EXCEPT !.from = x].type = type
                            /\ [Notice(type) EXCEPT !.from = x].from = x
BY DEF Notice, Frame

LEMMA ClosedTyped ==
  ASSUME NEW k \in SocketState
  PROVE  LET l == [k EXCEPT !.server = "closed"]
         IN /\ l \in SocketState /\ l.client = k.client /\ l.server = "closed" /\ l.lost = k.lost
            /\ l.paired = k.paired /\ l.handshakeForwards = k.handshakeForwards
BY DEF SocketState

\* What the server does to one socket, in or out of the room.
LEMMA ServerLocal ==
  ASSUME BaseInv, NEW s \in Sock, s[1] \in Page, s = Current(s[1]), page' = page,
         \A t \in Sock : t # s => Same(t),
         Line(page[s[1]], sock'[s], up'[s]), Queue(page[s[1]], sock'[s], up'[s], down'[s])
  PROVE  \A x \in Page : Local(x)'
<1>1. TypeOK /\ (\A x \in Page : Local(x)) /\ Own(page[s[1]])
  BY LocalFacts DEF BaseInv
<1>2. Stays(s[1])
  BY <1>1 DEF Stays
<1>3. QED
  BY <1>1, <1>2, OnePage

\* errorAndClose of a socket that is in no room.
LEMMA ErrorBase ==
  ASSUME BaseInv, NEW s \in Sock, s[1] \in Page, s = Current(s[1]), page[s[1]].st # "IDLE",
         sock[s].server = "open", page' = page, up' = [up EXCEPT ![s] = <<>>],
         NEW code \in ErrorCode, code # "BAD_STATE",
         code = "ROOM_ALREADY_EXISTS" => up[s] = <<"HELLO">> /\ s[2] = "create",
         ~InRoom(s), ErrorAndClose(s, code), faults' \in Seq(Faults), Len(faults') <= MaxFaults
  PROVE  BaseInv'
<1> DEFINE q == page[s[1]]
           l == [sock[s] EXCEPT !.server = "closed"]
           f == Notice(code)
<1>1. /\ TypeOK /\ Line(q, sock[s], up[s]) /\ Queue(q, sock[s], up[s], down[s])
      /\ sock[s] \in SocketState /\ down[s] \in Seq(Frame)
  BY LocalFacts
<1>2. /\ sock' = [sock EXCEPT ![s] = l] /\ room' = room /\ down' = Push(down, s, f)
  BY <1>1 DEF ErrorAndClose, Leaves, TypeOK
<1>3. /\ l \in SocketState /\ l.client = sock[s].client /\ l.server = "closed"
      /\ l.paired = sock[s].paired /\ l.handshakeForwards = sock[s].handshakeForwards
  BY <1>1, ClosedTyped
<1>4. f \in Frame /\ f.type = code
  BY NoticeTyped DEF FrameType
<1> HIDE DEF l, f
<1>5. Line(q, l, <<>>)
  BY <1>1, <1>3, UpFacts DEF Line
<1>6. Sendable(q, l, down[s], f)
  BY <1>3, <1>4, HelloFacts DEF Sendable, ErrorCode
<1>7. /\ Queue(q, l, <<>>, Append(down[s], f)) /\ Append(down[s], f) \in Seq(Frame)
  BY <1>1, <1>3, <1>4, <1>6, UpFacts, QueueAppend
<1>8. Queue(q, l, <<>>, down[s])
  BY <1>1, <1>3, UpFacts, QueueServed
<1>9. /\ Queue(q, l, <<>>, down'[s]) /\ down' \in [Sock -> Seq(Frame)]
      /\ \A t \in Sock : t # s => down'[t] = down[t]
  <2>1. CASE Reaches(s)
    BY <1>1, <1>2, <1>7, <2>1 DEF Push, TypeOK
  <2>2. CASE ~Reaches(s)
    BY <1>1, <1>2, <1>8, <2>2 DEF Push, TypeOK
  <2>3. QED
    BY <2>1, <2>2
<1>10. sock'[s] = l /\ up'[s] = <<>> /\ \A t \in Sock : t # s => Same(t)
  BY <1>1, <1>2, <1>9 DEF Same, TypeOK
<1>11. /\ sock' \in [Sock -> SocketState] /\ up' \in [Sock -> {<<>>, <<"HELLO">>, <<"HANDSHAKE">>}]
  BY <1>1, <1>2, <1>3 DEF TypeOK
<1>12. TypeOK'
  BY <1>1, <1>2, <1>9, <1>11 DEF TypeOK
<1>13. \A x \in Page : Local(x)'
  BY <1>5, <1>9, <1>10, ServerLocal
<1>14. ASSUME NEW t \in Sock, Member(t) PROVE sock'[t].paired = sock[t].paired /\ Seat(t)'
  <2>1. t # s
    BY <1>14, SockFacts DEF InRoom, Member, BaseInv, RoomInv, Layout
  <2>2. Seat(t) /\ Same(t)
    BY <1>10, <1>14, <2>1 DEF BaseInv, RoomInv
  <2>3. QED
    BY <2>2, SeatKept
<1>15. RoomInv'
  BY <1>1, <1>2, <1>14, RoomKept DEF BaseInv, TypeOK
<1>16. QED
  BY <1>12, <1>13, <1>15 DEF BaseInv

LEMMA RefusedBase ==
  ASSUME BaseInv, NEW s \in Sock, Receives(s, "HELLO"),
         NEW code \in ErrorCode, code # "BAD_STATE", code = "ROOM_ALREADY_EXISTS" => s[2] = "create",
         ErrorAndClose(s, code), faults' \in Seq(Faults), Len(faults') <= MaxFaults
  PROVE  BaseInv'
<1>1. /\ s[1] \in Page /\ s = Current(s[1]) /\ page[s[1]].st # "IDLE" /\ sock[s].server = "open"
      /\ up[s] = <<"HELLO">> /\ up' = [up EXCEPT ![s] = <<>>] /\ page' = page
  BY ReceivesFacts
<1>2. ~InRoom(s)
  BY <1>1, HelloFacts, SockFacts DEF InRoom, Member
<1>3. QED
  BY <1>1, <1>2, ErrorBase

LEMMA CreateBase ==
  ASSUME BaseInv, NEW s \in Sock, HelloCreate(s)
  PROVE  BaseInv'
<1> DEFINE q == page[s[1]]
           f == [Notice("ACK") EXCEPT !.role = "initiator"]
<1>1. /\ s[1] \in Page /\ s = Current(s[1]) /\ q.st # "IDLE" /\ sock[s].server = "open"
      /\ up[s] = <<"HELLO">> /\ up' = [up EXCEPT ![s] = <<>>] /\ page' = page
      /\ s[2] = "create" /\ Receives(s, "HELLO") /\ UNCHANGED faults
  BY ReceivesFacts DEF HelloCreate
<1>2. /\ sock[s].paired = FALSE /\ sock[s].handshakeForwards = 0 /\ down[s] = <<>>
      /\ q.role = "undefined" /\ q.intentTried = s[2] /\ ~Member(s)
  BY <1>1, HelloFacts
<1>3. /\ TypeOK /\ Line(q, sock[s], up[s]) /\ Queue(q, sock[s], up[s], down[s])
  BY <1>1, LocalFacts
<1>4. CASE room.state # "none" /\ ErrorAndClose(s, "ROOM_ALREADY_EXISTS")
  <2>1. faults' \in Seq(Faults) /\ Len(faults') <= MaxFaults
    BY <1>1, <1>3 DEF TypeOK
  <2>2. "ROOM_ALREADY_EXISTS" \in ErrorCode
    BY DEF ErrorCode
  <2>3. QED
    BY <1>1, <1>4, <2>1, <2>2, RefusedBase
<1>5. CASE /\ room.state = "none"
           /\ room' = [state |-> "WAITING", initiator |-> s, joiner |-> NoSock]
           /\ down' = Push(down, s, f)
           /\ UNCHANGED sock
  <2>1. f \in Frame /\ f.type = "ACK" /\ f.role = "initiator"
    BY NoticeTyped DEF FrameType, Role
  <2> HIDE DEF f
  <2>2. <<f>> = Append(down[s], f) /\ <<f>> # <<>> /\ Head(<<f>>) = f /\ down[s] \in Seq(Frame)
    BY <1>2, <2>1
  <2>3. Sendable(q, sock[s], down[s], f)
    BY <1>1, <1>2, <2>1 DEF Sendable, RoleOf
  <2>4. Queue(q, sock[s], <<>>, Append(down[s], f)) /\ Append(down[s], f) \in Seq(Frame)
    BY <1>1, <1>3, <2>1, <2>2, <2>3, QueueAppend, UpFacts
  <2>5. /\ Queue(q, sock[s], <<>>, down'[s]) /\ down' \in [Sock -> Seq(Frame)]
        /\ \A t \in Sock : t # s => down'[t] = down[t]
        /\ Reaches(s) => down'[s] # <<>> /\ Head(down'[s]).type = "ACK"
    <3>1. CASE Reaches(s)
      BY <1>3, <1>5, <2>1, <2>2, <2>4, <3>1 DEF Push, TypeOK
    <3>2. CASE ~Reaches(s)
      BY <1>2, <1>3, <1>5, <3>2, QueueEmpty DEF Push, TypeOK
    <3>3. QED
      BY <3>1, <3>2
  <2>6. Line(q, sock[s], <<>>)
    BY <1>2, <1>3, UpFacts DEF Line
  <2>7. /\ sock'[s] = sock[s] /\ up'[s] = <<>> /\ \A t \in Sock : t # s => Same(t)
        /\ up' \in [Sock -> {<<>>, <<"HELLO">>, <<"HANDSHAKE">>}]
    BY <1>1, <1>3, <1>5, <2>5 DEF Same, TypeOK
  <2>8. room' \in RoomState
    BY <1>5 DEF RoomState
  <2>9. TypeOK'
    BY <1>1, <1>3, <1>5, <2>5, <2>7, <2>8 DEF TypeOK
  <2>10. \A x \in Page : Local(x)'
    BY <1>1, <2>5, <2>6, <2>7, ServerLocal
  <2>11. Layout'
    BY <1>1, <1>2, <1>5, <2>7, SockFacts DEF Layout
  <2>12. \A t \in Sock : Member(t)' => t = s
    BY <1>5, SockFacts DEF Member
  <2>13. Seat(s)'
    BY <1>1, <1>5, <2>5, <2>7, UpFacts DEF Seat, Current, Reaches
  <2>14. QED
    BY <2>9, <2>10, <2>11, <2>12, <2>13 DEF BaseInv, RoomInv
<1>6. QED
  BY <1>4, <1>5 DEF HelloCreate

LEMMA RefuseBase ==
  ASSUME BaseInv, NEW s \in Sock, Refused(s)
  PROVE  BaseInv'
<1>1. TypeOK
  BY DEF BaseInv
<1>2. faults' \in Seq(Faults) /\ Len(faults') <= MaxFaults
  BY <1>1, FaultTyped DEF Refused
<1>3. "RATE_LIMITED" \in ErrorCode
  BY DEF ErrorCode
<1>4. QED
  BY <1>2, <1>3, RefusedBase DEF Refused

\* The network loses a socket.
LEMMA DropBase ==
  ASSUME BaseInv, NEW s \in Sock, Drop(s)
  PROVE  BaseInv'
<1> DEFINE q == page[s[1]]
           l == [sock[s] EXCEPT !.lost = TRUE]
<1>1. s[1] \in Page /\ s = Current(s[1]) /\ q.st # "IDLE"
  BY ServedIsCurrent DEF Drop
<1>2. /\ TypeOK /\ Line(q, sock[s], up[s]) /\ sock[s] \in SocketState
  BY <1>1, LocalFacts
<1>3. /\ sock' = [sock EXCEPT ![s] = l] /\ up' = [up EXCEPT ![s] = <<>>]
      /\ down' = [down EXCEPT ![s] = <<>>] /\ UNCHANGED <<page, room>>
      /\ faults' \in Seq(Faults) /\ Len(faults') <= MaxFaults
  BY <1>2, FaultTyped DEF Drop, TypeOK
<1>4. /\ l \in SocketState /\ l.client = sock[s].client /\ l.server = sock[s].server
      /\ l.lost = TRUE
      /\ l.paired = sock[s].paired /\ l.handshakeForwards = sock[s].handshakeForwards
  BY <1>2 DEF SocketState
<1> HIDE DEF l
<1>5. /\ sock'[s] = l /\ up'[s] = <<>> /\ down'[s] = <<>> /\ sock' \in [Sock -> SocketState]
      /\ \A t \in Sock : t # s => Same(t)
  BY <1>2, <1>3, <1>4 DEF Same, TypeOK
<1>6. up' \in [Sock -> {<<>>, <<"HELLO">>, <<"HANDSHAKE">>}] /\ down' \in [Sock -> Seq(Frame)]
  <2>1. <<>> \in Seq(Frame)
    OBVIOUS
  <2>2. QED
    BY <1>2, <1>3, <2>1 DEF TypeOK
<1>7. TypeOK'
  BY <1>2, <1>3, <1>5, <1>6 DEF TypeOK
<1>8. Line(q, l, <<>>)
  BY <1>1, <1>2, <1>4, UpFacts DEF Line
<1>9. \A x \in Page : Local(x)'
  BY <1>1, <1>3, <1>5, <1>8, ServerLocal, QueueEmpty
<1>10. ASSUME NEW t \in Sock, Member(t) PROVE sock'[t].paired = sock[t].paired /\ Seat(t)'
  <2>1. Seat(t)
    BY <1>10 DEF BaseInv, RoomInv
  <2>2. CASE t = s
    BY <1>3, <1>4, <1>5, <2>1, <2>2, UpFacts DEF Seat, Reaches, Current
  <2>3. CASE t # s
    BY <1>3, <1>5, <2>1, <2>3, SeatKept
  <2>4. QED
    BY <2>2, <2>3
<1>11. RoomInv'
  BY <1>2, <1>3, <1>10, RoomKept DEF BaseInv, TypeOK
<1>12. QED
  BY <1>7, <1>9, <1>11 DEF BaseInv

\* The sweeper closes the socket of who waits in vain.
LEMMA ExpireBase ==
  ASSUME BaseInv, Expire
  PROVE  BaseInv'
<1> DEFINE s == room.initiator
           q == page[s[1]]
           l == [sock[s] EXCEPT !.server = "closed"]
<1>1. s \in Sock /\ Member(s) /\ TypeOK
  BY DEF BaseInv, RoomInv, Layout, Expire, TypeOK, RoomState, Member
<1> HIDE DEF s
<1>2. Seat(s) /\ sock[s].server = "open" /\ s = Current(s[1])
  BY <1>1 DEF BaseInv, RoomInv, Seat
<1>3. s[1] \in Page /\ q.st # "IDLE"
  BY <1>1, <1>2, ServedIsCurrent
<1>4. /\ Line(q, sock[s], up[s]) /\ sock[s] \in SocketState /\ Queue(q, sock[s], up[s], down[s])
  BY <1>2, <1>3, LocalFacts
<1>5. /\ sock' = [sock EXCEPT ![s] = l] /\ room' = NoRoom /\ UNCHANGED <<page, up, down>>
      /\ faults' \in Seq(Faults) /\ Len(faults') <= MaxFaults
  BY <1>1, FaultTyped DEF Expire, TypeOK, s
<1>6. /\ l \in SocketState /\ l.client = sock[s].client /\ l.server = "closed"
      /\ l.paired = sock[s].paired /\ l.handshakeForwards = sock[s].handshakeForwards
  BY <1>4, ClosedTyped
<1> HIDE DEF l
<1>7. /\ sock'[s] = l /\ sock' \in [Sock -> SocketState] /\ \A t \in Sock : t # s => Same(t)
  BY <1>1, <1>5, <1>6 DEF Same, TypeOK
<1>8. TypeOK'
  <2>1. NoRoom \in RoomState
    BY DEF NoRoom, RoomState
  <2>2. QED
    BY <1>1, <1>5, <1>7, <2>1 DEF TypeOK
<1>9. Line(q, l, up[s])
  BY <1>3, <1>4, <1>6 DEF Line
<1>10. Queue(q, l, up[s], down[s])
  BY <1>2, <1>3, <1>4, <1>6, QueueServed DEF Seat
<1>11. \A x \in Page : Local(x)'
  BY <1>1, <1>2, <1>3, <1>5, <1>7, <1>9, <1>10, ServerLocal
<1>12. RoomInv'
  BY <1>5 DEF RoomInv, Layout, Member, NoRoom
<1>13. QED
  BY <1>8, <1>11, <1>12 DEF BaseInv

\* registry.remove leaves the other one, if there is one.
LEMMA WithoutFacts ==
  ASSUME Layout, room \in RoomState, NEW s \in Sock, Member(s),
         NEW w, w = Without(s), NEW r, r = Remaining(w)
  PROVE  /\ w \in RoomState /\ r # s /\ r \in Sock \cup {NoSock} /\ w.state \in {"none", "HALF_OPEN"}
         /\ r = NoSock => w = NoRoom
         /\ r # NoSock => Member(r) /\ w.state = "HALF_OPEN"
         /\ w.initiator \in {NoSock, r} /\ w.joiner \in {NoSock, r}
         /\ w.initiator \in {NoSock, room.initiator} /\ w.joiner \in {NoSock, room.joiner}
         /\ w.initiator = NoSock \/ w.joiner = NoSock
         /\ w.state = "none" => w.initiator = NoSock /\ w.joiner = NoSock
<1> DEFINE a == IF room.initiator = s THEN NoSock ELSE room.initiator
           b == IF room.joiner = s THEN NoSock ELSE room.joiner
           left == [room EXCEPT !.initiator = a, !.joiner = b]
           half == [left EXCEPT !.state = "HALF_OPEN"]
<1>1. /\ room.initiator \in Sock \cup {NoSock} /\ room.joiner \in Sock \cup {NoSock}
      /\ s \in {room.initiator, room.joiner} /\ s # NoSock
      /\ room.state \in {"none", "WAITING", "PAIRED", "HALF_OPEN"}
  BY DEF RoomState, Member
<1>2. room.initiator = room.joiner => s = room.initiator
  BY <1>1
<1>3. room.initiator # room.joiner
  BY <1>1, <1>2 DEF Layout
<1>4. /\ a = NoSock \/ b = NoSock
      /\ a \in Sock \cup {NoSock} /\ b \in Sock \cup {NoSock}
      /\ a \in {NoSock, room.initiator} /\ b \in {NoSock, room.joiner}
  BY <1>1, <1>3
<1>5. w = IF left.initiator = NoSock /\ left.joiner = NoSock THEN NoRoom ELSE half
  BY DEF Without
<1>6. a # s /\ b # s
  BY <1>1
<1> HIDE DEF a, b
<1>7. left.initiator = a /\ left.joiner = b
  BY DEF RoomState
<1>8. /\ half.initiator = a /\ half.joiner = b /\ half.state = "HALF_OPEN" /\ half \in RoomState
  BY <1>4 DEF RoomState
<1> HIDE DEF left, half
<1>9. CASE a = NoSock /\ b = NoSock
  <2>1. w = NoRoom
    BY <1>5, <1>7, <1>9
  <2>2. /\ NoRoom.state = "none" /\ NoRoom.initiator = NoSock /\ NoRoom.joiner = NoSock
        /\ NoRoom \in RoomState
    BY DEF NoRoom, RoomState
  <2>3. r = NoSock
    BY <2>1, <2>2 DEF Remaining
  <2>4. QED
    BY <1>1, <2>1, <2>2, <2>3
<1>10. CASE ~(a = NoSock /\ b = NoSock)
  <2>1. w = half
    BY <1>5, <1>7, <1>10
  <2>2. r = IF a # NoSock THEN a ELSE b
    BY <1>8, <2>1 DEF Remaining
  <2>3. QED
    BY <1>1, <1>3, <1>4, <1>6, <1>8, <1>10, <2>1, <2>2 DEF Member
<1>11. QED
  BY <1>9, <1>10

\* What is sent to a socket of the room that stays as it is.
LEMMA SeatPush ==
  ASSUME BaseInv, NEW r \in Sock, Member(r), NEW f \in Frame,
         page' = page, up'[r] = up[r], sock'[r].client = sock[r].client,
         sock'[r].server = sock[r].server, sock'[r].lost = sock[r].lost,
         down'[r] = IF Reaches(r) THEN Append(down[r], f) ELSE down[r]
  PROVE  Seat(r)'
<1>1. Seat(r) /\ down[r] \in Seq(Frame)
  BY DEF BaseInv, RoomInv, TypeOK
<1>2. \A d \in Seq(Frame) : d # <<>> => Append(d, f) # <<>> /\ Head(Append(d, f)) = Head(d)
  OBVIOUS
<1>3. Reaches(r)' = Reaches(r) /\ Current(r[1])' = Current(r[1])
  BY DEF Reaches, Current
<1>4. ASSUME Reaches(r)', page'[r[1]].role = "undefined"
      PROVE  down'[r] # <<>> /\ Head(down'[r]).type = "ACK"
  <2>1. down[r] # <<>> /\ Head(down[r]).type = "ACK" /\ down'[r] = Append(down[r], f)
    BY <1>1, <1>3, <1>4 DEF Seat
  <2>2. QED
    BY <1>1, <1>2, <2>1
<1>5. QED
  BY <1>1, <1>3, <1>4 DEF Seat

LEMMA ServerNoticesBase ==
  ASSUME BaseInv, NEW s \in Sock, ServerNotices(s)
  PROVE  BaseInv'
<1> DEFINE q == page[s[1]]
           l == [sock[s] EXCEPT !.server = "closed"]
           f == Notice("PEER_DISCONNECTED")
           w == Without(s)
<1>0. PICK r : r = Remaining(w)
  OBVIOUS
<1>1. /\ s[1] \in Page /\ s = Current(s[1]) /\ q.st # "IDLE" /\ sock[s].server = "open"
      /\ UNCHANGED <<page, up, faults>>
  BY ServedIsCurrent DEF ServerNotices
<1>2. /\ TypeOK /\ Line(q, sock[s], up[s]) /\ Queue(q, sock[s], up[s], down[s])
      /\ sock[s] \in SocketState /\ Layout /\ room \in RoomState /\ Own(q)
  BY <1>1, LocalFacts DEF BaseInv, RoomInv, TypeOK
<1>3. /\ sock' = [sock EXCEPT ![s] = l]
      /\ \/ InRoom(s) /\ room' = w /\ down' = Push(down, r, f)
         \/ ~InRoom(s) /\ UNCHANGED room /\ down' = down
  BY <1>0, <1>2 DEF ServerNotices, Leaves, TypeOK
<1>4. /\ l \in SocketState /\ l.client = sock[s].client /\ l.server = "closed"
      /\ l.paired = sock[s].paired /\ l.handshakeForwards = sock[s].handshakeForwards
  BY <1>2, ClosedTyped
<1>5. f \in Frame /\ f.type = "PEER_DISCONNECTED"
  BY NoticeTyped DEF FrameType
<1> HIDE DEF l, f
<1>6. Line(q, l, up[s])
  BY <1>1, <1>2, <1>4 DEF Line
<1>7. Queue(q, l, up[s], down[s])
  BY <1>1, <1>2, <1>4, QueueServed
<1>8. sock'[s] = l /\ sock' \in [Sock -> SocketState] /\ \A t \in Sock : t # s => sock'[t] = sock[t]
  BY <1>2, <1>3, <1>4 DEF TypeOK
<1>9. CASE ~InRoom(s)
  <2>1. \A t \in Sock : t # s => Same(t)
    BY <1>1, <1>3, <1>8, <1>9 DEF Same
  <2>2. TypeOK'
    BY <1>1, <1>2, <1>3, <1>8, <1>9 DEF TypeOK
  <2>3. \A x \in Page : Local(x)'
    BY <1>1, <1>3, <1>6, <1>7, <1>8, <1>9, <2>1, ServerLocal
  <2>4. ASSUME NEW t \in Sock, Member(t) PROVE sock'[t].paired = sock[t].paired /\ Seat(t)'
    <3>1. t # s
      BY <1>2, <1>9, <2>4, SockFacts DEF InRoom, Member, Layout
    <3>2. Seat(t) /\ Same(t)
      BY <2>1, <2>4, <3>1 DEF BaseInv, RoomInv
    <3>3. QED
      BY <1>1, <3>2, SeatKept
  <2>5. RoomInv'
    BY <1>2, <1>3, <1>9, <2>4, RoomKept DEF BaseInv
  <2>6. QED
    BY <2>2, <2>3, <2>5 DEF BaseInv
<1>10. CASE InRoom(s)
  <2>1. Member(s)
    BY <1>10, SockFacts DEF InRoom, Member
  <2>2. /\ w \in RoomState /\ r # s /\ r \in Sock \cup {NoSock} /\ w.state \in {"none", "HALF_OPEN"}
        /\ r = NoSock => w = NoRoom
        /\ r # NoSock => Member(r) /\ w.state = "HALF_OPEN"
        /\ w.initiator \in {NoSock, r} /\ w.joiner \in {NoSock, r}
        /\ w.initiator \in {NoSock, room.initiator} /\ w.joiner \in {NoSock, room.joiner}
        /\ w.initiator = NoSock \/ w.joiner = NoSock
        /\ w.state = "none" => w.initiator = NoSock /\ w.joiner = NoSock
    BY <1>0, <1>2, <2>1, WithoutFacts
  <2>3. room' = w /\ down' = Push(down, r, f)
    BY <1>3, <1>10
  <2> HIDE DEF w
  <2>4. /\ down' \in [Sock -> Seq(Frame)] /\ \A t \in Sock : t # r => down'[t] = down[t]
        /\ r \in Sock => down'[r] = IF Reaches(r) THEN Append(down[r], f) ELSE down[r]
    <3>1. \A t \in Sock : Append(down[t], f) \in Seq(Frame)
      BY <1>2, <1>5 DEF TypeOK
    <3>2. CASE Reaches(r)
      <4>1. r \in Sock
        BY <2>2, <3>2 DEF Reaches
      <4>2. QED
        BY <1>2, <2>3, <3>1, <3>2, <4>1 DEF Push, TypeOK
    <3>3. CASE ~Reaches(r)
      BY <1>2, <2>3, <3>3 DEF Push, TypeOK
    <3>4. QED
      BY <3>2, <3>3
  <2>5. TypeOK'
    BY <1>1, <1>2, <1>8, <2>2, <2>3, <2>4 DEF TypeOK
  <2>6. \A t \in Sock : t # s /\ t # r => Same(t)
    BY <1>1, <1>8, <2>4 DEF Same
  <2>7. ASSUME r \in Sock
        PROVE  /\ r[1] \in Page /\ r = Current(r[1]) /\ r[1] # s[1] /\ Stays(r[1])
               /\ Member(r) /\ Seat(r)'
    <3>1. Member(r) /\ Seat(r)
      BY <2>2, <2>7, SockFacts DEF BaseInv, RoomInv
    <3>2. r[1] \in Page /\ r = Current(r[1]) /\ r[1] # s[1] /\ page[r[1]].st # "IDLE"
      BY <1>1, <2>2, <2>7, <3>1, ServedIsCurrent DEF Seat
    <3>3. /\ Line(page[r[1]], sock[r], up[r]) /\ Queue(page[r[1]], sock[r], up[r], down[r])
          /\ Own(page[r[1]]) /\ down[r] \in Seq(Frame)
      BY <3>2, LocalFacts
    <3>4. sock'[r] = sock[r] /\ up'[r] = up[r] /\ page' = page
      BY <1>1, <1>8, <2>2, <2>7
    <3>5. Queue(page[r[1]], sock[r], up[r], Append(down[r], f))
      <4>1. Sendable(page[r[1]], sock[r], down[r], f)
        BY <1>5 DEF Sendable
      <4>2. QED
        BY <1>5, <3>1, <3>2, <3>3, <4>1, QueueAppend DEF Seat
    <3>6. Queue(page[r[1]], sock[r], up[r], down'[r])
      BY <2>4, <2>7, <3>3, <3>5
    <3>7. Stays(r[1])
      BY <3>2, <3>3, <3>4, <3>6 DEF Stays
    <3>8. Seat(r)'
      BY <1>5, <2>4, <2>7, <3>1, <3>4, SeatPush
    <3>9. QED
      BY <3>1, <3>2, <3>7, <3>8
  <2>8. Stays(s[1])
    BY <1>1, <1>2, <1>6, <1>7, <1>8, <2>2, <2>4 DEF Stays
  <2>9. ASSUME NEW x \in Page PROVE Stays(x)
    <3>1. CASE x = s[1]
      BY <2>8, <3>1
    <3>2. CASE r \in Sock /\ x = r[1]
      BY <2>7, <3>2
    <3>3. CASE x # s[1] /\ ~(r \in Sock /\ x = r[1])
      <4>1. Current(x) \in Sock /\ Current(x) # s /\ Current(x) # r
        BY <1>2, <3>3, CurrentSock
      <4>2. Local(x) /\ page'[x] = page[x]
        BY <1>1 DEF BaseInv
      <4>3. QED
        BY <2>6, <4>1, <4>2, StaysPut
    <3>4. QED
      BY <3>1, <3>2, <3>3
  <2>10. \A t \in Sock : t # Current(t[1]) => Same(t)
    BY <1>1, <2>6, <2>7
  <2>11. \A x \in Page : Local(x)'
    BY <1>2, <2>9, <2>10, Locals DEF BaseInv
  <2>12. Layout'
    BY <1>2, <2>2, <2>3 DEF Layout
  <2>13. \A t \in Sock : Member(t)' => Seat(t)'
    BY <2>2, <2>3, <2>7 DEF Member
  <2>14. QED
    BY <2>5, <2>11, <2>12, <2>13 DEF BaseInv, RoomInv
<1>11. QED
  BY <1>9, <1>10

\* Two sockets change, each its page's current one.
LEMMA TwoPages ==
  ASSUME BaseInv, NEW s \in Sock, NEW r \in Sock, s = Current(s[1]), r = Current(r[1]),
         s[1] \in Page, r[1] \in Page, page' = page, \A t \in Sock : t # s /\ t # r => Same(t),
         Stays(s[1]), Stays(r[1])
  PROVE  \A x \in Page : Local(x)'
<1>1. TypeOK /\ \A x \in Page : Local(x)
  BY DEF BaseInv
<1>2. ASSUME NEW x \in Page PROVE Stays(x)
  <2>1. CASE x = s[1] \/ x = r[1]
    BY <2>1
  <2>2. CASE x # s[1] /\ x # r[1]
    <3>1. Current(x) \in Sock /\ Current(x) # s /\ Current(x) # r
      BY <1>1, <2>2, CurrentSock
    <3>2. Local(x) /\ page'[x] = page[x]
      BY <1>1
    <3>3. QED
      BY <3>1, <3>2, StaysPut
  <2>3. QED
    BY <2>1, <2>2
<1>3. \A t \in Sock : t # Current(t[1]) => Same(t)
  OBVIOUS
<1>4. QED
  BY <1>1, <1>2, <1>3, Locals

LEMMA PairedTyped ==
  ASSUME NEW k \in SocketState
  PROVE  LET l == [k EXCEPT !.paired = TRUE]
         IN /\ l \in SocketState /\ l.client = k.client /\ l.server = k.server /\ l.lost = k.lost
            /\ l.paired = TRUE /\ l.handshakeForwards = k.handshakeForwards
BY DEF SocketState

\* What Push does to the frames on their way.
Pushes(e, d, s, f) ==
  /\ e \in [Sock -> Seq(Frame)]
  /\ e[s] = IF Reaches(s) THEN Append(d[s], f) ELSE d[s]
  /\ \A t \in Sock : t # s => e[t] = d[t]

LEMMA PushFacts ==
  ASSUME NEW d \in [Sock -> Seq(Frame)], NEW s \in Sock, NEW f \in Frame
  PROVE  Pushes(Push(d, s, f), d, s, f)
<1>1. Append(d[s], f) \in Seq(Frame)
  OBVIOUS
<1>2. QED
  BY <1>1 DEF Push, Pushes

\* The second page joins the first, whose socket is i.
Joins(s, i) ==
  /\ i \in Sock /\ Member(i) /\ i # s /\ page' = page
  /\ \A t \in Sock : t # i /\ t # s => Same(t)
  /\ sock[s].paired = FALSE /\ sock[i].paired = FALSE /\ room.joiner = NoSock
  /\ room'.initiator = i /\ room'.joiner = s
  /\ \A t \in Sock : sock'[t].handshakeForwards = sock[t].handshakeForwards
  /\ sock'[s].paired = TRUE /\ sock'[i].paired = TRUE
  /\ \E f, g \in Frame : /\ f.type = "ACK" /\ g.type = "PEER_JOINED"
                         /\ down'[s] \in {down[s], Append(down[s], f)}
                         /\ down'[i] \in {down[i], Append(down[i], g)}
  /\ \A t \in Sock : /\ sock'[t].client = sock[t].client /\ sock'[t].server = sock[t].server
                     /\ sock'[t].lost = sock[t].lost

LEMMA JoinedBase ==
  ASSUME BaseInv, NEW s \in Sock, s[2] = "join", Receives(s, "HELLO"), UNCHANGED faults,
         room.state = "WAITING", NEW i, i = room.initiator,
         room' = [room EXCEPT !.state = "PAIRED", !.joiner = s],
         sock' = [sock EXCEPT ![s].paired = TRUE, ![i].paired = TRUE],
         down' = Push(Push(down, s, [Notice("ACK") EXCEPT !.role = "joiner"]), i, Notice("PEER_JOINED"))
  PROVE  BaseInv' /\ Joins(s, i)
<1> DEFINE q == page[s[1]]
           f == [Notice("ACK") EXCEPT !.role = "joiner"]
           g == Notice("PEER_JOINED")
           k == [sock[s] EXCEPT !.paired = TRUE]
           l == [sock[i] EXCEPT !.paired = TRUE]
<1>1. /\ s[1] \in Page /\ s = Current(s[1]) /\ q.st # "IDLE" /\ sock[s].server = "open"
      /\ up[s] = <<"HELLO">> /\ up' = [up EXCEPT ![s] = <<>>] /\ page' = page
  BY ReceivesFacts
<1>2. /\ sock[s].paired = FALSE /\ sock[s].handshakeForwards = 0 /\ down[s] = <<>>
      /\ q.role = "undefined" /\ q.intentTried = s[2] /\ ~Member(s)
  BY <1>1, HelloFacts
<1>3. /\ TypeOK /\ Line(q, sock[s], up[s]) /\ Queue(q, sock[s], up[s], down[s]) /\ Own(q)
      /\ sock[s] \in SocketState
  BY <1>1, LocalFacts
<1>4. /\ i \in Sock /\ Member(i) /\ Seat(i) /\ sock[i].paired = FALSE /\ room.joiner = NoSock
      /\ room \in RoomState /\ i[2] = "create" /\ i # NoSock
  BY <1>3 DEF BaseInv, RoomInv, Layout, TypeOK, RoomState, Member
<1>5. i # s /\ i = Current(i[1]) /\ sock[i].server = "open" /\ up[i] # <<"HELLO">>
  BY <1>2, <1>4 DEF Seat
<1>6. i[1] \in Page /\ page[i[1]].st # "IDLE"
  BY <1>4, <1>5, ServedIsCurrent
<1>7. /\ Line(page[i[1]], sock[i], up[i]) /\ Queue(page[i[1]], sock[i], up[i], down[i])
      /\ Own(page[i[1]]) /\ sock[i] \in SocketState /\ down[i] \in Seq(Frame)
  BY <1>5, <1>6, LocalFacts
<1>8. s[1] # i[1]
  BY <1>1, <1>5
<1>9. /\ f \in Frame /\ f.type = "ACK" /\ f.role = "joiner" /\ g \in Frame /\ g.type = "PEER_JOINED"
  BY NoticeTyped DEF FrameType, Role
<1>10. /\ k \in SocketState /\ k.client = sock[s].client /\ k.server = sock[s].server
       /\ k.lost = sock[s].lost
       /\ k.paired = TRUE /\ k.handshakeForwards = sock[s].handshakeForwards
       /\ l \in SocketState /\ l.client = sock[i].client /\ l.server = sock[i].server
       /\ l.lost = sock[i].lost
       /\ l.paired = TRUE /\ l.handshakeForwards = sock[i].handshakeForwards
  BY <1>3, <1>7, PairedTyped
<1>11. /\ sock'[s] = k /\ sock'[i] = l /\ sock' \in [Sock -> SocketState]
       /\ \A t \in Sock : t # i /\ t # s => sock'[t] = sock[t]
  <2>1. [sock EXCEPT ![s].paired = TRUE] = [sock EXCEPT ![s] = k]
    BY <1>3 DEF TypeOK
  <2>2. sock' = [[sock EXCEPT ![s] = k] EXCEPT ![i].paired = TRUE]
    BY <2>1
  <2> HIDE DEF k
  <2>3. [sock EXCEPT ![s] = k][i] = sock[i]
    BY <1>3, <1>4, <1>5 DEF TypeOK
  <2>4. sock' = [[sock EXCEPT ![s] = k] EXCEPT ![i] = l]
    BY <1>3, <1>4, <1>10, <2>2, <2>3 DEF TypeOK
  <2> HIDE DEF l
  <2>5. QED
    BY <1>3, <1>4, <1>5, <1>10, <2>4 DEF TypeOK
<1> HIDE DEF f, g, k, l
<1>12. /\ down' \in [Sock -> Seq(Frame)] /\ \A t \in Sock : t # i /\ t # s => down'[t] = down[t]
       /\ down'[s] = IF Reaches(s) THEN Append(down[s], f) ELSE down[s]
       /\ down'[i] = IF Reaches(i) THEN Append(down[i], g) ELSE down[i]
  <2> DEFINE d == Push(down, s, f)
  <2>1. down \in [Sock -> Seq(Frame)]
    BY <1>3 DEF TypeOK
  <2>2. Pushes(d, down, s, f)
    BY <1>9, <2>1, PushFacts
  <2>3. down' = Push(d, i, g)
    BY DEF f, g
  <2> HIDE DEF d
  <2>4. d \in [Sock -> Seq(Frame)]
    BY <2>2 DEF Pushes
  <2>5. Pushes(down', d, i, g)
    BY <1>4, <1>9, <2>3, <2>4, PushFacts
  <2>6. QED
    BY <1>4, <1>5, <2>2, <2>5 DEF Pushes
<1>13. /\ up' \in [Sock -> {<<>>, <<"HELLO">>, <<"HANDSHAKE">>}]
       /\ up'[s] = <<>> /\ \A t \in Sock : t # s => up'[t] = up[t]
  BY <1>1, <1>3 DEF TypeOK
<1>14. /\ room' \in RoomState /\ room'.state = "PAIRED" /\ room'.initiator = i /\ room'.joiner = s
  BY <1>4 DEF RoomState
<1>15. TypeOK'
  BY <1>1, <1>3, <1>11, <1>12, <1>13, <1>14 DEF TypeOK
<1>16. Stays(s[1])
  <2>1. Line(q, k, <<>>)
    BY <1>1, <1>2, <1>3, <1>10, UpFacts DEF Line
  <2>2. Sendable(q, k, down[s], f)
    BY <1>2, <1>9, <1>10 DEF Sendable, RoleOf
  <2>3. Queue(q, k, <<>>, Append(down[s], f))
    <3>1. down[s] \in Seq(Frame)
      BY <1>3 DEF TypeOK
    <3>2. QED
      BY <1>1, <1>3, <1>9, <1>10, <2>2, <3>1, QueueAppend, UpFacts
  <2>4. Queue(q, k, <<>>, down[s])
    BY <1>2, QueueEmpty
  <2>5. Queue(q, k, <<>>, down'[s])
    BY <1>12, <2>3, <2>4
  <2>6. QED
    BY <1>1, <1>3, <1>11, <1>13, <2>1, <2>5 DEF Stays
<1>17. Stays(i[1])
  <2> DEFINE z == page[i[1]]
  <2>1. Line(z, l, up[i])
    BY <1>5, <1>6, <1>7, <1>10 DEF Line
  <2>2. Queue(z, l, up[i], down[i])
    BY <1>5, <1>6, <1>7, <1>10, QueueServed
  <2>3. ASSUME Reaches(i) PROVE Queue(z, l, up[i], Append(down[i], g))
    <3>1. Sendable(z, l, down[i], g)
      BY <1>4, <1>9, <1>10, <2>3 DEF Sendable, Seat
    <3>2. /\ Queue(z, sock[i], up[i], down[i]) /\ sock[i].server = "open" /\ l.paired = TRUE
          /\ up[i] # <<"HELLO">> /\ z.st # "IDLE" /\ g \in Frame /\ down[i] \in Seq(Frame)
      BY <1>5, <1>6, <1>7, <1>9, <1>10
    <3>3. QED
      BY <3>1, <3>2, QueueAppend
  <2>4. Queue(z, l, up[i], down'[i])
    BY <1>12, <2>2, <2>3
  <2>5. QED
    BY <1>1, <1>4, <1>5, <1>7, <1>11, <1>13, <2>1, <2>4 DEF Stays
<1>18. \A t \in Sock : t # i /\ t # s => Same(t)
  BY <1>11, <1>12, <1>13 DEF Same
<1>19. \A x \in Page : Local(x)'
  BY <1>1, <1>4, <1>5, <1>6, <1>16, <1>17, <1>18, TwoPages
<1>20. Layout'
  BY <1>4, <1>10, <1>11, <1>14, SockFacts DEF Layout
<1>21. Seat(i)'
  BY <1>1, <1>4, <1>5, <1>9, <1>10, <1>11, <1>12, <1>13, SeatPush
<1>22. Seat(s)'
  <2>1. Reaches(s)' => Reaches(s)
    BY <1>10, <1>11 DEF Reaches
  <2>2. Append(down[s], f) # <<>> /\ Head(Append(down[s], f)) = f
    BY <1>2, <1>9
  <2>3. Reaches(s)' => down'[s] # <<>> /\ Head(down'[s]).type = "ACK"
    BY <1>9, <1>12, <2>1, <2>2
  <2>4. sock'[s].server = "open" /\ up'[s] # <<"HELLO">> /\ Current(s[1])' = Current(s[1])
    BY <1>1, <1>10, <1>11, <1>13, UpFacts DEF Current
  <2>5. QED
    BY <1>1, <2>3, <2>4 DEF Seat
<1>23. \A t \in Sock : Member(t)' => t = i \/ t = s
  BY <1>14 DEF Member
<1>24. BaseInv'
  BY <1>15, <1>19, <1>20, <1>21, <1>22, <1>23 DEF BaseInv, RoomInv
<1>25. /\ down'[s] \in {down[s], Append(down[s], f)} /\ down'[i] \in {down[i], Append(down[i], g)}
       /\ f \in Frame /\ g \in Frame /\ f.type = "ACK" /\ g.type = "PEER_JOINED"
  BY <1>9, <1>12
<1>26. \A t \in Sock : /\ sock'[t].handshakeForwards = sock[t].handshakeForwards
                       /\ sock'[t].client = sock[t].client /\ sock'[t].server = sock[t].server
                       /\ sock'[t].lost = sock[t].lost
  BY <1>10, <1>11
<1>27. \E e, h \in Frame : /\ e.type = "ACK" /\ h.type = "PEER_JOINED"
                           /\ down'[s] \in {down[s], Append(down[s], e)}
                           /\ down'[i] \in {down[i], Append(down[i], h)}
  BY <1>25
<1>28. QED
  BY <1>1, <1>2, <1>4, <1>5, <1>10, <1>11, <1>14, <1>18, <1>24, <1>26, <1>27 DEF Joins

LEMMA JoinBase ==
  ASSUME BaseInv, NEW s \in Sock, HelloJoin(s)
  PROVE  BaseInv'
<1>1. s[2] = "join" /\ Receives(s, "HELLO") /\ UNCHANGED faults /\ TypeOK
  BY DEF HelloJoin, BaseInv
<1>2. faults' \in Seq(Faults) /\ Len(faults') <= MaxFaults
  BY <1>1 DEF TypeOK
<1>3. CASE ErrorAndClose(s, "ROOM_NOT_FOUND") \/ ErrorAndClose(s, "ROOM_FULL")
  <2>1. "ROOM_NOT_FOUND" \in ErrorCode /\ "ROOM_FULL" \in ErrorCode
    BY DEF ErrorCode
  <2>2. QED
    BY <1>1, <1>2, <1>3, <2>1, RefusedBase
<1>4. CASE Joinable /\ ~(ErrorAndClose(s, "ROOM_NOT_FOUND") \/ ErrorAndClose(s, "ROOM_FULL"))
  BY <1>1, <1>4, JoinedBase DEF HelloJoin, Joinable
<1>5. QED
  BY <1>3, <1>4 DEF HelloJoin

\* A page that hears nobody has room for a HANDSHAKE.
LEMMA HearsNobody ==
  ASSUME NEW q \in PageState, Own(q), NEW k, NEW u, NEW d \in Seq(Frame), Queue(q, k, u, d),
         \A x \in Page : ~Hears(q, d, x)
  PROVE  /\ q.inq = <<>> /\ q.peer = NoPage /\ \A j \in 1..Len(d) : d[j].type # "HANDSHAKE"
<1>1. q.peer = NoPage
  BY DEF Hears, PageState
<1>2. q.inq = <<>>
  <2>1. q.inq # <<>> => q.inq = <<Head(q.inq)>> /\ Head(q.inq) \in Page
    BY OnlyOne
  <2>2. QED
    BY <2>1 DEF Hears
<1>3. ASSUME NEW j \in 1..Len(d), d[j].type = "HANDSHAKE" PROVE FALSE
  <2>1. d[j] \in Frame /\ Expected(q, k, d, j)
    BY DEF Queue
  <2>2. d[j].from # NoPage
    BY <1>3, <2>1 DEF Expected
  <2>3. d[j].from \in Page
    BY <2>1, <2>2 DEF Frame
  <2>4. QED
    BY <1>3, <2>3 DEF Hears
<1>4. QED
  BY <1>1, <1>2, <1>3

\* The server forwards a HANDSHAKE to the peer, whose socket is r.
Forwards(s, r, f) ==
  /\ r \in Sock /\ r # s /\ page' = page
  /\ s[1] \in Page /\ r[1] \in Page /\ s = Current(s[1]) /\ r = Current(r[1])
  /\ \A x \in Page : ~Heard(r[1], x)
  /\ Together(s[1], r[1]) /\ s[2] # r[2]
  /\ \A t \in Sock : t # s /\ t # r => Same(t)
  /\ sock'[s].handshakeForwards = 1 /\ sock'[s].paired = sock[s].paired
  /\ sock[r].paired = TRUE /\ sock'[r] = sock[r] /\ down'[s] = down[s]
  /\ f \in Frame /\ f.from = s[1] /\ down[r] \in Seq(Frame)
  /\ down'[r] \in {down[r], Append(down[r], f)} /\ f.type = "HANDSHAKE"
  /\ \A t \in Sock : /\ sock'[t].client = sock[t].client /\ sock'[t].server = sock[t].server
                     /\ sock'[t].lost = sock[t].lost

LEMMA ForwardedBase ==
  ASSUME BaseInv, MatchInv, NEW s \in Sock, Receives(s, "HANDSHAKE"), UNCHANGED <<faults, room>>,
         InRoom(s), NEW r, r = PeerOf(s), r # NoSock,
         sock' = [sock EXCEPT ![s].handshakeForwards = @ + 1],
         NEW f, f = [Notice("HANDSHAKE") EXCEPT !.from = s[1]], down' = Push(down, r, f)
  PROVE  BaseInv' /\ Forwards(s, r, f)
<1> DEFINE q == page[s[1]]
           k == [sock[s] EXCEPT !.handshakeForwards = @ + 1]
<1>1. /\ s[1] \in Page /\ s = Current(s[1]) /\ q.st # "IDLE" /\ sock[s].server = "open"
      /\ up[s] = <<"HANDSHAKE">> /\ up' = [up EXCEPT ![s] = <<>>] /\ page' = page
  BY ReceivesFacts
<1>2. /\ TypeOK /\ Line(q, sock[s], up[s]) /\ Queue(q, sock[s], up[s], down[s]) /\ Own(q)
      /\ sock[s] \in SocketState
  BY <1>1, LocalFacts
<1>3. sock[s].handshakeForwards = 0 /\ sock[s].paired = TRUE /\ q.role # "undefined" /\ q.sending = "done"
  BY <1>1, <1>2 DEF Line
<1>4. /\ Layout /\ room \in RoomState /\ Member(s)
  BY <1>2, SockFacts DEF BaseInv, RoomInv, TypeOK, InRoom, Member
<1>5. \/ room.initiator = s /\ r = room.joiner /\ r # s
      \/ room.joiner = s /\ r = room.initiator /\ r # s
  BY <1>4 DEF PeerOf, Member, Layout
<1>6. r \in Sock /\ Member(r) /\ room.state = "PAIRED" /\ sock[r].paired = TRUE /\ s[2] # r[2]
  BY <1>4, <1>5, SockFacts DEF RoomState, Layout, Member
<1>7. Seat(r) /\ r = Current(r[1]) /\ sock[r].server = "open" /\ up[r] # <<"HELLO">>
  BY <1>6 DEF BaseInv, RoomInv, Seat
<1>8. r[1] \in Page /\ page[r[1]].st # "IDLE"
  BY <1>6, <1>7, ServedIsCurrent
<1>9. /\ Line(page[r[1]], sock[r], up[r]) /\ Queue(page[r[1]], sock[r], up[r], down[r])
      /\ Own(page[r[1]]) /\ down[r] \in Seq(Frame) /\ page[r[1]] \in PageState
  BY <1>7, <1>8, LocalFacts
<1>10. Together(s[1], r[1])
  BY <1>1, <1>5, <1>7 DEF Together
<1>11. ASSUME NEW x \in Page, Heard(r[1], x) PROVE FALSE
  <2>1. Linked(r[1], x) /\ Linked(r[1], s[1])
    BY <1>10, <1>11 DEF Linked, Together
  <2>2. x = s[1]
    BY <1>1, <1>8, <2>1 DEF MatchInv, Matching
  <2>3. sock[s].handshakeForwards = 1
    BY <1>1, <1>8, <1>11, <2>2 DEF MatchInv, HeardInv
  <2>4. QED
    BY <1>3, <2>3
<1>12. /\ page[r[1]].inq = <<>> /\ page[r[1]].peer = NoPage
       /\ \A j \in 1..Len(down[r]) : down[r][j].type # "HANDSHAKE"
  <2>1. \A x \in Page : ~Hears(page[r[1]], down[r], x)
    BY <1>7, <1>11 DEF Heard
  <2>2. QED
    BY <1>9, <2>1, HearsNobody
<1>13. f \in Frame /\ f.type = "HANDSHAKE" /\ f.from = s[1] /\ f.from # NoPage
  BY <1>1, NoticeTyped, SockFacts DEF FrameType
<1>14. sock' = [sock EXCEPT ![s] = k]
  BY <1>2 DEF TypeOK
<1>15. /\ k \in SocketState /\ k.client = sock[s].client /\ k.server = sock[s].server
       /\ k.lost = sock[s].lost
       /\ k.paired = sock[s].paired /\ k.handshakeForwards = 1
  BY <1>2, <1>3 DEF SocketState, MAX_HANDSHAKE_FORWARDS
<1> HIDE DEF k
<1>16. /\ sock'[s] = k /\ sock' \in [Sock -> SocketState]
       /\ \A t \in Sock : t # s => sock'[t] = sock[t]
  BY <1>2, <1>14, <1>15 DEF TypeOK
<1>17. /\ up' \in [Sock -> {<<>>, <<"HELLO">>, <<"HANDSHAKE">>}]
       /\ up'[s] = <<>> /\ \A t \in Sock : t # s => up'[t] = up[t]
  BY <1>1, <1>2 DEF TypeOK
<1>18. Pushes(down', down, r, f)
  <2>1. down \in [Sock -> Seq(Frame)]
    BY <1>2 DEF TypeOK
  <2>2. QED
    BY <1>6, <1>13, <2>1, PushFacts
<1>19. /\ down' \in [Sock -> Seq(Frame)] /\ \A t \in Sock : t # r => down'[t] = down[t]
       /\ down'[r] = IF Reaches(r) THEN Append(down[r], f) ELSE down[r]
  BY <1>18 DEF Pushes
<1>20. TypeOK'
  BY <1>1, <1>2, <1>16, <1>17, <1>19 DEF TypeOK
<1>21. Stays(s[1])
  <2>1. Line(q, k, <<>>)
    BY <1>1, <1>2, <1>3, <1>15, UpFacts DEF Line
  <2>2. Queue(q, k, <<>>, down[s])
    BY <1>1, <1>2, <1>15, UpFacts, QueueServed
  <2>3. QED
    BY <1>1, <1>2, <1>5, <1>16, <1>17, <1>19, <2>1, <2>2 DEF Stays
<1>22. Stays(r[1])
  <2> DEFINE z == page[r[1]]
  <2>1. ASSUME Reaches(r) PROVE Queue(z, sock[r], up[r], Append(down[r], f))
    <3>1. Sendable(z, sock[r], down[r], f)
      BY <1>6, <1>7, <1>12, <1>13, <2>1 DEF Sendable, Seat
    <3>2. /\ Queue(z, sock[r], up[r], down[r]) /\ sock[r].server = "open"
          /\ up[r] # <<"HELLO">> /\ z.st # "IDLE" /\ f \in Frame /\ down[r] \in Seq(Frame)
      BY <1>7, <1>8, <1>9, <1>13
    <3>3. QED
      BY <3>1, <3>2, QueueAppend
  <2>2. Queue(z, sock[r], up[r], down'[r])
    BY <1>9, <1>19, <2>1
  <2>3. QED
    BY <1>1, <1>5, <1>6, <1>7, <1>9, <1>16, <1>17, <2>2 DEF Stays
<1>23. \A t \in Sock : t # s /\ t # r => Same(t)
  BY <1>16, <1>17, <1>19 DEF Same
<1>24. \A x \in Page : Local(x)'
  BY <1>1, <1>6, <1>7, <1>8, <1>21, <1>22, <1>23, TwoPages
<1>25. Seat(r)'
  <2>1. up'[r] = up[r] /\ sock'[r] = sock[r] /\ page' = page
    BY <1>1, <1>5, <1>6, <1>16, <1>17
  <2>2. QED
    BY <1>6, <1>13, <1>19, <2>1, SeatPush
<1>26. Seat(s)'
  BY <1>1, <1>3, <1>15, <1>16, <1>17, UpFacts DEF Seat, Current
<1>27. \A t \in Sock : Member(t) => t = s \/ t = r
  BY <1>5 DEF Member
<1>28. \A t \in Sock : Member(t) => sock'[t].paired = sock[t].paired /\ Seat(t)'
  BY <1>5, <1>15, <1>16, <1>25, <1>26, <1>27
<1>29. RoomInv'
  BY <1>4, <1>28, RoomKept DEF BaseInv
<1>30. BaseInv'
  BY <1>20, <1>24, <1>29 DEF BaseInv
<1>31. down'[r] \in {down[r], Append(down[r], f)} /\ down'[s] = down[s] /\ sock'[r] = sock[r] /\ r # s
  BY <1>5, <1>6, <1>16, <1>19
<1>32. \A t \in Sock : /\ sock'[t].client = sock[t].client /\ sock'[t].server = sock[t].server
                       /\ sock'[t].lost = sock[t].lost
  BY <1>15, <1>16
<1>33. QED
  BY <1>1, <1>6, <1>7, <1>8, <1>9, <1>10, <1>11, <1>13, <1>15, <1>16, <1>23, <1>30, <1>31, <1>32
  DEF Forwards

\* Nobody sends a HANDSHAKE before it is paired, or two.
LEMMA ForwardCases ==
  ASSUME BaseInv, NEW s \in Sock, ForwardHandshake(s)
  PROVE  /\ Receives(s, "HANDSHAKE") /\ UNCHANGED faults
         /\ \/ ~InRoom(s) /\ ErrorAndClose(s, "ROOM_NOT_FOUND")
            \/ InRoom(s) /\ PeerOf(s) = NoSock /\ UNCHANGED <<sock, down, room>>
            \/ /\ InRoom(s) /\ PeerOf(s) # NoSock
               /\ sock' = [sock EXCEPT ![s].handshakeForwards = @ + 1]
               /\ down' = Push(down, PeerOf(s), [Notice("HANDSHAKE") EXCEPT !.from = s[1]])
               /\ UNCHANGED room
<1>1. Receives(s, "HANDSHAKE") /\ UNCHANGED faults
  BY DEF ForwardHandshake
<1>2. s[1] \in Page /\ s = Current(s[1]) /\ up[s] = <<"HANDSHAKE">>
  BY <1>1, ReceivesFacts
<1>3. Line(page[s[1]], sock[s], up[s])
  BY <1>2, LocalFacts
<1>4. sock[s].paired = TRUE /\ sock[s].handshakeForwards = 0
  BY <1>2, <1>3 DEF Line
<1>5. sock[s].handshakeForwards # MAX_HANDSHAKE_FORWARDS /\ sock[s].paired
  BY <1>4 DEF MAX_HANDSHAKE_FORWARDS
<1>6. QED
  BY <1>1, <1>5 DEF ForwardHandshake

LEMMA ForwardBase ==
  ASSUME BaseInv, MatchInv, NEW s \in Sock, ForwardHandshake(s)
  PROVE  BaseInv'
<1>1. Receives(s, "HANDSHAKE") /\ UNCHANGED faults
  BY DEF ForwardHandshake
<1>2. /\ s[1] \in Page /\ s = Current(s[1]) /\ page[s[1]].st # "IDLE" /\ sock[s].server = "open"
      /\ up[s] = <<"HANDSHAKE">> /\ up' = [up EXCEPT ![s] = <<>>] /\ page' = page
  BY <1>1, ReceivesFacts
<1>3. /\ TypeOK /\ Line(page[s[1]], sock[s], up[s]) /\ Queue(page[s[1]], sock[s], up[s], down[s])
  BY <1>2, LocalFacts
<1>4. CASE ~InRoom(s) /\ ErrorAndClose(s, "ROOM_NOT_FOUND")
  <2>1. faults' \in Seq(Faults) /\ Len(faults') <= MaxFaults /\ "ROOM_NOT_FOUND" \in ErrorCode
    BY <1>1, <1>3 DEF TypeOK, ErrorCode
  <2>2. QED
    BY <1>2, <1>4, <2>1, ErrorBase
<1>5. CASE InRoom(s) /\ PeerOf(s) = NoSock /\ UNCHANGED <<sock, down, room>>
  <2>1. /\ up' \in [Sock -> {<<>>, <<"HELLO">>, <<"HANDSHAKE">>}]
        /\ up'[s] = <<>> /\ \A t \in Sock : t # s => up'[t] = up[t]
    BY <1>2, <1>3 DEF TypeOK
  <2>2. TypeOK'
    BY <1>1, <1>2, <1>3, <1>5, <2>1 DEF TypeOK
  <2>3. Line(page[s[1]], sock[s], <<>>)
    BY <1>2, <1>3, UpFacts DEF Line
  <2>4. Queue(page[s[1]], sock[s], <<>>, down[s])
    BY <1>2, <1>3, UpFacts, QueueServed
  <2>5. \A t \in Sock : t # s => Same(t)
    BY <1>5, <2>1 DEF Same
  <2>6. \A x \in Page : Local(x)'
    BY <1>2, <1>5, <2>1, <2>3, <2>4, <2>5, ServerLocal
  <2>7. ASSUME NEW t \in Sock, Member(t) PROVE sock'[t].paired = sock[t].paired /\ Seat(t)'
    <3>1. Seat(t)
      BY <2>7 DEF BaseInv, RoomInv
    <3>2. up'[t] # <<"HELLO">>
      BY <2>1, <3>1, UpFacts DEF Seat
    <3>3. QED
      BY <1>2, <1>5, <3>1, <3>2 DEF Seat, Reaches, Current
  <2>8. RoomInv'
    BY <1>3, <1>5, <2>7, RoomKept DEF BaseInv, TypeOK
  <2>9. QED
    BY <2>2, <2>6, <2>8 DEF BaseInv
<1>6. CASE /\ InRoom(s) /\ PeerOf(s) # NoSock
           /\ sock' = [sock EXCEPT ![s].handshakeForwards = @ + 1]
           /\ down' = Push(down, PeerOf(s), [Notice("HANDSHAKE") EXCEPT !.from = s[1]])
           /\ UNCHANGED room
  BY <1>1, <1>6, ForwardedBase
<1>7. QED
  BY <1>4, <1>5, <1>6, ForwardCases

-----------------------------------------------------------------------------
(* Who hears whom                                                          *)

Quiet(d, e) ==
  \/ e = d \/ e = <<>>
  \/ d # <<>> /\ e = Tail(d)
  \/ \E f \in Frame : f.type # "HANDSHAKE" /\ e = Append(d, f)

\* A page hears nobody new when nothing but a HANDSHAKE could tell it.
LEMMA HearsLess ==
  ASSUME NEW q, NEW n, NEW d \in Seq(Frame), NEW e, Quiet(d, e), NEW x \in Page, Hears(n, e, x),
         n.peer = q.peer \/ (q.inq = <<n.peer>>),
         n.inq = q.inq \/ n.inq = <<>>
            \/ (d # <<>> /\ Head(d).type = "HANDSHAKE" /\ n.inq = <<Head(d).from>>)
  PROVE  Hears(q, d, x)
<1>1. \A a, b : <<a>> = <<b>> => a = b
  OBVIOUS
<1>2. CASE n.peer = x
  BY <1>2 DEF Hears
<1>3. CASE n.inq = <<x>>
  <2>1. CASE n.inq = q.inq
    BY <1>3, <2>1 DEF Hears
  <2>2. CASE d # <<>> /\ Head(d).type = "HANDSHAKE" /\ n.inq = <<Head(d).from>>
    <3>1. 1 \in 1..Len(d) /\ Head(d) = d[1]
      BY <2>2
    <3>2. Head(d).from = x
      BY <1>1, <1>3, <2>2
    <3>3. QED
      BY <2>2, <3>1, <3>2 DEF Hears
  <2>3. QED
    BY <1>3, <2>1, <2>2
<1>4. CASE \E i \in 1..Len(e) : e[i].type = "HANDSHAKE" /\ e[i].from = x
  <2>1. PICK i \in 1..Len(e) : e[i].type = "HANDSHAKE" /\ e[i].from = x
    BY <1>4
  <2>2. CASE e = d
    BY <2>1, <2>2 DEF Hears
  <2>3. CASE e = <<>>
    BY <2>1, <2>3
  <2>4. CASE d # <<>> /\ e = Tail(d)
    <3>1. i + 1 \in 1..Len(d) /\ d[i + 1] = e[i]
      BY <2>1, <2>4
    <3>2. QED
      BY <2>1, <3>1 DEF Hears
  <2>5. CASE \E f \in Frame : f.type # "HANDSHAKE" /\ e = Append(d, f)
    <3>1. PICK f \in Frame : f.type # "HANDSHAKE" /\ e = Append(d, f)
      BY <2>5
    <3>2. \/ i \in 1..Len(d) /\ e[i] = d[i]
          \/ e[i] = f
      BY <3>1
    <3>3. QED
      BY <2>1, <3>1, <3>2 DEF Hears
  <2>6. QED
    BY <2>2, <2>3, <2>4, <2>5 DEF Quiet
<1>5. QED
  BY <1>2, <1>3, <1>4 DEF Hears

\* Two pages together sit in both places of the room.
LEMMA TogetherLess ==
  ASSUME TypeOK, \A x \in Page : page'[x].intentTried = page[x].intentTried,
         room' = room \/ room'.initiator = NoSock \/ room'.joiner = NoSock
  PROVE  \A p, x \in Page : Together(p, x)' => Together(p, x)
<1>1. \A p \in Page : Current(p)' = Current(p) /\ Current(p) # NoSock
  BY CurrentSock, SockFacts DEF Current
<1>2. QED
  BY <1>1 DEF Together

\* No new link, and no page's intent, pairing or forwarding changed.
LEMMA MatchKept ==
  ASSUME MatchInv,
         \A p, x \in Page : Heard(p, x)' => Heard(p, x),
         \A p, x \in Page : Together(p, x)' => Together(p, x),
         \A x \in Page : \/ /\ Current(x)' = Current(x)
                            /\ page'[x].intentTried = page[x].intentTried
                            /\ sock'[Current(x)].paired = sock[Current(x)].paired
                            /\ sock'[Current(x)].handshakeForwards = sock[Current(x)].handshakeForwards
                         \/ \A y \in Page : ~Heard(x, y) /\ ~Heard(y, x)
  PROVE  MatchInv'
<1>1. HeardInv'
  <2> SUFFICES ASSUME NEW p \in Page, NEW x \in Page, Heard(p, x)'
               PROVE  /\ p # x /\ page'[p].intentTried # page'[x].intentTried
                      /\ sock'[Current(p)'].paired = TRUE
                      /\ sock'[Current(x)'].handshakeForwards = 1
    BY DEF HeardInv
  <2>1. Heard(p, x)
    OBVIOUS
  <2>2. /\ p # x /\ page[p].intentTried # page[x].intentTried
        /\ sock[Current(p)].paired = TRUE /\ sock[Current(x)].handshakeForwards = 1
    BY <2>1 DEF MatchInv, HeardInv
  <2>3. QED
    BY <2>1, <2>2
<1>2. \A p, x \in Page : Linked(p, x)' => Linked(p, x)
  BY DEF Linked
<1>3. Matching'
  BY <1>2 DEF MatchInv, Matching
<1>4. QED
  BY <1>1, <1>3 DEF MatchInv

\* A step of a page.
LEMMA MatchPage ==
  ASSUME BaseInv, MatchInv, NEW p \in Page, NEW n, page' = [page EXCEPT ![p] = n], room' = room,
         n.intentTried = page[p].intentTried,
         \A t \in Sock : /\ sock'[t].paired = sock[t].paired
                         /\ sock'[t].handshakeForwards = sock[t].handshakeForwards,
         \A t \in Sock : t # Current(p) => down'[t] = down[t],
         Quiet(down[Current(p)], down'[Current(p)]),
         n.peer = page[p].peer \/ page[p].inq = <<n.peer>>,
         n.inq = page[p].inq \/ n.inq = <<>>
            \/ (/\ down[Current(p)] # <<>> /\ Head(down[Current(p)]).type = "HANDSHAKE"
                /\ n.inq = <<Head(down[Current(p)]).from>>)
  PROVE  MatchInv'
<1>1. TypeOK
  BY DEF BaseInv
<1>2. page'[p] = n /\ \A x \in Page : x # p => page'[x] = page[x]
  BY <1>1 DEF TypeOK
<1>3. \A x \in Page : /\ Current(x)' = Current(x) /\ Current(x) \in Sock /\ down[Current(x)] \in Seq(Frame)
                      /\ page'[x].intentTried = page[x].intentTried
  BY <1>1, <1>2, CurrentSock DEF Current
<1>4. ASSUME NEW y \in Page, NEW x \in Page, Heard(y, x)' PROVE Heard(y, x)
  <2>1. Hears(page'[y], down'[Current(y)], x) /\ Current(y) \in Sock
    BY <1>3, <1>4 DEF Heard
  <2>2. CASE y = p
    <3>1. Hears(n, down'[Current(p)], x)
      BY <1>2, <2>1, <2>2
    <3>2. Hears(page[p], down[Current(p)], x)
      BY <1>3, <3>1, HearsLess
    <3>3. QED
      BY <2>2, <3>2 DEF Heard
  <2>3. CASE y # p
    <3>1. Current(y) # Current(p)
      BY <1>1, <2>3, CurrentSock
    <3>2. down'[Current(y)] = down[Current(y)]
      BY <2>1, <3>1
    <3>3. QED
      BY <1>2, <2>1, <2>3, <3>2 DEF Heard
  <2>4. QED
    BY <2>2, <2>3
<1>5. \A y, x \in Page : Together(y, x)' => Together(y, x)
  BY <1>1, <1>3, TogetherLess
<1>6. QED
  BY <1>3, <1>4, <1>5, MatchKept

\* A step of the server or the network that forwards nothing.
LEMMA MatchServer ==
  ASSUME BaseInv, MatchInv, page' = page,
         room' = room \/ room'.initiator = NoSock \/ room'.joiner = NoSock,
         \A t \in Sock : /\ sock'[t].paired = sock[t].paired
                         /\ sock'[t].handshakeForwards = sock[t].handshakeForwards,
         \A t \in Sock : Quiet(down[t], down'[t])
  PROVE  MatchInv'
<1>1. TypeOK
  BY DEF BaseInv
<1>2. \A x \in Page : /\ Current(x)' = Current(x) /\ Current(x) \in Sock /\ down[Current(x)] \in Seq(Frame)
                      /\ page'[x].intentTried = page[x].intentTried
  BY <1>1, CurrentSock DEF Current
<1>3. ASSUME NEW y \in Page, NEW x \in Page, Heard(y, x)' PROVE Heard(y, x)
  <2>1. Hears(page[y], down'[Current(y)], x) /\ Quiet(down[Current(y)], down'[Current(y)])
    BY <1>2, <1>3 DEF Heard
  <2>2. Hears(page[y], down[Current(y)], x)
    BY <1>2, <2>1, HearsLess
  <2>3. QED
    BY <2>2 DEF Heard
<1>4. \A y, x \in Page : Together(y, x)' => Together(y, x)
  BY <1>1, <1>2, TogetherLess
<1>5. QED
  BY <1>2, <1>3, <1>4, MatchKept

\* The page alone: nothing arrives.
LEMMA MatchAlone ==
  ASSUME BaseInv, MatchInv, NEW p \in Page, NEW n, page' = [page EXCEPT ![p] = n],
         UNCHANGED <<sock, down, room>>, n.intentTried = page[p].intentTried,
         n.peer = page[p].peer \/ page[p].inq = <<n.peer>>,
         n.inq = page[p].inq \/ n.inq = <<>>
  PROVE  MatchInv'
BY MatchPage DEF Quiet

LEMMA TerminateMatch ==
  ASSUME BaseInv, MatchInv, NEW p \in Page, NEW x \in Reason, Terminate(p, x), room' = room,
         \/ down' = down
         \/ down[Current(p)] # <<>> /\ down' = [down EXCEPT ![Current(p)] = Tail(@)]
  PROVE  MatchInv'
<1> DEFINE c == Current(p)
           n == EndedAs(page[p], x)
           l == [sock[c] EXCEPT !.client = "closed"]
<1>1. TypeOK /\ page[p] \in PageState /\ c \in Sock /\ sock[c] \in SocketState
  BY LocalFacts
<1>2. page' = [page EXCEPT ![p] = n] /\ sock' = [sock EXCEPT ![c] = l]
  BY <1>1 DEF Terminate, TypeOK
<1>3. n.inq = <<>> /\ n.intentTried = page[p].intentTried /\ n.peer = page[p].peer
  BY <1>1, EndedTyped
<1>4. l.paired = sock[c].paired /\ l.handshakeForwards = sock[c].handshakeForwards
  BY <1>1, ClientTyped
<1> HIDE DEF n, l
<1>5. \A t \in Sock : /\ sock'[t].paired = sock[t].paired
                      /\ sock'[t].handshakeForwards = sock[t].handshakeForwards
  BY <1>1, <1>2, <1>4 DEF TypeOK
<1>6. Quiet(down[c], down'[c]) /\ \A t \in Sock : t # c => down'[t] = down[t]
  <2>1. CASE down' = down
    BY <2>1 DEF Quiet
  <2>2. CASE down[c] # <<>> /\ down' = [down EXCEPT ![c] = Tail(@)]
    BY <1>1, <2>2 DEF Quiet, TypeOK
  <2>3. QED
    BY <2>1, <2>2
<1>7. QED
  BY <1>2, <1>3, <1>5, <1>6, MatchPage

LEMMA EphemeralReadyMatch ==
  ASSUME BaseInv, MatchInv, NEW p \in Page, EphemeralReady(p)
  PROVE  MatchInv'
<1> DEFINE n == [page[p] EXCEPT !.ephemeral = "ready", !.sending = "wrap",
                               !.handling = IF @ = "key" THEN "derive" ELSE @]
<1>1. TypeOK /\ page[p] \in PageState
  BY LocalFacts
<1>2. page' = [page EXCEPT ![p] = n] /\ UNCHANGED <<sock, down, room>>
  BY <1>1 DEF EphemeralReady, TypeOK
<1>3. n.intentTried = page[p].intentTried /\ n.peer = page[p].peer /\ n.inq = page[p].inq
  BY <1>1 DEF PageState
<1> HIDE DEF n
<1>4. QED
  BY <1>2, <1>3, MatchAlone

LEMMA HandshakeWrappedMatch ==
  ASSUME BaseInv, MatchInv, NEW p \in Page, HandshakeWrapped(p)
  PROVE  MatchInv'
<1> DEFINE n == [page[p] EXCEPT !.sending = "done",
                  !.st = IF @ \in {"CONNECTING", "WAITING_FOR_PEER"} THEN "HANDSHAKING" ELSE @]
<1>1. TypeOK /\ page[p] \in PageState
  BY LocalFacts
<1>2. page' = [page EXCEPT ![p] = n] /\ UNCHANGED <<sock, down, room>>
  BY <1>1 DEF HandshakeWrapped, TypeOK
<1>3. n.intentTried = page[p].intentTried /\ n.peer = page[p].peer /\ n.inq = page[p].inq
  BY <1>1 DEF PageState
<1> HIDE DEF n
<1>4. QED
  BY <1>2, <1>3, MatchAlone

LEMMA HandshakeCompletesMatch ==
  ASSUME BaseInv, MatchInv, NEW p \in Page, HandshakeCompletes(p)
  PROVE  MatchInv'
<1> DEFINE n == Derived(page[p])
<1>1. TypeOK /\ page[p] \in PageState /\ Own(page[p])
  BY LocalFacts
<1>2. page' = [page EXCEPT ![p] = n] /\ UNCHANGED <<sock, down, room>>
  BY <1>1 DEF HandshakeCompletes, TypeOK
<1>3. page[p].inq # <<>>
  BY <1>1 DEF HandshakeCompletes, Own
<1>4. n.intentTried = page[p].intentTried /\ n.peer = Head(page[p].inq) /\ n.inq = Tail(page[p].inq)
  BY <1>1, <1>3, DerivedTyped
<1>5. page[p].inq = <<n.peer>> /\ n.inq = <<>>
  BY <1>1, <1>3, <1>4, OnlyOne
<1> HIDE DEF n
<1>6. QED
  BY <1>2, <1>4, <1>5, MatchAlone

LEMMA HandleHandshakeMatch ==
  ASSUME BaseInv, MatchInv, NEW p \in Page, HandleHandshake(p)
  PROVE  MatchInv'
<1> DEFINE m == SendLocalHandshake(page[p])
           next == [none |-> [m EXCEPT !.handling = "key"],
                    ready |-> [m EXCEPT !.handling = "derive"],
                    failed |-> [m EXCEPT !.inq = Tail(@)]]
           n == next[m.ephemeral]
<1>1. TypeOK /\ page[p] \in PageState /\ Own(page[p])
  BY LocalFacts
<1>2. page[p].inq # <<>>
  BY DEF HandleHandshake
<1>3. CASE page[p].st = "ACTIVE" /\ Terminate(p, "handshake_unexpected") /\ UNCHANGED <<down, room>>
  <2>1. "handshake_unexpected" \in Reason
    BY DEF Reason
  <2>2. QED
    BY <1>3, <2>1, TerminateMatch
<1>4. CASE page' = [page EXCEPT ![p] = n] /\ UNCHANGED <<sock, down, room>>
  <2>1. /\ m \in PageState /\ m.intentTried = page[p].intentTried /\ m.inq = page[p].inq
        /\ m.peer = page[p].peer
    BY <1>1, SendTyped
  <2> HIDE DEF m
  <2>2. m.ephemeral \in {"none", "ready", "failed"} /\ Tail(m.inq) = <<>>
    BY <1>1, <1>2, <2>1, OnlyOne DEF PageState
  <2>3. /\ next["none"] = [m EXCEPT !.handling = "key"]
        /\ next["ready"] = [m EXCEPT !.handling = "derive"]
        /\ next["failed"] = [m EXCEPT !.inq = Tail(@)]
    OBVIOUS
  <2> HIDE DEF next
  <2>4. \/ n = [m EXCEPT !.handling = "key"] \/ n = [m EXCEPT !.handling = "derive"]
        \/ n = [m EXCEPT !.inq = Tail(@)]
    BY <2>2, <2>3
  <2> HIDE DEF n
  <2>5. /\ n.intentTried = m.intentTried /\ n.peer = m.peer
        /\ n.inq = m.inq \/ n.inq = <<>>
    BY <2>1, <2>2, <2>4 DEF PageState
  <2>6. QED
    BY <1>4, <2>1, <2>5, MatchAlone
<1>5. QED
  BY <1>3, <1>4 DEF HandleHandshake

LEMMA HandshakeFailsMatch ==
  ASSUME BaseInv, MatchInv, NEW p \in Page, HandshakeFails(p)
  PROVE  MatchInv'
<1> DEFINE q == page[p]
<1>1. TypeOK /\ q \in PageState /\ Own(q)
  BY LocalFacts
<1>2. UNCHANGED <<down, room>>
  BY DEF HandshakeFails
<1>3. CASE /\ q.sending = "key" /\ UNCHANGED sock
           /\ page' = [page EXCEPT ![p].ephemeral = "failed", ![p].sending = "failed",
                                   ![p].inq = IF page[p].handling = "key" THEN Tail(@) ELSE @,
                                   ![p].handling = "no"]
  <2> DEFINE e == IF q.handling = "key" THEN Tail(q.inq) ELSE q.inq
             n == [q EXCEPT !.ephemeral = "failed", !.sending = "failed", !.inq = e,
                            !.handling = "no"]
  <2>1. page' = [page EXCEPT ![p] = n]
    BY <1>1, <1>3 DEF TypeOK
  <2>2. q.handling = "key" => Tail(q.inq) = <<>>
    BY <1>1, OnlyOne DEF Own
  <2>3. e = q.inq \/ e = <<>>
    BY <2>2
  <2> HIDE DEF e
  <2>4. n.intentTried = q.intentTried /\ n.peer = q.peer /\ n.inq = e
    BY <1>1 DEF PageState
  <2> HIDE DEF n
  <2>5. QED
    BY <1>2, <1>3, <2>1, <2>3, <2>4, MatchAlone
<1>4. CASE q.sending = "wrap" /\ page' = [page EXCEPT ![p].sending = "failed"] /\ UNCHANGED sock
  <2> DEFINE n == [q EXCEPT !.sending = "failed"]
  <2>1. page' = [page EXCEPT ![p] = n]
    BY <1>1, <1>4 DEF TypeOK
  <2>2. n.inq = q.inq /\ n.intentTried = q.intentTried /\ n.peer = q.peer
    BY <1>1 DEF PageState
  <2> HIDE DEF n
  <2>3. QED
    BY <1>2, <1>4, <2>1, <2>2, MatchAlone
<1>5. CASE q.handling = "derive" /\ Terminate(p, "handshake_failed")
  <2>1. "handshake_failed" \in Reason
    BY DEF Reason
  <2>2. QED
    BY <1>2, <1>5, <2>1, TerminateMatch
<1>6. QED
  BY <1>3, <1>4, <1>5 DEF HandshakeFails

LEMMA LeaveMatch ==
  ASSUME BaseInv, MatchInv, NEW p \in Page, Leave(p)
  PROVE  MatchInv'
<1>1. "user_panic" \in Reason
  BY DEF Reason
<1>2. QED
  BY <1>1, TerminateMatch DEF Leave

LEMMA StartMatch ==
  ASSUME BaseInv, MatchInv, NEW p \in Page, Start(p)
  PROVE  MatchInv'
<1> DEFINE n == [page[p] EXCEPT !.st = "CONNECTING"]
           c == <<p, "create">>
           l == [sock[c] EXCEPT !.client = "open", !.server = "open"]
<1>1. TypeOK /\ page[p] \in PageState /\ c \in Sock
  BY LocalFacts, SockFacts
<1>2. sock[c] \in SocketState
  BY <1>1 DEF TypeOK
<1>3. /\ page' = [page EXCEPT ![p] = n] /\ sock' = [sock EXCEPT ![c] = l] /\ UNCHANGED <<down, room>>
  BY <1>1 DEF Start, OpenWith, TypeOK
<1>4. n.intentTried = page[p].intentTried /\ n.peer = page[p].peer /\ n.inq = page[p].inq
  BY <1>1 DEF PageState
<1>5. l.paired = sock[c].paired /\ l.handshakeForwards = sock[c].handshakeForwards
  BY <1>2, OpenTyped
<1> HIDE DEF n, l
<1>6. \A t \in Sock : /\ sock'[t].paired = sock[t].paired
                      /\ sock'[t].handshakeForwards = sock[t].handshakeForwards
  BY <1>1, <1>3, <1>5 DEF TypeOK
<1>7. QED
  BY <1>3, <1>4, <1>6, MatchPage DEF Quiet

LEMMA ReopenMatch ==
  ASSUME BaseInv, MatchInv, NEW p \in Page, Arrives(Current(p), "ROOM_ALREADY_EXISTS"),
         page' = [page EXCEPT ![p].st = "CONNECTING", ![p].intentTried = "join"],
         OpenWith(<<p, "join">>, [sock EXCEPT ![Current(p)].client = "closing"])
  PROVE  MatchInv'
<1>1. /\ BaseInv' /\ Current(p) = <<p, "create">> /\ page'[p].intentTried = "join"
      /\ down[Current(p)] = <<Head(down[Current(p)])>>
      /\ sock[Current(p)].handshakeForwards = 0 /\ down'[<<p, "join">>] = <<>>
      /\ page[p].inq = <<>> /\ page[p].peer = NoPage
      /\ page'[p].inq = <<>> /\ page'[p].peer = NoPage
      /\ \A s \in Sock : s[1] # p => Same(s)
      /\ \A x \in Page : x # p => page'[x] = page[x]
  BY ReopenBase
<1>2. TypeOK /\ room' = room
  BY DEF BaseInv, Arrives
<1>3. Head(down[Current(p)]).type = "ROOM_ALREADY_EXISTS"
  BY DEF Arrives
<1>4. ASSUME NEW x \in Page PROVE ~Heard(p, x) /\ ~Heard(x, p)
  <2>1. ~Heard(p, x)
    <3>0. PICK h : h = Head(down[Current(p)]) /\ down[Current(p)] = <<h>>
      BY <1>1
    <3>1. Len(down[Current(p)]) = 1 /\ down[Current(p)][1] = Head(down[Current(p)])
      <4>1. Len(<<h>>) = 1 /\ <<h>>[1] = h
        OBVIOUS
      <4>2. QED
        BY <3>0, <4>1
    <3>2. x # NoPage
      BY SockFacts
    <3>3. \A i \in 1..Len(down[Current(p)]) : down[Current(p)][i].type # "HANDSHAKE"
      BY <1>3, <3>1
    <3>4. QED
      BY <1>1, <3>2, <3>3 DEF Heard, Hears
  <2>2. ~Heard(x, p)
    BY <1>1 DEF MatchInv, HeardInv
  <2>3. QED
    BY <2>1, <2>2
<1>5. ASSUME NEW x \in Page, x # p
      PROVE  /\ Current(x)' = Current(x) /\ Same(Current(x)) /\ page'[x] = page[x]
  BY <1>1, <1>2, <1>5, CurrentSock DEF Current
<1>6. Current(p)' = <<p, "join">> /\ <<p, "join">> # NoSock
  BY <1>1, SockFacts DEF Current
<1>7. ASSUME NEW y \in Page, NEW x \in Page, Heard(y, x)' PROVE Heard(y, x)
  <2>1. CASE y = p
    <3>1. Hears(page'[p], <<>>, x)
      BY <1>1, <1>6, <1>7, <2>1 DEF Heard
    <3>2. x # NoPage /\ <<x>> # <<>> /\ ~\E i \in 1..Len(<<>>) : TRUE
      BY SockFacts
    <3>3. page'[p].peer # x /\ page'[p].inq # <<x>>
      BY <1>1, <3>2
    <3>4. QED
      BY <3>1, <3>2, <3>3 DEF Hears
  <2>2. CASE y # p
    BY <1>5, <1>7, <2>2 DEF Heard, Same
  <2>3. QED
    BY <2>1, <2>2
<1>8. ~Member(<<p, "join">>)
  BY <1>1, NotMember, SockFacts
<1>9. ASSUME NEW y \in Page, NEW x \in Page, Together(y, x)' PROVE Together(y, x)
  <2>1. y # p /\ x # p
    BY <1>2, <1>6, <1>8, <1>9 DEF Together, Member
  <2>2. QED
    BY <1>2, <1>5, <1>9, <2>1 DEF Together
<1>10. QED
  BY <1>4, <1>5, <1>7, <1>9, MatchKept DEF Same

LEMMA ArriveMatch ==
  ASSUME BaseInv, MatchInv, NEW p \in Page, Arrive(p)
  PROVE  MatchInv'
<1> DEFINE q == page[p]
           c == Current(p)
           f == Head(down[c])
<1>1. TypeOK /\ q \in PageState /\ c \in Sock /\ Own(q)
  BY LocalFacts
<1>2. ASSUME NEW type, Arrives(c, type)
      PROVE  /\ down[c] # <<>> /\ f.type = type /\ UNCHANGED room
             /\ down' = [down EXCEPT ![c] = Tail(@)]
             /\ Quiet(down[c], down'[c]) /\ \A t \in Sock : t # c => down'[t] = down[t]
  <2>1. /\ down[c] # <<>> /\ f.type = type /\ UNCHANGED room /\ down' = [down EXCEPT ![c] = Tail(@)]
    BY <1>2 DEF Arrives
  <2>2. QED
    BY <1>1, <2>1 DEF Quiet, TypeOK
<1>3. ASSUME NEW type, Arrives(c, type), NEW n, page' = [page EXCEPT ![p] = n], UNCHANGED sock,
             n.intentTried = q.intentTried, n.peer = q.peer,
             n.inq = q.inq \/ (f.type = "HANDSHAKE" /\ n.inq = <<f.from>>)
      PROVE  MatchInv'
  <2>1. /\ down[c] # <<>> /\ UNCHANGED room
        /\ Quiet(down[c], down'[c]) /\ \A t \in Sock : t # c => down'[t] = down[t]
    BY <1>2, <1>3
  <2>2. QED
    BY <1>3, <2>1, MatchPage
<1>4. CASE Arrives(c, "PEER_DISCONNECTED") /\ Terminate(p, "peer_gone")
  <2>1. "peer_gone" \in Reason
    BY DEF Reason
  <2>2. QED
    BY <1>2, <1>4, <2>1, TerminateMatch
<1>5. CASE \E code \in ErrorCode \ {"ROOM_ALREADY_EXISTS"} : Arrives(c, code) /\ Terminate(p, code)
  <2>1. PICK code \in ErrorCode : Arrives(c, code) /\ Terminate(p, code)
    BY <1>5
  <2>2. code \in Reason
    BY DEF Reason
  <2>3. QED
    BY <1>2, <2>1, <2>2, TerminateMatch
<1>6. CASE /\ Arrives(c, "ACK")
           /\ page' = [page EXCEPT ![p] =
             IF f.role = "initiator" THEN [@ EXCEPT !.role = f.role, !.st = "WAITING_FOR_PEER"]
             ELSE SendLocalHandshake([@ EXCEPT !.role = f.role])]
           /\ UNCHANGED <<sock, up>>
  <2>1. f \in Frame /\ sock[c].client = "open" /\ down[c] # <<>> /\ f.type = "ACK"
        /\ Expected(q, sock[c], down[c], 1) /\ down[c][1] = f
    BY <1>6, FirstFrame DEF Arrives
  <2>2. f.role \in Role
    BY <2>1 DEF Expected, RoleOf, Role
  <2> HIDE DEF f
  <2>3. CASE f.role = "initiator"
    <3> DEFINE n == [q EXCEPT !.role = f.role, !.st = "WAITING_FOR_PEER"]
    <3>1. page' = [page EXCEPT ![p] = n]
      BY <1>6, <2>3 DEF f
    <3>2. n.intentTried = q.intentTried /\ n.peer = q.peer /\ n.inq = q.inq
      BY <1>1 DEF PageState
    <3> HIDE DEF n
    <3>3. QED
      BY <1>3, <1>6, <3>1, <3>2
  <2>4. CASE f.role # "initiator"
    <3> DEFINE m == [q EXCEPT !.role = f.role]
               n == SendLocalHandshake(m)
    <3>1. page' = [page EXCEPT ![p] = n]
      BY <1>6, <2>4 DEF f
    <3>2. /\ m \in PageState /\ m.intentTried = q.intentTried /\ m.inq = q.inq /\ m.peer = q.peer
      BY <1>1, <2>2 DEF PageState
    <3> HIDE DEF m
    <3>3. n.intentTried = m.intentTried /\ n.inq = m.inq /\ n.peer = m.peer
      BY <3>2, SendTyped
    <3> HIDE DEF n
    <3>4. QED
      BY <1>3, <1>6, <3>1, <3>2, <3>3
  <2>5. QED
    BY <2>3, <2>4
<1>7. CASE /\ Arrives(c, "PEER_JOINED")
           /\ page' = [page EXCEPT ![p] = IF @.st = "ACTIVE" THEN @ ELSE SendLocalHandshake(@)]
           /\ UNCHANGED <<sock, up>>
  <2> DEFINE n == IF q.st = "ACTIVE" THEN q ELSE SendLocalHandshake(q)
  <2>1. page' = [page EXCEPT ![p] = n]
    BY <1>1, <1>7 DEF TypeOK
  <2>2. n.intentTried = q.intentTried /\ n.inq = q.inq /\ n.peer = q.peer
    BY <1>1, SendTyped
  <2> HIDE DEF n
  <2>3. QED
    BY <1>3, <1>7, <2>1, <2>2
<1>8. CASE /\ Arrives(c, "HANDSHAKE")
           /\ page' = [page EXCEPT ![p].inq = Append(@, f.from)]
           /\ UNCHANGED <<sock, up>>
  <2> DEFINE n == [q EXCEPT !.inq = <<f.from>>]
  <2>1. /\ Expected(q, sock[c], down[c], 1) /\ down[c][1] = f /\ f.type = "HANDSHAKE" /\ f \in Frame
    BY <1>8, FirstFrame DEF Arrives
  <2>2. q.inq = <<>> /\ f.type = "HANDSHAKE"
    BY <2>1 DEF Expected
  <2>3. Append(q.inq, f.from) = <<f.from>>
    BY <2>2
  <2>4. page' = [page EXCEPT ![p] = [q EXCEPT !.inq = Append(q.inq, f.from)]]
    BY <1>1, <1>8 DEF TypeOK
  <2>5. page' = [page EXCEPT ![p] = n]
    BY <2>3, <2>4
  <2>6. n.intentTried = q.intentTried /\ n.inq = <<f.from>> /\ n.peer = q.peer
    BY <1>1 DEF PageState
  <2> HIDE DEF n
  <2>7. QED
    BY <1>3, <1>8, <2>2, <2>5, <2>6
<1>9. CASE /\ Arrives(c, "ROOM_ALREADY_EXISTS")
           /\ page' = [page EXCEPT ![p].st = "CONNECTING", ![p].intentTried = "join"]
           /\ OpenWith(<<p, "join">>, [sock EXCEPT ![c].client = "closing"])
  BY <1>9, ReopenMatch
<1>10. QED
  BY <1>4, <1>5, <1>6, <1>7, <1>8, <1>9 DEF Arrive

LEMMA SocketClosesMatch ==
  ASSUME BaseInv, MatchInv, NEW s \in Sock, SocketCloses(s)
  PROVE  MatchInv'
<1> DEFINE l == [sock[s] EXCEPT !.client = "closed"]
<1>1. TypeOK /\ sock[s] \in SocketState /\ s[1] \in Page
  BY SockFacts DEF BaseInv, TypeOK
<1>2. UNCHANGED <<down, room>> /\ sock' = [sock EXCEPT ![s] = l]
  BY <1>1 DEF SocketCloses, TypeOK
<1>3. CASE s = Current(s[1]) /\ Alive(s[1])
  <2>1. Terminate(s[1], "ws_close") /\ "ws_close" \in Reason
    BY <1>3 DEF SocketCloses, CloseConcerns, Terminate, Reason
  <2>2. QED
    BY <1>1, <1>2, <2>1, TerminateMatch
<1>4. CASE ~(s = Current(s[1]) /\ Alive(s[1]))
  <2>1. page' = page
    BY <1>4 DEF SocketCloses, CloseConcerns
  <2>2. l.paired = sock[s].paired /\ l.handshakeForwards = sock[s].handshakeForwards
    BY <1>1, ClientTyped
  <2> HIDE DEF l
  <2>3. \A t \in Sock : /\ sock'[t].paired = sock[t].paired
                        /\ sock'[t].handshakeForwards = sock[t].handshakeForwards
    BY <1>1, <1>2, <2>2 DEF TypeOK
  <2>4. QED
    BY <1>2, <2>1, <2>3, MatchServer DEF Quiet
<1>5. QED
  BY <1>3, <1>4

\* The server closes its end.
LEMMA ServerCloses ==
  ASSUME BaseInv, NEW s \in Sock, sock' = [sock EXCEPT ![s].server = "closed"]
  PROVE  \A t \in Sock : /\ sock'[t].paired = sock[t].paired
                         /\ sock'[t].handshakeForwards = sock[t].handshakeForwards
<1> DEFINE l == [sock[s] EXCEPT !.server = "closed"]
<1>1. TypeOK /\ sock[s] \in SocketState
  BY DEF BaseInv, TypeOK
<1>2. sock' = [sock EXCEPT ![s] = l]
  BY <1>1 DEF TypeOK
<1>3. l.paired = sock[s].paired /\ l.handshakeForwards = sock[s].handshakeForwards
  BY <1>1, ClosedTyped
<1> HIDE DEF l
<1>4. QED
  BY <1>1, <1>2, <1>3 DEF TypeOK

\* What is pushed is not a HANDSHAKE.
LEMMA PushQuiet ==
  ASSUME BaseInv, NEW s \in Sock, NEW f \in Frame, f.type # "HANDSHAKE", NEW e, e = Push(down, s, f)
  PROVE  \A t \in Sock : Quiet(down[t], e[t])
<1>1. down \in [Sock -> Seq(Frame)]
  BY DEF BaseInv, TypeOK
<1>2. Pushes(e, down, s, f)
  BY <1>1, PushFacts
<1> TAKE t \in Sock
<1>3. e[t] = down[t] \/ e[t] = Append(down[t], f)
  BY <1>2 DEF Pushes
<1>4. QED
  BY <1>3 DEF Quiet

LEMMA ErrorMatch ==
  ASSUME BaseInv, MatchInv, NEW s \in Sock, page' = page, ~InRoom(s), NEW code \in ErrorCode,
         ErrorAndClose(s, code)
  PROVE  MatchInv'
<1>1. Notice(code) \in Frame /\ Notice(code).type # "HANDSHAKE"
  BY NoticeTyped DEF FrameType, ErrorCode
<1>2. /\ sock' = [sock EXCEPT ![s].server = "closed"] /\ room' = room
      /\ down' = Push(down, s, Notice(code))
  BY DEF ErrorAndClose, Leaves
<1>3. \A t \in Sock : Quiet(down[t], down'[t])
  BY <1>1, <1>2, PushQuiet
<1>4. QED
  BY <1>2, <1>3, ServerCloses, MatchServer

LEMMA RefusedMatch ==
  ASSUME BaseInv, MatchInv, NEW s \in Sock, Receives(s, "HELLO"), NEW code \in ErrorCode,
         ErrorAndClose(s, code)
  PROVE  MatchInv'
<1>1. s[1] \in Page /\ s = Current(s[1]) /\ up[s] = <<"HELLO">> /\ page' = page
  BY ReceivesFacts
<1>2. ~InRoom(s)
  BY <1>1, HelloFacts, SockFacts DEF InRoom, Member
<1>3. QED
  BY <1>1, <1>2, ErrorMatch

LEMMA RefuseMatch ==
  ASSUME BaseInv, MatchInv, NEW s \in Sock, Refused(s)
  PROVE  MatchInv'
<1>1. "RATE_LIMITED" \in ErrorCode
  BY DEF ErrorCode
<1>2. QED
  BY <1>1, RefusedMatch DEF Refused

LEMMA CreateMatch ==
  ASSUME BaseInv, MatchInv, NEW s \in Sock, HelloCreate(s)
  PROVE  MatchInv'
<1> DEFINE f == [Notice("ACK") EXCEPT !.role = "initiator"]
<1>1. Receives(s, "HELLO") /\ page' = page
  BY DEF HelloCreate, Receives
<1>2. CASE ErrorAndClose(s, "ROOM_ALREADY_EXISTS")
  <2>1. "ROOM_ALREADY_EXISTS" \in ErrorCode
    BY DEF ErrorCode
  <2>2. QED
    BY <1>1, <1>2, <2>1, RefusedMatch
<1>3. CASE /\ room' = [state |-> "WAITING", initiator |-> s, joiner |-> NoSock]
           /\ down' = Push(down, s, f)
           /\ UNCHANGED sock
  <2>1. f \in Frame /\ f.type = "ACK"
    BY NoticeTyped DEF FrameType, Role
  <2> HIDE DEF f
  <2>2. \A t \in Sock : Quiet(down[t], down'[t])
    BY <1>3, <2>1, PushQuiet
  <2>3. room'.joiner = NoSock
    BY <1>3
  <2>4. QED
    BY <1>1, <1>3, <2>2, <2>3, MatchServer
<1>4. QED
  BY <1>2, <1>3 DEF HelloCreate

LEMMA ServerNoticesMatch ==
  ASSUME BaseInv, MatchInv, NEW s \in Sock, ServerNotices(s)
  PROVE  MatchInv'
<1> DEFINE f == Notice("PEER_DISCONNECTED")
           w == Without(s)
           r == Remaining(w)
<1>1. page' = page /\ sock' = [sock EXCEPT ![s].server = "closed"]
  BY DEF ServerNotices, Leaves
<1>2. CASE ~InRoom(s)
  <2>1. room' = room /\ down' = down
    BY <1>2 DEF ServerNotices, Leaves
  <2>2. QED
    BY <1>1, <2>1, ServerCloses, MatchServer DEF Quiet
<1>3. CASE InRoom(s)
  <2>1. room' = w /\ down' = Push(down, r, f)
    BY <1>3 DEF ServerNotices, Leaves
  <2>2. Member(s) /\ Layout /\ room \in RoomState
    BY <1>3, SockFacts DEF InRoom, Member, BaseInv, RoomInv, TypeOK
  <2>3. r \in Sock \cup {NoSock} /\ (w.initiator = NoSock \/ w.joiner = NoSock)
    BY <2>2, WithoutFacts
  <2>4. f \in Frame /\ f.type # "HANDSHAKE"
    BY NoticeTyped DEF FrameType
  <2> HIDE DEF f, w, r
  <2>5. \A t \in Sock : Quiet(down[t], down'[t])
    <3>1. CASE r \in Sock
      BY <2>1, <2>4, <3>1, PushQuiet
    <3>2. CASE r = NoSock
      <4>1. down' = down
        BY <2>1, <3>2 DEF Push, Reaches
      <4>2. QED
        BY <4>1 DEF Quiet
    <3>3. QED
      BY <2>3, <3>1, <3>2
  <2>6. room'.initiator = NoSock \/ room'.joiner = NoSock
    BY <2>1, <2>3
  <2>7. QED
    BY <1>1, <2>5, <2>6, ServerCloses, MatchServer
<1>4. QED
  BY <1>2, <1>3

LEMMA DropMatch ==
  ASSUME BaseInv, MatchInv, NEW s \in Sock, Drop(s)
  PROVE  MatchInv'
<1> DEFINE l == [sock[s] EXCEPT !.lost = TRUE]
<1>1. TypeOK /\ sock[s] \in SocketState
  BY DEF BaseInv, TypeOK
<1>2. /\ sock' = [sock EXCEPT ![s] = l] /\ down' = [down EXCEPT ![s] = <<>>] /\ UNCHANGED <<page, room>>
  BY <1>1 DEF Drop, TypeOK
<1>3. l.paired = sock[s].paired /\ l.handshakeForwards = sock[s].handshakeForwards
  BY <1>1 DEF SocketState
<1> HIDE DEF l
<1>4. \A t \in Sock : /\ sock'[t].paired = sock[t].paired
                      /\ sock'[t].handshakeForwards = sock[t].handshakeForwards
  BY <1>1, <1>2, <1>3 DEF TypeOK
<1>5. \A t \in Sock : Quiet(down[t], down'[t])
  BY <1>1, <1>2 DEF Quiet, TypeOK
<1>6. QED
  BY <1>2, <1>4, <1>5, MatchServer

LEMMA ExpireMatch ==
  ASSUME BaseInv, MatchInv, Expire
  PROVE  MatchInv'
<1>1. room.initiator \in Sock
  BY DEF BaseInv, RoomInv, Layout, Expire, TypeOK, RoomState
<1>2. /\ sock' = [sock EXCEPT ![room.initiator].server = "closed"] /\ UNCHANGED <<page, down>>
      /\ room'.joiner = NoSock
  BY DEF Expire, NoRoom
<1>3. QED
  BY <1>1, <1>2, ServerCloses, MatchServer DEF Quiet

\* A new pair: nobody heard either of the two, and they heard nobody.
LEMMA JoinMatch ==
  ASSUME BaseInv, MatchInv, NEW s \in Sock, HelloJoin(s)
  PROVE  MatchInv'
<1>1. s[2] = "join" /\ Receives(s, "HELLO") /\ UNCHANGED faults
  BY DEF HelloJoin
<1>2. CASE ErrorAndClose(s, "ROOM_NOT_FOUND") \/ ErrorAndClose(s, "ROOM_FULL")
  <2>1. "ROOM_NOT_FOUND" \in ErrorCode /\ "ROOM_FULL" \in ErrorCode
    BY DEF ErrorCode
  <2>2. QED
    BY <1>1, <1>2, <2>1, RefusedMatch
<1>3. CASE Joinable /\ ~(ErrorAndClose(s, "ROOM_NOT_FOUND") \/ ErrorAndClose(s, "ROOM_FULL"))
  <2>0. PICK i : i = room.initiator
    OBVIOUS
  <2>1. /\ i \in Sock /\ Member(i) /\ i # s /\ page' = page
        /\ \A t \in Sock : t # i /\ t # s => Same(t)
        /\ sock[s].paired = FALSE /\ sock[i].paired = FALSE /\ room.joiner = NoSock
        /\ room'.initiator = i /\ room'.joiner = s
        /\ \A t \in Sock : sock'[t].handshakeForwards = sock[t].handshakeForwards
        /\ sock'[s].paired = TRUE /\ sock'[i].paired = TRUE
        /\ \E f, g \in Frame : /\ f.type = "ACK" /\ g.type = "PEER_JOINED"
                               /\ down'[s] \in {down[s], Append(down[s], f)}
                               /\ down'[i] \in {down[i], Append(down[i], g)}
    <3>1. room.state = "WAITING"
      BY <1>3 DEF Joinable
    <3>2. /\ room' = [room EXCEPT !.state = "PAIRED", !.joiner = s]
          /\ sock' = [sock EXCEPT ![s].paired = TRUE, ![i].paired = TRUE]
          /\ down' = Push(Push(down, s, [Notice("ACK") EXCEPT !.role = "joiner"]), i,
                          Notice("PEER_JOINED"))
      BY <1>3, <2>0 DEF HelloJoin
    <3>3. Joins(s, i)
      BY <1>1, <2>0, <3>1, <3>2, JoinedBase
    <3>4. QED
      BY <3>3 DEF Joins
  <2> DEFINE a == s[1]
             b == i[1]
  <2>2. a \in Page /\ b \in Page /\ s = Current(a) /\ i = Current(b) /\ TypeOK
    <3>1. s[1] \in Page /\ s = Current(s[1])
      BY <1>1, ReceivesFacts
    <3>2. Seat(i)
      BY <2>1 DEF BaseInv, RoomInv
    <3>3. QED
      BY <2>1, <3>1, <3>2, SockFacts DEF Seat, BaseInv
  <2> HIDE DEF a, b
  <2>3. \A x \in Page : Current(x)' = Current(x) /\ Current(x) \in Sock /\ down[Current(x)] \in Seq(Frame)
    BY <2>1, <2>2, CurrentSock DEF Current
  <2>4. \A t \in Sock : Quiet(down[t], down'[t])
    BY <2>1 DEF Quiet, Same
  <2>5. ASSUME NEW y \in Page, NEW x \in Page, Heard(y, x)' PROVE Heard(y, x)
    <3>1. Hears(page[y], down'[Current(y)], x)
      BY <2>1, <2>3, <2>5 DEF Heard
    <3>2. Quiet(down[Current(y)], down'[Current(y)])
      BY <2>3, <2>4
    <3>3. Hears(page[y], down[Current(y)], x)
      BY <2>3, <3>1, <3>2, HearsLess
    <3>4. QED
      BY <3>3 DEF Heard
  <2>6. ASSUME NEW x \in Page, NEW y \in {a, b} PROVE ~Heard(x, y) /\ ~Heard(y, x)
    <3>1. y \in Page /\ sock[Current(y)].paired = FALSE
      BY <2>1, <2>2
    <3>2. Line(page[y], sock[Current(y)], up[Current(y)])
      BY <3>1, LocalFacts
    <3>3. sock[Current(y)].handshakeForwards = 0
      BY <3>1, <3>2 DEF Line
    <3>4. QED
      BY <3>1, <3>3 DEF MatchInv, HeardInv
  <2>7. ASSUME NEW y \in Page, NEW x \in Page, Together(y, x)' PROVE (y = a /\ x = b) \/ (y = b /\ x = a)
    <3>1. \/ i = Current(y) /\ s = Current(x)
          \/ i = Current(x) /\ s = Current(y)
      BY <2>1, <2>3, <2>7 DEF Together
    <3>2. QED
      BY <2>2, <3>1, CurrentSock
  <2>8. \A x \in Page : sock[Current(x)].paired = TRUE => sock'[Current(x)].paired = TRUE
    BY <2>1, <2>3 DEF Same
  <2>9. HeardInv'
    <3> SUFFICES ASSUME NEW p \in Page, NEW x \in Page, Heard(p, x)'
                 PROVE  /\ p # x /\ page'[p].intentTried # page'[x].intentTried
                        /\ sock'[Current(p)'].paired = TRUE
                        /\ sock'[Current(x)'].handshakeForwards = 1
      BY DEF HeardInv
    <3>1. Heard(p, x)
      BY <2>5
    <3>2. /\ p # x /\ page[p].intentTried # page[x].intentTried
          /\ sock[Current(p)].paired = TRUE /\ sock[Current(x)].handshakeForwards = 1
      BY <3>1 DEF MatchInv, HeardInv
    <3>3. QED
      BY <2>1, <2>3, <2>8, <3>2
  <2>10. Matching'
    <3> SUFFICES ASSUME NEW p \in Page, NEW x \in Page, NEW y \in Page, Linked(p, x)', Linked(p, y)'
                 PROVE  x = y
      BY DEF Matching
    <3>1. Heard(p, x) \/ Heard(x, p) \/ Together(p, x)'
      BY <2>5 DEF Linked
    <3>2. Heard(p, y) \/ Heard(y, p) \/ Together(p, y)'
      BY <2>5 DEF Linked
    <3>3. CASE p \in {a, b}
      <4>1. a # b
        BY <2>1, <2>2
      <4>2. Together(p, x)' /\ Together(p, y)'
        BY <2>6, <3>1, <3>2, <3>3
      <4>3. QED
        BY <2>7, <4>1, <4>2
    <3>4. CASE p \notin {a, b}
      <4>1. ~Together(p, x)' /\ ~Together(p, y)'
        BY <2>7, <3>4
      <4>2. Linked(p, x) /\ Linked(p, y)
        BY <3>1, <3>2, <4>1 DEF Linked
      <4>3. QED
        BY <4>2 DEF MatchInv, Matching
    <3>5. QED
      BY <3>3, <3>4
  <2>11. QED
    BY <2>9, <2>10 DEF MatchInv
<1>4. QED
  BY <1>2, <1>3 DEF HelloJoin

LEMMA ForwardMatch ==
  ASSUME BaseInv, MatchInv, NEW s \in Sock, ForwardHandshake(s)
  PROVE  MatchInv'
<1>1. Receives(s, "HANDSHAKE") /\ UNCHANGED faults /\ page' = page
  BY DEF ForwardHandshake, Receives
<1>2. CASE ~InRoom(s) /\ ErrorAndClose(s, "ROOM_NOT_FOUND")
  <2>1. "ROOM_NOT_FOUND" \in ErrorCode
    BY DEF ErrorCode
  <2>2. QED
    BY <1>1, <1>2, <2>1, ErrorMatch
<1>3. CASE UNCHANGED <<sock, down, room>>
  BY <1>1, <1>3, MatchServer DEF Quiet
<1>4. CASE /\ InRoom(s) /\ PeerOf(s) # NoSock
           /\ sock' = [sock EXCEPT ![s].handshakeForwards = @ + 1]
           /\ down' = Push(down, PeerOf(s), [Notice("HANDSHAKE") EXCEPT !.from = s[1]])
           /\ UNCHANGED room
  <2>0. PICK r, f : r = PeerOf(s) /\ f = [Notice("HANDSHAKE") EXCEPT !.from = s[1]]
    OBVIOUS
  <2>1. /\ r \in Sock /\ r # s
        /\ s[1] \in Page /\ r[1] \in Page /\ s = Current(s[1]) /\ r = Current(r[1])
        /\ \A x \in Page : ~Heard(r[1], x)
        /\ Together(s[1], r[1]) /\ s[2] # r[2]
        /\ \A t \in Sock : t # s /\ t # r => Same(t)
        /\ sock'[s].handshakeForwards = 1 /\ sock'[s].paired = sock[s].paired
        /\ sock[r].paired = TRUE /\ sock'[r] = sock[r] /\ down'[s] = down[s]
        /\ f \in Frame /\ f.from = s[1] /\ down[r] \in Seq(Frame)
        /\ down'[r] \in {down[r], Append(down[r], f)}
    <3>1. /\ r # NoSock /\ down' = Push(down, r, f) /\ InRoom(s) /\ UNCHANGED <<faults, room>>
          /\ sock' = [sock EXCEPT ![s].handshakeForwards = @ + 1]
      BY <1>1, <1>4, <2>0
    <3>2. Forwards(s, r, f)
      BY <1>1, <2>0, <3>1, ForwardedBase
    <3>3. QED
      BY <3>2 DEF Forwards
  <2> DEFINE a == s[1]
             b == r[1]
  <2>2. TypeOK
    BY DEF BaseInv
  <2>3. \A x \in Page : Current(x)' = Current(x) /\ Current(x) \in Sock /\ down[Current(x)] \in Seq(Frame)
    BY <1>1, <2>2, CurrentSock DEF Current
  <2> HIDE DEF a, b
  <2>4. a \in Page /\ b \in Page /\ s = Current(a) /\ r = Current(b) /\ a # b /\ f.from = a
    BY <2>1 DEF a, b
  <2>5. page[a].intentTried # page[b].intentTried
    <3>1. page[a].intentTried = s[2] /\ page[b].intentTried = r[2]
      BY <2>2, <2>4, CurrentSock
    <3>2. QED
      BY <2>1, <3>1
  <2>6. ASSUME NEW y \in Page, NEW x \in Page, Heard(y, x)' PROVE Heard(y, x) \/ (y = b /\ x = a)
    <3>1. Hears(page[y], down'[Current(y)], x)
      BY <1>1, <2>3, <2>6 DEF Heard
    <3>2. CASE y # b
      <4>1. Current(y) # r
        BY <2>2, <2>4, <3>2, CurrentSock
      <4>2. down'[Current(y)] = down[Current(y)]
        BY <2>1, <2>3, <4>1 DEF Same
      <4>3. QED
        BY <3>1, <4>2 DEF Heard
    <3>3. CASE y = b
      <4> DEFINE d == down[r]
      <4>1. CASE down'[r] = d
        BY <2>4, <3>1, <3>3, <4>1 DEF Heard
      <4>2. CASE down'[r] = Append(d, f)
        <5>1. Hears(page[b], Append(d, f), x)
          BY <2>4, <3>1, <3>3, <4>2
        <5>2. CASE \E j \in 1..Len(Append(d, f)) :
                     Append(d, f)[j].type = "HANDSHAKE" /\ Append(d, f)[j].from = x
          <6>1. PICK j \in 1..Len(Append(d, f)) :
                     Append(d, f)[j].type = "HANDSHAKE" /\ Append(d, f)[j].from = x
            BY <5>2
          <6>2. \/ j \in 1..Len(d) /\ Append(d, f)[j] = d[j]
                \/ Append(d, f)[j] = f
            BY <2>1
          <6>3. CASE j \in 1..Len(d) /\ Append(d, f)[j] = d[j]
            <7>1. Hears(page[b], d, x)
              BY <6>1, <6>3 DEF Hears
            <7>2. QED
              BY <2>4, <3>3, <7>1 DEF Heard
          <6>4. CASE Append(d, f)[j] = f
            BY <2>4, <3>3, <6>1, <6>4
          <6>5. QED
            BY <6>2, <6>3, <6>4
        <5>3. CASE page[b].peer = x \/ page[b].inq = <<x>>
          BY <2>4, <3>3, <5>3 DEF Heard, Hears
        <5>4. QED
          BY <5>1, <5>2, <5>3 DEF Hears
      <4>3. QED
        BY <2>1, <4>1, <4>2
    <3>4. QED
      BY <3>2, <3>3
  <2>7. \A x \in Page : /\ sock'[Current(x)].paired = sock[Current(x)].paired
                        /\ \/ sock'[Current(x)].handshakeForwards = sock[Current(x)].handshakeForwards
                           \/ sock'[Current(x)].handshakeForwards = 1
    BY <2>1, <2>3 DEF Same
  <2>8. HeardInv'
    <3> SUFFICES ASSUME NEW p \in Page, NEW x \in Page, Heard(p, x)'
                 PROVE  /\ p # x /\ page'[p].intentTried # page'[x].intentTried
                        /\ sock'[Current(p)'].paired = TRUE
                        /\ sock'[Current(x)'].handshakeForwards = 1
      BY DEF HeardInv
    <3>1. CASE Heard(p, x)
      <4>1. /\ p # x /\ page[p].intentTried # page[x].intentTried
            /\ sock[Current(p)].paired = TRUE /\ sock[Current(x)].handshakeForwards = 1
        BY <3>1 DEF MatchInv, HeardInv
      <4>2. QED
        BY <1>1, <2>3, <2>7, <4>1
    <3>2. CASE p = b /\ x = a
      BY <1>1, <2>1, <2>3, <2>4, <2>5, <3>2
    <3>3. QED
      BY <2>6, <3>1, <3>2
  <2>9. \A p, x \in Page : Together(p, x)' => Together(p, x)
    BY <1>1, <1>4, <2>2, TogetherLess
  <2>10. Together(a, b) /\ Together(b, a)
    BY <2>1 DEF Together, a, b
  <2>11. ASSUME NEW p \in Page, NEW x \in Page, Linked(p, x)' PROVE Linked(p, x)
    BY <2>6, <2>9, <2>10, <2>11 DEF Linked
  <2>12. Matching'
    BY <2>11 DEF MatchInv, Matching
  <2>13. QED
    BY <2>8, <2>12 DEF MatchInv
<1>5. QED
  BY <1>2, <1>3, <1>4, ForwardCases

-----------------------------------------------------------------------------
(* The first two theorems                                                  *)

MeetInv == BaseInv /\ MatchInv

LEMMA InitMeet == Init => MeetInv
<1> SUFFICES ASSUME Init PROVE MeetInv
  OBVIOUS
<1>1. /\ \A p \in Page : /\ page[p].st = "IDLE" /\ page[p].intentTried = "create"
                         /\ page[p].role = "undefined" /\ page[p].sending = "no"
                         /\ page[p].handling = "no" /\ page[p].inq = <<>> /\ page[p].peer = NoPage
                         /\ page[p].reason = "none"
      /\ \A s \in Sock : up[s] = <<>> /\ down[s] = <<>> /\ Unopened(sock[s])
      /\ room.state = "none" /\ room.initiator = NoSock /\ room.joiner = NoSock
  BY DEF Init, Unopened, NoRoom
<1>2. TypeOK
  <2>1. <<>> \in Seq(Page) /\ <<>> \in Seq(Frame) /\ <<>> \in Seq(Faults) /\ Len(<<>>) = 0
    OBVIOUS
  <2>2. page \in [Page -> PageState]
    <3>1. \A e \in Seq(Page) :
            [st |-> "IDLE", intentTried |-> "create", role |-> "undefined", ephemeral |-> "none",
             sending |-> "no", handling |-> "no", inq |-> e, peer |-> NoPage, reason |-> "none"]
              \in PageState
      BY DEF PageState
    <3>2. QED
      BY <2>1, <3>1 DEF Init
  <2>3. sock \in [Sock -> SocketState]
    BY DEF Init, SocketState, MAX_HANDSHAKE_FORWARDS
  <2>4. room \in RoomState
    BY DEF Init, NoRoom, RoomState
  <2>5. /\ up \in [Sock -> {<<>>, <<"HELLO">>, <<"HANDSHAKE">>}] /\ down \in [Sock -> Seq(Frame)]
        /\ faults \in Seq(Faults) /\ Len(faults) <= MaxFaults
    BY <2>1 DEF Init
  <2>6. QED
    BY <2>2, <2>3, <2>4, <2>5 DEF TypeOK
<1>3. ASSUME NEW p \in Page PROVE Local(p)
  <2>1. Current(p) \in Sock /\ <<p, "join">> \in Sock
    BY <1>2, CurrentSock, SockFacts
  <2>2. Own(page[p])
    BY <1>1 DEF Own, Pristine
  <2>3. Line(page[p], sock[Current(p)], up[Current(p)])
    BY <1>1, <2>1, UpFacts DEF Line, Unopened
  <2>4. Queue(page[p], sock[Current(p)], up[Current(p)], down[Current(p)])
    BY <1>1, <2>1, QueueEmpty
  <2>5. Aside(p)
    BY <1>1, <2>1 DEF Aside
  <2>6. QED
    BY <2>2, <2>3, <2>4, <2>5 DEF Local
<1>4. RoomInv
  BY <1>1, SockFacts DEF RoomInv, Layout, Member
<1>5. \A p, x \in Page : ~Heard(p, x) /\ ~Together(p, x)
  <2> TAKE p, x \in Page
  <2>1. Current(p) \in Sock /\ Current(p) # NoSock /\ x # NoPage /\ down[Current(p)] = <<>>
        /\ <<x>> # <<>>
    BY <1>1, <1>2, CurrentSock, SockFacts
  <2>2. ~\E i \in 1..Len(<<>>) : TRUE
    OBVIOUS
  <2>3. ~Heard(p, x)
    BY <1>1, <2>1, <2>2 DEF Heard, Hears
  <2>4. QED
    BY <1>1, <2>1, <2>3 DEF Together
<1>6. MatchInv
  BY <1>5 DEF MatchInv, HeardInv, Matching, Linked
<1>7. QED
  BY <1>2, <1>3, <1>4, <1>6 DEF MeetInv, BaseInv

LEMMA NextMeet ==
  ASSUME MeetInv, Next
  PROVE  MeetInv'
<1>1. BaseInv /\ MatchInv
  BY DEF MeetInv
<1>2. ASSUME NEW p \in Page, Start(p) PROVE MeetInv'
  BY <1>1, <1>2, StartBase, StartMatch DEF MeetInv
<1>3. ASSUME NEW p \in Page, EphemeralReady(p) PROVE MeetInv'
  BY <1>1, <1>3, EphemeralReadyBase, EphemeralReadyMatch DEF MeetInv
<1>4. ASSUME NEW p \in Page, HandshakeWrapped(p) PROVE MeetInv'
  BY <1>1, <1>4, HandshakeWrappedBase, HandshakeWrappedMatch DEF MeetInv
<1>5. ASSUME NEW p \in Page, HandleHandshake(p) PROVE MeetInv'
  BY <1>1, <1>5, HandleHandshakeBase, HandleHandshakeMatch DEF MeetInv
<1>6. ASSUME NEW p \in Page, HandshakeCompletes(p) PROVE MeetInv'
  BY <1>1, <1>6, HandshakeCompletesBase, HandshakeCompletesMatch DEF MeetInv
<1>7. ASSUME NEW p \in Page, Arrive(p) PROVE MeetInv'
  BY <1>1, <1>7, ArriveBase, ArriveMatch DEF MeetInv
<1>8. ASSUME NEW p \in Page, HandshakeFails(p) PROVE MeetInv'
  BY <1>1, <1>8, HandshakeFailsBase, HandshakeFailsMatch DEF MeetInv
<1>9. ASSUME NEW p \in Page, Leave(p) PROVE MeetInv'
  BY <1>1, <1>9, LeaveBase, LeaveMatch DEF MeetInv
<1>10. ASSUME NEW s \in Sock, SocketCloses(s) PROVE MeetInv'
  BY <1>1, <1>10, SocketClosesBase, SocketClosesMatch DEF MeetInv
<1>11. ASSUME NEW s \in Sock, HelloCreate(s) PROVE MeetInv'
  BY <1>1, <1>11, CreateBase, CreateMatch DEF MeetInv
<1>12. ASSUME NEW s \in Sock, HelloJoin(s) PROVE MeetInv'
  BY <1>1, <1>12, JoinBase, JoinMatch DEF MeetInv
<1>13. ASSUME NEW s \in Sock, ForwardHandshake(s) PROVE MeetInv'
  BY <1>1, <1>13, ForwardBase, ForwardMatch DEF MeetInv
<1>14. ASSUME NEW s \in Sock, ServerNotices(s) PROVE MeetInv'
  BY <1>1, <1>14, ServerNoticesBase, ServerNoticesMatch DEF MeetInv
<1>15. ASSUME NEW s \in Sock, Refused(s) PROVE MeetInv'
  BY <1>1, <1>15, RefuseBase, RefuseMatch DEF MeetInv
<1>16. ASSUME NEW s \in Sock, Drop(s) PROVE MeetInv'
  BY <1>1, <1>16, DropBase, DropMatch DEF MeetInv
<1>17. ASSUME Expire PROVE MeetInv'
  BY <1>1, <1>17, ExpireBase, ExpireMatch DEF MeetInv
<1>18. QED
  BY <1>2, <1>3, <1>4, <1>5, <1>6, <1>7, <1>8, <1>9, <1>10, <1>11, <1>12, <1>13, <1>14, <1>15,
     <1>16, <1>17 DEF Next, PageSteps, ServerSteps

LEMMA StutterMeet ==
  ASSUME MeetInv, UNCHANGED vars
  PROVE  MeetInv'
<1>1. page' = page /\ sock' = sock /\ up' = up /\ down' = down /\ room' = room /\ faults' = faults
  BY DEF vars
<1>2. TypeOK' /\ Layout'
  BY <1>1 DEF MeetInv, BaseInv, TypeOK, RoomInv, Layout
<1>3. \A p : Current(p)' = Current(p)
  BY <1>1 DEF Current
<1>4. ASSUME NEW p \in Page PROVE Local(p)'
  BY <1>1, <1>3 DEF MeetInv, BaseInv, Local, Aside
<1>5. ASSUME NEW s \in Sock, Member(s)' PROVE Seat(s)'
  BY <1>1, <1>3, <1>5 DEF MeetInv, BaseInv, RoomInv, Member, Seat, Reaches
<1>6. \A p, x \in Page : Heard(p, x)' = Heard(p, x) /\ Together(p, x)' = Together(p, x)
  BY <1>1, <1>3 DEF Heard, Together
<1>7. MatchInv'
  BY <1>1, <1>3, <1>6, MatchKept DEF MeetInv
<1>8. QED
  BY <1>2, <1>4, <1>5, <1>7 DEF MeetInv, BaseInv, RoomInv

LEMMA AlwaysMeet == Spec => []MeetInv
<1>1. MeetInv /\ [Next]_vars => MeetInv'
  BY NextMeet, StutterMeet
<1>2. QED
  BY <1>1, InitMeet, PTL DEF Spec

\* The state of startSession, of the sockets, of ws.data and of the room keeps
\* its types whatever pages open the link and whatever fault strikes; so each
\* socket carries one frame at most to the server.
THEOREM ConnectTyped == Spec => []TypeOK
<1>1. MeetInv => TypeOK
  BY DEF MeetInv, BaseInv
<1>2. QED
  BY <1>1, AlwaysMeet, PTL

LEMMA MeetIsKeyOfTwo ==
  ASSUME MeetInv
  PROVE  KeyOfTwo
<1> SUFFICES ASSUME NEW p \in Page, NEW q, q = page[p].peer, q # NoPage
             PROVE  page[q].peer \in {p, NoPage} /\ {page[p].role, page[q].role} = Role
  BY DEF KeyOfTwo
<1>1. BaseInv /\ MatchInv
  BY DEF MeetInv
<1>2. page[p] \in PageState /\ Own(page[p])
  BY <1>1, LocalFacts
<1>3. q \in Page
  BY <1>2 DEF PageState
<1>4. page[q] \in PageState /\ Own(page[q]) /\ Line(page[q], sock[Current(q)], up[Current(q)])
  BY <1>1, <1>3, LocalFacts
<1>5. Heard(p, q)
  BY DEF Heard, Hears
<1>6. page[q].peer \in {p, NoPage}
  <2> SUFFICES ASSUME NEW x, x = page[q].peer, x # NoPage PROVE x = p
    OBVIOUS
  <2>1. x \in Page
    BY <1>4 DEF PageState
  <2>2. Heard(q, x)
    BY DEF Heard, Hears
  <2>3. Linked(q, p) /\ Linked(q, x)
    BY <1>5, <2>2 DEF Linked
  <2>4. QED
    BY <1>1, <1>3, <2>1, <2>3 DEF MatchInv, Matching
<1>7. /\ page[p].intentTried # page[q].intentTried /\ sock[Current(q)].handshakeForwards = 1
  BY <1>1, <1>3, <1>5 DEF MatchInv, HeardInv
<1>8. page[p].role # "undefined" /\ page[q].role # "undefined"
  BY <1>2, <1>4, <1>7 DEF Own, Pristine, Line
<1>9. /\ page[p].role = RoleOf(page[p].intentTried) /\ page[q].role = RoleOf(page[q].intentTried)
      /\ page[p].intentTried \in {"create", "join"} /\ page[q].intentTried \in {"create", "join"}
  BY <1>2, <1>4, <1>8 DEF Own, PageState
<1>10. {page[p].role, page[q].role} = Role
  BY <1>7, <1>9 DEF RoleOf, Role
<1>11. QED
  BY <1>6, <1>10

\* However many pages open the link, come and go, and however frames and faults
\* cross: the session key that handleHandshakeFrame derives is the key of two
\* pages only, in opposite roles.
THEOREM KeyIsOfTwo == Spec => []KeyOfTwo
<1>1. MeetInv => KeyOfTwo
  BY MeetIsKeyOfTwo
<1>2. QED
  BY <1>1, AlwaysMeet, PTL

-----------------------------------------------------------------------------
(* Without a fault                                                         *)

\* Nothing new is on its way.
Within(e, d) == \A i \in 1..Len(e) : \E j \in 1..Len(d) : e[i] = d[j]

\* A step of a page and its socket.
LEMMA CalmPage ==
  ASSUME BaseInv, CalmInv, NEW p \in Page, NEW n, page' = [page EXCEPT ![p] = n], room' = room,
         n.intentTried = page[p].intentTried, NEW c, c = Current(p),
         \A t \in Sock : t # c => sock'[t] = sock[t] /\ down'[t] = down[t],
         Sound(sock'[c]), sock'[c].paired = sock[c].paired, Calm(n, sock'[c], down'[c]),
         Within(down'[c], down[c])
  PROVE  CalmInv'
<1>1. TypeOK
  BY DEF BaseInv
<1>2. page'[p] = n /\ \A x \in Page : x # p => page'[x] = page[x]
  BY <1>1 DEF TypeOK
<1>3. \A x \in Page : /\ Current(x)' = Current(x) /\ Current(x) \in Sock
                      /\ x # p => Current(x) # c
                      /\ page'[x].intentTried = page[x].intentTried
  BY <1>1, <1>2, CurrentSock DEF Current
<1>4. \A s \in Sock : Sound(sock'[s])
  BY DEF CalmInv
<1>5. ASSUME NEW x \in Page
      PROVE  /\ Calm(page'[x], sock'[Current(x)], down'[Current(x)])
             /\ sock'[Current(x)].paired = TRUE => Member(Current(x))
  BY <1>2, <1>3 DEF CalmInv
<1>6. \A s : Member(s)' = Member(s)
  BY DEF Member
<1>7. Vacant'
  <2> SUFFICES ASSUME room'.state = "none", NEW x \in Page
               PROVE  /\ page'[x].intentTried = "create"
                      /\ \A i \in 1..Len(down'[Current(x)]) :
                           down'[Current(x)][i].type # "ROOM_ALREADY_EXISTS"
    BY <1>3 DEF Vacant
  <2>1. /\ page[x].intentTried = "create"
        /\ \A i \in 1..Len(down[Current(x)]) : down[Current(x)][i].type # "ROOM_ALREADY_EXISTS"
    BY DEF CalmInv, Vacant
  <2>2. CASE x = p
    BY <1>3, <2>1, <2>2 DEF Within
  <2>3. CASE x # p
    BY <1>3, <2>1, <2>3
  <2>4. QED
    BY <2>2, <2>3
<1>8. QED
  BY <1>3, <1>4, <1>5, <1>6, <1>7 DEF CalmInv

\* The page alone.
LEMMA CalmAlone ==
  ASSUME BaseInv, CalmInv, NEW p \in Page, NEW n, page' = [page EXCEPT ![p] = n],
         UNCHANGED <<sock, down, room>>, n.intentTried = page[p].intentTried,
         n.reason = page[p].reason
  PROVE  CalmInv'
<1>1. /\ Calm(page[p], sock[Current(p)], down[Current(p)])
      /\ Current(p) \in Sock /\ Sound(sock[Current(p)])
  BY LocalFacts DEF CalmInv
<1>2. Calm(n, sock[Current(p)], down[Current(p)])
  BY <1>1 DEF Calm
<1>3. Within(down[Current(p)], down[Current(p)])
  BY DEF Within
<1>4. QED
  BY <1>1, <1>2, <1>3, CalmPage

LEMMA EphemeralReadyCalm ==
  ASSUME BaseInv, CalmInv, NEW p \in Page, EphemeralReady(p)
  PROVE  CalmInv'
<1> DEFINE n == [page[p] EXCEPT !.ephemeral = "ready", !.sending = "wrap",
                               !.handling = IF @ = "key" THEN "derive" ELSE @]
<1>1. TypeOK /\ page[p] \in PageState
  BY LocalFacts
<1>2. page' = [page EXCEPT ![p] = n] /\ UNCHANGED <<sock, down, room>>
  BY <1>1 DEF EphemeralReady, TypeOK
<1>3. n.intentTried = page[p].intentTried /\ n.reason = page[p].reason
  BY <1>1 DEF PageState
<1> HIDE DEF n
<1>4. QED
  BY <1>2, <1>3, CalmAlone

LEMMA HandshakeWrappedCalm ==
  ASSUME BaseInv, CalmInv, NEW p \in Page, HandshakeWrapped(p)
  PROVE  CalmInv'
<1> DEFINE n == [page[p] EXCEPT !.sending = "done",
                  !.st = IF @ \in {"CONNECTING", "WAITING_FOR_PEER"} THEN "HANDSHAKING" ELSE @]
<1>1. TypeOK /\ page[p] \in PageState
  BY LocalFacts
<1>2. page' = [page EXCEPT ![p] = n] /\ UNCHANGED <<sock, down, room>>
  BY <1>1 DEF HandshakeWrapped, TypeOK
<1>3. n.intentTried = page[p].intentTried /\ n.reason = page[p].reason
  BY <1>1 DEF PageState
<1> HIDE DEF n
<1>4. QED
  BY <1>2, <1>3, CalmAlone

LEMMA HandshakeCompletesCalm ==
  ASSUME BaseInv, CalmInv, NEW p \in Page, HandshakeCompletes(p)
  PROVE  CalmInv'
<1> DEFINE n == Derived(page[p])
<1>1. TypeOK /\ page[p] \in PageState /\ Own(page[p])
  BY LocalFacts
<1>2. page' = [page EXCEPT ![p] = n] /\ UNCHANGED <<sock, down, room>>
  BY <1>1 DEF HandshakeCompletes, TypeOK
<1>3. page[p].inq # <<>>
  BY <1>1 DEF HandshakeCompletes, Own
<1>4. n.intentTried = page[p].intentTried /\ n.reason = page[p].reason
  BY <1>1, <1>3, DerivedTyped
<1> HIDE DEF n
<1>5. QED
  BY <1>2, <1>4, CalmAlone

LEMMA HandleHandshakeCalm ==
  ASSUME BaseInv, CalmInv, NEW p \in Page, HandleHandshake(p)
  PROVE  CalmInv'
<1> DEFINE m == SendLocalHandshake(page[p])
           next == [none |-> [m EXCEPT !.handling = "key"],
                    ready |-> [m EXCEPT !.handling = "derive"],
                    failed |-> [m EXCEPT !.inq = Tail(@)]]
           n == next[m.ephemeral]
<1>1. TypeOK /\ page[p] \in PageState /\ Own(page[p])
  BY LocalFacts
<1>2. page[p].st # "ACTIVE"
  BY <1>1 DEF HandleHandshake, Own
<1>3. page' = [page EXCEPT ![p] = n] /\ UNCHANGED <<sock, down, room>>
  BY <1>2 DEF HandleHandshake
<1>4. /\ m \in PageState /\ m.intentTried = page[p].intentTried /\ m.reason = page[p].reason
  BY <1>1, SendTyped
<1> HIDE DEF m
<1>5. m.ephemeral \in {"none", "ready", "failed"}
  BY <1>4 DEF PageState
<1>6. /\ next["none"] = [m EXCEPT !.handling = "key"]
      /\ next["ready"] = [m EXCEPT !.handling = "derive"]
      /\ next["failed"] = [m EXCEPT !.inq = Tail(@)]
  OBVIOUS
<1> HIDE DEF next
<1>7. \/ n = [m EXCEPT !.handling = "key"] \/ n = [m EXCEPT !.handling = "derive"]
      \/ n = [m EXCEPT !.inq = Tail(@)]
  BY <1>5, <1>6
<1> HIDE DEF n
<1>8. n.intentTried = m.intentTried /\ n.reason = m.reason
  BY <1>4, <1>7 DEF PageState
<1>9. QED
  BY <1>3, <1>4, <1>8, CalmAlone

LEMMA StartCalm ==
  ASSUME BaseInv, CalmInv, NEW p \in Page, Start(p)
  PROVE  CalmInv'
<1> DEFINE q == page[p]
           c == Current(p)
           n == [q EXCEPT !.st = "CONNECTING"]
           l == [sock[c] EXCEPT !.client = "open", !.server = "open"]
<1>1. /\ TypeOK /\ q \in PageState /\ Own(q) /\ Line(q, sock[c], up[c])
      /\ Queue(q, sock[c], up[c], down[c]) /\ c \in Sock /\ sock[c] \in SocketState
  BY LocalFacts
<1>2. q.st = "IDLE" /\ c = <<p, "create">>
  BY <1>1 DEF Start, Own, Current
<1>3. down[c] = <<>> /\ Sound(sock[c]) /\ Calm(q, sock[c], down[c])
  BY <1>1, <1>2 DEF Queue, CalmInv
<1>4. /\ page' = [page EXCEPT ![p] = n] /\ sock' = [sock EXCEPT ![c] = l] /\ UNCHANGED <<down, room>>
  BY <1>1, <1>2 DEF Start, OpenWith, TypeOK
<1>5. n.intentTried = q.intentTried /\ n.reason = q.reason
  BY <1>1 DEF PageState
<1>6. l.client = "open" /\ l.server = "open" /\ l.lost = sock[c].lost /\ l.paired = sock[c].paired
  BY <1>1, OpenTyped
<1> HIDE DEF n, l
<1>7. sock'[c] = l /\ \A t \in Sock : t # c => sock'[t] = sock[t] /\ down'[t] = down[t]
  BY <1>1, <1>4 DEF TypeOK
<1>8. Sound(l) /\ Calm(n, l, down[c])
  BY <1>3, <1>5, <1>6 DEF Sound, Calm
<1>9. /\ Sound(sock'[c]) /\ Calm(n, sock'[c], down'[c]) /\ sock'[c].paired = sock[c].paired
      /\ Within(down'[c], down[c])
  BY <1>4, <1>6, <1>7, <1>8 DEF Within
<1>10. page' = [page EXCEPT ![p] = n] /\ room' = room /\ n.intentTried = page[p].intentTried
  BY <1>4, <1>5
<1>11. PICK e : e = c
  OBVIOUS
<1>12. QED
  BY <1>7, <1>9, <1>10, <1>11, CalmPage

\* The page keeps its socket open when a frame that is no refusal arrives.
LEMMA CalmTail ==
  ASSUME NEW q, NEW n, NEW k, NEW d \in Seq(Frame), d # <<>>, Calm(q, k, d),
         n.reason \in {"none", "ROOM_FULL"}, NEW l, l.server = k.server,
         l.client # "open" \/ (l.client = k.client /\ Head(d).type \notin Refusal)
  PROVE  /\ Calm(n, l, Tail(d)) /\ d[1] = Head(d) /\ 1 \in 1..Len(d)
         /\ Within(Tail(d), d)
<1>1. /\ Len(Tail(d)) = Len(d) - 1 /\ d[1] = Head(d) /\ 1 \in 1..Len(d)
      /\ \A i \in 1..Len(Tail(d)) : i + 1 \in 1..Len(d) /\ Tail(d)[i] = d[i + 1]
  OBVIOUS
<1>2. \A i \in 1..Len(Tail(d)) : \E j \in 1..Len(d) : Tail(d)[i] = d[j]
  BY <1>1
<1>3. \A i \in 1..Len(Tail(d)) : \/ Tail(d)[i].type \in {"ACK", "PEER_JOINED", "HANDSHAKE"}
                                 \/ Tail(d)[i].type \in Refusal /\ l.server = "closed"
  BY <1>2 DEF Calm
<1>4. ~(l.client = "open" /\ l.server = "closed")
  BY <1>1 DEF Calm
<1>5. QED
  BY <1>1, <1>2, <1>3, <1>4 DEF Calm, Within

LEMMA ReopenCalm ==
  ASSUME BaseInv, CalmInv, NEW p \in Page, Arrives(Current(p), "ROOM_ALREADY_EXISTS"),
         page' = [page EXCEPT ![p].st = "CONNECTING", ![p].intentTried = "join"],
         OpenWith(<<p, "join">>, [sock EXCEPT ![Current(p)].client = "closing"])
  PROVE  CalmInv'
<1> DEFINE c == Current(p)
           j == <<p, "join">>
<1>1. /\ c = <<p, "create">> /\ page'[p].intentTried = "join" /\ down'[j] = <<>>
      /\ \A s \in Sock : s[1] # p => Same(s)
      /\ \A x \in Page : x # p => page'[x] = page[x]
      /\ page'[p].reason = page[p].reason
      /\ sock'[c].server = "closed" /\ sock'[c].lost = sock[c].lost
      /\ sock'[j].client = "open" /\ sock'[j].server = "open"
      /\ sock'[j].paired = FALSE
      /\ sock'[j].lost = sock[j].lost
  BY ReopenBase
<1>2. TypeOK /\ room' = room /\ c \in Sock /\ j \in Sock /\ down[c] \in Seq(Frame)
  BY LocalFacts, SockFacts DEF Arrives
<1>3. room.state # "none"
  <2>1. down[c] # <<>> /\ Head(down[c]).type = "ROOM_ALREADY_EXISTS"
    BY DEF Arrives
  <2>2. 1 \in 1..Len(down[c]) /\ down[c][1] = Head(down[c])
    BY <1>2, <2>1
  <2>3. QED
    BY <2>1, <2>2 DEF CalmInv, Vacant
<1>4. ASSUME NEW s \in Sock PROVE Sound(sock'[s])
  <2>1. s[1] # p \/ s = c \/ s = j
    BY <1>1, SockFacts
  <2>2. QED
    BY <1>1, <1>2, <2>1 DEF CalmInv, Sound, Same
<1>5. Current(p)' = j /\ \A x \in Page : x # p => /\ Current(x)' = Current(x) /\ Same(Current(x))
                                                  /\ page'[x] = page[x]
  BY <1>1, <1>2, CurrentSock DEF Current
<1>6. Calm(page'[p], sock'[j], down'[j])
  BY <1>1 DEF CalmInv, Calm
<1>7. \A s : Member(s)' = Member(s)
  BY <1>2 DEF Member
<1>8. ASSUME NEW x \in Page
      PROVE  (/\ Calm(page[x], sock[Current(x)], down[Current(x)])
              /\ sock[Current(x)].paired = TRUE => Member(Current(x)))'
  <2>1. CASE x = p
    BY <1>1, <1>5, <1>6, <2>1
  <2>2. CASE x # p
    BY <1>5, <1>7, <2>2 DEF CalmInv, Same
  <2>3. QED
    BY <2>1, <2>2
<1>9. QED
  BY <1>2, <1>3, <1>4, <1>8 DEF CalmInv, Vacant
\* A frame arrives that is no refusal: the page keeps its socket.
LEMMA TakeCalm ==
  ASSUME BaseInv, CalmInv, NEW p \in Page, NEW c, c = Current(p), NEW type, type \notin Refusal,
         Arrives(c, type), sock' = sock, NEW n, page' = [page EXCEPT ![p] = n],
         n.intentTried = page[p].intentTried, n.reason = page[p].reason
  PROVE  CalmInv'
<1>1. TypeOK /\ c \in Sock /\ down[c] \in Seq(Frame) /\ sock[c] \in SocketState
  BY LocalFacts
<1>2. Calm(page[p], sock[c], down[c]) /\ Sound(sock[c])
  BY <1>1 DEF CalmInv
<1>3. /\ down[c] # <<>> /\ Head(down[c]).type \notin Refusal /\ room' = room
      /\ down'[c] = Tail(down[c]) /\ \A t \in Sock : t # c => down'[t] = down[t]
  BY <1>1 DEF Arrives, TypeOK
<1>4. n.reason \in {"none", "ROOM_FULL"}
  BY <1>2 DEF Calm
<1>5. /\ Calm(n, sock[c], Tail(down[c]))
      /\ Within(Tail(down[c]), down[c])
  BY <1>1, <1>2, <1>3, <1>4, CalmTail
<1>6. QED
  BY <1>2, <1>3, <1>5, CalmPage

LEMMA TurnedAwayCalm ==
  ASSUME BaseInv, CalmInv, NEW p \in Page, Arrives(Current(p), "ROOM_FULL"),
         Terminate(p, "ROOM_FULL")
  PROVE  CalmInv'
<1> DEFINE n == EndedAs(page[p], "ROOM_FULL")
<1>1. PICK c : c = Current(p)
  OBVIOUS
<1> DEFINE l == [sock[c] EXCEPT !.client = "closed"]
<1>2. /\ TypeOK /\ page[p] \in PageState /\ c \in Sock /\ down[c] \in Seq(Frame)
      /\ sock[c] \in SocketState
  BY <1>1, LocalFacts
<1>3. Calm(page[p], sock[c], down[c]) /\ Sound(sock[c])
  BY <1>1, <1>2 DEF CalmInv
<1>4. /\ down[c] # <<>> /\ Head(down[c]).type = "ROOM_FULL" /\ room' = room
      /\ down'[c] = Tail(down[c]) /\ \A t \in Sock : t # c => down'[t] = down[t]
  BY <1>1, <1>2 DEF Arrives, TypeOK
<1>5. page' = [page EXCEPT ![p] = n] /\ sock' = [sock EXCEPT ![c] = l]
  BY <1>1, <1>2 DEF Terminate, TypeOK
<1>6. n.reason = "ROOM_FULL" /\ n.intentTried = page[p].intentTried
  BY <1>2, EndedTyped DEF Reason, ErrorCode
<1>7. l.client = "closed" /\ l.server = sock[c].server /\ l.lost = sock[c].lost
      /\ l.paired = sock[c].paired
  BY <1>2, ClientTyped
<1> HIDE DEF n, l
<1>8. sock'[c] = l /\ \A t \in Sock : t # c => sock'[t] = sock[t]
  BY <1>2, <1>5 DEF TypeOK
<1>9. sock[c].server = "closed"
  <2>1. 1 \in 1..Len(down[c]) /\ down[c][1] = Head(down[c])
    BY <1>2, <1>4
  <2>2. QED
    BY <1>3, <1>4, <2>1 DEF Calm
<1>10. Sound(l)
  BY <1>3, <1>7, <1>9 DEF Sound
<1>11. n.reason \in {"none", "ROOM_FULL"} /\ l.client # "open"
  BY <1>6, <1>7
<1>12. /\ Calm(n, l, Tail(down[c]))
       /\ Within(Tail(down[c]), down[c])
  BY <1>2, <1>3, <1>4, <1>7, <1>11, CalmTail
<1>13. /\ Sound(sock'[c]) /\ sock'[c].paired = sock[c].paired /\ Calm(n, sock'[c], down'[c])
       /\ Within(down'[c], down[c])
       /\ \A t \in Sock : t # c => sock'[t] = sock[t] /\ down'[t] = down[t]
  BY <1>4, <1>7, <1>8, <1>10, <1>12
<1>14. page' = [page EXCEPT ![p] = n] /\ room' = room /\ n.intentTried = page[p].intentTried
  BY <1>4, <1>5, <1>6
<1>15. QED
  BY <1>1, <1>13, <1>14, CalmPage

LEMMA ArriveCalm ==
  ASSUME BaseInv, CalmInv, NEW p \in Page, Arrive(p)
  PROVE  CalmInv'
<1>1. PICK c : c = Current(p)
  OBVIOUS
<1> DEFINE q == page[p]
           f == Head(down[c])
<1>2. /\ TypeOK /\ q \in PageState /\ c \in Sock /\ down[c] \in Seq(Frame)
  BY <1>1, LocalFacts
<1>3. CASE /\ Arrives(c, "ACK")
           /\ page' = [page EXCEPT ![p] =
                IF f.role = "initiator" THEN [@ EXCEPT !.role = f.role, !.st = "WAITING_FOR_PEER"]
                ELSE SendLocalHandshake([@ EXCEPT !.role = f.role])]
           /\ sock' = sock
  <2>1. Head(down[c]) \in Frame /\ Head(down[c]).type = "ACK"
    BY <1>2, <1>3 DEF Arrives
  <2>2. f.role \in Role \cup {"undefined"}
    BY <2>1 DEF Frame
  <2> DEFINE m == [q EXCEPT !.role = f.role]
             o == [q EXCEPT !.role = f.role, !.st = "WAITING_FOR_PEER"]
             n == IF f.role = "initiator" THEN o ELSE SendLocalHandshake(m)
  <2>3. m \in PageState
    BY <1>2, <2>2 DEF PageState
  <2>4. /\ m.intentTried = q.intentTried /\ m.reason = q.reason
        /\ o.intentTried = q.intentTried /\ o.reason = q.reason
    BY <1>2 DEF PageState
  <2>5. page' = [page EXCEPT ![p] = n]
    BY <1>2, <1>3 DEF TypeOK
  <2> HIDE DEF m, o
  <2>6. n.intentTried = q.intentTried /\ n.reason = q.reason
    BY <2>3, <2>4, SendTyped
  <2> HIDE DEF n
  <2>7. "ACK" \notin Refusal
    BY DEF Refusal
  <2>8. QED
    BY <1>1, <1>3, <2>5, <2>6, <2>7, TakeCalm
<1>4. CASE /\ Arrives(c, "PEER_JOINED")
           /\ page' = [page EXCEPT ![p] = IF @.st = "ACTIVE" THEN @ ELSE SendLocalHandshake(@)]
           /\ sock' = sock
  <2> DEFINE n == IF q.st = "ACTIVE" THEN q ELSE SendLocalHandshake(q)
  <2>1. page' = [page EXCEPT ![p] = n]
    BY <1>2, <1>4 DEF TypeOK
  <2>2. n.intentTried = q.intentTried /\ n.reason = q.reason
    BY <1>2, SendTyped
  <2> HIDE DEF n
  <2>3. "PEER_JOINED" \notin Refusal
    BY DEF Refusal
  <2>4. QED
    BY <1>1, <1>4, <2>1, <2>2, <2>3, TakeCalm
<1>5. CASE /\ Arrives(c, "HANDSHAKE")
           /\ page' = [page EXCEPT ![p].inq = Append(@, f.from)]
           /\ sock' = sock
  <2> DEFINE n == [q EXCEPT !.inq = Append(@, f.from)]
  <2>1. page' = [page EXCEPT ![p] = n]
    BY <1>2, <1>5 DEF TypeOK
  <2>2. n.intentTried = q.intentTried /\ n.reason = q.reason
    BY <1>2 DEF PageState
  <2> HIDE DEF n
  <2>3. "HANDSHAKE" \notin Refusal
    BY DEF Refusal
  <2>4. QED
    BY <1>1, <1>5, <2>1, <2>2, <2>3, TakeCalm
<1>6. ASSUME NEW code, Arrives(c, code),
             code = "PEER_DISCONNECTED" \/ code \in ErrorCode \ {"ROOM_ALREADY_EXISTS"}
      PROVE  code = "ROOM_FULL"
  <2>1. down[c] # <<>> /\ Head(down[c]).type = code
    BY <1>6 DEF Arrives
  <2>2. 1 \in 1..Len(down[c]) /\ down[c][1] = Head(down[c])
    BY <1>2, <2>1
  <2>3. code \in {"ACK", "PEER_JOINED", "HANDSHAKE"} \cup Refusal
    BY <1>1, <2>1, <2>2 DEF CalmInv, Calm
  <2>4. QED
    BY <1>6, <2>3 DEF ErrorCode, Refusal
<1>7. CASE Arrives(c, "PEER_DISCONNECTED")
  BY <1>6, <1>7
<1>8. CASE /\ Arrives(c, "ROOM_ALREADY_EXISTS")
           /\ page' = [page EXCEPT ![p].st = "CONNECTING", ![p].intentTried = "join"]
           /\ OpenWith(<<p, "join">>, [sock EXCEPT ![c].client = "closing"])
  BY <1>1, <1>8, ReopenCalm
<1>9. ASSUME NEW code \in ErrorCode \ {"ROOM_ALREADY_EXISTS"}, Arrives(c, code), Terminate(p, code)
      PROVE  CalmInv'
  <2>1. code = "ROOM_FULL"
    BY <1>6, <1>9
  <2>2. QED
    BY <1>1, <1>9, <2>1, TurnedAwayCalm
<1>10. QED
  BY <1>1, <1>3, <1>4, <1>5, <1>7, <1>8, <1>9 DEF Arrive

\* The page hears of the close of a socket only when it has left it already.
LEMMA SocketClosesCalm ==
  ASSUME BaseInv, CalmInv, NEW s \in Sock, SocketCloses(s)
  PROVE  CalmInv'
<1>1. PICK p : p = s[1]
  OBVIOUS
<1> DEFINE l == [sock[s] EXCEPT !.client = "closed"]
<1>2. p \in Page /\ Sound(sock[s])
  BY <1>1, SockFacts DEF CalmInv
<1>3. /\ TypeOK /\ Current(p) \in Sock /\ sock[s] \in SocketState
      /\ page[p] \in PageState
      /\ Line(page[p], sock[Current(p)], up[Current(p)])
      /\ Calm(page[p], sock[Current(p)], down[Current(p)])
  BY <1>2, LocalFacts DEF TypeOK, CalmInv
<1>4. s # Current(p)
  <2> SUFFICES ASSUME s = Current(p) PROVE FALSE
    OBVIOUS
  <2>1. page[p].st # "IDLE" \/ sock[s].client = "none"
    BY <1>3 DEF Line, Unopened
  <2>2. sock[s].client # "closing"
    BY <1>3, <2>1 DEF Line
  <2>3. sock[s].client = "open" /\ sock[s].server = "closed" /\ down[s] = <<>>
    BY <1>2, <2>2 DEF SocketCloses, Sound
  <2>4. Len(down[s]) = 1
    BY <1>3, <2>3 DEF Calm
  <2>5. QED
    BY <2>3, <2>4
<1>5. page' = page /\ sock' = [sock EXCEPT ![s] = l] /\ UNCHANGED <<down, room>>
  BY <1>1, <1>3, <1>4 DEF SocketCloses, CloseConcerns, TypeOK
<1>6. sock[s].client # "open"
  BY <1>1, <1>4, ServedIsCurrent
<1>7. sock[s].server = "closed"
  BY <1>2, <1>6 DEF SocketCloses, Sound
<1>8. l.server = "closed" /\ l.lost = sock[s].lost
  BY <1>3, <1>7, ClientTyped
<1> HIDE DEF l
<1>9. sock'[s] = l /\ \A t \in Sock : t # s => sock'[t] = sock[t]
  BY <1>3, <1>5 DEF TypeOK
<1>10. \A t \in Sock : Sound(sock'[t])
  BY <1>2, <1>8, <1>9 DEF CalmInv, Sound
<1>11. \A x \in Page : Current(x) \in Sock /\ Current(x) # s
  BY <1>1, <1>3, <1>4, CurrentSock
<1>12. \A x \in Page : Current(x)' = Current(x) /\ Member(Current(x))' = Member(Current(x))
  BY <1>5 DEF Current, Member
<1>13. \A x \in Page : (/\ Calm(page[x], sock[Current(x)], down[Current(x)])
                        /\ sock[Current(x)].paired = TRUE => Member(Current(x)))'
  BY <1>5, <1>9, <1>11, <1>12 DEF CalmInv
<1>14. Vacant'
  BY <1>5, <1>12 DEF CalmInv, Vacant
<1>15. QED
  BY <1>10, <1>13, <1>14 DEF CalmInv

\* The server sends a frame to a socket that it has open.
LEMMA CalmAppend ==
  ASSUME NEW q, NEW k, NEW l, NEW d \in Seq(Frame), NEW f \in Frame, Calm(q, k, d),
         f.type \in {"ACK", "PEER_JOINED", "HANDSHAKE"}, l.server = "open", k.server = "open",
         NEW e, e \in {d, Append(d, f)}
  PROVE  Calm(q, l, e)
<1>1. \A i \in 1..Len(d) : d[i].type \in {"ACK", "PEER_JOINED", "HANDSHAKE"}
  BY DEF Calm
<1>2. \A i \in 1..Len(e) : e[i] = f \/ (i \in 1..Len(d) /\ e[i] = d[i])
  OBVIOUS
<1>3. \A i \in 1..Len(e) : e[i].type \in {"ACK", "PEER_JOINED", "HANDSHAKE"}
  BY <1>1, <1>2
<1>4. QED
  BY <1>3 DEF Calm

\* A HELLO is refused: the page has its socket open and is told so.
LEMMA RefusedCalm ==
  ASSUME BaseInv, CalmInv, NEW s \in Sock, Receives(s, "HELLO"), NEW code \in Refusal,
         ErrorAndClose(s, code), room.state # "none"
  PROVE  CalmInv'
<1> DEFINE f == Notice(code)
           l == [sock[s] EXCEPT !.server = "closed"]
<1>1. PICK p : p = s[1]
  OBVIOUS
<1>2. /\ p \in Page /\ s = Current(p) /\ page[p].st # "IDLE"
      /\ sock[s].server = "open" /\ up[s] = <<"HELLO">> /\ page' = page
  BY <1>1, ReceivesFacts
<1>3. sock[s].paired = FALSE /\ down[s] = <<>> /\ ~Member(s)
  BY <1>1, <1>2, HelloFacts
<1>4. /\ TypeOK /\ sock[s] \in SocketState /\ Line(page[p], sock[s], up[s])
      /\ Calm(page[p], sock[s], down[s]) /\ Sound(sock[s])
  BY <1>2, LocalFacts DEF CalmInv
<1>5. sock[s].client = "open" /\ sock[s].lost = FALSE
  BY <1>2, <1>4 DEF Line, Sound
<1>6. s # NoSock /\ ~InRoom(s)
  BY <1>3, SockFacts DEF Member, InRoom
<1>7. Reaches(s)
  BY <1>2, <1>5, <1>6 DEF Reaches
<1>8. room' = room /\ sock' = [sock EXCEPT ![s] = l] /\ down' = Push(down, s, f)
  BY <1>4, <1>6 DEF ErrorAndClose, Leaves, TypeOK
<1>9. f \in Frame /\ f.type = code
  BY NoticeTyped DEF Refusal, FrameType, ErrorCode
<1>10. /\ l.server = "closed" /\ l.lost = FALSE /\ l.paired = FALSE /\ l.client = "open"
  BY <1>3, <1>4, <1>5, ClosedTyped
<1> HIDE DEF f, l
<1>11. Pushes(down', down, s, f)
  BY <1>4, <1>8, <1>9, PushFacts DEF TypeOK
<1>12. down'[s] = Append(<<>>, f) /\ \A t \in Sock : t # s => down'[t] = down[t]
  BY <1>3, <1>7, <1>11 DEF Pushes
<1>13. Len(down'[s]) = 1 /\ down'[s][1] = f
  BY <1>9, <1>12
<1>14. sock'[s] = l /\ \A t \in Sock : t # s => sock'[t] = sock[t]
  BY <1>4, <1>8 DEF TypeOK
<1>15. Calm(page[p], l, down'[s])
  <2>1. \A i \in 1..Len(down'[s]) : down'[s][i].type \in Refusal
    BY <1>9, <1>13
  <2>2. QED
    BY <1>4, <1>9, <1>10, <1>13, <2>1 DEF Calm
<1>16. \A t \in Sock : Sound(sock'[t])
  BY <1>10, <1>14 DEF CalmInv, Sound
<1>17. \A x \in Page : /\ Current(x) \in Sock /\ Current(x)' = Current(x)
                       /\ Member(Current(x))' = Member(Current(x))
                       /\ x # p => Current(x) # s
  BY <1>1, <1>2, <1>4, <1>8, CurrentSock DEF Current, Member
<1>18. ASSUME NEW x \in Page
       PROVE  (/\ Calm(page[x], sock[Current(x)], down[Current(x)])
               /\ sock[Current(x)].paired = TRUE => Member(Current(x)))'
  <2>1. CASE x = p
    BY <1>2, <1>10, <1>14, <1>15, <1>17, <2>1
  <2>2. CASE x # p
    BY <1>2, <1>12, <1>14, <1>17, <2>2 DEF CalmInv
  <2>3. QED
    BY <2>1, <2>2
<1>19. Vacant'
  BY <1>8 DEF Vacant
<1>20. QED
  BY <1>16, <1>18, <1>19 DEF CalmInv

LEMMA CreateCalm ==
  ASSUME BaseInv, CalmInv, NEW s \in Sock, HelloCreate(s)
  PROVE  CalmInv'
<1>1. s[2] = "create" /\ Receives(s, "HELLO")
  BY DEF HelloCreate
<1>2. CASE room.state # "none" /\ ErrorAndClose(s, "ROOM_ALREADY_EXISTS")
  BY <1>1, <1>2, RefusedCalm DEF Refusal
<1>3. CASE /\ room.state = "none" /\ sock' = sock
           /\ room' = [state |-> "WAITING", initiator |-> s, joiner |-> NoSock]
           /\ down' = Push(down, s, [Notice("ACK") EXCEPT !.role = "initiator"])
  <2> DEFINE f == [Notice("ACK") EXCEPT !.role = "initiator"]
  <2>1. s = Current(s[1]) /\ s[1] \in Page /\ sock[s].server = "open" /\ page' = page
    BY <1>1, ReceivesFacts
  <2>2. f \in Frame /\ f.type = "ACK"
    BY NoticeTyped DEF FrameType, Role
  <2> HIDE DEF f
  <2>3. TypeOK /\ down \in [Sock -> Seq(Frame)] /\ Layout
    BY DEF BaseInv, TypeOK, RoomInv
  <2>4. Pushes(down', down, s, f)
    BY <1>3, <2>2, <2>3, PushFacts DEF f
  <2>5. down'[s] \in {down[s], Append(down[s], f)} /\ \A t \in Sock : t # s => down'[t] = down[t]
    BY <2>4 DEF Pushes
  <2>6. \A t : ~Member(t)
    BY <1>3, <2>3 DEF Layout, Member
  <2>7. \A x \in Page : Current(x) \in Sock /\ Current(x)' = Current(x)
    BY <2>1, <2>3, CurrentSock DEF Current
  <2>8. ASSUME NEW x \in Page
        PROVE  Calm(page[x], sock[Current(x)], down'[Current(x)])
    <3>1. Calm(page[x], sock[Current(x)], down[Current(x)])
      BY DEF CalmInv
    <3>2. CASE Current(x) = s
      <4>1. down[s] \in Seq(Frame) /\ Calm(page[x], sock[s], down[s])
        BY <2>3, <3>1, <3>2
      <4>2. Calm(page[x], sock[s], down'[s])
        BY <2>1, <2>2, <2>5, <4>1, CalmAppend
      <4>3. QED
        BY <3>2, <4>2
    <3>3. CASE Current(x) # s
      BY <2>5, <2>7, <3>1, <3>3
    <3>4. QED
      BY <3>2, <3>3
  <2>9. \A x \in Page : sock[Current(x)].paired # TRUE
    BY <2>6 DEF CalmInv
  <2>10. Vacant'
    BY <1>3 DEF Vacant
  <2>11. \A x \in Page : (/\ Calm(page[x], sock[Current(x)], down[Current(x)])
                          /\ sock[Current(x)].paired = TRUE => Member(Current(x)))'
    BY <1>3, <2>1, <2>7, <2>8, <2>9
  <2>12. \A t \in Sock : Sound(sock'[t])
    BY <1>3 DEF CalmInv
  <2>13. QED
    BY <2>10, <2>11, <2>12 DEF CalmInv
<1>4. QED
  BY <1>2, <1>3 DEF HelloCreate

LEMMA JoinedCalm ==
  ASSUME BaseInv, CalmInv, NEW s \in Sock, NEW i, Joins(s, i), room'.state = "PAIRED",
         s = Current(s[1]), s[1] \in Page, sock[s].server = "open"
  PROVE  CalmInv'
<1>1. PICK f, g \in Frame : /\ f.type = "ACK" /\ g.type = "PEER_JOINED"
                            /\ down'[s] \in {down[s], Append(down[s], f)}
                            /\ down'[i] \in {down[i], Append(down[i], g)}
  BY DEF Joins
<1>2. /\ i \in Sock /\ Member(i) /\ i # s /\ page' = page /\ room.joiner = NoSock
      /\ room'.initiator = i /\ room'.joiner = s
      /\ \A t \in Sock : t # i /\ t # s => Same(t)
      /\ \A t \in Sock : /\ sock'[t].client = sock[t].client /\ sock'[t].server = sock[t].server
                         /\ sock'[t].lost = sock[t].lost
  BY DEF Joins
<1>3. sock[i].server = "open" /\ TypeOK
  BY <1>2 DEF BaseInv, RoomInv, Seat
<1>4. \A x \in Page : /\ Current(x) \in Sock /\ Current(x)' = Current(x)
                      /\ down[Current(x)] \in Seq(Frame)
  BY <1>2, <1>3, CurrentSock DEF Current
<1>5. \A t \in Sock : Sound(sock'[t])
  BY <1>2 DEF CalmInv, Sound
<1>6. s # NoSock /\ i # NoSock
  BY <1>2, SockFacts
<1>7. \A t : Member(t) => t = i
  BY <1>2 DEF Member
<1>8. Member(i)' /\ Member(s)'
  BY <1>2, <1>6 DEF Member
<1>9. ASSUME NEW x \in Page
      PROVE  (/\ Calm(page[x], sock[Current(x)], down[Current(x)])
              /\ sock[Current(x)].paired = TRUE => Member(Current(x)))'
  <2>1. PICK c : c = Current(x)
    OBVIOUS
  <2>2. /\ Calm(page[x], sock[c], down[c]) /\ (sock[c].paired = TRUE => Member(c))
        /\ c \in Sock /\ down[c] \in Seq(Frame) /\ Current(x)' = c
    BY <1>4, <2>1 DEF CalmInv
  <2>3. Calm(page[x], sock'[c], down'[c]) /\ (sock'[c].paired = TRUE => c = s \/ c = i)
    <3>1. CASE c = s
      BY <1>1, <1>2, <2>2, <3>1, CalmAppend
    <3>2. CASE c = i
      BY <1>1, <1>2, <1>3, <2>2, <3>2, CalmAppend
    <3>3. CASE c # s /\ c # i
      BY <1>2, <1>7, <2>2, <3>3 DEF Same
    <3>4. QED
      BY <3>1, <3>2, <3>3
  <2>4. QED
    BY <1>2, <1>8, <2>2, <2>3 DEF Member
<1>10. Vacant'
  BY DEF Vacant
<1>11. QED
  BY <1>5, <1>9, <1>10 DEF CalmInv

LEMMA JoinCalm ==
  ASSUME BaseInv, CalmInv, NEW s \in Sock, HelloJoin(s)
  PROVE  CalmInv'
<1>1. s[2] = "join" /\ Receives(s, "HELLO") /\ UNCHANGED faults
  BY DEF HelloJoin
<1>2. /\ s[1] \in Page /\ s = Current(s[1]) /\ sock[s].server = "open" /\ up[s] = <<"HELLO">>
  BY <1>1, ReceivesFacts
<1>3. room.state # "none"
  <2>1. page[s[1]].intentTried = "join"
    BY <1>1, <1>2, HelloFacts
  <2>2. QED
    BY <1>2, <2>1 DEF CalmInv, Vacant
<1>4. CASE ErrorAndClose(s, "ROOM_FULL")
  BY <1>1, <1>3, <1>4, RefusedCalm DEF Refusal
<1>5. CASE /\ room.state = "WAITING"
           /\ room' = [room EXCEPT !.state = "PAIRED", !.joiner = s]
           /\ sock' = [sock EXCEPT ![s].paired = TRUE, ![room.initiator].paired = TRUE]
           /\ down' = Push(Push(down, s, [Notice("ACK") EXCEPT !.role = "joiner"]),
                           room.initiator, Notice("PEER_JOINED"))
  <2>1. PICK i : i = room.initiator
    OBVIOUS
  <2>2. Joins(s, i)
    BY <1>1, <1>5, <2>1, JoinedBase
  <2>3. room'.state = "PAIRED"
    BY <1>5 DEF BaseInv, TypeOK, RoomState
  <2>4. QED
    BY <1>2, <2>2, <2>3, JoinedCalm
<1>6. QED
  BY <1>3, <1>4, <1>5 DEF HelloJoin, Joinable

LEMMA ForwardedCalm ==
  ASSUME BaseInv, CalmInv, NEW s \in Sock, NEW r, NEW f, Forwards(s, r, f), room' = room
  PROVE  CalmInv'
<1>1. /\ r \in Sock /\ r # s /\ page' = page /\ r = Current(r[1]) /\ s = Current(s[1])
      /\ Together(s[1], r[1]) /\ f \in Frame /\ f.type = "HANDSHAKE"
      /\ \A t \in Sock : t # s /\ t # r => Same(t)
      /\ sock'[s].paired = sock[s].paired /\ sock'[r] = sock[r] /\ down'[s] = down[s]
      /\ down'[r] \in {down[r], Append(down[r], f)}
      /\ \A t \in Sock : /\ sock'[t].client = sock[t].client /\ sock'[t].server = sock[t].server
                         /\ sock'[t].lost = sock[t].lost
  BY DEF Forwards
<1>2. Member(r)
  BY <1>1, SockFacts DEF Together, Member
<1>3. sock[r].server = "open" /\ TypeOK
  BY <1>1, <1>2 DEF BaseInv, RoomInv, Seat
<1>4. \A x \in Page : /\ Current(x) \in Sock /\ Current(x)' = Current(x)
                      /\ down[Current(x)] \in Seq(Frame)
                      /\ Member(Current(x))' = Member(Current(x))
  BY <1>1, <1>3, CurrentSock DEF Current, Member
<1>5. \A t \in Sock : Sound(sock'[t])
  BY <1>1 DEF CalmInv, Sound
<1>6. \A t \in Sock : /\ sock'[t].paired = sock[t].paired
                      /\ t # r => down'[t] = down[t]
  BY <1>1 DEF Same
<1>7. ASSUME NEW x \in Page
      PROVE  /\ Calm(page[x], sock'[Current(x)], down'[Current(x)])
             /\ sock'[Current(x)].paired = TRUE => Member(Current(x))
  <2>1. PICK c : c = Current(x)
    OBVIOUS
  <2>2. /\ Calm(page[x], sock[c], down[c]) /\ (sock[c].paired = TRUE => Member(c))
        /\ c \in Sock /\ down[c] \in Seq(Frame)
    BY <1>4, <2>1 DEF CalmInv
  <2>3. Calm(page[x], sock'[c], down'[c])
    <3>1. CASE c = r
      BY <1>1, <1>3, <2>2, <3>1, CalmAppend
    <3>2. CASE c # r
      BY <1>1, <1>6, <2>2, <3>2 DEF Calm
    <3>3. QED
      BY <3>1, <3>2
  <2>4. QED
    BY <1>6, <2>1, <2>2, <2>3
<1>8. \A x \in Page : (/\ Calm(page[x], sock[Current(x)], down[Current(x)])
                       /\ sock[Current(x)].paired = TRUE => Member(Current(x)))'
  BY <1>1, <1>4, <1>7
<1>9. Vacant'
  <2> SUFFICES ASSUME room.state = "none" PROVE FALSE
    BY DEF Vacant
  <2>1. QED
    BY <1>2, SockFacts DEF BaseInv, RoomInv, Layout, Member
<1>10. QED
  BY <1>5, <1>8, <1>9 DEF CalmInv

LEMMA ForwardCalm ==
  ASSUME BaseInv, MatchInv, CalmInv, NEW s \in Sock, ForwardHandshake(s)
  PROVE  CalmInv'
<1>1. Receives(s, "HANDSHAKE") /\ UNCHANGED faults
  BY DEF ForwardHandshake
<1>2. /\ s[1] \in Page /\ s = Current(s[1]) /\ up[s] = <<"HANDSHAKE">> /\ page' = page
  BY <1>1, ReceivesFacts
<1>3. InRoom(s)
  <2>1. sock[s].paired = TRUE
    BY <1>2, LocalFacts DEF Line
  <2>2. Member(s)
    BY <1>2, <2>1 DEF CalmInv
  <2>3. QED
    BY <2>2 DEF BaseInv, RoomInv, Layout, Member, InRoom
<1>4. CASE PeerOf(s) = NoSock /\ UNCHANGED <<sock, down, room>>
  BY <1>2, <1>4 DEF CalmInv, Vacant, Current, Member
<1>5. CASE /\ PeerOf(s) # NoSock
           /\ sock' = [sock EXCEPT ![s].handshakeForwards = @ + 1]
           /\ down' = Push(down, PeerOf(s), [Notice("HANDSHAKE") EXCEPT !.from = s[1]])
           /\ UNCHANGED room
  <2>1. PICK r, f : r = PeerOf(s) /\ f = [Notice("HANDSHAKE") EXCEPT !.from = s[1]]
    OBVIOUS
  <2>2. Forwards(s, r, f)
    BY <1>1, <1>3, <1>5, <2>1, ForwardedBase
  <2>3. QED
    BY <1>5, <2>2, ForwardedCalm
<1>6. QED
  BY <1>3, <1>4, <1>5, ForwardCases

\* The server has no socket to give up.
LEMMA ServerNoticesCalm ==
  ASSUME BaseInv, CalmInv, NEW s \in Sock, ServerNotices(s)
  PROVE  CalmInv'
BY DEF ServerNotices, CalmInv, Sound

-----------------------------------------------------------------------------
(* Only a third page is turned away                                        *)

ThirdInv == MeetInv /\ (faults = <<>> => CalmInv)

LEMMA InitThird ==
  ASSUME Init
  PROVE  ThirdInv
<1>1. /\ \A p \in Page : /\ page[p].intentTried = "create" /\ page[p].reason = "none"
                         /\ Current(p) = <<p, "create">>
      /\ \A s \in Sock : /\ sock[s].client = "none" /\ sock[s].server = "none"
                         /\ sock[s].lost = FALSE /\ sock[s].paired = FALSE /\ down[s] = <<>>
  BY DEF Init, Current
<1>2. \A p \in Page : Current(p) \in Sock
  BY <1>1 DEF Sock
<1>3. \A s \in Sock : Sound(sock[s]) /\ Len(down[s]) = 0
  <2>1. \A d : d = <<>> => Len(d) = 0
    OBVIOUS
  <2>2. QED
    BY <1>1, <2>1 DEF Sound
<1>4. \A p \in Page : Calm(page[p], sock[Current(p)], down[Current(p)])
  BY <1>1, <1>2, <1>3 DEF Calm
<1>5. Vacant
  BY <1>1, <1>2, <1>3 DEF Vacant
<1>6. CalmInv
  BY <1>1, <1>2, <1>3, <1>4, <1>5 DEF CalmInv
<1>7. QED
  BY <1>6, InitMeet DEF ThirdInv

\* A step with a fault leaves nothing to show, and one without has seen none.
LEMMA NextThird ==
  ASSUME ThirdInv, Next
  PROVE  ThirdInv'
<1>1. MeetInv /\ MeetInv' /\ BaseInv /\ MatchInv
  BY NextMeet DEF ThirdInv, MeetInv
<1>2. SUFFICES ASSUME faults' = <<>> PROVE CalmInv'
  BY <1>1 DEF ThirdInv
<1>3. faults \in Seq(Faults)
  BY <1>1 DEF BaseInv, TypeOK
<1>4. ASSUME NEW f PROVE ~Fault(f)
  <2> SUFFICES ASSUME Fault(f) PROVE FALSE
    OBVIOUS
  <2>1. f \in Faults /\ faults' = Append(faults, f)
    BY DEF Fault
  <2>2. Append(faults, f) # <<>>
    BY <1>3, <2>1
  <2>3. QED
    BY <1>2, <2>1, <2>2
<1>5. UNCHANGED faults => CalmInv
  BY <1>2 DEF ThirdInv
<1>6. ASSUME NEW p \in Page, Start(p) PROVE CalmInv'
  BY <1>1, <1>5, <1>6, StartCalm DEF Start
<1>7. ASSUME NEW p \in Page, EphemeralReady(p) PROVE CalmInv'
  BY <1>1, <1>5, <1>7, EphemeralReadyCalm DEF EphemeralReady
<1>8. ASSUME NEW p \in Page, HandshakeWrapped(p) PROVE CalmInv'
  BY <1>1, <1>5, <1>8, HandshakeWrappedCalm DEF HandshakeWrapped
<1>9. ASSUME NEW p \in Page, HandleHandshake(p) PROVE CalmInv'
  BY <1>1, <1>5, <1>9, HandleHandshakeCalm DEF HandleHandshake
<1>10. ASSUME NEW p \in Page, HandshakeCompletes(p) PROVE CalmInv'
  BY <1>1, <1>5, <1>10, HandshakeCompletesCalm DEF HandshakeCompletes
<1>11. ASSUME NEW p \in Page, Arrive(p) PROVE CalmInv'
  BY <1>1, <1>5, <1>11, ArriveCalm DEF Arrive, Arrives
<1>12. ASSUME NEW s \in Sock, SocketCloses(s) PROVE CalmInv'
  BY <1>1, <1>5, <1>12, SocketClosesCalm DEF SocketCloses
<1>13. ASSUME NEW s \in Sock, HelloCreate(s) PROVE CalmInv'
  BY <1>1, <1>5, <1>13, CreateCalm DEF HelloCreate
<1>14. ASSUME NEW s \in Sock, HelloJoin(s) PROVE CalmInv'
  BY <1>1, <1>5, <1>14, JoinCalm DEF HelloJoin
<1>15. ASSUME NEW s \in Sock, ForwardHandshake(s) PROVE CalmInv'
  BY <1>1, <1>5, <1>15, ForwardCalm DEF ForwardHandshake
<1>16. ASSUME NEW s \in Sock, ServerNotices(s) PROVE CalmInv'
  BY <1>1, <1>5, <1>16, ServerNoticesCalm DEF ServerNotices
<1>17. /\ \A p \in Page : ~HandshakeFails(p) /\ ~Leave(p)
       /\ \A s \in Sock : ~Refused(s) /\ ~Drop(s)
       /\ ~Expire
  BY <1>4 DEF HandshakeFails, Leave, Refused, Drop, Expire
<1>18. QED
  BY <1>6, <1>7, <1>8, <1>9, <1>10, <1>11, <1>12, <1>13, <1>14, <1>15, <1>16, <1>17
     DEF Next, PageSteps, ServerSteps

LEMMA StutterThird ==
  ASSUME ThirdInv, UNCHANGED vars
  PROVE  ThirdInv'
<1>1. page' = page /\ sock' = sock /\ down' = down /\ room' = room /\ faults' = faults
  BY DEF vars
<1>2. faults = <<>> => CalmInv'
  BY <1>1 DEF ThirdInv, CalmInv, Vacant, Current, Member
<1>3. QED
  BY <1>1, <1>2, StutterMeet DEF ThirdInv

LEMMA ThirdTurnedAway ==
  ASSUME ThirdInv
  PROVE  OnlyThirdTurnedAway
<1>1. SUFFICES ASSUME NEW p \in Page
               PROVE  /\ page[p].reason \notin {"BAD_STATE", "handshake_unexpected"}
                      /\ faults = <<>> => page[p].reason \in {"none", "ROOM_FULL"}
  BY DEF OnlyThirdTurnedAway
<1>2. Own(page[p])
  BY LocalFacts DEF ThirdInv, MeetInv
<1>3. faults = <<>> => Calm(page[p], sock[Current(p)], down[Current(p)])
  BY DEF ThirdInv, CalmInv
<1>4. QED
  BY <1>2, <1>3 DEF Own, Calm

\* However ACK, PEER_JOINED and HANDSHAKE cross, nobody breaks the protocol; and
\* as long as no fault strikes, a page is turned away only because the room is
\* full, although it drops its first socket and opens another to join.
THEOREM OnlyAThirdIsTurnedAway == Spec => []OnlyThirdTurnedAway
<1>1. ThirdInv /\ [Next]_vars => ThirdInv'
  BY NextThird, StutterThird
<1>2. ThirdInv => OnlyThirdTurnedAway
  BY ThirdTurnedAway
<1>3. QED
  BY <1>1, <1>2, InitThird, PTL DEF Spec
=============================================================================
