------------------------------- MODULE Connect -------------------------------
(***************************************************************************)
(* From a link to a session: pages that open one link at the same time,    *)
(* the relay's room, and the key exchange of the two that meet in it       *)
(* (client/src/domain/session.ts from CONNECTING to ACTIVE, handshake.ts,  *)
(* transport/ws.ts).  No page has a record yet, so all are in RAM mode.    *)
(*                                                                         *)
(* A page first says HELLO with intent create; refused because the room    *)
(* exists, it opens a second socket with intent join.  A socket is named   *)
(* by its page and its intent, which stands for connectionGen.             *)
(*                                                                         *)
(* An ephemeral key is the name of the page that drew it, and a session    *)
(* key is the pair of them.  A page that is reloaded is another page.      *)
(***************************************************************************)
EXTENDS Naturals, Sequences, FiniteSets

CONSTANTS
  Pages,       \* bound: pages that open the link
  Faults,      \* the faults explored, among "leave", "drop", "expire", "refuse" and "failure"
  MaxFaults    \* bound: faults in a behaviour

ASSUME BoundAssumption == Pages \in Nat /\ MaxFaults \in Nat
ASSUME FaultAssumption ==
  Faults \subseteq {"leave", "drop", "expire", "refuse", "failure"}

\* Pages are numbered in the order in which they open the link.
Page == 1..Pages
NoPage == 0

MAX_HANDSHAKE_FORWARDS == 1
Role == {"initiator", "joiner"}
Sock == Page \X {"create", "join"}
NoSock == <<NoPage, "create">>
ErrorCode == {"ROOM_ALREADY_EXISTS", "ROOM_NOT_FOUND", "ROOM_FULL", "BAD_STATE", "INTERNAL",
              "RATE_LIMITED"}
FrameType == {"ACK", "PEER_JOINED", "PEER_DISCONNECTED", "HANDSHAKE"} \cup ErrorCode
Frame == [type : FrameType, role : Role \cup {"undefined"}, from : Page \cup {NoPage}]

VARIABLES
  page,     \* each page's startSession
  sock,     \* each socket: its two ends, and what ws.data has of it
  up,       \* frames on their way to the server
  down,     \* frames on their way to the page
  room,     \* the room of the link
  faults    \* the faults so far, in order

vars == <<page, sock, up, down, room, faults>>

PageState ==
  [st : {"IDLE", "CONNECTING", "WAITING_FOR_PEER", "HANDSHAKING", "ACTIVE", "TERMINATED"},
   intentTried : {"create", "join"},
   role : Role \cup {"undefined"},
   ephemeral : {"none", "ready", "failed"},               \* ephemeralPromise
   sending : {"no", "key", "wrap", "done", "failed"},     \* sendLocalHandshake, and what it awaits
   handling : {"no", "key", "derive"},                    \* handleHandshakeFrame likewise
   inq : Seq(Page),                                       \* HANDSHAKE frames in the inbound chain
   peer : Page \cup {NoPage},                             \* whose key the session key is made with
   reason : ErrorCode \cup {"none", "handshake_unexpected", "handshake_failed", "peer_gone",
                            "ws_close", "user_panic"}]    \* of the terminate

SocketState ==
  [client : {"none", "open", "closing", "closed"},
   server : {"none", "open", "closed"},
   lost : BOOLEAN,
   paired : BOOLEAN, handshakeForwards : 0..MAX_HANDSHAKE_FORWARDS]

RoomState ==
  [state : {"none", "WAITING", "PAIRED", "HALF_OPEN"},
   initiator : Sock \cup {NoSock}, joiner : Sock \cup {NoSock}]

TypeOK ==
  /\ page \in [Page -> PageState]
  /\ sock \in [Sock -> SocketState]
  /\ up \in [Sock -> {<<>>, <<"HELLO">>, <<"HANDSHAKE">>}]
  /\ down \in [Sock -> Seq(Frame)]
  /\ room \in RoomState
  /\ faults \in Seq(Faults) /\ Len(faults) <= MaxFaults

NoRoom == [state |-> "none", initiator |-> NoSock, joiner |-> NoSock]

Init ==
  /\ page = [p \in Page |->
       [st |-> "IDLE", intentTried |-> "create", role |-> "undefined", ephemeral |-> "none",
        sending |-> "no", handling |-> "no", inq |-> <<>>, peer |-> NoPage, reason |-> "none"]]
  /\ sock = [s \in Sock |->
       [client |-> "none", server |-> "none", lost |-> FALSE, paired |-> FALSE,
        handshakeForwards |-> 0]]
  /\ up = [s \in Sock |-> <<>>] /\ down = [s \in Sock |-> <<>>]
  /\ room = NoRoom
  /\ faults = <<>>

Current(p) == <<p, page[p].intentTried>>
Alive(p) == page[p].st \notin {"IDLE", "TERMINATED"}
Fault(f) == f \in Faults /\ Len(faults) < MaxFaults /\ faults' = Append(faults, f)

-----------------------------------------------------------------------------
(* The page                                                                *)

\* terminate, from ACTIVE without its three seconds: what waits in the inbound
\* chain is dropped, and what awaits something finds isTerminated.
EndedAs(q, reason) ==
  [q EXCEPT !.st = "TERMINATED", !.reason = reason, !.inq = <<>>, !.sending = "done",
            !.handling = "no"]

\* openWith, and the HELLO of its open event.
OpenWith(s, socks) ==
  /\ sock' = [socks EXCEPT ![s].client = "open", ![s].server = "open"]
  /\ up' = [up EXCEPT ![s] = <<"HELLO">>]

\* The close event that follows is ignored.
Terminate(p, reason) ==
  /\ page' = [page EXCEPT ![p] = EndedAs(@, reason)]
  /\ sock' = [sock EXCEPT ![Current(p)].client = "closed"]

\* startSession without a record: openWith('create').
Start(p) ==
  /\ page[p].st = "IDLE" /\ \A q \in Page : q < p => page[q].st # "IDLE"
  /\ page' = [page EXCEPT ![p].st = "CONNECTING"]
  /\ OpenWith(<<p, "create">>, sock)
  /\ UNCHANGED <<down, room, faults>>

\* Faulty variant: every call sends, as without localHandshakeSent.
SendsAgain(q) == [q EXCEPT !.sending = IF q.ephemeral = "ready" THEN "wrap" ELSE "key"]

\* Faulty variant: a page whose key is not there yet does not send.
SendsIfReady(q) == IF q.ephemeral = "ready" THEN [q EXCEPT !.sending = "wrap"] ELSE q

\* sendLocalHandshake up to its first await.
SendLocalHandshake(q) ==
  IF q.sending # "no" THEN q
  ELSE [q EXCEPT !.sending = IF q.ephemeral = "ready" THEN "wrap" ELSE "key"]

\* ephemeralPromise settles: the waiting sendLocalHandshake and the handler go
\* on in the order in which they began to wait.
EphemeralReady(p) ==
  /\ Alive(p) /\ page[p].sending = "key" /\ page[p].ephemeral = "none"
  /\ page' = [page EXCEPT ![p].ephemeral = "ready", ![p].sending = "wrap",
                          ![p].handling = IF @ = "key" THEN "derive" ELSE @]
  /\ UNCHANGED <<sock, up, down, room, faults>>

\* sendLocalHandshake after wrapLocalPublicKey.
HandshakeWrapped(p) ==
  /\ Alive(p) /\ page[p].sending = "wrap"
  /\ page' = [page EXCEPT ![p].sending = "done",
                ![p].st = IF @ \in {"CONNECTING", "WAITING_FOR_PEER"} THEN "HANDSHAKING" ELSE @]
  /\ up' = [up EXCEPT ![Current(p)] = IF sock[Current(p)].lost THEN @ ELSE Append(@, "HANDSHAKE")]
  /\ UNCHANGED <<sock, down, room, faults>>

\* handleHandshakeFrame up to its first await.  Where the key could not be
\* generated its exception is swallowed by runInbound.
HandleHandshake(p) ==
  /\ Alive(p) /\ page[p].inq # <<>> /\ page[p].handling = "no"
  /\ \/ page[p].st = "ACTIVE" /\ Terminate(p, "handshake_unexpected")
     \/ /\ page[p].st # "ACTIVE"
        /\ LET q == SendLocalHandshake(page[p])
               next == [none |-> [q EXCEPT !.handling = "key"],
                        ready |-> [q EXCEPT !.handling = "derive"],
                        failed |-> [q EXCEPT !.inq = Tail(@)]]
           IN page' = [page EXCEPT ![p] = next[q.ephemeral]]
        /\ UNCHANGED sock
  /\ UNCHANGED <<up, down, room, faults>>

\* handleHandshakeFrame after completeHandshake: transitionToActive.
Derived(q) == [q EXCEPT !.st = "ACTIVE", !.peer = Head(q.inq), !.inq = Tail(@), !.handling = "no"]

HandshakeCompletes(p) ==
  /\ Alive(p) /\ page[p].handling = "derive"
  /\ page' = [page EXCEPT ![p] = Derived(@)]
  /\ UNCHANGED <<sock, up, down, room, faults>>

\* A promise of the handshake is rejected.  Only unwrapPeerPublicKey and
\* completeHandshake have a catch that terminates.
HandshakeFails(p) ==
  /\ Fault("failure") /\ Alive(p)
  /\ \/ /\ page[p].sending = "key"
        /\ page' = [page EXCEPT ![p].ephemeral = "failed", ![p].sending = "failed",
                                ![p].inq = IF page[p].handling = "key" THEN Tail(@) ELSE @,
                                ![p].handling = "no"]
        /\ UNCHANGED sock
     \/ page[p].sending = "wrap" /\ page' = [page EXCEPT ![p].sending = "failed"] /\ UNCHANGED sock
     \/ page[p].handling = "derive" /\ Terminate(p, "handshake_failed")
  /\ UNCHANGED <<up, down, room>>

-----------------------------------------------------------------------------
(* The page's socket                                                       *)

Arrives(s, type) ==
  /\ sock[s].client = "open" /\ down[s] # <<>> /\ Head(down[s]).type = type
  /\ down' = [down EXCEPT ![s] = Tail(@)]
  /\ UNCHANGED <<room, faults>>

\* handleServerFrame: frames act at once, HANDSHAKE goes through the chain.
Arrive(p) ==
  LET s == Current(p)
      f == Head(down[s])
  IN \/ /\ Arrives(s, "ACK")
        /\ page' = [page EXCEPT ![p] =
             IF f.role = "initiator" THEN [@ EXCEPT !.role = f.role, !.st = "WAITING_FOR_PEER"]
             ELSE SendLocalHandshake([@ EXCEPT !.role = f.role])]
        /\ UNCHANGED <<sock, up>>
     \/ /\ Arrives(s, "PEER_JOINED")
        /\ page' = [page EXCEPT ![p] = IF @.st = "ACTIVE" THEN @ ELSE SendLocalHandshake(@)]
        /\ UNCHANGED <<sock, up>>
     \/ /\ Arrives(s, "HANDSHAKE")
        /\ page' = [page EXCEPT ![p].inq = Append(@, f.from)]
        /\ UNCHANGED <<sock, up>>
     \/ Arrives(s, "PEER_DISCONNECTED") /\ Terminate(p, "peer_gone") /\ UNCHANGED up
     \/ /\ Arrives(s, "ROOM_ALREADY_EXISTS")        \* reopenAsJoiner
        /\ page' = [page EXCEPT ![p].st = "CONNECTING", ![p].intentTried = "join"]
        /\ OpenWith(<<p, "join">>, [sock EXCEPT ![s].client = "closing"])
     \/ /\ \E code \in ErrorCode \ {"ROOM_ALREADY_EXISTS"} : Arrives(s, code) /\ Terminate(p, code)
        /\ UNCHANGED up

\* Faulty variant: the close of any socket is taken for the current one's.
CloseOfAny(s) == TRUE

\* openWith's handlers look at the generation.
CloseConcerns(s) == s = Current(s[1])

\* onClose: the close event of a socket that the page, the server or the
\* network has closed.  In RAM mode there is no reconnect.
SocketCloses(s) ==
  /\ \/ sock[s].client = "closing"
     \/ /\ sock[s].client = "open"
        /\ sock[s].lost \/ (sock[s].server = "closed" /\ down[s] = <<>>)
  /\ \/ /\ CloseConcerns(s) /\ Alive(s[1])
        /\ page' = [page EXCEPT ![s[1]] = EndedAs(@, "ws_close")]
     \/ ~(CloseConcerns(s) /\ Alive(s[1])) /\ UNCHANGED page
  /\ sock' = [sock EXCEPT ![s].client = "closed"]
  /\ UNCHANGED <<up, down, room, faults>>

-----------------------------------------------------------------------------
(* The server                                                              *)

Notice(type) == [type |-> type, role |-> "undefined", from |-> NoPage]

\* What is sent on a lost socket, or one the page has closed, is gone.
Reaches(s) == s # NoSock /\ sock[s].client = "open" /\ sock[s].server = "open" /\ ~sock[s].lost
Push(d, s, f) == IF Reaches(s) THEN [d EXCEPT ![s] = Append(@, f)] ELSE d

\* registry.remove
Without(s) ==
  LET left == [room EXCEPT !.initiator = IF @ = s THEN NoSock ELSE @,
                           !.joiner = IF @ = s THEN NoSock ELSE @]
  IN IF left.initiator = NoSock /\ left.joiner = NoSock THEN NoRoom
     ELSE [left EXCEPT !.state = "HALF_OPEN"]

Remaining(r) == IF r.initiator # NoSock THEN r.initiator ELSE r.joiner
InRoom(s) == room.state # "none" /\ s \in {room.initiator, room.joiner}

\* Faulty variant: the peer is not told.
LeavesSilently(s, d) ==
  /\ sock' = [sock EXCEPT ![s].server = "closed"]
  /\ room' = IF InRoom(s) THEN Without(s) ELSE room
  /\ down' = d

\* The close handler, told of the frames already sent: the peer learns of it.
Leaves(s, d) ==
  /\ sock' = [sock EXCEPT ![s].server = "closed"]
  /\ IF InRoom(s)
     THEN /\ room' = Without(s)
          /\ down' = Push(d, Remaining(Without(s)), Notice("PEER_DISCONNECTED"))
     ELSE UNCHANGED room /\ down' = d

ErrorAndClose(s, code) == Leaves(s, Push(down, s, Notice(code)))

Receives(s, what) ==
  /\ sock[s].server = "open" /\ up[s] # <<>> /\ Head(up[s]) = what
  /\ up' = [up EXCEPT ![s] = Tail(@)]
  /\ UNCHANGED page

\* handleCreate
HelloCreate(s) ==
  /\ s[2] = "create" /\ Receives(s, "HELLO") /\ UNCHANGED faults
  /\ \/ /\ room.state = "none"
        /\ room' = [state |-> "WAITING", initiator |-> s, joiner |-> NoSock]
        /\ down' = Push(down, s, [Notice("ACK") EXCEPT !.role = "initiator"])
        /\ UNCHANGED sock
     \/ room.state # "none" /\ ErrorAndClose(s, "ROOM_ALREADY_EXISTS")

\* Faulty variant: a room whose joiner's slot is free is joined, whoever is in it.
JoinableHalfOpen == room.state \in {"WAITING", "HALF_OPEN"} /\ room.joiner = NoSock

\* A HALF_OPEN room is kept for who resumes.
Joinable == room.state = "WAITING"

\* handleJoinOrResume with intent join
HelloJoin(s) ==
  /\ s[2] = "join" /\ Receives(s, "HELLO") /\ UNCHANGED faults
  /\ \/ room.state = "none" /\ ErrorAndClose(s, "ROOM_NOT_FOUND")
     \/ room.state # "none" /\ ~Joinable /\ ErrorAndClose(s, "ROOM_FULL")
     \/ /\ Joinable
        /\ room' = [room EXCEPT !.state = "PAIRED", !.joiner = s]
        /\ sock' = [sock EXCEPT ![s].paired = TRUE, ![room.initiator].paired = TRUE]
        /\ down' = Push(Push(down, s, [Notice("ACK") EXCEPT !.role = "joiner"]),
                        room.initiator, Notice("PEER_JOINED"))

\* One of the limiters refuses, or the server is full.
Refused(s) ==
  /\ Fault("refuse") /\ Receives(s, "HELLO")
  /\ ErrorAndClose(s, "RATE_LIMITED")

PeerOf(s) == IF room.initiator = s THEN room.joiner ELSE room.initiator

\* handleForward of a HANDSHAKE
ForwardHandshake(s) ==
  /\ Receives(s, "HANDSHAKE") /\ UNCHANGED faults
  /\ \/ ~sock[s].paired /\ ErrorAndClose(s, "BAD_STATE")
     \/ sock[s].paired /\ ~InRoom(s) /\ ErrorAndClose(s, "ROOM_NOT_FOUND")
     \/ sock[s].paired /\ InRoom(s) /\ PeerOf(s) = NoSock /\ UNCHANGED <<sock, down, room>>
     \/ /\ sock[s].paired /\ InRoom(s) /\ PeerOf(s) # NoSock
        /\ \/ /\ sock[s].handshakeForwards = MAX_HANDSHAKE_FORWARDS
              /\ ErrorAndClose(s, "BAD_STATE")
           \/ /\ sock[s].handshakeForwards < MAX_HANDSHAKE_FORWARDS
              /\ sock' = [sock EXCEPT ![s].handshakeForwards = @ + 1]
              /\ down' = Push(down, PeerOf(s), [Notice("HANDSHAKE") EXCEPT !.from = s[1]])
              /\ UNCHANGED room

\* handleClose, when the page has closed the socket and its frames are
\* handled, or when keepalive has found the socket dead.
ServerNotices(s) ==
  /\ sock[s].server = "open"
  /\ sock[s].lost \/ (sock[s].client \in {"closing", "closed"} /\ up[s] = <<>>)
  /\ Leaves(s, down)
  /\ UNCHANGED <<page, up, faults>>

-----------------------------------------------------------------------------
(* Faults                                                                  *)

\* Burn, or the page is closed or reloaded.
Leave(p) ==
  /\ Fault("leave") /\ Alive(p)
  /\ Terminate(p, "user_panic")
  /\ UNCHANGED <<up, down, room>>

\* The network loses a socket and what was on its way.
Drop(s) ==
  /\ Fault("drop") /\ sock[s].client = "open" /\ ~sock[s].lost
  /\ sock' = [sock EXCEPT ![s].lost = TRUE]
  /\ up' = [up EXCEPT ![s] = <<>>] /\ down' = [down EXCEPT ![s] = <<>>]
  /\ UNCHANGED <<page, room>>

\* The sweeper, after INITIATOR_WAIT_TIMEOUT_MS without a peer.
Expire ==
  /\ Fault("expire") /\ room.state = "WAITING"
  /\ sock' = [sock EXCEPT ![room.initiator].server = "closed"]
  /\ room' = NoRoom
  /\ UNCHANGED <<page, up, down>>

-----------------------------------------------------------------------------
PageSteps(p) ==
  EphemeralReady(p) \/ HandshakeWrapped(p) \/ HandleHandshake(p) \/ HandshakeCompletes(p) \/ Arrive(p)

ServerSteps(s) == HelloCreate(s) \/ HelloJoin(s) \/ ForwardHandshake(s) \/ ServerNotices(s)

Next ==
  \/ \E p \in Page : Start(p) \/ PageSteps(p) \/ HandshakeFails(p) \/ Leave(p)
  \/ \E s \in Sock : SocketCloses(s) \/ ServerSteps(s) \/ Refused(s) \/ Drop(s)
  \/ Expire

\* Promises settle, frames arrive and closes are noticed.  Nothing is assumed
\* of users or faults.
Fairness ==
  /\ \A p \in Page : WF_vars(PageSteps(p))
  /\ \A s \in Sock : WF_vars(SocketCloses(s)) /\ WF_vars(ServerSteps(s))

Spec == Init /\ [][Next]_vars /\ Fairness

-----------------------------------------------------------------------------
(* Properties                                                              *)

\* A session key is the key of exactly two pages, in opposite roles (their
\* nonces differ in the direction byte), also when pages come and go while the
\* handshake is under way.
KeyOfTwo ==
  \A p \in Page : page[p].peer # NoPage =>
    LET q == page[p].peer
    IN /\ page[q].peer \in {p, NoPage}
       /\ {page[p].role, page[q].role} = Role

\* Nobody breaks the protocol: however ACK, PEER_JOINED and HANDSHAKE cross,
\* each page sends one HANDSHAKE, to a server that has paired it, and none
\* comes that is not expected.
\* Without a fault only a page that came third is turned away, and it is told
\* that the room is full; the change of sockets ends no session.
OnlyThirdTurnedAway ==
  \A p \in Page : /\ page[p].reason \notin {"BAD_STATE", "handshake_unexpected"}
                  /\ faults = <<>> => page[p].reason \in {"none", "ROOM_FULL"}

Active == {p \in Page : page[p].st = "ACTIVE"}

\* Two pages that open one link get together, in whatever order their HELLOs
\* and the refusals arrive, unless a fault strikes.
PairsUp ==
  (Cardinality({p \in Page : page[p].st # "IDLE"}) > 1)
    ~> (faults # <<>> \/ \E p, q \in Active : page[p].peer = q /\ page[q].peer = p)

\* No page is left between opening the link and the session: it becomes ACTIVE
\* or ends, or waits in a room for a first peer.  The exception is a rejected
\* promise: an ephemeral key that could not be made or wrapped ends nothing.
Between(p) == page[p].st \in {"CONNECTING", "WAITING_FOR_PEER", "HANDSHAKING"}
WaitsAlone(p) == room.state = "WAITING" /\ room.initiator = Current(p)
Settles ==
  \A p \in Page : []<>(\/ ~Between(p) \/ WaitsAlone(p)
                       \/ \E q \in Page : page[q].sending = "failed")
=============================================================================
