----------------------------- MODULE RelayServer -----------------------------
(***************************************************************************)
(* The relay server: the WebSocket handlers (server/src/wire/handlers.ts), *)
(* the registry of rooms (server/src/room/registry.ts) and the sweeper     *)
(* (server/src/room/cleanup.ts).  Handlers are synchronous, so each action *)
(* is one whole handler.                                                   *)
(*                                                                         *)
(* External: the close handler of a socket that the server has closed with *)
(* ws.close() is one event among others, so it may come late, when the     *)
(* socket's room is gone and another one has its id.  Whether a rate       *)
(* limiter refuses, and whether a send is dropped or the peer's buffer is  *)
(* full, is the environment's choice.                                      *)
(***************************************************************************)
EXTENDS Naturals, FiniteSets

CONSTANTS
  Conn,                     \* sockets; one that has closed may connect anew
  RoomId,
  NoConn, NoRoom,           \* undefined
  MaxConnections,           \* config.maxConnections
  MAX_HANDSHAKE_FORWARDS    \* handlers.ts:25

ASSUME ConnAssumption == IsFiniteSet(Conn) /\ NoConn \notin Conn
ASSUME LimitAssumption == MaxConnections \in Nat /\ MAX_HANDSHAKE_FORWARDS \in Nat

Role == {"initiator", "joiner"}
Intent == {"create", "join", "resume"}
ErrorCode == {"RATE_LIMITED", "OVER_CAPACITY", "HELLO_TIMEOUT", "INVALID_PAYLOAD", "BAD_STATE",
              "UNSUPPORTED_VERSION", "ROOM_ALREADY_EXISTS", "ROOM_NOT_FOUND", "ROOM_FULL",
              "INTERNAL"}
ServerFrame == {"ACK", "PEER_JOINED", "PEER_DISCONNECTED", "PEER_LEFT", "ERROR"}

VARIABLES
  phase,            \* of each socket: absent, open, or closed by the server
  data,             \* ws.data
  rooms,            \* the registry
  openConnections,
  notice,           \* the last frame of its own that the server sent on the socket
  struck            \* history: the rooms that a socket without a slot in them has left

vars == <<phase, data, rooms, openConnections, notice, struck>>

\* types.ts:5; ip and relayBucket belong to the limiters.
ConnectionData ==
  [state : {"PENDING_HELLO", "WAITING_FOR_PEER", "PAIRED"},
   roomId : RoomId \cup {NoRoom}, role : Role \cup {"undefined"},
   admitted : BOOLEAN, helloTimer : BOOLEAN, handshakeForwards : 0..MAX_HANDSHAKE_FORWARDS]

\* registry.ts:7; waited and idle say that createdAtMs and lastActivityAtMs
\* are further back than INITIATOR_WAIT_TIMEOUT_MS and gracePeriodMs.
Room ==
  [initiator : Conn \cup {NoConn}, joiner : Conn \cup {NoConn},
   state : {"WAITING", "PAIRED", "HALF_OPEN"}, waited : BOOLEAN, idle : BOOLEAN]

ASSUME RoomAssumption == NoRoom \notin RoomId /\ NoRoom \notin Room

TypeOK ==
  /\ phase \in [Conn -> {"absent", "open", "closing"}]
  /\ data \in [Conn -> ConnectionData]
  /\ rooms \in [RoomId -> Room \cup {NoRoom}]
  /\ openConnections \in 0..MaxConnections
  /\ notice \in [Conn -> ServerFrame \cup {"none"}]
  /\ struck \subseteq RoomId

InitialConnectionData ==
  [state |-> "PENDING_HELLO", roomId |-> NoRoom, role |-> "undefined",
   admitted |-> FALSE, helloTimer |-> FALSE, handshakeForwards |-> 0]

Init ==
  /\ phase = [c \in Conn |-> "absent"]
  /\ data = [c \in Conn |-> InitialConnectionData]
  /\ rooms = [r \in RoomId |-> NoRoom]
  /\ openConnections = 0
  /\ notice = [c \in Conn |-> "none"]
  /\ struck = {}

-----------------------------------------------------------------------------
(* The registry                                                            *)

Exists(r) == rooms[r] # NoRoom

\* room.initiator ?? room.joiner
Remaining(room) == IF room.initiator # NoConn THEN room.initiator ELSE room.joiner

\* Faulty variant: a full room takes another socket.
AlwaysFreeSlot(room) == TRUE

hasFreeSlot(room) == room.initiator = NoConn \/ room.joiner = NoConn

CreatedRoom(c) ==
  [initiator |-> c, joiner |-> NoConn, state |-> "WAITING", waited |-> FALSE, idle |-> FALSE]

\* Faulty variant: who comes into an existing room is the joiner.
SlotForNewcomer(room) == "joiner"

\* The role addPeer gives: the slot that is free, the initiator's first.
SlotFor(room) == IF room.initiator = NoConn THEN "initiator" ELSE "joiner"

addPeer(room, c) ==
  IF room.initiator = NoConn
  THEN [room EXCEPT !.initiator = c, !.idle = FALSE,
                    !.state = IF room.joiner = NoConn THEN "WAITING" ELSE "PAIRED"]
  ELSE [room EXCEPT !.joiner = c, !.state = "PAIRED", !.idle = FALSE]

getPeer(room, c) ==
  CASE room.initiator = c -> room.joiner
    [] room.joiner = c    -> room.initiator
    [] OTHER              -> NoConn

\* Faulty variant: the room stays in the state it had.
RemoveKeepingState(room, c) ==
  LET left == [room EXCEPT !.initiator = IF @ = c THEN NoConn ELSE @,
                           !.joiner = IF @ = c THEN NoConn ELSE @]
  IN IF left.initiator = NoConn /\ left.joiner = NoConn THEN NoRoom
     ELSE [left EXCEPT !.idle = FALSE]

\* The room without c, deleted when it becomes empty.  A room in which c has
\* no slot becomes HALF_OPEN too.
Removed(room, c) ==
  LET left == [room EXCEPT !.initiator = IF @ = c THEN NoConn ELSE @,
                           !.joiner = IF @ = c THEN NoConn ELSE @]
  IN IF left.initiator = NoConn /\ left.joiner = NoConn THEN NoRoom
     ELSE [left EXCEPT !.state = "HALF_OPEN", !.idle = FALSE]

-----------------------------------------------------------------------------
(* Sockets                                                                 *)

\* A message is delivered only on a socket that the server has not closed.
Receives(c) == phase[c] = "open"

\* ws.close on every socket of S
CloseAll(S) == phase' = [c \in Conn |-> IF c \in S /\ phase[c] = "open" THEN "closing" ELSE phase[c]]

Tell(S, frame) == notice' = [c \in Conn |-> IF c \in S THEN frame ELSE notice[c]]

\* sendErrorAndClose; notice does not tell the codes apart.
ErrorAndClose(S) == CloseAll(S) /\ Tell(S, "ERROR")

clearHelloTimer(c) == [data[c] EXCEPT !.helloTimer = FALSE]

\* createHandlers().open: a refused socket is never admitted and has no timer.
OpenRefused(c, code) ==
  /\ code = "RATE_LIMITED" \/ (code = "OVER_CAPACITY" /\ openConnections >= MaxConnections)
  /\ phase' = [phase EXCEPT ![c] = "closing"]
  /\ Tell({c}, "ERROR")
  /\ UNCHANGED <<data, openConnections>>

OpenAdmitted(c) ==
  /\ openConnections < MaxConnections
  /\ phase' = [phase EXCEPT ![c] = "open"]
  /\ data' = [data EXCEPT ![c].admitted = TRUE, ![c].helloTimer = TRUE]
  /\ openConnections' = openConnections + 1
  /\ UNCHANGED notice

Open(c) ==
  /\ phase[c] = "absent"
  /\ OpenAdmitted(c) \/ \E code \in {"RATE_LIMITED", "OVER_CAPACITY"} : OpenRefused(c, code)
  /\ UNCHANGED <<rooms, struck>>

\* startHelloTimer's callback.
HelloTimeout(c) ==
  /\ data[c].helloTimer /\ data[c].state = "PENDING_HELLO"
  /\ data' = [data EXCEPT ![c] = clearHelloTimer(c)]
  /\ ErrorAndClose({c})
  /\ UNCHANGED <<rooms, openConnections, struck>>

-----------------------------------------------------------------------------
(* HELLO                                                                   *)

\* A message that is refused for its bytes (handleMessage; the size and length
\* tests of handleForward); one code stands for the three.
InvalidMessage(c) ==
  /\ Receives(c)
  /\ ErrorAndClose({c})
  /\ UNCHANGED <<data, rooms, openConnections, struck>>

\* A HELLO that ends in sendErrorAndClose, for one of the reasons that
\* handleHello, handleCreate and handleJoinOrResume test, in their order.
HelloRefused(c, r, intent, code) ==
  /\ Receives(c)
  /\ \/ code = "BAD_STATE" /\ data[c].state # "PENDING_HELLO"
     \/ code \in {"UNSUPPORTED_VERSION", "RATE_LIMITED"} /\ data[c].state = "PENDING_HELLO"
     \/ /\ data[c].state = "PENDING_HELLO"
        /\ \/ intent = "create" /\ Exists(r) /\ code = "ROOM_ALREADY_EXISTS"
           \/ intent # "create" /\ ~Exists(r) /\ code = "ROOM_NOT_FOUND"
           \/ /\ intent # "create" /\ Exists(r) /\ code = "ROOM_FULL"
              /\ (rooms[r].state = "HALF_OPEN" /\ intent # "resume") \/ ~hasFreeSlot(rooms[r])
  /\ data' = [data EXCEPT ![c] = clearHelloTimer(c)]
  /\ ErrorAndClose({c})
  /\ UNCHANGED <<rooms, openConnections, struck>>

Enter(c, r, state, role) ==
  [clearHelloTimer(c) EXCEPT !.roomId = r, !.state = state, !.role = role]

\* handleCreate; a dropped ACK deletes the room again, and the socket stays.
Create(c, r) ==
  /\ Receives(c) /\ data[c].state = "PENDING_HELLO" /\ ~Exists(r)
  /\ data' = [data EXCEPT ![c] = Enter(c, r, "WAITING_FOR_PEER", "initiator")]
  /\ \/ /\ rooms' = [rooms EXCEPT ![r] = CreatedRoom(c)]
        /\ Tell({c}, "ACK")
     \/ UNCHANGED <<rooms, notice>>
  /\ UNCHANGED phase
  /\ UNCHANGED <<openConnections, struck>>

CanEnter(c, r, intent) ==
  /\ Receives(c) /\ data[c].state = "PENDING_HELLO" /\ Exists(r)
  /\ intent \in {"join", "resume"}
  /\ rooms[r].state = "HALF_OPEN" => intent = "resume"
  /\ hasFreeSlot(rooms[r])

EnteredData(c, r) ==
  [data EXCEPT ![c] = Enter(c, r, "PAIRED", SlotFor(rooms[r])),
               ![Remaining(rooms[r])].state = "PAIRED"]

\* handleJoinOrResume with both frames sent.
JoinOrResume(c, r, intent) ==
  /\ CanEnter(c, r, intent)
  /\ rooms' = [rooms EXCEPT ![r] = addPeer(@, c)]
  /\ data' = EnteredData(c, r)
  /\ notice' = [notice EXCEPT ![c] = "ACK", ![Remaining(rooms[r])] = "PEER_JOINED"]
  /\ UNCHANGED <<phase, openConnections, struck>>

\* handleJoinOrResume with its ACK or PEER_JOINED dropped: nobody stays.
JoinDropped(c, r, intent) ==
  /\ CanEnter(c, r, intent)
  /\ rooms' = [rooms EXCEPT ![r] = NoRoom]
  /\ data' = EnteredData(c, r)
  /\ CloseAll({c, Remaining(rooms[r])})
  /\ notice' \in {notice, [notice EXCEPT ![c] = "ACK"]}
  /\ UNCHANGED <<openConnections, struck>>

-----------------------------------------------------------------------------
(* HANDSHAKE and RELAY                                                     *)

PeerOf(c) == getPeer(rooms[data[c].roomId], c)

\* The sender is paired and its room holds another socket.
HasPeer(c) ==
  /\ Receives(c) /\ data[c].state = "PAIRED" /\ Exists(data[c].roomId)
  /\ PeerOf(c) # NoConn

\* handleForward's refusals.  In a HALF_OPEN room a frame without an addressee
\* is dropped in silence.
ForwardRefused(c, code) ==
  /\ Receives(c)
  /\ \/ code = "BAD_STATE" /\ data[c].state # "PAIRED"
     \/ code = "RATE_LIMITED" /\ data[c].state = "PAIRED"
     \/ code = "ROOM_NOT_FOUND" /\ data[c].state = "PAIRED" /\ ~Exists(data[c].roomId)
     \/ /\ code = "INTERNAL" /\ data[c].state = "PAIRED" /\ Exists(data[c].roomId)
        /\ PeerOf(c) = NoConn /\ rooms[data[c].roomId].state # "HALF_OPEN"
     \/ /\ code = "BAD_STATE" /\ HasPeer(c)
        /\ data[c].handshakeForwards >= MAX_HANDSHAKE_FORWARDS
  /\ ErrorAndClose({c})
  /\ UNCHANGED <<data, rooms, openConnections, struck>>

\* Faulty variant: the cap is not tested.
CountUncapped(c) == data' = [data EXCEPT ![c].handshakeForwards = @ + 1]

\* A HANDSHAKE is counted before it is forwarded.
CountHandshake(c) ==
  /\ data[c].handshakeForwards < MAX_HANDSHAKE_FORWARDS
  /\ data' = [data EXCEPT ![c].handshakeForwards = @ + 1]

\* A forwarded RELAY changes nothing here.
ForwardHandshake(c) ==
  /\ HasPeer(c) /\ CountHandshake(c)
  /\ UNCHANGED <<phase, rooms, openConnections, notice, struck>>

\* Faulty variant: only the sender is closed.
ForwardBreaksOne(c) ==
  /\ HasPeer(c)
  /\ rooms' = [rooms EXCEPT ![data[c].roomId] = NoRoom]
  /\ ErrorAndClose({c})
  /\ UNCHANGED <<data, openConnections, struck>>

\* The peer's buffer is over its cap (nobody is told), or the frame was dropped.
ForwardBreaks(c) ==
  /\ HasPeer(c)
  /\ UNCHANGED data \/ CountHandshake(c)
  /\ rooms' = [rooms EXCEPT ![data[c].roomId] = NoRoom]
  /\ CloseAll({c, PeerOf(c)})
  /\ UNCHANGED notice \/ Tell({c, PeerOf(c)}, "ERROR")
  /\ UNCHANGED <<openConnections, struck>>

-----------------------------------------------------------------------------
(* Close and sweep                                                         *)

\* Faulty variant: a socket that was never admitted is counted out too.
CountOutRefused(c) == IF openConnections = 0 THEN 0 ELSE openConnections - 1

\* createHandlers().close
ConnectionsWithout(c) == IF data[c].admitted THEN openConnections - 1 ELSE openConnections

\* Faulty variant: the remaining socket is not told.
RoomsWithoutSilently(c) ==
  LET r == data[c].roomId
  IN /\ rooms' = IF r # NoRoom /\ Exists(r) THEN [rooms EXCEPT ![r] = Removed(@, c)] ELSE rooms
     /\ notice' = [notice EXCEPT ![c] = "none"]

\* handleClose: what is left of the room, and whom it tells.
RoomsWithout(c) ==
  LET r == data[c].roomId
      left == IF r # NoRoom /\ Exists(r) THEN Removed(rooms[r], c) ELSE NoRoom
  IN IF r # NoRoom /\ Exists(r)
     THEN /\ rooms' = [rooms EXCEPT ![r] = left]
          /\ notice' = [d \in Conn |->
                          IF d = c THEN "none"
                          ELSE IF left # NoRoom /\ d = Remaining(left) THEN "PEER_DISCONNECTED"
                          ELSE notice[d]]
     ELSE /\ notice' = [notice EXCEPT ![c] = "none"]
          /\ UNCHANGED rooms

\* c has no slot in the room that its data name.
Stranger(c) ==
  /\ data[c].roomId # NoRoom /\ Exists(data[c].roomId)
  /\ c \notin {rooms[data[c].roomId].initiator, rooms[data[c].roomId].joiner}

\* The close handler: of a socket the server closed, or one that the client
\* or the network closed.
Close(c) ==
  /\ phase[c] # "absent"
  /\ struck' = IF Stranger(c) THEN struck \cup {data[c].roomId} ELSE struck
  /\ phase' = [phase EXCEPT ![c] = "absent"]
  /\ data' = [data EXCEPT ![c] = InitialConnectionData]
  /\ openConnections' = ConnectionsWithout(c)
  /\ RoomsWithout(c)

\* Time: a room becomes too old to wait, or idle for the grace period.
WaitTimePasses(r) ==
  /\ Exists(r) /\ rooms[r].state = "WAITING" /\ ~rooms[r].waited
  /\ rooms' = [rooms EXCEPT ![r].waited = TRUE]
  /\ UNCHANGED <<phase, data, openConnections, notice, struck>>

GraceTimePasses(r) ==
  /\ Exists(r) /\ rooms[r].state = "HALF_OPEN" /\ ~rooms[r].idle
  /\ rooms' = [rooms EXCEPT ![r].idle = TRUE]
  /\ UNCHANGED <<phase, data, openConnections, notice, struck>>

\* Faulty variant: only rooms that nobody joined are swept.
ExpiredWaiting(r) == Exists(r) /\ rooms[r].state = "WAITING" /\ rooms[r].waited

Expired(r) ==
  /\ Exists(r)
  /\ \/ rooms[r].state = "WAITING" /\ rooms[r].waited
     \/ rooms[r].state = "HALF_OPEN" /\ rooms[r].idle

\* sweepRooms: every expired room is deleted and its remaining socket closed;
\* after the grace period it is told first.
Sweep ==
  LET gone == {r \in RoomId : Expired(r)}
      left == {Remaining(rooms[r]) : r \in gone}
      told == {Remaining(rooms[r]) : r \in {g \in gone : rooms[g].state = "HALF_OPEN"}}
  IN /\ gone # {}
     /\ CloseAll(left)
     /\ Tell(told, "PEER_LEFT")
     /\ rooms' = [r \in RoomId |-> IF r \in gone THEN NoRoom ELSE rooms[r]]
     /\ UNCHANGED <<data, openConnections, struck>>

-----------------------------------------------------------------------------
Hello(c) ==
  \E r \in RoomId :
    \/ Create(c, r)
    \/ \E intent \in Intent :
         \/ JoinOrResume(c, r, intent) \/ JoinDropped(c, r, intent)
         \/ \E code \in ErrorCode : HelloRefused(c, r, intent, code)

Forward(c) ==
  ForwardHandshake(c) \/ ForwardBreaks(c) \/ \E code \in ErrorCode : ForwardRefused(c, code)

Next ==
  \/ \E c \in Conn : Open(c) \/ HelloTimeout(c) \/ InvalidMessage(c) \/ Hello(c) \/ Forward(c)
                     \/ Close(c)
  \/ \E r \in RoomId : WaitTimePasses(r) \/ GraceTimePasses(r)
  \/ Sweep

\* Timers fire, the sweeper's interval runs, and a socket the server closed is
\* reported closed.  Nothing is assumed of clients.
Fairness ==
  /\ \A c \in Conn : WF_vars(HelloTimeout(c)) /\ WF_vars(phase[c] = "closing" /\ Close(c))
  /\ \A r \in RoomId : WF_vars(WaitTimePasses(r)) /\ WF_vars(GraceTimePasses(r))
  /\ WF_vars(Sweep)

Spec == Init /\ [][Next]_vars /\ Fairness

-----------------------------------------------------------------------------
(* Properties                                                              *)

Members(room) == {room.initiator, room.joiner} \ {NoConn}

\* The ACK of its create was dropped: the socket is open, its data name a room,
\* and it has no slot, no timer and nobody who pings it.
Unanswered(c) == phase[c] = "open" /\ data[c].roomId # NoRoom /\ notice[c] = "none"

\* Let into a room of whose id no late close has ever struck a room.
Settled(c) ==
  /\ phase[c] = "open" /\ data[c].roomId # NoRoom /\ ~Unanswered(c)
  /\ data[c].roomId \notin struck

\* The state that hasFreeSlot, getPeer, the sweeper and the metrics rely on
\* is the one the slots show: nobody is ever in a room that the registry calls
\* HALF_OPEN with two sockets, or PAIRED with one, and no empty room remains.
\* The exception is a room that was struck: registry.remove marks it HALF_OPEN
\* for a socket that has no slot in it.
RoomShape ==
  \A r \in RoomId \ struck :
    Exists(r) => /\ Members(rooms[r]) # {}
                 /\ (rooms[r].state = "PAIRED") <=> (Cardinality(Members(rooms[r])) = 2)
                 /\ rooms[r].state = "WAITING" => rooms[r].initiator # NoConn

\* A socket in a slot is a live one whose own data names that room and that
\* slot, so no socket is in two slots and frames go only to the room's peers.
SlotsAreMembers ==
  \A r \in RoomId : Exists(r) =>
    \A role \in Role :
      LET c == rooms[r][role]
      IN c # NoConn => /\ phase[c] # "absent" /\ data[c].admitted
                       /\ data[c].roomId = r /\ data[c].role = role

\* No orphans: an open socket that was told it is in a room has its slot there;
\* no handler deletes the room under it and leaves it open.  What handleCreate
\* leaves behind when its ACK is dropped was told nothing; and in a room that was
\* struck the sweeper finds two sockets and closes one.
NoOrphans ==
  \A c \in Conn : Settled(c) =>
    /\ Exists(data[c].roomId)
    /\ rooms[data[c].roomId][data[c].role] = c

\* What an open member was last told is the state its room is in: a paired
\* one saw ACK or PEER_JOINED, one left alone saw PEER_DISCONNECTED.
ToldTheTruth ==
  \A c \in Conn : Settled(c) =>
    CASE rooms[data[c].roomId].state = "WAITING"   -> notice[c] = "ACK"
      [] rooms[data[c].roomId].state = "PAIRED"    -> notice[c] \in {"ACK", "PEER_JOINED"}
      [] rooms[data[c].roomId].state = "HALF_OPEN" -> notice[c] = "PEER_DISCONNECTED"

\* openConnections is the number of admitted sockets whose close handler has
\* not run, whatever mix of refusals and closes led here.
CapacityExact ==
  openConnections = Cardinality({c \in Conn : phase[c] # "absent" /\ data[c].admitted})

\* A socket waiting for something: its own HELLO, a first peer, a peer's return.
Waits(c) ==
  /\ phase[c] = "open"
  /\ data[c].state # "PAIRED" \/ notice[c] = "PEER_DISCONNECTED"

\* Nobody waits forever: every wait ends in a pairing or in a closed socket,
\* also in a room that was struck.  Only a socket whose create was never answered
\* has nothing that ends its wait: its timer is cleared and its room deleted.
WaitsEnd == \A c \in Conn : []<>(~Waits(c) \/ Unanswered(c))

\* A slot is taken over only when it is free: a step never replaces one socket
\* by another in a slot of a room.
NoSlotStolen ==
  [][\A r \in RoomId : (Exists(r) /\ Exists(r)') =>
       \A role \in Role :
         rooms[r][role] # NoConn => rooms'[r][role] \in {rooms[r][role], NoConn}]_vars
=============================================================================
