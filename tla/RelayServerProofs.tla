-------------------------- MODULE RelayServerProofs --------------------------
(***************************************************************************)
(* For every set of sockets and of rooms, every capacity, and whenever the *)
(* handlers of closes come: the types, who is in a slot, the count of      *)
(* admitted sockets, that no slot is stolen; and for rooms that no late    *)
(* close has struck, that their state is what the slots show, that no      *)
(* socket loses its room, and that members were told the truth.            *)
(***************************************************************************)
EXTENDS RelayServer, FiniteSetTheorems, TLAPS

USE ConnAssumption, LimitAssumption, RoomAssumption

\* What a socket's own data say of its life: a socket that is not there has
\* fresh data, an open one was admitted, and one that has not said HELLO is in
\* no room.
Lifecycle ==
  \A c \in Conn : /\ phase[c] = "absent" => data[c] = InitialConnectionData
                  /\ phase[c] = "open" => data[c].admitted
                  /\ data[c].state = "PENDING_HELLO" => data[c].roomId = NoRoom

IInv == TypeOK /\ Lifecycle /\ SlotsAreMembers /\ CapacityExact

Fresh == InitialConnectionData

-----------------------------------------------------------------------------
(* Records                                                                 *)

\* ConnectionData: clearing the timer, entering a room, being paired, being
\* admitted and counting a handshake leave connection data.
LEMMA DataFacts ==
  ASSUME NEW d \in ConnectionData
  PROVE  /\ [d EXCEPT !.helloTimer = FALSE] \in ConnectionData
         /\ [d EXCEPT !.state = "PAIRED"] \in ConnectionData
         /\ [d EXCEPT !.admitted = TRUE, !.helloTimer = TRUE] \in ConnectionData
         /\ d.handshakeForwards < MAX_HANDSHAKE_FORWARDS =>
              [d EXCEPT !.handshakeForwards = d.handshakeForwards + 1] \in ConnectionData
<1>1. [d EXCEPT !.helloTimer = FALSE] \in ConnectionData
  BY DEF ConnectionData
<1>2. [d EXCEPT !.state = "PAIRED"] \in ConnectionData
  BY DEF ConnectionData
<1>3. [d EXCEPT !.admitted = TRUE, !.helloTimer = TRUE] \in ConnectionData
  BY DEF ConnectionData
<1>4. d.handshakeForwards < MAX_HANDSHAKE_FORWARDS =>
        [d EXCEPT !.handshakeForwards = d.handshakeForwards + 1] \in ConnectionData
  BY DEF ConnectionData
<1>5. QED
  BY <1>1, <1>2, <1>3, <1>4

LEMMA FreshFacts == /\ Fresh \in ConnectionData /\ ~Fresh.admitted /\ ~Fresh.helloTimer
                    /\ Fresh.state = "PENDING_HELLO" /\ Fresh.roomId = NoRoom
  BY DEF Fresh, InitialConnectionData, ConnectionData

\* The registry's operations on a room give a room, and what they do to slots.
LEMMA CreatedFacts ==
  ASSUME NEW c \in Conn
  PROVE  /\ CreatedRoom(c) \in Room
         /\ CreatedRoom(c).initiator = c /\ CreatedRoom(c).joiner = NoConn
  BY DEF CreatedRoom, Room

LEMMA AddFacts ==
  ASSUME NEW room \in Room, NEW c \in Conn, hasFreeSlot(room)
  PROVE  /\ addPeer(room, c) \in Room
         /\ SlotFor(room) \in Role
         /\ addPeer(room, c)[SlotFor(room)] = c /\ room[SlotFor(room)] = NoConn
         /\ \A role \in Role : role # SlotFor(room) => addPeer(room, c)[role] = room[role]
  BY DEF addPeer, SlotFor, hasFreeSlot, Room, Role

LEMMA RemovedFacts ==
  ASSUME NEW room \in Room, NEW c \in Conn
  PROVE  /\ Removed(room, c) \in Room \cup {NoRoom}
         /\ Removed(room, c) # NoRoom =>
              \A role \in Role :
                Removed(room, c)[role] = IF room[role] = c THEN NoConn ELSE room[role]
  BY DEF Removed, Room, Role

-----------------------------------------------------------------------------
(* What most handlers have in common                                       *)

\* A slot after the step holds nobody, who it held before, or a socket whose
\* own data say so.
SlotsExplained ==
  \A r \in RoomId, role \in Role :
    (rooms'[r] # NoRoom /\ rooms'[r][role] # NoConn) =>
      \/ rooms[r] # NoRoom /\ rooms'[r][role] = rooms[r][role]
      \/ /\ rooms'[r][role] \in Conn
         /\ phase'[rooms'[r][role]] # "absent" /\ data'[rooms'[r][role]].admitted
         /\ data'[rooms'[r][role]].roomId = r /\ data'[rooms'[r][role]].role = role

\* The socket neither comes nor goes, and stays where it is.
Stays(c) ==
  /\ phase'[c] = "absent" <=> phase[c] = "absent"
  /\ phase'[c] = "open" => phase[c] = "open"
  /\ phase[c] = "absent" => data'[c] = data[c]
  /\ data'[c].admitted = data[c].admitted
  /\ data[c].roomId # NoRoom => data'[c].roomId = data[c].roomId /\ data'[c].role = data[c].role
  /\ data'[c].state = "PENDING_HELLO" =>
       data[c].state = "PENDING_HELLO" /\ data'[c].roomId = data[c].roomId

Types ==
  /\ phase \in [Conn -> {"absent", "open", "closing"}]
  /\ data \in [Conn -> ConnectionData]
  /\ rooms \in [RoomId -> Room \cup {NoRoom}]
  /\ notice \in [Conn -> ServerFrame \cup {"none"}]
  /\ struck \subseteq RoomId

\* A slot's socket is one of the sockets.
LEMMA SlotType ==
  ASSUME TypeOK, NEW r \in RoomId, NEW role \in Role, Exists(r)
  PROVE  rooms[r] \in Room /\ rooms[r][role] \in Conn \cup {NoConn}
  BY DEF TypeOK, Exists, Room, Role

\* A handler that admits nobody and ends nobody preserves the invariant if it
\* can account for every slot.
LEMMA StayingStep ==
  ASSUME IInv, Types', openConnections' = openConnections,
         \A c \in Conn : Stays(c), SlotsExplained
  PROVE  IInv'
<1>1. TypeOK'
  BY DEF IInv, TypeOK, Types
<1>2. Lifecycle'
  BY DEF IInv, Lifecycle, Stays
<1>3. SlotsAreMembers'
  <2> SUFFICES ASSUME NEW r \in RoomId, NEW role \in Role, rooms'[r] # NoRoom,
                      rooms'[r][role] # NoConn
               PROVE  /\ phase'[rooms'[r][role]] # "absent" /\ data'[rooms'[r][role]].admitted
                      /\ data'[rooms'[r][role]].roomId = r /\ data'[rooms'[r][role]].role = role
    BY DEF SlotsAreMembers, Exists
  <2>1. CASE rooms[r] # NoRoom /\ rooms'[r][role] = rooms[r][role]
    <3> DEFINE c == rooms[r][role]
    <3>1. c \in Conn
      BY <2>1, SlotType DEF IInv, Exists
    <3>2. /\ phase[c] # "absent" /\ data[c].admitted
          /\ data[c].roomId = r /\ data[c].role = role
      BY <2>1 DEF IInv, SlotsAreMembers, Exists
    <3>3. QED
      BY <2>1, <3>1, <3>2 DEF Stays
  <2>2. QED
    BY <2>1 DEF SlotsExplained
<1>4. CapacityExact'
  <2>1. \A c \in Conn : (phase'[c] # "absent" /\ data'[c].admitted)
                          <=> (phase[c] # "absent" /\ data[c].admitted)
    BY DEF Stays
  <2>2. {c \in Conn : phase'[c] # "absent" /\ data'[c].admitted}
          = {c \in Conn : phase[c] # "absent" /\ data[c].admitted}
    BY <2>1
  <2>3. QED
    BY <2>2 DEF IInv, CapacityExact
<1>5. QED
  BY <1>1, <1>2, <1>3, <1>4 DEF IInv

\* ws.close and the frames that go with it.
LEMMA CloseAllFacts ==
  ASSUME Types, NEW S, CloseAll(S)
  PROVE  /\ phase' \in [Conn -> {"absent", "open", "closing"}]
         /\ \A c \in Conn : /\ phase'[c] = "absent" <=> phase[c] = "absent"
                            /\ phase'[c] = "open" => phase[c] = "open"
  BY DEF Types, CloseAll

LEMMA TellFacts ==
  ASSUME Types, NEW S, NEW frame \in ServerFrame, Tell(S, frame)
  PROVE  notice' \in [Conn -> ServerFrame \cup {"none"}]
  BY DEF Types, Tell

LEMMA SameRooms == ASSUME UNCHANGED rooms PROVE SlotsExplained
  BY DEF SlotsExplained

-----------------------------------------------------------------------------
(* One lemma per handler                                                   *)

LEMMA InitIInv == Init => IInv
<1> SUFFICES ASSUME Init PROVE IInv
  OBVIOUS
<1>1. TypeOK
  BY FreshFacts DEF Init, TypeOK, Fresh
<1>2. Lifecycle
  BY FreshFacts DEF Init, Lifecycle, Fresh
<1>3. SlotsAreMembers
  BY DEF Init, SlotsAreMembers, Exists
<1>4. CapacityExact
  <2>1. {c \in Conn : phase[c] # "absent" /\ data[c].admitted} = {}
    BY DEF Init
  <2>2. QED
    BY <2>1, FS_EmptySet DEF Init, CapacityExact
<1>5. QED
  BY <1>1, <1>2, <1>3, <1>4 DEF IInv

\* createHandlers().open: the count grows with the set of admitted sockets.
LEMMA OpenIInv ==
  ASSUME IInv, NEW c \in Conn, Open(c)
  PROVE  IInv'
<1>0. /\ phase[c] = "absent" /\ rooms' = rooms /\ struck' = struck /\ TypeOK /\ data[c] = Fresh
  BY DEF Open, IInv, Lifecycle, Fresh
<1> DEFINE A == {d \in Conn : phase[d] # "absent" /\ data[d].admitted}
<1>a. IsFiniteSet(A) /\ openConnections = Cardinality(A) /\ c \notin A
  BY <1>0, FS_Subset DEF IInv, CapacityExact
<1>1. CASE OpenAdmitted(c)
  <2>0. /\ openConnections < MaxConnections /\ openConnections' = openConnections + 1
        /\ phase' = [phase EXCEPT ![c] = "open"] /\ notice' = notice
        /\ data' = [data EXCEPT ![c] = [data[c] EXCEPT !.admitted = TRUE, !.helloTimer = TRUE]]
    BY <1>1, <1>0 DEF OpenAdmitted, TypeOK
  <2>1. /\ data'[c] \in ConnectionData /\ data'[c].admitted
        /\ data'[c].state = "PENDING_HELLO" /\ data'[c].roomId = NoRoom
    <3>1. data[c] \in ConnectionData
      BY <1>0 DEF TypeOK
    <3>2. data'[c] = [data[c] EXCEPT !.admitted = TRUE, !.helloTimer = TRUE]
      BY <1>0, <2>0 DEF TypeOK
    <3>3. data'[c] \in ConnectionData
      BY <3>1, <3>2, DataFacts
    <3>4. data'[c].admitted /\ data'[c].state = data[c].state /\ data'[c].roomId = data[c].roomId
      BY <3>1, <3>2 DEF ConnectionData
    <3>5. QED
      BY <1>0, <3>3, <3>4, FreshFacts
  <2>2. TypeOK'
    BY <1>0, <2>0, <2>1 DEF TypeOK
  <2>3. Lifecycle'
    BY <1>0, <2>0, <2>1 DEF IInv, Lifecycle, TypeOK
  <2>4. SlotsAreMembers'
    <3> SUFFICES ASSUME NEW r \in RoomId, NEW role \in Role, Exists(r), rooms[r][role] # NoConn
                 PROVE  /\ phase'[rooms[r][role]] # "absent" /\ data'[rooms[r][role]].admitted
                        /\ data'[rooms[r][role]].roomId = r /\ data'[rooms[r][role]].role = role
      BY <1>0 DEF SlotsAreMembers, Exists
    <3>1. rooms[r][role] \in Conn
      BY <1>0, SlotType
    <3>2. /\ phase[rooms[r][role]] # "absent" /\ data[rooms[r][role]].admitted
          /\ data[rooms[r][role]].roomId = r /\ data[rooms[r][role]].role = role
      BY DEF IInv, SlotsAreMembers
    <3>3. QED
      BY <1>0, <2>0, <3>1, <3>2 DEF TypeOK
  <2>5. CapacityExact'
    <3>1. {d \in Conn : phase'[d] # "absent" /\ data'[d].admitted} = A \cup {c}
      BY <1>0, <2>0, <2>1 DEF TypeOK
    <3>2. Cardinality(A \cup {c}) = Cardinality(A) + 1
      BY <1>a, FS_AddElement
    <3>3. QED
      BY <1>a, <2>0, <3>1, <3>2 DEF CapacityExact
  <2>6. QED
    BY <2>2, <2>3, <2>4, <2>5 DEF IInv
<1>2. ASSUME NEW code \in {"RATE_LIMITED", "OVER_CAPACITY"}, OpenRefused(c, code)
      PROVE  IInv'
  <2>0. /\ openConnections' = openConnections /\ data' = data
        /\ phase' = [phase EXCEPT ![c] = "closing"] /\ Tell({c}, "ERROR")
    BY <1>2 DEF OpenRefused
  <2>1. notice' \in [Conn -> ServerFrame \cup {"none"}]
    BY <1>0, <2>0, TellFacts DEF TypeOK, Types, ServerFrame
  <2>2. TypeOK'
    BY <1>0, <2>0, <2>1 DEF TypeOK
  <2>3. Lifecycle'
    BY <1>0, <2>0 DEF IInv, Lifecycle, TypeOK
  <2>4. SlotsAreMembers'
    <3> SUFFICES ASSUME NEW r \in RoomId, NEW role \in Role, Exists(r), rooms[r][role] # NoConn
                 PROVE  /\ phase'[rooms[r][role]] # "absent" /\ data[rooms[r][role]].admitted
                        /\ data[rooms[r][role]].roomId = r /\ data[rooms[r][role]].role = role
      BY <1>0, <2>0 DEF SlotsAreMembers, Exists
    <3>1. rooms[r][role] \in Conn
      BY <1>0, SlotType
    <3>2. QED
      BY <1>0, <2>0, <3>1 DEF IInv, SlotsAreMembers, TypeOK
  <2>5. CapacityExact'
    <3>1. {d \in Conn : phase'[d] # "absent" /\ data'[d].admitted} = A
      BY <1>0, <2>0, FreshFacts DEF TypeOK
    <3>2. QED
      BY <1>a, <2>0, <3>1 DEF CapacityExact
  <2>6. QED
    BY <2>2, <2>3, <2>4, <2>5 DEF IInv
<1>3. QED
  BY <1>1, <1>2 DEF Open

\* Handlers that only close sockets, tell them why and clear the timer of c.
LEMMA RefusalIInv ==
  ASSUME IInv, NEW c \in Conn, phase[c] # "absent",
         data' = data \/ data' = [data EXCEPT ![c] = clearHelloTimer(c)],
         ErrorAndClose({c}),
         UNCHANGED <<rooms, openConnections, struck>>
  PROVE  IInv'
<1>0. Types
  BY DEF IInv, TypeOK, Types
<1>1. /\ data[c] \in ConnectionData /\ clearHelloTimer(c) \in ConnectionData
  BY <1>0, DataFacts DEF Types, clearHelloTimer
<1>2. /\ clearHelloTimer(c).admitted = data[c].admitted
      /\ clearHelloTimer(c).roomId = data[c].roomId
      /\ clearHelloTimer(c).role = data[c].role
      /\ clearHelloTimer(c).state = data[c].state
  BY <1>1 DEF clearHelloTimer, ConnectionData
<1>3. /\ phase' \in [Conn -> {"absent", "open", "closing"}]
      /\ \A d \in Conn : /\ phase'[d] = "absent" <=> phase[d] = "absent"
                         /\ phase'[d] = "open" => phase[d] = "open"
  BY <1>0, CloseAllFacts DEF ErrorAndClose
<1>4. notice' \in [Conn -> ServerFrame \cup {"none"}]
  BY <1>0, TellFacts DEF ErrorAndClose, ServerFrame
<1>5. Types'
  BY <1>0, <1>1, <1>3, <1>4 DEF Types
<1>6. ASSUME NEW d \in Conn PROVE Stays(d)
  BY <1>0, <1>2, <1>3 DEF Stays, Types
<1>7. QED
  BY <1>5, <1>6, SameRooms, StayingStep

LEMMA HelloTimeoutIInv ==
  ASSUME IInv, NEW c \in Conn, HelloTimeout(c)
  PROVE  IInv'
<1>1. phase[c] # "absent"
  BY FreshFacts DEF HelloTimeout, IInv, Lifecycle, Fresh
<1>2. QED
  BY <1>1, RefusalIInv DEF HelloTimeout

LEMMA InvalidMessageIInv ==
  ASSUME IInv, NEW c \in Conn, InvalidMessage(c)
  PROVE  IInv'
<1>1. phase[c] # "absent"
  BY DEF InvalidMessage, Receives
<1>2. QED
  BY <1>1, RefusalIInv DEF InvalidMessage

LEMMA HelloRefusedIInv ==
  ASSUME IInv, NEW c \in Conn, NEW r \in RoomId, NEW intent \in Intent, NEW code \in ErrorCode,
         HelloRefused(c, r, intent, code)
  PROVE  IInv'
<1>1. phase[c] # "absent"
  BY DEF HelloRefused, Receives
<1>2. QED
  BY <1>1, RefusalIInv DEF HelloRefused

LEMMA ForwardRefusedIInv ==
  ASSUME IInv, NEW c \in Conn, NEW code \in ErrorCode, ForwardRefused(c, code)
  PROVE  IInv'
<1>1. phase[c] # "absent"
  BY DEF ForwardRefused, Receives
<1>2. QED
  BY <1>1, RefusalIInv DEF ForwardRefused

\* A socket that enters: it was open, so admitted, and in no room.
LEMMA Entering ==
  ASSUME IInv, NEW c \in Conn, Receives(c), data[c].state = "PENDING_HELLO",
         NEW r \in RoomId, NEW st \in {"WAITING_FOR_PEER", "PAIRED"}, NEW role \in Role
  PROVE  /\ phase[c] = "open" /\ data[c].admitted /\ data[c].roomId = NoRoom
         /\ Enter(c, r, st, role) \in ConnectionData
         /\ Enter(c, r, st, role).roomId = r /\ Enter(c, r, st, role).state = st
         /\ Enter(c, r, st, role).role = role /\ Enter(c, r, st, role).admitted
<1>1. phase[c] = "open" /\ data[c].admitted /\ data[c].roomId = NoRoom
  BY DEF Receives, IInv, Lifecycle
<1>2. data[c] \in ConnectionData
  BY DEF IInv, TypeOK
<1> DEFINE e == Enter(c, r, st, role)
<1>3. e = [[data[c] EXCEPT !.helloTimer = FALSE] EXCEPT !.roomId = r, !.state = st, !.role = role]
  BY DEF Enter, clearHelloTimer
<1> HIDE DEF e
<1>4. e \in ConnectionData
  BY <1>2, <1>3 DEF ConnectionData, Role
<1>5. e.roomId = r /\ e.state = st /\ e.role = role /\ e.admitted = data[c].admitted
  BY <1>2, <1>3 DEF ConnectionData
<1>6. QED
  BY <1>1, <1>4, <1>5 DEF e

\* handleCreate
LEMMA CreateIInv ==
  ASSUME IInv, NEW c \in Conn, NEW r \in RoomId, Create(c, r)
  PROVE  IInv'
<1> DEFINE e == Enter(c, r, "WAITING_FOR_PEER", "initiator")
<1>0. /\ Types /\ Receives(c) /\ data[c].state = "PENDING_HELLO"
      /\ data' = [data EXCEPT ![c] = e] /\ openConnections' = openConnections
      /\ struck' = struck /\ phase' = phase
  BY DEF Create, IInv, TypeOK, Types
<1>1. /\ phase[c] = "open" /\ data[c].admitted /\ data[c].roomId = NoRoom
      /\ e \in ConnectionData /\ e.roomId = r /\ e.state = "WAITING_FOR_PEER"
      /\ e.role = "initiator" /\ e.admitted
  BY <1>0, Entering DEF Role
<1> HIDE DEF e
<1>2. \A d \in Conn : Stays(d)
  BY <1>0, <1>1 DEF Stays, Types
<1>3. CASE /\ rooms' = [rooms EXCEPT ![r] = CreatedRoom(c)] /\ Tell({c}, "ACK")
  <2>1. notice' \in [Conn -> ServerFrame \cup {"none"}]
    BY <1>0, <1>3, TellFacts DEF ServerFrame
  <2>2. Types'
    BY <1>0, <1>1, <1>3, <2>1, CreatedFacts DEF Types
  <2>4. SlotsExplained
    <3>1. rooms'[r].initiator = c /\ rooms'[r].joiner = NoConn
      BY <1>0, <1>3, CreatedFacts DEF Types
    <3>2. phase'[c] = "open" /\ data'[c] = e
      BY <1>0, <1>1, <1>3 DEF Types
    <3>3. \A q \in RoomId : q # r => rooms'[q] = rooms[q]
      BY <1>0, <1>3 DEF Types
    <3>4. QED
      BY <1>1, <3>1, <3>2, <3>3 DEF SlotsExplained, Role
  <2>5. QED
    BY <1>0, <1>2, <2>2, <2>4, StayingStep
<1>4. CASE UNCHANGED <<rooms, notice>>
  <2>1. Types'
    BY <1>0, <1>1, <1>4 DEF Types
  <2>2. QED
    BY <1>0, <1>2, <1>4, <2>1, SameRooms, StayingStep
<1>5. QED
  BY <1>3, <1>4 DEF Create

\* The data after a join: c has its place, the one who waited is paired.
LEMMA EnteredFacts ==
  ASSUME IInv, NEW c \in Conn, NEW r \in RoomId, NEW intent \in Intent, CanEnter(c, r, intent)
  PROVE  /\ rooms[r] \in Room /\ phase[c] = "open"
         /\ SlotFor(rooms[r]) \in Role
         /\ EnteredData(c, r) \in [Conn -> ConnectionData]
         /\ EnteredData(c, r)[c].roomId = r /\ EnteredData(c, r)[c].admitted
         /\ EnteredData(c, r)[c].role = SlotFor(rooms[r])
         /\ \A d \in Conn :
              /\ phase[d] = "absent" => EnteredData(c, r)[d] = data[d]
              /\ EnteredData(c, r)[d].admitted = data[d].admitted
              /\ data[d].roomId # NoRoom => /\ EnteredData(c, r)[d].roomId = data[d].roomId
                                            /\ EnteredData(c, r)[d].role = data[d].role
              /\ EnteredData(c, r)[d].state = "PENDING_HELLO" => EnteredData(c, r)[d] = data[d]
<1> DEFINE p == Remaining(rooms[r])
           e == Enter(c, r, "PAIRED", SlotFor(rooms[r]))
           one == [data EXCEPT ![c] = e]
           two == EnteredData(c, r)
<1>0. Types /\ Receives(c) /\ data[c].state = "PENDING_HELLO" /\ Exists(r) /\ hasFreeSlot(rooms[r])
  BY DEF CanEnter, IInv, TypeOK, Types
<1>1. rooms[r] \in Room /\ SlotFor(rooms[r]) \in Role
  BY <1>0, AddFacts DEF Types, Exists
<1>2. /\ phase[c] = "open" /\ data[c].admitted /\ data[c].roomId = NoRoom
      /\ e \in ConnectionData /\ e.roomId = r /\ e.state = "PAIRED"
      /\ e.role = SlotFor(rooms[r]) /\ e.admitted
  BY <1>0, <1>1, Entering
<1>3. p \in Conn => phase[p] # "absent"
  <2>1. p \in {rooms[r]["initiator"], rooms[r]["joiner"]}
    BY DEF Remaining
  <2>2. QED
    BY <1>0, <2>1 DEF IInv, SlotsAreMembers, Role
<1>4. two = [one EXCEPT ![p] = [one[p] EXCEPT !.state = "PAIRED"]]
  BY DEF EnteredData
<1> HIDE DEF p, e, two
<1>5. one \in [Conn -> ConnectionData] /\ one[c] = e /\ \A d \in Conn \ {c} : one[d] = data[d]
  BY <1>0, <1>2 DEF Types
<1> HIDE DEF one
<1>6. ASSUME NEW d \in Conn
      PROVE  /\ two[d] \in ConnectionData
             /\ two[d].admitted = one[d].admitted /\ two[d].roomId = one[d].roomId
             /\ two[d].role = one[d].role
             /\ two[d] = one[d] \/ (d = p /\ two[d].state = "PAIRED")
  <2>1. one[d] \in ConnectionData
    BY <1>5
  <2>2. CASE d # p
    BY <1>4, <1>5, <2>1, <2>2
  <2>3. CASE d = p
    <3>1. two[d] = [one[d] EXCEPT !.state = "PAIRED"]
      BY <1>4, <1>5, <2>3
    <3>2. two[d] \in ConnectionData
      BY <2>1, <3>1, DataFacts
    <3>3. /\ two[d].admitted = one[d].admitted /\ two[d].roomId = one[d].roomId
          /\ two[d].role = one[d].role /\ two[d].state = "PAIRED"
      BY <2>1, <3>1 DEF ConnectionData
    <3>4. QED
      BY <2>3, <3>2, <3>3
  <2>4. QED
    BY <2>2, <2>3
<1>7. two \in [Conn -> ConnectionData]
  <2>1. two = [d \in Conn |-> two[d]]
    BY <1>4, <1>5
  <2>2. QED
    BY <2>1, <1>6
<1>8. ASSUME NEW d \in Conn
      PROVE  /\ phase[d] = "absent" => two[d] = data[d]
             /\ two[d].admitted = data[d].admitted
             /\ data[d].roomId # NoRoom => /\ two[d].roomId = data[d].roomId
                                           /\ two[d].role = data[d].role
             /\ two[d].state = "PENDING_HELLO" => two[d] = data[d]
  <2>1. CASE d = c
    BY <1>2, <1>5, <1>6, <2>1 DEF Types
  <2>2. CASE d # c
    BY <1>3, <1>5, <1>6, <2>2
  <2>3. QED
    BY <2>1, <2>2
<1>9. QED
  BY <1>1, <1>2, <1>5, <1>6, <1>7, <1>8 DEF two

\* handleJoinOrResume
LEMMA JoinOrResumeIInv ==
  ASSUME IInv, NEW c \in Conn, NEW r \in RoomId, NEW intent \in Intent,
         JoinOrResume(c, r, intent)
  PROVE  IInv'
<1> DEFINE two == EnteredData(c, r)
<1>0. /\ Types /\ CanEnter(c, r, intent) /\ hasFreeSlot(rooms[r]) /\ Exists(r)
      /\ rooms' = [rooms EXCEPT ![r] = addPeer(rooms[r], c)]
      /\ data' = two /\ phase' = phase /\ openConnections' = openConnections /\ struck' = struck
      /\ notice' = [notice EXCEPT ![c] = "ACK", ![Remaining(rooms[r])] = "PEER_JOINED"]
  BY DEF JoinOrResume, CanEnter, IInv, TypeOK, Types
<1> HIDE DEF two
<1>1. /\ rooms[r] \in Room /\ phase[c] = "open" /\ SlotFor(rooms[r]) \in Role
      /\ data' \in [Conn -> ConnectionData]
      /\ data'[c].roomId = r /\ data'[c].admitted /\ data'[c].role = SlotFor(rooms[r])
  BY <1>0, EnteredFacts DEF two
<1>2. \A d \in Conn : Stays(d)
  BY <1>0, EnteredFacts DEF two, Stays
<1>3. Types'
  <2>1. notice' \in [Conn -> ServerFrame \cup {"none"}]
    BY <1>0 DEF Types, ServerFrame
  <2>2. QED
    BY <1>0, <1>1, <2>1, AddFacts DEF Types
<1>4. SlotsExplained
  <2>1. /\ rooms'[r] = addPeer(rooms[r], c)
        /\ \A q \in RoomId : q # r => rooms'[q] = rooms[q]
    BY <1>0 DEF Types
  <2>2. /\ rooms'[r][SlotFor(rooms[r])] = c
        /\ \A role \in Role : role # SlotFor(rooms[r]) => rooms'[r][role] = rooms[r][role]
    BY <1>0, <1>1, <2>1, AddFacts
  <2>3. QED
    BY <1>0, <1>1, <2>1, <2>2 DEF SlotsExplained, Exists
<1>5. QED
  BY <1>0, <1>2, <1>3, <1>4, StayingStep

LEMMA JoinDroppedIInv ==
  ASSUME IInv, NEW c \in Conn, NEW r \in RoomId, NEW intent \in Intent,
         JoinDropped(c, r, intent)
  PROVE  IInv'
<1> DEFINE two == EnteredData(c, r)
           S == {c, Remaining(rooms[r])}
<1>0. /\ Types /\ CanEnter(c, r, intent)
      /\ rooms' = [rooms EXCEPT ![r] = NoRoom] /\ CloseAll(S)
      /\ data' = two /\ openConnections' = openConnections /\ struck' = struck
      /\ notice' \in {notice, [notice EXCEPT ![c] = "ACK"]}
  BY DEF JoinDropped, IInv, TypeOK, Types
<1> HIDE DEF two, S
<1>1. /\ phase' \in [Conn -> {"absent", "open", "closing"}]
      /\ \A d \in Conn : /\ phase'[d] = "absent" <=> phase[d] = "absent"
                         /\ phase'[d] = "open" => phase[d] = "open"
  BY <1>0, CloseAllFacts
<1>2. \A d \in Conn : Stays(d)
  BY <1>0, <1>1, EnteredFacts DEF two, Stays
<1>3. Types'
  <2>1. notice' \in [Conn -> ServerFrame \cup {"none"}]
    BY <1>0 DEF Types, ServerFrame
  <2>2. data' \in [Conn -> ConnectionData]
    BY <1>0, EnteredFacts DEF two
  <2>3. QED
    BY <1>0, <1>1, <2>1, <2>2 DEF Types
<1>4. SlotsExplained
  BY <1>0 DEF SlotsExplained, Types
<1>5. QED
  BY <1>0, <1>2, <1>3, <1>4, StayingStep

\* Counting a handshake touches nothing the invariant speaks of.
LEMMA CountFacts ==
  ASSUME IInv, NEW c \in Conn, phase[c] # "absent", UNCHANGED data \/ CountHandshake(c),
         \A d \in Conn : /\ phase'[d] = "absent" <=> phase[d] = "absent"
                         /\ phase'[d] = "open" => phase[d] = "open"
  PROVE  data' \in [Conn -> ConnectionData] /\ \A d \in Conn : Stays(d)
<1>0. data \in [Conn -> ConnectionData] /\ data[c] \in ConnectionData
  BY DEF IInv, TypeOK
<1>1. CASE UNCHANGED data
  BY <1>0, <1>1 DEF Stays
<1>2. CASE CountHandshake(c)
  <2> DEFINE e == [data[c] EXCEPT !.handshakeForwards = data[c].handshakeForwards + 1]
  <2>1. data' = [data EXCEPT ![c] = e] /\ data[c].handshakeForwards < MAX_HANDSHAKE_FORWARDS
    BY <1>2 DEF CountHandshake
  <2>2. e \in ConnectionData
    BY <1>0, <2>1, DataFacts
  <2>3. /\ e.admitted = data[c].admitted /\ e.roomId = data[c].roomId
        /\ e.role = data[c].role /\ e.state = data[c].state
    BY <1>0 DEF ConnectionData
  <2> HIDE DEF e
  <2>4. data' \in [Conn -> ConnectionData]
    BY <1>0, <2>1, <2>2
  <2>5. ASSUME NEW d \in Conn PROVE Stays(d)
    BY <1>0, <2>1, <2>3 DEF Stays
  <2>6. QED
    BY <2>4, <2>5
<1>3. QED
  BY <1>1, <1>2

\* handleForward
LEMMA ForwardHandshakeIInv ==
  ASSUME IInv, NEW c \in Conn, ForwardHandshake(c)
  PROVE  IInv'
<1>0. /\ Types /\ phase[c] # "absent" /\ CountHandshake(c) /\ UNCHANGED rooms
      /\ phase' = phase /\ openConnections' = openConnections /\ notice' = notice
      /\ struck' = struck
  BY DEF ForwardHandshake, HasPeer, Receives, IInv, TypeOK, Types
<1>1. data' \in [Conn -> ConnectionData] /\ \A d \in Conn : Stays(d)
  BY <1>0, CountFacts
<1>2. Types'
  BY <1>0, <1>1 DEF Types
<1>3. QED
  BY <1>0, <1>1, <1>2, SameRooms, StayingStep

LEMMA ForwardBreaksIInv ==
  ASSUME IInv, NEW c \in Conn, ForwardBreaks(c)
  PROVE  IInv'
<1> DEFINE S == {c, PeerOf(c)}
<1>0. /\ Types /\ phase[c] # "absent" /\ (UNCHANGED data \/ CountHandshake(c))
      /\ rooms' = [rooms EXCEPT ![data[c].roomId] = NoRoom]
      /\ CloseAll(S) /\ (UNCHANGED notice \/ Tell(S, "ERROR"))
      /\ openConnections' = openConnections /\ struck' = struck
  BY DEF ForwardBreaks, HasPeer, Receives, IInv, TypeOK, Types
<1> HIDE DEF S
<1>1. /\ phase' \in [Conn -> {"absent", "open", "closing"}]
      /\ \A d \in Conn : /\ phase'[d] = "absent" <=> phase[d] = "absent"
                         /\ phase'[d] = "open" => phase[d] = "open"
  BY <1>0, CloseAllFacts
<1>2. data' \in [Conn -> ConnectionData] /\ \A d \in Conn : Stays(d)
  BY <1>0, <1>1, CountFacts
<1>3. notice' \in [Conn -> ServerFrame \cup {"none"}]
  <2>1. CASE UNCHANGED notice
    BY <1>0, <2>1 DEF Types
  <2>2. CASE Tell(S, "ERROR")
    BY <1>0, <2>2, TellFacts DEF ServerFrame
  <2>3. QED
    BY <1>0, <2>1, <2>2
<1>4. Types'
  BY <1>0, <1>1, <1>2, <1>3 DEF Types
<1>5. SlotsExplained
  BY <1>0 DEF SlotsExplained, Types
<1>6. QED
  BY <1>0, <1>2, <1>4, <1>5, StayingStep

\* Time: the room is another one with the same slots.
LEMMA AgedRoom ==
  ASSUME IInv, NEW r \in RoomId, WaitTimePasses(r) \/ GraceTimePasses(r)
  PROVE  \E room \in Room : /\ rooms' = [rooms EXCEPT ![r] = room]
                            /\ \A role \in Role : room[role] = rooms[r][role]
<1>0. rooms[r] \in Room
  BY DEF WaitTimePasses, GraceTimePasses, IInv, TypeOK, Exists
<1>1. CASE WaitTimePasses(r)
  <2> DEFINE room == [rooms[r] EXCEPT !.waited = TRUE]
  <2>1. rooms' = [rooms EXCEPT ![r] = room]
    BY <1>1 DEF WaitTimePasses
  <2>2. room \in Room
    BY <1>0 DEF Room
  <2>3. \A role \in Role : room[role] = rooms[r][role]
    BY <1>0 DEF Room, Role
  <2> HIDE DEF room
  <2>4. QED
    BY <2>1, <2>2, <2>3
<1>2. CASE GraceTimePasses(r)
  <2> DEFINE room == [rooms[r] EXCEPT !.idle = TRUE]
  <2>1. rooms' = [rooms EXCEPT ![r] = room]
    BY <1>2 DEF GraceTimePasses
  <2>2. room \in Room
    BY <1>0 DEF Room
  <2>3. \A role \in Role : room[role] = rooms[r][role]
    BY <1>0 DEF Room, Role
  <2> HIDE DEF room
  <2>4. QED
    BY <2>1, <2>2, <2>3
<1>3. QED
  BY <1>1, <1>2

\* Time and the sweeper: rooms age or go, slots stay.
LEMMA AgeIInv ==
  ASSUME IInv, NEW r \in RoomId, WaitTimePasses(r) \/ GraceTimePasses(r)
  PROVE  IInv'
<1>0. /\ Types /\ Exists(r) /\ rooms[r] \in Room
      /\ phase' = phase /\ data' = data /\ openConnections' = openConnections /\ notice' = notice
      /\ struck' = struck
  BY DEF WaitTimePasses, GraceTimePasses, IInv, TypeOK, Types, Exists
<1>1. PICK room \in Room : /\ rooms' = [rooms EXCEPT ![r] = room]
                           /\ \A role \in Role : room[role] = rooms[r][role]
  BY AgedRoom
<1>2. /\ rooms' \in [RoomId -> Room \cup {NoRoom}]
      /\ \A q \in RoomId : q # r => rooms'[q] = rooms[q]
      /\ \A role \in Role : rooms'[r][role] = rooms[r][role]
  BY <1>0, <1>1 DEF Types
<1>3. Types'
  BY <1>0, <1>2 DEF Types
<1>4. SlotsExplained
  BY <1>0, <1>2 DEF SlotsExplained, Exists
<1>5. \A d \in Conn : Stays(d)
  BY <1>0 DEF Stays
<1>6. QED
  BY <1>0, <1>3, <1>4, <1>5, StayingStep

LEMMA SweepIInv == ASSUME IInv, Sweep PROVE IInv'
<1> DEFINE gone == {r \in RoomId : Expired(r)}
           left == {Remaining(rooms[r]) : r \in gone}
           told == {Remaining(rooms[r]) : r \in {g \in gone : rooms[g].state = "HALF_OPEN"}}
<1>0. /\ Types /\ CloseAll(left) /\ Tell(told, "PEER_LEFT")
      /\ rooms' = [r \in RoomId |-> IF r \in gone THEN NoRoom ELSE rooms[r]]
      /\ data' = data /\ openConnections' = openConnections /\ struck' = struck
  BY DEF Sweep, IInv, TypeOK, Types
<1> HIDE DEF gone, left, told
<1>1. /\ phase' \in [Conn -> {"absent", "open", "closing"}]
      /\ \A d \in Conn : /\ phase'[d] = "absent" <=> phase[d] = "absent"
                         /\ phase'[d] = "open" => phase[d] = "open"
  BY <1>0, CloseAllFacts
<1>2. notice' \in [Conn -> ServerFrame \cup {"none"}]
  BY <1>0, TellFacts DEF ServerFrame
<1>3. Types'
  BY <1>0, <1>1, <1>2 DEF Types
<1>4. SlotsExplained
  BY <1>0 DEF SlotsExplained, Types
<1>5. \A d \in Conn : Stays(d)
  BY <1>0, <1>1 DEF Stays
<1>6. QED
  BY <1>0, <1>3, <1>4, <1>5, StayingStep

\* handleClose: the socket leaves its room, and the count with it.
LEMMA CloseIInv ==
  ASSUME IInv, NEW c \in Conn, Close(c)
  PROVE  IInv'
<1> DEFINE A == {d \in Conn : phase[d] # "absent" /\ data[d].admitted}
           r0 == data[c].roomId
<1>0. /\ TypeOK /\ phase[c] # "absent" /\ phase' = [phase EXCEPT ![c] = "absent"]
      /\ data' = [data EXCEPT ![c] = Fresh] /\ openConnections' = ConnectionsWithout(c)
      /\ data[c] \in ConnectionData /\ struck' \subseteq RoomId
  BY DEF Close, Stranger, IInv, TypeOK, ConnectionData, Fresh
<1>1. IsFiniteSet(A) /\ openConnections = Cardinality(A) /\ Cardinality(A) \in Nat
  BY FS_Subset, FS_CardinalityType DEF IInv, CapacityExact
<1>2. openConnections' = Cardinality(A \ {c})
  <2>1. CASE data[c].admitted
    <3>1. c \in A
      BY <1>0, <2>1
    <3>2. Cardinality(A \ {c}) = Cardinality(A) - 1
      BY <1>1, <3>1, FS_RemoveElement
    <3>3. QED
      BY <1>0, <1>1, <2>1, <3>2 DEF ConnectionsWithout
  <2>2. CASE ~data[c].admitted
    <3>1. A \ {c} = A
      BY <2>2
    <3>2. QED
      BY <1>0, <1>1, <2>2, <3>1 DEF ConnectionsWithout
  <2>3. QED
    BY <2>1, <2>2
<1>3. CapacityExact'
  <2>1. {d \in Conn : phase'[d] # "absent" /\ data'[d].admitted} = A \ {c}
    BY <1>0 DEF TypeOK
  <2>2. QED
    BY <1>2, <2>1 DEF CapacityExact
<1>4. openConnections' \in 0..MaxConnections
  <2>1. Cardinality(A \ {c}) \in Nat /\ Cardinality(A \ {c}) <= Cardinality(A)
    BY <1>1, FS_Subset, FS_CardinalityType
  <2>2. QED
    BY <1>0, <1>1, <1>2, <2>1 DEF TypeOK
<1>5. notice' \in [Conn -> ServerFrame \cup {"none"}]
  BY <1>0 DEF Close, RoomsWithout, TypeOK, ServerFrame
<1>6. /\ rooms' \in [RoomId -> Room \cup {NoRoom}]
      /\ \A r \in RoomId, role \in Role :
           (rooms'[r] # NoRoom /\ rooms'[r][role] # NoConn) =>
             /\ Exists(r) /\ rooms'[r][role] = rooms[r][role] /\ rooms[r][role] # c
  <2>0. ASSUME NEW r \in RoomId, NEW role \in Role, Exists(r), rooms[r][role] = c
        PROVE  r0 = r
    BY <2>0 DEF IInv, SlotsAreMembers
  <2>1. CASE r0 # NoRoom /\ Exists(r0)
    <3>1. r0 \in RoomId /\ rooms[r0] \in Room
      BY <1>0, <2>1 DEF TypeOK, Exists, ConnectionData
    <3>2. rooms' = [rooms EXCEPT ![r0] = Removed(rooms[r0], c)]
      BY <2>1 DEF Close, RoomsWithout
    <3>3. /\ Removed(rooms[r0], c) \in Room \cup {NoRoom}
          /\ Removed(rooms[r0], c) # NoRoom =>
               \A role \in Role :
                 Removed(rooms[r0], c)[role] = IF rooms[r0][role] = c THEN NoConn ELSE rooms[r0][role]
      BY <3>1, RemovedFacts
    <3>4. QED
      BY <1>0, <2>0, <2>1, <3>1, <3>2, <3>3 DEF TypeOK, Exists
  <2>2. CASE ~(r0 # NoRoom /\ Exists(r0))
    <3>1. rooms' = rooms
      BY <2>2 DEF Close, RoomsWithout
    <3>2. QED
      BY <1>0, <2>0, <2>2, <3>1 DEF TypeOK, Exists
  <2>3. QED
    BY <2>1, <2>2
<1>7. TypeOK'
  BY <1>0, <1>4, <1>5, <1>6, FreshFacts DEF TypeOK
<1>8. Lifecycle'
  BY <1>0, FreshFacts DEF IInv, Lifecycle, TypeOK, Fresh
<1>9. SlotsAreMembers'
  <2> SUFFICES ASSUME NEW r \in RoomId, NEW role \in Role, rooms'[r] # NoRoom,
                      rooms'[r][role] # NoConn
               PROVE  /\ phase'[rooms'[r][role]] # "absent" /\ data'[rooms'[r][role]].admitted
                      /\ data'[rooms'[r][role]].roomId = r /\ data'[rooms'[r][role]].role = role
    BY DEF SlotsAreMembers, Exists
  <2>1. Exists(r) /\ rooms'[r][role] = rooms[r][role] /\ rooms[r][role] # c
    BY <1>6
  <2>2. rooms[r][role] \in Conn
    BY <1>0, <2>1, SlotType
  <2>3. /\ phase[rooms[r][role]] # "absent" /\ data[rooms[r][role]].admitted
        /\ data[rooms[r][role]].roomId = r /\ data[rooms[r][role]].role = role
    BY <2>1 DEF IInv, SlotsAreMembers
  <2>4. QED
    BY <1>0, <2>1, <2>2, <2>3 DEF TypeOK
<1>10. QED
  BY <1>3, <1>7, <1>8, <1>9 DEF IInv

-----------------------------------------------------------------------------
(* The theorems                                                            *)

LEMMA NextIInv == IInv /\ [Next]_vars => IInv'
<1> SUFFICES ASSUME IInv, [Next]_vars PROVE IInv'
  OBVIOUS
<1>1. CASE UNCHANGED vars
  <2>1. /\ phase' = phase /\ data' = data /\ rooms' = rooms
        /\ openConnections' = openConnections /\ notice' = notice /\ struck' = struck
    BY <1>1 DEF vars
  <2>2. Types'
    BY <2>1 DEF IInv, TypeOK, Types
  <2>3. \A d \in Conn : Stays(d)
    BY <2>1 DEF Stays
  <2>4. QED
    BY <2>1, <2>2, <2>3, SameRooms, StayingStep
<1>2. ASSUME NEW c \in Conn, Open(c) \/ HelloTimeout(c) \/ InvalidMessage(c) \/ Close(c)
      PROVE  IInv'
  BY <1>2, OpenIInv, HelloTimeoutIInv, InvalidMessageIInv, CloseIInv
<1>3. ASSUME NEW c \in Conn, Hello(c)
      PROVE  IInv'
  BY <1>3, CreateIInv, JoinOrResumeIInv, JoinDroppedIInv, HelloRefusedIInv DEF Hello
<1>4. ASSUME NEW c \in Conn, Forward(c)
      PROVE  IInv'
  BY <1>4, ForwardHandshakeIInv, ForwardBreaksIInv, ForwardRefusedIInv DEF Forward
<1>5. QED
  BY <1>1, <1>2, <1>3, <1>4, AgeIInv, SweepIInv DEF Next

LEMMA InductiveInvariant == Spec => []IInv
  BY InitIInv, NextIInv, PTL DEF Spec

\* RelayServer's types; among them that no more than MaxConnections sockets
\* are ever counted in, and that no HANDSHAKE is forwarded beyond its cap.
THEOREM TypeCorrect == Spec => []TypeOK
<1>1. IInv => TypeOK
  BY DEF IInv
<1>2. QED
  BY <1>1, InductiveInvariant, PTL

\* handleCreate, addPeer, remove and the deletions keep each slot and the data
\* of the socket in it in step.
THEOREM SlotsHoldMembers == Spec => []SlotsAreMembers
<1>1. IInv => SlotsAreMembers
  BY DEF IInv
<1>2. QED
  BY <1>1, InductiveInvariant, PTL

\* createHandlers().open and close: openConnections counts the admitted.
THEOREM CapacityIsExact == Spec => []CapacityExact
<1>1. IInv => CapacityExact
  BY DEF IInv
<1>2. QED
  BY <1>1, InductiveInvariant, PTL

\* A step that leaves the slots of a room as they are, or empties them, steals
\* none; a handler that deletes rooms only does the same.
SlotsKept ==
  \A r \in RoomId, role \in Role :
    (rooms[r] # NoRoom /\ rooms'[r] # NoRoom /\ rooms[r][role] # NoConn) =>
      rooms'[r][role] \in {rooms[r][role], NoConn}

LEMMA AgeKeepsSlots ==
  ASSUME IInv, NEW r \in RoomId, WaitTimePasses(r) \/ GraceTimePasses(r)
  PROVE  SlotsKept
<1>0. rooms \in [RoomId -> Room \cup {NoRoom}]
  BY DEF IInv, TypeOK
<1>1. PICK room \in Room : /\ rooms' = [rooms EXCEPT ![r] = room]
                           /\ \A role \in Role : room[role] = rooms[r][role]
  BY AgedRoom
<1>2. QED
  BY <1>0, <1>1 DEF SlotsKept

LEMMA HelloKeepsSlots ==
  ASSUME IInv, NEW c \in Conn, Hello(c)
  PROVE  SlotsKept
<1>0. rooms \in [RoomId -> Room \cup {NoRoom}]
  BY DEF IInv, TypeOK
<1>1. ASSUME NEW r \in RoomId, Create(c, r) PROVE SlotsKept
  BY <1>0, <1>1 DEF Create, Exists, SlotsKept
<1>2. ASSUME NEW r \in RoomId, NEW intent \in Intent, JoinOrResume(c, r, intent)
      PROVE  SlotsKept
  <2>1. /\ rooms' = [rooms EXCEPT ![r] = addPeer(rooms[r], c)]
        /\ rooms[r] \in Room /\ hasFreeSlot(rooms[r])
    BY <1>0, <1>2 DEF JoinOrResume, CanEnter, Exists
  <2>2. /\ rooms'[r] = addPeer(rooms[r], c)
        /\ \A q \in RoomId : q # r => rooms'[q] = rooms[q]
    BY <1>0, <2>1
  <2>3. \A role \in Role : rooms[r][role] # NoConn => rooms'[r][role] = rooms[r][role]
    BY <2>1, <2>2, AddFacts
  <2>4. QED
    BY <2>2, <2>3 DEF SlotsKept
<1>3. ASSUME NEW r \in RoomId, NEW intent \in Intent, JoinDropped(c, r, intent)
      PROVE  SlotsKept
  BY <1>0, <1>3 DEF JoinDropped, SlotsKept
<1>4. ASSUME NEW r \in RoomId, NEW intent \in Intent, NEW code \in ErrorCode,
             HelloRefused(c, r, intent, code)
      PROVE  SlotsKept
  BY <1>4 DEF HelloRefused, SlotsKept
<1>5. QED
  BY <1>1, <1>2, <1>3, <1>4 DEF Hello

LEMMA CloseKeepsSlots ==
  ASSUME IInv, NEW c \in Conn, Close(c)
  PROVE  SlotsKept
<1> DEFINE r0 == data[c].roomId
<1>0. rooms \in [RoomId -> Room \cup {NoRoom}] /\ data[c] \in ConnectionData
  BY DEF IInv, TypeOK
<1>1. CASE r0 # NoRoom /\ Exists(r0)
  <2>1. r0 \in RoomId /\ rooms[r0] \in Room
    BY <1>0, <1>1 DEF Exists, ConnectionData
  <2>2. rooms' = [rooms EXCEPT ![r0] = Removed(rooms[r0], c)]
    BY <1>1 DEF Close, RoomsWithout
  <2>3. QED
    BY <1>0, <2>1, <2>2, RemovedFacts DEF SlotsKept
<1>2. CASE ~(r0 # NoRoom /\ Exists(r0))
  BY <1>2 DEF Close, RoomsWithout, SlotsKept
<1>3. QED
  BY <1>1, <1>2

LEMMA NextKeepsSlots == ASSUME IInv, [Next]_vars PROVE SlotsKept
<1>0. rooms \in [RoomId -> Room \cup {NoRoom}]
  BY DEF IInv, TypeOK
<1>1. CASE UNCHANGED vars
  BY <1>1 DEF vars, SlotsKept
<1>2. ASSUME NEW c \in Conn, Open(c) \/ HelloTimeout(c) \/ InvalidMessage(c)
      PROVE  SlotsKept
  BY <1>2 DEF Open, HelloTimeout, InvalidMessage, SlotsKept
<1>3. ASSUME NEW c \in Conn, Forward(c)
      PROVE  SlotsKept
  BY <1>0, <1>3 DEF Forward, ForwardHandshake, ForwardBreaks, ForwardRefused, SlotsKept
<1>4. CASE Sweep
  BY <1>0, <1>4 DEF Sweep, SlotsKept
<1>5. QED
  BY <1>1, <1>2, <1>3, <1>4, HelloKeepsSlots, CloseKeepsSlots, AgeKeepsSlots DEF Next

\* addPeer fills a free slot only, create an unused id only: no handler puts a
\* socket into a slot another one holds.
THEOREM SlotsAreNotStolen == Spec => NoSlotStolen
<1>1. IInv /\ [Next]_vars =>
        [\A r \in RoomId : (Exists(r) /\ Exists(r)') =>
           \A role \in Role :
             rooms[r][role] # NoConn => rooms'[r][role] \in {rooms[r][role], NoConn}]_vars
  BY NextKeepsSlots DEF SlotsKept, Exists
<1>2. QED
  BY <1>1, InductiveInvariant, PTL DEF Spec, NoSlotStolen
-----------------------------------------------------------------------------
(***************************************************************************)
(* Rooms that no late close has struck are in the state their slots show;  *)
(* who is open and was told it is in one has its slot there and was told   *)
(* the state of the room.                                                  *)
(***************************************************************************)

\* RoomShape of one room, slot by slot.
Shape(room) ==
  /\ room.initiator # NoConn \/ room.joiner # NoConn
  /\ room.state = "PAIRED" <=> (room.initiator # NoConn /\ room.joiner # NoConn)
  /\ room.state = "WAITING" => room.initiator # NoConn

Shaped == \A r \in RoomId \ struck : rooms[r] # NoRoom => Shape(rooms[r])

\* What a member of a room in this state was told last.
Truth(state, frame) ==
  /\ state = "WAITING" => frame = "ACK"
  /\ state = "PAIRED" => frame \in {"ACK", "PEER_JOINED"}
  /\ state = "HALF_OPEN" => frame = "PEER_DISCONNECTED"

\* NoOrphans and ToldTheTruth of one socket.
Seated(c) ==
  LET r == data[c].roomId
  IN /\ data[c].role \in Role /\ rooms[r] # NoRoom /\ rooms[r][data[c].role] = c
     /\ Truth(rooms[r].state, notice[c])

\* Who is in no room has not said HELLO, and was told nothing that leaves it open.
Untold ==
  \A c \in Conn : data[c].roomId = NoRoom =>
    data[c].state = "PENDING_HELLO" /\ (phase[c] # "closing" => notice[c] = "none")

RoomInv == Shaped /\ (\A c \in Conn : Settled(c) => Seated(c)) /\ Untold

-----------------------------------------------------------------------------
(* Rooms                                                                   *)

LEMMA CreatedShape ==
  ASSUME NEW c \in Conn
  PROVE  Shape(CreatedRoom(c)) /\ CreatedRoom(c).state = "WAITING" /\ CreatedRoom(c) # NoRoom
<1>1. CreatedRoom(c).state = "WAITING"
  BY DEF CreatedRoom
<1>2. QED
  BY <1>1, CreatedFacts DEF Shape

LEMMA AddedShape ==
  ASSUME NEW room \in Room, NEW c \in Conn, hasFreeSlot(room), Shape(room)
  PROVE  /\ addPeer(room, c) # NoRoom /\ Shape(addPeer(room, c)) /\ addPeer(room, c).state = "PAIRED"
         /\ \A role \in Role : role # SlotFor(room) => room[role] = Remaining(room)
         /\ Remaining(room) \in Conn
<1> DEFINE new == addPeer(room, c)
<1>0. /\ room.initiator \in Conn \cup {NoConn} /\ room.joiner \in Conn \cup {NoConn}
      /\ room.initiator # NoConn \/ room.joiner # NoConn
  BY DEF Room, Shape
<1>1. CASE room.initiator = NoConn
  <2>1. room.joiner # NoConn /\ room.joiner \in Conn
    BY <1>0, <1>1
  <2>2. new = [room EXCEPT !.initiator = c, !.idle = FALSE, !.state = "PAIRED"]
    BY <1>1, <2>1 DEF addPeer
  <2> HIDE DEF new
  <2>3. new.initiator = c /\ new.joiner = room.joiner /\ new.state = "PAIRED"
    BY <2>2 DEF Room
  <2>4. new # NoRoom
    BY AddFacts DEF new
  <2>5. Shape(new) /\ new.state = "PAIRED"
    BY <2>1, <2>3 DEF Shape
  <2>6. SlotFor(room) = "initiator" /\ Remaining(room) = room.joiner
    BY <1>1 DEF SlotFor, Remaining
  <2>7. QED
    BY <2>1, <2>4, <2>5, <2>6 DEF Role, new
<1>2. CASE room.initiator # NoConn
  <2>1. room.initiator \in Conn
    BY <1>0, <1>2
  <2>2. new = [room EXCEPT !.joiner = c, !.state = "PAIRED", !.idle = FALSE]
    BY <1>2 DEF addPeer
  <2> HIDE DEF new
  <2>3. new.initiator = room.initiator /\ new.joiner = c /\ new.state = "PAIRED"
    BY <2>2 DEF Room
  <2>4. new # NoRoom
    BY AddFacts DEF new
  <2>5. Shape(new) /\ new.state = "PAIRED"
    BY <2>1, <2>3 DEF Shape
  <2>6. SlotFor(room) = "joiner" /\ Remaining(room) = room.initiator
    BY <1>2 DEF SlotFor, Remaining
  <2>7. QED
    BY <2>1, <2>4, <2>5, <2>6 DEF Role, new
<1>3. QED
  BY <1>1, <1>2

\* handleClose: a room that c leaves is deleted, or the other one is alone in it.
LEMMA RemovedShape ==
  ASSUME NEW room \in Room, NEW c \in Conn,
         NEW mine \in Role, NEW other \in Role, mine # other, room[mine] = c, room[other] # c
  PROVE  /\ Removed(room, c) = NoRoom <=> room[other] = NoConn
         /\ Removed(room, c) # NoRoom =>
              /\ Shape(Removed(room, c)) /\ Removed(room, c).state = "HALF_OPEN"
              /\ Remaining(Removed(room, c)) = room[other]
              /\ Removed(room, c)[other] = room[other]
<1> DEFINE left == [room EXCEPT !.initiator = IF @ = c THEN NoConn ELSE @,
                                !.joiner = IF @ = c THEN NoConn ELSE @]
           half == [left EXCEPT !.state = "HALF_OPEN", !.idle = FALSE]
           out == Removed(room, c)
<1>0. /\ left \in Room
      /\ left.initiator = IF room.initiator = c THEN NoConn ELSE room.initiator
      /\ left.joiner = IF room.joiner = c THEN NoConn ELSE room.joiner
  BY DEF Room
<1>1. out = IF left.initiator = NoConn /\ left.joiner = NoConn THEN NoRoom ELSE half
  BY DEF Removed
<1> HIDE DEF left, out
<1>2. /\ half \in Room /\ half.initiator = left.initiator /\ half.joiner = left.joiner
      /\ half.state = "HALF_OPEN"
  BY <1>0 DEF Room
<1> HIDE DEF half
<1>3. half # NoRoom
  BY <1>2
<1>4. (mine = "initiator" /\ other = "joiner") \/ (mine = "joiner" /\ other = "initiator")
  BY DEF Role
<1>5. left[mine] = NoConn /\ left[other] = room[other]
  BY <1>0, <1>4
<1>6. out = NoRoom <=> room[other] = NoConn
  BY <1>1, <1>3, <1>4, <1>5
<1>7. ASSUME out # NoRoom
      PROVE  Shape(out) /\ out.state = "HALF_OPEN" /\ Remaining(out) = room[other] /\ out[other] = room[other]
  <2>1. out = half /\ room[other] # NoConn
    BY <1>1, <1>6, <1>7
  <2>2. half[mine] = NoConn /\ half[other] = room[other]
    BY <1>2, <1>4, <1>5
  <2>3. Shape(half)
    BY <1>2, <1>4, <2>1, <2>2 DEF Shape
  <2>4. Remaining(half) = room[other]
    BY <1>4, <2>1, <2>2 DEF Remaining
  <2>5. QED
    BY <1>2, <2>1, <2>2, <2>3, <2>4
<1>8. QED
  BY <1>6, <1>7 DEF out

-----------------------------------------------------------------------------
(* What most steps have in common                                          *)

LEMMA TypesOf == IInv => Types
  BY DEF IInv, TypeOK, Types

\* The room, if there was one, is still there with its slots and its state.
SameRoom(r) ==
  rooms[r] # NoRoom => /\ rooms'[r] # NoRoom /\ rooms'[r].initiator = rooms[r].initiator
                       /\ rooms'[r].joiner = rooms[r].joiner /\ rooms'[r].state = rooms[r].state

\* The socket was in the same place before, and neither it nor its room changed.
Carried(c) ==
  /\ Settled(c) /\ data'[c].roomId = data[c].roomId /\ data'[c].role = data[c].role
  /\ notice'[c] = notice[c] /\ SameRoom(data[c].roomId)

\* A socket that was in no room before the step and is in none after it.
StillOut(c) ==
  /\ data[c].roomId = NoRoom /\ data'[c].state = data[c].state
  /\ phase'[c] # "closing" => phase[c] # "closing" /\ notice'[c] = notice[c]

\* A step has to account for the rooms it touches, for the sockets that are
\* settled after it, and for those that are in no room.
LEMMA RoomStep ==
  ASSUME RoomInv,
         \A r \in RoomId \ struck' : rooms'[r] # NoRoom =>
           Shape(rooms'[r]) \/ (r \notin struck /\ rooms[r] # NoRoom /\ SameRoom(r)),
         \A c \in Conn : Settled(c)' => Carried(c) \/ Seated(c)',
         \A c \in Conn : data'[c].roomId = NoRoom =>
           StillOut(c) \/ (data'[c].state = "PENDING_HELLO" /\ notice'[c] = "none")
  PROVE  RoomInv'
<1>1. Shaped'
  BY DEF RoomInv, Shaped, Shape, SameRoom
<1>2. ASSUME NEW c \in Conn, Carried(c)
      PROVE  Seated(c)'
  <2>1. Seated(c)
    BY <1>2 DEF RoomInv, Carried
  <2>2. rooms'[data[c].roomId][data[c].role] = rooms[data[c].roomId][data[c].role]
    BY <1>2, <2>1 DEF Carried, Seated, SameRoom, Role
  <2>3. QED
    BY <1>2, <2>1, <2>2 DEF Carried, Seated, SameRoom
<1>3. Untold'
  BY DEF RoomInv, Untold, StillOut
<1>4. QED
  BY <1>1, <1>2, <1>3 DEF RoomInv

\* A handler that leaves rooms alone and closes at most the socket it serves.
LEMMA QuietStep ==
  ASSUME RoomInv, rooms' = rooms, struck' = struck,
         \A c \in Conn : /\ data'[c].roomId = data[c].roomId /\ data'[c].role = data[c].role
                         /\ data'[c].state = data[c].state,
         \A c \in Conn :
           /\ phase'[c] # "closing" => phase[c] # "closing" /\ notice'[c] = notice[c]
           /\ phase'[c] = "open" => phase[c] = "open" \/ data[c].roomId = NoRoom
  PROVE  RoomInv'
<1>1. \A r \in RoomId \ struck' : rooms'[r] # NoRoom => rooms[r] # NoRoom /\ SameRoom(r)
  BY DEF SameRoom
<1>2. ASSUME NEW c \in Conn, Settled(c)'
      PROVE  Carried(c)
  <2>1. phase'[c] = "open" /\ data[c].roomId # NoRoom /\ notice'[c] # "none" /\ data[c].roomId \notin struck
    BY <1>2 DEF Settled, Unanswered
  <2>2. phase[c] = "open" /\ notice'[c] = notice[c]
    BY <2>1
  <2>3. Settled(c)
    BY <2>1, <2>2 DEF Settled, Unanswered
  <2>4. QED
    BY <2>2, <2>3 DEF Carried, SameRoom
<1>3. \A c \in Conn : data'[c].roomId = NoRoom => StillOut(c)
  BY DEF StillOut
<1>4. QED
  BY <1>1, <1>2, <1>3, RoomStep

\* sendErrorAndClose, after which the socket is closed.
LEMMA ErrorFacts ==
  ASSUME Types, NEW c \in Conn, phase[c] # "absent", ErrorAndClose({c})
  PROVE  \A d \in Conn :
           /\ phase'[d] # "closing" => phase[d] # "closing" /\ notice'[d] = notice[d]
           /\ phase'[d] = "open" => phase[d] = "open"
  BY DEF Types, ErrorAndClose, CloseAll, Tell

LEMMA ClearedFacts ==
  ASSUME Types, NEW c \in Conn, data' = [data EXCEPT ![c] = clearHelloTimer(c)]
  PROVE  \A d \in Conn : /\ data'[d].roomId = data[d].roomId /\ data'[d].role = data[d].role
                         /\ data'[d].state = data[d].state
<1> DEFINE e == clearHelloTimer(c)
<1>1. e.roomId = data[c].roomId /\ e.role = data[c].role /\ e.state = data[c].state
  BY DEF clearHelloTimer, Types, ConnectionData
<1> HIDE DEF e
<1>2. data' = [data EXCEPT ![c] = e]
  BY DEF e
<1>3. QED
  BY <1>1, <1>2 DEF Types

\* createHandlers().open
LEMMA OpenRooms ==
  ASSUME IInv, RoomInv, NEW c \in Conn, Open(c)
  PROVE  RoomInv'
<1>0. Types
  BY TypesOf
<1>1. rooms' = rooms /\ struck' = struck /\ data[c].roomId = NoRoom /\ phase[c] = "absent"
  BY FreshFacts DEF Open, IInv, Lifecycle, Fresh
<1>2. CASE OpenAdmitted(c)
  <2> DEFINE e == [data[c] EXCEPT !.admitted = TRUE, !.helloTimer = TRUE]
  <2>1. phase' = [phase EXCEPT ![c] = "open"] /\ notice' = notice /\ data' = [data EXCEPT ![c] = e]
    BY <1>0, <1>2 DEF OpenAdmitted, Types
  <2>2. e.roomId = data[c].roomId /\ e.role = data[c].role /\ e.state = data[c].state
    BY <1>0 DEF Types, ConnectionData
  <2> HIDE DEF e
  <2>3. \A d \in Conn : /\ data'[d].roomId = data[d].roomId /\ data'[d].role = data[d].role
                        /\ data'[d].state = data[d].state
    BY <1>0, <2>1, <2>2 DEF Types
  <2>4. \A d \in Conn :
          /\ phase'[d] # "closing" => phase[d] # "closing" /\ notice'[d] = notice[d]
          /\ phase'[d] = "open" => phase[d] = "open" \/ data[d].roomId = NoRoom
    BY <1>0, <1>1, <2>1 DEF Types
  <2>5. QED
    BY <1>1, <2>3, <2>4, QuietStep
<1>3. ASSUME NEW code \in {"RATE_LIMITED", "OVER_CAPACITY"}, OpenRefused(c, code)
      PROVE  RoomInv'
  <2>1. phase' = [phase EXCEPT ![c] = "closing"] /\ data' = data /\ Tell({c}, "ERROR")
    BY <1>3 DEF OpenRefused
  <2>2. \A d \in Conn :
          /\ phase'[d] # "closing" => phase[d] # "closing" /\ notice'[d] = notice[d]
          /\ phase'[d] = "open" => phase[d] = "open"
    BY <1>0, <2>1 DEF Types, Tell
  <2>3. QED
    BY <1>1, <2>1, <2>2, QuietStep
<1>4. QED
  BY <1>2, <1>3 DEF Open

\* startHelloTimer, handleMessage and the refusals of handleHello and handleForward
LEMMA RefusalRooms ==
  ASSUME IInv, RoomInv, NEW c \in Conn, phase[c] # "absent",
         data' = data \/ data' = [data EXCEPT ![c] = clearHelloTimer(c)],
         ErrorAndClose({c}), rooms' = rooms, struck' = struck
  PROVE  RoomInv'
<1>0. Types
  BY TypesOf
<1>1. \A d \in Conn :
        /\ phase'[d] # "closing" => phase[d] # "closing" /\ notice'[d] = notice[d]
        /\ phase'[d] = "open" => phase[d] = "open"
  BY <1>0, ErrorFacts
<1>2. \A d \in Conn : /\ data'[d].roomId = data[d].roomId /\ data'[d].role = data[d].role
                      /\ data'[d].state = data[d].state
  BY <1>0, ClearedFacts
<1>3. QED
  BY <1>1, <1>2, QuietStep

\* A settled socket is in a slot of a room that exists.
LEMMA SettledFacts ==
  ASSUME IInv, RoomInv, NEW d \in Conn, Settled(d)
  PROVE  /\ Seated(d) /\ data[d].roomId \in RoomId \ struck
         /\ rooms[data[d].roomId] \in Room /\ Shape(rooms[data[d].roomId])
<1>1. Seated(d)
  BY DEF RoomInv
<1>2. data[d].roomId \in RoomId \ struck
  BY DEF Settled, IInv, TypeOK, ConnectionData
<1>3. rooms[data[d].roomId] \in Room
  BY <1>1, <1>2 DEF Seated, IInv, TypeOK
<1>4. QED
  BY <1>1, <1>2, <1>3 DEF Seated, RoomInv, Shaped

\* handleCreate
LEMMA CreateRooms ==
  ASSUME IInv, RoomInv, NEW c \in Conn, NEW r \in RoomId, Create(c, r)
  PROVE  RoomInv'
<1> DEFINE e == Enter(c, r, "WAITING_FOR_PEER", "initiator")
<1>0. /\ Types /\ Receives(c) /\ data[c].state = "PENDING_HELLO" /\ rooms[r] = NoRoom
      /\ data' = [data EXCEPT ![c] = e] /\ phase' = phase /\ struck' = struck
  BY DEF Create, Exists, IInv, TypeOK, Types
<1>1. data[c].roomId = NoRoom /\ e.roomId = r /\ e.role = "initiator" /\ phase[c] = "open"
  BY <1>0, Entering DEF Role
<1> HIDE DEF e
<1>2. data'[c] = e /\ \A d \in Conn \ {c} : data'[d] = data[d]
  BY <1>0 DEF Types
<1>3. ASSUME NEW d \in Conn, d # c, Settled(d)', notice'[d] = notice[d]
      PROVE  Settled(d) /\ data[d].roomId \in RoomId /\ data[d].roomId # r
  <2>1. Settled(d)
    BY <1>0, <1>2, <1>3 DEF Settled, Unanswered
  <2>2. QED
    BY <1>0, <2>1, SettledFacts DEF Seated
<1>4. CASE rooms' = [rooms EXCEPT ![r] = CreatedRoom(c)] /\ Tell({c}, "ACK")
  <2>1. rooms'[r] = CreatedRoom(c) /\ \A q \in RoomId \ {r} : rooms'[q] = rooms[q]
    BY <1>0, <1>4 DEF Types
  <2>2. notice'[c] = "ACK" /\ \A d \in Conn \ {c} : notice'[d] = notice[d]
    BY <1>4 DEF Tell
  <2>3. rooms'[r] # NoRoom /\ Shape(rooms'[r]) /\ rooms'[r].state = "WAITING" /\ rooms'[r]["initiator"] = c
    BY <2>1, CreatedShape, CreatedFacts
  <2>4. \A q \in RoomId \ struck' : rooms'[q] # NoRoom =>
          Shape(rooms'[q]) \/ (q \notin struck /\ rooms[q] # NoRoom /\ SameRoom(q))
    BY <1>0, <2>1, <2>3 DEF SameRoom
  <2>5. ASSUME NEW d \in Conn, Settled(d)'
        PROVE  Carried(d) \/ Seated(d)'
    <3>1. CASE d = c
      BY <1>1, <1>2, <2>2, <2>3, <3>1 DEF Seated, Truth, Role
    <3>2. CASE d # c
      BY <1>2, <1>3, <2>1, <2>2, <2>5, <3>2 DEF Carried, SameRoom
    <3>3. QED
      BY <3>1, <3>2
  <2>6. \A d \in Conn : data'[d].roomId = NoRoom => StillOut(d)
    BY <1>0, <1>1, <1>2, <2>2 DEF StillOut
  <2>7. QED
    BY <2>4, <2>5, <2>6, RoomStep
<1>5. CASE UNCHANGED <<rooms, notice>>
  <2>1. notice'[c] = "none"
    BY <1>1, <1>5 DEF RoomInv, Untold
  <2>2. \A q \in RoomId \ struck' : rooms'[q] # NoRoom =>
          q \notin struck /\ rooms[q] # NoRoom /\ SameRoom(q)
    BY <1>0, <1>5 DEF SameRoom
  <2>3. ASSUME NEW d \in Conn, Settled(d)'
        PROVE  Carried(d)
    <3>1. d # c
      BY <2>1, <2>3 DEF Settled, Unanswered
    <3>2. QED
      BY <1>2, <1>3, <1>5, <2>3, <3>1 DEF Carried, SameRoom
  <2>4. \A d \in Conn : data'[d].roomId = NoRoom => StillOut(d)
    BY <1>0, <1>1, <1>2, <1>5 DEF StillOut
  <2>5. QED
    BY <2>2, <2>3, <2>4, RoomStep
<1>6. QED
  BY <1>4, <1>5 DEF Create

\* handleJoinOrResume: the one who waits is in a slot, and in a room that was
\* not struck nobody else is settled.
LEMMA JoinFacts ==
  ASSUME IInv, RoomInv, NEW c \in Conn, NEW r \in RoomId, NEW intent \in Intent,
         CanEnter(c, r, intent)
  PROVE  /\ data[c].roomId = NoRoom /\ Remaining(rooms[r]) # c /\ phase[c] = "open"
         /\ rooms[r] \in Room /\ rooms[r] # NoRoom /\ hasFreeSlot(rooms[r])
         /\ r \notin struck => Shape(rooms[r])
         /\ Remaining(rooms[r]) \in Conn =>
              /\ data[Remaining(rooms[r])].roomId = r /\ phase[Remaining(rooms[r])] # "absent"
              /\ data[Remaining(rooms[r])].role \in Role
              /\ rooms[r][data[Remaining(rooms[r])].role] = Remaining(rooms[r])
              /\ EnteredData(c, r)[Remaining(rooms[r])].roomId = r
              /\ EnteredData(c, r)[Remaining(rooms[r])].role = data[Remaining(rooms[r])].role
         /\ \A d \in Conn \ {c, Remaining(rooms[r])} : EnteredData(c, r)[d] = data[d]
         /\ \A d \in Conn \ {c, Remaining(rooms[r])} : Settled(d) => data[d].roomId \in RoomId \ {r}
<1> DEFINE room == rooms[r]
           p == Remaining(room)
           two == EnteredData(c, r)
<1>1. Receives(c) /\ data[c].state = "PENDING_HELLO" /\ room # NoRoom /\ hasFreeSlot(room)
  BY DEF CanEnter, Exists
<1>2. data[c].roomId = NoRoom /\ phase[c] = "open"
  BY <1>1 DEF IInv, Lifecycle, Receives
<1>3. room \in Room /\ (r \notin struck => Shape(room))
  BY <1>1 DEF IInv, TypeOK, RoomInv, Shaped
<1>4. p \in Conn => /\ data[p].roomId = r /\ phase[p] # "absent"
                    /\ data[p].role \in Role /\ room[data[p].role] = p
  <2>1. PICK role \in Role : room[role] = p
    BY DEF Remaining, Role
  <2>2. QED
    BY <1>1, <2>1 DEF IInv, SlotsAreMembers, Exists
<1>5. p # c
  BY <1>2, <1>4
<1>6. p \in Conn => two[p].roomId = data[p].roomId /\ two[p].role = data[p].role
  BY <1>4, EnteredFacts
<1>7. ASSUME NEW d \in Conn \ {c, p}
      PROVE  two[d] = data[d]
  <2> DEFINE e == Enter(c, r, "PAIRED", SlotFor(room))
             one == [data EXCEPT ![c] = e]
  <2>1. two = [one EXCEPT ![p] = [one[p] EXCEPT !.state = "PAIRED"]]
    BY DEF EnteredData
  <2>2. one[d] = data[d] /\ DOMAIN one = Conn
    BY <1>7 DEF IInv, TypeOK
  <2> HIDE DEF one, two, p
  <2>3. QED
    BY <1>7, <2>1, <2>2
<1>8. ASSUME NEW d \in Conn \ {c, p}, Settled(d)
      PROVE  data[d].roomId \in RoomId \ {r}
  <2>0. Seated(d) /\ data[d].roomId \in RoomId \ struck
    BY <1>8, SettledFacts
  <2>1. ASSUME data[d].roomId = r
        PROVE  FALSE
    <3>1. data[d].role \in Role /\ room[data[d].role] = d /\ Shape(room)
      BY <1>3, <2>0, <2>1 DEF Seated
    <3>2. data[d].role # SlotFor(room)
      BY <1>1, <1>3, <3>1, AddFacts
    <3>3. QED
      BY <1>1, <1>3, <1>8, <3>1, <3>2, AddedShape
  <2>2. QED
    BY <2>0, <2>1
<1>9. QED
  BY <1>1, <1>2, <1>3, <1>4, <1>5, <1>6, <1>7, <1>8

LEMMA JoinOrResumeRooms ==
  ASSUME IInv, RoomInv, NEW c \in Conn, NEW r \in RoomId, NEW intent \in Intent,
         JoinOrResume(c, r, intent)
  PROVE  RoomInv'
<1> DEFINE room == rooms[r]
           p == Remaining(room)
           two == EnteredData(c, r)
           new == addPeer(room, c)
<1>0. /\ Types /\ CanEnter(c, r, intent) /\ rooms' = [rooms EXCEPT ![r] = new] /\ struck' = struck
      /\ data' = two /\ phase' = phase /\ notice' = [notice EXCEPT ![c] = "ACK", ![p] = "PEER_JOINED"]
  BY DEF JoinOrResume, IInv, TypeOK, Types
<1>1. /\ data[c].roomId = NoRoom /\ p # c
      /\ room \in Room /\ room # NoRoom /\ hasFreeSlot(room) /\ (r \notin struck => Shape(room))
      /\ p \in Conn => /\ data[p].roomId = r /\ data[p].role \in Role /\ room[data[p].role] = p
                       /\ two[p].roomId = r /\ two[p].role = data[p].role
      /\ \A d \in Conn \ {c, p} : two[d] = data[d]
      /\ \A d \in Conn \ {c, p} : Settled(d) => data[d].roomId \in RoomId \ {r}
  BY <1>0, JoinFacts
<1>2. two[c].roomId = r /\ two[c].role = SlotFor(room) /\ SlotFor(room) \in Role
  BY <1>0, EnteredFacts
<1>3. new \in Room /\ (r \notin struck => Shape(new) /\ new.state = "PAIRED")
  BY <1>1, AddFacts, AddedShape
<1>4. /\ new[SlotFor(room)] = c /\ room[SlotFor(room)] = NoConn
      /\ \A role \in Role : role # SlotFor(room) => new[role] = room[role]
  BY <1>1, AddFacts
<1>5. rooms'[r] = new /\ \A q \in RoomId \ {r} : rooms'[q] = rooms[q]
  BY <1>0 DEF Types
<1>6. notice'[c] = "ACK" /\ (p \in Conn => notice'[p] = "PEER_JOINED")
      /\ \A d \in Conn \ {c, p} : notice'[d] = notice[d]
  BY <1>0, <1>1 DEF Types
<1> HIDE DEF room, p, two, new
<1>7. \A q \in RoomId \ struck' : rooms'[q] # NoRoom =>
        Shape(rooms'[q]) \/ (q \notin struck /\ rooms[q] # NoRoom /\ SameRoom(q))
  BY <1>0, <1>3, <1>5 DEF SameRoom
<1>8. ASSUME NEW d \in Conn, Settled(d)'
      PROVE  Carried(d) \/ Seated(d)'
  <2>0. data'[d].roomId \notin struck /\ new # NoRoom
    BY <1>0, <1>3, <1>8 DEF Settled
  <2>1. CASE d = c
    BY <1>0, <1>2, <1>3, <1>4, <1>5, <1>6, <2>0, <2>1 DEF Seated, Truth
  <2>2. CASE d = p
    <3>1. data[p].role # SlotFor(room)
      BY <1>1, <1>4, <2>2
    <3>2. new[data[p].role] = p
      BY <1>1, <1>4, <2>2, <3>1
    <3>3. QED
      BY <1>0, <1>1, <1>3, <1>5, <1>6, <2>0, <2>2, <3>2 DEF Seated, Truth
  <2>3. CASE d # c /\ d # p
    <3>1. Settled(d)
      BY <1>0, <1>1, <1>6, <1>8, <2>3 DEF Settled, Unanswered
    <3>2. QED
      BY <1>0, <1>1, <1>5, <1>6, <2>3, <3>1 DEF Carried, SameRoom
  <2>4. QED
    BY <2>1, <2>2, <2>3
<1>9. ASSUME NEW d \in Conn, data'[d].roomId = NoRoom
      PROVE  StillOut(d)
  <2>1. d # c /\ d # p
    BY <1>0, <1>1, <1>2, <1>9
  <2>2. QED
    BY <1>0, <1>1, <1>6, <1>9, <2>1 DEF StillOut
<1>10. QED
  BY <1>7, <1>8, <1>9, RoomStep

\* A step that deletes rooms: who is settled after it was not in one of them.
LEMMA DeletingStep ==
  ASSUME RoomInv, NEW G, struck' = struck,
         \A r \in RoomId : rooms'[r] = IF r \in G THEN NoRoom ELSE rooms[r],
         \A c \in Conn : Settled(c)' =>
           /\ Settled(c) /\ data'[c].roomId = data[c].roomId /\ data'[c].role = data[c].role
           /\ notice'[c] = notice[c] /\ data[c].roomId \in RoomId \ G,
         \A c \in Conn : data'[c].roomId = NoRoom => StillOut(c)
  PROVE  RoomInv'
<1>1. \A r \in RoomId \ struck' : rooms'[r] # NoRoom =>
        r \notin struck /\ rooms[r] # NoRoom /\ SameRoom(r)
  BY DEF SameRoom
<1>2. \A c \in Conn : Settled(c)' => Carried(c)
  BY DEF Carried, SameRoom
<1>3. QED
  BY <1>1, <1>2, RoomStep

\* handleJoinOrResume with a frame dropped: the two that were in the room are closed.
LEMMA JoinDroppedRooms ==
  ASSUME IInv, RoomInv, NEW c \in Conn, NEW r \in RoomId, NEW intent \in Intent,
         JoinDropped(c, r, intent)
  PROVE  RoomInv'
<1> DEFINE p == Remaining(rooms[r])
           two == EnteredData(c, r)
<1>0. /\ Types /\ CanEnter(c, r, intent) /\ rooms' = [rooms EXCEPT ![r] = NoRoom] /\ struck' = struck
      /\ data' = two /\ CloseAll({c, p}) /\ notice' \in {notice, [notice EXCEPT ![c] = "ACK"]}
  BY DEF JoinDropped, IInv, TypeOK, Types
<1>1. /\ data[c].roomId = NoRoom /\ p # c /\ phase[c] = "open"
      /\ p \in Conn => data[p].roomId = r /\ two[p].roomId = r
      /\ \A d \in Conn \ {c, p} : two[d] = data[d]
      /\ \A d \in Conn \ {c, p} : Settled(d) => data[d].roomId \in RoomId \ {r}
  BY <1>0, JoinFacts
<1>2. two[c].roomId = r
  BY <1>0, EnteredFacts
<1>3. /\ \A d \in Conn : phase'[d] = "open" => phase[d] = "open" /\ d # c /\ d # p
      /\ \A d \in Conn \ {c, p} : phase'[d] = phase[d] /\ notice'[d] = notice[d]
  <2>1. \A d \in Conn \ {c} : notice'[d] = notice[d]
    BY <1>0 DEF Types
  <2>2. QED
    BY <1>0, <2>1 DEF CloseAll
<1> HIDE DEF p, two
<1>4. \A q \in RoomId : rooms'[q] = IF q \in {r} THEN NoRoom ELSE rooms[q]
  BY <1>0 DEF Types
<1>5. ASSUME NEW d \in Conn, Settled(d)'
      PROVE  /\ Settled(d) /\ data'[d].roomId = data[d].roomId /\ data'[d].role = data[d].role
             /\ notice'[d] = notice[d] /\ data[d].roomId \in RoomId \ {r}
  <2>1. d \in Conn \ {c, p}
    BY <1>3, <1>5 DEF Settled
  <2>2. Settled(d)
    BY <1>0, <1>1, <1>3, <1>5, <2>1 DEF Settled, Unanswered
  <2>3. QED
    BY <1>0, <1>1, <1>3, <2>1, <2>2
<1>6. ASSUME NEW d \in Conn, data'[d].roomId = NoRoom
      PROVE  StillOut(d)
  <2>1. d \in Conn \ {c, p}
    BY <1>0, <1>1, <1>2, <1>6
  <2>2. QED
    BY <1>0, <1>1, <1>3, <1>6, <2>1 DEF StillOut
<1>7. QED
  BY <1>0, <1>4, <1>5, <1>6, DeletingStep

\* handleForward
LEMMA CountKeepsRoom ==
  ASSUME Types, NEW c \in Conn, data' = data \/ CountHandshake(c)
  PROVE  \A d \in Conn : /\ data'[d].roomId = data[d].roomId /\ data'[d].role = data[d].role
                         /\ data'[d].state = data[d].state
<1>1. CASE data' = data
  BY <1>1
<1>2. CASE CountHandshake(c)
  <2> DEFINE e == [data[c] EXCEPT !.handshakeForwards = data[c].handshakeForwards + 1]
  <2>1. data' = [data EXCEPT ![c] = e]
    BY <1>2 DEF CountHandshake, Types
  <2>2. e.roomId = data[c].roomId /\ e.role = data[c].role /\ e.state = data[c].state
    BY DEF Types, ConnectionData
  <2> HIDE DEF e
  <2>3. QED
    BY <2>1, <2>2 DEF Types
<1>3. QED
  BY <1>1, <1>2

LEMMA ForwardRooms ==
  ASSUME IInv, RoomInv, NEW c \in Conn, ForwardHandshake(c)
  PROVE  RoomInv'
<1>0. Types
  BY TypesOf
<1>1. rooms' = rooms /\ phase' = phase /\ notice' = notice /\ struck' = struck /\ CountHandshake(c)
  BY DEF ForwardHandshake
<1>2. QED
  BY <1>0, <1>1, CountKeepsRoom, QuietStep

\* A frame that cannot be delivered ends the room and both its sockets.
LEMMA ForwardBreaksRooms ==
  ASSUME IInv, RoomInv, NEW c \in Conn, ForwardBreaks(c)
  PROVE  RoomInv'
<1> DEFINE r == data[c].roomId
           p == PeerOf(c)
<1>0. /\ Types /\ phase[c] = "open" /\ (data' = data \/ CountHandshake(c)) /\ struck' = struck
      /\ rooms' = [rooms EXCEPT ![r] = NoRoom] /\ CloseAll({c, p})
      /\ notice' = notice \/ Tell({c, p}, "ERROR")
      /\ data[c].state = "PAIRED" /\ rooms[r] # NoRoom /\ p # NoConn
  BY DEF ForwardBreaks, HasPeer, Receives, Exists, IInv, TypeOK, Types
<1>1. r \in RoomId
  BY <1>0 DEF RoomInv, Untold, Types, ConnectionData
<1>2. \/ rooms[r].initiator = c /\ p = rooms[r].joiner
      \/ rooms[r].joiner = c /\ p = rooms[r].initiator
  BY <1>0 DEF PeerOf, getPeer
<1>3. p \in Conn => data[p].roomId = r
  BY <1>0, <1>1, <1>2 DEF IInv, SlotsAreMembers, Exists, Role
<1>4. \A d \in Conn : /\ phase'[d] = "open" => phase[d] = "open" /\ d \notin {c, p}
                      /\ d \notin {c, p} => phase'[d] = phase[d] /\ notice'[d] = notice[d]
  BY <1>0 DEF CloseAll, Tell
<1>5. \A d \in Conn : /\ data'[d].roomId = data[d].roomId /\ data'[d].role = data[d].role
                      /\ data'[d].state = data[d].state
  BY <1>0, CountKeepsRoom
<1> HIDE DEF p
<1>6. \A q \in RoomId : rooms'[q] = IF q \in {r} THEN NoRoom ELSE rooms[q]
  BY <1>0 DEF Types
<1>7. ASSUME NEW d \in Conn, Settled(d)'
      PROVE  /\ Settled(d) /\ data'[d].roomId = data[d].roomId /\ data'[d].role = data[d].role
             /\ notice'[d] = notice[d] /\ data[d].roomId \in RoomId \ {r}
  <2>1. phase[d] = "open" /\ d \notin {c, p} /\ notice'[d] = notice[d]
    BY <1>4, <1>7 DEF Settled
  <2>2. Settled(d)
    BY <1>0, <1>5, <1>7, <2>1 DEF Settled, Unanswered
  <2>3. Seated(d) /\ data[d].roomId \in RoomId
    BY <2>2, SettledFacts
  <2>4. data[d].roomId # r
    BY <1>2, <2>1, <2>3 DEF Seated, Role
  <2>5. QED
    BY <1>5, <2>1, <2>2, <2>3, <2>4
<1>8. ASSUME NEW d \in Conn, data'[d].roomId = NoRoom
      PROVE  StillOut(d)
  <2>1. d \notin {c, p}
    BY <1>1, <1>3, <1>5, <1>8
  <2>2. QED
    BY <1>4, <1>5, <1>8, <2>1 DEF StillOut
<1>9. QED
  BY <1>0, <1>6, <1>7, <1>8, DeletingStep

\* sweepRooms: who is left in a room that goes is the one that is closed.
LEMMA SweepRooms ==
  ASSUME IInv, RoomInv, Sweep
  PROVE  RoomInv'
<1> DEFINE gone == {r \in RoomId : Expired(r)}
           left == {Remaining(rooms[r]) : r \in gone}
           told == {Remaining(rooms[r]) : r \in {g \in gone : rooms[g].state = "HALF_OPEN"}}
<1>0. /\ Types /\ CloseAll(left) /\ Tell(told, "PEER_LEFT") /\ data' = data /\ struck' = struck
      /\ rooms' = [r \in RoomId |-> IF r \in gone THEN NoRoom ELSE rooms[r]]
  BY DEF Sweep, IInv, TypeOK, Types
<1>1. told \subseteq left
  OBVIOUS
<1>2. \A r \in gone : Remaining(rooms[r]) \in left
  OBVIOUS
<1>3. \A r \in gone : r \in RoomId /\ rooms[r] # NoRoom /\ rooms[r].state # "PAIRED"
  BY DEF Expired, Exists
<1>4. \A d \in left : \E r \in gone : d = Remaining(rooms[r])
  OBVIOUS
<1> HIDE DEF gone, left, told
<1>5. ASSUME NEW d \in Conn, d \in left
      PROVE  data[d].roomId # NoRoom
  <2>1. PICK r \in gone : d = Remaining(rooms[r])
    BY <1>4, <1>5
  <2>2. \E role \in Role : rooms[r][role] = d
    BY <2>1 DEF Remaining, Role
  <2>3. data[d].roomId = r /\ r \in RoomId
    BY <1>3, <2>1, <2>2 DEF IInv, SlotsAreMembers, Exists
  <2>4. QED
    BY <2>3
<1>6. \A d \in Conn : /\ phase'[d] = "open" => phase[d] = "open" /\ d \notin left
                      /\ d \notin left => phase'[d] = phase[d] /\ notice'[d] = notice[d]
  BY <1>0, <1>1 DEF CloseAll, Tell
<1>7. ASSUME NEW d \in Conn, Settled(d)'
      PROVE  /\ Settled(d) /\ data'[d].roomId = data[d].roomId /\ data'[d].role = data[d].role
             /\ notice'[d] = notice[d] /\ data[d].roomId \in RoomId \ gone
  <2>1. phase[d] = "open" /\ d \notin left /\ notice'[d] = notice[d]
    BY <1>6, <1>7 DEF Settled
  <2>2. Settled(d)
    BY <1>0, <1>7, <2>1 DEF Settled, Unanswered
  <2>3. Seated(d) /\ Shape(rooms[data[d].roomId]) /\ data[d].roomId \in RoomId
    BY <2>2, SettledFacts
  <2>4. ASSUME data[d].roomId \in gone
        PROVE  FALSE
    <3>1. rooms[data[d].roomId].state # "PAIRED"
      BY <1>3, <2>4
    <3>2. Remaining(rooms[data[d].roomId]) = d
      BY <2>3, <3>1 DEF Seated, Shape, Remaining, Role
    <3>3. QED
      BY <1>2, <2>1, <2>4, <3>2
  <2>5. QED
    BY <1>0, <2>1, <2>2, <2>3, <2>4
<1>8. \A d \in Conn : data'[d].roomId = NoRoom => StillOut(d)
  BY <1>0, <1>5, <1>6 DEF StillOut
<1>9. \A r \in RoomId : rooms'[r] = IF r \in gone THEN NoRoom ELSE rooms[r]
  BY <1>0
<1>10. QED
  BY <1>0, <1>7, <1>8, <1>9, DeletingStep

\* Time: slots and state stay.
LEMMA AgeRooms ==
  ASSUME IInv, RoomInv, NEW r \in RoomId, WaitTimePasses(r) \/ GraceTimePasses(r)
  PROVE  RoomInv'
<1>0. /\ Types /\ rooms[r] \in Room /\ rooms[r] # NoRoom
      /\ phase' = phase /\ data' = data /\ notice' = notice /\ struck' = struck
  BY DEF WaitTimePasses, GraceTimePasses, IInv, TypeOK, Types, Exists
<1>1. PICK room \in Room :
        /\ rooms' = [rooms EXCEPT ![r] = room]
        /\ room.initiator = rooms[r].initiator /\ room.joiner = rooms[r].joiner
        /\ room.state = rooms[r].state
  <2>1. CASE WaitTimePasses(r)
    <3> DEFINE room == [rooms[r] EXCEPT !.waited = TRUE]
    <3>1. rooms' = [rooms EXCEPT ![r] = room]
      BY <2>1 DEF WaitTimePasses
    <3>2. /\ room \in Room /\ room.initiator = rooms[r].initiator /\ room.joiner = rooms[r].joiner
          /\ room.state = rooms[r].state
      BY <1>0 DEF Room
    <3> HIDE DEF room
    <3>3. QED
      BY <3>1, <3>2
  <2>2. CASE GraceTimePasses(r)
    <3> DEFINE room == [rooms[r] EXCEPT !.idle = TRUE]
    <3>1. rooms' = [rooms EXCEPT ![r] = room]
      BY <2>2 DEF GraceTimePasses
    <3>2. /\ room \in Room /\ room.initiator = rooms[r].initiator /\ room.joiner = rooms[r].joiner
          /\ room.state = rooms[r].state
      BY <1>0 DEF Room
    <3> HIDE DEF room
    <3>3. QED
      BY <3>1, <3>2
  <2>3. QED
    BY <2>1, <2>2
<1>2. rooms'[r] = room /\ room # NoRoom /\ \A q \in RoomId \ {r} : rooms'[q] = rooms[q]
  BY <1>0, <1>1 DEF Types
<1>3. \A q \in RoomId : SameRoom(q) /\ (rooms'[q] # NoRoom => rooms[q] # NoRoom)
  BY <1>0, <1>1, <1>2 DEF SameRoom
<1>4. ASSUME NEW d \in Conn, Settled(d)'
      PROVE  Carried(d)
  <2>1. Settled(d)
    BY <1>0, <1>4 DEF Settled, Unanswered
  <2>2. data[d].roomId \in RoomId
    BY <2>1, SettledFacts
  <2>3. QED
    BY <1>0, <1>3, <2>1, <2>2 DEF Carried
<1>5. \A d \in Conn : data'[d].roomId = NoRoom => StillOut(d)
  BY <1>0 DEF StillOut
<1>6. QED
  BY <1>0, <1>3, <1>4, <1>5, RoomStep

\* handleClose: who stays in the room is told, and finds itself in a HALF_OPEN
\* room; a socket without a slot strikes the room.
LEMMA CloseRooms ==
  ASSUME IInv, RoomInv, NEW c \in Conn, Close(c)
  PROVE  RoomInv'
<1> DEFINE r == data[c].roomId
<1>0. /\ Types /\ phase' = [phase EXCEPT ![c] = "absent"]
      /\ data' = [data EXCEPT ![c] = Fresh] /\ RoomsWithout(c)
      /\ struck' = IF Stranger(c) THEN struck \cup {r} ELSE struck
  BY DEF Close, IInv, TypeOK, Types, Fresh
<1>1. /\ data'[c] = Fresh /\ data'[c].roomId = NoRoom /\ data'[c].state = "PENDING_HELLO"
      /\ phase'[c] = "absent"
      /\ \A d \in Conn \ {c} : data'[d] = data[d] /\ phase'[d] = phase[d]
  BY <1>0, FreshFacts DEF Types
<1>2. ASSUME NEW d \in Conn, Settled(d)', notice'[d] = notice[d]
      PROVE  d # c /\ Settled(d) /\ data[d].roomId \in RoomId
  <2>1. d # c /\ data'[d] = data[d] /\ phase'[d] = phase[d] /\ struck \subseteq struck'
    BY <1>0, <1>1, <1>2 DEF Settled
  <2>2. Settled(d)
    BY <1>2, <2>1 DEF Settled, Unanswered
  <2>3. QED
    BY <2>1, <2>2, SettledFacts
<1>3. CASE ~(r # NoRoom /\ Exists(r))
  <2>1. rooms' = rooms /\ notice' = [notice EXCEPT ![c] = "none"] /\ struck' = struck
    BY <1>0, <1>3 DEF RoomsWithout, Stranger
  <2>2. notice'[c] = "none" /\ \A d \in Conn \ {c} : notice'[d] = notice[d]
    BY <1>0, <2>1 DEF Types
  <2>3. \A q \in RoomId \ struck' : rooms'[q] # NoRoom =>
          q \notin struck /\ rooms[q] # NoRoom /\ SameRoom(q)
    BY <2>1 DEF SameRoom
  <2>4. ASSUME NEW d \in Conn, Settled(d)'
        PROVE  Carried(d)
    <3>1. d # c
      BY <1>1, <2>4 DEF Settled
    <3>2. Settled(d)
      BY <1>2, <2>2, <2>4, <3>1
    <3>3. QED
      BY <1>1, <2>1, <2>2, <3>1, <3>2 DEF Carried, SameRoom
  <2>5. \A d \in Conn : data'[d].roomId = NoRoom =>
          StillOut(d) \/ (data'[d].state = "PENDING_HELLO" /\ notice'[d] = "none")
    BY <1>1, <2>2 DEF StillOut
  <2>6. QED
    BY <2>3, <2>4, <2>5, RoomStep
<1>4. CASE r # NoRoom /\ Exists(r)
  <2> DEFINE room == rooms[r]
             left == Removed(room, c)
  <2>1. room # NoRoom /\ r \in RoomId /\ room \in Room
    BY <1>0, <1>4 DEF Exists, Types, ConnectionData
  <2>2. /\ rooms' = [rooms EXCEPT ![r] = left]
        /\ notice' = [d \in Conn |-> IF d = c THEN "none"
                                     ELSE IF left # NoRoom /\ d = Remaining(left) THEN "PEER_DISCONNECTED"
                                     ELSE notice[d]]
    BY <1>0, <1>4 DEF RoomsWithout
  <2>3. left \in Room \cup {NoRoom}
    BY <2>1, RemovedFacts
  <2>4. ASSUME NEW d \in Conn, left # NoRoom, d = Remaining(left)
        PROVE  /\ data[d].roomId = r /\ data[d].role \in Role /\ room[data[d].role] = d
    <3>1. PICK role \in Role : left[role] = d
      BY <2>4 DEF Remaining, Role
    <3>2. room[role] = d
      BY <2>1, <2>4, <3>1, RemovedFacts
    <3>3. QED
      BY <1>4, <2>1, <3>2 DEF IInv, SlotsAreMembers
  <2>5. Stranger(c) <=> room.initiator # c /\ room.joiner # c
    BY <1>4 DEF Stranger
  <2> HIDE DEF left
  <2>6. rooms'[r] = left /\ \A q \in RoomId \ {r} : rooms'[q] = rooms[q]
    BY <1>0, <2>1, <2>2 DEF Types
  <2>7. ASSUME NEW d \in Conn, d # c, data[d].roomId # r
        PROVE  notice'[d] = notice[d]
    BY <2>2, <2>4, <2>7
  <2>8. \A q \in RoomId \ {r} : q \notin struck' => q \notin struck
    BY <1>0
  <2>9. ASSUME r \notin struck'
        PROVE  /\ left # NoRoom => Shape(left)
               /\ \A d \in Conn : data[d].roomId = r /\ Settled(d)' => Seated(d)'
    <3>1. r \notin struck /\ ~Stranger(c)
      BY <1>0, <2>9
    <3>2. PICK mine \in Role : room[mine] = c
      BY <2>5, <3>1 DEF Role
    <3>3. PICK other \in Role : other # mine /\ \A role \in Role : role = mine \/ role = other
      BY <3>2 DEF Role
    <3>4. room[other] # c
      <4>1. data[c].role = mine /\ (room[other] = c => data[c].role = other)
        BY <1>4, <2>1, <3>2 DEF IInv, SlotsAreMembers
      <4>2. QED
        BY <3>3, <4>1
    <3>5. /\ left = NoRoom <=> room[other] = NoConn
          /\ left # NoRoom => /\ Shape(left) /\ left.state = "HALF_OPEN"
                              /\ Remaining(left) = room[other] /\ left[other] = room[other]
      BY <2>1, <3>2, <3>3, <3>4, RemovedShape DEF left
    <3>6. ASSUME NEW d \in Conn, data[d].roomId = r, Settled(d)'
          PROVE  Seated(d)'
      <4>1. d # c /\ data'[d] = data[d] /\ phase'[d] = phase[d] /\ notice'[d] # "none"
        BY <1>1, <3>6 DEF Settled, Unanswered
      <4>2. data[d].role \in Role /\ room[data[d].role] = d
        <5>1. CASE left # NoRoom /\ d = Remaining(left)
          BY <2>4, <5>1
        <5>2. CASE ~(left # NoRoom /\ d = Remaining(left))
          <6>1. notice'[d] = notice[d]
            BY <2>2, <4>1, <5>2
          <6>2. Settled(d)
            BY <1>2, <3>6, <6>1
          <6>3. QED
            BY <3>6, <6>2 DEF RoomInv, Seated
        <5>3. QED
          BY <5>1, <5>2
      <4>3. data[d].role = other
        BY <3>2, <3>3, <4>1, <4>2
      <4>4. left # NoRoom /\ Remaining(left) = d /\ left[other] = d /\ left.state = "HALF_OPEN"
        BY <3>5, <4>2, <4>3
      <4>5. notice'[d] = "PEER_DISCONNECTED"
        BY <2>2, <4>1, <4>4
      <4>6. QED
        BY <2>6, <3>6, <4>1, <4>2, <4>3, <4>4, <4>5 DEF Seated, Truth
    <3>7. QED
      BY <3>5, <3>6
  <2> HIDE DEF room
  <2>10. ASSUME NEW q \in RoomId \ struck', rooms'[q] # NoRoom
         PROVE  Shape(rooms'[q]) \/ (q \notin struck /\ rooms[q] # NoRoom /\ SameRoom(q))
    <3>1. CASE q = r
      BY <2>6, <2>9, <2>10, <3>1
    <3>2. CASE q # r
      BY <2>6, <2>8, <2>10, <3>2 DEF SameRoom
    <3>3. QED
      BY <3>1, <3>2
  <2>11. ASSUME NEW d \in Conn, Settled(d)'
         PROVE  Carried(d) \/ Seated(d)'
    <3>1. d # c /\ data'[d] = data[d]
      BY <1>1, <2>11 DEF Settled
    <3>2. CASE data[d].roomId = r
      <4>1. r \notin struck'
        BY <2>11, <3>1, <3>2 DEF Settled
      <4>2. QED
        BY <2>9, <2>11, <3>2, <4>1
    <3>3. CASE data[d].roomId # r
      <4>1. notice'[d] = notice[d]
        BY <2>7, <3>1, <3>3
      <4>2. Settled(d) /\ data[d].roomId \in RoomId \ {r}
        BY <1>2, <2>11, <3>3, <4>1
      <4>3. QED
        BY <2>6, <3>1, <4>1, <4>2 DEF Carried, SameRoom
    <3>4. QED
      BY <3>2, <3>3
  <2>12. ASSUME NEW d \in Conn, data'[d].roomId = NoRoom
         PROVE  StillOut(d) \/ (data'[d].state = "PENDING_HELLO" /\ notice'[d] = "none")
    <3>1. CASE d = c
      BY <1>1, <2>2, <3>1
    <3>2. CASE d # c
      <4>1. data[d].roomId = NoRoom /\ notice'[d] = notice[d]
        BY <1>1, <1>4, <2>7, <2>12, <3>2
      <4>2. QED
        BY <1>1, <3>2, <4>1 DEF StillOut
    <3>3. QED
      BY <3>1, <3>2
  <2>13. QED
    BY <2>10, <2>11, <2>12, RoomStep
<1>5. QED
  BY <1>3, <1>4

-----------------------------------------------------------------------------
(* The theorems                                                            *)

LEMMA InitRooms == Init => RoomInv
<1> SUFFICES ASSUME Init PROVE RoomInv
  OBVIOUS
<1>1. /\ \A r \in RoomId : rooms[r] = NoRoom
      /\ \A c \in Conn : data[c].roomId = NoRoom /\ data[c].state = "PENDING_HELLO" /\ notice[c] = "none"
  BY FreshFacts DEF Init, Fresh
<1>2. QED
  BY <1>1 DEF RoomInv, Shaped, Settled, Untold

LEMMA NextRooms == IInv /\ RoomInv /\ [Next]_vars => RoomInv'
<1> SUFFICES ASSUME IInv, RoomInv, [Next]_vars PROVE RoomInv'
  OBVIOUS
<1>1. CASE UNCHANGED vars
  BY <1>1, QuietStep DEF vars
<1>2. ASSUME NEW c \in Conn, Open(c) PROVE RoomInv'
  BY <1>2, OpenRooms
<1>3. ASSUME NEW c \in Conn, HelloTimeout(c) PROVE RoomInv'
  <2>1. phase[c] # "absent"
    BY <1>3, FreshFacts DEF HelloTimeout, IInv, Lifecycle, Fresh
  <2>2. QED
    BY <1>3, <2>1, RefusalRooms DEF HelloTimeout
<1>4. ASSUME NEW c \in Conn, InvalidMessage(c) PROVE RoomInv'
  BY <1>4, RefusalRooms DEF InvalidMessage, Receives
<1>5. ASSUME NEW c \in Conn, Hello(c) PROVE RoomInv'
  <2>1. ASSUME NEW r \in RoomId, NEW intent \in Intent, NEW code \in ErrorCode,
               HelloRefused(c, r, intent, code)
        PROVE  RoomInv'
    <3>1. /\ phase[c] # "absent" /\ data' = [data EXCEPT ![c] = clearHelloTimer(c)]
          /\ ErrorAndClose({c}) /\ rooms' = rooms /\ struck' = struck
      BY <2>1 DEF HelloRefused, Receives
    <3>2. QED
      BY <3>1, RefusalRooms
  <2>2. QED
    BY <1>5, <2>1, CreateRooms, JoinOrResumeRooms, JoinDroppedRooms DEF Hello
<1>6. ASSUME NEW c \in Conn, Forward(c) PROVE RoomInv'
  <2>1. ASSUME NEW code \in ErrorCode, ForwardRefused(c, code)
        PROVE  RoomInv'
    <3>1. /\ phase[c] # "absent" /\ data' = data
          /\ ErrorAndClose({c}) /\ rooms' = rooms /\ struck' = struck
      BY <2>1 DEF ForwardRefused, Receives
    <3>2. QED
      BY <3>1, RefusalRooms
  <2>2. QED
    BY <1>6, <2>1, ForwardRooms, ForwardBreaksRooms DEF Forward
<1>7. ASSUME NEW c \in Conn, Close(c) PROVE RoomInv'
  BY <1>7, CloseRooms
<1>8. ASSUME NEW r \in RoomId, WaitTimePasses(r) \/ GraceTimePasses(r) PROVE RoomInv'
  BY <1>8, AgeRooms
<1>9. CASE Sweep
  BY <1>9, SweepRooms
<1>10. QED
  BY <1>1, <1>2, <1>3, <1>4, <1>5, <1>6, <1>7, <1>8, <1>9 DEF Next

LEMMA RoomInvariant == Spec => [](IInv /\ RoomInv)
<1>1. IInv /\ RoomInv /\ [Next]_vars => (IInv /\ RoomInv)'
  BY NextIInv, NextRooms
<1>2. QED
  BY <1>1, InitIInv, InitRooms, PTL DEF Spec

\* hasFreeSlot, getPeer and the sweeper can rely on a room's state until a late
\* close strikes it: two sockets when PAIRED, one otherwise, never none.
THEOREM RoomsKeepShape == Spec => []RoomShape
<1>1. IInv /\ RoomInv => RoomShape
  <2> SUFFICES ASSUME IInv, RoomInv, NEW r \in RoomId \ struck, Exists(r)
               PROVE  /\ Members(rooms[r]) # {}
                      /\ (rooms[r].state = "PAIRED") <=> (Cardinality(Members(rooms[r])) = 2)
                      /\ rooms[r].state = "WAITING" => rooms[r].initiator # NoConn
    BY DEF RoomShape
  <2> DEFINE i == rooms[r].initiator
             j == rooms[r].joiner
  <2>1. Shape(rooms[r])
    BY DEF RoomInv, Shaped, Exists
  <2>2. i # NoConn /\ j # NoConn => i # j
    <3>1. i # NoConn => data[i].role = "initiator"
      BY DEF IInv, SlotsAreMembers, Role
    <3>2. j # NoConn => data[j].role = "joiner"
      BY DEF IInv, SlotsAreMembers, Role
    <3>3. QED
      BY <3>1, <3>2
  <2>3. Members(rooms[r]) = {i, j} \ {NoConn}
    BY DEF Members
  <2> HIDE DEF i, j
  <2>4. CASE i # NoConn /\ j # NoConn
    <3>1. Members(rooms[r]) = {i, j} /\ i # j
      BY <2>2, <2>3, <2>4
    <3>2. Cardinality({i, j}) = 2
      <4>1. IsFiniteSet({i}) /\ Cardinality({i}) = 1
        BY FS_Singleton
      <4>2. {i, j} = {i} \cup {j} /\ j \notin {i}
        BY <3>1
      <4>3. Cardinality({i} \cup {j}) = Cardinality({i}) + 1
        BY <4>1, <4>2, FS_AddElement
      <4>4. QED
        BY <4>1, <4>2, <4>3
    <3>3. QED
      BY <2>1, <2>4, <3>1, <3>2 DEF Shape, i, j
  <2>5. CASE i = NoConn \/ j = NoConn
    <3>0. i # NoConn \/ j # NoConn
      BY <2>1 DEF Shape, i, j
    <3>1. PICK m : Members(rooms[r]) = {m}
      <4>1. CASE i = NoConn
        <5>1. Members(rooms[r]) = {j}
          BY <2>3, <3>0, <4>1
        <5>2. QED
          BY <5>1
      <4>2. CASE j = NoConn
        <5>1. Members(rooms[r]) = {i}
          BY <2>3, <3>0, <4>2
        <5>2. QED
          BY <5>1
      <4>3. QED
        BY <2>5, <4>1, <4>2
    <3>2. Cardinality({m}) = 1
      BY FS_Singleton
    <3>3. QED
      BY <2>1, <2>5, <3>1, <3>2 DEF Shape, i, j
  <2>6. QED
    BY <2>4, <2>5
<1>2. QED
  BY <1>1, RoomInvariant, PTL

\* No handler deletes a room under a socket that it has let in and leaves open:
\* only the sweeper does, in a room that a late close has struck.
THEOREM NoSocketIsOrphaned == Spec => []NoOrphans
<1>1. IInv /\ RoomInv => NoOrphans
  BY DEF RoomInv, Seated, NoOrphans, Exists
<1>2. QED
  BY <1>1, RoomInvariant, PTL

\* A member that is open was last told the state that its room is in.
THEOREM MembersAreToldTheTruth == Spec => []ToldTheTruth
<1>1. IInv /\ RoomInv => ToldTheTruth
  <2> SUFFICES ASSUME IInv, RoomInv, NEW c \in Conn, Settled(c)
               PROVE  CASE rooms[data[c].roomId].state = "WAITING"   -> notice[c] = "ACK"
                        [] rooms[data[c].roomId].state = "PAIRED"    -> notice[c] \in {"ACK", "PEER_JOINED"}
                        [] rooms[data[c].roomId].state = "HALF_OPEN" -> notice[c] = "PEER_DISCONNECTED"
    BY DEF ToldTheTruth
  <2>1. Truth(rooms[data[c].roomId].state, notice[c]) /\ rooms[data[c].roomId] \in Room
    BY SettledFacts DEF Seated
  <2>2. rooms[data[c].roomId].state \in {"WAITING", "PAIRED", "HALF_OPEN"}
    BY <2>1 DEF Room
  <2>3. QED
    BY <2>1, <2>2 DEF Truth
<1>2. QED
  BY <1>1, RoomInvariant, PTL
=============================================================================
