----------------------------- MODULE SessionPair -----------------------------
(***************************************************************************)
(* Two ends of one session after their handshake, and the relay's room     *)
(* between them: client/src/domain/session.ts from ACTIVE to TERMINATED.   *)
(*                                                                         *)
(* The parts that race with each other:                                    *)
(*   - the socket's events: the server's control frames and the close act  *)
(*     as soon as they arrive (handleServerFrame, onClose);                *)
(*   - the inbound chain (enqueueInbound): RELAY frames are handled one at *)
(*     a time, and a handler may be waiting (hp) while events arrive;      *)
(*   - upgradeToPrf, which waits for the passkey dialog (up);              *)
(*   - the reconnect timer, the user, and page reloads.                    *)
(*                                                                         *)
(* A stretch of code between two awaits is one action.  Decryption is      *)
(* folded into the start of its handler, and a send into the stretch that  *)
(* requests it, because sends are serialised in that order.  Reservation   *)
(* blocks are SendCounter's: here s is the last counter used.              *)
(***************************************************************************)
EXTENDS Integers, Sequences, FiniteSets

CONSTANTS
  MaxTexts,      \* bound: texts each end sends
  MaxOffers,     \* bound: file offers each end makes
  Faults,        \* the faults explored, among "drop", "reload", "leave", "failure"
                 \* and "backpressure"
  MaxFaults      \* bound: faults in a behaviour

ASSUME BoundAssumption == MaxTexts \in Nat /\ MaxOffers \in Nat /\ MaxFaults \in Nat
ASSUME FaultAssumption ==
  Faults \subseteq {"drop", "reload", "leave", "failure", "backpressure"}

Role == {"initiator", "joiner"}
Peer(p) == IF p = "initiator" THEN "joiner" ELSE "initiator"

SessionState == {"ACTIVE", "UPGRADING_LOCAL", "REKEYING", "PEER_RECONNECTING", "RECONNECTING",
                 "RESUMING", "WAITING_FOR_PEER", "FATAL_ENDING", "TERMINATED"}
Control == {"ACK_INITIATOR", "ACK_JOINER", "PEER_JOINED", "PEER_DISCONNECTED", "PEER_LEFT"}
ModeKind == {"MODE_UPGRADED", "REKEY_INIT", "REKEY_ACK", "REKEY_DONE"}
Envelope == {"msg", "resume", "resume_ack", "file_offer", "file_decline", "file_cancel"}
Frame == [type : Control \cup ModeKind \cup Envelope, key : {0, 1}, ctr : Nat, id : Nat]

NoRecord == [stored |-> FALSE]
Record == [stored : {TRUE}, k : {0, 1}, s : Nat, n : Nat, hardened : BOOLEAN,
           rekey_in_progress : BOOLEAN]

VARIABLES
  end,        \* each end: its page, and the socket as it really is
  slot,       \* the server's room: whose socket is in which slot
  roomGone,   \* the room was deleted
  net,        \* frames on their way from the server to each end
  texts,      \* texts each end has sent
  heard,      \* texts each end has shown
  offers,     \* file offers each end has made
  faults,     \* faults so far
  ids,        \* resume ids drawn so far
  unsent      \* history: types of the frames whose sending was skipped on an open socket

counts == <<texts, heard, offers, faults, ids, unsent>>
vars == <<end, slot, roomGone, net, counts>>

\* A slot of the room.  An end that came back before its old socket was seen to
\* close has a stale one in the room beside its current one.
Empty == [who |-> "none", current |-> FALSE]
Seat == [who : Role, current : BOOLEAN] \cup {Empty}

End ==
  [st : SessionState,                       \* sessionState
   kind : {"pre", "resuming", "active"},    \* internal.kind
   mode : {"RAM", "PRF"}, peerMode : {"RAM", "PRF"},
   key : {0, 1},                            \* active.sessionKey: before, after the rekey
   sendCtr : Nat, recvCtr : Nat,
   gap : BOOLEAN,                           \* nextRecvMode = first-gap-allowed
   rec : Record \cup {NoRecord},            \* the StoredSession and its mirror
   rekeyInFlight : BOOLEAN,
   pendingPair : BOOLEAN,                   \* pendingRekeyPair is defined
   resumeId : Nat,                          \* pendingResumeId, 0 if undefined
   offering : BOOLEAN, incoming : BOOLEAN,  \* transferActive, incomingActive: an open offer
   up : {"none", "passkey", "notifying", "keygen"},
   hp : {"none", "resumeAck", "keygen", "rekeyInit", "rekeyAck", "commit"},
   peerResume : Nat,                        \* the id of the probe being answered
   inq : Seq(Frame),
   link : {"open", "broken", "closed"},     \* broken: dead, and nobody knows
   full : BOOLEAN,                          \* bufferedAmount is over the threshold
   timer : BOOLEAN,                         \* the reconnect timer is set
   shook : BOOLEAN]                         \* localHandshakeSent: by this very page

\* The frames that the other end may be waiting for.
Awaited == {"MODE_UPGRADED", "REKEY_INIT", "REKEY_ACK", "resume", "resume_ack"}

TypeOK ==
  /\ end \in [Role -> End]
  /\ slot \in [Role -> Seat] /\ roomGone \in BOOLEAN
  /\ net \in [Role -> Seq(Frame)]
  /\ texts \in [Role -> 0..MaxTexts] /\ heard \in [Role -> 0..MaxTexts]
  /\ offers \in [Role -> 0..MaxOffers] /\ faults \in 0..MaxFaults /\ ids \in Nat
  /\ unsent \subseteq Awaited

\* handleHandshakeFrame's transitionToActive, in RAM mode.
InitialEnd ==
  [st |-> "ACTIVE", kind |-> "active", mode |-> "RAM", peerMode |-> "RAM", key |-> 0,
   sendCtr |-> 0, recvCtr |-> 0, gap |-> FALSE, rec |-> NoRecord, rekeyInFlight |-> FALSE,
   pendingPair |-> FALSE, resumeId |-> 0, offering |-> FALSE, incoming |-> FALSE,
   up |-> "none", hp |-> "none", peerResume |-> 0, inq |-> <<>>, link |-> "open", full |-> FALSE,
   timer |-> FALSE, shook |-> TRUE]

Init ==
  /\ end = [p \in Role |-> InitialEnd]
  /\ slot = [p \in Role |-> [who |-> p, current |-> TRUE]] /\ roomGone = FALSE
  /\ net = [p \in Role |-> <<>>]
  /\ texts = [p \in Role |-> 0] /\ heard = [p \in Role |-> 0] /\ offers = [p \in Role |-> 0]
  /\ faults = 0 /\ ids = 0 /\ unsent = {}

Alive(p) == end[p].st \notin {"FATAL_ENDING", "TERMINATED"}

-----------------------------------------------------------------------------
(* Sending and ending                                                      *)

\* canAttemptSend: not on a closed socket, nor on one whose buffer is full.  The
\* client cannot tell a broken socket from an open one.
CanSend(e) == e.link # "closed" /\ ~e.full

\* A frame of this type, due now, is skipped when p's buffer is full.
Skipped(p, type) == unsent' = IF end[p].full THEN unsent \cup {type} ELSE unsent

\* The socket in slot s can be reached.
Live(s) == slot[s].current /\ end[slot[s].who].link = "open"

\* The room forwards from the socket of p to the one in the other slot, which
\* may be an old one of p itself.
Reaches(p) ==
  \E s \in Role : /\ Live(s) /\ slot[s].who = p
                  /\ Live(Peer(s)) /\ slot[Peer(s)].who = Peer(p)

\* RELAY frames of these types, encrypted in a row by end e.
RelayFrames(e, types, id) ==
  [i \in DOMAIN types |-> [type |-> types[i], key |-> e.key, ctr |-> e.sendCtr + i, id |-> id]]

Stored(e) == e.rec # NoRecord

\* Faulty variant: the counter is allocated before the socket is asked.
CountedEvenUnsent(e, types) ==
  IF types = <<>> THEN e
  ELSE [e EXCEPT !.sendCtr = @ + Len(types),
                 !.rec = IF Stored(e) THEN [@ EXCEPT !.s = e.sendCtr + Len(types)] ELSE @]

\* The end after it has sent them, with the counter in its mirror.
Counted(e, types) ==
  IF ~CanSend(e) \/ types = <<>> THEN e
  ELSE [e EXCEPT !.sendCtr = @ + Len(types),
                 !.rec = IF Stored(e) THEN [@ EXCEPT !.s = e.sendCtr + Len(types)] ELSE @]

Emit(p, e, types, id) ==
  net' = IF CanSend(e) /\ Reaches(p)
         THEN [net EXCEPT ![Peer(p)] = @ \o RelayFrames(e, types, id)] ELSE net

\* The outbound chain still holds the MODE_UPGRADED of upgradeToPrf.
Sending(p) == end[p].up = "notifying"

\* One stretch of end p: it becomes e and sends frames of these types, after
\* what the outbound chain holds.
Step(p, e, types) ==
  /\ Sending(p) => types = <<>>
  /\ end' = [end EXCEPT ![p] = Counted(e, types)]
  /\ Emit(p, e, types, 0)

\* terminate: the record outlives a buffered end until finalizeTermination.
\* Work that is waiting (up, hp) is not undone.
EndedAs(e) ==
  LET buffered == e.st \in {"ACTIVE", "PEER_RECONNECTING", "RECONNECTING"}
  IN [InitialEnd EXCEPT !.st = IF buffered THEN "FATAL_ENDING" ELSE "TERMINATED",
                        !.rec = IF buffered THEN e.rec ELSE NoRecord,
                        !.kind = "pre", !.link = "closed", !.up = e.up, !.hp = e.hp]

\* Faulty variant: work goes on without asking isTerminated().
ContinuesAnyway(p) == TRUE

\* What every stretch asks when it returns from a wait.
Continues(p) == Alive(p)

Terminate(p) ==
  /\ end' = [end EXCEPT ![p] = EndedAs(end[p])]
  /\ net' = [net EXCEPT ![p] = <<>>]

FinalizeTermination(p) ==
  /\ end[p].st = "FATAL_ENDING"
  /\ end' = [end EXCEPT ![p].st = "TERMINATED", ![p].rec = NoRecord]
  /\ UNCHANGED <<slot, roomGone, net, counts>>

-----------------------------------------------------------------------------
(* The user                                                                *)

\* sendDraft and sendFromActive.
Say(p) ==
  /\ end[p].st = "ACTIVE" /\ texts[p] < MaxTexts
  /\ IF end[p].kind # "active"
     THEN Terminate(p) /\ UNCHANGED texts
     ELSE /\ Step(p, end[p], <<"msg">>)
          /\ texts' = [texts EXCEPT ![p] = @ + (IF CanSend(end[p]) THEN 1 ELSE 0)]
  /\ UNCHANGED <<slot, roomGone, heard, offers, faults, ids, unsent>>

\* startTransfer, up to the offer.
OfferFile(p) ==
  /\ end[p].st = "ACTIVE" /\ end[p].kind = "active" /\ offers[p] < MaxOffers
  /\ ~end[p].offering /\ ~end[p].incoming /\ CanSend(end[p])
  /\ Step(p, [end[p] EXCEPT !.offering = TRUE], <<"file_offer">>)
  /\ offers' = [offers EXCEPT ![p] = @ + 1]
  /\ UNCHANGED <<slot, roomGone, texts, heard, faults, ids, unsent>>

\* declineOffer, by the user, in whatever state the session is.
DeclineFile(p) ==
  /\ Alive(p) /\ end[p].kind = "active" /\ end[p].incoming
  /\ Step(p, [end[p] EXCEPT !.incoming = FALSE], <<"file_decline">>)
  /\ UNCHANGED <<slot, roomGone, counts>>

\* upgradeToPrf up to the passkey dialog.
StartUpgrade(p) ==
  /\ end[p].mode = "RAM" /\ end[p].st = "ACTIVE" /\ end[p].kind = "active"
  /\ end' = [end EXCEPT ![p].st = "UPGRADING_LOCAL", ![p].up = "passkey"]
  /\ UNCHANGED <<slot, roomGone, net, counts>>

\* The dialog is cancelled or fails.
UpgradeFails(p) ==
  /\ Continues(p) /\ end[p].up = "passkey"
  /\ end' = [end EXCEPT ![p].st = "ACTIVE", ![p].up = "none"]
  /\ UNCHANGED <<slot, roomGone, net, counts>>

\* persistWrappedSessionKey: the record is built from the counters of now.
Persisted(e, hardened) ==
  [e EXCEPT !.rec = [stored |-> TRUE, k |-> e.key, s |-> e.sendCtr, n |-> e.recvCtr,
                     hardened |-> hardened, rekey_in_progress |-> FALSE]]

\* The passkey is there: the record is written and the mode is PRF; the
\* MODE_UPGRADED is being encrypted.
UpgradeSucceeds(p) ==
  /\ Continues(p) /\ end[p].up = "passkey"
  /\ end' = [end EXCEPT ![p] = [Persisted(@, FALSE) EXCEPT !.mode = "PRF", !.st = "ACTIVE",
                                                           !.up = "notifying"]]
  /\ UNCHANGED <<slot, roomGone, net, counts>>

-----------------------------------------------------------------------------
(* Rekey                                                                   *)

\* cancelActive of both file parts, and the frames that it sends.
NoFiles(e) == [e EXCEPT !.offering = FALSE, !.incoming = FALSE]
CancelFrames(e) ==
  (IF e.offering THEN <<"file_cancel">> ELSE <<>>)
    \o (IF e.incoming THEN <<"file_decline">> ELSE <<>>)

EnterRekeying(e) ==
  [NoFiles(e) EXCEPT !.st = "REKEYING", !.rekeyInFlight = TRUE,
                     !.rec = IF Stored(e) THEN [@ EXCEPT !.rekey_in_progress = TRUE] ELSE @]

MayStartRekey(e) == ~e.rekeyInFlight /\ e.st # "REKEYING"

\* startRekeyIfInitiator; pc names the caller's wait, in which the initiator
\* generates its pair.
StartedRekey(p, e, pc) ==
  IF ~MayStartRekey(e) THEN e
  ELSE IF p = "initiator" THEN [EnterRekeying(e) EXCEPT ![pc] = "keygen"] ELSE EnterRekeying(e)

StartFrames(e) == IF MayStartRekey(e) THEN CancelFrames(e) ELSE <<>>

\* Faulty variant: only the peer's MODE_UPGRADED starts a rekey.
UpgradeNotifiesOnly(p) ==
  /\ Continues(p) /\ Sending(p)
  /\ LET e == [end[p] EXCEPT !.up = "none"]
     IN /\ end' = [end EXCEPT ![p] = Counted(e, <<"MODE_UPGRADED">>)]
        /\ Emit(p, e, <<"MODE_UPGRADED">>, 0)
  /\ Skipped(p, "MODE_UPGRADED")
  /\ UNCHANGED <<slot, roomGone, texts, heard, offers, faults, ids>>

\* The end of upgradeToPrf: the peer is told, and a peer in PRF mode is met
\* with a rekey.
UpgradeNotifies(p) ==
  /\ Continues(p) /\ Sending(p)
  /\ LET e == [end[p] EXCEPT !.up = "none"]
         starts == e.peerMode = "PRF"
         out == <<"MODE_UPGRADED">> \o (IF starts THEN StartFrames(e) ELSE <<>>)
     IN /\ end' = [end EXCEPT ![p] = Counted(IF starts THEN StartedRekey(p, e, "up") ELSE e, out)]
        /\ Emit(p, e, out, 0)
  /\ Skipped(p, "MODE_UPGRADED")
  /\ UNCHANGED <<slot, roomGone, texts, heard, offers, faults, ids>>

\* The initiator's pair is generated and its public half sent.
SendRekeyInit(p, pc) ==
  /\ Continues(p) /\ end[p][pc] = "keygen"
  /\ Step(p, [end[p] EXCEPT ![pc] = "none", !.pendingPair = TRUE], <<"REKEY_INIT">>)
  /\ Skipped(p, "REKEY_INIT")
  /\ UNCHANGED <<slot, roomGone, texts, heard, offers, faults, ids>>

\* Faulty variant: the receive counter is kept.
RekeyedSendOnly(e) == [e EXCEPT !.key = 1, !.sendCtr = 0, !.hp = "commit"]

\* Faulty variant: the frames that wait in the inbound chain are forgotten.
RekeyedAfresh(e) ==
  [e EXCEPT !.key = 1, !.sendCtr = 0, !.recvCtr = 0, !.hp = "commit", !.inq = <<>>]

\* Faulty variant: the first frame under the new key is to have counter 0.
RekeyedFromZero(e) == [e EXCEPT !.key = 1, !.sendCtr = -1, !.recvCtr = -1, !.hp = "commit"]

\* commitRekey up to its wait for the wrapped key.
Rekeyed(e) == [e EXCEPT !.key = 1, !.sendCtr = 0, !.recvCtr = 0, !.hp = "commit"]

\* handleRekeyInit once its keys are ready: the answer goes out under the old
\* key and the new one takes over.  Without a socket, or with a full one, the handler gives up.
AnswerRekeyInit(p) ==
  /\ Continues(p) /\ end[p].hp = "rekeyInit"
  /\ IF CanSend(end[p])
     THEN /\ ~Sending(p)
          /\ end' = [end EXCEPT ![p] = Rekeyed(Counted(end[p], <<"REKEY_ACK">>))]
          /\ Emit(p, end[p], <<"REKEY_ACK">>, 0)
     ELSE /\ end' = [end EXCEPT ![p].hp = "none"]
          /\ UNCHANGED net
  /\ Skipped(p, "REKEY_ACK")
  /\ UNCHANGED <<slot, roomGone, texts, heard, offers, faults, ids>>

\* handleRekeyAck once the new key is derived.
TakeRekeyAck(p) ==
  /\ Continues(p) /\ end[p].hp = "rekeyAck"
  /\ end' = [end EXCEPT ![p] = Rekeyed([end[p] EXCEPT !.pendingPair = FALSE])]
  /\ UNCHANGED <<slot, roomGone, net, counts>>

\* commitRekey after the wait.
FinishCommit(p) ==
  /\ Continues(p) /\ end[p].hp = "commit"
  /\ Step(p, [(IF Stored(end[p]) THEN Persisted(end[p], TRUE) ELSE end[p])
                EXCEPT !.rekeyInFlight = FALSE, !.st = "ACTIVE", !.hp = "none"],
          <<"REKEY_DONE">>)
  /\ UNCHANGED <<slot, roomGone, counts>>

-----------------------------------------------------------------------------
(* The inbound chain                                                       *)

\* The next frame of the chain has this type and no handler is waiting.
Handles(p, type) ==
  /\ Alive(p) /\ end[p].kind # "pre" /\ end[p].hp = "none"
  /\ end[p].inq # <<>> /\ Head(end[p].inq).type = type

\* validateAndDecryptFrame with the mode that handleRelay took.
Accepts(e, f) ==
  /\ f.key = e.key
  /\ IF e.gap THEN f.ctr > e.recvCtr ELSE f.ctr = e.recvCtr + 1

\* The end once the frame is accepted.  Only envelopes persist the counter.
Took(e) ==
  LET f == Head(e.inq)
  IN [e EXCEPT !.inq = Tail(@), !.gap = FALSE, !.recvCtr = f.ctr,
               !.rec = IF Stored(e) /\ f.type \in Envelope THEN [@ EXCEPT !.n = f.ctr] ELSE @]

Frames(p, type) == Handles(p, type) /\ Accepts(end[p], Head(end[p].inq))

\* relay_counter_gap, relay_decrypt_failed and their mode_frame kin.
RejectFrame(p) ==
  /\ \E type \in ModeKind \cup Envelope : Handles(p, type)
  /\ ~Accepts(end[p], Head(end[p].inq))
  /\ Terminate(p)
  /\ UNCHANGED <<slot, roomGone, counts>>

HandleText(p) ==
  /\ Frames(p, "msg")
  /\ Step(p, Took(end[p]), <<>>)
  /\ heard' = [heard EXCEPT ![p] = @ + 1]
  /\ UNCHANGED <<slot, roomGone, texts, offers, faults, ids, unsent>>

\* A resume probe is expected only from a peer that was seen to leave.
HandleResume(p) ==
  /\ Frames(p, "resume")
  /\ IF end[p].st # "PEER_RECONNECTING" THEN Terminate(p)
     ELSE Step(p, [Took(end[p]) EXCEPT !.hp = "resumeAck", !.peerResume = Head(end[p].inq).id], <<>>)
  /\ UNCHANGED <<slot, roomGone, counts>>

\* The answer is sent and the peer is back.
FinishResume(p) ==
  /\ Continues(p) /\ end[p].hp = "resumeAck"
  /\ ~Sending(p)
  /\ LET e == [end[p] EXCEPT !.hp = "none", !.st = "ACTIVE", !.peerResume = 0]
     IN /\ end' = [end EXCEPT ![p] = Counted(e, <<"resume_ack">>)]
        /\ Emit(p, e, <<"resume_ack">>, end[p].peerResume)
  /\ Skipped(p, "resume_ack")
  /\ UNCHANGED <<slot, roomGone, texts, heard, offers, faults, ids>>

\* transitionToActive: it also clears the reconnect timer.
BackToActive(e) == [e EXCEPT !.kind = "active", !.st = "ACTIVE", !.timer = FALSE, !.resumeId = 0]

HandleResumeAck(p) ==
  /\ Frames(p, "resume_ack")
  /\ IF end[p].kind # "resuming" \/ Head(end[p].inq).id # end[p].resumeId THEN Terminate(p)
     ELSE Step(p, BackToActive(Took(end[p])), <<>>)
  /\ UNCHANGED <<slot, roomGone, counts>>

HandleModeUpgraded(p) ==
  /\ Frames(p, "MODE_UPGRADED")
  /\ LET e == [Took(end[p]) EXCEPT !.peerMode = "PRF"]
     IN IF e.mode = "PRF" THEN Step(p, StartedRekey(p, e, "hp"), StartFrames(e)) ELSE Step(p, e, <<>>)
  /\ UNCHANGED <<slot, roomGone, counts>>

\* handleRekeyInit up to the generation of its keys.
HandleRekeyInit(p) ==
  /\ Frames(p, "REKEY_INIT")
  /\ IF p # "joiner" THEN Terminate(p)
     ELSE LET e == Took(end[p])
          IN Step(p, [EnterRekeying(e) EXCEPT !.hp = "rekeyInit"], CancelFrames(e))
  /\ UNCHANGED <<slot, roomGone, counts>>

HandleRekeyAck(p) ==
  /\ Frames(p, "REKEY_ACK")
  /\ IF p # "initiator" \/ ~end[p].pendingPair THEN Terminate(p)
     ELSE Step(p, [Took(end[p]) EXCEPT !.hp = "rekeyAck"], <<>>)
  /\ UNCHANGED <<slot, roomGone, counts>>

HandleRekeyDone(p) ==
  /\ Frames(p, "REKEY_DONE")
  /\ Step(p, Took(end[p]), <<>>)
  /\ UNCHANGED <<slot, roomGone, counts>>

\* dispatchOffer: the offer is shown, or declined at once (it must be when
\* another one is open).  The session's state is not asked.
HandleFileOffer(p) ==
  /\ Frames(p, "file_offer")
  /\ \/ /\ ~end[p].offering /\ ~end[p].incoming
        /\ Step(p, [Took(end[p]) EXCEPT !.incoming = TRUE], <<>>)
     \/ Step(p, Took(end[p]), IF end[p].kind = "active" THEN <<"file_decline">> ELSE <<>>)
  /\ UNCHANGED <<slot, roomGone, counts>>

\* The offer made is declined, or the offer shown is withdrawn.
HandleFileEnd(p) ==
  /\ \/ /\ Frames(p, "file_decline")
        /\ Step(p, [Took(end[p]) EXCEPT !.offering = FALSE], <<>>)
     \/ /\ Frames(p, "file_cancel")
        /\ Step(p, [Took(end[p]) EXCEPT !.incoming = FALSE], <<>>)
  /\ UNCHANGED <<slot, roomGone, counts>>

Inbound(p) ==
  \/ RejectFrame(p) \/ HandleText(p) \/ HandleResume(p) \/ HandleResumeAck(p)
  \/ HandleModeUpgraded(p) \/ HandleRekeyInit(p) \/ HandleRekeyAck(p) \/ HandleRekeyDone(p)
  \/ HandleFileOffer(p) \/ HandleFileEnd(p)

\* The stretches after a wait, except those that wait for the user.
Resumption(p) ==
  \/ UpgradeNotifies(p) \/ SendRekeyInit(p, "up") \/ SendRekeyInit(p, "hp")
  \/ AnswerRekeyInit(p) \/ TakeRekeyAck(p) \/ FinishCommit(p) \/ FinishResume(p)

-----------------------------------------------------------------------------
(* The socket                                                              *)

\* The next frame of the server has arrived and is of this type.
Arrives(p, type) ==
  /\ Alive(p) /\ end[p].link = "open"
  /\ net[p] # <<>> /\ Head(net[p]).type = type

Consume(p) == net' = [net EXCEPT ![p] = Tail(@)]

\* A RELAY frame only joins the inbound chain.
ArriveRelay(p) ==
  /\ \E type \in ModeKind \cup Envelope : Arrives(p, type)
  /\ end' = [end EXCEPT ![p].inq = Append(@, Head(net[p]))]
  /\ Consume(p)
  /\ UNCHANGED <<slot, roomGone, counts>>

AckOf(role) == IF role = "initiator" THEN "ACK_INITIATOR" ELSE "ACK_JOINER"

\* sendResumeProbe
SendProbe(p) ==
  /\ ~Sending(p)
  /\ LET e == [end[p] EXCEPT !.resumeId = ids + 1]
     IN /\ end' = [end EXCEPT ![p] = Counted(e, <<"resume">>)]
        /\ net' = [net EXCEPT ![p] = Tail(@),
                              ![Peer(p)] = IF Reaches(p) THEN @ \o RelayFrames(e, <<"resume">>, ids + 1)
                                           ELSE @]
  /\ ids' = ids + 1
  /\ UNCHANGED unsent

\* An end that the resume_ack of an earlier probe has made active since it
\* reopened takes the ACK for the first one of a new page: no probe goes out.
SkipProbe(p, role) ==
  /\ IF role = "initiator"
     THEN end' = [end EXCEPT ![p].st = "WAITING_FOR_PEER"] /\ Consume(p)
     ELSE IF end[p].shook THEN UNCHANGED end /\ Consume(p)
     ELSE Terminate(p)
  /\ unsent' = unsent \cup {"resume"}
  /\ UNCHANGED ids

\* ACK, with the role of the slot that the server gave.
ArriveAck(p) ==
  /\ \E role \in Role :
       /\ Arrives(p, AckOf(role))
       /\ IF end[p].kind = "resuming" THEN SendProbe(p) ELSE SkipProbe(p, role)
  /\ UNCHANGED <<slot, roomGone, texts, heard, offers, faults>>

\* onPeerJoined
ArrivePeerJoined(p) ==
  /\ Arrives(p, "PEER_JOINED")
  /\ end' = [end EXCEPT ![p].gap = @ \/ end[p].st = "PEER_RECONNECTING"]
  /\ Consume(p)
  /\ UNCHANGED <<slot, roomGone, counts>>

\* onPeerDisconnected: whatever the end is doing, it now waits for the peer,
\* unless the peer is not known to be able to return.
ArrivePeerDisconnected(p) ==
  /\ Arrives(p, "PEER_DISCONNECTED")
  /\ IF end[p].kind # "active" \/ end[p].peerMode # "PRF" THEN Terminate(p)
     ELSE /\ end' = [end EXCEPT ![p].st = "PEER_RECONNECTING", ![p].gap = TRUE]
          /\ Consume(p)
  /\ UNCHANGED <<slot, roomGone, counts>>

ArrivePeerLeft(p) ==
  /\ Arrives(p, "PEER_LEFT")
  /\ Terminate(p)
  /\ UNCHANGED <<slot, roomGone, counts>>

Arrive(p) ==
  \/ ArriveRelay(p) \/ ArriveAck(p) \/ ArrivePeerJoined(p) \/ ArrivePeerDisconnected(p)
  \/ ArrivePeerLeft(p)

canRetryReconnect(e) ==
  /\ e.mode = "PRF" /\ e.kind # "pre"
  /\ e.st \in {"ACTIVE", "PEER_RECONNECTING", "RECONNECTING", "RESUMING"}

\* Faulty variant: the state changes and no timer is set.
WaitsForNothing(e) == [e EXCEPT !.link = "closed", !.full = FALSE, !.st = "RECONNECTING"]

\* What the socket had buffered is lost with it.
scheduleReconnect(e) ==
  [e EXCEPT !.link = "closed", !.full = FALSE, !.st = "RECONNECTING", !.timer = TRUE]

\* onClose: the end learns that its socket is dead.  The close ends transfers
\* that are under way (FileTransfer); offering and incoming are offers that
\* nobody has answered yet, which both onWsClose leave open.
SocketCloses(p) ==
  /\ Alive(p) /\ end[p].link = "broken"
  /\ IF canRetryReconnect(end[p])
     THEN /\ end' = [end EXCEPT ![p] = scheduleReconnect(@)]
          /\ UNCHANGED net
     ELSE Terminate(p)
  /\ UNCHANGED <<slot, roomGone, counts>>

\* The reconnect timer fires (or attemptResume has the key) and the server
\* answers the HELLO of the new socket.
Reopened(e) ==
  [e EXCEPT !.kind = "resuming", !.timer = FALSE, !.link = "open",
            !.gap = @ \/ e.kind = "active"]

Notice(type) == [type |-> type, key |-> 0, ctr |-> 0, id |-> 0]

\* Queues with a control frame for the socket in slot s, if it can be reached.
Told(queues, s, type) ==
  IF Live(s) THEN [queues EXCEPT ![slot[s].who] = Append(@, Notice(type))] ELSE queues

\* addPeer looks for the initiator's slot first, whoever comes.
FreeSlot == IF slot["initiator"] = Empty THEN "initiator" ELSE "joiner"

\* The slots once the end p has a new socket.
Seated(p) ==
  [s \in Role |-> IF s = FreeSlot THEN [who |-> p, current |-> TRUE]
                 ELSE IF slot[s].who = p THEN [slot[s] EXCEPT !.current = FALSE]
                 ELSE slot[s]]

\* An end that is back before the server has seen its old socket close finds
\* the room full and ends, unless the slot of its peer is free: then it is
\* seated there, with its old socket for a peer.
Reopen(p) ==
  /\ Alive(p) /\ end[p].timer
  /\ IF roomGone \/ slot[FreeSlot] # Empty
     THEN Terminate(p) /\ UNCHANGED slot
     ELSE /\ end' = [end EXCEPT ![p] = Reopened(@)]
          /\ slot' = Seated(p)
          /\ net' = Told([net EXCEPT ![p] = <<Notice(AckOf(FreeSlot))>>], Peer(FreeSlot), "PEER_JOINED")
  /\ UNCHANGED <<roomGone, counts>>

\* RECONNECT_CUMULATIVE_CAP_MS is over.
ReconnectExhausted(p) ==
  /\ Alive(p) /\ end[p].timer
  /\ Terminate(p)
  /\ UNCHANGED <<slot, roomGone, counts>>

\* visibilitychange finds a dead socket behind a session that seems alive.
VisibilityWake(p) ==
  /\ end[p].st \in {"ACTIVE", "PEER_RECONNECTING"} /\ end[p].link = "closed"
  /\ Terminate(p)
  /\ UNCHANGED <<slot, roomGone, counts>>

-----------------------------------------------------------------------------
(* The server                                                              *)

\* The server's close handler for a socket that its end has lost or left.
ServerNotices(s) ==
  /\ slot[s] # Empty /\ ~Live(s)
  /\ slot' = [slot EXCEPT ![s] = Empty]
  /\ roomGone' = (slot[Peer(s)] = Empty)
  /\ net' = Told(net, Peer(s), "PEER_DISCONNECTED")
  /\ UNCHANGED <<end, counts>>

\* sweepRooms: the grace period is over.
GraceExpires(s) ==
  /\ slot[s] # Empty /\ slot[Peer(s)] = Empty
  /\ slot' = [slot EXCEPT ![s] = Empty]
  /\ roomGone' = TRUE
  /\ net' = Told(net, s, "PEER_LEFT")
  /\ UNCHANGED <<end, counts>>

-----------------------------------------------------------------------------
(* Faults                                                                  *)

Fault(f) == f \in Faults /\ faults < MaxFaults /\ faults' = faults + 1

\* The network breaks the socket of p; frames on their way to it are lost.
Drop(p) ==
  /\ Alive(p) /\ end[p].link = "open" /\ Fault("drop")
  /\ end' = [end EXCEPT ![p].link = "broken"]
  /\ net' = [net EXCEPT ![p] = <<>>]
  /\ UNCHANGED <<slot, roomGone, texts, heard, offers, ids, unsent>>

\* More is handed to the socket of p than the network takes.
Fill(p) ==
  /\ Alive(p) /\ end[p].kind = "active" /\ end[p].link # "closed" /\ ~end[p].full
  /\ Fault("backpressure")
  /\ end' = [end EXCEPT ![p].full = TRUE]
  /\ UNCHANGED <<slot, roomGone, net, texts, heard, offers, ids, unsent>>

\* The network has taken it.
Drain(p) ==
  /\ Alive(p) /\ end[p].full /\ end[p].link = "open"
  /\ end' = [end EXCEPT ![p].full = FALSE]
  /\ UNCHANGED <<slot, roomGone, net, counts>>

\* The user ends the session.
Leave(p) ==
  /\ Alive(p) /\ Fault("leave")
  /\ end' = [end EXCEPT ![p] = EndedAs([end[p] EXCEPT !.st = "TERMINATED"])]
  /\ net' = [net EXCEPT ![p] = <<>>]
  /\ UNCHANGED <<slot, roomGone, texts, heard, offers, ids, unsent>>

\* A key cannot be generated, derived, wrapped or used, or the record cannot be
\* written: every catch of the stretches above ends the session.
WorkFails(p) ==
  /\ Alive(p) /\ end[p].kind # "pre" /\ Fault("failure")
  /\ Terminate(p)
  /\ UNCHANGED <<slot, roomGone, texts, heard, offers, ids, unsent>>

Resumable(rec) == rec # NoRecord /\ ~rec.rekey_in_progress

\* The page before attemptResume has the key.
LockedEnd(rec) ==
  [InitialEnd EXCEPT !.st = "RESUMING", !.kind = "pre", !.link = "closed", !.rec = rec, !.shook = FALSE,
                     !.mode = "PRF", !.peerMode = IF rec.hardened THEN "PRF" ELSE "RAM"]

\* F5, also in the three seconds of FATAL_ENDING.  Without a usable record
\* what starts is another session.
Reload(p) ==
  /\ end[p].st # "TERMINATED" /\ Fault("reload")
  /\ end' = [end EXCEPT ![p] =
               IF Resumable(@.rec) THEN LockedEnd(@.rec)
               ELSE [InitialEnd EXCEPT !.st = "TERMINATED", !.kind = "pre", !.link = "closed"]]
  /\ net' = [net EXCEPT ![p] = <<>>]
  /\ UNCHANGED <<slot, roomGone, texts, heard, offers, ids, unsent>>

\* attemptResume with the passkey's help; openWith('resume') follows.
Unlocked(e) ==
  [e EXCEPT !.kind = "resuming", !.key = e.rec.k, !.sendCtr = e.rec.s, !.recvCtr = e.rec.n,
            !.gap = TRUE, !.timer = TRUE]

\* The passkey answers; or it fails for good (a refusal only locks the page
\* until the user retries).
Unlock(p) ==
  /\ end[p].st = "RESUMING" /\ end[p].kind = "pre"
  /\ \/ end' = [end EXCEPT ![p] = Unlocked(@)] /\ UNCHANGED net
     \/ Terminate(p)
  /\ UNCHANGED <<slot, roomGone, counts>>

-----------------------------------------------------------------------------
User(p) ==
  \/ Say(p) \/ OfferFile(p) \/ DeclineFile(p) \/ Unlock(p) \/ VisibilityWake(p)
  \/ StartUpgrade(p) \/ UpgradeFails(p) \/ UpgradeSucceeds(p)

Machine(p) ==
  \/ Inbound(p) \/ Resumption(p) \/ Arrive(p) \/ SocketCloses(p) \/ FinalizeTermination(p)

Server(s) == ServerNotices(s) \/ GraceExpires(s)

Next ==
  \E p \in Role : \/ User(p) \/ Machine(p) \/ Server(p) \/ Reopen(p) \/ ReconnectExhausted(p)
                  \/ Drop(p) \/ Fill(p) \/ Drain(p) \/ Leave(p) \/ WorkFails(p) \/ Reload(p)

\* Promises settle, frames arrive, dead sockets are noticed by both sides,
\* timers fire, the sweeper runs and buffers empty.  Nothing is assumed of the user, of
\* passkeys or of faults.
Fairness ==
  \A p \in Role : WF_vars(Machine(p)) /\ WF_vars(Server(p)) /\ WF_vars(Reopen(p)) /\ WF_vars(Drain(p))

Spec == Init /\ [][Next]_vars /\ Fairness

-----------------------------------------------------------------------------
(* Properties                                                              *)

\* Nothing is under way at either end or between them.
Quiet ==
  \A p \in Role : /\ net[p] = <<>> /\ end[p].inq = <<>> /\ end[p].hp = "none"
                  /\ end[p].up \notin {"notifying", "keygen"} /\ end[p].link = "open"

BothActive == \A p \in Role : end[p].st = "ACTIVE"

\* When both ends show ACTIVE and nothing is under way, each is in the room
\* opposite the other and not opposite an old socket of its own, they hold one
\* key, and the next frame of each has the counter that the other accepts.  Both
\* take texts from their user, unless a full buffer swallowed the answer to a
\* probe: a rekey then shows ACTIVE at an end that is still resuming.
InSync ==
  Quiet /\ BothActive =>
    \A p \in Role : /\ end[p].kind = "active" \/ "resume_ack" \in unsent
                    /\ Reaches(p)
                    /\ end[p].key = end[Peer(p)].key
                    /\ end[p].recvCtr = end[Peer(p)].sendCtr \/ end[p].gap

\* Without faults and file offers nobody's session ends, however upgrades, the
\* rekey and texts of the two ends cross.  (A file_decline that crosses the
\* rekey does end it: the file components answer in REKEYING too, under a key
\* that the peer has left.)
NobodyTerminates == (\A p \in Role : offers[p] = 0) => (\A p \in Role : Alive(p))

\* What p has still to handle, in order, and the texts among it.
Pending(p) == end[p].inq \o net[p]
TextsIn(q) == Cardinality({i \in DOMAIN q : q[i].type = "msg"})

\* Without a fault no text is lost: as long as neither session has ended, what
\* one end sent, the other has shown or is about to.
NoTextLost ==
  (\A p \in Role : Alive(p)) => \A p \in Role : texts[Peer(p)] = heard[p] + TextsIn(Pending(p))

\* Both upgraded, both hardened: once both ends are in PRF mode the session
\* is rekeyed and both are ACTIVE under the new key, if nobody's session ends.
Hardened(e) == e.key = 1 /\ e.st = "ACTIVE" /\ Stored(e) /\ e.rec.hardened
BothHarden ==
  (\A p \in Role : end[p].mode = "PRF")
    ~> ((\A p \in Role : Hardened(end[p])) \/ (\E p \in Role : ~Alive(p)))

\* From the terminate on an end writes nothing and sends nothing, though work
\* it began before returns from its wait (docs/02-protocol.md, TERMINATED).
TerminatedIsSilent ==
  [][\A p \in Role : ~Alive(p) =>
       /\ end'[p].rec \in {end[p].rec, NoRecord}
       /\ end'[p].st \in {"FATAL_ENDING", "TERMINATED", "RESUMING"}
       /\ end'[p].sendCtr = end[p].sendCtr]_vars

\* A session on a closed socket that nothing will replace: a resume_ack that waited
\* in the chain when the socket closed clears the reconnect timer (session.ts:352).
Zombie(e) == e.link = "closed" /\ e.kind # "pre" /\ ~e.timer

\* A frame that the end was waiting for, and that was never sent: a full buffer
\* made the peer skip it, or (the probe) an ACK found the peer active already.
\* Nothing sends it again and no timeout ends the wait.
Forsaken(e) ==
  \/ e.st = "REKEYING" /\ unsent \cap {"MODE_UPGRADED", "REKEY_INIT", "REKEY_ACK"} # {}
  \/ e.st \in {"REKEYING", "PEER_RECONNECTING", "WAITING_FOR_PEER"} /\ "resume" \in unsent
  \/ e.kind = "resuming" /\ "resume_ack" \in unsent

\* Every passage ends: a rekey, a reconnect, a wait for the peer or the loss of
\* the socket leads back to ACTIVE on a live socket or to the end of the session.
\* The exceptions are the code's: after a second fault the session may be left a
\* zombie, and an end may wait for a frame that was never sent.
Passing(e) ==
  \/ e.st \in {"REKEYING", "RECONNECTING", "PEER_RECONNECTING", "WAITING_FOR_PEER"}
  \/ e.kind = "resuming"
  \/ e.link = "closed" /\ e.kind # "pre"
PassagesEnd ==
  \A p \in Role :
    []<>(\/ ~Passing(end[p])
         \/ Zombie(end[p]) /\ faults > 1
         \/ Forsaken(end[p]))

-----------------------------------------------------------------------------
(* What the documentation says and the code does not keep                  *)

\* docs/01-overview.md, the state machine: PEER_RECONNECTING becomes ACTIVE
\* when the resume probe is accepted.
PeerReturnsByProbe ==
  [][\A p \in Role :
       (end[p].st = "PEER_RECONNECTING" /\ end'[p].st = "ACTIVE") => end[p].hp = "resumeAck"]_vars

\* docs/01-overview.md, what survives a reload: in PRF mode F5 restores the
\* session; docs/02-protocol.md: only F5 in the middle of a rekey finds the
\* marker.  So a marker is taken away again, by the end of the rekey or of the
\* session.
MarkerCleared ==
  \A p \in Role : (Stored(end[p]) /\ ~Resumable(end[p].rec)) ~>
                    ~(Stored(end[p]) /\ ~Resumable(end[p].rec))
=============================================================================
