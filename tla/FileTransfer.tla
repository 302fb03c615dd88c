----------------------------- MODULE FileTransfer -----------------------------
(***************************************************************************)
(* File transfers from one end of an active session to the other:          *)
(* client/src/domain/file-send.ts with its worker at the sender,           *)
(* file-receive.ts with its worker at the receiver.                        *)
(*                                                                         *)
(* Each end has an outbound chain (sends wait there to be encrypted; the   *)
(* code that awaits a send goes on when the chain has reached it) and a    *)
(* channel on which the peer's frames come in order.  A worker and what    *)
(* the page does with its message are one action: the page ignores the     *)
(* messages of a worker that is no longer its own.  Time is abstracted, so *)
(* a timeout may strike whenever its timer is set.                         *)
(*                                                                         *)
(* A chunk is its number, a file the sequence of chunks written to it, and *)
(* two hashes are equal when the sequences are.  file_progress, which the  *)
(* sender ignores, is left out.                                            *)
(***************************************************************************)
EXTENDS Integers, Sequences, FiniteSets

CONSTANTS
  Chunks,                  \* chunks of each file
  INITIAL_CREDIT,          \* file-send.ts:27
  RECV_INITIAL_CREDIT,     \* file-receive.ts:33
  RECV_PENDING_HARD_CAP,   \* file-receive.ts:34, in chunks
  MaxTransfers,            \* bound: files offered
  Faults,                  \* the faults explored, a subset of AllFaults
  MaxFaults                \* bound: kinds of fault in a behaviour, each once

ASSUME FileAssumption == Chunks \in Nat \ {0}
ASSUME CreditAssumption == /\ INITIAL_CREDIT \in Nat \ {0} /\ RECV_INITIAL_CREDIT \in Nat \ {0}
                           /\ RECV_PENDING_HARD_CAP \in Nat
ASSUME BoundAssumption == MaxTransfers \in Nat /\ MaxFaults \in Nat

\* A socket closes; frames are skipped on a full one; the sender's worker, the
\* receiver's disk or a post to its worker fails; that worker is killed.
AllFaults == {"drop", "backpressure", "file", "disk", "post", "kill"}
ASSUME FaultAssumption == Faults \subseteq AllFaults

Tid == 1..MaxTransfers
Seqno == 0..(Chunks - 1)
End == {"sender", "receiver"}

VARIABLES
  S,          \* transferActive and the sender's locals
  loop,       \* each transfer's runSendLoop: not running, between chunks, awaiting a chunk
  R,          \* incomingActive, the receiver's locals, and its worker
  accept,     \* runAcceptOffer, and what it awaits
  cleaning,   \* failed transfers whose handleWorkerDone awaits cleanupOpfs
  out,        \* each end's outbound chain
  net,        \* frames on their way to each end
  link,       \* "up", or the end whose socket is down
  kept,       \* the sender's attachmentMap: how each transfer succeeded there
  stored,     \* the receiver's attachmentMap: the file of each transfer
  offered,    \* files offered so far
  faults      \* the faults so far

sender == <<S, loop, kept>>
receiver == <<R, accept, cleaning, stored>>
wire == <<out, net, link>>
vars == <<sender, receiver, wire, offered, faults>>

Frame ==
  [kind : {"offer", "chunk", "complete", "cancel", "accept", "decline", "complete_ack"},
   tid : Tid, seq : Seqno]

TransferState ==
  [phase : {"null", "offered", "sending", "verifying"}, tid : Tid \cup {0},
   worker : {"none", "starting", "running"}, next : 0..Chunks, credit : 0..INITIAL_CREDIT,
   queue : Seq(Seqno),        \* pendingSendQueue
   final : BOOLEAN,           \* workerFinalReceived
   sendLoopRunning : BOOLEAN]

IncomingState ==
  [phase : {"null", "offer-pending", "receiving"}, tid : Tid \cup {0},
   nextExpectedSeq : 0..Chunks, bytesWritten : 0..Chunks,
   receiveCredit : 0..RECV_INITIAL_CREDIT,
   pendingChunkQueue : Seq(Seqno),
   hash : BOOLEAN,                             \* senderSha256 is defined
   finalize : {"no", "requested", "over"},
   inbox : Seq(0..Chunks), file : Seq(Seqno),  \* the worker's messages and its file
   offerTimer : BOOLEAN, stallTimer : BOOLEAN]

TypeOK ==
  /\ S \in TransferState /\ loop \in [Tid -> {"none", "idle", "chunk"}]
  /\ R \in IncomingState
  /\ accept \in [await : {"none", "worker", "send"}, tid : Tid \cup {0}]
  /\ cleaning \subseteq Tid
  /\ out \in [End -> Seq(Frame)] /\ net \in [End -> Seq(Frame)]
  /\ link \in End \cup {"up"}
  /\ kept \in [Tid -> {"no", "acked", "assumed"}]
  /\ stored \in [Tid -> Seq(Seqno)]
  /\ offered \in 0..MaxTransfers /\ faults \subseteq Faults

NoTransfer ==
  [phase |-> "null", tid |-> 0, worker |-> "none", next |-> 0, credit |-> 0, queue |-> <<>>,
   final |-> FALSE, sendLoopRunning |-> FALSE]

NoIncoming ==
  [phase |-> "null", tid |-> 0, nextExpectedSeq |-> 0, bytesWritten |-> 0, receiveCredit |-> 0,
   pendingChunkQueue |-> <<>>, hash |-> FALSE, finalize |-> "no", inbox |-> <<>>, file |-> <<>>,
   offerTimer |-> FALSE, stallTimer |-> FALSE]

NoAccept == [await |-> "none", tid |-> 0]

Init ==
  /\ S = NoTransfer /\ loop = [t \in Tid |-> "none"]
  /\ R = NoIncoming /\ accept = NoAccept /\ cleaning = {}
  /\ out = [e \in End |-> <<>>] /\ net = [e \in End |-> <<>>] /\ link = "up"
  /\ kept = [t \in Tid |-> "no"] /\ stored = [t \in Tid |-> <<>>]
  /\ offered = 0 /\ faults = {}

-----------------------------------------------------------------------------
(* The wire                                                                *)

Peer(e) == IF e = "sender" THEN "receiver" ELSE "sender"
Msg(kind, t) == [kind |-> kind, tid |-> t, seq |-> 0]

\* sendEnvelope, sendChunk: the frame joins the end's outbound chain.
Enqueue(e, m) == out' = [out EXCEPT ![e] = Append(@, m)] /\ UNCHANGED <<net, link>>

Fault(f) ==
  /\ f \in Faults \ faults /\ Cardinality(faults) < MaxFaults
  /\ faults' = faults \cup {f}

\* canAttemptSend: a frame is not sent on the end's own socket when that is
\* down, or, once there is backpressure, when its buffer happens to be full.
Attempts(e, sent) ==
  \/ sent = (link # e) /\ UNCHANGED faults
  \/ ~sent /\ link # e /\ "backpressure" \in faults /\ UNCHANGED faults
  \/ ~sent /\ link # e /\ Fault("backpressure")

\* The chain has reached its first frame, and the end learns whether it was
\* sent.  With the peer's socket down the relay drops it.
Transmits(e, sent) ==
  /\ out[e] # <<>> /\ Attempts(e, sent)
  /\ out' = [out EXCEPT ![e] = Tail(@)]
  /\ net' = IF sent /\ link = "up" THEN [net EXCEPT ![Peer(e)] = Append(@, Head(out[e]))] ELSE net
  /\ UNCHANGED link

\* The next frame for end e is of this kind, and it is taken.
Takes(e, kind) ==
  /\ net[e] # <<>> /\ Head(net[e]).kind = kind
  /\ net' = [net EXCEPT ![e] = Tail(@)]
  /\ UNCHANGED link

Answers(e, m) == out' = [out EXCEPT ![e] = Append(@, m)]
Silent == UNCHANGED out

-----------------------------------------------------------------------------
(* The sender                                                              *)

\* startTransfer
StartTransfer ==
  /\ S.phase = "null" /\ offered < MaxTransfers
  /\ offered' = offered + 1
  /\ S' = [S EXCEPT !.phase = "offered", !.tid = offered + 1]
  /\ Enqueue("sender", Msg("offer", offered + 1))
  /\ UNCHANGED <<loop, kept, receiver, faults>>

\* Faulty variant: the flag of a loop that will never see the next transfer
\* stays set.
ResetKeepingLoop == [NoTransfer EXCEPT !.sendLoopRunning = S.sendLoopRunning]

\* transferActive = null and resetLocal; the worker is shut down.
Reset == NoTransfer

\* Faulty variant: a chunk that was sent is not pulled for.
PullNothing(t) == S

\* pullNextChunk, by the loop of transfer t for its own worker.
PullNextChunk(t) ==
  IF S.tid = t /\ S.worker # "none" /\ ~S.final THEN [S EXCEPT !.credit = @ + 1] ELSE S

\* The sender's chain moves on: startTransfer learns whether its offer was
\* sent, encryptAndSendChunk whether its chunk was.
TransmitS(sent) ==
  /\ Transmits("sender", sent)
  /\ LET m == Head(out["sender"])
     IN \/ /\ m.kind = "offer"
           /\ S' = IF ~sent /\ S.tid = m.tid THEN Reset ELSE S
           /\ UNCHANGED loop
        \/ /\ m.kind = "chunk" /\ sent
           /\ S' = PullNextChunk(m.tid)
           /\ loop' = [loop EXCEPT ![m.tid] = "idle"]
        \/ /\ m.kind = "chunk" /\ ~sent
           /\ S' = Reset
           /\ loop' = [loop EXCEPT ![m.tid] = "none"]
        \/ m.kind \in {"complete", "cancel"} /\ UNCHANGED <<S, loop>>
  /\ UNCHANGED <<kept, receiver, offered>>

\* dispatchFromReceiver
ForActive(t) == S.tid = t

\* file_accept: initialiseWorker starts a worker and awaits it.
HandleAccept ==
  /\ Takes("sender", "accept") /\ Silent
  /\ S' = IF ForActive(Head(net["sender"]).tid) /\ S.phase = "offered"
          THEN [S EXCEPT !.worker = "starting", !.credit = INITIAL_CREDIT] ELSE S
  /\ UNCHANGED <<loop, kept, receiver, offered, faults>>

\* The worker is ready: the transfer runs.
WorkerReady ==
  /\ S.phase = "offered" /\ S.worker = "starting"
  /\ S' = [S EXCEPT !.phase = "sending", !.worker = "running", !.sendLoopRunning = TRUE]
  /\ loop' = IF S.sendLoopRunning THEN loop ELSE [loop EXCEPT ![S.tid] = "idle"]
  /\ UNCHANGED <<kept, receiver, wire, offered, faults>>

\* The worker cannot be started (the receiver is not told), never becomes
\* ready, or fails to read the file.
WorkerFatal ==
  /\ S.worker # "none" /\ Fault("file")
  /\ \/ S.phase = "offered" /\ UNCHANGED wire
     \/ Enqueue("sender", Msg("cancel", S.tid))
  /\ S' = Reset
  /\ UNCHANGED <<loop, kept, receiver, offered>>

\* Faulty variant: the worker does not wait.
ReadsAhead == TRUE

\* waitForCredit
HasCredit == S.credit > 0

\* The worker posts a chunk for each credit, then the hash.
WorkerReads ==
  /\ S.worker = "running" /\ S.next < Chunks /\ HasCredit
  /\ S' = [S EXCEPT !.queue = Append(@, S.next), !.next = @ + 1, !.credit = @ - 1]
  /\ UNCHANGED <<loop, kept, receiver, wire, offered, faults>>

WorkerFinal ==
  /\ S.worker = "running" /\ S.next = Chunks /\ ~S.final
  /\ S' = [S EXCEPT !.final = TRUE]
  /\ UNCHANGED <<loop, kept, receiver, wire, offered, faults>>

isStillSendingFor(t) == S.tid = t /\ S.phase = "sending"

\* runSendLoop takes a chunk from the queue.
LoopSends(t) ==
  /\ loop[t] = "idle" /\ isStillSendingFor(t) /\ S.queue # <<>>
  /\ Enqueue("sender", [kind |-> "chunk", tid |-> t, seq |-> Head(S.queue)])
  /\ S' = [S EXCEPT !.queue = Tail(@)]
  /\ loop' = [loop EXCEPT ![t] = "chunk"]
  /\ UNCHANGED <<kept, receiver, offered, faults>>

\* finalizeSendAfterDrain, and the end of the loop.
LoopDrains(t) ==
  /\ loop[t] = "idle" /\ isStillSendingFor(t) /\ S.queue = <<>> /\ S.final
  /\ Enqueue("sender", Msg("complete", t))
  /\ S' = [S EXCEPT !.phase = "verifying", !.worker = "none", !.final = FALSE,
                    !.sendLoopRunning = FALSE]
  /\ loop' = [loop EXCEPT ![t] = "none"]
  /\ UNCHANGED <<kept, receiver, offered, faults>>

\* A loop whose transfer is over ends, and clears the flag whoever has set it.
LoopEnds(t) ==
  /\ loop[t] = "idle" /\ ~isStillSendingFor(t)
  /\ loop' = [loop EXCEPT ![t] = "none"]
  /\ S' = [S EXCEPT !.sendLoopRunning = FALSE]
  /\ UNCHANGED <<kept, receiver, wire, offered, faults>>

\* finalizeVerifyingAsSuccess
Succeed(how) == S' = Reset /\ kept' = [kept EXCEPT ![S.tid] = how]

HandleCompleteAck ==
  /\ Takes("sender", "complete_ack") /\ Silent
  /\ IF ForActive(Head(net["sender"]).tid) /\ S.phase = "verifying"
     THEN Succeed("acked") ELSE UNCHANGED <<S, kept>>
  /\ UNCHANGED <<loop, receiver, offered, faults>>

\* The verifying timeout takes silence for success.
VerifyingTimeout ==
  /\ S.phase = "verifying"
  /\ Succeed("assumed")
  /\ UNCHANGED <<loop, receiver, wire, offered, faults>>

\* file_decline, or file_cancel by the receiver.
HandleRefusal ==
  /\ Takes("sender", "decline") \/ Takes("sender", "cancel")
  /\ Silent
  /\ S' = IF ForActive(Head(net["sender"]).tid) THEN Reset ELSE S
  /\ UNCHANGED <<loop, kept, receiver, offered, faults>>

\* installOfferedTimeout's callback; cancelActive, by the user or a rekey.
CancelS ==
  /\ S.phase # "null"
  /\ Enqueue("sender", Msg("cancel", S.tid))
  /\ S' = Reset
  /\ UNCHANGED <<loop, kept, receiver, offered, faults>>

OfferedTimeout == S.phase = "offered" /\ CancelS

-----------------------------------------------------------------------------
(* The receiver                                                            *)

\* finishTransfer and resetTransferLocals
Finished == NoIncoming

Receiving(t) == R.phase = "receiving" /\ R.tid = t

\* dispatchOffer: the offer is shown, or declined: because the slot is taken,
\* or for its size, its name, the session's cap or a missing OPFS.
HandleOffer ==
  /\ Takes("receiver", "offer")
  /\ LET t == Head(net["receiver"]).tid
     IN \/ /\ R.phase = "null" /\ Silent
           /\ R' = [R EXCEPT !.phase = "offer-pending", !.tid = t, !.offerTimer = TRUE]
        \/ Answers("receiver", Msg("decline", t)) /\ UNCHANGED R
  /\ UNCHANGED <<sender, accept, cleaning, stored, offered, faults>>

\* acceptOffer: a worker is started and awaited.
AcceptOffer ==
  /\ R.phase = "offer-pending" /\ accept.await = "none"
  /\ accept' = [await |-> "worker", tid |-> R.tid]
  /\ UNCHANGED <<sender, R, cleaning, stored, wire, offered, faults>>

\* The offer that is being accepted is still the one shown.
StillPending == R.phase = "offer-pending" /\ R.tid = accept.tid

\* The worker is ready (or was not needed any more).
AcceptReady ==
  /\ accept.await = "worker"
  /\ IF StillPending
     THEN /\ R' = [R EXCEPT !.offerTimer = FALSE]
          /\ accept' = [accept EXCEPT !.await = "send"]
          /\ Enqueue("receiver", Msg("accept", R.tid))
     ELSE accept' = NoAccept /\ UNCHANGED <<R, wire>>
  /\ UNCHANGED <<sender, cleaning, stored, offered, faults>>

\* declineAndReset: there is no directory or no worker.
AcceptFails ==
  /\ accept.await = "worker" /\ StillPending /\ Fault("disk")
  /\ Enqueue("receiver", Msg("decline", R.tid))
  /\ R' = Finished /\ accept' = NoAccept
  /\ UNCHANGED <<sender, cleaning, stored, offered>>

\* The receiver's chain moves on; runAcceptOffer learns whether its accept was
\* sent.
TransmitR(sent) ==
  /\ Transmits("receiver", sent)
  /\ IF Head(out["receiver"]).kind # "accept" THEN UNCHANGED <<R, accept>>
     ELSE /\ accept' = NoAccept
          /\ R' = IF ~StillPending THEN R
                  ELSE IF ~sent THEN [R EXCEPT !.offerTimer = TRUE]
                  ELSE [R EXCEPT !.phase = "receiving", !.receiveCredit = RECV_INITIAL_CREDIT,
                                 !.stallTimer = TRUE]
  /\ UNCHANGED <<sender, cleaning, stored, offered>>

\* declineOffer, by the user.
DeclineOffer ==
  /\ R.phase = "offer-pending"
  /\ Enqueue("receiver", Msg("decline", R.tid))
  /\ R' = Finished
  /\ UNCHANGED <<sender, accept, cleaning, stored, offered, faults>>

\* The receiver's cancelActive of a transfer under way; integrityFailureAbort.
CancelR ==
  /\ R.phase = "receiving"
  /\ Enqueue("receiver", Msg("cancel", R.tid))
  /\ R' = Finished
  /\ UNCHANGED <<sender, accept, cleaning, stored, offered, faults>>

\* installOfferTimeout's callback: nobody is told.
OfferPendingTimeout ==
  /\ R.offerTimer /\ R.phase = "offer-pending"
  /\ R' = Finished
  /\ UNCHANGED <<sender, accept, cleaning, stored, wire, offered, faults>>

\* The stall timer asks only whether the first chunk has come.
StallTimeout == R.stallTimer /\ R.nextExpectedSeq = 0 /\ CancelR

\* Faulty variant: a chunk that waits is given to the worker without a credit.
PostAlways(r, seq) == [r EXCEPT !.inbox = Append(@, seq)]

\* postChunkToWorker
PostChunk(r, seq) == [r EXCEPT !.inbox = Append(@, seq), !.receiveCredit = @ - 1]

\* The message that shuts the worker down; those behind it are never read.
Abort == Chunks

\* dispatchChunkFrame's test of the number (and with it of the length).
ExpectedSeq(seq) == seq = R.nextExpectedSeq /\ seq < Chunks

Fits(seq) == ExpectedSeq(seq) /\ Len(R.pendingChunkQueue) < RECV_PENDING_HARD_CAP

\* dispatchChunkFrame
HandleChunk ==
  /\ Takes("receiver", "chunk")
  /\ LET m == Head(net["receiver"])
         seen == [R EXCEPT !.nextExpectedSeq = @ + 1,
                           !.stallTimer = IF m.seq = 0 THEN FALSE ELSE @]
     IN \/ ~Receiving(m.tid) /\ UNCHANGED R /\ Silent
        \/ Receiving(m.tid) /\ ~Fits(m.seq) /\ R' = Finished /\ Answers("receiver", Msg("cancel", m.tid))
        \/ /\ Receiving(m.tid) /\ Fits(m.seq) /\ Silent
           /\ R' = IF R.receiveCredit > 0 THEN PostChunk(seen, m.seq)
                   ELSE [seen EXCEPT !.pendingChunkQueue = Append(@, m.seq)]
  /\ UNCHANGED <<sender, accept, cleaning, stored, offered, faults>>

\* dispatchChunkFrame, and postMessage throws: integrityFailureAbort.
ChunkPostFails ==
  /\ Takes("receiver", "chunk")
  /\ LET m == Head(net["receiver"])
     IN /\ Receiving(m.tid) /\ Fits(m.seq) /\ R.receiveCredit > 0 /\ Fault("post")
        /\ R' = Finished /\ Answers("receiver", Msg("cancel", m.tid))
  /\ UNCHANGED <<sender, accept, cleaning, stored, offered>>

\* Faulty variant: what the worker has not written yet is forgotten.
FinalizeEarly(r) ==
  IF r.finalize = "no" /\ r.hash /\ r.pendingChunkQueue = <<>>
  THEN [r EXCEPT !.finalize = "requested"] ELSE r

\* maybeFinalize
MaybeFinalize(r) ==
  IF r.finalize = "no" /\ r.hash /\ r.pendingChunkQueue = <<>> /\ r.bytesWritten >= Chunks
  THEN [r EXCEPT !.finalize = "requested"] ELSE r

\* dispatchComplete: a file_complete that comes before its last chunk is
\* answered with a cancel.
HandleComplete ==
  /\ Takes("receiver", "complete")
  /\ LET t == Head(net["receiver"]).tid
         short == Receiving(t) /\ R.nextExpectedSeq < Chunks
     IN /\ R' = IF short THEN Finished
                ELSE IF Receiving(t) THEN MaybeFinalize([R EXCEPT !.hash = TRUE])
                ELSE R
        /\ out' = IF short THEN [out EXCEPT !["receiver"] = Append(@, Msg("cancel", t))] ELSE out
  /\ UNCHANGED <<sender, accept, cleaning, stored, offered, faults>>

\* Faulty variant: only an offer can be withdrawn.
WithdrawnOffer(t) == R.tid = t /\ R.phase = "offer-pending"

\* dispatchCancel's test.
Withdrawn(t) == R.tid = t

\* dispatchCancel
HandleCancel ==
  /\ Takes("receiver", "cancel") /\ Silent
  /\ R' = IF Withdrawn(Head(net["receiver"]).tid) THEN Finished ELSE R
  /\ UNCHANGED <<sender, accept, cleaning, stored, offered, faults>>

\* The worker's next message is a chunk, and it is not shut down yet.
Works == R.phase = "receiving" /\ R.inbox # <<>> /\ Head(R.inbox) # Abort

\* The worker has written it: handleWorkerWritten's first lines.
Written == [R EXCEPT !.inbox = Tail(@), !.file = Append(@, Head(R.inbox)),
                     !.bytesWritten = @ + 1, !.receiveCredit = @ + 1]

\* The worker has written a chunk; handleWorkerWritten passes it the next.
WorkerWrites ==
  /\ Works
  /\ LET p == IF R.pendingChunkQueue = <<>> THEN Written
              ELSE PostChunk([Written EXCEPT !.pendingChunkQueue = Tail(@)],
                             Head(R.pendingChunkQueue))
     IN R' = MaybeFinalize(p)
  /\ UNCHANGED <<sender, accept, cleaning, stored, wire, offered, faults>>

\* The same, and postMessage throws.  integrityFailureAbort tells the sender,
\* shuts the worker down and ends the transfer; then handleWorkerWritten goes
\* on with the state it has in hand, and notifyReceiveProgress makes it the
\* receiver's again.
NextPostFails ==
  /\ Works /\ R.pendingChunkQueue # <<>> /\ Fault("post")
  /\ Enqueue("receiver", Msg("cancel", R.tid))
  /\ R' = MaybeFinalize([Written EXCEPT !.pendingChunkQueue = Tail(@),
                                        !.inbox = Append(@, Abort), !.stallTimer = FALSE])
  /\ UNCHANGED <<sender, accept, cleaning, stored, offered>>

\* The disk refuses a write: the worker reports it and the transfer is aborted.
WriteFails ==
  /\ Works /\ Fault("disk")
  /\ Enqueue("receiver", Msg("cancel", R.tid))
  /\ R' = Finished
  /\ UNCHANGED <<sender, accept, cleaning, stored, offered>>

WholeFile == [i \in 1..Chunks |-> i - 1]

\* Faulty variant: the file is taken as it is when file_complete comes.
DoneAtComplete ==
  /\ R.phase = "receiving" /\ R.hash
  /\ stored' = [stored EXCEPT ![R.tid] = R.file]
  /\ Enqueue("receiver", Msg("complete_ack", R.tid))
  /\ R' = Finished
  /\ UNCHANGED <<sender, accept, cleaning, offered, faults>>

\* handleWorkerDone: hash and sizes are right.
WorkerDone ==
  /\ R.phase = "receiving" /\ R.finalize = "requested" /\ R.inbox = <<>>
  /\ R.file = WholeFile
  /\ stored' = [stored EXCEPT ![R.tid] = R.file]
  /\ Enqueue("receiver", Msg("complete_ack", R.tid))
  /\ R' = Finished
  /\ UNCHANGED <<sender, accept, cleaning, offered, faults>>

\* handleWorkerDone: they are not (the disk gave less than it took).
WorkerDoneBadly ==
  /\ R.phase = "receiving" /\ R.finalize = "requested" /\ R.inbox = <<>> /\ Fault("disk")
  /\ Enqueue("receiver", Msg("cancel", R.tid))
  /\ cleaning' = cleaning \cup {R.tid}
  /\ R' = [R EXCEPT !.finalize = "over"]
  /\ UNCHANGED <<sender, accept, stored, offered>>

\* cleanupOpfs has returned: finishTransfer, whatever has come since.
CleanedUp(t) ==
  /\ t \in cleaning
  /\ cleaning' = cleaning \ {t}
  /\ R' = Finished
  /\ UNCHANGED <<sender, accept, stored, wire, offered, faults>>

\* shutdownWorker ends a worker that has not answered in WORKER_CLOSED_TIMEOUT_MS.
WorkerKilled ==
  /\ R.phase = "receiving" /\ R.finalize = "requested" /\ Fault("kill")
  /\ R' = [R EXCEPT !.finalize = "over"]
  /\ UNCHANGED <<sender, accept, cleaning, stored, wire, offered>>

-----------------------------------------------------------------------------
(* Sockets                                                                 *)

\* The sender's onWsClose
CloseS == IF S.phase \in {"sending", "verifying"} THEN Reset ELSE S

\* The receiver's onWsClose
CloseR == IF R.phase = "receiving" THEN Finished ELSE R

\* The socket of end e closes; of the frames under way only the first few have
\* come through.  Its peer keeps its socket, and its transfer.
Drop(e) ==
  /\ link = "up" /\ Fault("drop")
  /\ link' = e
  /\ \E a \in 0..Len(net["sender"]), b \in 0..Len(net["receiver"]) :
       net' = [net EXCEPT !["sender"] = SubSeq(@, 1, a), !["receiver"] = SubSeq(@, 1, b)]
  /\ S' = IF e = "sender" THEN CloseS ELSE S
  /\ R' = IF e = "receiver" THEN CloseR ELSE R
  /\ UNCHANGED <<loop, kept, accept, cleaning, stored, out, offered>>

\* The end is back and the session resumed, long after its chain has found the
\* old socket closed.
Reconnect ==
  /\ link # "up" /\ out[link] = <<>> /\ link' = "up"
  /\ UNCHANGED <<sender, receiver, out, net, offered, faults>>

-----------------------------------------------------------------------------
SenderSteps ==
  \/ (\E sent \in BOOLEAN : TransmitS(sent)) \/ HandleAccept \/ HandleCompleteAck \/ HandleRefusal
  \/ WorkerReady \/ WorkerReads \/ WorkerFinal
  \/ \E t \in Tid : LoopSends(t) \/ LoopDrains(t) \/ LoopEnds(t)

ReceiverSteps ==
  \/ (\E sent \in BOOLEAN : TransmitR(sent)) \/ HandleOffer \/ HandleChunk \/ HandleComplete \/ HandleCancel
  \/ AcceptReady \/ WorkerWrites \/ WorkerDone \/ \E t \in Tid : CleanedUp(t)

Users == StartTransfer \/ CancelS \/ AcceptOffer \/ DeclineOffer \/ CancelR

Next ==
  \/ SenderSteps \/ ReceiverSteps \/ Users
  \/ OfferedTimeout \/ VerifyingTimeout \/ OfferPendingTimeout \/ StallTimeout
  \/ WorkerFatal \/ AcceptFails \/ ChunkPostFails \/ NextPostFails \/ WriteFails \/ WorkerDoneBadly \/ WorkerKilled
  \/ Reconnect \/ \E e \in End : Drop(e)

\* Promises settle, frames arrive, workers work and timers fire.  A lost socket is
\* replaced and a full one drains, however often the user tries to accept an offer
\* meanwhile.  Nothing is assumed of users.
Fairness ==
  /\ WF_vars(SenderSteps) /\ WF_vars(ReceiverSteps)
  /\ SF_vars(Reconnect) /\ SF_vars(TransmitR(TRUE))
  /\ WF_vars(OfferedTimeout) /\ WF_vars(VerifyingTimeout)
  /\ WF_vars(OfferPendingTimeout) /\ WF_vars(StallTimeout)

Spec == Init /\ [][Next]_vars /\ Fairness

-----------------------------------------------------------------------------
(* Properties                                                              *)

\* When the receiver asks its worker to finish, every chunk has been written,
\* once and in order, whatever waited for credit on the way: the hash can only
\* be wrong if the disk was.
FinalizeIsComplete ==
  R.finalize # "no" => R.file = WholeFile /\ R.inbox = <<>> /\ R.pendingChunkQueue = <<>>

\* A file the receiver offers for download is the whole file, and a sender that
\* was told of its success was told the truth.
StoredIsWhole ==
  \A t \in Tid : /\ stored[t] \in {<<>>, WholeFile}
                 /\ kept[t] = "acked" => stored[t] = WholeFile

\* Flow control at both ends.  The receiver's, as long as every post to its
\* worker succeeds: what the worker may still be given and what it has been given
\* make the initial credit, chunks wait only when there is none, and no more of
\* them than the cap.  The sender's: chunks that are read and not yet sent never
\* exceed the initial credit, and until the file is read none of it is lost.
ChunksInHand == Len(S.queue) + (IF S.tid # 0 /\ loop[S.tid] = "chunk" THEN 1 ELSE 0)
CreditExact ==
  /\ R.phase = "receiving" /\ (\A i \in DOMAIN R.inbox : R.inbox[i] # Abort) =>
       /\ R.receiveCredit + Len(R.inbox) = RECV_INITIAL_CREDIT
       /\ R.pendingChunkQueue # <<>> => R.receiveCredit = 0
       /\ Len(R.pendingChunkQueue) <= RECV_PENDING_HARD_CAP
  /\ S.worker = "running" =>
       /\ S.credit + ChunksInHand <= INITIAL_CREDIT
       /\ ~S.final => S.credit + ChunksInHand = INITIAL_CREDIT

\* A transfer that is being sent has its own loop running, whatever loops of
\* earlier transfers did to the flag they share; no other loop is awaited twice.
SendingHasLoop == S.phase = "sending" => loop[S.tid] # "none"

\* Every transfer ends at the sender; and at the receiver, save one whose first
\* chunk has come.  That one may be left when a socket was lost or a frame skipped
\* (a sender whose chunk cannot be sent sends no file_cancel, and the stall timer
\* asks only for the first chunk), when the worker was killed before it could
\* answer, or when a post to it failed.
LeftBehind == /\ R.phase = "receiving" /\ R.nextExpectedSeq > 0
              /\ faults \cap {"drop", "backpressure", "kill", "post"} # {}
TransfersEnd ==
  \A t \in Tid : []<>(S.tid # t) /\ []<>(R.tid # t \/ LeftBehind)
=============================================================================
