-------------------------- MODULE FileTransferProofs --------------------------
(***************************************************************************)
(* Proofs about FileTransfer: whatever timeouts, cancels, lost sockets and *)
(* failing workers do, flow control never creates or loses a credit, a     *)
(* transfer that is being sent has its loop, and the receiver finishes     *)
(* only a file that is whole.                                              *)
(***************************************************************************)
EXTENDS FileTransfer, TLAPS

USE FileAssumption, CreditAssumption, BoundAssumption, FaultAssumption

-----------------------------------------------------------------------------
(* The inductive invariant: the sender                                     *)

\* What the sender's locals are in each phase of transferActive.
SenderShape ==
  /\ S.phase = "null" <=> S.tid = 0
  /\ S.tid <= offered
  /\ S.phase \in {"null", "offered"} =>
       S.queue = <<>> /\ S.final = FALSE /\ S.next = 0 /\ S.sendLoopRunning = FALSE
  /\ S.phase = "offered" => loop[S.tid] = "none"
  /\ S.phase = "sending" <=> S.worker = "running"
  /\ S.worker = "starting" => S.phase = "offered" /\ S.credit = INITIAL_CREDIT

\* A file that was not offered has no loop.
NewLoops == \A t \in Tid : t > offered => loop[t] = "none"

\* A loop awaits a chunk exactly while the chain has it, and it has one of each
\* transfer at most.
IsChunk(m, t) == m.kind = "chunk" /\ m.tid = t
Awaits(l, q) ==
  \A t \in Tid :
    /\ l[t] = "chunk" <=> \E i \in 1..Len(q) : IsChunk(q[i], t)
    /\ \A i, j \in 1..Len(q) : IsChunk(q[i], t) /\ IsChunk(q[j], t) => i = j

\* The sender's half of CreditExact.
SenderCredit ==
  S.worker = "running" =>
    /\ S.credit + ChunksInHand <= INITIAL_CREDIT
    /\ S.final = FALSE => S.credit + ChunksInHand = INITIAL_CREDIT

SenderTypes ==
  /\ S \in TransferState /\ loop \in [Tid -> {"none", "idle", "chunk"}]
  /\ offered \in 0..MaxTransfers

SenderInv ==
  /\ SenderTypes /\ SenderShape /\ NewLoops /\ SenderCredit /\ SendingHasLoop
  /\ Awaits(loop, out["sender"])

-----------------------------------------------------------------------------
(* The inductive invariant: the receiver                                   *)

\* The file, what the worker has been given and what waits for credit are the
\* chunks seen so far, once each and in order; with the receiver's half of
\* CreditExact.
Run(s, from) == \A i \in 1..Len(s) : s[i] = from + i - 1
Flow(file, inbox, pending, written, next, credit) ==
  /\ Run(file, 0) /\ Run(inbox, Len(file)) /\ Run(pending, Len(file) + Len(inbox))
  /\ written = Len(file)
  /\ next = Len(file) + Len(inbox) + Len(pending)
  /\ credit + Len(inbox) = RECV_INITIAL_CREDIT
  /\ pending # <<>> => credit = 0
  /\ Len(pending) <= RECV_PENDING_HARD_CAP
Live(r) ==
  /\ r.inbox \in Seq(Seqno)
  /\ Flow(r.file, r.inbox, r.pendingChunkQueue, r.bytesWritten, r.nextExpectedSeq, r.receiveCredit)

\* Once a post has failed the worker will read an abort, before the file is whole.
Cut(inbox, written, credit) ==
  \E k \in 1..Len(inbox) : /\ inbox[k] = Abort
                           /\ written + k <= Chunks /\ credit + k <= RECV_INITIAL_CREDIT + 1

\* Nothing is received before the offer is accepted.
Blank(r) ==
  /\ r.nextExpectedSeq = 0 /\ r.bytesWritten = 0 /\ r.finalize = "no"
  /\ r.pendingChunkQueue = <<>> /\ r.inbox = <<>> /\ r.file = <<>>

Sound(r) ==
  /\ r \in IncomingState
  /\ r.phase = "null" <=> r.tid = 0
  /\ r.phase # "receiving" => Blank(r)
  /\ r.phase = "receiving" =>
       \/ Live(r)
       \/ r.finalize = "no" /\ Cut(r.inbox, r.bytesWritten, r.receiveCredit)
  /\ r.finalize # "no" => r.bytesWritten = Chunks /\ r.pendingChunkQueue = <<>>

ReceiverInv == Sound(R)

-----------------------------------------------------------------------------
(* The inductive invariant: frames and files                               *)

WireTypes ==
  /\ out \in [End -> Seq(Frame)] /\ net \in [End -> Seq(Frame)]
  /\ link \in End \cup {"up"}

RestTypes ==
  /\ accept \in [await : {"none", "worker", "send"}, tid : Tid \cup {0}]
  /\ cleaning \subseteq Tid
  /\ kept \in [Tid -> {"no", "acked", "assumed"}]
  /\ stored \in [Tid -> Seq(Seqno)]
  /\ faults \subseteq Faults

\* A complete_ack on its way is of a file that is stored whole.
Acks(st, q) == \A i \in 1..Len(q) : q[i].kind = "complete_ack" => st[q[i].tid] = WholeFile
AcksTrue == Acks(stored, out["receiver"]) /\ Acks(stored, net["sender"])

Frames == WireTypes /\ AcksTrue
IInv == SenderInv /\ ReceiverInv /\ Frames /\ RestTypes /\ StoredIsWhole

-----------------------------------------------------------------------------
(* The sender's chain                                                      *)

LEMMA AwaitsAppendOther ==
  ASSUME NEW l, NEW q \in Seq(Frame), NEW m \in Frame, m.kind # "chunk", Awaits(l, q)
  PROVE  Awaits(l, Append(q, m))
<1> DEFINE n == Append(q, m)
<1>1. /\ Len(n) = Len(q) + 1 /\ n[Len(q) + 1] = m /\ Len(q) \in Nat
      /\ \A i \in 1..Len(q) : n[i] = q[i]
  OBVIOUS
<1> HIDE DEF n
<1>2. \A t \in Tid, i \in 1..Len(n) : IsChunk(n[i], t) => i \in 1..Len(q) /\ IsChunk(q[i], t)
  BY <1>1 DEF IsChunk
<1>3. \A t \in Tid, i \in 1..Len(q) : IsChunk(q[i], t) => i \in 1..Len(n) /\ IsChunk(n[i], t)
  BY <1>1
<1>4. Awaits(l, n)
  <2> SUFFICES ASSUME NEW t \in Tid
               PROVE  /\ l[t] = "chunk" <=> \E i \in 1..Len(n) : IsChunk(n[i], t)
                      /\ \A i, j \in 1..Len(n) : IsChunk(n[i], t) /\ IsChunk(n[j], t) => i = j
    BY DEF Awaits
  <2>1. (\E i \in 1..Len(n) : IsChunk(n[i], t)) <=> \E i \in 1..Len(q) : IsChunk(q[i], t)
    BY <1>2, <1>3
  <2>2. \A i, j \in 1..Len(n) : IsChunk(n[i], t) /\ IsChunk(n[j], t) => i = j
    BY <1>2 DEF Awaits
  <2>3. QED
    BY <2>1, <2>2 DEF Awaits
<1>5. QED
  BY <1>4 DEF n

LEMMA AwaitsAppendChunk ==
  ASSUME NEW l \in [Tid -> {"none", "idle", "chunk"}], NEW q \in Seq(Frame), NEW m \in Frame,
         NEW t \in Tid, IsChunk(m, t), l[t] # "chunk", Awaits(l, q)
  PROVE  Awaits([l EXCEPT ![t] = "chunk"], Append(q, m))
<1> DEFINE n == Append(q, m)
           k == [l EXCEPT ![t] = "chunk"]
<1>1. /\ Len(n) = Len(q) + 1 /\ n[Len(q) + 1] = m /\ Len(q) \in Nat
      /\ \A i \in 1..Len(q) : n[i] = q[i]
  OBVIOUS
<1>2. k[t] = "chunk" /\ \A u \in Tid : u # t => k[u] = l[u]
  OBVIOUS
<1> HIDE DEF n, k
<1>3. \A u \in Tid, i \in 1..Len(q) : IsChunk(n[i], u) <=> IsChunk(q[i], u)
  BY <1>1
<1>4. \A i \in 1..Len(q) : ~IsChunk(q[i], t)
  BY DEF Awaits
<1>5. \A u \in Tid : IsChunk(n[Len(q) + 1], u) <=> u = t
  BY <1>1 DEF IsChunk
<1>6. \A i \in 1..Len(n) : i \in 1..Len(q) \/ i = Len(q) + 1
  BY <1>1
<1>7. ASSUME NEW u \in Tid
      PROVE  /\ k[u] = "chunk" <=> \E i \in 1..Len(n) : IsChunk(n[i], u)
             /\ \A i, j \in 1..Len(n) : IsChunk(n[i], u) /\ IsChunk(n[j], u) => i = j
  <2>1. CASE u = t
    <3>1. \A i \in 1..Len(n) : IsChunk(n[i], t) => i = Len(q) + 1
      BY <1>3, <1>4, <1>6
    <3>2. Len(q) + 1 \in 1..Len(n) /\ IsChunk(n[Len(q) + 1], t)
      BY <1>1, <1>5
    <3>3. QED
      BY <1>2, <2>1, <3>1, <3>2
  <2>2. CASE u # t
    <3>1. \A i \in 1..Len(n) : IsChunk(n[i], u) => i \in 1..Len(q) /\ IsChunk(q[i], u)
      BY <1>3, <1>5, <1>6, <2>2
    <3>2. \A i \in 1..Len(q) : IsChunk(q[i], u) => i \in 1..Len(n) /\ IsChunk(n[i], u)
      BY <1>1, <1>3
    <3>3. (\E i \in 1..Len(n) : IsChunk(n[i], u)) <=> \E i \in 1..Len(q) : IsChunk(q[i], u)
      BY <3>1, <3>2
    <3>4. \A i, j \in 1..Len(n) : IsChunk(n[i], u) /\ IsChunk(n[j], u) => i = j
      BY <3>1 DEF Awaits
    <3>5. QED
      BY <1>2, <2>2, <3>3, <3>4 DEF Awaits
  <2>3. QED
    BY <2>1, <2>2
<1>8. Awaits(k, n)
  BY <1>7 DEF Awaits
<1>9. QED
  BY <1>8 DEF n, k

\* The first frame leaves the chain; the loop that awaits it, if any, goes on.
LEMMA AwaitsTail ==
  ASSUME NEW l \in [Tid -> {"none", "idle", "chunk"}], NEW q \in Seq(Frame), q # <<>>,
         Awaits(l, q)
  PROVE  /\ Head(q).kind # "chunk" => Awaits(l, Tail(q))
         /\ Head(q).kind = "chunk" =>
              /\ l[Head(q).tid] = "chunk"
              /\ \A v \in {"none", "idle"} : Awaits([l EXCEPT ![Head(q).tid] = v], Tail(q))
<1> DEFINE n == Tail(q)
           m == Head(q)
<1>1. /\ Len(q) \in Nat \ {0} /\ Len(n) = Len(q) - 1 /\ q[1] = m /\ m \in Frame
      /\ \A i \in 1..Len(n) : n[i] = q[i + 1]
  OBVIOUS
<1> HIDE DEF n, m
<1>2. m.tid \in Tid
  BY <1>1 DEF Frame
<1>3. \A u \in Tid, i \in 1..Len(n) : IsChunk(n[i], u) => i + 1 \in 1..Len(q) /\ IsChunk(q[i + 1], u)
  BY <1>1
<1>4. \A u \in Tid, i \in 1..Len(q) : i # 1 /\ IsChunk(q[i], u) => i - 1 \in 1..Len(n) /\ IsChunk(n[i - 1], u)
  BY <1>1
<1>5. \A u \in Tid, i, j \in 1..Len(n) : IsChunk(n[i], u) /\ IsChunk(n[j], u) => i = j
  <2> SUFFICES ASSUME NEW u \in Tid, NEW i \in 1..Len(n), NEW j \in 1..Len(n),
                      IsChunk(n[i], u), IsChunk(n[j], u)
               PROVE  i = j
    OBVIOUS
  <2>1. i + 1 = j + 1
    BY <1>3 DEF Awaits
  <2>2. QED
    BY <2>1
<1>6. ASSUME NEW u \in Tid, ~IsChunk(m, u)
      PROVE  l[u] = "chunk" <=> \E i \in 1..Len(n) : IsChunk(n[i], u)
  <2>1. (\E i \in 1..Len(n) : IsChunk(n[i], u)) => \E i \in 1..Len(q) : IsChunk(q[i], u)
    BY <1>3
  <2>2. (\E i \in 1..Len(q) : IsChunk(q[i], u)) => \E i \in 1..Len(n) : IsChunk(n[i], u)
    BY <1>1, <1>4, <1>6
  <2>3. QED
    BY <2>1, <2>2 DEF Awaits
<1>7. m.kind # "chunk" => Awaits(l, n)
  <2> SUFFICES ASSUME m.kind # "chunk" PROVE Awaits(l, n)
    OBVIOUS
  <2>1. \A u \in Tid : ~IsChunk(m, u)
    BY DEF IsChunk
  <2>2. QED
    BY <1>5, <1>6, <2>1 DEF Awaits
<1>8. ASSUME m.kind = "chunk"
      PROVE  /\ l[m.tid] = "chunk"
             /\ \A v \in {"none", "idle"} : Awaits([l EXCEPT ![m.tid] = v], n)
  <2>1. IsChunk(q[1], m.tid) /\ 1 \in 1..Len(q)
    BY <1>1, <1>8 DEF IsChunk
  <2>2. l[m.tid] = "chunk"
    BY <1>2, <2>1 DEF Awaits
  <2>3. ASSUME NEW v \in {"none", "idle"} PROVE Awaits([l EXCEPT ![m.tid] = v], n)
    <3> DEFINE k == [l EXCEPT ![m.tid] = v]
    <3>1. k[m.tid] # "chunk" /\ \A u \in Tid : u # m.tid => k[u] = l[u]
      BY <1>2, <2>3
    <3> HIDE DEF k
    <3>2. \A i \in 1..Len(n) : ~IsChunk(n[i], m.tid)
      <4> SUFFICES ASSUME NEW i \in 1..Len(n), IsChunk(n[i], m.tid) PROVE FALSE
        OBVIOUS
      <4>1. i + 1 = 1
        BY <1>2, <1>3, <2>1 DEF Awaits
      <4>2. QED
        BY <4>1
    <3>3. \A u \in Tid : u # m.tid => ~IsChunk(m, u)
      BY DEF IsChunk
    <3>4. \A u \in Tid : k[u] = "chunk" <=> \E i \in 1..Len(n) : IsChunk(n[i], u)
      BY <1>6, <3>1, <3>2, <3>3
    <3>5. Awaits(k, n)
      BY <1>5, <3>4 DEF Awaits
    <3>6. QED
      BY <3>5 DEF k
  <2>4. QED
    BY <2>2, <2>3
<1>9. QED
  BY <1>7, <1>8 DEF n, m

-----------------------------------------------------------------------------
(* The sender                                                              *)

LEMMA MsgIsFrame ==
  ASSUME NEW k \in {"offer", "complete", "cancel", "accept", "decline", "complete_ack"},
         NEW t \in Tid
  PROVE  Msg(k, t) \in Frame /\ Msg(k, t).kind = k /\ Msg(k, t).tid = t
BY DEF Msg, Frame, Seqno

LEMMA NullTyped == NoTransfer \in TransferState
BY DEF NoTransfer, TransferState

LEMMA OneOrNone ==
  ASSUME NEW n \in Nat, NEW c
  PROVE  (c => n + (IF c THEN 1 ELSE 0) = n + 1) /\ (~c => n + (IF c THEN 1 ELSE 0) = n)
OBVIOUS

\* What the transfer's loop awaits counts as one chunk.
Hand(s, l) == Len(s.queue) + (IF s.tid # 0 /\ l[s.tid] = "chunk" THEN 1 ELSE 0)

LEMMA HandCases ==
  ASSUME NEW s \in TransferState, NEW l
  PROVE  /\ Len(s.queue) \in Nat /\ s.credit \in Nat /\ s.credit <= INITIAL_CREDIT
         /\ s.tid # 0 /\ l[s.tid] = "chunk" => Hand(s, l) = Len(s.queue) + 1
         /\ s.tid = 0 \/ l[s.tid] # "chunk" => Hand(s, l) = Len(s.queue)
<1>1. s.queue \in Seq(Seqno) /\ s.credit \in 0..INITIAL_CREDIT
  BY DEF TransferState
<1>2. Len(s.queue) \in Nat
  BY <1>1
<1> DEFINE c == s.tid # 0 /\ l[s.tid] = "chunk"
<1>3. Hand(s, l) = Len(s.queue) + (IF c THEN 1 ELSE 0)
  BY DEF Hand
<1>4. (c => Hand(s, l) = Len(s.queue) + 1) /\ (~c => Hand(s, l) = Len(s.queue))
  <2> HIDE DEF c
  <2> QED
    BY <1>2, <1>3, OneOrNone
<1>5. QED
  BY <1>1, <1>2, <1>4

LEMMA InHand ==
  ChunksInHand = Hand(S, loop) /\ ChunksInHand' = Hand(S', loop')
BY DEF ChunksInHand, Hand

\* Types of the transfers that the sender's steps make.
LEMMA TransferTyped ==
  ASSUME NEW s \in TransferState
  PROVE  /\ \A t \in Tid : [s EXCEPT !.phase = "offered", !.tid = t] \in TransferState
         /\ [s EXCEPT !.worker = "starting", !.credit = INITIAL_CREDIT] \in TransferState
         /\ [s EXCEPT !.phase = "sending", !.worker = "running", !.sendLoopRunning = TRUE]
              \in TransferState
         /\ [s EXCEPT !.final = TRUE] \in TransferState
         /\ [s EXCEPT !.sendLoopRunning = FALSE] \in TransferState
         /\ [s EXCEPT !.phase = "verifying", !.worker = "none", !.final = FALSE,
                      !.sendLoopRunning = FALSE] \in TransferState
         /\ \A c \in 0..INITIAL_CREDIT : [s EXCEPT !.credit = c] \in TransferState
<1>1. /\ \A t \in Tid : [s EXCEPT !.phase = "offered", !.tid = t] \in TransferState
      /\ \A c \in 0..INITIAL_CREDIT : [s EXCEPT !.credit = c] \in TransferState
  BY DEF TransferState
<1>2. [s EXCEPT !.worker = "starting", !.credit = INITIAL_CREDIT] \in TransferState
  <2>1. \A c \in 0..INITIAL_CREDIT : [s EXCEPT !.worker = "starting", !.credit = c] \in TransferState
    BY DEF TransferState
  <2>2. INITIAL_CREDIT \in 0..INITIAL_CREDIT
    OBVIOUS
  <2>3. QED
    BY <2>1, <2>2
<1>3. ASSUME NEW b \in BOOLEAN, NEW c \in BOOLEAN
      PROVE  /\ [s EXCEPT !.phase = "sending", !.worker = "running", !.sendLoopRunning = b]
                  \in TransferState
             /\ [s EXCEPT !.final = b] \in TransferState
             /\ [s EXCEPT !.sendLoopRunning = b] \in TransferState
             /\ [s EXCEPT !.phase = "verifying", !.worker = "none", !.final = b,
                          !.sendLoopRunning = c] \in TransferState
  BY <1>3 DEF TransferState
<1>4. QED
  BY <1>1, <1>2, <1>3

\* Whatever ends a transfer leaves nothing of it to the next.
LEMMA SenderReset ==
  ASSUME SenderInv, S' = NoTransfer, offered' = offered,
         loop' \in [Tid -> {"none", "idle", "chunk"}], NewLoops', Awaits(loop', out'["sender"])
  PROVE  SenderInv'
<1>1. SenderTypes'
  BY NullTyped DEF SenderInv, SenderTypes
<1>2. SenderShape'
  BY DEF SenderInv, SenderTypes, SenderShape, NoTransfer
<1>3. SenderCredit' /\ SendingHasLoop'
  BY DEF SenderCredit, SendingHasLoop, NoTransfer
<1>4. QED
  BY <1>1, <1>2, <1>3 DEF SenderInv

\* What the sender's steps have in common when loops and chain stay.
LEMMA SenderQuiet ==
  ASSUME SenderInv, UNCHANGED <<S, loop, offered>>, out'["sender"] = out["sender"]
  PROVE  SenderInv'
BY DEF SenderInv, SenderTypes, SenderShape, NewLoops, SenderCredit, ChunksInHand, SendingHasLoop

LEMMA StartTransferS ==
  ASSUME SenderInv, WireTypes, StartTransfer
  PROVE  SenderInv'
<1> DEFINE t == offered + 1
<1>1. t \in Tid
  BY DEF StartTransfer, SenderInv, SenderTypes, Tid
<1>2. S' = [S EXCEPT !.phase = "offered", !.tid = t] /\ offered' = t /\ loop' = loop
  BY DEF StartTransfer
<1>3. Awaits(loop', out'["sender"])
  <2>1. out'["sender"] = Append(out["sender"], Msg("offer", t))
    BY DEF StartTransfer, Enqueue, WireTypes, End
  <2>2. QED
    BY <1>1, <1>2, <2>1, MsgIsFrame, AwaitsAppendOther DEF SenderInv, WireTypes, End
<1>4. loop[t] = "none"
  BY <1>1 DEF SenderInv, SenderTypes, NewLoops
<1>5. SenderTypes'
  <2>1. S' \in TransferState
    BY <1>1, <1>2, TransferTyped DEF SenderInv, SenderTypes
  <2>2. QED
    BY <1>1, <1>2, <2>1 DEF SenderInv, SenderTypes, Tid
<1>6. S.phase = "null"
  BY DEF StartTransfer
<1>7. SenderShape'
  BY <1>1, <1>2, <1>4, <1>6 DEF SenderInv, SenderTypes, SenderShape, TransferState, Tid
<1>8. NewLoops'
  BY <1>2 DEF SenderInv, SenderTypes, NewLoops, Tid
<1>9. SenderCredit' /\ SendingHasLoop'
  BY <1>2, <1>6 DEF SenderInv, SenderTypes, SenderShape, SenderCredit, SendingHasLoop, TransferState
<1>10. QED
  BY <1>3, <1>5, <1>7, <1>8, <1>9 DEF SenderInv

LEMMA TransmitSS ==
  ASSUME SenderInv, WireTypes, NEW sent \in BOOLEAN, TransmitS(sent)
  PROVE  SenderInv'
<1> DEFINE q == out["sender"]
           m == Head(q)
<1>1. q \in Seq(Frame) /\ q # <<>> /\ m \in Frame
  BY DEF TransmitS, Transmits, WireTypes, End
<1>2. out'["sender"] = Tail(q) /\ offered' = offered
  BY DEF TransmitS, Transmits, WireTypes, End
<1>3. m.tid \in Tid
  BY <1>1 DEF Frame
<1>4. loop \in [Tid -> {"none", "idle", "chunk"}] /\ Awaits(loop, q)
  BY DEF SenderInv, SenderTypes
<1>5. /\ m.kind # "chunk" => Awaits(loop, Tail(q))
      /\ m.kind = "chunk" =>
           /\ loop[m.tid] = "chunk"
           /\ \A v \in {"none", "idle"} : Awaits([loop EXCEPT ![m.tid] = v], Tail(q))
  BY <1>1, <1>4, AwaitsTail
<1>6. CASE m.kind # "chunk"
  <2>1. loop' = loop /\ (S' = NoTransfer \/ S' = S)
    BY <1>6 DEF TransmitS, Reset
  <2>2. Awaits(loop', out'["sender"])
    BY <1>2, <1>5, <1>6, <2>1
  <2>3. CASE S' = NoTransfer
    BY <1>2, <1>4, <2>1, <2>2, <2>3, SenderReset DEF SenderInv, NewLoops
  <2>4. CASE S' = S
    BY <1>2, <2>1, <2>2, <2>4
       DEF SenderInv, SenderTypes, SenderShape, NewLoops, SenderCredit, ChunksInHand, SendingHasLoop
  <2>5. QED
    BY <2>1, <2>3, <2>4
<1>7. CASE m.kind = "chunk"
  <2>1. loop[m.tid] = "chunk"
    BY <1>5, <1>7
  <2>2. \A v \in {"none", "idle"} : loop' = [loop EXCEPT ![m.tid] = v] =>
          NewLoops' /\ Awaits(loop', out'["sender"]) /\ loop' \in [Tid -> {"none", "idle", "chunk"}]
    BY <1>2, <1>3, <1>4, <1>5, <1>7, <2>1 DEF SenderInv, NewLoops
  <2>3. CASE ~sent
    BY <1>2, <1>7, <2>2, <2>3, SenderReset DEF TransmitS, Reset
  <2>4. CASE sent
    <3>1. S' = PullNextChunk(m.tid) /\ loop' = [loop EXCEPT ![m.tid] = "idle"]
      BY <1>7, <2>4 DEF TransmitS
    <3>2. S.tid = m.tid => S.worker # "starting" /\ S.phase # "offered"
      BY <2>1 DEF SenderInv, SenderShape
    <3>3. CASE S.tid = m.tid /\ S.worker # "none" /\ S.final = FALSE
      <4>1. S.worker = "running" /\ S.phase = "sending"
        BY <3>2, <3>3 DEF SenderInv, SenderShape, SenderTypes, TransferState
      <4>2. S' = [S EXCEPT !.credit = @ + 1]
        BY <3>1, <3>3 DEF PullNextChunk
      <4>3. S.credit + Len(S.queue) + 1 = INITIAL_CREDIT /\ S.credit \in Nat /\ Len(S.queue) \in Nat
        <5>1. S.tid # 0 /\ S.credit + ChunksInHand = INITIAL_CREDIT
          BY <1>3, <3>3, <4>1 DEF SenderInv, SenderCredit, Tid
        <5>2. S \in TransferState /\ loop[S.tid] = "chunk"
          BY <2>1, <3>3 DEF SenderInv, SenderTypes
        <5>3. Hand(S, loop) = Len(S.queue) + 1 /\ Len(S.queue) \in Nat /\ S.credit \in Nat
          BY <5>1, <5>2, HandCases
        <5>4. S.credit + Hand(S, loop) = INITIAL_CREDIT
          BY <5>1, InHand
        <5>5. QED
          BY <5>3, <5>4
      <4>4. S' \in TransferState
        <5>1. S.credit + 1 \in 0..INITIAL_CREDIT /\ S' = [S EXCEPT !.credit = S.credit + 1]
          BY <4>2, <4>3
        <5>2. QED
          BY <5>1, TransferTyped DEF SenderInv, SenderTypes
      <4>5. SenderTypes'
        BY <1>2, <2>2, <3>1, <4>4 DEF SenderInv, SenderTypes
      <4>6. SenderCredit'
        <5>1. loop'[S'.tid] # "chunk" /\ S'.queue = S.queue /\ S'.credit = S.credit + 1
          BY <1>3, <1>4, <3>1, <3>3, <4>2 DEF SenderInv, SenderTypes, TransferState
        <5>2. ChunksInHand' = Len(S.queue)
          BY <4>4, <5>1, InHand, HandCases
        <5>3. QED
          BY <4>3, <5>1, <5>2 DEF SenderCredit
      <4>7. SenderShape' /\ SendingHasLoop'
        BY <1>2, <1>3, <3>1, <3>3, <4>1, <4>2
           DEF SenderShape, SendingHasLoop, SenderInv, SenderTypes, TransferState
      <4>8. QED
        BY <1>2, <2>2, <3>1, <4>4, <4>6, <4>7 DEF SenderInv, SenderTypes
    <3>4. CASE ~(S.tid = m.tid /\ S.worker # "none" /\ S.final = FALSE)
      <4>1. S' = S
        BY <3>1, <3>4 DEF PullNextChunk, SenderInv, SenderTypes, TransferState
      <4>2. SenderShape' /\ SendingHasLoop'
        BY <1>2, <1>3, <1>4, <3>1, <3>2, <4>1
           DEF SenderShape, SendingHasLoop, SenderInv
      <4>3. SenderTypes'
        BY <1>2, <2>2, <3>1, <4>1 DEF SenderInv, SenderTypes
      <4>4. S.tid = m.tid => loop'[S'.tid] # "chunk"
        BY <1>3, <1>4, <3>1, <4>1
      <4>5. SenderCredit'
        <5>1. CASE S.tid = m.tid
          <6>1. S.tid # 0 /\ ChunksInHand = Len(S.queue) + 1 /\ ChunksInHand' = Len(S.queue)
            BY <1>3, <2>1, <4>1, <4>4, <5>1, InHand, HandCases DEF SenderInv, SenderTypes, Tid
          <6>2. ~(S.worker = "running" /\ S.final = FALSE)
            BY <3>4, <5>1
          <6>3. QED
            BY <4>1, <6>1, <6>2, HandCases DEF SenderInv, SenderTypes, SenderCredit
        <5>2. CASE S.tid # m.tid
          <6>1. S.tid # 0 => loop'[S'.tid] = loop[S.tid]
            BY <1>3, <1>4, <3>1, <4>1, <5>2 DEF SenderInv, SenderTypes, TransferState
          <6>2. ChunksInHand' = ChunksInHand
            BY <4>1, <6>1 DEF ChunksInHand
          <6>3. QED
            BY <4>1, <6>2 DEF SenderInv, SenderCredit
        <5>3. QED
          BY <5>1, <5>2
      <4>6. QED
        BY <1>2, <2>2, <3>1, <4>1, <4>2, <4>5 DEF SenderInv, SenderTypes
    <3>5. QED
      BY <3>3, <3>4
  <2>5. QED
    BY <2>3, <2>4
<1>8. QED
  BY <1>6, <1>7

LEMMA HandleAcceptS ==
  ASSUME SenderInv, WireTypes, HandleAccept
  PROVE  SenderInv'
<1>1. UNCHANGED <<loop, offered, out>>
  BY DEF HandleAccept, Silent
<1>2. CASE S' = S
  BY <1>1, <1>2, SenderQuiet
<1>3. CASE S.phase = "offered" /\ S' = [S EXCEPT !.worker = "starting", !.credit = INITIAL_CREDIT]
  <2>1. SenderTypes'
    BY <1>1, <1>3, TransferTyped DEF SenderInv, SenderTypes
  <2>2. SenderShape'
    BY <1>1, <1>3 DEF SenderInv, SenderTypes, SenderShape, TransferState
  <2>3. SenderCredit' /\ SendingHasLoop'
    BY <1>1, <1>3 DEF SenderInv, SenderTypes, SenderCredit, SendingHasLoop, TransferState
  <2>4. QED
    BY <1>1, <2>1, <2>2, <2>3 DEF SenderInv, NewLoops
<1>4. QED
  BY <1>2, <1>3 DEF HandleAccept

LEMMA WorkerReadyS ==
  ASSUME SenderInv, WorkerReady
  PROVE  SenderInv'
<1>1. S.phase = "offered" /\ S.worker = "starting" /\ S.tid # 0 /\ S.tid \in Tid
  BY DEF WorkerReady, SenderInv, SenderShape, SenderTypes, TransferState
<1>2. /\ S.sendLoopRunning = FALSE /\ S.queue = <<>> /\ S.final = FALSE
      /\ S.credit = INITIAL_CREDIT /\ S.tid <= offered /\ loop[S.tid] = "none"
  BY <1>1 DEF SenderInv, SenderShape
<1>3. /\ S' = [S EXCEPT !.phase = "sending", !.worker = "running", !.sendLoopRunning = TRUE]
      /\ loop' = [loop EXCEPT ![S.tid] = "idle"]
      /\ UNCHANGED <<offered, out>>
  BY <1>2 DEF WorkerReady, wire
<1>4. S' \in TransferState
  BY <1>3, TransferTyped DEF SenderInv, SenderTypes
<1>5. loop' \in [Tid -> {"none", "idle", "chunk"}] /\ loop'[S.tid] = "idle"
  BY <1>1, <1>3 DEF SenderInv, SenderTypes
<1>6. /\ S'.phase = "sending" /\ S'.worker = "running" /\ S'.tid = S.tid
      /\ S'.queue = <<>> /\ S'.final = FALSE /\ S'.credit = INITIAL_CREDIT
  BY <1>2, <1>3 DEF SenderInv, SenderTypes, TransferState
<1>7. SenderShape' /\ SendingHasLoop'
  BY <1>1, <1>2, <1>3, <1>5, <1>6 DEF SenderShape, SendingHasLoop, Tid
<1>8. SenderCredit'
  <2>1. Len(S'.queue) = 0
    BY <1>6
  <2>2. ChunksInHand' = 0
    BY <1>4, <1>5, <1>6, <2>1, InHand, HandCases
  <2>3. QED
    BY <1>6, <2>2 DEF SenderCredit
<1>9. NewLoops'
  BY <1>1, <1>2, <1>3 DEF NewLoops, SenderInv, SenderTypes, Tid
<1>10. Awaits(loop', out'["sender"])
  <2>1. \A t \in Tid : loop'[t] = "chunk" <=> loop[t] = "chunk"
    BY <1>1, <1>2, <1>3 DEF SenderInv, SenderTypes
  <2>2. QED
    BY <1>3, <2>1 DEF SenderInv, Awaits
<1>11. QED
  BY <1>3, <1>4, <1>5, <1>7, <1>8, <1>9, <1>10 DEF SenderInv, SenderTypes

LEMMA WorkerReadsS ==
  ASSUME SenderInv, WorkerReads
  PROVE  SenderInv'
<1>1. S.worker = "running" /\ S.next < Chunks /\ S.credit > 0 /\ UNCHANGED <<loop, offered, out>>
  BY DEF WorkerReads, HasCredit, wire
<1>2. S \in TransferState /\ S.next \in 0..Chunks /\ S.credit \in 0..INITIAL_CREDIT
      /\ S.queue \in Seq(Seqno)
  BY DEF SenderInv, SenderTypes, TransferState
<1> DEFINE q == Append(S.queue, S.next)
           n == S.next + 1
           c == S.credit - 1
<1>3. n \in 0..Chunks /\ c \in 0..INITIAL_CREDIT /\ S.next \in Seqno
  BY <1>1, <1>2 DEF Seqno
<1>4. q \in Seq(Seqno) /\ Len(q) = Len(S.queue) + 1 /\ q # <<>>
  BY <1>2, <1>3
<1>5. S' = [S EXCEPT !.queue = q, !.next = n, !.credit = c]
  BY DEF WorkerReads
<1> HIDE DEF q, n, c
<1>6. S' \in TransferState
  BY <1>2, <1>3, <1>4, <1>5 DEF TransferState
<1>7. /\ S'.phase = S.phase /\ S'.tid = S.tid /\ S'.worker = S.worker /\ S'.final = S.final
      /\ S'.queue = q /\ S'.credit = c
  BY <1>2, <1>5 DEF TransferState
<1>8. S.phase = "sending"
  BY <1>1 DEF SenderInv, SenderShape
<1>9. SenderShape' /\ SendingHasLoop'
  BY <1>1, <1>7, <1>8 DEF SenderInv, SenderShape, SendingHasLoop
<1>10. S'.credit + ChunksInHand' = S.credit + ChunksInHand
  <2>1. Hand(S', loop') = Hand(S, loop) + 1
    BY <1>1, <1>2, <1>4, <1>6, <1>7, HandCases
  <2>2. Hand(S, loop) \in Nat
    BY <1>2, HandCases
  <2>3. QED
    BY <1>2, <1>7, <2>1, <2>2, InHand DEF c
<1>11. SenderCredit'
  BY <1>7, <1>10 DEF SenderInv, SenderCredit
<1>12. QED
  BY <1>1, <1>6, <1>9, <1>11 DEF SenderInv, SenderTypes, NewLoops

LEMMA WorkerFinalS ==
  ASSUME SenderInv, WorkerFinal
  PROVE  SenderInv'
<1>1. S.worker = "running" /\ S' = [S EXCEPT !.final = TRUE] /\ UNCHANGED <<loop, offered, out>>
  BY DEF WorkerFinal, wire
<1>2. S' \in TransferState
  BY <1>1, TransferTyped DEF SenderInv, SenderTypes
<1>3. /\ S'.phase = S.phase /\ S'.tid = S.tid /\ S'.worker = S.worker /\ S'.final = TRUE
      /\ S'.queue = S.queue /\ S'.credit = S.credit
  BY <1>1 DEF SenderInv, SenderTypes, TransferState
<1>4. S.phase = "sending"
  BY <1>1 DEF SenderInv, SenderShape
<1>5. SenderShape' /\ SendingHasLoop'
  BY <1>1, <1>3, <1>4 DEF SenderInv, SenderShape, SendingHasLoop
<1>6. ChunksInHand' = ChunksInHand
  BY <1>1, <1>3 DEF ChunksInHand
<1>7. SenderCredit'
  BY <1>3, <1>6 DEF SenderInv, SenderCredit
<1>8. QED
  BY <1>1, <1>2, <1>5, <1>7 DEF SenderInv, SenderTypes, NewLoops

LEMMA LoopSendsS ==
  ASSUME SenderInv, WireTypes, NEW t \in Tid, LoopSends(t)
  PROVE  SenderInv'
<1>1. /\ loop[t] = "idle" /\ S.tid = t /\ S.phase = "sending" /\ S.queue # <<>>
      /\ loop' = [loop EXCEPT ![t] = "chunk"] /\ offered' = offered
  BY DEF LoopSends, isStillSendingFor
<1>2. /\ S \in TransferState /\ S.queue \in Seq(Seqno)
      /\ loop \in [Tid -> {"none", "idle", "chunk"}] /\ Awaits(loop, out["sender"])
  BY DEF SenderInv, SenderTypes, TransferState
<1> DEFINE q == Tail(S.queue)
           m == [kind |-> "chunk", tid |-> t, seq |-> Head(S.queue)]
<1>3. q \in Seq(Seqno) /\ Len(q) = Len(S.queue) - 1 /\ Head(S.queue) \in Seqno
  BY <1>1, <1>2
<1>4. m \in Frame /\ IsChunk(m, t)
  BY <1>3 DEF Frame, IsChunk
<1>5. out'["sender"] = Append(out["sender"], m) /\ S' = [S EXCEPT !.queue = q]
  BY DEF LoopSends, Enqueue, WireTypes, End
<1> HIDE DEF q, m
<1>6. S' \in TransferState
  BY <1>2, <1>3, <1>5 DEF TransferState
<1>7. /\ S'.phase = S.phase /\ S'.tid = S.tid /\ S'.worker = S.worker /\ S'.final = S.final
      /\ S'.queue = q /\ S'.credit = S.credit
  BY <1>2, <1>5 DEF TransferState
<1>8. loop' \in [Tid -> {"none", "idle", "chunk"}] /\ loop'[t] = "chunk"
  BY <1>1, <1>2
<1>9. SenderShape' /\ SendingHasLoop'
  BY <1>1, <1>7, <1>8 DEF SenderInv, SenderShape, SendingHasLoop
<1>10. ChunksInHand' = ChunksInHand
  <2>1. S'.tid = t /\ t # 0
    BY <1>1, <1>7 DEF Tid
  <2>2. Hand(S', loop') = Len(S'.queue) + 1
    BY <1>6, <1>8, <2>1, HandCases
  <2>3. Hand(S, loop) = Len(S.queue) /\ Len(S.queue) \in Nat
    BY <1>1, <1>2, HandCases
  <2>4. Len(S'.queue) = Len(S.queue) - 1
    BY <1>3, <1>7
  <2>5. QED
    BY <2>2, <2>3, <2>4, InHand
<1>11. SenderCredit'
  BY <1>7, <1>10 DEF SenderInv, SenderCredit
<1>12. NewLoops'
  BY <1>1, <1>2 DEF SenderInv, NewLoops
<1>13. out["sender"] \in Seq(Frame)
  BY DEF WireTypes, End
<1>14. Awaits(loop', out'["sender"])
  <2>1. Awaits([loop EXCEPT ![t] = "chunk"], Append(out["sender"], m))
    BY <1>1, <1>2, <1>4, <1>13, AwaitsAppendChunk
  <2>2. QED
    BY <1>1, <1>5, <2>1
<1>15. QED
  BY <1>1, <1>6, <1>8, <1>9, <1>11, <1>12, <1>14 DEF SenderInv, SenderTypes

\* A loop that is not awaiting a chunk ends.
LEMMA LoopGone ==
  ASSUME SenderInv, NEW t \in Tid, loop[t] = "idle", loop' = [loop EXCEPT ![t] = "none"],
         offered' = offered
  PROVE  /\ loop' \in [Tid -> {"none", "idle", "chunk"}] /\ NewLoops'
         /\ Awaits(loop', out["sender"])
<1>1. loop \in [Tid -> {"none", "idle", "chunk"}]
  BY DEF SenderInv, SenderTypes
<1>2. \A u \in Tid : loop'[u] = "chunk" <=> loop[u] = "chunk"
  BY <1>1
<1>3. QED
  BY <1>1, <1>2 DEF SenderInv, NewLoops, Awaits

LEMMA LoopDrainsS ==
  ASSUME SenderInv, WireTypes, NEW t \in Tid, LoopDrains(t)
  PROVE  SenderInv'
<1>1. /\ loop[t] = "idle" /\ S.tid = t /\ S.phase = "sending"
      /\ loop' = [loop EXCEPT ![t] = "none"] /\ offered' = offered
      /\ S' = [S EXCEPT !.phase = "verifying", !.worker = "none", !.final = FALSE,
                        !.sendLoopRunning = FALSE]
  BY DEF LoopDrains, isStillSendingFor
<1>2. S' \in TransferState
  BY <1>1, TransferTyped DEF SenderInv, SenderTypes
<1>3. S'.phase = "verifying" /\ S'.worker = "none" /\ S'.tid = S.tid
  BY <1>1 DEF SenderInv, SenderTypes, TransferState
<1>4. SenderShape' /\ SendingHasLoop' /\ SenderCredit'
  BY <1>1, <1>3 DEF SenderInv, SenderShape, SendingHasLoop, SenderCredit
<1>5. out'["sender"] = Append(out["sender"], Msg("complete", t)) /\ out["sender"] \in Seq(Frame)
  BY DEF LoopDrains, Enqueue, WireTypes, End
<1>6. Awaits(loop', out'["sender"])
  <2>1. Awaits(loop', out["sender"])
    BY <1>1, LoopGone
  <2>2. Msg("complete", t) \in Frame /\ Msg("complete", t).kind # "chunk"
    BY MsgIsFrame
  <2>3. Awaits(loop', Append(out["sender"], Msg("complete", t)))
    BY <1>5, <2>1, <2>2, AwaitsAppendOther
  <2>4. QED
    BY <1>5, <2>3
<1>7. QED
  BY <1>1, <1>2, <1>4, <1>6, LoopGone DEF SenderInv, SenderTypes

LEMMA LoopEndsS ==
  ASSUME SenderInv, NEW t \in Tid, LoopEnds(t)
  PROVE  SenderInv'
<1>1. /\ loop[t] = "idle" /\ ~(S.tid = t /\ S.phase = "sending")
      /\ loop' = [loop EXCEPT ![t] = "none"] /\ UNCHANGED <<offered, out>>
      /\ S' = [S EXCEPT !.sendLoopRunning = FALSE]
  BY DEF LoopEnds, isStillSendingFor, wire
<1>2. S' \in TransferState /\ S \in TransferState /\ loop \in [Tid -> {"none", "idle", "chunk"}]
  BY <1>1, TransferTyped DEF SenderInv, SenderTypes
<1>3. /\ S'.phase = S.phase /\ S'.tid = S.tid /\ S'.worker = S.worker /\ S'.final = S.final
      /\ S'.queue = S.queue /\ S'.credit = S.credit /\ S'.next = S.next
      /\ S'.sendLoopRunning = FALSE
  BY <1>1, <1>2 DEF TransferState
<1>4. loop'[t] = "none" /\ \A u \in Tid : u # t => loop'[u] = loop[u]
  BY <1>1, <1>2
<1>5. S.tid \in Tid \cup {0}
  BY <1>2 DEF TransferState
<1>6. SenderShape'
  BY <1>1, <1>3, <1>4, <1>5 DEF SenderInv, SenderShape
<1>7. SendingHasLoop'
  BY <1>1, <1>3, <1>4, <1>5 DEF SenderInv, SenderShape, SendingHasLoop
<1>8. ChunksInHand' = ChunksInHand
  <2>1. S.tid # 0 => (loop'[S.tid] = "chunk" <=> loop[S.tid] = "chunk")
    BY <1>1, <1>4, <1>5
  <2>2. Hand(S', loop') = Hand(S, loop)
    BY <1>2, <1>3, <2>1, HandCases
  <2>3. QED
    BY <2>2, InHand
<1>9. SenderCredit'
  BY <1>3, <1>8 DEF SenderInv, SenderCredit
<1>10. QED
  BY <1>1, <1>2, <1>6, <1>7, <1>9, LoopGone DEF SenderInv, SenderTypes

\* Steps that end the transfer, with or without a file_cancel.
LEMMA ResetS ==
  ASSUME SenderInv, WireTypes, S' = NoTransfer, UNCHANGED <<loop, offered>>,
         \/ out'["sender"] = out["sender"]
         \/ \E t \in Tid : out'["sender"] = Append(out["sender"], Msg("cancel", t))
  PROVE  SenderInv'
<1>1. out["sender"] \in Seq(Frame)
  BY DEF WireTypes, End
<1>2. Awaits(loop', out'["sender"])
  <2>1. Awaits(loop, out["sender"])
    BY DEF SenderInv
  <2>2. ASSUME NEW t \in Tid, out'["sender"] = Append(out["sender"], Msg("cancel", t))
        PROVE  Awaits(loop', out'["sender"])
    <3>1. Msg("cancel", t) \in Frame /\ Msg("cancel", t).kind # "chunk"
      BY MsgIsFrame
    <3>2. Awaits(loop, Append(out["sender"], Msg("cancel", t)))
      BY <1>1, <2>1, <3>1, AwaitsAppendOther
    <3>3. QED
      BY <2>2, <3>2
  <2>3. QED
    BY <2>1, <2>2
<1>3. QED
  BY <1>2, SenderReset DEF SenderInv, SenderTypes, NewLoops

LEMMA EndsS ==
  ASSUME SenderInv, WireTypes,
         WorkerFatal \/ HandleCompleteAck \/ VerifyingTimeout \/ HandleRefusal \/ CancelS
  PROVE  SenderInv'
<1>1. S.phase # "null" => S.tid \in Tid
  BY DEF SenderInv, SenderShape, SenderTypes, TransferState
<1>2. S.worker # "none" => S.phase # "null"
  BY DEF SenderInv, SenderShape, SenderTypes, TransferState
<1>3. CASE WorkerFatal
  <2>1. \/ out'["sender"] = out["sender"]
        \/ out'["sender"] = Append(out["sender"], Msg("cancel", S.tid))
    BY <1>3 DEF WorkerFatal, wire, Enqueue, WireTypes, End
  <2>2. S' = NoTransfer /\ UNCHANGED <<loop, offered>> /\ S.tid \in Tid
    BY <1>1, <1>2, <1>3 DEF WorkerFatal, Reset
  <2>3. QED
    BY <2>1, <2>2, ResetS
<1>4. CASE HandleCompleteAck
  <2>1. UNCHANGED <<loop, offered, out>> /\ (S' = NoTransfer \/ S' = S)
    BY <1>4 DEF HandleCompleteAck, Silent, Succeed, Reset
  <2>2. QED
    BY <2>1, ResetS, SenderQuiet
<1>5. CASE VerifyingTimeout
  <2>1. UNCHANGED <<loop, offered, out>> /\ S' = NoTransfer
    BY <1>5 DEF VerifyingTimeout, Succeed, Reset, wire
  <2>2. QED
    BY <2>1, ResetS
<1>6. CASE HandleRefusal
  <2>1. UNCHANGED <<loop, offered, out>> /\ (S' = NoTransfer \/ S' = S)
    BY <1>6 DEF HandleRefusal, Silent, Reset
  <2>2. QED
    BY <2>1, ResetS, SenderQuiet
<1>7. CASE CancelS
  <2>1. out'["sender"] = Append(out["sender"], Msg("cancel", S.tid))
    BY <1>7 DEF CancelS, Enqueue, WireTypes, End
  <2>2. S' = NoTransfer /\ UNCHANGED <<loop, offered>> /\ S.tid \in Tid
    BY <1>1, <1>7 DEF CancelS, Reset
  <2>3. QED
    BY <2>1, <2>2, ResetS
<1>8. QED
  BY <1>3, <1>4, <1>5, <1>6, <1>7

LEMMA DropS ==
  ASSUME SenderInv, WireTypes, NEW e \in End, Drop(e)
  PROVE  SenderInv'
<1>1. UNCHANGED <<loop, offered, out>> /\ (S' = NoTransfer \/ S' = S)
  BY DEF Drop, CloseS, Reset
<1>2. QED
  BY <1>1, ResetS, SenderQuiet

-----------------------------------------------------------------------------
(* The receiver                                                            *)

LEMMA RunAppend ==
  ASSUME NEW s \in Seq(Seqno), NEW f \in Nat, Run(s, f), NEW v \in Seqno, v = f + Len(s)
  PROVE  /\ Run(Append(s, v), f) /\ Len(Append(s, v)) = Len(s) + 1
         /\ Append(s, v) \in Seq(Seqno) /\ Append(s, v) # <<>>
<1> DEFINE n == Append(s, v)
<1>1. /\ n \in Seq(Seqno) /\ Len(n) = Len(s) + 1 /\ n[Len(s) + 1] = v /\ Len(s) \in Nat
      /\ n # <<>> /\ \A i \in 1..Len(s) : n[i] = s[i]
  OBVIOUS
<1> HIDE DEF n
<1>2. Run(n, f)
  BY <1>1 DEF Run
<1>3. QED
  BY <1>1, <1>2 DEF n

LEMMA RunTail ==
  ASSUME NEW s \in Seq(Seqno), NEW f \in Nat, Run(s, f), s # <<>>
  PROVE  /\ Head(s) = f /\ Head(s) \in Seqno /\ Tail(s) \in Seq(Seqno)
         /\ Len(Tail(s)) = Len(s) - 1 /\ Run(Tail(s), f + 1)
<1> DEFINE n == Tail(s)
<1>1. /\ n \in Seq(Seqno) /\ Len(n) = Len(s) - 1 /\ Head(s) = s[1] /\ Len(s) \in Nat \ {0}
      /\ Head(s) \in Seqno /\ \A i \in 1..Len(n) : n[i] = s[i + 1]
  OBVIOUS
<1> HIDE DEF n
<1>2. Head(s) = f
  BY <1>1 DEF Run
<1>3. Run(n, f + 1)
  <2> SUFFICES ASSUME NEW i \in 1..Len(n) PROVE n[i] = f + 1 + i - 1
    BY DEF Run
  <2>1. i + 1 \in 1..Len(s)
    BY <1>1
  <2>2. s[i + 1] = f + (i + 1) - 1
    BY <2>1 DEF Run
  <2>3. QED
    BY <1>1, <2>2
<1>4. QED
  BY <1>1, <1>2, <1>3 DEF n

LEMMA RunEmpty ==
  ASSUME NEW f \in Nat
  PROVE  Run(<<>>, f) /\ Len(<<>>) = 0 /\ \A s \in Seq(Seqno) : Len(s) = 0 <=> s = <<>>
BY DEF Run

\* The chunks in the receiver's hands.
Hands(f, i, p) == f \in Seq(Seqno) /\ i \in Seq(Seqno) /\ p \in Seq(Seqno)

\* A chunk that comes is given to the worker, while there is credit.
LEMMA FlowPost ==
  ASSUME NEW f, NEW i, NEW p, Hands(f, i, p), NEW b, NEW n \in Seqno, NEW c \in Nat,
         Flow(f, i, p, b, n, c), c > 0
  PROVE  Append(i, n) \in Seq(Seqno) /\ Flow(f, Append(i, n), p, b, n + 1, c - 1)
<1>1. p = <<>> /\ Len(p) = 0 /\ Len(f) \in Nat /\ Len(i) \in Nat
  BY RunEmpty DEF Flow, Hands
<1>2. n = Len(f) + Len(i)
  BY <1>1 DEF Flow
<1>3. Run(i, Len(f))
  BY DEF Flow
<1>4. /\ Run(Append(i, n), Len(f)) /\ Len(Append(i, n)) = Len(i) + 1
      /\ Append(i, n) \in Seq(Seqno)
  BY <1>1, <1>2, <1>3, RunAppend DEF Hands
<1> DEFINE k == Append(i, n)
<1> HIDE DEF k
<1>5. Run(p, Len(f) + Len(k))
  BY <1>1, <1>4, RunEmpty DEF k
<1>6. Flow(f, k, p, b, n + 1, c - 1)
  BY <1>1, <1>2, <1>4, <1>5 DEF Flow, k
<1>7. QED
  BY <1>4, <1>6 DEF k

\* Without credit it waits.
LEMMA FlowWait ==
  ASSUME NEW f, NEW i, NEW p, Hands(f, i, p), NEW b, NEW n \in Seqno,
         Flow(f, i, p, b, n, 0), Len(p) < RECV_PENDING_HARD_CAP
  PROVE  Append(p, n) \in Seq(Seqno) /\ Flow(f, i, Append(p, n), b, n + 1, 0)
<1>1. Len(p) \in Nat /\ Len(f) \in Nat /\ Len(i) \in Nat
  BY DEF Hands
<1>2. n = Len(f) + Len(i) + Len(p) /\ Run(p, Len(f) + Len(i))
  BY DEF Flow
<1>3. /\ Run(Append(p, n), Len(f) + Len(i)) /\ Len(Append(p, n)) = Len(p) + 1
      /\ Append(p, n) \in Seq(Seqno)
  BY <1>1, <1>2, RunAppend DEF Hands
<1> DEFINE k == Append(p, n)
<1> HIDE DEF k
<1>4. Flow(f, i, k, b, n + 1, 0)
  BY <1>1, <1>2, <1>3 DEF Flow, k
<1>5. QED
  BY <1>3, <1>4 DEF k

\* The worker has written its first chunk; the first that waits takes its place.
LEMMA FlowWrite ==
  ASSUME NEW f, NEW i, NEW p, Hands(f, i, p), NEW b, NEW n \in 0..Chunks, NEW c \in Nat,
         Flow(f, i, p, b, n, c), i # <<>>
  PROVE  /\ Head(i) \in Seqno /\ Append(f, Head(i)) \in Seq(Seqno) /\ Tail(i) \in Seq(Seqno)
         /\ b + 1 \in 0..Chunks /\ c + 1 \in 0..RECV_INITIAL_CREDIT
         /\ p = <<>> => Flow(Append(f, Head(i)), Tail(i), p, b + 1, n, c + 1)
         /\ p # <<>> =>
              /\ Head(p) \in Seqno /\ Tail(p) \in Seq(Seqno)
              /\ Append(Tail(i), Head(p)) \in Seq(Seqno)
              /\ Flow(Append(f, Head(i)), Append(Tail(i), Head(p)), Tail(p), b + 1, n, c)
<1>1. Len(p) \in Nat /\ Len(f) \in Nat /\ Len(i) \in Nat
  BY DEF Hands
<1>2. Run(f, 0) /\ Run(i, Len(f)) /\ Run(p, Len(f) + Len(i))
  BY DEF Flow
<1> DEFINE g == Append(f, Head(i))
           h == Tail(i)
<1>3. /\ Head(i) = Len(f) /\ Head(i) \in Seqno /\ h \in Seq(Seqno)
      /\ Len(h) = Len(i) - 1 /\ Run(h, Len(f) + 1)
  BY <1>1, <1>2, RunTail DEF Hands
<1>4. Run(g, 0) /\ Len(g) = Len(f) + 1 /\ g \in Seq(Seqno)
  BY <1>1, <1>2, <1>3, RunAppend DEF Hands
<1> HIDE DEF g, h
<1>5. Len(i) > 0
  BY <1>1, RunEmpty DEF Hands
<1>6. b + 1 \in 0..Chunks /\ c + 1 \in 0..RECV_INITIAL_CREDIT
  BY <1>1, <1>5 DEF Flow
<1>7. ASSUME p = <<>> PROVE Flow(g, h, p, b + 1, n, c + 1)
  <2>1. Len(p) = 0 /\ Run(p, Len(g) + Len(h))
    BY <1>1, <1>3, <1>4, <1>5, <1>7, RunEmpty
  <2>2. Run(h, Len(g))
    BY <1>3, <1>4
  <2>3. /\ b + 1 = Len(g) /\ n = Len(g) + Len(h) + Len(p)
        /\ c + 1 + Len(h) = RECV_INITIAL_CREDIT /\ Len(p) <= RECV_PENDING_HARD_CAP
    BY <1>1, <1>3, <1>4, <2>1 DEF Flow
  <2>4. QED
    BY <1>4, <1>7, <2>1, <2>2, <2>3 DEF Flow
<1>8. ASSUME p # <<>>
      PROVE  /\ Head(p) \in Seqno /\ Tail(p) \in Seq(Seqno) /\ Append(h, Head(p)) \in Seq(Seqno)
             /\ Flow(g, Append(h, Head(p)), Tail(p), b + 1, n, c)
  <2> DEFINE k == Append(h, Head(p))
             q == Tail(p)
  <2>1. /\ Head(p) = Len(f) + Len(i) /\ Head(p) \in Seqno /\ q \in Seq(Seqno)
        /\ Len(q) = Len(p) - 1 /\ Run(q, Len(f) + Len(i) + 1)
    BY <1>1, <1>2, <1>8, RunTail DEF Hands
  <2>2. Head(p) = Len(f) + 1 + Len(h)
    BY <1>1, <1>3, <2>1
  <2>3. Run(k, Len(f) + 1) /\ Len(k) = Len(h) + 1 /\ k \in Seq(Seqno)
    <3>1. Len(f) + 1 \in Nat /\ Run(h, Len(f) + 1) /\ h \in Seq(Seqno) /\ Head(p) \in Seqno
      BY <1>1, <1>3, <2>1
    <3>2. QED
      BY <2>2, <3>1, RunAppend
  <2>4. c = 0 /\ Len(p) > 0
    BY <1>1, <1>8, RunEmpty DEF Flow, Hands
  <2> HIDE DEF k, q
  <2>5. Run(k, Len(g)) /\ Len(k) = Len(i) /\ Len(g) + Len(k) = Len(f) + Len(i) + 1
    BY <1>1, <1>3, <1>4, <2>3
  <2>6. Flow(g, k, q, b + 1, n, c)
    BY <1>1, <1>3, <1>4, <2>1, <2>4, <2>5 DEF Flow
  <2>7. QED
    BY <2>1, <2>3, <2>6 DEF k, q
<1>9. QED
  BY <1>3, <1>4, <1>6, <1>7, <1>8 DEF g, h

\* The worker's chunks are messages of its inbox.
LEMMA ChunksAreMessages == \A q \in Seq(Seqno) : q \in Seq(0..Chunks)
<1> SUFFICES ASSUME NEW q \in Seq(Seqno) PROVE q \in Seq(0..Chunks)
  OBVIOUS
<1>1. Len(q) \in Nat /\ q \in [1..Len(q) -> Seqno]
  OBVIOUS
<1>2. q \in [1..Len(q) -> 0..Chunks]
  BY <1>1 DEF Seqno
<1>3. QED
  BY <1>1, <1>2

\* What an abort in the inbox leaves to be written is never the whole file.
LEMMA CutUnfinished ==
  ASSUME NEW i, NEW b \in Nat, NEW c, Cut(i, b, c)
  PROVE  b < Chunks
BY DEF Cut

\* A chunk in front of the abort is written.
LEMMA CutWrite ==
  ASSUME NEW i \in Seq(0..Chunks), NEW b \in Nat, NEW c \in Nat, Cut(i, b, c), i # <<>>,
         Head(i) # Abort
  PROVE  /\ Head(i) \in Seqno /\ Tail(i) \in Seq(0..Chunks) /\ Cut(Tail(i), b + 1, c + 1)
         /\ b + 1 \in 0..Chunks /\ c + 1 \in 0..RECV_INITIAL_CREDIT
<1> DEFINE n == Tail(i)
<1>1. /\ n \in Seq(0..Chunks) /\ Len(n) = Len(i) - 1 /\ Head(i) = i[1] /\ Len(i) \in Nat \ {0}
      /\ Head(i) \in 0..Chunks /\ \A j \in 1..Len(n) : n[j] = i[j + 1]
  OBVIOUS
<1> HIDE DEF n
<1>2. PICK k \in 1..Len(i) : /\ i[k] = Abort /\ b + k <= Chunks /\ c + k <= RECV_INITIAL_CREDIT + 1
  BY DEF Cut
<1>3. k # 1 /\ k - 1 \in 1..Len(n) /\ (k - 1) + 1 = k
  BY <1>1, <1>2
<1>4. n[k - 1] = Abort
  BY <1>1, <1>2, <1>3
<1>5. Cut(n, b + 1, c + 1)
  BY <1>2, <1>3, <1>4 DEF Cut
<1>6. Head(i) \in Seqno
  BY <1>1 DEF Seqno, Abort
<1>7. QED
  BY <1>1, <1>2, <1>3, <1>5, <1>6 DEF n

\* Another message waits behind it.
LEMMA CutAppend ==
  ASSUME NEW i \in Seq(0..Chunks), NEW v \in 0..Chunks, NEW b \in Nat, NEW c \in Nat, Cut(i, b, c)
  PROVE  /\ Append(i, v) \in Seq(0..Chunks)
         /\ \A d \in Nat : d <= c => Cut(Append(i, v), b, d)
<1> DEFINE n == Append(i, v)
<1>1. /\ n \in Seq(0..Chunks) /\ Len(n) = Len(i) + 1 /\ Len(i) \in Nat
      /\ \A j \in 1..Len(i) : n[j] = i[j]
  OBVIOUS
<1> HIDE DEF n
<1>2. PICK k \in 1..Len(i) : /\ i[k] = Abort /\ b + k <= Chunks /\ c + k <= RECV_INITIAL_CREDIT + 1
  BY DEF Cut
<1>3. k \in 1..Len(n) /\ n[k] = Abort
  BY <1>1, <1>2
<1>4. \A d \in Nat : d <= c => Cut(n, b, d)
  BY <1>2, <1>3 DEF Cut
<1>5. QED
  BY <1>1, <1>4 DEF n

\* A post fails: the chunk that was to be posted is lost, and an abort is in its
\* place.
LEMMA CutStarts ==
  ASSUME NEW f, NEW i, NEW p, Hands(f, i, p), NEW b, NEW n \in 0..Chunks, NEW c \in Nat,
         Flow(f, i, p, b, n, c), i # <<>>, p # <<>>
  PROVE  Append(Tail(i), Abort) \in Seq(0..Chunks) /\ Cut(Append(Tail(i), Abort), b + 1, c + 1)
<1>1. Len(p) \in Nat \ {0} /\ Len(f) \in Nat /\ Len(i) \in Nat \ {0}
  BY RunEmpty DEF Hands
<1> DEFINE h == Tail(i)
           k == Append(h, Abort)
<1>2. h \in Seq(0..Chunks) /\ Len(h) = Len(i) - 1
  <2>1. h \in Seq(Seqno) /\ Len(h) = Len(i) - 1
    BY DEF Hands
  <2>2. QED
    BY <2>1, ChunksAreMessages
<1> HIDE DEF h
<1>3. k \in Seq(0..Chunks) /\ Len(k) = Len(i) /\ k[Len(i)] = Abort
  <2>1. Abort \in 0..Chunks
    BY DEF Abort
  <2>2. QED
    BY <1>1, <1>2, <2>1
<1> HIDE DEF k
<1>4. c = 0 /\ Len(i) = RECV_INITIAL_CREDIT /\ b = Len(f) /\ n = Len(f) + Len(i) + Len(p)
  BY <1>1 DEF Flow
<1>5. b + 1 + Len(i) <= Chunks /\ c + 1 + Len(i) <= RECV_INITIAL_CREDIT + 1
  BY <1>1, <1>4
<1>6. Cut(k, b + 1, c + 1)
  BY <1>1, <1>3, <1>5 DEF Cut
<1>7. QED
  BY <1>3, <1>6 DEF k, h

\* Types of the transfers that the receiver's steps make.
LEMMA IncomingTyped ==
  ASSUME NEW r \in IncomingState
  PROVE  /\ \A b \in BOOLEAN, t \in Tid :
              [r EXCEPT !.phase = "offer-pending", !.tid = t, !.offerTimer = b] \in IncomingState
         /\ \A b \in BOOLEAN : /\ [r EXCEPT !.offerTimer = b] \in IncomingState
                               /\ [r EXCEPT !.hash = b] \in IncomingState
         /\ \A b \in BOOLEAN, c \in 0..RECV_INITIAL_CREDIT :
              [r EXCEPT !.phase = "receiving", !.receiveCredit = c, !.stallTimer = b]
                \in IncomingState
         /\ \A v \in {"requested", "over"} : [r EXCEPT !.finalize = v] \in IncomingState
         /\ \A n \in 0..Chunks, b \in BOOLEAN :
              [r EXCEPT !.nextExpectedSeq = n, !.stallTimer = b] \in IncomingState
         /\ \A q \in Seq(Seqno) : [r EXCEPT !.pendingChunkQueue = q] \in IncomingState
         /\ \A q \in Seq(0..Chunks), c \in 0..RECV_INITIAL_CREDIT :
              [r EXCEPT !.inbox = q, !.receiveCredit = c] \in IncomingState
         /\ \A q \in Seq(0..Chunks), f \in Seq(Seqno), n \in 0..Chunks, c \in 0..RECV_INITIAL_CREDIT :
              [r EXCEPT !.inbox = q, !.file = f, !.bytesWritten = n, !.receiveCredit = c]
                \in IncomingState
<1>1. \A b \in BOOLEAN, t \in Tid :
        [r EXCEPT !.phase = "offer-pending", !.tid = t, !.offerTimer = b] \in IncomingState
  BY DEF IncomingState
<1>2. \A b \in BOOLEAN : /\ [r EXCEPT !.offerTimer = b] \in IncomingState
                         /\ [r EXCEPT !.hash = b] \in IncomingState
  BY DEF IncomingState
<1>3. \A b \in BOOLEAN, c \in 0..RECV_INITIAL_CREDIT :
        [r EXCEPT !.phase = "receiving", !.receiveCredit = c, !.stallTimer = b] \in IncomingState
  BY DEF IncomingState
<1>4. \A v \in {"requested", "over"} : [r EXCEPT !.finalize = v] \in IncomingState
  BY DEF IncomingState
<1>5. \A n \in 0..Chunks, b \in BOOLEAN :
        [r EXCEPT !.nextExpectedSeq = n, !.stallTimer = b] \in IncomingState
  BY DEF IncomingState
<1>6. \A q \in Seq(Seqno) : [r EXCEPT !.pendingChunkQueue = q] \in IncomingState
  BY DEF IncomingState
<1>7. \A q \in Seq(0..Chunks), c \in 0..RECV_INITIAL_CREDIT :
        [r EXCEPT !.inbox = q, !.receiveCredit = c] \in IncomingState
  BY DEF IncomingState
<1>8. \A q \in Seq(0..Chunks), f \in Seq(Seqno), n \in 0..Chunks, c \in 0..RECV_INITIAL_CREDIT :
        [r EXCEPT !.inbox = q, !.file = f, !.bytesWritten = n, !.receiveCredit = c]
          \in IncomingState
  BY DEF IncomingState
<1>9. QED
  BY <1>1, <1>2, <1>3, <1>4, <1>5, <1>6, <1>7, <1>8

LEMMA IncomingFields ==
  ASSUME NEW r \in IncomingState
  PROVE  /\ r.tid \in Tid \cup {0} /\ r.nextExpectedSeq \in 0..Chunks
         /\ r.bytesWritten \in 0..Chunks /\ r.receiveCredit \in 0..RECV_INITIAL_CREDIT
         /\ r.inbox \in Seq(0..Chunks) /\ r.file \in Seq(Seqno) /\ r.pendingChunkQueue \in Seq(Seqno)
         /\ r.phase \in {"null", "offer-pending", "receiving"}
         /\ r.finalize \in {"no", "requested", "over"}
BY DEF IncomingState

LEMMA LiveFields ==
  ASSUME NEW r \in IncomingState, Live(r)
  PROVE  /\ Hands(r.file, r.inbox, r.pendingChunkQueue)
         /\ Flow(r.file, r.inbox, r.pendingChunkQueue, r.bytesWritten, r.nextExpectedSeq, r.receiveCredit)
BY IncomingFields DEF Live, Hands

LEMMA FinishedSound == Sound(NoIncoming)
<1>1. NoIncoming \in IncomingState
  BY DEF NoIncoming, IncomingState
<1>2. QED
  BY <1>1 DEF Sound, Blank, NoIncoming

LEMMA OfferSound ==
  ASSUME NEW r, Sound(r), r.phase = "null", NEW t \in Tid
  PROVE  Sound([r EXCEPT !.phase = "offer-pending", !.tid = t, !.offerTimer = TRUE])
<1> DEFINE n == [r EXCEPT !.phase = "offer-pending", !.tid = t, !.offerTimer = TRUE]
<1>1. r \in IncomingState /\ Blank(r) /\ r.finalize = "no"
  BY DEF Sound, Blank
<1>2. n \in IncomingState
  BY <1>1, IncomingTyped
<1>3. n.phase = "offer-pending" /\ n.tid = t /\ n.finalize = "no" /\ Blank(n)
  BY <1>1 DEF Blank, IncomingState
<1>4. t # 0
  BY DEF Tid
<1> HIDE DEF n
<1>5. Sound(n)
  BY <1>2, <1>3, <1>4 DEF Sound
<1>6. QED
  BY <1>5 DEF n

\* The timers and the hash are nothing to the chunks.
LEMMA TimerSound ==
  ASSUME NEW r, Sound(r), NEW b \in BOOLEAN
  PROVE  Sound([r EXCEPT !.offerTimer = b]) /\ Sound([r EXCEPT !.hash = b])
<1>1. r \in IncomingState
  BY DEF Sound
<1>2. ASSUME NEW n \in IncomingState,
             /\ n.phase = r.phase /\ n.tid = r.tid /\ n.nextExpectedSeq = r.nextExpectedSeq
             /\ n.bytesWritten = r.bytesWritten /\ n.receiveCredit = r.receiveCredit
             /\ n.pendingChunkQueue = r.pendingChunkQueue /\ n.finalize = r.finalize
             /\ n.inbox = r.inbox /\ n.file = r.file
      PROVE  Sound(n)
  BY <1>2 DEF Sound, Blank, Live
<1>3. [r EXCEPT !.offerTimer = b] \in IncomingState /\ [r EXCEPT !.hash = b] \in IncomingState
  BY <1>1, IncomingTyped
<1>4. Sound([r EXCEPT !.offerTimer = b])
  BY <1>1, <1>2, <1>3 DEF IncomingState
<1>5. Sound([r EXCEPT !.hash = b])
  BY <1>1, <1>2, <1>3 DEF IncomingState
<1>6. QED
  BY <1>4, <1>5

LEMMA ReceivingSound ==
  ASSUME NEW r, Sound(r), r.phase = "offer-pending"
  PROVE  Sound([r EXCEPT !.phase = "receiving", !.receiveCredit = RECV_INITIAL_CREDIT,
                         !.stallTimer = TRUE])
<1> DEFINE n == [r EXCEPT !.phase = "receiving", !.receiveCredit = RECV_INITIAL_CREDIT,
                          !.stallTimer = TRUE]
<1>1. r \in IncomingState /\ Blank(r) /\ r.tid # 0
  BY DEF Sound
<1>2. RECV_INITIAL_CREDIT \in 0..RECV_INITIAL_CREDIT
  OBVIOUS
<1>3. n \in IncomingState
  BY <1>1, <1>2, IncomingTyped
<1>4. /\ n.phase = "receiving" /\ n.tid = r.tid /\ n.finalize = "no"
      /\ n.receiveCredit = RECV_INITIAL_CREDIT /\ n.nextExpectedSeq = 0 /\ n.bytesWritten = 0
      /\ n.pendingChunkQueue = <<>> /\ n.inbox = <<>> /\ n.file = <<>>
  BY <1>1 DEF Blank, IncomingState
<1> HIDE DEF n
<1>5. Flow(<<>>, <<>>, <<>>, 0, 0, RECV_INITIAL_CREDIT) /\ <<>> \in Seq(Seqno)
  BY RunEmpty DEF Flow
<1>6. Sound(n)
  BY <1>1, <1>3, <1>4, <1>5 DEF Sound, Live
<1>7. QED
  BY <1>6 DEF n

LEMMA MaybeFinalizeSound ==
  ASSUME NEW r, Sound(r), r.phase = "receiving"
  PROVE  Sound(MaybeFinalize(r)) /\ MaybeFinalize(r).tid = r.tid
<1>1. r \in IncomingState
  BY DEF Sound
<1>2. CASE MaybeFinalize(r) = r
  BY <1>2
<1>3. CASE /\ MaybeFinalize(r) = [r EXCEPT !.finalize = "requested"]
           /\ r.pendingChunkQueue = <<>> /\ r.bytesWritten >= Chunks
  <2> DEFINE n == [r EXCEPT !.finalize = "requested"]
  <2>1. n \in IncomingState
    BY <1>1, IncomingTyped
  <2>2. /\ n.phase = r.phase /\ n.tid = r.tid /\ n.nextExpectedSeq = r.nextExpectedSeq
        /\ n.bytesWritten = r.bytesWritten /\ n.receiveCredit = r.receiveCredit
        /\ n.pendingChunkQueue = r.pendingChunkQueue /\ n.finalize = "requested"
        /\ n.inbox = r.inbox /\ n.file = r.file
    BY <1>1 DEF IncomingState
  <2> HIDE DEF n
  <2>3. r.bytesWritten = Chunks
    BY <1>1, <1>3, IncomingFields
  <2>6. Live(r)
    BY <1>1, <2>3, CutUnfinished, IncomingFields DEF Sound
  <2>4. Sound(n)
    BY <1>3, <2>1, <2>2, <2>3, <2>6 DEF Sound, Live
  <2>5. QED
    BY <1>3, <2>2, <2>4 DEF n
<1>4. QED
  BY <1>2, <1>3 DEF MaybeFinalize

LEMMA OverSound ==
  ASSUME NEW r, Sound(r), r.finalize = "requested"
  PROVE  Sound([r EXCEPT !.finalize = "over"])
<1> DEFINE n == [r EXCEPT !.finalize = "over"]
<1>1. r \in IncomingState
  BY DEF Sound
<1>2. n \in IncomingState
  BY <1>1, IncomingTyped
<1>3. /\ n.phase = r.phase /\ n.tid = r.tid /\ n.nextExpectedSeq = r.nextExpectedSeq
      /\ n.bytesWritten = r.bytesWritten /\ n.receiveCredit = r.receiveCredit
      /\ n.pendingChunkQueue = r.pendingChunkQueue /\ n.finalize = "over"
      /\ n.inbox = r.inbox /\ n.file = r.file
  BY <1>1 DEF IncomingState
<1>4. r.phase = "receiving"
  BY <1>1 DEF Sound, Blank
<1> HIDE DEF n
<1>5. Sound(n)
  BY <1>2, <1>3, <1>4 DEF Sound, Live
<1>6. QED
  BY <1>5 DEF n

\* dispatchChunkFrame: the chunk expected goes to the worker, or waits.
LEMMA ChunkSound ==
  ASSUME NEW r, Sound(r), Live(r), r.phase = "receiving", r.finalize = "no", NEW b \in BOOLEAN,
         r.nextExpectedSeq < Chunks,
         Len(r.pendingChunkQueue) < RECV_PENDING_HARD_CAP,
         NEW seen, seen = [r EXCEPT !.nextExpectedSeq = @ + 1, !.stallTimer = b]
  PROVE  /\ r.receiveCredit > 0 => Sound(PostChunk(seen, r.nextExpectedSeq))
         /\ ~(r.receiveCredit > 0) =>
              Sound([seen EXCEPT !.pendingChunkQueue = Append(@, r.nextExpectedSeq)])
<1> DEFINE s == r.nextExpectedSeq
           f == r.file
           i == r.inbox
           p == r.pendingChunkQueue
           c == r.receiveCredit
<1>1. r \in IncomingState /\ r.tid # 0
  BY DEF Sound
<1>2. s \in 0..Chunks /\ c \in 0..RECV_INITIAL_CREDIT /\ Hands(f, i, p)
  BY <1>1, IncomingFields, LiveFields
<1>3. s \in Seqno /\ s + 1 \in 0..Chunks /\ c \in Nat
  BY <1>2 DEF Seqno
<1>4. Flow(f, i, p, r.bytesWritten, s, c)
  BY <1>1, LiveFields
<1>5. seen \in IncomingState
  BY <1>1, <1>3, IncomingTyped
<1>6. /\ seen.phase = "receiving" /\ seen.tid = r.tid /\ seen.nextExpectedSeq = s + 1
      /\ seen.bytesWritten = r.bytesWritten /\ seen.receiveCredit = c
      /\ seen.pendingChunkQueue = p /\ seen.finalize = "no" /\ seen.inbox = i /\ seen.file = f
  BY <1>1 DEF IncomingState
<1> HIDE DEF s, f, i, p, c
<1>7. ASSUME c > 0 PROVE Sound(PostChunk(seen, s))
  <2> DEFINE n == PostChunk(seen, s)
             k == Append(i, s)
             d == c - 1
  <2>1. n = [seen EXCEPT !.inbox = k, !.receiveCredit = d]
    BY <1>6 DEF PostChunk
  <2>2. d \in 0..RECV_INITIAL_CREDIT
    BY <1>2, <1>7
  <2>3. k \in Seq(Seqno) /\ Flow(f, k, p, r.bytesWritten, s + 1, d)
    BY <1>2, <1>3, <1>4, <1>7, FlowPost
  <2> HIDE DEF n, k, d
  <2>4. n \in IncomingState
    BY <1>5, <2>1, <2>2, <2>3, IncomingTyped, ChunksAreMessages
  <2>5. /\ n.phase = "receiving" /\ n.tid = r.tid /\ n.nextExpectedSeq = s + 1
        /\ n.bytesWritten = r.bytesWritten /\ n.receiveCredit = d
        /\ n.pendingChunkQueue = p /\ n.finalize = "no" /\ n.inbox = k /\ n.file = f
    BY <1>5, <1>6, <2>1 DEF IncomingState
  <2>6. Sound(n)
    BY <1>1, <2>3, <2>4, <2>5 DEF Sound, Live
  <2>7. QED
    BY <2>6 DEF n
<1>8. ASSUME ~(c > 0) PROVE Sound([seen EXCEPT !.pendingChunkQueue = Append(@, s)])
  <2> DEFINE k == Append(p, s)
             n == [seen EXCEPT !.pendingChunkQueue = k]
  <2>1. c = 0
    BY <1>3, <1>8
  <2>2. k \in Seq(Seqno) /\ Flow(f, i, k, r.bytesWritten, s + 1, c)
    BY <1>2, <1>3, <1>4, <2>1, FlowWait DEF p
  <2> HIDE DEF k
  <2>3. n \in IncomingState
    BY <1>5, <2>2, IncomingTyped
  <2>4. /\ n.phase = "receiving" /\ n.tid = r.tid /\ n.nextExpectedSeq = s + 1
        /\ n.bytesWritten = r.bytesWritten /\ n.receiveCredit = c
        /\ n.pendingChunkQueue = k /\ n.finalize = "no" /\ n.inbox = i /\ n.file = f
    BY <1>5, <1>6 DEF IncomingState
  <2> HIDE DEF n
  <2>5. Sound(n)
    BY <1>1, <1>2, <2>2, <2>3, <2>4 DEF Sound, Live, Hands
  <2>6. [seen EXCEPT !.pendingChunkQueue = Append(@, s)] = n
    BY <1>6 DEF n, k
  <2>7. QED
    BY <2>5, <2>6
<1>9. QED
  BY <1>7, <1>8 DEF s, c

\* A receiver whose worker is to stop.
LEMMA CutSound ==
  ASSUME NEW n \in IncomingState, n.phase = "receiving", n.tid # 0, n.finalize = "no",
         Cut(n.inbox, n.bytesWritten, n.receiveCredit)
  PROVE  Sound(n)
BY DEF Sound

LEMMA ChunkCut ==
  ASSUME NEW r, Sound(r), r.phase = "receiving", r.finalize = "no", NEW b \in BOOLEAN,
         Cut(r.inbox, r.bytesWritten, r.receiveCredit), r.nextExpectedSeq < Chunks,
         NEW seen, seen = [r EXCEPT !.nextExpectedSeq = @ + 1, !.stallTimer = b]
  PROVE  /\ r.receiveCredit > 0 => Sound(PostChunk(seen, r.nextExpectedSeq))
         /\ ~(r.receiveCredit > 0) =>
              Sound([seen EXCEPT !.pendingChunkQueue = Append(@, r.nextExpectedSeq)])
<1> DEFINE s == r.nextExpectedSeq
           i == r.inbox
           p == r.pendingChunkQueue
           c == r.receiveCredit
<1>1. r \in IncomingState /\ r.tid # 0
  BY DEF Sound
<1>2. /\ s \in 0..Chunks /\ c \in 0..RECV_INITIAL_CREDIT /\ r.bytesWritten \in Nat
      /\ i \in Seq(0..Chunks) /\ p \in Seq(Seqno)
  BY <1>1, IncomingFields
<1>3. s \in Seqno /\ s + 1 \in 0..Chunks /\ c \in Nat
  BY <1>2 DEF Seqno
<1>4. seen \in IncomingState
  BY <1>1, <1>3, IncomingTyped
<1>5. /\ seen.phase = "receiving" /\ seen.tid = r.tid
      /\ seen.bytesWritten = r.bytesWritten /\ seen.receiveCredit = c
      /\ seen.pendingChunkQueue = p /\ seen.finalize = "no" /\ seen.inbox = i
  BY <1>1 DEF IncomingState
<1>6. ASSUME c > 0 PROVE Sound(PostChunk(seen, s))
  <2> DEFINE k == Append(i, s)
             d == c - 1
             n == PostChunk(seen, s)
  <2>1. n = [seen EXCEPT !.inbox = k, !.receiveCredit = d]
    BY <1>5 DEF PostChunk
  <2>2. d \in 0..RECV_INITIAL_CREDIT /\ d \in Nat /\ d <= c
    BY <1>2, <1>6
  <2>3. k \in Seq(0..Chunks) /\ Cut(k, r.bytesWritten, d)
    BY <1>2, <1>3, <2>2, CutAppend
  <2> HIDE DEF n, k, d
  <2>4. n \in IncomingState
    BY <1>4, <2>1, <2>2, <2>3, IncomingTyped
  <2>5. /\ n.phase = "receiving" /\ n.tid = r.tid /\ n.bytesWritten = r.bytesWritten
        /\ n.receiveCredit = d /\ n.finalize = "no" /\ n.inbox = k
    BY <1>4, <1>5, <2>1 DEF IncomingState
  <2>6. QED
    BY <1>1, <2>3, <2>4, <2>5, CutSound DEF n
<1>7. ASSUME ~(c > 0) PROVE Sound([seen EXCEPT !.pendingChunkQueue = Append(@, s)])
  <2> DEFINE k == Append(p, s)
             n == [seen EXCEPT !.pendingChunkQueue = k]
  <2>1. k \in Seq(Seqno)
    BY <1>2, <1>3
  <2> HIDE DEF k
  <2>2. n \in IncomingState
    BY <1>4, <2>1, IncomingTyped
  <2>3. /\ n.phase = "receiving" /\ n.tid = r.tid /\ n.bytesWritten = r.bytesWritten
        /\ n.receiveCredit = c /\ n.finalize = "no" /\ n.inbox = i
    BY <1>4, <1>5 DEF IncomingState
  <2> HIDE DEF n
  <2>4. Sound(n)
    BY <1>1, <2>2, <2>3, CutSound
  <2>5. [seen EXCEPT !.pendingChunkQueue = Append(@, s)] = n
    BY <1>5 DEF n, k
  <2>6. QED
    BY <2>4, <2>5
<1>8. QED
  BY <1>6, <1>7

\* The chunks that a finished transfer has not seen do not exist.
LEMMA AskedForAll ==
  ASSUME NEW r, Sound(r), r.finalize # "no"
  PROVE  /\ r.phase = "receiving" /\ r.nextExpectedSeq = Chunks /\ r.inbox = <<>>
         /\ r.pendingChunkQueue = <<>> /\ r.file = WholeFile
<1>1. r \in IncomingState /\ r.phase = "receiving"
  BY DEF Sound, Blank
<1>2. r.nextExpectedSeq \in 0..Chunks /\ Hands(r.file, r.inbox, r.pendingChunkQueue)
  BY <1>1, IncomingFields, LiveFields DEF Sound
<1>3. Flow(r.file, r.inbox, r.pendingChunkQueue, r.bytesWritten, r.nextExpectedSeq, r.receiveCredit)
  BY <1>1, LiveFields DEF Sound
<1>4. r.bytesWritten = Chunks /\ r.pendingChunkQueue = <<>>
  BY DEF Sound
<1>5. Len(r.file) = Chunks /\ Len(r.inbox) \in Nat /\ Len(r.pendingChunkQueue) \in Nat
  BY <1>2, <1>3, <1>4 DEF Flow, Hands
<1>6. Len(r.inbox) = 0 /\ r.nextExpectedSeq = Chunks
  <2>1. r.nextExpectedSeq = Len(r.file) + Len(r.inbox) + Len(r.pendingChunkQueue)
    BY <1>3 DEF Flow
  <2>2. \A a, b \in Nat, n \in 0..Chunks : n = Chunks + a + b => a = 0 /\ n = Chunks
    OBVIOUS
  <2>3. QED
    BY <1>2, <1>5, <2>1, <2>2
<1>7. r.inbox = <<>>
  BY <1>2, <1>6, RunEmpty DEF Hands
<1>8. r.file = WholeFile
  <2>1. r.file \in [1..Chunks -> Seqno]
    BY <1>2, <1>5 DEF Hands
  <2>2. \A j \in 1..Chunks : r.file[j] = j - 1
    BY <1>3, <1>5 DEF Flow, Run
  <2>3. QED
    BY <2>1, <2>2 DEF WholeFile
<1>9. QED
  BY <1>1, <1>4, <1>6, <1>7, <1>8

\* handleWorkerWritten: the worker's first chunk is written, and the first that
\* waits is passed to it.
LEMMA WriteSound ==
  ASSUME NEW r, Sound(r), Live(r), r.phase = "receiving", r.inbox # <<>>,
         NEW w, w = [r EXCEPT !.inbox = Tail(@), !.file = Append(@, Head(r.inbox)),
                              !.bytesWritten = @ + 1, !.receiveCredit = @ + 1]
  PROVE  /\ w.pendingChunkQueue = <<>> => Sound(w) /\ w.phase = "receiving"
         /\ w.pendingChunkQueue # <<>> =>
              LET n == PostChunk([w EXCEPT !.pendingChunkQueue = Tail(@)], Head(w.pendingChunkQueue))
              IN Sound(n) /\ n.phase = "receiving"
<1> DEFINE f == r.file
           i == r.inbox
           p == r.pendingChunkQueue
           b == r.bytesWritten
           s == r.nextExpectedSeq
           c == r.receiveCredit
           g == Append(f, Head(i))
           h == Tail(i)
           d == c + 1
           v == b + 1
<1>1. r \in IncomingState /\ r.tid # 0 /\ r.finalize = "no"
  BY AskedForAll DEF Sound
<1>2. s \in 0..Chunks /\ c \in 0..RECV_INITIAL_CREDIT /\ Hands(f, i, p) /\ c \in Nat
  BY <1>1, IncomingFields, LiveFields
<1>3. Flow(f, i, p, b, s, c)
  BY <1>1, LiveFields
<1>4. /\ Head(i) \in Seqno /\ g \in Seq(Seqno) /\ h \in Seq(Seqno)
      /\ v \in 0..Chunks /\ d \in 0..RECV_INITIAL_CREDIT
      /\ p = <<>> => Flow(g, h, p, v, s, d)
      /\ p # <<>> =>
           /\ Head(p) \in Seqno /\ Tail(p) \in Seq(Seqno) /\ Append(h, Head(p)) \in Seq(Seqno)
           /\ Flow(g, Append(h, Head(p)), Tail(p), v, s, c)
  BY <1>2, <1>3, FlowWrite
<1>5. w = [r EXCEPT !.inbox = h, !.file = g, !.bytesWritten = v, !.receiveCredit = d]
  OBVIOUS
<1> HIDE DEF f, i, p, b, s, c, g, h, d, v
<1>6. w \in IncomingState
  <2>1. g \in Seq(Seqno) /\ h \in Seq(Seqno) /\ v \in 0..Chunks /\ d \in 0..RECV_INITIAL_CREDIT
    BY <1>4
  <2>2. [r EXCEPT !.inbox = h, !.file = g, !.bytesWritten = v, !.receiveCredit = d]
          \in IncomingState
    BY <1>1, <2>1, IncomingTyped, ChunksAreMessages
  <2>3. QED
    BY <1>5, <2>2
<1>7. /\ w.phase = "receiving" /\ w.tid = r.tid /\ w.nextExpectedSeq = s
      /\ w.bytesWritten = v /\ w.receiveCredit = d
      /\ w.pendingChunkQueue = p /\ w.finalize = "no" /\ w.inbox = h /\ w.file = g
  BY <1>1, <1>5 DEF IncomingState, s, p
<1>8. ASSUME p = <<>> PROVE Sound(w)
  BY <1>1, <1>4, <1>6, <1>7, <1>8 DEF Sound, Live
<1>9. ASSUME p # <<>>
      PROVE  LET n == PostChunk([w EXCEPT !.pendingChunkQueue = Tail(@)], Head(p))
             IN Sound(n) /\ n.phase = "receiving"
  <2> DEFINE q == Tail(p)
             k == Append(h, Head(p))
             u == [w EXCEPT !.pendingChunkQueue = q]
             n == PostChunk(u, Head(p))
  <2>1. q \in Seq(Seqno) /\ k \in Seq(Seqno) /\ Flow(g, k, q, v, s, c)
    BY <1>4, <1>9
  <2>2. u = [w EXCEPT !.pendingChunkQueue = Tail(@)]
    BY <1>7
  <2> HIDE DEF q
  <2>3. u \in IncomingState
    BY <1>6, <2>1, IncomingTyped
  <2>4. /\ u.phase = "receiving" /\ u.tid = r.tid /\ u.nextExpectedSeq = s
        /\ u.bytesWritten = v /\ u.receiveCredit = d
        /\ u.pendingChunkQueue = q /\ u.finalize = "no" /\ u.inbox = h /\ u.file = g
    BY <1>6, <1>7 DEF IncomingState
  <2> HIDE DEF u
  <2>5. d - 1 = c
    BY <1>2 DEF d
  <2>6. n = [u EXCEPT !.inbox = k, !.receiveCredit = c]
    BY <2>4, <2>5 DEF PostChunk
  <2> HIDE DEF n, k
  <2>7. n \in IncomingState
    BY <1>2, <2>1, <2>3, <2>6, IncomingTyped, ChunksAreMessages
  <2>8. /\ n.phase = "receiving" /\ n.tid = r.tid /\ n.nextExpectedSeq = s
        /\ n.bytesWritten = v /\ n.receiveCredit = c
        /\ n.pendingChunkQueue = q /\ n.finalize = "no" /\ n.inbox = k /\ n.file = g
    BY <2>3, <2>4, <2>6 DEF IncomingState
  <2>9. Sound(n)
    BY <1>1, <2>1, <2>7, <2>8 DEF Sound, Live
  <2>10. QED
    BY <2>2, <2>8, <2>9 DEF n
<1>10. QED
  BY <1>7, <1>8, <1>9

LEMMA ReceiverQuiet ==
  ASSUME ReceiverInv, R' = R \/ R' = NoIncoming
  PROVE  ReceiverInv'
BY FinishedSound DEF ReceiverInv

LEMMA HandleOfferR ==
  ASSUME ReceiverInv, WireTypes, HandleOffer
  PROVE  ReceiverInv'
<1>1. Head(net["receiver"]) \in Frame
  BY DEF HandleOffer, Takes, WireTypes, End
<1>2. Head(net["receiver"]).tid \in Tid
  BY <1>1 DEF Frame
<1>3. \/ R' = R
      \/ /\ R.phase = "null"
         /\ R' = [R EXCEPT !.phase = "offer-pending", !.tid = Head(net["receiver"]).tid,
                           !.offerTimer = TRUE]
  BY DEF HandleOffer
<1>4. R.phase = "null" =>
        Sound([R EXCEPT !.phase = "offer-pending", !.tid = Head(net["receiver"]).tid,
                        !.offerTimer = TRUE])
  BY <1>2, OfferSound DEF ReceiverInv
<1>5. QED
  BY <1>3, <1>4 DEF ReceiverInv

LEMMA AcceptReadyR ==
  ASSUME ReceiverInv, AcceptReady
  PROVE  ReceiverInv'
<1>1. R' = R \/ R' = [R EXCEPT !.offerTimer = FALSE]
  BY DEF AcceptReady
<1>2. QED
  BY <1>1, TimerSound DEF ReceiverInv

LEMMA TransmitRR ==
  ASSUME ReceiverInv, NEW sent \in BOOLEAN, TransmitR(sent)
  PROVE  ReceiverInv'
<1>1. \/ R' = R
      \/ R' = [R EXCEPT !.offerTimer = TRUE]
      \/ /\ R.phase = "offer-pending"
         /\ R' = [R EXCEPT !.phase = "receiving", !.receiveCredit = RECV_INITIAL_CREDIT,
                           !.stallTimer = TRUE]
  BY DEF TransmitR, StillPending
<1>2. CASE R' = [R EXCEPT !.offerTimer = TRUE]
  BY <1>2, TimerSound DEF ReceiverInv
<1>3. CASE /\ R.phase = "offer-pending"
           /\ R' = [R EXCEPT !.phase = "receiving", !.receiveCredit = RECV_INITIAL_CREDIT,
                             !.stallTimer = TRUE]
  BY <1>3, ReceivingSound DEF ReceiverInv
<1>4. QED
  BY <1>1, <1>2, <1>3 DEF ReceiverInv

LEMMA HandleChunkR ==
  ASSUME ReceiverInv, HandleChunk
  PROVE  ReceiverInv'
<1> DEFINE m == Head(net["receiver"])
           fits == Fits(m.seq)
           b == IF m.seq = 0 THEN FALSE ELSE R.stallTimer
           seen == [R EXCEPT !.nextExpectedSeq = @ + 1, !.stallTimer = b]
<1>1. \/ R' = R \/ R' = NoIncoming
      \/ /\ R.phase = "receiving" /\ fits
         /\ R' = IF R.receiveCredit > 0 THEN PostChunk(seen, m.seq)
                 ELSE [seen EXCEPT !.pendingChunkQueue = Append(@, m.seq)]
  BY DEF HandleChunk, Receiving, Finished
<1>2. R.stallTimer \in BOOLEAN
  BY DEF ReceiverInv, Sound, IncomingState
<1>3. b \in BOOLEAN
  BY <1>2, Zenon
<1> HIDE DEF b
<1>4. CASE /\ R.phase = "receiving" /\ fits
           /\ R' = IF R.receiveCredit > 0 THEN PostChunk(seen, m.seq)
                   ELSE [seen EXCEPT !.pendingChunkQueue = Append(@, m.seq)]
  <2>1. m.seq = R.nextExpectedSeq /\ R.nextExpectedSeq < Chunks
    BY <1>4 DEF Fits, ExpectedSeq
  <2>2. R.finalize = "no"
    <3>1. ASSUME R.finalize # "no" PROVE FALSE
      <4>1. R.nextExpectedSeq = Chunks
        BY <3>1, AskedForAll DEF ReceiverInv
      <4>2. QED
        BY <2>1, <4>1
    <3>2. QED
      BY <3>1
  <2>3. Len(R.pendingChunkQueue) < RECV_PENDING_HARD_CAP
    BY <1>4 DEF Fits
  <2> HIDE DEF seen, fits, m
  <2>4. /\ R.receiveCredit > 0 => Sound(PostChunk(seen, R.nextExpectedSeq))
        /\ ~(R.receiveCredit > 0) =>
             Sound([seen EXCEPT !.pendingChunkQueue = Append(@, R.nextExpectedSeq)])
    <3>1. CASE Live(R)
      BY <1>3, <1>4, <2>1, <2>2, <2>3, <3>1, ChunkSound DEF ReceiverInv, seen
    <3>2. CASE Cut(R.inbox, R.bytesWritten, R.receiveCredit)
      BY <1>3, <1>4, <2>1, <2>2, <3>2, ChunkCut DEF ReceiverInv, seen
    <3>3. QED
      BY <1>4, <3>1, <3>2 DEF ReceiverInv, Sound
  <2>5. QED
    BY <1>4, <2>1, <2>4 DEF ReceiverInv
<1>5. QED
  BY <1>1, <1>4, ReceiverQuiet

LEMMA HandleCompleteR ==
  ASSUME ReceiverInv, HandleComplete
  PROVE  ReceiverInv'
<1> DEFINE n == [R EXCEPT !.hash = TRUE]
<1>1. \/ R' = R \/ R' = NoIncoming
      \/ R.phase = "receiving" /\ R' = MaybeFinalize(n)
  BY DEF HandleComplete, Receiving, Finished
<1>2. Sound(n)
  BY TimerSound DEF ReceiverInv
<1>3. n.phase = R.phase
  BY DEF ReceiverInv, Sound, IncomingState
<1> HIDE DEF n
<1>4. CASE R.phase = "receiving" /\ R' = MaybeFinalize(n)
  BY <1>2, <1>3, <1>4, MaybeFinalizeSound DEF ReceiverInv
<1>5. QED
  BY <1>1, <1>4, ReceiverQuiet

\* What handleWorkerWritten makes of a receiver whose worker is to stop, or whose
\* next post fails: it is never finalized.
LEMMA WriteCut ==
  ASSUME NEW r, Sound(r), r.phase = "receiving", r.inbox # <<>>, Head(r.inbox) # Abort,
         NEW w, w = [r EXCEPT !.inbox = Tail(@), !.file = Append(@, Head(r.inbox)),
                              !.bytesWritten = @ + 1, !.receiveCredit = @ + 1]
  PROVE  /\ Cut(r.inbox, r.bytesWritten, r.receiveCredit) /\ r.finalize = "no" =>
              /\ w.pendingChunkQueue = <<>> => Sound(w) /\ w.phase = "receiving"
              /\ w.pendingChunkQueue # <<>> =>
                   LET n == PostChunk([w EXCEPT !.pendingChunkQueue = Tail(@)], Head(w.pendingChunkQueue))
                   IN Sound(n) /\ n.phase = "receiving"
         /\ w.pendingChunkQueue # <<>> =>
              LET n == [w EXCEPT !.pendingChunkQueue = Tail(@), !.inbox = Append(@, Abort),
                                 !.stallTimer = FALSE]
              IN Sound(n) /\ n.phase = "receiving"
<1> DEFINE i == r.inbox
           p == r.pendingChunkQueue
           c == r.receiveCredit
           h == Tail(i)
           g == Append(r.file, Head(i))
           v == r.bytesWritten + 1
           d == c + 1
<1>1. /\ r \in IncomingState /\ r.tid # 0 /\ r.finalize = "no"
      /\ Live(r) \/ Cut(i, r.bytesWritten, c)
  BY AskedForAll DEF Sound
<1>2. /\ r.nextExpectedSeq \in 0..Chunks /\ c \in 0..RECV_INITIAL_CREDIT /\ c \in Nat
      /\ r.bytesWritten \in Nat /\ i \in Seq(0..Chunks) /\ p \in Seq(Seqno) /\ r.file \in Seq(Seqno)
  BY <1>1, IncomingFields
<1>3. h \in Seq(0..Chunks) /\ Head(i) \in Seqno
  <2>1. \A x \in Seq(0..Chunks) : x # <<>> => Tail(x) \in Seq(0..Chunks) /\ Head(x) \in 0..Chunks
    OBVIOUS
  <2>2. h \in Seq(0..Chunks) /\ Head(i) \in 0..Chunks
    BY <1>2, <2>1
  <2>3. QED
    BY <2>2 DEF Seqno, Abort
<1>4. g \in Seq(Seqno)
  BY <1>2, <1>3
<1>5. v \in 0..Chunks /\ d \in 0..RECV_INITIAL_CREDIT
  <2>1. CASE Live(r)
    BY <1>1, <1>2, <2>1, LiveFields, FlowWrite
  <2>2. CASE Cut(i, r.bytesWritten, c)
    BY <1>2, <2>2, CutWrite
  <2>3. QED
    BY <1>1, <2>1, <2>2
<1>6. w = [r EXCEPT !.inbox = h, !.file = g, !.bytesWritten = v, !.receiveCredit = d]
  OBVIOUS
<1>7. w \in IncomingState
  <2> HIDE DEF i, p, c, h, g, v, d
  <2>1. [r EXCEPT !.inbox = h, !.file = g, !.bytesWritten = v, !.receiveCredit = d] \in IncomingState
    BY <1>1, <1>3, <1>4, <1>5, IncomingTyped
  <2>2. QED
    BY <1>6, <2>1
<1>8. /\ w.phase = "receiving" /\ w.tid = r.tid /\ w.bytesWritten = v /\ w.receiveCredit = d
      /\ w.pendingChunkQueue = p /\ w.finalize = "no" /\ w.inbox = h
  BY <1>1, <1>6 DEF IncomingState
<1>9. Cut(i, r.bytesWritten, c) => Cut(h, v, d)
  BY <1>2, CutWrite
<1>10. p # <<>> => Head(p) \in Seqno /\ Head(p) \in 0..Chunks /\ Tail(p) \in Seq(Seqno)
  <2>1. p # <<>> => Head(p) \in Seqno /\ Tail(p) \in Seq(Seqno)
    BY <1>2
  <2>2. QED
    BY <2>1 DEF Seqno
<1>11. p # <<>> => Append(h, Abort) \in Seq(0..Chunks) /\ Cut(Append(h, Abort), v, d)
  <2>1. CASE Live(r)
    BY <1>1, <1>2, <2>1, LiveFields, CutStarts
  <2>2. CASE Cut(i, r.bytesWritten, c)
    <3>1. Abort \in 0..Chunks /\ v \in Nat /\ d \in Nat /\ d <= d
      <4> HIDE DEF v, d
      <4>1. QED
        BY <1>5 DEF Abort
    <3>2. QED
      BY <1>3, <1>9, <2>2, <3>1, CutAppend
  <2>3. QED
    BY <1>1, <2>1, <2>2
<1>12. v \in Nat /\ d \in Nat /\ d - 1 = c /\ c <= d
  <2>1. \A x \in Nat : x + 1 \in Nat /\ (x + 1) - 1 = x /\ x <= x + 1
    OBVIOUS
  <2> HIDE DEF c
  <2>2. QED
    BY <1>2, <2>1
<1> HIDE DEF i, p, c, h, g, v, d
<1>13. ASSUME Cut(i, r.bytesWritten, c), p = <<>> PROVE Sound(w)
  BY <1>1, <1>7, <1>8, <1>9, <1>13, CutSound
<1>14. ASSUME p # <<>>
       PROVE  [w EXCEPT !.pendingChunkQueue = Tail(p)] \in IncomingState
  BY <1>7, <1>10, <1>14, IncomingTyped
<1>15. ASSUME Cut(i, r.bytesWritten, c), p # <<>>
       PROVE  LET n == PostChunk([w EXCEPT !.pendingChunkQueue = Tail(@)], Head(p))
              IN Sound(n) /\ n.phase = "receiving"
  <2> DEFINE u == [w EXCEPT !.pendingChunkQueue = Tail(p)]
             k == Append(h, Head(p))
             n == PostChunk(u, Head(p))
  <2>1. u \in IncomingState /\ u = [w EXCEPT !.pendingChunkQueue = Tail(@)]
    BY <1>8, <1>14, <1>15
  <2>2. /\ u.phase = "receiving" /\ u.tid = r.tid /\ u.bytesWritten = v /\ u.receiveCredit = d
        /\ u.finalize = "no" /\ u.inbox = h
    BY <1>7, <1>8 DEF IncomingState
  <2>3. k \in Seq(0..Chunks) /\ Cut(k, v, c)
    BY <1>2, <1>3, <1>9, <1>10, <1>12, <1>15, CutAppend
  <2> HIDE DEF u
  <2>4. n = [u EXCEPT !.inbox = k, !.receiveCredit = c]
    BY <1>12, <2>2 DEF PostChunk
  <2> HIDE DEF n, k
  <2>5. n \in IncomingState
    BY <1>2, <2>1, <2>3, <2>4, IncomingTyped
  <2>6. /\ n.phase = "receiving" /\ n.tid = r.tid /\ n.bytesWritten = v /\ n.receiveCredit = c
        /\ n.finalize = "no" /\ n.inbox = k
    BY <2>1, <2>2, <2>4 DEF IncomingState
  <2>7. Sound(n)
    BY <1>1, <2>3, <2>5, <2>6, CutSound
  <2>8. QED
    BY <2>1, <2>6, <2>7 DEF n
<1>16. ASSUME p # <<>>
       PROVE  LET n == [w EXCEPT !.pendingChunkQueue = Tail(@), !.inbox = Append(@, Abort),
                                 !.stallTimer = FALSE]
              IN Sound(n) /\ n.phase = "receiving"
  <2> DEFINE q == Tail(p)
             k == Append(h, Abort)
             n == [w EXCEPT !.pendingChunkQueue = q, !.inbox = k, !.stallTimer = FALSE]
  <2>1. q \in Seq(Seqno) /\ k \in Seq(0..Chunks) /\ Cut(k, v, d)
    BY <1>10, <1>11, <1>16
  <2>2. n = [w EXCEPT !.pendingChunkQueue = Tail(@), !.inbox = Append(@, Abort),
                      !.stallTimer = FALSE]
    BY <1>8
  <2> HIDE DEF q, k
  <2>3. n \in IncomingState
    BY <1>7, <2>1 DEF IncomingState
  <2>4. /\ n.phase = "receiving" /\ n.tid = r.tid /\ n.bytesWritten = v /\ n.receiveCredit = d
        /\ n.finalize = "no" /\ n.inbox = k
    BY <1>7, <1>8 DEF IncomingState
  <2> HIDE DEF n
  <2>5. Sound(n)
    BY <1>1, <2>1, <2>3, <2>4, CutSound
  <2>6. QED
    BY <2>2, <2>4, <2>5
<1>17. QED
  BY <1>8, <1>13, <1>15, <1>16 DEF i, c

LEMMA WorkerWritesR ==
  ASSUME ReceiverInv, WorkerWrites
  PROVE  ReceiverInv'
<1> DEFINE w == [R EXCEPT !.inbox = Tail(@), !.file = Append(@, Head(R.inbox)),
                          !.bytesWritten = @ + 1, !.receiveCredit = @ + 1]
           n == PostChunk([w EXCEPT !.pendingChunkQueue = Tail(@)], Head(w.pendingChunkQueue))
<1>1. w.pendingChunkQueue = R.pendingChunkQueue
  BY DEF ReceiverInv, Sound, IncomingState
<1>2. /\ R.phase = "receiving" /\ R.inbox # <<>> /\ Head(R.inbox) # Abort
      /\ R' = MaybeFinalize(IF w.pendingChunkQueue = <<>> THEN w ELSE n)
  BY <1>1 DEF WorkerWrites, Works, Written
<1> HIDE DEF w
<1>3. /\ w.pendingChunkQueue = <<>> => Sound(w) /\ w.phase = "receiving"
      /\ w.pendingChunkQueue # <<>> => Sound(n) /\ n.phase = "receiving"
  <2>1. CASE Live(R)
    BY <1>2, <2>1, WriteSound DEF ReceiverInv, w
  <2>2. CASE R.finalize = "no" /\ Cut(R.inbox, R.bytesWritten, R.receiveCredit)
    BY <1>2, <2>2, WriteCut DEF ReceiverInv, w
  <2>3. QED
    BY <1>2, <2>1, <2>2 DEF ReceiverInv, Sound
<1> HIDE DEF n
<1>4. QED
  BY <1>2, <1>3, MaybeFinalizeSound DEF ReceiverInv

LEMMA NextPostFailsR ==
  ASSUME ReceiverInv, NextPostFails
  PROVE  ReceiverInv'
<1> DEFINE w == [R EXCEPT !.inbox = Tail(@), !.file = Append(@, Head(R.inbox)),
                          !.bytesWritten = @ + 1, !.receiveCredit = @ + 1]
           n == [w EXCEPT !.pendingChunkQueue = Tail(@), !.inbox = Append(@, Abort),
                          !.stallTimer = FALSE]
<1>1. w.pendingChunkQueue = R.pendingChunkQueue
  BY DEF ReceiverInv, Sound, IncomingState
<1>2. /\ R.phase = "receiving" /\ R.inbox # <<>> /\ Head(R.inbox) # Abort
      /\ R.pendingChunkQueue # <<>> /\ R' = MaybeFinalize(n)
  BY DEF NextPostFails, Works, Written
<1> HIDE DEF w
<1>3. Sound(n) /\ n.phase = "receiving"
  BY <1>1, <1>2, WriteCut DEF ReceiverInv, w
<1> HIDE DEF n
<1>4. QED
  BY <1>2, <1>3, MaybeFinalizeSound DEF ReceiverInv

\* The receiver's other steps.
LEMMA OthersR ==
  ASSUME ReceiverInv,
         \/ AcceptOffer \/ AcceptFails \/ DeclineOffer \/ CancelR \/ OfferPendingTimeout
         \/ HandleCancel \/ ChunkPostFails \/ WriteFails \/ WorkerDone \/ WorkerDoneBadly \/ WorkerKilled
         \/ (\E t \in Tid : CleanedUp(t)) \/ \E e \in End : Drop(e)
  PROVE  ReceiverInv'
<1>1. CASE WorkerDoneBadly \/ WorkerKilled
  BY <1>1, OverSound DEF ReceiverInv, WorkerDoneBadly, WorkerKilled
<1>2. CASE AcceptOffer \/ AcceptFails \/ DeclineOffer \/ CancelR \/ OfferPendingTimeout
  BY <1>2, ReceiverQuiet
     DEF AcceptOffer, AcceptFails, DeclineOffer, CancelR, OfferPendingTimeout, Finished
<1>3. CASE HandleCancel \/ ChunkPostFails \/ WriteFails \/ WorkerDone \/ \E t \in Tid : CleanedUp(t)
  BY <1>3, ReceiverQuiet DEF HandleCancel, ChunkPostFails, WriteFails, WorkerDone, CleanedUp, Finished
<1>4. CASE \E e \in End : Drop(e)
  BY <1>4, ReceiverQuiet DEF Drop, CloseR, Finished
<1>5. QED
  BY <1>1, <1>2, <1>3, <1>4

-----------------------------------------------------------------------------
(* Frames                                                                  *)

LEMMA AcksAppend ==
  ASSUME NEW st, NEW q \in Seq(Frame), NEW m \in Frame, Acks(st, q),
         m.kind = "complete_ack" => st[m.tid] = WholeFile
  PROVE  Acks(st, Append(q, m))
<1> DEFINE n == Append(q, m)
<1>1. /\ Len(n) = Len(q) + 1 /\ n[Len(q) + 1] = m /\ Len(q) \in Nat
      /\ \A i \in 1..Len(q) : n[i] = q[i]
  OBVIOUS
<1> HIDE DEF n
<1>2. Acks(st, n)
  BY <1>1 DEF Acks
<1>3. QED
  BY <1>2 DEF n

LEMMA AcksTail ==
  ASSUME NEW st, NEW q \in Seq(Frame), Acks(st, q), q # <<>>
  PROVE  /\ Acks(st, Tail(q)) /\ Tail(q) \in Seq(Frame) /\ Head(q) \in Frame
         /\ Head(q).kind = "complete_ack" => st[Head(q).tid] = WholeFile
<1> DEFINE n == Tail(q)
<1>1. /\ n \in Seq(Frame) /\ Len(n) = Len(q) - 1 /\ Head(q) = q[1] /\ Len(q) \in Nat \ {0}
      /\ Head(q) \in Frame /\ \A i \in 1..Len(n) : n[i] = q[i + 1]
  OBVIOUS
<1> HIDE DEF n
<1>2. Acks(st, n)
  <2> SUFFICES ASSUME NEW i \in 1..Len(n), n[i].kind = "complete_ack"
               PROVE  st[n[i].tid] = WholeFile
    BY DEF Acks
  <2>1. i + 1 \in 1..Len(q)
    BY <1>1
  <2>2. QED
    BY <1>1, <2>1 DEF Acks
<1>3. QED
  BY <1>1, <1>2 DEF n, Acks

LEMMA AcksPrefix ==
  ASSUME NEW st, NEW q \in Seq(Frame), Acks(st, q), NEW a \in 0..Len(q)
  PROVE  Acks(st, SubSeq(q, 1, a)) /\ SubSeq(q, 1, a) \in Seq(Frame)
<1> DEFINE n == SubSeq(q, 1, a)
<1>1. n \in Seq(Frame) /\ Len(n) = a /\ \A i \in 1..a : n[i] = q[i]
  OBVIOUS
<1> HIDE DEF n
<1>2. Acks(st, n)
  BY <1>1 DEF Acks
<1>3. QED
  BY <1>1, <1>2 DEF n

LEMMA FramesQuiet ==
  ASSUME Frames, UNCHANGED <<out, net, link, stored>>
  PROVE  Frames'
BY DEF Frames, WireTypes, AcksTrue

\* A frame that joins an end's chain.
LEMMA FramesAppended ==
  ASSUME Frames, NEW e \in End, NEW m \in Frame, m.kind # "complete_ack",
         out' = [out EXCEPT ![e] = Append(@, m)]
  PROVE  out' \in [End -> Seq(Frame)] /\ Acks(stored, out'["receiver"])
<1>1. out \in [End -> Seq(Frame)] /\ Acks(stored, out["receiver"])
  BY DEF Frames, WireTypes, AcksTrue
<1>2. Append(out[e], m) \in Seq(Frame)
  BY <1>1
<1>3. out' \in [End -> Seq(Frame)]
  BY <1>1, <1>2
<1>4. "receiver" \in End
  BY DEF End
<1>5. CASE e = "receiver"
  <2>1. Acks(stored, Append(out["receiver"], m))
    BY <1>1, <1>4, AcksAppend
  <2>2. out'["receiver"] = Append(out["receiver"], m)
    BY <1>1, <1>4, <1>5
  <2>3. QED
    BY <1>3, <2>1, <2>2
<1>6. CASE e # "receiver"
  BY <1>1, <1>3, <1>4, <1>6
<1>7. QED
  BY <1>5, <1>6

LEMMA EnqueueFrames ==
  ASSUME Frames, NEW e \in End, NEW m \in Frame, m.kind # "complete_ack", Enqueue(e, m),
         stored' = stored
  PROVE  Frames'
<1>1. out' = [out EXCEPT ![e] = Append(@, m)] /\ UNCHANGED <<net, link>>
  BY DEF Enqueue
<1>2. out' \in [End -> Seq(Frame)] /\ Acks(stored, out'["receiver"])
  BY <1>1, FramesAppended
<1>3. QED
  BY <1>1, <1>2 DEF Frames, WireTypes, AcksTrue

LEMMA TransmitFrames ==
  ASSUME Frames, NEW e \in End, NEW sent \in BOOLEAN, Transmits(e, sent), stored' = stored
  PROVE  Frames'
<1>1. /\ out \in [End -> Seq(Frame)] /\ net \in [End -> Seq(Frame)]
      /\ Acks(stored, out["receiver"]) /\ Acks(stored, net["sender"])
  BY DEF Frames, WireTypes, AcksTrue
<1>2. out[e] \in Seq(Frame) /\ out[e] # <<>> /\ out' = [out EXCEPT ![e] = Tail(@)] /\ link' = link
  BY <1>1 DEF Transmits
<1>3. Tail(out[e]) \in Seq(Frame) /\ Head(out[e]) \in Frame
  BY <1>2
<1>4. out' \in [End -> Seq(Frame)]
  BY <1>1, <1>2, <1>3
<1>5. "receiver" \in End /\ "sender" \in End /\ Peer(e) \in End /\ (Peer(e) = "sender" <=> e = "receiver")
  BY DEF End, Peer
<1>6. Acks(stored, out'["receiver"])
  <2>1. Acks(stored, out["receiver"]) /\ out["receiver"] \in Seq(Frame)
    BY <1>1, <1>5
  <2>2. CASE e = "receiver"
    <3>1. out'["receiver"] = Tail(out["receiver"])
      BY <1>1, <1>2, <1>5, <2>2
    <3>2. QED
      BY <1>2, <2>1, <2>2, <3>1, AcksTail
  <2>3. CASE e # "receiver"
    BY <1>1, <1>2, <1>5, <2>3
  <2>4. QED
    BY <2>2, <2>3
<1>7. CASE net' = net
  BY <1>1, <1>2, <1>4, <1>6, <1>7 DEF Frames, WireTypes, AcksTrue
<1>8. CASE net' = [net EXCEPT ![Peer(e)] = Append(@, Head(out[e]))]
  <2>1. net[Peer(e)] \in Seq(Frame)
    BY <1>1, <1>5
  <2>2. Append(net[Peer(e)], Head(out[e])) \in Seq(Frame)
    BY <1>3, <2>1
  <2>3. net' \in [End -> Seq(Frame)]
    BY <1>1, <1>8, <2>2
  <2>4. Acks(stored, net'["sender"])
    <3>1. CASE e = "receiver"
      <4>1. Head(out[e]).kind = "complete_ack" => stored[Head(out[e]).tid] = WholeFile
        BY <1>1, <1>2, <3>1, AcksTail
      <4>2. Acks(stored, Append(net["sender"], Head(out[e])))
        BY <1>1, <1>3, <1>5, <4>1, AcksAppend
      <4>3. net'["sender"] = Append(net["sender"], Head(out[e]))
        BY <1>1, <1>5, <1>8, <3>1
      <4>4. QED
        BY <4>2, <4>3
    <3>2. CASE e # "receiver"
      BY <1>1, <1>5, <1>8, <3>2
    <3>3. QED
      BY <3>1, <3>2
  <2>5. QED
    BY <1>2, <1>4, <1>6, <2>3, <2>4 DEF Frames, WireTypes, AcksTrue
<1>9. QED
  BY <1>7, <1>8 DEF Transmits

LEMMA TakeFrames ==
  ASSUME Frames, NEW e \in End, NEW k, Takes(e, k), stored' = stored,
         \/ out' = out
         \/ \E t \in Tid, l \in {"decline", "cancel"} : Answers("receiver", Msg(l, t))
  PROVE  /\ Frames' /\ Head(net[e]) \in Frame /\ Head(net[e]).tid \in Tid
         /\ e = "sender" /\ k = "complete_ack" => stored[Head(net[e]).tid] = WholeFile
<1>1. net \in [End -> Seq(Frame)] /\ Acks(stored, net["sender"]) /\ "sender" \in End /\ "receiver" \in End
  BY DEF Frames, WireTypes, AcksTrue, End
<1>2. /\ net[e] \in Seq(Frame) /\ net[e] # <<>> /\ net' = [net EXCEPT ![e] = Tail(@)]
      /\ link' = link /\ Head(net[e]).kind = k
  BY <1>1 DEF Takes
<1>3. Tail(net[e]) \in Seq(Frame) /\ Head(net[e]) \in Frame
  BY <1>2
<1>4. net' \in [End -> Seq(Frame)]
  BY <1>1, <1>2, <1>3
<1>5. Head(net[e]).tid \in Tid
  BY <1>3 DEF Frame
<1>6. /\ Acks(stored, net'["sender"])
      /\ e = "sender" /\ k = "complete_ack" => stored[Head(net[e]).tid] = WholeFile
  <2>1. CASE e = "sender"
    <3>1. /\ Acks(stored, Tail(net["sender"]))
          /\ Head(net[e]).kind = "complete_ack" => stored[Head(net[e]).tid] = WholeFile
      BY <1>1, <1>2, <2>1, AcksTail
    <3>2. net'["sender"] = Tail(net["sender"])
      BY <1>1, <1>2, <2>1
    <3>3. QED
      BY <1>2, <3>1, <3>2
  <2>2. CASE e # "sender"
    BY <1>1, <1>2, <2>2
  <2>3. QED
    BY <2>1, <2>2
<1>7. out' \in [End -> Seq(Frame)] /\ Acks(stored, out'["receiver"])
  <2>1. CASE out' = out
    BY <2>1 DEF Frames, WireTypes, AcksTrue
  <2>2. ASSUME NEW t \in Tid, NEW l \in {"decline", "cancel"}, Answers("receiver", Msg(l, t))
        PROVE  out' \in [End -> Seq(Frame)] /\ Acks(stored, out'["receiver"])
    <3>1. Msg(l, t) \in Frame /\ Msg(l, t).kind # "complete_ack"
      BY MsgIsFrame
    <3>2. QED
      BY <1>1, <2>2, <3>1, FramesAppended DEF Answers
  <2>3. QED
    BY <2>1, <2>2
<1>8. Frames'
  BY <1>2, <1>4, <1>6, <1>7 DEF Frames, WireTypes, AcksTrue
<1>9. QED
  BY <1>3, <1>5, <1>6, <1>8

LEMMA TidsOfActive ==
  ASSUME SenderInv, ReceiverInv
  PROVE  /\ S.phase # "null" => S.tid \in Tid
         /\ S.worker # "none" => S.tid \in Tid
         /\ R.phase # "null" => R.tid \in Tid
<1>1. S.tid \in Tid \cup {0} /\ R.tid \in Tid \cup {0}
  BY IncomingFields DEF SenderInv, SenderTypes, TransferState, ReceiverInv, Sound
<1>2. (S.phase = "null" <=> S.tid = 0) /\ (R.phase = "null" <=> R.tid = 0)
  BY DEF SenderInv, SenderShape, ReceiverInv, Sound
<1>3. S.worker # "none" => S.phase # "null"
  BY DEF SenderInv, SenderShape, SenderTypes, TransferState
<1>4. QED
  BY <1>1, <1>2, <1>3

\* Steps that send one frame, which is not a complete_ack.
LEMMA SendersFrames ==
  ASSUME SenderInv, ReceiverInv, Frames,
         \/ StartTransfer \/ WorkerFatal \/ CancelS \/ AcceptReady \/ AcceptFails
         \/ DeclineOffer \/ CancelR \/ NextPostFails \/ WriteFails \/ WorkerDoneBadly
         \/ \E t \in Tid : LoopSends(t) \/ LoopDrains(t)
  PROVE  Frames'
<1>1. /\ \A e \in End, m \in Frame : m.kind # "complete_ack" /\ Enqueue(e, m) /\ stored' = stored
           => Frames'
      /\ UNCHANGED <<out, net, link, stored>> => Frames'
  BY EnqueueFrames, FramesQuiet
<1>2. \A e \in End, t \in Tid, k \in {"offer", "complete", "cancel", "accept", "decline"} :
        Enqueue(e, Msg(k, t)) /\ stored' = stored => Frames'
  <2> SUFFICES ASSUME NEW e \in End, NEW t \in Tid,
                      NEW k \in {"offer", "complete", "cancel", "accept", "decline"},
                      Enqueue(e, Msg(k, t)), stored' = stored
               PROVE  Frames'
    OBVIOUS
  <2>1. Msg(k, t) \in Frame /\ Msg(k, t).kind # "complete_ack"
    BY MsgIsFrame
  <2>2. QED
    BY <1>1, <2>1
<1>3. "sender" \in End /\ "receiver" \in End
  BY DEF End
<1>4. CASE StartTransfer
  <2>1. offered + 1 \in Tid
    BY <1>4 DEF StartTransfer, SenderInv, SenderTypes, Tid
  <2>2. QED
    BY <1>2, <1>3, <1>4, <2>1 DEF StartTransfer, receiver
<1>5. CASE WorkerFatal
  BY <1>1, <1>2, <1>3, <1>5, TidsOfActive DEF WorkerFatal, receiver, wire
<1>6. CASE CancelS
  BY <1>2, <1>3, <1>6, TidsOfActive DEF CancelS, receiver
<1>7. CASE AcceptReady
  BY <1>1, <1>2, <1>3, <1>7, TidsOfActive DEF AcceptReady, StillPending, wire
<1>8. CASE AcceptFails \/ DeclineOffer \/ CancelR \/ NextPostFails \/ WriteFails \/ WorkerDoneBadly
  BY <1>2, <1>3, <1>8, TidsOfActive
     DEF AcceptFails, StillPending, DeclineOffer, CancelR, NextPostFails, Works, WriteFails,
         WorkerDoneBadly
<1>9. ASSUME NEW t \in Tid, LoopSends(t) PROVE Frames'
  <2> DEFINE m == [kind |-> "chunk", tid |-> t, seq |-> Head(S.queue)]
  <2>1. Enqueue("sender", m) /\ stored' = stored /\ S.queue # <<>>
    BY <1>9 DEF LoopSends, receiver
  <2>2. Head(S.queue) \in Seqno
    BY <2>1 DEF SenderInv, SenderTypes, TransferState
  <2>3. m \in Frame /\ m.kind # "complete_ack"
    BY <2>2 DEF Frame
  <2>4. QED
    BY <1>1, <1>3, <2>1, <2>3
<1>10. ASSUME NEW t \in Tid, LoopDrains(t) PROVE Frames'
  BY <1>2, <1>3, <1>10 DEF LoopDrains, receiver
<1>11. QED
  BY <1>4, <1>5, <1>6, <1>7, <1>8, <1>9, <1>10

\* Steps that take a frame.
LEMMA TakersFrames ==
  ASSUME Frames,
         \/ HandleAccept \/ HandleCompleteAck \/ HandleRefusal
         \/ HandleOffer \/ HandleChunk \/ ChunkPostFails \/ HandleComplete \/ HandleCancel
  PROVE  Frames'
<1>1. "sender" \in End /\ "receiver" \in End
  BY DEF End
<1>2. \A e \in End : \A k : Takes(e, k) /\ stored' = stored /\ out' = out => Frames'
  BY TakeFrames
<1>3. \A e \in End : \A k : Takes(e, k) => Head(net[e]).tid \in Tid
  <2> SUFFICES ASSUME NEW e \in End, NEW k, Takes(e, k) PROVE Head(net[e]).tid \in Tid
    OBVIOUS
  <2>1. net[e] \in Seq(Frame) /\ net[e] # <<>>
    BY DEF Frames, WireTypes, Takes
  <2>2. Head(net[e]) \in Frame
    BY <2>1
  <2>3. QED
    BY <2>2 DEF Frame
<1>4. ASSUME NEW k, Takes("receiver", k), stored' = stored, NEW l \in {"decline", "cancel"},
             out' = out \/ Answers("receiver", Msg(l, Head(net["receiver"]).tid))
      PROVE  Frames'
  BY <1>1, <1>3, <1>4, TakeFrames
<1>5. CASE HandleAccept \/ HandleCompleteAck \/ HandleRefusal
  BY <1>1, <1>2, <1>5 DEF HandleAccept, HandleCompleteAck, HandleRefusal, Silent, receiver
<1>6. CASE HandleOffer
  <2>1. /\ Takes("receiver", "offer") /\ stored' = stored
        /\ out' = out \/ Answers("receiver", Msg("decline", Head(net["receiver"]).tid))
    BY <1>6 DEF HandleOffer, Silent
  <2>2. QED
    BY <1>4, <2>1
<1>7. CASE HandleChunk \/ ChunkPostFails
  <2>1. /\ Takes("receiver", "chunk") /\ stored' = stored
        /\ out' = out \/ Answers("receiver", Msg("cancel", Head(net["receiver"]).tid))
    BY <1>7 DEF HandleChunk, ChunkPostFails, Silent
  <2>2. QED
    BY <1>4, <2>1
<1>8. CASE HandleComplete
  <2>1. /\ Takes("receiver", "complete") /\ stored' = stored
        /\ out' = out \/ Answers("receiver", Msg("cancel", Head(net["receiver"]).tid))
    BY <1>8 DEF HandleComplete, Answers
  <2>2. QED
    BY <1>4, <2>1
<1>9. CASE HandleCancel
  BY <1>1, <1>2, <1>9 DEF HandleCancel, Silent
<1>10. QED
  BY <1>5, <1>6, <1>7, <1>8, <1>9

\* handleWorkerDone stores the file and says so.
LEMMA WorkerDoneFrames ==
  ASSUME IInv, WorkerDone
  PROVE  Frames' /\ RestTypes' /\ StoredIsWhole'
<1>1. R.tid \in Tid /\ R.file = WholeFile
  BY TidsOfActive DEF IInv, WorkerDone
<1>2. stored' = [stored EXCEPT ![R.tid] = WholeFile] /\ stored \in [Tid -> Seq(Seqno)]
  BY <1>1 DEF WorkerDone, IInv, RestTypes
<1>3. R.file \in Seq(Seqno)
  BY DEF IInv, ReceiverInv, Sound, IncomingState
<1>4. stored' \in [Tid -> Seq(Seqno)] /\ stored'[R.tid] = WholeFile
  BY <1>1, <1>2, <1>3
<1>5. \A t \in Tid : stored[t] = WholeFile => stored'[t] = WholeFile
  BY <1>1, <1>2
<1>6. ASSUME NEW q \in Seq(Frame), Acks(stored, q) PROVE Acks(stored', q)
  <2> SUFFICES ASSUME NEW i \in 1..Len(q), q[i].kind = "complete_ack"
               PROVE  stored'[q[i].tid] = WholeFile
    BY DEF Acks
  <2>1. q[i] \in Frame
    BY <1>6
  <2>2. q[i].tid \in Tid
    BY <2>1 DEF Frame
  <2>3. QED
    BY <1>5, <1>6, <2>2 DEF Acks
<1>7. /\ out \in [End -> Seq(Frame)] /\ net \in [End -> Seq(Frame)]
      /\ Acks(stored, out["receiver"]) /\ Acks(stored, net["sender"])
  BY DEF IInv, Frames, WireTypes, AcksTrue
<1> DEFINE m == Msg("complete_ack", R.tid)
<1>8. m \in Frame /\ m.tid = R.tid
  BY <1>1, MsgIsFrame
<1>9. out' = [out EXCEPT !["receiver"] = Append(@, m)] /\ UNCHANGED <<net, link>>
  BY DEF WorkerDone, Enqueue
<1> HIDE DEF m
<1>10. out["receiver"] \in Seq(Frame) /\ net["sender"] \in Seq(Frame)
  BY <1>7 DEF End
<1>11. Acks(stored', net'["sender"])
  BY <1>6, <1>7, <1>9, <1>10
<1>12. Acks(stored', Append(out["receiver"], m))
  BY <1>4, <1>6, <1>7, <1>8, <1>10, AcksAppend
<1>13. out' \in [End -> Seq(Frame)] /\ out'["receiver"] = Append(out["receiver"], m)
  <2>1. Append(out["receiver"], m) \in Seq(Frame) /\ "receiver" \in End
    BY <1>8, <1>10 DEF End
  <2>2. QED
    BY <1>7, <1>9, <2>1
<1>14. Frames'
  BY <1>9, <1>11, <1>12, <1>13 DEF IInv, Frames, WireTypes, AcksTrue
<1>15. UNCHANGED <<kept, accept, cleaning, faults>>
  BY DEF WorkerDone, sender
<1>16. RestTypes'
  BY <1>4, <1>15 DEF IInv, RestTypes
<1>17. StoredIsWhole'
  BY <1>1, <1>2, <1>15 DEF IInv, StoredIsWhole
<1>18. QED
  BY <1>14, <1>16, <1>17

LEMMA DropFrames ==
  ASSUME Frames, NEW e \in End, Drop(e)
  PROVE  Frames'
<1>1. /\ out \in [End -> Seq(Frame)] /\ net \in [End -> Seq(Frame)]
      /\ Acks(stored, out["receiver"]) /\ Acks(stored, net["sender"])
  BY DEF Frames, WireTypes, AcksTrue
<1>2. "sender" \in End /\ "receiver" \in End
  BY DEF End
<1>3. PICK a \in 0..Len(net["sender"]), b \in 0..Len(net["receiver"]) :
        net' = [net EXCEPT !["sender"] = SubSeq(@, 1, a), !["receiver"] = SubSeq(@, 1, b)]
  BY DEF Drop
<1> DEFINE p == SubSeq(net["sender"], 1, a)
           q == SubSeq(net["receiver"], 1, b)
<1>4. p \in Seq(Frame) /\ q \in Seq(Frame)
  BY <1>1, <1>2
<1>5. Acks(stored, p)
  BY <1>1, <1>2, AcksPrefix
<1> HIDE DEF p, q
<1>6. net' \in [End -> Seq(Frame)] /\ net'["sender"] = p
  <2>1. net' = [net EXCEPT !["sender"] = p, !["receiver"] = q]
    BY <1>3 DEF p, q
  <2>2. QED
    BY <1>1, <1>2, <1>4, <2>1
<1>7. link' = e /\ UNCHANGED <<out, stored>>
  BY DEF Drop
<1>8. QED
  BY <1>1, <1>5, <1>6, <1>7 DEF Frames, WireTypes, AcksTrue

-----------------------------------------------------------------------------
(* The rest, and the whole                                                 *)

\* Faults are counted.
LEMMA FaultTyped ==
  ASSUME faults \subseteq Faults, (\E f : Fault(f)) \/ faults' = faults
  PROVE  faults' \subseteq Faults
BY DEF Fault

\* What the steps do to runAcceptOffer, to cleanups and to attachmentMap.
LEMMA RestStep ==
  ASSUME IInv, Next
  PROVE  RestTypes' /\ StoredIsWhole'
<1>1. RestTypes /\ StoredIsWhole /\ Frames /\ SenderInv /\ ReceiverInv
  BY DEF IInv
<1>2. CASE WorkerDone
  BY <1>2, WorkerDoneFrames
<1>3. ASSUME UNCHANGED <<kept, stored>>, accept' \in [await : {"none", "worker", "send"}, tid : Tid \cup {0}],
             cleaning' \subseteq Tid, faults' \subseteq Faults
      PROVE  RestTypes' /\ StoredIsWhole'
  BY <1>1, <1>3 DEF RestTypes, StoredIsWhole
<1>4. ASSUME UNCHANGED <<kept, stored, accept, cleaning>>, (\E f : Fault(f)) \/ faults' = faults
      PROVE  RestTypes' /\ StoredIsWhole'
  BY <1>1, <1>3, <1>4, FaultTyped DEF RestTypes
<1>13. ASSUME NEW e, NEW sent, Transmits(e, sent) PROVE (\E f : Fault(f)) \/ faults' = faults
  BY <1>13 DEF Transmits, Attempts
<1>14. CASE \E sent \in BOOLEAN : TransmitS(sent)
  BY <1>4, <1>13, <1>14 DEF TransmitS, receiver
<1>5. CASE StartTransfer \/ HandleAccept \/ WorkerReady \/ WorkerFatal \/ WorkerReads
           \/ WorkerFinal \/ CancelS \/ OfferedTimeout
  BY <1>4, <1>5 DEF StartTransfer, HandleAccept, WorkerReady, WorkerFatal, WorkerReads,
                    WorkerFinal, CancelS, OfferedTimeout, receiver
<1>6. CASE HandleRefusal \/ \E t \in Tid : LoopSends(t) \/ LoopDrains(t) \/ LoopEnds(t)
  BY <1>4, <1>6 DEF HandleRefusal, LoopSends, LoopDrains, LoopEnds, receiver
<1>7. CASE HandleOffer \/ DeclineOffer \/ CancelR \/ StallTimeout \/ OfferPendingTimeout
           \/ HandleChunk \/ ChunkPostFails \/ HandleComplete \/ HandleCancel \/ WorkerWrites
  BY <1>4, <1>7 DEF HandleOffer, DeclineOffer, CancelR, StallTimeout, OfferPendingTimeout,
                    HandleChunk, ChunkPostFails, HandleComplete, HandleCancel, WorkerWrites, sender
<1>8. CASE NextPostFails \/ WriteFails \/ WorkerKilled \/ Reconnect \/ \E e \in End : Drop(e)
  BY <1>4, <1>8 DEF NextPostFails, WriteFails, WorkerKilled, Reconnect, Drop, sender, receiver
<1>9. CASE AcceptOffer \/ AcceptReady \/ AcceptFails \/ \E sent \in BOOLEAN : TransmitR(sent)
  <2>1. accept' \in [await : {"none", "worker", "send"}, tid : Tid \cup {0}]
    <3>1. accept \in [await : {"none", "worker", "send"}, tid : Tid \cup {0}] /\ R.tid \in Tid \cup {0}
      BY <1>1, IncomingFields DEF RestTypes, ReceiverInv, Sound
    <3>2. QED
      BY <1>9, <3>1 DEF AcceptOffer, AcceptReady, AcceptFails, TransmitR, NoAccept
  <2>2. UNCHANGED <<kept, stored, cleaning>> /\ ((\E f : Fault(f)) \/ faults' = faults)
    BY <1>9, <1>13 DEF AcceptOffer, AcceptReady, AcceptFails, TransmitR, sender
  <2>3. QED
    BY <1>1, <1>3, <2>1, <2>2, FaultTyped DEF RestTypes
<1>10. CASE WorkerDoneBadly \/ \E t \in Tid : CleanedUp(t)
  <2>1. UNCHANGED <<kept, stored, accept>> /\ ((\E f : Fault(f)) \/ faults' = faults)
    BY <1>10 DEF WorkerDoneBadly, CleanedUp, sender
  <2>2. cleaning' \subseteq Tid
    BY <1>1, <1>10, TidsOfActive DEF WorkerDoneBadly, CleanedUp, RestTypes
  <2>3. QED
    BY <1>1, <1>3, <2>1, <2>2, FaultTyped DEF RestTypes
<1>11. CASE HandleCompleteAck \/ VerifyingTimeout
  <2>1. UNCHANGED <<stored, accept, cleaning, faults>>
    BY <1>11 DEF HandleCompleteAck, VerifyingTimeout, receiver
  <2>2. \/ kept' = kept
        \/ S.phase = "verifying" /\ kept' = [kept EXCEPT ![S.tid] = "assumed"]
        \/ /\ HandleCompleteAck /\ S.phase = "verifying" /\ S.tid = Head(net["sender"]).tid
           /\ kept' = [kept EXCEPT ![S.tid] = "acked"]
    BY <1>11 DEF HandleCompleteAck, VerifyingTimeout, Succeed, ForActive
  <2>3. S.phase = "verifying" => S.tid \in Tid
    BY <1>1, TidsOfActive
  <2>4. RestTypes'
    BY <1>1, <2>1, <2>2, <2>3 DEF RestTypes
  <2>5. HandleCompleteAck => stored[Head(net["sender"]).tid] = WholeFile
    BY <1>1, TakeFrames DEF HandleCompleteAck, Silent, End, receiver
  <2>6. StoredIsWhole'
    BY <1>1, <2>1, <2>2, <2>3, <2>5 DEF StoredIsWhole, RestTypes
  <2>7. QED
    BY <2>4, <2>6
<1>12. QED
  BY <1>2, <1>5, <1>6, <1>7, <1>8, <1>9, <1>10, <1>11, <1>14
     DEF Next, SenderSteps, ReceiverSteps, Users

LEMMA FramesStep ==
  ASSUME IInv, Next
  PROVE  Frames'
<1>1. Frames /\ SenderInv /\ ReceiverInv
  BY DEF IInv
<1>2. CASE UNCHANGED <<out, net, link, stored>>
  BY <1>1, <1>2, FramesQuiet
<1>3. CASE WorkerReady \/ WorkerReads \/ WorkerFinal \/ VerifyingTimeout \/ AcceptOffer
           \/ OfferPendingTimeout \/ WorkerWrites \/ WorkerKilled
           \/ \E t \in Tid : LoopEnds(t) \/ CleanedUp(t)
  BY <1>2, <1>3 DEF WorkerReady, WorkerReads, WorkerFinal, VerifyingTimeout, AcceptOffer,
                    OfferPendingTimeout, WorkerWrites, WorkerKilled, LoopEnds, CleanedUp,
                    wire, receiver
<1>4. CASE \E sent \in BOOLEAN : TransmitS(sent) \/ TransmitR(sent)
  BY <1>1, <1>4, TransmitFrames DEF TransmitS, TransmitR, End, receiver
<1>5. CASE Reconnect
  BY <1>1, <1>5 DEF Reconnect, Frames, WireTypes, AcksTrue, receiver
<1>6. CASE WorkerDone
  BY <1>6, WorkerDoneFrames
<1>7. CASE \E e \in End : Drop(e)
  BY <1>1, <1>7, DropFrames
<1>8. OfferedTimeout => CancelS
  BY DEF OfferedTimeout
<1>9. StallTimeout => CancelR
  BY DEF StallTimeout
<1>10. QED
  BY <1>1, <1>3, <1>4, <1>5, <1>6, <1>7, <1>8, <1>9, SendersFrames, TakersFrames
     DEF Next, SenderSteps, ReceiverSteps, Users

LEMMA SenderStep ==
  ASSUME IInv, Next
  PROVE  SenderInv'
<1>1. SenderInv /\ WireTypes
  BY DEF IInv, Frames
<1>2. CASE SenderSteps \/ StartTransfer \/ CancelS \/ OfferedTimeout \/ VerifyingTimeout
           \/ WorkerFatal
  BY <1>1, <1>2, TransmitSS, HandleAcceptS, WorkerReadyS, WorkerReadsS, WorkerFinalS,
     LoopSendsS, LoopDrainsS, LoopEndsS, EndsS, StartTransferS
     DEF SenderSteps, OfferedTimeout
<1>3. CASE \E e \in End : Drop(e)
  BY <1>1, <1>3, DropS
<1>4. ASSUME UNCHANGED <<S, loop, offered>>, out'["sender"] = out["sender"]
      PROVE  SenderInv'
  BY <1>1, <1>4, SenderQuiet
<1>5. ASSUME NEW q, out' = [out EXCEPT !["receiver"] = q] PROVE out'["sender"] = out["sender"]
  BY <1>1, <1>5 DEF WireTypes
<1>6. CASE \/ \E sent \in BOOLEAN : TransmitR(sent)
           \/ HandleOffer \/ HandleChunk \/ ChunkPostFails \/ HandleComplete \/ HandleCancel
  BY <1>4, <1>5, <1>6
     DEF TransmitR, Transmits, HandleOffer, HandleChunk, ChunkPostFails, HandleComplete, HandleCancel,
         Answers, Silent, sender
<1>7. CASE AcceptReady \/ WorkerWrites \/ WorkerDone \/ \E t \in Tid : CleanedUp(t)
  BY <1>4, <1>5, <1>7 DEF AcceptReady, WorkerWrites, WorkerDone, CleanedUp, Enqueue, sender, wire
<1>8. CASE AcceptOffer \/ DeclineOffer \/ CancelR \/ OfferPendingTimeout \/ StallTimeout
  BY <1>4, <1>5, <1>8
     DEF AcceptOffer, DeclineOffer, CancelR, OfferPendingTimeout, StallTimeout, Enqueue, sender, wire
<1>9. CASE AcceptFails \/ NextPostFails \/ WriteFails \/ WorkerDoneBadly \/ WorkerKilled \/ Reconnect
  BY <1>4, <1>5, <1>9
     DEF AcceptFails, NextPostFails, WriteFails, WorkerDoneBadly, WorkerKilled, Reconnect, Enqueue, sender, wire
<1>10. QED
  BY <1>2, <1>3, <1>6, <1>7, <1>8, <1>9 DEF Next, ReceiverSteps, Users

LEMMA ReceiverStep ==
  ASSUME IInv, Next
  PROVE  ReceiverInv'
<1>1. ReceiverInv /\ WireTypes
  BY DEF IInv, Frames
<1>2. CASE R' = R
  BY <1>1, <1>2, ReceiverQuiet
<1>3. CASE SenderSteps
  BY <1>2, <1>3 DEF SenderSteps, TransmitS, HandleAccept, HandleCompleteAck, HandleRefusal,
    WorkerReady, WorkerReads, WorkerFinal, LoopSends, LoopDrains, LoopEnds, receiver
<1>4. CASE StartTransfer \/ CancelS \/ OfferedTimeout \/ VerifyingTimeout \/ WorkerFatal \/ Reconnect
  BY <1>2, <1>4 DEF StartTransfer, CancelS, OfferedTimeout, VerifyingTimeout, WorkerFatal, Reconnect,
    receiver
<1>5. CASE ReceiverSteps
  BY <1>1, <1>5, TransmitRR, HandleOfferR, HandleChunkR, HandleCompleteR, AcceptReadyR,
     WorkerWritesR, OthersR DEF ReceiverSteps
<1>8. CASE NextPostFails
  BY <1>1, <1>8, NextPostFailsR
<1>6. CASE AcceptOffer \/ DeclineOffer \/ CancelR \/ OfferPendingTimeout \/ StallTimeout
           \/ AcceptFails \/ ChunkPostFails \/ WriteFails \/ WorkerDoneBadly \/ WorkerKilled
           \/ \E e \in End : Drop(e)
  BY <1>1, <1>6, OthersR DEF StallTimeout
<1>7. QED
  BY <1>3, <1>4, <1>5, <1>6, <1>8 DEF Next, Users

LEMMA InitIInv == Init => IInv
<1> SUFFICES ASSUME Init PROVE IInv
  OBVIOUS
<1>1. SenderInv
  <2>1. SenderTypes /\ NewLoops
    BY NullTyped DEF Init, SenderTypes, NewLoops
  <2>2. SenderShape /\ SenderCredit /\ SendingHasLoop
    BY DEF Init, SenderShape, SenderCredit, SendingHasLoop, NoTransfer
  <2>3. Awaits(loop, out["sender"])
    <3>1. out["sender"] = <<>> /\ Len(out["sender"]) = 0 /\ \A t \in Tid : loop[t] # "chunk"
      BY DEF Init, End
    <3>2. QED
      BY <3>1 DEF Awaits
  <2>4. QED
    BY <2>1, <2>2, <2>3 DEF SenderInv
<1>2. ReceiverInv
  BY FinishedSound DEF Init, ReceiverInv
<1>3. Frames
  <2>1. WireTypes
    BY DEF Init, WireTypes
  <2>2. Len(out["receiver"]) = 0 /\ Len(net["sender"]) = 0
    BY DEF Init, End
  <2>3. QED
    BY <2>1, <2>2 DEF Frames, AcksTrue, Acks
<1>4. RestTypes /\ StoredIsWhole
  BY DEF Init, RestTypes, StoredIsWhole, NoAccept
<1>5. QED
  BY <1>1, <1>2, <1>3, <1>4 DEF IInv

LEMMA NextIInv == IInv /\ [Next]_vars => IInv'
<1>1. CASE IInv /\ Next
  BY <1>1, SenderStep, ReceiverStep, FramesStep, RestStep DEF IInv
<1>2. CASE IInv /\ UNCHANGED vars
  <2>1. UNCHANGED <<S, loop, kept, R, accept, cleaning, stored, out, net, link, offered, faults>>
    BY <1>2 DEF vars, sender, receiver, wire
  <2>2. SenderInv' /\ ReceiverInv' /\ Frames'
    BY <1>2, <2>1, SenderQuiet, ReceiverQuiet, FramesQuiet DEF IInv
  <2>3. RestTypes' /\ StoredIsWhole'
    BY <1>2, <2>1 DEF IInv, RestTypes, StoredIsWhole
  <2>4. QED
    BY <2>2, <2>3 DEF IInv
<1>3. QED
  BY <1>1, <1>2

LEMMA Invariant == Spec => []IInv
BY InitIInv, NextIInv, PTL DEF Spec

\* The sender's and the receiver's locals keep their types: no credit, chunk
\* number or count of written bytes leaves its range.
THEOREM TransfersTyped == Spec => []TypeOK
<1>1. IInv => TypeOK
  BY DEF IInv, SenderInv, SenderTypes, ReceiverInv, Sound, Frames, WireTypes, RestTypes, TypeOK
<1>2. QED
  BY <1>1, Invariant, PTL

\* Flow control is exact at both ends, whatever transfers were cancelled before.
THEOREM CreditIsExact == Spec => []CreditExact
<1>1. IInv => CreditExact
  <2> SUFFICES ASSUME IInv PROVE CreditExact
    OBVIOUS
  <2>1. S.final \in BOOLEAN
    BY DEF IInv, SenderInv, SenderTypes, TransferState
  <2>2. ~S.final => S.final = FALSE
    BY <2>1, Zenon
  <2>3. SenderCredit /\ (R.phase = "receiving" /\ (\A i \in DOMAIN R.inbox : R.inbox[i] # Abort) =>
          Flow(R.file, R.inbox, R.pendingChunkQueue, R.bytesWritten, R.nextExpectedSeq,
               R.receiveCredit))
    <3>1. R.inbox \in Seq(0..Chunks) /\ DOMAIN R.inbox = 1..Len(R.inbox)
      BY IncomingFields DEF IInv, ReceiverInv, Sound
    <3>2. QED
      BY <3>1 DEF IInv, SenderInv, ReceiverInv, Sound, Live, Cut
  <2>4. QED
    BY <2>2, <2>3 DEF CreditExact, SenderCredit, Flow
<1>2. QED
  BY <1>1, Invariant, PTL

\* A transfer that is being sent has its runSendLoop.
THEOREM SendingKeepsLoop == Spec => []SendingHasLoop
<1>1. IInv => SendingHasLoop
  BY DEF IInv, SenderInv
<1>2. QED
  BY <1>1, Invariant, PTL

\* The worker is asked to finish a file that is complete and in order.
THEOREM FinalizesCompleteFiles == Spec => []FinalizeIsComplete
<1>1. IInv => FinalizeIsComplete
  BY AskedForAll DEF IInv, ReceiverInv, FinalizeIsComplete
<1>2. QED
  BY <1>1, Invariant, PTL

\* What is offered for download is whole, and what was acknowledged is there.
THEOREM StoresWholeFiles == Spec => []StoredIsWhole
<1>1. IInv => StoredIsWhole
  BY DEF IInv
<1>2. QED
  BY <1>1, Invariant, PTL
=============================================================================
