-------------------------- MODULE SendCounterProofs --------------------------
(***************************************************************************)
(* For every block size, every counter width and every number of rekeys    *)
(* and frames: no nonce is used twice under a key, a resumable record is   *)
(* ahead of what was sent, and nothing rolls back.                         *)
(***************************************************************************)
EXTENDS SendCounter, TLAPS

(***************************************************************************)
(* NonceUnique is not inductive: a resume is only safe because the record  *)
(* it reads agrees with the memory that was lost.  The strengthening says  *)
(* what memory and record know of the frames sent so far.                  *)
(***************************************************************************)

\* Memory: keys never return, and under the current key the frames of an end
\* are counted by committed, which the reservation covers.
MemoryAhead ==
  \A r \in Role :
    /\ committed[r] <= reserved[r]
    /\ \A i \in SentBy(r) :
         /\ sent[i].key <= key[r]
         /\ sent[i].key = key[r] => sent[i].counter <= committed[r]

\* Record: while a page is there the mirror and the record go together, a
\* resumable record has the current key and the current reservation, and a
\* rekey under way has marked it.
RecordAgrees(r) ==
  /\ page[r] # "gone" => (mirrored[r] <=> record[r] # NoRecord)
  /\ Resumable(r) => record[r].k = key[r] /\ record[r].s = reserved[r]
  /\ page[r] # "gone" /\ rekey[r] # "none" => mirrored[r] /\ ~Resumable(r)

RecordMatches == \A r \in Role : RecordAgrees(r)

IInv == TypeOK /\ MemoryAhead /\ RecordMatches /\ NonceUnique

USE BlockAssumption, CounterAssumption, BoundAssumption

\* The fields of a stored session, and that writing the counter or the marker
\* into one leaves a stored session (mirrorStoredSession).
LEMMA RecordType ==
  /\ NoRecord \notin Record
  /\ \A x \in Record : /\ x.k \in Key /\ x.s \in Nat /\ x.rekey_in_progress \in BOOLEAN
                       /\ \A n \in Nat : [x EXCEPT !.s = n] \in Record
                       /\ [x EXCEPT !.rekey_in_progress = TRUE] \in Record
BY DEF Record, NoRecord

\* mirror.setCounterSend changes the send counter and no other field.
LEMMA RecordUpdate ==
  ASSUME NEW x \in Record, NEW m \in Nat, NEW y, y = [x EXCEPT !.s = m]
  PROVE  /\ y \in Record /\ y # NoRecord
         /\ y.k = x.k /\ y.s = m /\ y.rekey_in_progress = x.rekey_in_progress
BY DEF Record, NoRecord

\* allocateCounter keeps the types, and the bound it reserves covers the counter
\* it hands out.
LEMMA AllocateType ==
  ASSUME TypeOK, RecordMatches, NEW r \in Role, NEW kind \in RelayKind, page[r] # "gone",
         Allocate(r, kind)
  PROVE  /\ reserved' \in [Role -> Nat] /\ committed' \in [Role -> Nat]
         /\ record' \in [Role -> Record \cup {NoRecord}]
         /\ NextReserved(r, kind) \in Nat
         /\ committed[r] <= reserved[r] => committed[r] + 1 <= NextReserved(r, kind)
<1>1. /\ NextReserved(r, kind) \in Nat
      /\ committed[r] <= reserved[r] => committed[r] + 1 <= NextReserved(r, kind)
  BY DEF TypeOK, NextReserved, blockSizeFor
<1>2. record' \in [Role -> Record \cup {NoRecord}]
  <2>1. CASE mirrored[r]
    <3>1. record[r] \in Record
      BY <2>1 DEF TypeOK, RecordMatches, RecordAgrees
    <3>2. record' = [record EXCEPT ![r] = [record[r] EXCEPT !.s = NextReserved(r, kind)]]
      BY <2>1 DEF Allocate, PersistReserved
    <3>3. QED
      BY <1>1, <3>1, <3>2, RecordType DEF TypeOK
  <2>2. CASE ~mirrored[r]
    BY <2>2 DEF Allocate, PersistReserved, TypeOK
  <2>3. QED
    BY <2>1, <2>2
<1>3. reserved' \in [Role -> Nat] /\ committed' \in [Role -> Nat]
  <2>1. reserved \in [Role -> Nat] /\ committed \in [Role -> Nat]
    BY DEF TypeOK
  <2>2. QED
    BY <1>1, <2>1 DEF Allocate
<1>4. QED
  BY <1>1, <1>2, <1>3

\* The initial state: both ends fresh out of the handshake.
LEMMA InitIInv == Init => IInv
<1> SUFFICES ASSUME Init PROVE IInv
  OBVIOUS
<1>1. TypeOK
  BY DEF Init, TypeOK, Key
<1>2. MemoryAhead
  BY DEF Init, MemoryAhead, SentBy
<1>3. RecordMatches
  BY DEF Init, RecordMatches, RecordAgrees, Resumable
<1>4. NonceUnique
  BY DEF Init, NonceUnique
<1>5. QED
  BY <1>1, <1>2, <1>3, <1>4 DEF IInv

\* What allocateCounter keeps: it moves one end's counters forward together,
\* and the record's bound with them.
LEMMA AllocateKeeps ==
  ASSUME IInv, NEW r \in Role, NEW kind \in RelayKind, page[r] # "gone",
         Allocate(r, kind), UNCHANGED <<key, mirrored, rekey>>,
         page' \in [Role -> {"live", "ended", "gone"}],
         \A q \in Role : page'[q] = "gone" <=> page[q] = "gone"
  PROVE  /\ RecordMatches'
         /\ \A q \in Role : /\ committed'[q] >= committed[q]
                            /\ committed'[q] <= reserved'[q]
<1> DEFINE n == NextReserved(r, kind)
<1>1. /\ n \in Nat /\ committed[r] + 1 <= n
      /\ record' \in [Role -> Record \cup {NoRecord}]
  BY AllocateType DEF IInv, MemoryAhead
<1> HIDE DEF n
<1>2. \A q \in Role : committed'[q] >= committed[q] /\ committed'[q] <= reserved'[q]
  BY <1>1 DEF IInv, TypeOK, MemoryAhead, Allocate, n
<1>3. ASSUME NEW q \in Role, q # r
      PROVE  RecordAgrees(q)'
  <2>1. record'[q] = record[q] /\ reserved'[q] = reserved[q]
    BY <1>3 DEF Allocate, PersistReserved, IInv, TypeOK
  <2>2. RecordAgrees(q)
    BY DEF IInv, RecordMatches
  <2>3. QED
    BY <2>1, <2>2 DEF RecordAgrees, Resumable
<1>4. CASE ~mirrored[r]
  <2>1. record' = record /\ record[r] = NoRecord /\ RecordAgrees(r)
    BY <1>4 DEF Allocate, PersistReserved, IInv, RecordMatches, RecordAgrees
  <2>2. RecordAgrees(r)'
    BY <2>1 DEF RecordAgrees, Resumable
  <2>3. QED
    BY <1>2, <1>3, <2>2 DEF RecordMatches
<1>5. CASE mirrored[r]
  <2>1. record[r] \in Record /\ RecordAgrees(r)
    BY <1>5 DEF IInv, TypeOK, RecordMatches, RecordAgrees
  <2>2. record'[r] = [record[r] EXCEPT !.s = n] /\ reserved'[r] = n
    BY <1>5 DEF Allocate, PersistReserved, IInv, TypeOK, n
  <2>3. /\ record'[r] # NoRecord
        /\ record'[r].k = record[r].k /\ record'[r].s = n
        /\ record'[r].rekey_in_progress = record[r].rekey_in_progress
    BY <1>1, <2>1, <2>2, RecordUpdate
  <2>4. Resumable(r)' <=> Resumable(r)
    BY <2>1, <2>3, RecordType DEF Resumable
  <2>5. RecordAgrees(r)'
    BY <1>5, <2>1, <2>2, <2>3, <2>4 DEF RecordAgrees
  <2>6. QED
    BY <1>2, <1>3, <2>5 DEF RecordMatches
<1>6. QED
  BY <1>4, <1>5

\* A frame is sent: its counter is above every counter this end has used under
\* the current key, and the other end's frames have the other direction.
LEMMA SendIInv ==
  ASSUME IInv, NEW r \in Role, NEW kind \in RelayKind, Send(r, kind)
  PROVE  IInv'
<1> DEFINE f == FrameOf(r, committed[r] + 1)
<1>0. /\ page[r] # "gone" /\ Allocate(r, kind) /\ UNCHANGED <<page, key, mirrored, rekey>>
      /\ sent' = Append(sent, f) /\ sent \in Seq(Frame)
      /\ committed[r] \in Nat /\ key[r] \in Key
  BY DEF IInv, TypeOK, Send
<1>1. f \in Frame /\ f.key = key[r] /\ f.counter = committed[r] + 1
      /\ f.direction = directionForRole(r)
  BY <1>0 DEF Send, NonceFits, FrameOf, Frame, directionForRole
<1> HIDE DEF f
<1>2. TypeOK'
  BY <1>0, <1>1, AllocateType DEF IInv, TypeOK
<1>3. RecordMatches' /\ \A q \in Role : /\ committed'[q] >= committed[q]
                                        /\ committed'[q] <= reserved'[q]
  BY <1>0, AllocateKeeps DEF IInv, TypeOK
<1>4. /\ DOMAIN sent' = DOMAIN sent \cup {Len(sent) + 1}
      /\ Len(sent) + 1 \notin DOMAIN sent
      /\ sent'[Len(sent) + 1] = f
      /\ \A i \in DOMAIN sent : sent'[i] = sent[i] /\ sent[i] \in Frame
  BY <1>0, <1>1
<1>5. MemoryAhead'
  <2>1. SUFFICES ASSUME NEW q \in Role, NEW i \in DOMAIN sent',
                        sent'[i].direction = directionForRole(q)
                 PROVE  /\ sent'[i].key <= key'[q]
                        /\ sent'[i].key = key'[q] => sent'[i].counter <= committed'[q]
    BY <1>3 DEF MemoryAhead, SentBy
  <2>2. CASE i = Len(sent) + 1
    <3>1. q = r
      BY <1>1, <1>4, <2>1, <2>2 DEF Role, directionForRole
    <3>2. committed'[r] = committed[r] + 1
      BY <1>0 DEF Allocate, IInv, TypeOK
    <3>3. QED
      BY <1>0, <1>1, <1>4, <2>2, <3>1, <3>2 DEF Key
  <2>3. CASE i \in DOMAIN sent
    <3>1. i \in SentBy(q) /\ sent'[i] = sent[i] /\ key'[q] = key[q]
      BY <1>0, <1>4, <2>1, <2>3 DEF SentBy
    <3>2. sent[i].key <= key[q] /\ (sent[i].key = key[q] => sent[i].counter <= committed[q])
      BY <3>1 DEF IInv, MemoryAhead
    <3>3. /\ committed[q] \in Nat /\ committed'[q] \in Nat /\ committed'[q] >= committed[q]
          /\ sent[i].counter \in Nat
      BY <1>2, <1>3, <1>4, <2>3 DEF IInv, TypeOK, Frame
    <3>4. QED
      BY <3>1, <3>2, <3>3
  <2>4. QED
    BY <1>4, <2>2, <2>3
<1>6. NonceUnique'
  <2>1. ASSUME NEW i \in DOMAIN sent, sent[i] = f
        PROVE  FALSE
    <3>1. i \in SentBy(r) /\ sent[i].key = key[r] /\ sent[i].counter = committed[r] + 1
      BY <1>1, <2>1 DEF SentBy
    <3>2. sent[i].counter <= committed[r]
      BY <3>1 DEF IInv, MemoryAhead
    <3>3. QED
      BY <1>0, <3>1, <3>2
  <2>2. QED
    BY <1>4, <2>1 DEF NonceUnique, IInv
<1>7. QED
  BY <1>2, <1>3, <1>5, <1>6 DEF IInv

\* The other steps send nothing, so NonceUnique is kept, and MemoryAhead is kept
\* by an end whose key does not go back nor its counter under the same key.
LEMMA QuietStep ==
  ASSUME IInv, TypeOK', UNCHANGED sent,
         \A q \in Role : /\ key'[q] >= key[q]
                         /\ key'[q] = key[q] => committed'[q] >= committed[q]
                         /\ committed'[q] <= reserved'[q]
  PROVE  MemoryAhead' /\ NonceUnique'
<1>1. NonceUnique'
  BY DEF IInv, NonceUnique
<1>2. MemoryAhead'
  <2>0. \A q \in Role : SentBy(q)' = SentBy(q)
    BY DEF SentBy
  <2>1. SUFFICES ASSUME NEW q \in Role, NEW i \in SentBy(q)
                 PROVE  /\ sent[i].key <= key'[q]
                        /\ sent[i].key = key'[q] => sent[i].counter <= committed'[q]
    BY <2>0 DEF MemoryAhead
  <2>2. /\ sent[i].key <= key[q] /\ (sent[i].key = key[q] => sent[i].counter <= committed[q])
        /\ sent[i] \in Frame
    BY DEF IInv, MemoryAhead, SentBy, TypeOK
  <2>3. /\ sent[i].key \in Int /\ sent[i].counter \in Int /\ key[q] \in Int /\ key'[q] \in Int
        /\ committed[q] \in Int /\ committed'[q] \in Int
    BY <2>2 DEF IInv, TypeOK, Frame, Key
  <2>4. QED
    BY <2>2, <2>3
<1>3. QED
  BY <1>1, <1>2

\* The steps of one end that do not allocate a counter.
LEMMA QuietIInv ==
  ASSUME IInv, NEW r \in Role,
         \/ SendStorageFails(r) \/ UpgradeToPrf(r) \/ SetRekeyInProgress(r)
         \/ CommitRekey(r) \/ FinishRekey(r) \/ Terminate(r) \/ FinalizeTermination(r)
         \/ ReloadWithoutRecord(r) \/ ReloadAndResume(r)
  PROVE  /\ IInv'
         /\ \A q \in Role : /\ key'[q] >= key[q]
                            /\ key'[q] = key[q] => committed'[q] >= committed[q]
<1> DEFINE Forward == \A q \in Role : /\ key'[q] >= key[q]
                                      /\ key'[q] = key[q] => committed'[q] >= committed[q]
                                      /\ committed'[q] <= reserved'[q]
<1>0. /\ TypeOK /\ RecordMatches
      /\ \A q \in Role : /\ committed[q] \in Nat /\ reserved[q] \in Nat /\ key[q] \in Nat
                         /\ committed[q] <= reserved[q]
      /\ \A q \in Role : record[q] # NoRecord => record[q] \in Record
  BY DEF IInv, TypeOK, MemoryAhead, Key
<1>1. SUFFICES TypeOK' /\ RecordMatches' /\ Forward /\ UNCHANGED sent
  BY QuietStep DEF IInv
<1>2. ASSUME NEW q \in Role, q # r, page'[q] = page[q], mirrored'[q] = mirrored[q],
             record'[q] = record[q], key'[q] = key[q], reserved'[q] = reserved[q],
             rekey'[q] = rekey[q]
      PROVE  RecordAgrees(q)'
  BY <1>0, <1>2 DEF RecordMatches, RecordAgrees, Resumable
<1>3. CASE SendStorageFails(r) \/ Terminate(r)
  <2>1. TypeOK'
    BY <1>0, <1>3 DEF SendStorageFails, Terminate, mem, TypeOK
  <2>4. Forward
    BY <1>0, <1>3 DEF SendStorageFails, Terminate, mem, TypeOK
  <2>2. RecordAgrees(r)'
    BY <1>0, <1>3 DEF SendStorageFails, Terminate, mem, TypeOK, RecordMatches, RecordAgrees, Resumable
  <2>3. QED
    BY <1>0, <1>2, <1>3, <2>1, <2>4, <2>2 DEF SendStorageFails, Terminate, mem, TypeOK, RecordMatches
<1>4. CASE UpgradeToPrf(r)
  <2>1. TypeOK'
    BY <1>0, <1>4 DEF UpgradeToPrf, PersistRecord, TypeOK, Record
  <2>4. Forward
    BY <1>0, <1>4 DEF UpgradeToPrf, PersistRecord, TypeOK, Record
  <2>2. RecordAgrees(r)'
    BY <1>0, <1>4 DEF UpgradeToPrf, PersistRecord, TypeOK, RecordMatches, RecordAgrees, Resumable,
                      NoRecord
  <2>3. QED
    BY <1>0, <1>2, <1>4, <2>1, <2>4, <2>2 DEF UpgradeToPrf, PersistRecord, TypeOK, RecordMatches
<1>5. CASE SetRekeyInProgress(r)
  <2>0. record[r] \in Record /\ record'[r] = [record[r] EXCEPT !.rekey_in_progress = TRUE]
    BY <1>0, <1>5 DEF SetRekeyInProgress, TypeOK, RecordMatches, RecordAgrees
  <2>1. TypeOK'
    BY <1>0, <1>5, <2>0, RecordType DEF SetRekeyInProgress, TypeOK
  <2>4. Forward
    BY <1>0, <1>5, <2>0, RecordType DEF SetRekeyInProgress, TypeOK
  <2>2. RecordAgrees(r)'
    <3>1. record'[r] \in Record /\ record'[r].rekey_in_progress
      BY <2>0, RecordType DEF Record
    <3>2. QED
      BY <1>0, <1>5, <3>1, RecordType DEF SetRekeyInProgress, TypeOK, RecordAgrees, Resumable
  <2>3. QED
    BY <1>0, <1>2, <1>5, <2>1, <2>4, <2>2 DEF SetRekeyInProgress, TypeOK, RecordMatches
<1>6. CASE CommitRekey(r)
  <2>1. TypeOK'
    BY <1>0, <1>6 DEF CommitRekey, TypeOK, Key
  <2>2. Forward
    BY <1>0, <1>6 DEF CommitRekey, TypeOK
  <2>3. RecordAgrees(r)'
    BY <1>0, <1>6 DEF CommitRekey, TypeOK, RecordMatches, RecordAgrees, Resumable
  <2>4. QED
    BY <1>0, <1>2, <1>6, <2>1, <2>2, <2>3 DEF CommitRekey, TypeOK, RecordMatches
<1>7. CASE FinishRekey(r)
  <2>1. TypeOK'
    BY <1>0, <1>7 DEF FinishRekey, PersistRecord, TypeOK, Record
  <2>4. Forward
    BY <1>0, <1>7 DEF FinishRekey, PersistRecord, TypeOK, Record
  <2>2. RecordAgrees(r)'
    BY <1>0, <1>7 DEF FinishRekey, PersistRecord, TypeOK, RecordMatches, RecordAgrees, Resumable,
                      NoRecord
  <2>3. QED
    BY <1>0, <1>2, <1>7, <2>1, <2>4, <2>2 DEF FinishRekey, PersistRecord, TypeOK, RecordMatches
<1>8. CASE FinalizeTermination(r) \/ ReloadWithoutRecord(r)
  <2>1. TypeOK'
    BY <1>0, <1>8 DEF FinalizeTermination, ReloadWithoutRecord, mem, TypeOK
  <2>4. Forward
    BY <1>0, <1>8 DEF FinalizeTermination, ReloadWithoutRecord, mem, TypeOK
  <2>2. RecordAgrees(r)'
    BY <1>0, <1>8 DEF FinalizeTermination, ReloadWithoutRecord, mem, TypeOK, RecordAgrees, Resumable
  <2>3. QED
    BY <1>0, <1>2, <1>8, <2>1, <2>4, <2>2
    DEF FinalizeTermination, ReloadWithoutRecord, mem, TypeOK, RecordMatches
<1>9. CASE ReloadAndResume(r)
  <2>0. /\ record[r] \in Record /\ record[r].k \in Key /\ record[r].s \in Nat
        /\ record[r].k = key[r] /\ record[r].s = reserved[r]
    BY <1>0, <1>9, RecordType DEF ReloadAndResume, Resumable, RecordMatches, RecordAgrees
  <2>1. TypeOK'
    BY <1>0, <1>9, <2>0 DEF ReloadAndResume, TypeOK
  <2>4. Forward
    BY <1>0, <1>9, <2>0 DEF ReloadAndResume, TypeOK
  <2>2. RecordAgrees(r)'
    BY <1>0, <1>9, <2>0 DEF ReloadAndResume, TypeOK, RecordAgrees, Resumable
  <2>3. QED
    BY <1>0, <1>2, <1>9, <2>1, <2>4, <2>2 DEF ReloadAndResume, TypeOK, RecordMatches
<1>10. QED
  BY <1>3, <1>4, <1>5, <1>6, <1>7, <1>8, <1>9

-----------------------------------------------------------------------------
\* Every step of either end keeps the invariant.
LEMMA NextIInv ==
  ASSUME IInv, [Next]_vars
  PROVE  /\ IInv'
         /\ \A q \in Role : /\ key'[q] >= key[q]
                            /\ key'[q] = key[q] => committed'[q] >= committed[q]
<1> DEFINE Forward(q) == key'[q] >= key[q] /\ (key'[q] = key[q] => committed'[q] >= committed[q])
<1>0. \A q \in Role : key[q] \in Nat /\ committed[q] \in Nat
  BY DEF IInv, TypeOK, Key
<1>1. CASE UNCHANGED vars
  <2>1. IInv'
    BY <1>1 DEF vars, IInv, TypeOK, MemoryAhead, SentBy, RecordMatches, RecordAgrees, Resumable,
                NonceUnique
  <2>2. QED
    BY <1>0, <1>1, <2>1 DEF vars
<1>2. ASSUME NEW r \in Role, NEW kind \in RelayKind, Send(r, kind)
      PROVE  IInv' /\ \A q \in Role : Forward(q)
  <2>1. IInv'
    BY <1>2, SendIInv
  <2>2. key' = key /\ committed' = [committed EXCEPT ![r] = @ + 1]
    BY <1>2 DEF Send, Allocate
  <2>3. \A q \in Role : Forward(q)
    BY <1>0, <2>2 DEF IInv, TypeOK
  <2>4. QED
    BY <2>1, <2>3
<1>3. ASSUME NEW r \in Role, NEW kind \in RelayKind, SendCounterExhausted(r, kind)
      PROVE  IInv' /\ \A q \in Role : Forward(q)
  <2>1. /\ page[r] = "live" /\ page' = [page EXCEPT ![r] = "ended"] /\ Allocate(r, kind)
        /\ UNCHANGED <<key, mirrored, rekey, sent>>
    BY <1>3 DEF SendCounterExhausted
  <2>2. /\ page' \in [Role -> {"live", "ended", "gone"}]
        /\ \A q \in Role : page'[q] = "gone" <=> page[q] = "gone"
    BY <2>1 DEF IInv, TypeOK
  <2>3. TypeOK'
    BY <2>1, <2>2, AllocateType DEF IInv, TypeOK
  <2>4. RecordMatches' /\ \A q \in Role : committed'[q] >= committed[q] /\ committed'[q] <= reserved'[q]
    BY <2>1, <2>2, AllocateKeeps
  <2>5. \A q \in Role : key'[q] >= key[q]
    BY <1>0, <2>1
  <2>6. MemoryAhead' /\ NonceUnique'
    BY <2>1, <2>3, <2>4, <2>5, QuietStep
  <2>7. QED
    BY <2>3, <2>4, <2>5, <2>6 DEF IInv
<1>4. ASSUME NEW r \in Role, RoleNext(r)
      PROVE  IInv' /\ \A q \in Role : Forward(q)
  BY <1>2, <1>3, <1>4, QuietIInv DEF RoleNext
<1>5. QED
  BY <1>1, <1>4 DEF Next

\* Type correctness of both ends' memory, record and frames; with it, every
\* nonce counter lies in 1 .. MAX_COUNTER, which makeNonce demands.
THEOREM TypeCorrect == Spec => []TypeOK
<1>1. IInv => TypeOK
  BY DEF IInv
<1>2. QED
  BY <1>1, InitIInv, NextIInv, PTL DEF Spec

\* No nonce is used twice under a key (send.ts, nonce.ts, session.ts).
THEOREM NonceUniqueTheorem == Spec => []NonceUnique
<1>1. IInv => NonceUnique
  BY DEF IInv
<1>2. QED
  BY <1>1, InitIInv, NextIInv, PTL DEF Spec

\* A record a reload would resume from bounds every counter used under its key.
THEOREM RecordAheadTheorem == Spec => []RecordAhead
<1>1. ASSUME IInv PROVE RecordAhead
  <2>1. SUFFICES ASSUME NEW r \in Role, Resumable(r), NEW i \in SentBy(r),
                        sent[i].key = record[r].k
                 PROVE  sent[i].counter <= record[r].s
    BY DEF RecordAhead
  <2>2. record[r].k = key[r] /\ record[r].s = reserved[r]
    BY <1>1, <2>1 DEF IInv, RecordMatches, RecordAgrees
  <2>3. sent[i].counter <= committed[r] /\ committed[r] <= reserved[r]
    BY <1>1, <2>1, <2>2 DEF IInv, MemoryAhead
  <2>4. sent[i] \in Frame /\ committed[r] \in Nat /\ reserved[r] \in Nat
    BY <1>1 DEF IInv, TypeOK, SentBy
  <2>5. QED
    BY <2>2, <2>3, <2>4 DEF Frame
<1>2. QED
  BY <1>1, InitIInv, NextIInv, PTL DEF Spec

\* No step takes an end back to an earlier key or a lower counter.
THEOREM NeverRollbackTheorem == Spec => NeverRollback
<1> DEFINE Forward == \A r \in Role : /\ key'[r] >= key[r]
                                      /\ key'[r] = key[r] => committed'[r] >= committed[r]
<1>1. IInv /\ [Next]_vars => IInv' /\ [Forward]_vars
  BY NextIInv
<1>2. QED
  BY <1>1, InitIInv, PTL DEF Spec, NeverRollback
=============================================================================
