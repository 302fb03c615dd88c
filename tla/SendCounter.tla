----------------------------- MODULE SendCounter -----------------------------
(***************************************************************************)
(* The send counter of both ends of a session: allocateCounter and         *)
(* encryptRelayFrame (client/src/domain/send.ts), the nonce they build     *)
(* (nonce.ts), the sessionStorage mirror that must stay ahead of them      *)
(* (storage/session-store.ts), and every place where session.ts replaces   *)
(* the key, the counters or the record: upgrade, rekey, termination, F5    *)
(* and resume.                                                             *)
(*                                                                         *)
(* A JavaScript task runs to its next await without interruption, so one   *)
(* action is one such stretch.  allocateCounter and the read of            *)
(* state.sessionKey by encryptRelayFrame are in one stretch; commitRekey   *)
(* is in two, because the new key is wrapped (await) between the switch of *)
(* the key and the write of the record.                                    *)
(*                                                                         *)
(* Keys are epochs: 0 is the handshake's key, each rekey derives the next  *)
(* one from fresh ephemeral keys, so no epoch ever returns.                *)
(***************************************************************************)
EXTENDS Integers, Sequences

CONSTANTS
  RESERVATION_BLOCK_TEXT,   \* send.ts:10, 1n
  RESERVATION_BLOCK_CHUNK,  \* send.ts:11, 64n
  MAX_COUNTER,              \* nonce.ts:8, 2^64 - 1
  MaxKey,                   \* bound: number of rekeys explored
  MaxFrames,                \* bound: number of frames encrypted in a behaviour
  MaxOverrun                \* bound: how far past MAX_COUNTER allocations are explored

ASSUME BlockAssumption == /\ RESERVATION_BLOCK_TEXT \in Nat \ {0}
                          /\ RESERVATION_BLOCK_CHUNK \in Nat \ {0}
ASSUME CounterAssumption == MAX_COUNTER \in Nat \ {0}
ASSUME BoundAssumption == MaxKey \in Nat /\ MaxFrames \in Nat /\ MaxOverrun \in Nat

Role == {"initiator", "joiner"}
RelayKind == {"TEXT", "CHUNK"}
Key == 0..MaxKey

\* nonce.ts:12
directionForRole(role) == IF role = "initiator" THEN 1 ELSE 2

\* What identifies one AES-GCM encryption: the key and the nonce's fields.
Frame == [key : Key, direction : {1, 2}, counter : 1..MAX_COUNTER]

NoRecord == [stored |-> FALSE]

\* StoredSession, reduced to the wrapped key, the send counter and the marker.
Record == [stored : {TRUE}, k : Key, s : Nat, rekey_in_progress : BOOLEAN]

VARIABLES
  page,       \* "live"; "ended" after terminate(); "gone" when nothing can resume
  key,        \* active.sessionKey
  committed,  \* active.counterCommitted
  reserved,   \* active.counterReserved
  mirrored,   \* active.mirror is defined
  rekey,      \* the stretch of a rekey this end has reached
  record,     \* sessionStorage[storageKey]
  sent        \* every frame encrypted, in order

mem == <<key, committed, reserved, mirrored, rekey>>
vars == <<page, key, committed, reserved, mirrored, rekey, record, sent>>

TypeOK ==
  /\ page \in [Role -> {"live", "ended", "gone"}]
  /\ key \in [Role -> Key]
  /\ committed \in [Role -> Nat]
  /\ reserved \in [Role -> Nat]
  /\ mirrored \in [Role -> BOOLEAN]
  /\ rekey \in [Role -> {"none", "started", "switched"}]
  /\ record \in [Role -> Record \cup {NoRecord}]
  /\ sent \in Seq(Frame)

\* Both ends have just completed the handshake (session.ts:524-534), in RAM mode.
Init ==
  /\ page = [r \in Role |-> "live"]
  /\ key = [r \in Role |-> 0]
  /\ committed = [r \in Role |-> 0]
  /\ reserved = [r \in Role |-> 0]
  /\ mirrored = [r \in Role |-> FALSE]
  /\ rekey = [r \in Role |-> "none"]
  /\ record = [r \in Role |-> NoRecord]
  /\ sent = <<>>

-----------------------------------------------------------------------------
(* Sending                                                                 *)

\* send.ts:21
blockSizeFor(kind) ==
  IF kind = "CHUNK" THEN RESERVATION_BLOCK_CHUNK ELSE RESERVATION_BLOCK_TEXT

\* allocateCounter's new upper bound: a block is reserved only when the last
\* one is used up, whatever kind of frame took it.
NextReserved(r, kind) ==
  IF committed[r] >= reserved[r] THEN reserved[r] + blockSizeFor(kind) ELSE reserved[r]

\* Faulty variant: the bound that was reserved before is written.
PersistPreviousReserved(r, n) ==
  record' = IF mirrored[r] THEN [record EXCEPT ![r].s = reserved[r]] ELSE record

\* mirror.setCounterSend: the record keeps its other fields, the marker too.
PersistReserved(r, n) ==
  record' = IF mirrored[r] THEN [record EXCEPT ![r].s = n] ELSE record

\* allocateCounter: persist the bound first, then take the next counter.
Allocate(r, kind) ==
  /\ PersistReserved(r, NextReserved(r, kind))
  /\ reserved' = [reserved EXCEPT ![r] = NextReserved(r, kind)]
  /\ committed' = [committed EXCEPT ![r] = @ + 1]

\* Faulty variant: the upper end is not tested.
NonceFitsBelow(counter) == counter >= 1

\* makeNonce accepts the counter only inside 1 .. MAX_COUNTER.
NonceFits(counter) == counter >= 1 /\ counter <= MAX_COUNTER

\* encryptRelayFrame: the nonce of this role's direction under the current key.
FrameOf(r, counter) ==
  [key |-> key[r], direction |-> directionForRole(r), counter |-> counter]

\* runRelaySendTask on an open connection.
Send(r, kind) ==
  /\ page[r] = "live"
  /\ Len(sent) < MaxFrames
  /\ NonceFits(committed[r] + 1)
  /\ Allocate(r, kind)
  /\ sent' = Append(sent, FrameOf(r, committed[r] + 1))
  /\ UNCHANGED <<page, key, mirrored, rekey>>

\* makeNonce throws after the allocation: terminate('encrypt_failed').
SendCounterExhausted(r, kind) ==
  /\ page[r] = "live"
  /\ ~NonceFits(committed[r] + 1) /\ committed[r] < MAX_COUNTER + MaxOverrun
  /\ Allocate(r, kind)
  /\ page' = [page EXCEPT ![r] = "ended"]
  /\ UNCHANGED <<key, mirrored, rekey, sent>>

\* sessionStorage.setItem throws inside allocateCounter: nothing is allocated
\* and the session terminates without encrypting.
SendStorageFails(r) ==
  /\ page[r] = "live"
  /\ mirrored[r] /\ committed[r] >= reserved[r]
  /\ page' = [page EXCEPT ![r] = "ended"]
  /\ UNCHANGED <<mem, record, sent>>

-----------------------------------------------------------------------------
(* The record                                                              *)

\* persistWrappedSessionKey, after its await: the record is built from the
\* counters as they are now, and the mirror starts from it.
PersistRecord(r) ==
  /\ record' = [record EXCEPT ![r] = [stored |-> TRUE, k |-> key[r], s |-> reserved[r],
                                      rekey_in_progress |-> FALSE]]
  /\ mirrored' = [mirrored EXCEPT ![r] = TRUE]

\* upgradeToPrf with a registered passkey.
UpgradeToPrf(r) ==
  /\ page[r] = "live" /\ ~mirrored[r]
  /\ PersistRecord(r)
  /\ UNCHANGED <<page, key, committed, reserved, rekey, sent>>

\* Faulty variant: the rekey starts without marking the record.
StartRekeyUnmarked(r) ==
  /\ page[r] = "live" /\ mirrored[r] /\ rekey[r] # "switched"
  /\ rekey' = [rekey EXCEPT ![r] = "started"]
  /\ UNCHANGED <<page, key, committed, reserved, mirrored, record, sent>>

\* startRekeyIfInitiator and handleRekeyInit up to their first await.  Only an
\* end in PRF mode, which has a mirror, takes part in a rekey.
SetRekeyInProgress(r) ==
  /\ page[r] = "live" /\ mirrored[r] /\ rekey[r] # "switched"
  /\ record' = [record EXCEPT ![r].rekey_in_progress = TRUE]
  /\ rekey' = [rekey EXCEPT ![r] = "started"]
  /\ UNCHANGED <<page, key, committed, reserved, mirrored, sent>>

\* commitRekey up to its await: new key, counters back to 0, old mirror.
CommitRekey(r) ==
  /\ page[r] = "live" /\ rekey[r] = "started" /\ key[r] < MaxKey
  /\ key' = [key EXCEPT ![r] = @ + 1]
  /\ committed' = [committed EXCEPT ![r] = 0]
  /\ reserved' = [reserved EXCEPT ![r] = 0]
  /\ rekey' = [rekey EXCEPT ![r] = "switched"]
  /\ UNCHANGED <<page, mirrored, record, sent>>

\* commitRekey after its await: the hardened record replaces the marked one.
FinishRekey(r) ==
  /\ page[r] = "live" /\ rekey[r] = "switched"
  /\ PersistRecord(r)
  /\ rekey' = [rekey EXCEPT ![r] = "none"]
  /\ UNCHANGED <<page, key, committed, reserved, sent>>

-----------------------------------------------------------------------------
(* Termination, F5 and resume                                              *)

\* terminate(): writes and sends stop at once; the record stays until
\* finalizeTermination, up to FATAL_BUFFER_MS later.
Terminate(r) ==
  /\ page[r] = "live"
  /\ page' = [page EXCEPT ![r] = "ended"]
  /\ UNCHANGED <<mem, record, sent>>

FinalizeTermination(r) ==
  /\ page[r] = "ended"
  /\ page' = [page EXCEPT ![r] = "gone"]
  /\ record' = [record EXCEPT ![r] = NoRecord]
  /\ UNCHANGED <<mem, sent>>

\* startSession's test of the record it reads at boot.
Resumable(r) == record[r] # NoRecord /\ ~record[r].rekey_in_progress

\* The page reloads and startSession reads the record; a record marked
\* rekey_in_progress is cleared and a new RAM session (with a new handshake,
\* hence a new key) begins.
ReloadWithoutRecord(r) ==
  /\ page[r] # "gone"
  /\ ~Resumable(r)
  /\ page' = [page EXCEPT ![r] = "gone"]
  /\ record' = [record EXCEPT ![r] = NoRecord]
  /\ UNCHANGED <<mem, sent>>

\* Faulty variant: the persisted bound is taken for the next counter to use.
ReloadOneBehind(r) ==
  /\ page[r] # "gone"
  /\ Resumable(r)
  /\ page' = [page EXCEPT ![r] = "live"]
  /\ key' = [key EXCEPT ![r] = record[r].k]
  /\ committed' = [committed EXCEPT ![r] = IF record[r].s = 0 THEN 0 ELSE record[r].s - 1]
  /\ reserved' = [reserved EXCEPT ![r] = record[r].s]
  /\ mirrored' = [mirrored EXCEPT ![r] = TRUE]
  /\ rekey' = [rekey EXCEPT ![r] = "none"]
  /\ UNCHANGED <<record, sent>>

\* attemptResume: both counters restart from the persisted upper bound.
ReloadAndResume(r) ==
  /\ page[r] # "gone"
  /\ Resumable(r)
  /\ page' = [page EXCEPT ![r] = "live"]
  /\ key' = [key EXCEPT ![r] = record[r].k]
  /\ committed' = [committed EXCEPT ![r] = record[r].s]
  /\ reserved' = [reserved EXCEPT ![r] = record[r].s]
  /\ mirrored' = [mirrored EXCEPT ![r] = TRUE]
  /\ rekey' = [rekey EXCEPT ![r] = "none"]
  /\ UNCHANGED <<record, sent>>

-----------------------------------------------------------------------------
RoleNext(r) ==
  \/ \E kind \in RelayKind : Send(r, kind) \/ SendCounterExhausted(r, kind)
  \/ SendStorageFails(r)
  \/ UpgradeToPrf(r) \/ SetRekeyInProgress(r) \/ CommitRekey(r) \/ FinishRekey(r)
  \/ Terminate(r) \/ FinalizeTermination(r)
  \/ ReloadWithoutRecord(r) \/ ReloadAndResume(r)

Next == \E r \in Role : RoleNext(r)

Spec == Init /\ [][Next]_vars

-----------------------------------------------------------------------------
(* Properties                                                              *)

SentBy(r) == {i \in DOMAIN sent : sent[i].direction = directionForRole(r)}

\* No two frames of the session, of either end, are encrypted under one key
\* with one nonce, whatever reloads, upgrades and rekeys happen in between
\* (allocateCounter, makeNonce, attemptResume, commitRekey).
NonceUnique == \A i, j \in DOMAIN sent : sent[i] = sent[j] => i = j

\* A record that a reload would resume from holds an upper bound of every
\* counter this end has used under the record's key: persist before send and
\* persist ahead, docs/02-protocol.md "Счётчики".
RecordAhead ==
  \A r \in Role :
    Resumable(r) =>
      \A i \in SentBy(r) : sent[i].key = record[r].k => sent[i].counter <= record[r].s

\* Never rollback: no step, a resume from the record included, takes an end
\* back to an earlier key, or to a lower counter under the same key.
NeverRollback ==
  [][\A r \in Role : /\ key'[r] >= key[r]
                     /\ key'[r] = key[r] => committed'[r] >= committed[r]]_vars
=============================================================================
