--------------------------------- MODULE Tabs ---------------------------------
(***************************************************************************)
(* The tabs of one browser, and what they share: Web Locks and the private *)
(* file system (OPFS).  Three protocols meet in them.                      *)
(*   - domain/duplicate-tab.ts: one tab at a time has a room, by an        *)
(*     exclusive lock that it holds for as long as its session.            *)
(*   - storage/session-store.ts: the record of a session is in the         *)
(*     sessionStorage of its tab.  Reloading keeps it, duplicating the tab *)
(*     copies it, closing the tab loses it.                                *)
(*   - storage/opfs-transfers.ts: received files are in a directory per    *)
(*     room.  A chat holds a shared lock of its name for as long as its    *)
(*     document lives; everybody who comes by removes the directories that *)
(*     nobody holds, under one exclusive lock.  The worker that writes a   *)
(*     file has the same lock for as long as the transfer.                 *)
(*                                                                         *)
(* A tab shows one document after another.  A document that goes takes its *)
(* locks and its requests for locks with it.                               *)
(***************************************************************************)
EXTENDS Integers, FiniteSets, SequencesExt

CONSTANTS
  Tab, Room,
  NoTab,         \* nobody holds the room
  MaxDocs,       \* bound: documents opened
  MaxSends       \* bound: frames sent under a key

ASSUME TabAssumption == NoTab \notin Tab
ASSUME BoundAssumption == MaxDocs \in Nat /\ MaxSends \in Nat

VARIABLES
  tab,           \* the document of each tab
  store,         \* its sessionStorage: the record of each room
  claim,         \* the tab that holds the lock of each room
  queue,         \* the exclusive lock of the file system: the jobs of the pages that have it
                 \* or wait for it, which are boot, sweep or purge
  snapshot,      \* the names that the holder found held, once it has asked
  dirs,          \* the directories that exist, by room
  spared,        \* those of them whose last removal failed
  used,          \* history: the highest counter used under each key
  reused,        \* history: a key and counter were used twice
  lateCopy,      \* history: a session was over while another tab had a copy of its record
  docs           \* documents so far

opfs == <<queue, snapshot, dirs, spared>>
history == <<used, reused, lateCopy>>
vars == <<tab, store, claim, opfs, history, docs>>

NoRecord == [key |-> 0, ctr |-> 0]

\* A document: its page; the stage of its session ("ending" is FATAL_ENDING);
\* how far initFileTransfer is; whether currentOpaqueDir is set; its worker that
\* writes a file; and the key and counter in memory, at first a key of its own.
Blank == [page |-> "none", room |-> CHOOSE r \in Room : TRUE, stage |-> "loading",
          init |-> "probing", ready |-> FALSE, worker |-> "none", active |-> NoRecord]

Init ==
  /\ tab = [t \in Tab |-> Blank] /\ store = [t \in Tab |-> [r \in Room |-> NoRecord]]
  /\ claim = [r \in Room |-> NoTab]
  /\ queue = <<>> /\ snapshot = {"none"} /\ dirs = {} /\ spared = {}
  /\ used = [k \in 1..MaxDocs |-> 0] /\ reused = FALSE /\ lateCopy = FALSE /\ docs = 0

-----------------------------------------------------------------------------
(* Documents come and go                                                   *)

InChat(t, r) == tab[t].page = "chat" /\ tab[t].room = r

\* The locks of directories: held from before the boot sweep is requested until
\* the document goes.
LiveDirs == {r \in Room : \E t \in Tab : InChat(t, r) /\ tab[t].init \in {"queued", "done", "failed"}}

\* Another tab has a copy of the record of t's session and has not asked for the
\* room with it: it is still loading the chat, or shows another page.
UnusedCopy(t) ==
  \E u \in Tab \ {t} :
    /\ InChat(u, tab[t].room) => tab[u].stage = "loading"
    /\ store[u][tab[t].room].key # 0 /\ store[u][tab[t].room].key = tab[t].active.key

HasClaim(t) == tab[t].page = "chat" /\ claim[tab[t].room] = t

\* The lock of the room goes, with the document or with its session.
Release(t) ==
  /\ claim' = [r \in Room |-> IF claim[r] = t THEN NoTab ELSE claim[r]]
  /\ lateCopy' = (lateCopy \/ (HasClaim(t) /\ UnusedCopy(t)))

\* The request of a document goes with it; so does the lock, if it has it.  A
\* document has one request at a time (proved: OneRequest).
QueueWithout(t) ==
  IF \E i \in DOMAIN queue : queue[i].tab = t
  THEN RemoveAt(queue, CHOOSE i \in DOMAIN queue : queue[i].tab = t)
  ELSE queue
SnapshotWithout(t) == IF queue # <<>> /\ Head(queue).tab = t THEN {"none"} ELSE snapshot

\* Tab t shows another document.
Show(t, document) ==
  /\ tab' = [tab EXCEPT ![t] = document]
  /\ Release(t)
  /\ snapshot' = SnapshotWithout(t)
  /\ UNCHANGED <<dirs, spared, used, reused>>

NewChat(r) == [Blank EXCEPT !.page = "chat", !.room = r,
                                !.active = [key |-> docs + 1, ctr |-> 0]]

NewDoc == docs < MaxDocs /\ docs' = docs + 1

\* Faulty variant: the landing page does not sweep.
LandingIdle(t, waiting) == waiting

\* connectedCallback of the landing page.
LandingSweeps(t, waiting) ==
  Append(waiting, [tab |-> t, kind |-> "sweep", room |-> tab[t].room])

\* The pages that are no chats, and what they request.
Other(page) == [Blank EXCEPT !.page = page]
QueueOf(t, page, waiting) == IF page = "landing" THEN LandingSweeps(t, waiting) ELSE waiting

\* The chat of a room is opened or reloaded.
Open(t, r) ==
  /\ NewDoc
  /\ Show(t, NewChat(r))
  /\ queue' = QueueWithout(t)
  /\ UNCHANGED store

\* The tab goes to the landing page, or to another site, by a link or through its
\* history.  pagehide keeps the records.  (Reloading a landing page would only
\* repeat its sweep.)
Visit(t, page) ==
  /\ tab[t].page # page
  /\ Show(t, Other(page))
  /\ queue' = QueueOf(t, page, QueueWithout(t))
  /\ UNCHANGED <<store, docs>>

\* "Duplicate tab": sessionStorage is copied.
Duplicate(t, u) ==
  /\ tab[t].page # "none" /\ tab[u].page = "none"
  /\ store' = [store EXCEPT ![u] = store[t]]
  /\ \/ /\ tab[t].page = "chat" /\ NewDoc
        /\ tab' = [tab EXCEPT ![u] = NewChat(tab[t].room)]
        /\ UNCHANGED queue
     \/ /\ tab[t].page # "chat"
        /\ tab' = [tab EXCEPT ![u] = Other(tab[t].page)]
        /\ queue' = QueueOf(u, tab[t].page, queue)
        /\ UNCHANGED docs
  /\ UNCHANGED <<claim, snapshot, dirs, spared, history>>

Close(t) ==
  /\ tab[t].page # "none"
  /\ Show(t, Blank)
  /\ queue' = QueueWithout(t)
  /\ store' = [store EXCEPT ![t] = [r \in Room |-> NoRecord]]
  /\ UNCHANGED docs

\* Ten seconds after the end, or when the purge of a panic is done or late:
\* sessionStorage is cleared and the landing page takes over.
Redirect(t) ==
  /\ tab[t].page = "chat" /\ tab[t].stage = "ended"
  /\ Show(t, Other("landing"))
  /\ queue' = LandingSweeps(t, QueueWithout(t))
  /\ store' = [store EXCEPT ![t] = [r \in Room |-> NoRecord]]
  /\ UNCHANGED docs

-----------------------------------------------------------------------------
(* The session of a chat                                                   *)

\* Faulty variant: the record of a refused tab is left.
StoreOfRefused(t) == store

\* terminate('duplicate_tab') ends in finalizeTermination, which clears the
\* record of the tab, a copy or not.
StoreAfterRefusal(t) == [store EXCEPT ![t][tab[t].room] = NoRecord]

\* claimRoom: the lock is taken if it is there to be taken, and the session
\* starts, from the record that this tab has or with a key of its own.
ClaimRoom(t) ==
  /\ tab[t].page = "chat" /\ tab[t].stage = "loading"
  /\ IF claim[tab[t].room] = NoTab
     THEN LET rec == store[t][tab[t].room]
          IN /\ claim' = [claim EXCEPT ![tab[t].room] = t]
             /\ tab' = [tab EXCEPT ![t].stage = "running",
                                   ![t].active = IF rec # NoRecord THEN rec ELSE @]
             /\ UNCHANGED store
     ELSE /\ tab' = [tab EXCEPT ![t].stage = "ended", ![t].active = NoRecord]
          /\ store' = StoreAfterRefusal(t)
          /\ UNCHANGED claim
  /\ UNCHANGED <<opfs, history, docs>>

\* upgradeToPrf writes the record.
Upgrade(t) ==
  /\ tab[t].page = "chat" /\ tab[t].stage = "running" /\ store[t][tab[t].room] = NoRecord
  /\ store' = [store EXCEPT ![t][tab[t].room] = tab[t].active]
  /\ UNCHANGED <<tab, claim, opfs, history, docs>>

\* The counter is advanced, in the record first.  What is sent before there is a
\* record cannot be repeated from one.
Send(t) ==
  /\ tab[t].page = "chat" /\ tab[t].stage = "running" /\ tab[t].active.ctr < MaxSends
  /\ store[t][tab[t].room] # NoRecord
  /\ LET next == [tab[t].active EXCEPT !.ctr = @ + 1]
     IN /\ tab' = [tab EXCEPT ![t].active = next]
        /\ store' = [store EXCEPT ![t][tab[t].room] = next]
        /\ reused' = (reused \/ next.ctr <= used[next.key])
        /\ used' = [used EXCEPT ![next.key] = IF next.ctr > @ THEN next.ctr ELSE @]
  /\ UNCHANGED <<claim, opfs, lateCopy, docs>>

\* finalizeTermination and resetFileStateOnTerminate.  The purge is requested
\* before the lock of the room is let go.  shutdown ends the worker of a transfer
\* that has begun; one that acceptOffer still waits for is ended there, later.
Finalize(t) ==
  /\ \E worker \in {tab[t].worker} \cup (IF tab[t].worker = "holding" THEN {"none"} ELSE {}) :
       tab' = [tab EXCEPT ![t].stage = "ended", ![t].ready = FALSE,
                          ![t].worker = worker, ![t].active = NoRecord]
  /\ store' = [store EXCEPT ![t][tab[t].room] = NoRecord]
  /\ Release(t)
  /\ queue' = IF tab[t].ready THEN Append(queue, [tab |-> t, kind |-> "purge", room |-> tab[t].room])
              ELSE queue
  /\ UNCHANGED <<snapshot, dirs, spared, used, reused, docs>>

\* terminate, with the three seconds of FATAL_ENDING or without.
Terminate(t) ==
  /\ tab[t].page = "chat" /\ tab[t].stage = "running"
  /\ \/ Finalize(t)
     \/ /\ tab' = [tab EXCEPT ![t].stage = "ending"]
        /\ UNCHANGED <<store, claim, opfs, history, docs>>

FinalizeTermination(t) ==
  /\ tab[t].page = "chat" /\ tab[t].stage = "ending"
  /\ Finalize(t)

-----------------------------------------------------------------------------
(* The file system                                                         *)

\* The worker that tries the file system says yes, or no, or nothing in time.
runOpfsCapabilityProbe == BOOLEAN

\* initFileTransfer up to the request of bootSweepOpfs.  It follows startSession
\* whether the room could be claimed or not.
Probe(t) ==
  /\ tab[t].page = "chat" /\ tab[t].stage # "loading" /\ tab[t].init = "probing"
  /\ \E supported \in runOpfsCapabilityProbe :
       /\ tab' = [tab EXCEPT ![t].init = IF supported THEN "queued" ELSE "off"]
       /\ queue' = IF supported THEN Append(queue, [tab |-> t, kind |-> "boot", room |-> tab[t].room])
                   ELSE queue
  /\ UNCHANGED <<store, claim, snapshot, dirs, spared, history, docs>>

\* acceptOffer starts a worker, which asks for the exclusive lock once it has its
\* name.  One worker at a time.
AcceptOffer(t) ==
  /\ tab[t].page = "chat" /\ tab[t].stage \in {"running", "ending"} /\ tab[t].ready
  /\ tab[t].worker = "none"
  /\ tab' = [tab EXCEPT ![t].worker = "waiting"]
  /\ UNCHANGED <<store, claim, opfs, history, docs>>

\* A worker has the exclusive lock.
WorkerHolds == \E t \in Tab : tab[t].worker = "holding"

\* runLockCallback: the directory is made if it is not there.  The lock is granted
\* when it is free; that those who asked before come first is left to fairness.
WorkerBegins(t) ==
  /\ tab[t].worker = "waiting" /\ ~WorkerHolds /\ snapshot = {"none"}
  /\ tab' = [tab EXCEPT ![t].worker = "holding"]
  /\ dirs' = dirs \cup {tab[t].room}
  /\ UNCHANGED <<store, claim, queue, snapshot, spared, history, docs>>

\* The transfer is over, or its worker could not be made ready, or failed.
WorkerStops(t) ==
  /\ tab[t].worker # "none"
  /\ tab' = [tab EXCEPT ![t].worker = "none"]
  /\ UNCHANGED <<store, claim, opfs, history, docs>>

\* The page at the head of the queue has the exclusive lock and asks which names
\* are held.
QueryLocks ==
  /\ ~WorkerHolds /\ queue # <<>> /\ Head(queue).kind \in {"boot", "sweep"} /\ snapshot = {"none"}
  /\ snapshot' = LiveDirs
  /\ UNCHANGED <<tab, store, claim, queue, dirs, spared, history, docs>>

\* Faulty variant: all directories but one's own.
DoomedAll(job) == IF job.kind = "boot" THEN dirs \ {job.room} ELSE dirs

\* The directories that the holder removes: what nobody held when it asked, or
\* its own.
Doomed(job) ==
  CASE job.kind = "purge" -> {job.room}
    [] job.kind = "sweep" -> dirs \ snapshot
    [] job.kind = "boot"  -> (dirs \ snapshot) \ {job.room}

\* The holder is done.  A removal that fails is passed over.  After a boot the chat
\* has its directory, also if its session has ended meanwhile.
Work ==
  /\ ~WorkerHolds /\ queue # <<>> /\ (Head(queue).kind = "purge" \/ snapshot # {"none"})
  /\ LET job == Head(queue)
     IN /\ \E failed \in SUBSET (Doomed(job) \cap dirs) :
             /\ dirs' = (dirs \ (Doomed(job) \ failed))
                          \cup (IF job.kind = "boot" THEN {job.room} ELSE {})
             /\ spared' = (spared \ Doomed(job)) \cup failed
        /\ tab' = IF job.kind = "boot" THEN [tab EXCEPT ![job.tab].init = "done", ![job.tab].ready = TRUE]
                  ELSE tab
  /\ queue' = Tail(queue) /\ snapshot' = {"none"}
  /\ UNCHANGED <<store, claim, history, docs>>

\* The file system fails in the boot sweep.
BootFails ==
  /\ ~WorkerHolds /\ queue # <<>> /\ Head(queue).kind = "boot"
  /\ tab' = [tab EXCEPT ![Head(queue).tab].init = "failed"]
  /\ queue' = Tail(queue) /\ snapshot' = {"none"}
  /\ UNCHANGED <<store, claim, dirs, spared, history, docs>>

-----------------------------------------------------------------------------
Machine(t) == ClaimRoom(t) \/ Probe(t) \/ FinalizeTermination(t) \/ Redirect(t)

User(t) ==
  \/ Close(t) \/ Upgrade(t) \/ Send(t) \/ Terminate(t) \/ AcceptOffer(t)
  \/ \E r \in Room : Open(t, r)
  \/ \E page \in {"landing", "elsewhere"} : Visit(t, page)
  \/ \E u \in Tab : Duplicate(t, u)

Next ==
  \/ QueryLocks \/ Work \/ BootFails
  \/ \E t \in Tab : Machine(t) \/ User(t) \/ WorkerBegins(t) \/ WorkerStops(t)

\* Promises settle, timers fire, and the lock is granted in turn: who waits gets it
\* if it is free again and again.  A worker goes when its session is over; until
\* then nothing is assumed of it, nor of users.
Fairness ==
  /\ SF_vars(QueryLocks \/ Work)
  /\ \A t \in Tab : WF_vars(Machine(t)) /\ WF_vars(tab[t].stage = "ended" /\ WorkerStops(t))

Spec == Init /\ [][Next]_vars /\ Fairness

-----------------------------------------------------------------------------
(* Properties                                                              *)

\* A session that may receive files has its directory, whatever other tabs
\* sweep and purge, those of the same room included.
DirectoryKept ==
  \A t \in Tab : (tab[t].page = "chat" /\ tab[t].stage \in {"running", "ending"} /\ tab[t].ready)
                   => tab[t].room \in dirs

\* Across tabs no key and counter are used twice, unless a session ended or lost
\* its document while another tab had a copy of its record that it had not used
\* yet: only then is the room unclaimed when the copy is used, and it may be old.
ReuseNeedsLateCopy == reused => lateCopy

\* Files do not outlive their session: the directory of a room whose session has
\* ended goes, although a worker may make it again after its purge, and provided
\* that no transfer of another session keeps the file system's lock for good.
\* The exceptions: it cannot be removed; another tab that is on the room, or this
\* one after a reload, keeps it (and then owes the same); or the tab is closed,
\* goes to another site, or to a room where the file system fails, before.
Kept(t, r) == \E u \in Tab : InChat(u, r) /\ (u = t => tab[t].stage # "ended")
Transferring == \E u \in Tab : tab[u].worker = "holding" /\ tab[u].stage # "ended"
OrphansGo ==
  []<>~Transferring =>
    \A t \in Tab, r \in Room :
      (InChat(t, r) /\ tab[t].stage = "ended" /\ r \in dirs)
        ~> \/ r \notin dirs \/ r \in spared \/ Kept(t, r)
           \/ tab[t].page \in {"none", "elsewhere"}
           \/ tab[t].init \in {"failed", "off"} /\ ~InChat(t, r)
=============================================================================
