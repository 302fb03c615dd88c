------------------------------ MODULE TabsProofs ------------------------------
(***************************************************************************)
(* For every set of tabs and of rooms, and any number of documents and of  *)
(* frames: a session that may receive files keeps its directory, and a key *)
(* and counter are used twice only after a late copy.                      *)
(***************************************************************************)
EXTENDS Tabs, SequenceTheorems, TLAPS

USE TabAssumption, BoundAssumption

Place == Room \cup {Blank.room}

Record == [key : 0..MaxDocs, ctr : Nat]

Document == [page : {"none", "chat", "landing", "elsewhere"}, room : Place,
             stage : {"loading", "running", "ending", "ended"},
             init : {"probing", "queued", "done", "failed", "off"},
             ready : BOOLEAN, worker : {"none", "waiting", "holding"}, active : Record]

Job == [tab : Tab, kind : {"boot", "sweep", "purge"}, room : Place]

Types ==
  /\ tab \in [Tab -> Document] /\ store \in [Tab -> [Room -> Record]]
  /\ claim \in [Room -> Tab \cup {NoTab}] /\ queue \in Seq(Job)
  /\ used \in [1..MaxDocs -> Nat] /\ docs \in 0..MaxDocs
  /\ \A t \in Tab : tab[t].page = "chat" => tab[t].room \in Room

\* The document has a session that has not been finalized.
Live(document) == document.page = "chat" /\ document.stage \in {"running", "ending"}
Session(t) == Live(tab[t])

\* A session holds the lock of its room.
HoldersClaim == \A t \in Tab : Session(t) => claim[tab[t].room] = t

\* How far a document can be: initFileTransfer follows startSession, and only a
\* boot sweep that was done sets currentOpaqueDir.
Stages ==
  \A t \in Tab : /\ tab[t].stage = "loading" => tab[t].init = "probing"
                 /\ tab[t].ready => tab[t].init = "done"
                 /\ tab[t].page # "chat" => tab[t].stage = "loading"

\* Who may have requested what.
Fits(job, document) ==
  /\ job.kind = "sweep" => document.page = "landing"
  /\ job.kind = "boot" => /\ document.page = "chat" /\ document.room = job.room
                          /\ document.init = "queued"
  /\ job.kind = "purge" => /\ document.page = "chat" /\ document.room = job.room
                           /\ document.init = "done" /\ document.stage = "ended"

RequestsFit == \A i \in DOMAIN queue : Fits(queue[i], tab[queue[i].tab])

\* A document has one request at a time.
Alone(q) == \A i, j \in DOMAIN q : q[i].tab = q[j].tab => i = j
OneRequest == Alone(queue)

\* A purge that is still to come concerns no later session of the room: it has no
\* directory yet, and the boot that will make it one comes after the purge.
InOrder(q, documents) ==
  \A i \in DOMAIN q : q[i].kind = "purge" =>
    \A t \in Tab : (Live(documents[t]) /\ documents[t].room = q[i].room) =>
      ~documents[t].ready /\ \A j \in DOMAIN q : q[j].tab = t => i < j
PurgeFirst == InOrder(queue, tab)

\* While the holder of the exclusive lock acts on what it was told, no session
\* has a directory that it was not told of.
SnapshotCovers ==
  snapshot # {"none"} => \A t \in Tab : tab[t].ready => tab[t].room \in snapshot

FilesInv ==
  /\ Types /\ HoldersClaim /\ Stages /\ RequestsFit /\ OneRequest /\ PurgeFirst
  /\ SnapshotCovers /\ DirectoryKept

-----------------------------------------------------------------------------
(* Documents, jobs and the queue                                           *)

\* Blank and NewChat: a document that was just opened.
LEMMA NewDocuments ==
  /\ Blank \in Document /\ Blank.page = "none" /\ Blank.active = NoRecord
  /\ Blank.stage = "loading" /\ Blank.init = "probing" /\ ~Blank.ready
  /\ \A page \in {"landing", "elsewhere"} :
       /\ Other(page) \in Document /\ Other(page).page = page /\ Other(page).stage = "loading"
       /\ Other(page).init = "probing" /\ ~Other(page).ready /\ Other(page).active = NoRecord
  /\ \A r \in Room : (docs + 1 \in 0..MaxDocs) => NewChat(r) \in Document
<1>1. NoRecord \in Record /\ \A k \in 0..MaxDocs : [key |-> k, ctr |-> 0] \in Record
  BY DEF NoRecord, Record
<1>2. /\ Blank \in Document /\ Blank.page = "none" /\ Blank.active = NoRecord
      /\ Blank.stage = "loading" /\ Blank.init = "probing" /\ ~Blank.ready
  <2>1. Blank.room \in Place
    BY DEF Place
  <2>2. QED
    BY <1>1, <2>1 DEF Blank, Document
<1>3. ASSUME NEW page \in {"landing", "elsewhere"}
      PROVE  /\ Other(page) \in Document /\ Other(page).page = page
             /\ Other(page).stage = "loading" /\ Other(page).init = "probing"
             /\ ~Other(page).ready /\ Other(page).active = NoRecord
  BY <1>2 DEF Document, Other
<1>4. ASSUME NEW r \in Room, docs + 1 \in 0..MaxDocs
      PROVE  NewChat(r) \in Document
  BY <1>1, <1>2, <1>4 DEF Document, NewChat, Place
<1>5. QED
  BY <1>2, <1>3, <1>4

\* q is the queue with some requests gone, and the others in their order.
Within(q) ==
  \E f \in [DOMAIN q -> DOMAIN queue] :
    /\ \A i \in DOMAIN q : q[i] = queue[f[i]]
    /\ \A i, j \in DOMAIN q : i < j => f[i] < f[j]

\* What is left behind place c of n.
LEMMA Rest ==
  ASSUME NEW n \in Nat, NEW c \in 1..n
  PROVE  /\ n - (c + 1) + 1 = n - c
         /\ ~(c + 1 <= n) => n - c = 0
         /\ \A i \in 1..(n - c) : (c + 1) + i - 1 = c + i
  OBVIOUS

\* QueueWithout: what is left is of others, and in its order.
LEMMA WithoutFacts ==
  ASSUME Types, OneRequest, NEW t \in Tab
  PROVE  /\ QueueWithout(t) \in Seq(Job) /\ Within(QueueWithout(t))
         /\ \A i \in DOMAIN QueueWithout(t) : QueueWithout(t)[i].tab # t
<1> DEFINE q == QueueWithout(t)
<1>0. queue \in Seq(Job) /\ DOMAIN queue = 1..Len(queue) /\ Len(queue) \in Nat
  BY LenProperties DEF Types
<1>1. CASE \E i \in DOMAIN queue : queue[i].tab = t
  <2> DEFINE c == CHOOSE i \in DOMAIN queue : queue[i].tab = t
  <2>1. c \in 1..Len(queue) /\ queue[c].tab = t
    BY <1>0, <1>1
  <2>2. q = SubSeq(queue, 1, c - 1) \o SubSeq(queue, c + 1, Len(queue))
    BY <1>1 DEF QueueWithout, RemoveAt
  <2> HIDE DEF c, q
  <2>3. /\ SubSeq(queue, 1, c - 1) \in Seq(Job) /\ Len(SubSeq(queue, 1, c - 1)) = c - 1
        /\ \A i \in 1..(c - 1) : SubSeq(queue, 1, c - 1)[i] = queue[i]
    BY <1>0, <2>1
  <2>4. /\ SubSeq(queue, c + 1, Len(queue)) \in Seq(Job)
        /\ Len(SubSeq(queue, c + 1, Len(queue))) = Len(queue) - c
        /\ \A i \in 1..(Len(queue) - c) : SubSeq(queue, c + 1, Len(queue))[i] = queue[c + i]
    <3>1. \A i \in (c + 1)..Len(queue) : queue[i] \in Job
      BY <1>0, <2>1, ElementOfSeq
    <3>2. c + 1 \in Int /\ Len(queue) \in Int
      BY <1>0, <2>1
    <3>3. /\ SubSeq(queue, c + 1, Len(queue)) \in Seq(Job)
          /\ Len(SubSeq(queue, c + 1, Len(queue)))
               = IF c + 1 <= Len(queue) THEN Len(queue) - (c + 1) + 1 ELSE 0
          /\ \A i \in 1..(Len(queue) - (c + 1) + 1) :
               SubSeq(queue, c + 1, Len(queue))[i] = queue[(c + 1) + i - 1]
      BY <3>1, <3>2, SubSeqProperties
    <3>4. /\ Len(queue) - (c + 1) + 1 = Len(queue) - c
          /\ ~(c + 1 <= Len(queue)) => Len(queue) - c = 0
          /\ \A i \in 1..(Len(queue) - c) : (c + 1) + i - 1 = c + i
      BY <1>0, <2>1, Rest
    <3>5. Len(SubSeq(queue, c + 1, Len(queue))) = Len(queue) - c
      BY <3>3, <3>4
    <3>6. \A i \in 1..(Len(queue) - c) : SubSeq(queue, c + 1, Len(queue))[i] = queue[c + i]
      BY <3>3, <3>4
    <3>7. QED
      BY <3>3, <3>5, <3>6
  <2> DEFINE before == SubSeq(queue, 1, c - 1)
             after == SubSeq(queue, c + 1, Len(queue))
  <2>a. /\ before \o after \in Seq(Job) /\ Len(before \o after) = Len(before) + Len(after)
        /\ \A i \in 1..(Len(before) + Len(after)) :
             (before \o after)[i] = IF i <= Len(before) THEN before[i]
                                    ELSE after[i - Len(before)]
    BY <2>3, <2>4, ConcatProperties
  <2>b. q = before \o after
    BY <2>2
  <2>c. /\ Len(before) = c - 1 /\ Len(after) = Len(queue) - c
        /\ \A i \in 1..(c - 1) : before[i] = queue[i]
        /\ \A i \in 1..(Len(queue) - c) : after[i] = queue[c + i]
    BY <2>3, <2>4
  <2> HIDE DEF before, after
  <2>5. q \in Seq(Job) /\ Len(q) = Len(queue) - 1 /\ DOMAIN q = 1..(Len(queue) - 1)
    <3>0. q \in Seq(Job) /\ Len(q) = Len(before) + Len(after)
      BY <2>a, <2>b, Zenon
    <3>1. q \in Seq(Job) /\ Len(q) = Len(queue) - 1
      BY <1>0, <2>1, <2>c, <3>0
    <3>2. QED
      BY <3>1, LenProperties
  <2>6. \A i \in 1..(Len(queue) - 1) : q[i] = queue[IF i < c THEN i ELSE i + 1]
    <3> SUFFICES ASSUME NEW i \in 1..(Len(queue) - 1)
                 PROVE  q[i] = queue[IF i < c THEN i ELSE i + 1]
      OBVIOUS
    <3>1. q[i] = IF i <= c - 1 THEN before[i] ELSE after[i - (c - 1)]
      BY <1>0, <2>1, <2>a, <2>b, <2>c
    <3>2. CASE i < c
      BY <1>0, <2>1, <2>c, <3>1, <3>2
    <3>3. CASE ~(i < c)
      <4>1. i - (c - 1) \in 1..(Len(queue) - c) /\ c + (i - (c - 1)) = i + 1
        BY <1>0, <2>1, <3>3
      <4>2. QED
        BY <1>0, <2>1, <2>c, <3>1, <3>3, <4>1
    <3>4. QED
      BY <3>2, <3>3
  <2>7. Within(q)
    <3> DEFINE f == [i \in DOMAIN q |-> IF i < c THEN i ELSE i + 1]
    <3>1. f \in [DOMAIN q -> DOMAIN queue]
      BY <1>0, <2>1, <2>5
    <3>2. \A i \in DOMAIN q : q[i] = queue[f[i]]
      BY <2>5, <2>6
    <3>3. \A i, j \in DOMAIN q : i < j => f[i] < f[j]
      BY <1>0, <2>1, <2>5
    <3>4. QED
      BY <3>1, <3>2, <3>3 DEF Within
  <2>8. \A i \in DOMAIN q : q[i].tab # t
    BY <1>0, <2>1, <2>5, <2>6 DEF OneRequest, Alone
  <2>9. QED
    BY <2>5, <2>7, <2>8 DEF q
<1>2. CASE ~\E i \in DOMAIN queue : queue[i].tab = t
  <2>1. q = queue
    BY <1>2 DEF QueueWithout
  <2>2. Within(queue)
    <3> DEFINE f == [i \in DOMAIN queue |-> i]
    <3>1. f \in [DOMAIN queue -> DOMAIN queue]
      OBVIOUS
    <3>2. \A i, j \in DOMAIN queue : i < j => f[i] < f[j]
      OBVIOUS
    <3>3. QED
      BY <3>1, <3>2 DEF Within
  <2>3. QED
    BY <1>0, <1>2, <2>1, <2>2
<1>3. QED
  BY <1>1, <1>2

\* The holder is done: its request goes.
LEMMA TailFacts ==
  ASSUME Types, queue # <<>>
  PROVE  /\ Tail(queue) \in Seq(Job) /\ Within(Tail(queue))
         /\ 1 \in DOMAIN queue /\ Head(queue) = queue[1] /\ queue[1] \in Job
         /\ DOMAIN Tail(queue) = 1..(Len(queue) - 1) /\ DOMAIN queue = 1..Len(queue)
         /\ Len(queue) \in Nat \ {0}
         /\ \A i \in DOMAIN Tail(queue) : Tail(queue)[i] = queue[i + 1]
<1>1. /\ queue \in Seq(Job) /\ DOMAIN queue = 1..Len(queue) /\ Len(queue) \in Nat \ {0}
  BY LenProperties, EmptySeq DEF Types
<1>2. /\ Tail(queue) \in Seq(Job) /\ Len(Tail(queue)) = Len(queue) - 1
      /\ \A i \in 1..Len(Tail(queue)) : Tail(queue)[i] = queue[i + 1]
  BY <1>1, HeadTailProperties
<1>3. DOMAIN Tail(queue) = 1..(Len(queue) - 1)
  BY <1>2, LenProperties
<1>4. Within(Tail(queue))
  <2> DEFINE f == [i \in DOMAIN Tail(queue) |-> i + 1]
  <2>1. f \in [DOMAIN Tail(queue) -> DOMAIN queue]
    BY <1>1, <1>3
  <2>2. \A i \in DOMAIN Tail(queue) : Tail(queue)[i] = queue[f[i]]
    BY <1>1, <1>2, <1>3
  <2>3. \A i, j \in DOMAIN Tail(queue) : i < j => f[i] < f[j]
    BY <1>1, <1>3
  <2>4. QED
    BY <2>1, <2>2, <2>3 DEF Within
<1>5. Head(queue) = queue[1] /\ 1 \in DOMAIN queue /\ queue[1] \in Job
  BY <1>1
<1>6. QED
  BY <1>1, <1>2, <1>3, <1>4, <1>5

\* Requests that were not there before are of others than those that were.
LEMMA AppendFacts ==
  ASSUME NEW q \in Seq(Job), NEW job \in Job
  PROVE  /\ Append(q, job) \in Seq(Job) /\ Len(q) \in Nat /\ DOMAIN q = 1..Len(q)
         /\ DOMAIN Append(q, job) = 1..(Len(q) + 1)
         /\ \A i \in DOMAIN q : Append(q, job)[i] = q[i]
         /\ Append(q, job)[Len(q) + 1] = job
  BY LenProperties, AppendProperties

\* A request taken from the queue, and the document it is of.
LEMMA JobFacts ==
  ASSUME Types, NEW q \in Seq(Job), NEW i \in DOMAIN q
  PROVE  q[i] \in Job /\ q[i].tab \in Tab /\ tab[q[i].tab] \in Document
<1>1. q[i] \in Job
  BY LenProperties, ElementOfSeq
<1>2. q[i].tab \in Tab
  BY <1>1 DEF Job
<1>3. QED
  BY <1>1, <1>2 DEF Types

-----------------------------------------------------------------------------
(* What most steps have in common                                          *)

\* Requests that go do not disturb the order of the others.
LEMMA Thinned ==
  ASSUME FilesInv, NEW q \in Seq(Job), Within(q),
         \A u \in Tab : Live(tab'[u]) => /\ Session(u) /\ tab'[u].room = tab[u].room
                                         /\ tab'[u].ready => tab[u].ready
  PROVE  Alone(q) /\ InOrder(q, tab')
<1>1. PICK f \in [DOMAIN q -> DOMAIN queue] :
        /\ \A i \in DOMAIN q : q[i] = queue[f[i]]
        /\ \A i, j \in DOMAIN q : i < j => f[i] < f[j]
  BY DEF Within
<1>2. /\ DOMAIN q = 1..Len(q) /\ Len(q) \in Nat
      /\ DOMAIN queue = 1..Len(queue) /\ Len(queue) \in Nat
  BY LenProperties DEF FilesInv, Types
<1>3. Alone(q)
  BY <1>1, <1>2 DEF FilesInv, OneRequest, Alone
<1>4. InOrder(q, tab')
  <2> SUFFICES ASSUME NEW i \in DOMAIN q, q[i].kind = "purge",
                      NEW u \in Tab, Live(tab'[u]), tab'[u].room = q[i].room
               PROVE  ~tab'[u].ready /\ \A j \in DOMAIN q : q[j].tab = u => i < j
    BY DEF InOrder
  <2>0. Session(u) /\ tab'[u].room = tab[u].room /\ (tab'[u].ready => tab[u].ready)
    OBVIOUS
  <2>1. /\ f[i] \in DOMAIN queue /\ queue[f[i]].kind = "purge"
        /\ Session(u) /\ tab[u].room = queue[f[i]].room /\ (tab'[u].ready => tab[u].ready)
    BY <1>1, <2>0
  <2>2. ~tab[u].ready /\ \A j \in DOMAIN queue : queue[j].tab = u => f[i] < j
    BY <2>1 DEF FilesInv, PurgeFirst, InOrder, Session
  <2>3. ASSUME NEW j \in DOMAIN q, q[j].tab = u
        PROVE  i < j
    BY <1>1, <1>2, <2>2, <2>3
  <2>4. QED
    BY <2>1, <2>2, <2>3
<1>5. QED
  BY <1>3, <1>4

\* A request that comes last is in order, if it is not the purge of a room that
\* has a session.
LEMMA Appended ==
  ASSUME NEW q \in Seq(Job), NEW job \in Job, Alone(q), InOrder(q, tab'),
         \A i \in DOMAIN q : q[i].tab # job.tab,
         job.kind = "purge" => \A u \in Tab : Live(tab'[u]) => tab'[u].room # job.room
  PROVE  Alone(Append(q, job)) /\ InOrder(Append(q, job), tab')
<1> DEFINE qq == Append(q, job)
<1>1. /\ DOMAIN q = 1..Len(q) /\ Len(q) \in Nat /\ DOMAIN qq = 1..(Len(q) + 1)
      /\ \A i \in DOMAIN q : qq[i] = q[i]
      /\ qq[Len(q) + 1] = job
  BY AppendFacts
<1> HIDE DEF qq
<1>2. Alone(qq)
  BY <1>1 DEF Alone
<1>3. InOrder(qq, tab')
  <2> SUFFICES ASSUME NEW i \in DOMAIN qq, qq[i].kind = "purge",
                      NEW u \in Tab, Live(tab'[u]), tab'[u].room = qq[i].room
               PROVE  ~tab'[u].ready /\ \A j \in DOMAIN qq : qq[j].tab = u => i < j
    BY DEF InOrder, qq
  <2>1. i \in DOMAIN q /\ qq[i] = q[i]
    BY <1>1
  <2>2. ~tab'[u].ready /\ \A j \in DOMAIN q : q[j].tab = u => i < j
    BY <2>1 DEF InOrder
  <2>3. QED
    BY <1>1, <2>1, <2>2
<1>4. QED
  BY <1>2, <1>3 DEF qq

\* The requests of others than t still fit when only t's document changes.
LEMMA OthersFit ==
  ASSUME FilesInv, NEW t \in Tab, NEW q \in Seq(Job), Within(q),
         \A i \in DOMAIN q : q[i].tab # t,
         \A u \in Tab \ {t} : tab'[u] = tab[u]
  PROVE  \A i \in DOMAIN q : Fits(q[i], tab'[q[i].tab])
<1> SUFFICES ASSUME NEW i \in DOMAIN q
             PROVE  Fits(q[i], tab'[q[i].tab])
  OBVIOUS
<1>1. PICK k \in DOMAIN queue : q[i] = queue[k]
  BY DEF Within
<1>2. q[i].tab \in Tab \ {t}
  BY JobFacts DEF FilesInv
<1>3. Fits(queue[k], tab[queue[k].tab])
  BY DEF FilesInv, RequestsFit
<1>4. QED
  BY <1>1, <1>2, <1>3

\* Show: the document of t goes with its locks and its request, and the one that
\* comes has nothing yet.  The landing page requests a sweep.
LEMMA ShownFiles ==
  ASSUME FilesInv, NEW t \in Tab, NEW D \in Document, Show(t, D),
         D.stage = "loading", D.init = "probing", ~D.ready, D.page = "chat" => D.room \in Room,
         store' \in [Tab -> [Room -> Record]], docs' \in 0..MaxDocs,
         \/ queue' = QueueWithout(t)
         \/ D.page = "landing" /\ queue' = LandingSweeps(t, QueueWithout(t))
  PROVE  FilesInv'
<1>1. /\ tab'[t] = D /\ \A u \in Tab \ {t} : tab'[u] = tab[u]
      /\ tab' \in [Tab -> Document]
  BY DEF FilesInv, Types, Show
<1>2. /\ QueueWithout(t) \in Seq(Job) /\ Within(QueueWithout(t))
      /\ \A i \in DOMAIN QueueWithout(t) : QueueWithout(t)[i].tab # t
  BY WithoutFacts DEF FilesInv
<1> DEFINE q == QueueWithout(t)
           job == [tab |-> t, kind |-> "sweep", room |-> tab[t].room]
<1>3. ~Live(tab'[t]) /\ \A u \in Tab \ {t} : Live(tab'[u]) <=> Session(u)
  BY <1>1 DEF Session, Live
<1>4. /\ claim' \in [Room -> Tab \cup {NoTab}]
      /\ \A r \in Room : claim[r] # t => claim'[r] = claim[r]
  BY DEF FilesInv, Types, Show, Release
<1>5. job \in Job
  BY DEF FilesInv, Types, Document, Job
<1>6. queue' \in Seq(Job)
  BY <1>2, <1>5, AppendFacts DEF LandingSweeps
<1>7. Types'
  BY <1>1, <1>4, <1>6 DEF FilesInv, Types, Show
<1>8. HoldersClaim'
  <2> SUFFICES ASSUME NEW u \in Tab, Live(tab'[u])
               PROVE  claim'[tab'[u].room] = u
    BY DEF HoldersClaim, Session
  <2>1. u # t /\ Session(u) /\ tab'[u] = tab[u]
    BY <1>1, <1>3
  <2>2. claim[tab[u].room] = u /\ tab[u].room \in Room
    BY <2>1 DEF FilesInv, HoldersClaim, Types, Session, Live
  <2>3. QED
    BY <1>4, <2>1, <2>2
<1>9. Stages'
  BY <1>1 DEF FilesInv, Stages
<1>10. \A i \in DOMAIN q : Fits(q[i], tab'[q[i].tab])
  BY <1>1, <1>2, OthersFit
<1>a. Alone(q) /\ InOrder(q, tab')
  BY <1>1, <1>2, <1>3, Thinned
<1>11. RequestsFit' /\ OneRequest' /\ PurgeFirst'
  <2>1. CASE queue' = q
    <3>1. RequestsFit'
      BY <1>10, <2>1 DEF RequestsFit
    <3>2. OneRequest' /\ PurgeFirst'
      BY <1>a, <2>1 DEF OneRequest, PurgeFirst
    <3>3. QED
      BY <3>1, <3>2
  <2>2. CASE D.page = "landing" /\ queue' = Append(q, job)
    <3>1. Fits(job, tab'[job.tab])
      BY <1>1, <2>2 DEF Fits
    <3>2. RequestsFit'
      BY <1>2, <1>5, <1>10, <2>2, <3>1, AppendFacts DEF RequestsFit
    <3>3. Alone(Append(q, job)) /\ InOrder(Append(q, job), tab')
      BY <1>2, <1>5, <1>a, Appended
    <3>4. QED
      BY <2>2, <3>2, <3>3 DEF OneRequest, PurgeFirst
  <2>3. QED
    BY <2>1, <2>2 DEF LandingSweeps
<1>12. SnapshotCovers'
  BY <1>1 DEF FilesInv, SnapshotCovers, Show, SnapshotWithout
<1>13. DirectoryKept'
  BY <1>1 DEF FilesInv, DirectoryKept, Show
<1>14. QED
  BY <1>7, <1>8, <1>9, <1>11, <1>12, <1>13 DEF FilesInv

\* A step that leaves the documents' pages, stages and directories alone, and
\* the locks of pages, leaves the invariant alone.
LEMMA Untouched ==
  ASSUME FilesInv, Types',
         \A u \in Tab : /\ tab'[u].page = tab[u].page /\ tab'[u].room = tab[u].room
                        /\ tab'[u].stage = tab[u].stage /\ tab'[u].init = tab[u].init
                        /\ tab'[u].ready = tab[u].ready,
         UNCHANGED <<claim, queue, snapshot>>, dirs \subseteq dirs'
  PROVE  FilesInv'
<1>1. \A u \in Tab : Live(tab'[u]) <=> Live(tab[u])
  BY DEF Live
<1>2. queue' = queue /\ snapshot' = snapshot /\ claim' = claim
  OBVIOUS
<1>3. HoldersClaim' /\ Stages' /\ SnapshotCovers' /\ DirectoryKept'
  BY <1>1, <1>2 DEF FilesInv, HoldersClaim, Session, Stages, SnapshotCovers, DirectoryKept
<1>4. RequestsFit'
  <2> SUFFICES ASSUME NEW i \in DOMAIN queue
               PROVE  Fits(queue[i], tab'[queue[i].tab])
    BY <1>2 DEF RequestsFit
  <2>1. queue[i].tab \in Tab /\ Fits(queue[i], tab[queue[i].tab])
    BY JobFacts DEF FilesInv, RequestsFit, Types
  <2>2. QED
    BY <2>1 DEF Fits
<1>5. OneRequest' /\ PurgeFirst'
  BY <1>1, <1>2 DEF FilesInv, OneRequest, PurgeFirst, InOrder
<1>6. QED
  BY <1>3, <1>4, <1>5 DEF FilesInv

\* The queue stays, and one document changes.
LEMMA SameQueue ==
  ASSUME FilesInv
  PROVE  queue \in Seq(Job) /\ Within(queue) /\ Alone(queue)
<1> DEFINE f == [i \in DOMAIN queue |-> i]
<1>1. f \in [DOMAIN queue -> DOMAIN queue]
  OBVIOUS
<1>2. \A i, j \in DOMAIN queue : i < j => f[i] < f[j]
  OBVIOUS
<1>3. Within(queue)
  BY <1>1, <1>2 DEF Within
<1>4. QED
  BY <1>3 DEF FilesInv, Types, OneRequest

\* A document that has requested nothing is in nobody's way.
LEMMA NothingRequested ==
  ASSUME FilesInv, NEW t \in Tab,
         \/ tab[t].page = "none"
         \/ tab[t].page = "chat" /\ tab[t].init = "probing"
         \/ tab[t].page = "chat" /\ tab[t].init = "done" /\ tab[t].stage # "ended"
  PROVE  \A i \in DOMAIN queue : queue[i].tab # t
<1> SUFFICES ASSUME NEW i \in DOMAIN queue, queue[i].tab = t
             PROVE  FALSE
  OBVIOUS
<1>1. queue[i] \in Job /\ Fits(queue[i], tab[t])
  BY JobFacts DEF FilesInv, Types, RequestsFit
<1>2. queue[i].kind \in {"boot", "sweep", "purge"}
  BY <1>1 DEF Job
<1>3. QED
  BY <1>1, <1>2 DEF Fits

-----------------------------------------------------------------------------
(* One lemma per operation                                                 *)

\* Duplicate: the copy has nothing yet, whatever the original has.
LEMMA DuplicateFiles ==
  ASSUME FilesInv, NEW t \in Tab, NEW u \in Tab, Duplicate(t, u)
  PROVE  FilesInv'
<1> DEFINE D == IF tab[t].page = "chat" THEN NewChat(tab[t].room) ELSE Other(tab[t].page)
           job == [tab |-> u, kind |-> "sweep", room |-> tab[u].room]
<1>1. tab[t].page = "chat" => tab[t].room \in Room /\ docs + 1 \in 0..MaxDocs
  BY DEF FilesInv, Types, Duplicate, NewDoc
<1>2. /\ D \in Document /\ D.page = tab[t].page /\ (D.page = "chat" => D.room \in Room)
      /\ D.stage = "loading" /\ D.init = "probing" /\ ~D.ready
  <2>1. CASE tab[t].page = "chat"
    BY <1>1, <2>1, NewDocuments DEF NewChat, Blank
  <2>2. CASE tab[t].page # "chat"
    <3>1. tab[t].page \in {"landing", "elsewhere"}
      BY <2>2 DEF FilesInv, Types, Document, Duplicate
    <3>2. QED
      BY <2>2, <3>1, NewDocuments
  <2>3. QED
    BY <2>1, <2>2
<1>3. /\ tab' \in [Tab -> Document] /\ tab'[u] = D /\ \A v \in Tab \ {u} : tab'[v] = tab[v]
  <2>1. tab' = [tab EXCEPT ![u] = D]
    BY DEF Duplicate
  <2> HIDE DEF D
  <2>2. QED
    BY <1>2, <2>1 DEF FilesInv, Types
<1> HIDE DEF D
<1>4. snapshot' = snapshot /\ dirs' = dirs /\ claim' = claim
  BY DEF Duplicate
<1>5. \A i \in DOMAIN queue : queue[i].tab # u
  BY NothingRequested DEF Duplicate
<1>6. ~Live(tab'[u])
  BY <1>2, <1>3 DEF Live
<1>7. store' \in [Tab -> [Room -> Record]] /\ docs' \in 0..MaxDocs /\ used' = used
  BY DEF FilesInv, Types, Duplicate, NewDoc, history
<1>8. HoldersClaim' /\ Stages' /\ SnapshotCovers' /\ DirectoryKept'
  BY <1>2, <1>3, <1>4, <1>6
     DEF FilesInv, HoldersClaim, Session, Stages, SnapshotCovers, DirectoryKept
<1>9. \A i \in DOMAIN queue : Fits(queue[i], tab'[queue[i].tab])
  BY <1>3, <1>5, SameQueue, OthersFit
<1>10. Alone(queue) /\ InOrder(queue, tab')
  BY <1>3, <1>6, SameQueue, Thinned DEF Session
<1>11. job \in Job
  BY DEF FilesInv, Types, Document, Job
<1>12. queue' = queue \/ (D.page = "landing" /\ queue' = Append(queue, job))
  BY <1>2 DEF Duplicate, QueueOf, LandingSweeps
<1>13. queue' \in Seq(Job) /\ RequestsFit' /\ Alone(queue') /\ InOrder(queue', tab')
  <2>1. CASE queue' = queue
    BY <1>9, <1>10, <2>1, SameQueue DEF RequestsFit
  <2>2. CASE D.page = "landing" /\ queue' = Append(queue, job)
    <3>1. Fits(job, tab'[u]) /\ job.tab = u /\ job.kind = "sweep"
      BY <1>3, <2>2 DEF Fits
    <3> HIDE DEF job
    <3>2. queue' \in Seq(Job) /\ RequestsFit'
      BY <1>9, <1>11, <2>2, <3>1, SameQueue, AppendFacts DEF RequestsFit
    <3>3. Alone(queue') /\ InOrder(queue', tab')
      BY <1>5, <1>10, <1>11, <2>2, <3>1, SameQueue, Appended
    <3>4. QED
      BY <3>2, <3>3
  <2>3. QED
    BY <1>12, <2>1, <2>2
<1>14. Types'
  BY <1>2, <1>3, <1>4, <1>7, <1>13 DEF FilesInv, Types
<1>15. QED
  BY <1>8, <1>13, <1>14 DEF FilesInv, OneRequest, PurgeFirst

\* ClaimRoom: a room without a lock has no session, so the new one is the only
\* one; who is refused ends.
LEMMA ClaimFiles ==
  ASSUME FilesInv, NEW t \in Tab, ClaimRoom(t)
  PROVE  FilesInv'
<1>0. NoRecord \in Record
  BY DEF NoRecord, Record
<1>1. /\ tab[t].page = "chat" /\ tab[t].stage = "loading" /\ tab[t].room \in Room
      /\ tab[t].init = "probing" /\ ~tab[t].ready /\ tab[t] \in Document
      /\ store[t][tab[t].room] \in Record
  BY DEF FilesInv, Types, Stages, ClaimRoom
<1>2. queue' = queue /\ snapshot' = snapshot /\ dirs' = dirs /\ used' = used /\ docs' = docs
  BY DEF ClaimRoom, opfs, history
<1>3. /\ \A u \in Tab \ {t} : tab'[u] = tab[u]
      /\ tab' \in [Tab -> Document]
      /\ tab'[t].page = "chat" /\ tab'[t].room = tab[t].room
      /\ tab'[t].init = "probing" /\ ~tab'[t].ready
      /\ tab'[t].stage \in {"running", "ended"}
      /\ tab'[t].stage = "running" => claim[tab[t].room] = NoTab
  <2>1. CASE claim[tab[t].room] = NoTab
    <3> DEFINE rec == store[t][tab[t].room]
               d == [tab[t] EXCEPT !.stage = "running",
                                   !.active = IF rec # NoRecord THEN rec ELSE @]
    <3>1. tab' = [tab EXCEPT ![t] = d]
      BY <2>1 DEF ClaimRoom
    <3>2. /\ d \in Document /\ d.page = "chat" /\ d.room = tab[t].room
          /\ d.init = "probing" /\ ~d.ready /\ d.stage = "running"
      BY <1>1 DEF Document
    <3>3. QED
      BY <2>1, <3>1, <3>2 DEF FilesInv, Types
  <2>2. CASE claim[tab[t].room] # NoTab
    <3> DEFINE d == [tab[t] EXCEPT !.stage = "ended", !.active = NoRecord]
    <3>1. tab' = [tab EXCEPT ![t] = d]
      BY <2>2 DEF ClaimRoom
    <3>2. /\ d \in Document /\ d.page = "chat" /\ d.room = tab[t].room
          /\ d.init = "probing" /\ ~d.ready /\ d.stage = "ended"
      BY <1>1, <1>0 DEF Document
    <3>3. QED
      BY <2>2, <3>1, <3>2 DEF FilesInv, Types
  <2>3. QED
    BY <2>1, <2>2
<1>4. store' \in [Tab -> [Room -> Record]]
  <2>1. store \in [Tab -> [Room -> Record]]
    BY DEF FilesInv, Types
  <2>2. [store EXCEPT ![t][tab[t].room] = NoRecord] \in [Tab -> [Room -> Record]]
    BY <1>0, <1>1, <2>1
  <2>3. store' = store \/ store' = [store EXCEPT ![t][tab[t].room] = NoRecord]
    BY DEF ClaimRoom, StoreAfterRefusal
  <2>4. QED
    BY <2>1, <2>2, <2>3
<1>5. /\ claim' \in [Room -> Tab \cup {NoTab}]
      /\ \A r \in Room : claim[r] # NoTab => claim'[r] = claim[r]
      /\ tab'[t].stage = "running" => claim'[tab[t].room] = t
  <2>1. claim \in [Room -> Tab \cup {NoTab}]
    BY DEF FilesInv, Types
  <2>2. CASE claim[tab[t].room] = NoTab
    <3>1. claim' = [claim EXCEPT ![tab[t].room] = t]
      BY <2>2 DEF ClaimRoom
    <3>2. QED
      BY <1>1, <2>1, <2>2, <3>1
  <2>3. CASE claim[tab[t].room] # NoTab
    <3>1. claim' = claim
      BY <2>3 DEF ClaimRoom
    <3>2. QED
      BY <1>3, <2>1, <2>3, <3>1
  <2>4. QED
    BY <2>2, <2>3
<1>6. Types'
  BY <1>1, <1>2, <1>3, <1>4, <1>5 DEF FilesInv, Types
<1>7. HoldersClaim'
  <2> SUFFICES ASSUME NEW u \in Tab, Live(tab'[u])
               PROVE  claim'[tab'[u].room] = u
    BY DEF HoldersClaim, Session
  <2>1. CASE u = t
    BY <1>3, <1>5, <2>1 DEF Live
  <2>2. CASE u # t
    <3>1. claim[tab[u].room] = u /\ tab[u].room \in Room /\ tab'[u] = tab[u]
      BY <1>3, <2>2 DEF FilesInv, HoldersClaim, Session, Live, Types
    <3>2. QED
      BY <1>5, <3>1
  <2>3. QED
    BY <2>1, <2>2
<1>8. Stages' /\ SnapshotCovers' /\ DirectoryKept'
  BY <1>1, <1>2, <1>3 DEF FilesInv, Stages, SnapshotCovers, DirectoryKept
<1>9. \A i \in DOMAIN queue : queue[i].tab # t
  BY <1>1, NothingRequested
<1>10. RequestsFit'
  BY <1>2, <1>3, <1>9, SameQueue, OthersFit DEF RequestsFit
<1>11. InOrder(queue, tab')
  BY <1>3, <1>9 DEF FilesInv, PurgeFirst, InOrder
<1>12. QED
  BY <1>2, <1>6, <1>7, <1>8, <1>10, <1>11 DEF FilesInv, OneRequest, PurgeFirst

\* Finalize: the purge is requested before the lock goes, so it is ahead of
\* whatever the next session of the room requests.
LEMMA FinalizeFiles ==
  ASSUME FilesInv, NEW t \in Tab, Session(t), Finalize(t)
  PROVE  FilesInv'
<1>a. PICK worker \in {tab[t].worker} \cup (IF tab[t].worker = "holding" THEN {"none"} ELSE {}) :
        tab' = [tab EXCEPT ![t].stage = "ended", ![t].ready = FALSE,
                           ![t].worker = worker, ![t].active = NoRecord]
  BY DEF Finalize
<1> DEFINE d == [tab[t] EXCEPT !.stage = "ended", !.ready = FALSE,
                               !.worker = worker, !.active = NoRecord]
           job == [tab |-> t, kind |-> "purge", room |-> tab[t].room]
<1>0. NoRecord \in Record
  BY DEF NoRecord, Record
<1>1. /\ tab[t].page = "chat" /\ tab[t].stage # "ended" /\ tab[t].room \in Room
      /\ tab[t] \in Document /\ claim[tab[t].room] = t /\ job \in Job
      /\ tab[t].stage # "loading"
  BY DEF FilesInv, Types, HoldersClaim, Session, Live, Job, Place
<1>2. /\ d \in Document /\ d.page = "chat" /\ d.room = tab[t].room /\ d.init = tab[t].init
      /\ d.stage = "ended" /\ ~d.ready
  BY <1>0, <1>1 DEF Document
<1>3. /\ tab' \in [Tab -> Document] /\ tab'[t] = d /\ \A u \in Tab \ {t} : tab'[u] = tab[u]
  <2>1. tab' = [tab EXCEPT ![t] = d]
    BY <1>a
  <2>2. QED
    BY <1>2, <2>1 DEF FilesInv, Types
<1> HIDE DEF d
<1>4. store' \in [Tab -> [Room -> Record]]
  <2>1. store \in [Tab -> [Room -> Record]]
    BY DEF FilesInv, Types
  <2>2. store' = [store EXCEPT ![t][tab[t].room] = NoRecord]
    BY DEF Finalize
  <2>3. QED
    BY <1>0, <1>1, <2>1, <2>2
<1>5. /\ claim' \in [Room -> Tab \cup {NoTab}]
      /\ \A r \in Room : claim[r] # t => claim'[r] = claim[r]
  BY DEF FilesInv, Types, Finalize, Release
<1>6. snapshot' = snapshot /\ dirs' = dirs /\ used' = used /\ docs' = docs
  BY DEF Finalize
<1>7. ~Live(tab'[t])
  BY <1>2, <1>3 DEF Live
<1>8. \A u \in Tab : Live(tab'[u]) => u # t /\ Session(u) /\ tab'[u] = tab[u]
  BY <1>3, <1>7 DEF Session
<1>9. HoldersClaim'
  <2> SUFFICES ASSUME NEW u \in Tab, Live(tab'[u])
               PROVE  claim'[tab'[u].room] = u
    BY DEF HoldersClaim, Session
  <2>1. claim[tab[u].room] = u /\ tab[u].room \in Room /\ tab'[u] = tab[u] /\ u # t
    BY <1>8 DEF FilesInv, HoldersClaim, Types, Session, Live
  <2>2. QED
    BY <1>5, <2>1
<1>10. Stages' /\ SnapshotCovers' /\ DirectoryKept'
  BY <1>1, <1>2, <1>3, <1>6 DEF FilesInv, Stages, SnapshotCovers, DirectoryKept
<1>11. Alone(queue) /\ InOrder(queue, tab')
  BY <1>8, SameQueue, Thinned
<1>12. CASE tab[t].ready
  <2>1. queue' = Append(queue, job)
    BY <1>12 DEF Finalize
  <2>2. tab[t].init = "done"
    BY <1>12 DEF FilesInv, Stages
  <2>3. \A i \in DOMAIN queue : queue[i].tab # t
    BY <1>1, <2>2, NothingRequested
  <2>4. \A i \in DOMAIN queue : Fits(queue[i], tab'[queue[i].tab])
    BY <1>3, <2>3, SameQueue, OthersFit
  <2>5. Fits(job, tab'[t])
    BY <1>2, <1>3, <2>2 DEF Fits
  <2> HIDE DEF job
  <2>6. job.tab = t /\ job.room = tab[t].room
    BY DEF job
  <2>7. queue' \in Seq(Job) /\ RequestsFit'
    BY <1>1, <2>1, <2>4, <2>5, <2>6, SameQueue, AppendFacts DEF RequestsFit
  <2>8. \A u \in Tab : Live(tab'[u]) => tab'[u].room # job.room
    BY <1>1, <1>8, <2>6 DEF FilesInv, HoldersClaim
  <2>9. Alone(queue') /\ InOrder(queue', tab')
    BY <1>1, <1>11, <2>1, <2>3, <2>6, <2>8, SameQueue, Appended
  <2>10. Types'
    BY <1>1, <1>2, <1>3, <1>4, <1>5, <1>6, <2>7 DEF FilesInv, Types
  <2>11. QED
    BY <1>9, <1>10, <2>7, <2>9, <2>10 DEF FilesInv, OneRequest, PurgeFirst
<1>13. CASE ~tab[t].ready
  <2>1. queue' = queue
    BY <1>13 DEF Finalize
  <2>2. RequestsFit'
    <3> SUFFICES ASSUME NEW i \in DOMAIN queue
                 PROVE  Fits(queue[i], tab'[queue[i].tab])
      BY <2>1 DEF RequestsFit
    <3>1. queue[i].tab \in Tab /\ Fits(queue[i], tab[queue[i].tab])
      BY JobFacts DEF FilesInv, RequestsFit, Types
    <3>2. CASE queue[i].tab = t
      BY <1>1, <1>2, <1>3, <3>1, <3>2 DEF Fits
    <3>3. CASE queue[i].tab # t
      BY <1>3, <3>1, <3>3
    <3>4. QED
      BY <3>2, <3>3
  <2>3. Types'
    BY <1>1, <1>2, <1>3, <1>4, <1>5, <1>6, <2>1 DEF FilesInv, Types
  <2>4. QED
    BY <1>9, <1>10, <1>11, <2>1, <2>2, <2>3 DEF FilesInv, OneRequest, PurgeFirst
<1>14. QED
  BY <1>12, <1>13

\* Terminate: at once, or with the three seconds of FATAL_ENDING first.
LEMMA TerminateFiles ==
  ASSUME FilesInv, NEW t \in Tab, Terminate(t)
  PROVE  FilesInv'
<1>1. Session(t)
  BY DEF Terminate, Session, Live
<1>2. CASE Finalize(t)
  BY <1>1, <1>2, FinalizeFiles
<1>3. CASE /\ tab' = [tab EXCEPT ![t].stage = "ending"]
           /\ UNCHANGED <<store, claim, opfs, history, docs>>
  <2> DEFINE d == [tab[t] EXCEPT !.stage = "ending"]
  <2>1. /\ tab[t] \in Document /\ tab[t].stage = "running" /\ tab[t].page = "chat"
    BY DEF FilesInv, Types, Terminate
  <2>2. /\ d \in Document /\ d.page = "chat" /\ d.room = tab[t].room /\ d.init = tab[t].init
        /\ d.ready = tab[t].ready /\ d.stage = "ending"
    BY <2>1 DEF Document
  <2>3. /\ tab' \in [Tab -> Document] /\ tab'[t] = d /\ \A u \in Tab \ {t} : tab'[u] = tab[u]
    <3>1. tab' = [tab EXCEPT ![t] = d]
      BY <1>3
    <3>2. QED
      BY <2>2, <3>1 DEF FilesInv, Types
  <2> HIDE DEF d
  <2>4. \A u \in Tab : Live(tab'[u]) <=> Live(tab[u])
    BY <2>1, <2>2, <2>3 DEF Live
  <2>5. /\ queue' = queue /\ snapshot' = snapshot /\ dirs' = dirs /\ claim' = claim
        /\ store' = store /\ used' = used /\ docs' = docs
    BY <1>3 DEF opfs, history
  <2>6. Types'
    BY <2>1, <2>2, <2>3, <2>5 DEF FilesInv, Types
  <2>7. HoldersClaim' /\ Stages' /\ SnapshotCovers' /\ DirectoryKept'
    BY <2>1, <2>2, <2>3, <2>4, <2>5
       DEF FilesInv, HoldersClaim, Session, Stages, SnapshotCovers, DirectoryKept
  <2>8. RequestsFit'
    <3> SUFFICES ASSUME NEW i \in DOMAIN queue
                 PROVE  Fits(queue[i], tab'[queue[i].tab])
      BY <2>5 DEF RequestsFit
    <3>1. queue[i].tab \in Tab /\ Fits(queue[i], tab[queue[i].tab])
      BY JobFacts DEF FilesInv, RequestsFit, Types
    <3>2. CASE queue[i].tab = t
      BY <2>1, <2>2, <2>3, <3>1, <3>2 DEF Fits
    <3>3. CASE queue[i].tab # t
      BY <2>3, <3>1, <3>3
    <3>4. QED
      BY <3>2, <3>3
  <2>9. InOrder(queue, tab')
    BY <2>2, <2>3, <2>4 DEF FilesInv, PurgeFirst, InOrder
  <2>10. QED
    BY <2>5, <2>6, <2>7, <2>8, <2>9 DEF FilesInv, OneRequest, PurgeFirst
<1>4. QED
  BY <1>2, <1>3 DEF Terminate

\* Probe: the boot sweep is requested, or the file system is not used.
LEMMA ProbeFiles ==
  ASSUME FilesInv, NEW t \in Tab, Probe(t)
  PROVE  FilesInv'
<1>1. PICK supported \in BOOLEAN :
        /\ tab' = [tab EXCEPT ![t].init = IF supported THEN "queued" ELSE "off"]
        /\ queue' = IF supported
                    THEN Append(queue, [tab |-> t, kind |-> "boot", room |-> tab[t].room])
                    ELSE queue
  BY DEF Probe, runOpfsCapabilityProbe
<1> DEFINE d == [tab[t] EXCEPT !.init = IF supported THEN "queued" ELSE "off"]
           job == [tab |-> t, kind |-> "boot", room |-> tab[t].room]
<1>2. /\ tab[t].page = "chat" /\ tab[t].stage # "loading" /\ tab[t].init = "probing"
      /\ tab[t].room \in Room /\ tab[t] \in Document /\ ~tab[t].ready /\ job \in Job
  BY DEF FilesInv, Types, Stages, Probe, Job, Place
<1>3. /\ d \in Document /\ d.page = "chat" /\ d.room = tab[t].room
      /\ d.stage = tab[t].stage /\ ~d.ready
      /\ d.init = IF supported THEN "queued" ELSE "off"
  BY <1>2 DEF Document
<1>4. /\ tab' \in [Tab -> Document] /\ tab'[t] = d /\ \A u \in Tab \ {t} : tab'[u] = tab[u]
  <2>1. tab' = [tab EXCEPT ![t] = d]
    BY <1>1
  <2>2. QED
    BY <1>3, <2>1 DEF FilesInv, Types
<1>5. /\ snapshot' = snapshot /\ dirs' = dirs /\ claim' = claim
      /\ store' = store /\ used' = used /\ docs' = docs
  BY DEF Probe, history
<1> HIDE DEF d
<1>6. \A u \in Tab : Live(tab'[u]) <=> Live(tab[u])
  BY <1>2, <1>3, <1>4 DEF Live
<1>7. HoldersClaim' /\ Stages' /\ SnapshotCovers' /\ DirectoryKept'
  BY <1>2, <1>3, <1>4, <1>5, <1>6
     DEF FilesInv, HoldersClaim, Session, Stages, SnapshotCovers, DirectoryKept
<1>8. \A i \in DOMAIN queue : queue[i].tab # t
  BY <1>2, NothingRequested
<1>9. \A i \in DOMAIN queue : Fits(queue[i], tab'[queue[i].tab])
  BY <1>4, <1>8, SameQueue, OthersFit
<1>10. Alone(queue) /\ InOrder(queue, tab')
  BY <1>2, <1>3, <1>4, <1>6, SameQueue, Thinned DEF Session
<1>11. queue' \in Seq(Job) /\ RequestsFit' /\ Alone(queue') /\ InOrder(queue', tab')
  <2>1. CASE supported
    <3>1. queue' = Append(queue, job)
      BY <1>1, <2>1
    <3>2. Fits(job, tab'[t])
      BY <1>3, <1>4, <2>1 DEF Fits
    <3>3. job.tab = t /\ job.kind = "boot"
      OBVIOUS
    <3> HIDE DEF job
    <3>4. queue' \in Seq(Job) /\ RequestsFit'
      BY <1>2, <1>9, <3>1, <3>2, <3>3, SameQueue, AppendFacts DEF RequestsFit
    <3>5. Alone(queue') /\ InOrder(queue', tab')
      BY <1>2, <1>8, <1>10, <3>1, <3>3, SameQueue, Appended
    <3>6. QED
      BY <3>4, <3>5
  <2>2. CASE ~supported
    BY <1>1, <1>9, <1>10, <2>2, SameQueue DEF RequestsFit
  <2>3. QED
    BY <2>1, <2>2
<1>12. Types'
  BY <1>2, <1>3, <1>4, <1>5, <1>11 DEF FilesInv, Types
<1>13. QED
  BY <1>7, <1>11, <1>12 DEF FilesInv, OneRequest, PurgeFirst

\* QueryLocks: a session that has a directory holds its name.
LEMMA QueryFiles ==
  ASSUME FilesInv, QueryLocks
  PROVE  FilesInv'
<1>1. /\ tab' = tab /\ queue' = queue /\ dirs' = dirs /\ claim' = claim
      /\ store' = store /\ used' = used /\ docs' = docs /\ snapshot' = LiveDirs
  BY DEF QueryLocks, history
<1>2. SnapshotCovers'
  <2> SUFFICES ASSUME NEW t \in Tab, tab[t].ready
               PROVE  tab[t].room \in LiveDirs
    BY <1>1 DEF SnapshotCovers
  <2>1. tab[t].init = "done" /\ tab[t].page = "chat" /\ tab[t].room \in Room
    BY DEF FilesInv, Stages, Types
  <2>2. QED
    BY <2>1 DEF LiveDirs, InChat
<1>3. QED
  BY <1>1, <1>2 DEF FilesInv, Types, HoldersClaim, Session, Stages, RequestsFit, OneRequest,
                    PurgeFirst, InOrder, DirectoryKept

\* The holder goes, with its document changed or not.  What it leaves behind is in
\* order, if no document was given a directory that a purge still waits for.
LEMMA HolderGoes ==
  ASSUME FilesInv, queue # <<>>, queue' = Tail(queue), snapshot' = {"none"}, Types',
         \A u \in Tab \ {Head(queue).tab} : tab'[u] = tab[u],
         \A u \in Tab : Live(tab'[u]) => Session(u) /\ tab'[u].room = tab[u].room,
         HoldersClaim', Stages', DirectoryKept',
         \A u \in Tab : (tab'[u].ready /\ ~tab[u].ready) => Head(queue).tab = u
  PROVE  FilesInv'
<1>1. /\ Tail(queue) \in Seq(Job) /\ Within(Tail(queue))
      /\ 1 \in DOMAIN queue /\ Head(queue) = queue[1] /\ queue[1] \in Job
      /\ DOMAIN Tail(queue) = 1..(Len(queue) - 1) /\ DOMAIN queue = 1..Len(queue)
      /\ Len(queue) \in Nat \ {0}
      /\ \A i \in DOMAIN Tail(queue) : Tail(queue)[i] = queue[i + 1]
  BY TailFacts DEF FilesInv
<1> DEFINE q == Tail(queue)
<1>2. Head(queue).tab \in Tab
  BY <1>1 DEF Job
<1>3. \A i \in DOMAIN q : q[i].tab # Head(queue).tab
  BY <1>1 DEF FilesInv, OneRequest, Alone
<1>4. RequestsFit'
  BY <1>1, <1>2, <1>3, OthersFit DEF RequestsFit
<1>5. Alone(q)
  BY <1>1 DEF FilesInv, OneRequest, Alone
<1>6. InOrder(q, tab')
  <2> SUFFICES ASSUME NEW i \in DOMAIN q, q[i].kind = "purge",
                      NEW u \in Tab, Live(tab'[u]), tab'[u].room = q[i].room
               PROVE  ~tab'[u].ready /\ \A j \in DOMAIN q : q[j].tab = u => i < j
    BY DEF InOrder
  <2>1. i + 1 \in DOMAIN queue /\ q[i] = queue[i + 1] /\ i \in Nat
    BY <1>1
  <2>2. Session(u) /\ tab[u].room = queue[i + 1].room
    BY <2>1
  <2>3. ~tab[u].ready /\ \A j \in DOMAIN queue : queue[j].tab = u => i + 1 < j
    BY <2>1, <2>2 DEF FilesInv, PurgeFirst, InOrder, Session
  <2>4. Head(queue).tab # u
    BY <1>1, <2>1, <2>3
  <2>5. ~tab'[u].ready
    BY <2>3, <2>4
  <2>6. \A j \in DOMAIN q : q[j].tab = u => i < j
    BY <1>1, <2>1, <2>3
  <2>7. QED
    BY <2>5, <2>6
<1>7. SnapshotCovers'
  BY DEF SnapshotCovers
<1>8. QED
  BY <1>4, <1>5, <1>6, <1>7 DEF FilesInv, OneRequest, PurgeFirst

\* Work: what goes is the directory of nobody who has one.
LEMMA WorkFiles ==
  ASSUME FilesInv, Work
  PROVE  FilesInv'
<1> DEFINE job == Head(queue)
           d == [tab[job.tab] EXCEPT !.init = "done", !.ready = TRUE]
<1>0. queue # <<>>
  BY DEF Work
<1>1. /\ 1 \in DOMAIN queue /\ job = queue[1] /\ job \in Job /\ Tail(queue) \in Seq(Job)
  BY <1>0, TailFacts DEF FilesInv
<1>2. /\ job.tab \in Tab /\ tab[job.tab] \in Document /\ job.kind \in {"boot", "sweep", "purge"}
      /\ Fits(job, tab[job.tab])
  BY <1>1 DEF FilesInv, Types, RequestsFit, Job
<1>3. /\ queue' = Tail(queue) /\ snapshot' = {"none"} /\ claim' = claim
      /\ store' = store /\ used' = used /\ docs' = docs
      /\ (dirs \ Doomed(job)) \cup (IF job.kind = "boot" THEN {job.room} ELSE {}) \subseteq dirs'
      /\ job.kind = "purge" \/ snapshot # {"none"}
  BY DEF Work, history
<1>4. /\ d \in Document /\ d.page = tab[job.tab].page /\ d.room = tab[job.tab].room
      /\ d.stage = tab[job.tab].stage /\ d.init = "done" /\ d.ready
  BY <1>2 DEF Document
<1>5. tab' = IF job.kind = "boot" THEN [tab EXCEPT ![job.tab] = d] ELSE tab
  BY DEF Work
<1>6. /\ tab' \in [Tab -> Document] /\ \A u \in Tab \ {job.tab} : tab'[u] = tab[u]
      /\ tab'[job.tab] = IF job.kind = "boot" THEN d ELSE tab[job.tab]
  BY <1>2, <1>4, <1>5 DEF FilesInv, Types
<1> HIDE DEF d, job
<1>7. \A u \in Tab : /\ tab'[u].page = tab[u].page /\ tab'[u].room = tab[u].room
                     /\ tab'[u].stage = tab[u].stage
  BY <1>2, <1>4, <1>6
<1>8. \A u \in Tab : Live(tab'[u]) <=> Session(u)
  BY <1>7 DEF Live, Session
<1>9. Types'
  BY <1>1, <1>3, <1>6, <1>7 DEF FilesInv, Types
<1>10. HoldersClaim'
  BY <1>3, <1>7, <1>8 DEF FilesInv, HoldersClaim, Session
<1>11. Stages'
  <2>1. job.kind = "boot" => tab[job.tab].stage # "loading"
    BY <1>2 DEF FilesInv, Stages, Fits
  <2>2. QED
    BY <1>2, <1>4, <1>6, <2>1 DEF FilesInv, Stages
<1>12. DirectoryKept'
  <2> SUFFICES ASSUME NEW u \in Tab, Live(tab'[u]), tab'[u].ready
               PROVE  tab'[u].room \in dirs'
    BY DEF DirectoryKept, Live
  <2>1. CASE job.kind = "boot" /\ u = job.tab
    BY <1>2, <1>3, <1>4, <1>6, <2>1 DEF Fits
  <2>2. CASE ~(job.kind = "boot" /\ u = job.tab)
    <3>1. tab'[u] = tab[u] /\ Session(u) /\ tab[u].ready
      BY <1>6, <1>8, <2>2
    <3>2. tab[u].room \in dirs
      BY <3>1 DEF FilesInv, DirectoryKept, Session, Live
    <3>3. CASE job.kind = "purge"
      <4>1. tab[u].room # job.room
        BY <1>1, <3>1, <3>3 DEF FilesInv, PurgeFirst, InOrder, Session
      <4>2. QED
        BY <1>3, <3>1, <3>2, <3>3, <4>1 DEF Doomed
    <3>4. CASE job.kind \in {"boot", "sweep"}
      <4>1. tab[u].room \in snapshot
        BY <1>3, <3>1, <3>4 DEF FilesInv, SnapshotCovers
      <4>2. tab[u].room \notin Doomed(job)
        BY <3>4, <4>1 DEF Doomed
      <4>3. QED
        BY <1>3, <3>1, <3>2, <4>2
    <3>5. QED
      BY <1>2, <3>3, <3>4
  <2>3. QED
    BY <2>1, <2>2
<1>13. QED
  BY <1>0, <1>3, <1>6, <1>7, <1>8, <1>9, <1>10, <1>11, <1>12, HolderGoes DEF job

\* BootFails: the chat goes on without a directory.
LEMMA BootFailsFiles ==
  ASSUME FilesInv, BootFails
  PROVE  FilesInv'
<1> DEFINE job == Head(queue)
           d == [tab[job.tab] EXCEPT !.init = "failed"]
<1>0. queue # <<>> /\ job.kind = "boot"
  BY DEF BootFails
<1>1. /\ 1 \in DOMAIN queue /\ job = queue[1] /\ job \in Job /\ Tail(queue) \in Seq(Job)
  BY <1>0, TailFacts DEF FilesInv
<1>2. /\ job.tab \in Tab /\ tab[job.tab] \in Document /\ Fits(job, tab[job.tab])
  BY <1>1 DEF FilesInv, Types, RequestsFit, Job
<1>3. /\ queue' = Tail(queue) /\ snapshot' = {"none"} /\ claim' = claim /\ dirs' = dirs
      /\ store' = store /\ used' = used /\ docs' = docs
  BY DEF BootFails, history
<1>4. /\ d \in Document /\ d.page = tab[job.tab].page /\ d.room = tab[job.tab].room
      /\ d.stage = tab[job.tab].stage /\ d.init = "failed" /\ d.ready = tab[job.tab].ready
  BY <1>2 DEF Document
<1>5. /\ tab' \in [Tab -> Document] /\ \A u \in Tab \ {job.tab} : tab'[u] = tab[u]
      /\ tab'[job.tab] = d
  <2>1. tab' = [tab EXCEPT ![job.tab] = d]
    BY DEF BootFails
  <2>2. QED
    BY <1>2, <1>4, <2>1 DEF FilesInv, Types
<1>6. tab[job.tab].init = "queued" /\ ~tab[job.tab].ready /\ tab[job.tab].stage # "loading"
  BY <1>0, <1>2 DEF FilesInv, Stages, Fits
<1> HIDE DEF d, job
<1>7. \A u \in Tab : /\ tab'[u].page = tab[u].page /\ tab'[u].room = tab[u].room
                     /\ tab'[u].stage = tab[u].stage /\ tab'[u].ready = tab[u].ready
  BY <1>2, <1>4, <1>5
<1>8. \A u \in Tab : Live(tab'[u]) <=> Session(u)
  BY <1>7 DEF Live, Session
<1>9. Types'
  BY <1>1, <1>3, <1>5, <1>7 DEF FilesInv, Types
<1>10. HoldersClaim' /\ DirectoryKept'
  BY <1>3, <1>7, <1>8 DEF FilesInv, HoldersClaim, Session, DirectoryKept
<1>11. Stages'
  BY <1>2, <1>4, <1>5, <1>6 DEF FilesInv, Stages
<1>12. QED
  BY <1>0, <1>3, <1>5, <1>7, <1>8, <1>9, <1>10, <1>11, HolderGoes DEF job

\* Upgrade and Send: only the record and the counter.
LEMMA UpgradeFiles ==
  ASSUME FilesInv, NEW t \in Tab, Upgrade(t)
  PROVE  FilesInv'
<1>1. tab[t].active \in Record /\ tab[t].room \in Room
  BY DEF FilesInv, Types, Document, Upgrade
<1>2. store' \in [Tab -> [Room -> Record]]
  <2>1. store \in [Tab -> [Room -> Record]]
    BY DEF FilesInv, Types
  <2>2. store' = [store EXCEPT ![t][tab[t].room] = tab[t].active]
    BY DEF Upgrade
  <2>3. QED
    BY <1>1, <2>1, <2>2
<1>3. Types'
  BY <1>2 DEF FilesInv, Types, Upgrade, opfs, history
<1>4. QED
  BY <1>3, Untouched DEF Upgrade, opfs

LEMMA SendFiles ==
  ASSUME FilesInv, NEW t \in Tab, Send(t)
  PROVE  FilesInv'
<1> DEFINE next == [tab[t].active EXCEPT !.ctr = @ + 1]
           d == [tab[t] EXCEPT !.active = next]
<1>1. tab[t].active \in Record /\ tab[t].room \in Room /\ tab[t] \in Document
  BY DEF FilesInv, Types, Document, Send
<1>2. next \in Record /\ next.ctr \in Nat
  BY <1>1 DEF Record
<1> HIDE DEF next
<1>3. /\ d \in Document /\ d.page = tab[t].page /\ d.room = tab[t].room
      /\ d.stage = tab[t].stage /\ d.init = tab[t].init /\ d.ready = tab[t].ready
  BY <1>1, <1>2 DEF Document
<1>4. /\ tab' \in [Tab -> Document] /\ tab'[t] = d /\ \A u \in Tab \ {t} : tab'[u] = tab[u]
  <2>1. tab' = [tab EXCEPT ![t] = d]
    BY DEF Send, next
  <2>2. QED
    BY <1>3, <2>1 DEF FilesInv, Types
<1> HIDE DEF d
<1>5. store' \in [Tab -> [Room -> Record]]
  <2>1. store \in [Tab -> [Room -> Record]]
    BY DEF FilesInv, Types
  <2>2. store' = [store EXCEPT ![t][tab[t].room] = next]
    BY DEF Send, next
  <2>3. QED
    BY <1>1, <1>2, <2>1, <2>2
<1>6. used' \in [1..MaxDocs -> Nat]
  <2>1. used \in [1..MaxDocs -> Nat]
    BY DEF FilesInv, Types
  <2>2. used' = [used EXCEPT ![next.key] = IF next.ctr > @ THEN next.ctr ELSE @]
    BY DEF Send, next
  <2>3. QED
    BY <1>2, <2>1, <2>2
<1>7. UNCHANGED <<claim, queue, snapshot, dirs>> /\ docs' = docs
  BY DEF Send, opfs
<1>8. \A u \in Tab : /\ tab'[u].page = tab[u].page /\ tab'[u].room = tab[u].room
                     /\ tab'[u].stage = tab[u].stage /\ tab'[u].init = tab[u].init
                     /\ tab'[u].ready = tab[u].ready
  BY <1>3, <1>4
<1>9. Types'
  BY <1>4, <1>5, <1>6, <1>7, <1>8 DEF FilesInv, Types
<1>10. QED
  BY <1>7, <1>8, <1>9, Untouched

\* AcceptOffer, WorkerBegins and WorkerStops: only the worker, and a directory more.
LEMMA WorkerFiles ==
  ASSUME FilesInv, NEW t \in Tab, AcceptOffer(t) \/ WorkerBegins(t) \/ WorkerStops(t)
  PROVE  FilesInv'
<1>1. PICK w \in {"none", "waiting", "holding"} : tab' = [tab EXCEPT ![t].worker = w]
  BY DEF AcceptOffer, WorkerBegins, WorkerStops
<1> DEFINE d == [tab[t] EXCEPT !.worker = w]
<1>2. /\ d \in Document /\ d.page = tab[t].page /\ d.room = tab[t].room
      /\ d.stage = tab[t].stage /\ d.init = tab[t].init /\ d.ready = tab[t].ready
  <2>1. tab[t] \in Document
    BY DEF FilesInv, Types
  <2>2. QED
    BY <2>1 DEF Document
<1>3. tab' = [tab EXCEPT ![t] = d]
  BY <1>1
<1> HIDE DEF d
<1>4. /\ tab' \in [Tab -> Document] /\ tab'[t] = d /\ \A u \in Tab \ {t} : tab'[u] = tab[u]
  BY <1>2, <1>3 DEF FilesInv, Types
<1>5. /\ UNCHANGED <<claim, queue, snapshot>> /\ dirs \subseteq dirs'
      /\ store' = store /\ used' = used /\ docs' = docs
  BY DEF AcceptOffer, WorkerBegins, WorkerStops, opfs, history
<1>6. \A u \in Tab : /\ tab'[u].page = tab[u].page /\ tab'[u].room = tab[u].room
                     /\ tab'[u].stage = tab[u].stage /\ tab'[u].init = tab[u].init
                     /\ tab'[u].ready = tab[u].ready
  BY <1>2, <1>4
<1>7. Types'
  BY <1>4, <1>5, <1>6 DEF FilesInv, Types
<1>8. QED
  BY <1>5, <1>6, <1>7, Untouched

\* Open, Visit, Close and Redirect: the tab shows another document.
LEMMA ShowingFiles ==
  ASSUME FilesInv, NEW t \in Tab,
         \/ Close(t) \/ Redirect(t) \/ \E r \in Room : Open(t, r)
         \/ \E page \in {"landing", "elsewhere"} : Visit(t, page)
  PROVE  FilesInv'
<1>0. [store EXCEPT ![t] = [r \in Room |-> NoRecord]] \in [Tab -> [Room -> Record]]
  <2>1. NoRecord \in Record
    BY DEF NoRecord, Record
  <2>2. QED
    BY <2>1 DEF FilesInv, Types
<1>1. ASSUME NEW r \in Room, NewDoc
      PROVE  /\ NewChat(r) \in Document /\ NewChat(r).stage = "loading" /\ NewChat(r).room = r
             /\ NewChat(r).init = "probing" /\ ~NewChat(r).ready /\ NewChat(r).page = "chat"
             /\ docs' \in 0..MaxDocs
  <2>1. docs + 1 \in 0..MaxDocs /\ docs' = docs + 1
    BY <1>1 DEF FilesInv, Types, NewDoc
  <2>2. QED
    BY <2>1, NewDocuments DEF NewChat, Blank
<1>2. CASE \E page \in {"landing", "elsewhere"} : Visit(t, page)
  <2>1. PICK page \in {"landing", "elsewhere"} : Visit(t, page)
    BY <1>2
  <2>2. Show(t, Other(page)) /\ docs' \in 0..MaxDocs /\ store' \in [Tab -> [Room -> Record]]
    BY <2>1 DEF FilesInv, Types, Visit
  <2>3. \/ queue' = QueueWithout(t)
        \/ Other(page).page = "landing" /\ queue' = LandingSweeps(t, QueueWithout(t))
    BY <2>1, NewDocuments DEF Visit, QueueOf
  <2>4. /\ Other(page) \in Document /\ Other(page).stage = "loading"
        /\ Other(page).init = "probing" /\ ~Other(page).ready /\ Other(page).page # "chat"
    BY NewDocuments
  <2>5. QED
    BY <2>2, <2>3, <2>4, ShownFiles
<1>3. CASE \E r \in Room : Open(t, r)
  <2>1. PICK r \in Room : Open(t, r)
    BY <1>3
  <2>2. NewDoc /\ Show(t, NewChat(r))
    BY <2>1 DEF Open
  <2>3. store' \in [Tab -> [Room -> Record]] /\ queue' = QueueWithout(t)
    BY <2>1 DEF FilesInv, Types, Open
  <2>4. QED
    BY <1>1, <2>2, <2>3, ShownFiles
<1>4. CASE Close(t)
  <2>1. Show(t, Blank) /\ queue' = QueueWithout(t) /\ docs' \in 0..MaxDocs
    BY <1>4 DEF FilesInv, Types, Close
  <2>2. store' \in [Tab -> [Room -> Record]]
    BY <1>0, <1>4 DEF Close
  <2>3. QED
    BY <2>1, <2>2, NewDocuments, ShownFiles
<1>5. CASE Redirect(t)
  <2> DEFINE D == Other("landing")
  <2>1. Show(t, D) /\ queue' = LandingSweeps(t, QueueWithout(t)) /\ docs' \in 0..MaxDocs
    BY <1>5 DEF FilesInv, Types, Redirect
  <2>2. store' \in [Tab -> [Room -> Record]]
    BY <1>0, <1>5 DEF Redirect
  <2>3. /\ D \in Document /\ D.stage = "loading" /\ D.init = "probing" /\ ~D.ready
        /\ D.page = "landing"
    BY NewDocuments
  <2> HIDE DEF D
  <2>4. QED
    BY <2>1, <2>2, <2>3, ShownFiles
<1>6. QED
  BY <1>2, <1>3, <1>4, <1>5

\* Every step preserves the invariant.
LEMMA FilesStep == FilesInv /\ [Next]_vars => FilesInv'
<1> SUFFICES ASSUME FilesInv, [Next]_vars
             PROVE  FilesInv'
  OBVIOUS
<1>1. CASE QueryLocks
  BY <1>1, QueryFiles
<1>2. CASE Work
  BY <1>2, WorkFiles
<1>3. CASE BootFails
  BY <1>3, BootFailsFiles
<1>4. ASSUME NEW t \in Tab, Machine(t)
      PROVE  FilesInv'
  <2>1. CASE ClaimRoom(t)
    BY <2>1, ClaimFiles
  <2>2. CASE Probe(t)
    BY <2>2, ProbeFiles
  <2>3. CASE FinalizeTermination(t)
    BY <2>3, FinalizeFiles DEF FinalizeTermination, Session, Live
  <2>4. CASE Redirect(t)
    BY <2>4, ShowingFiles
  <2>5. QED
    BY <1>4, <2>1, <2>2, <2>3, <2>4 DEF Machine
<1>5. ASSUME NEW t \in Tab, User(t)
      PROVE  FilesInv'
  <2>1. CASE Upgrade(t)
    BY <2>1, UpgradeFiles
  <2>2. CASE Send(t)
    BY <2>2, SendFiles
  <2>3. CASE Terminate(t)
    BY <2>3, TerminateFiles
  <2>4. CASE \E u \in Tab : Duplicate(t, u)
    BY <2>4, DuplicateFiles
  <2>5. CASE \/ Close(t) \/ \E r \in Room : Open(t, r)
             \/ \E page \in {"landing", "elsewhere"} : Visit(t, page)
    BY <2>5, ShowingFiles
  <2>6. CASE AcceptOffer(t)
    BY <2>6, WorkerFiles
  <2>7. QED
    BY <1>5, <2>1, <2>2, <2>3, <2>4, <2>5, <2>6 DEF User
<1>a. ASSUME NEW t \in Tab, WorkerBegins(t) \/ WorkerStops(t)
      PROVE  FilesInv'
  BY <1>a, WorkerFiles
<1>6. CASE UNCHANGED vars
  <2>1. Types'
    BY <1>6 DEF FilesInv, Types, vars, opfs, history
  <2>2. QED
    BY <1>6, <2>1, Untouched DEF vars, opfs
<1>7. QED
  BY <1>1, <1>2, <1>3, <1>4, <1>5, <1>6, <1>a DEF Next

LEMMA FilesInit == Init => FilesInv
<1> SUFFICES ASSUME Init
             PROVE  FilesInv
  OBVIOUS
<1>1. /\ \A t \in Tab : tab[t] = Blank
      /\ queue = <<>> /\ queue \in Seq(Job) /\ DOMAIN queue = {} /\ snapshot = {"none"}
  BY DEF Init
<1>2. \A t \in Tab : ~Live(tab[t]) /\ tab[t].page = "none" /\ tab[t].stage = "loading"
                     /\ tab[t].init = "probing" /\ ~tab[t].ready
  BY <1>1, NewDocuments DEF Live
<1>3. Types
  <2>1. NoRecord \in Record
    BY DEF NoRecord, Record
  <2>2. tab \in [Tab -> Document]
    BY NewDocuments DEF Init
  <2>3. QED
    BY <1>1, <1>2, <2>1, <2>2 DEF Types, Init
<1>4. HoldersClaim /\ Stages /\ SnapshotCovers /\ DirectoryKept
  BY <1>1, <1>2 DEF HoldersClaim, Session, Stages, SnapshotCovers, DirectoryKept
<1>5. RequestsFit /\ OneRequest /\ PurgeFirst
  BY <1>1 DEF RequestsFit, OneRequest, Alone, PurgeFirst, InOrder
<1>6. QED
  BY <1>3, <1>4, <1>5 DEF FilesInv

LEMMA FilesAlways == Spec => []FilesInv
  BY FilesInit, FilesStep, PTL DEF Spec

\* bootSweepOpfs, sweepOpfs and purgeRoomDir with the two kinds of locks: for any
\* number of tabs and rooms, a session that may receive files keeps its directory,
\* whoever sweeps or purges and however late.
THEOREM DirectoryIsKept == Spec => []DirectoryKept
  BY FilesAlways, PTL DEF FilesInv

-----------------------------------------------------------------------------
(* Keys and counters                                                       *)

\* A tab may have records of rooms that it is not on.  The record of the room that
\* it is on goes when the session ends, and until then is what it has in memory.
InLine(document, r, rec) ==
  document.page = "chat" /\ document.room = r =>
    /\ document.stage # "ended"
    /\ document.stage \in {"running", "ending"} => rec = document.active
RecordsFit ==
  \A t \in Tab, r \in Room : store[t][r] # NoRecord =>
    store[t][r].key \in 1..docs /\ InLine(tab[t], r, store[t][r])

\* A document that has not ended has a key, and no two have the same.
ActiveFits ==
  \A t \in Tab : IF tab[t].page = "chat" /\ tab[t].stage # "ended"
                 THEN tab[t].active.key \in 1..docs ELSE tab[t].active = NoRecord
OwnKeys ==
  \A t, u \in Tab : (t # u /\ tab[t].active.key = tab[u].active.key) => tab[t].active.key = 0

\* A key that is in memory and in a record is a session's, and of its room; and
\* all records of a key are of one room.
CopiesFit ==
  \A t, u \in Tab, r \in Room :
    (store[u][r] # NoRecord /\ store[u][r].key = tab[t].active.key)
      => Session(t) /\ tab[t].room = r
OneRoom ==
  \A t, u \in Tab, r, s \in Room :
    (store[t][r] # NoRecord /\ store[u][s] # NoRecord /\ store[t][r].key = store[u][s].key)
      => r = s

\* Without a late copy, whoever has a key in memory is up to date; and a record
\* is, when nobody has its key in memory.
Orphaned(u, r) ==
  store[u][r] # NoRecord /\ \A t \in Tab : tab[t].active.key # store[u][r].key
UpToDate ==
  ~lateCopy =>
    /\ ~reused
    /\ \A t \in Tab : tab[t].active.key # 0 => used[tab[t].active.key] <= tab[t].active.ctr
    /\ \A u \in Tab, r \in Room : Orphaned(u, r) => used[store[u][r].key] <= store[u][r].ctr

UnusedKeys == \A k \in 1..MaxDocs : k > docs => used[k] = 0

RecordsInv ==
  /\ RecordsFit /\ ActiveFits /\ OwnKeys /\ CopiesFit /\ OneRoom /\ UpToDate /\ UnusedKeys

\* A step that leaves rooms, stages and counters alone leaves the records alone.
LEMMA RecordsUntouched ==
  ASSUME FilesInv, RecordsInv,
         \A u \in Tab : /\ tab'[u].page = tab[u].page /\ tab'[u].room = tab[u].room
                        /\ Live(tab'[u]) <=> Live(tab[u])
                        /\ tab'[u].stage = "ended" <=> tab[u].stage = "ended"
                        /\ tab'[u].active = tab[u].active,
         UNCHANGED <<store, history, docs>>
  PROVE  RecordsInv'
<1>1. store' = store /\ used' = used /\ reused' = reused /\ lateCopy' = lateCopy /\ docs' = docs
  BY DEF history
<1>2. RecordsFit'
  BY <1>1 DEF RecordsInv, RecordsFit, InLine, Live
<1>3. ActiveFits' /\ OwnKeys' /\ UnusedKeys'
  BY <1>1 DEF RecordsInv, ActiveFits, OwnKeys, UnusedKeys
<1>4. CopiesFit' /\ OneRoom'
  BY <1>1 DEF RecordsInv, CopiesFit, OneRoom, Session
<1>5. UpToDate'
  BY <1>1 DEF RecordsInv, UpToDate, Orphaned
<1>6. QED
  BY <1>2, <1>3, <1>4, <1>5 DEF RecordsInv

\* Who has a record of a key that t has in memory is t itself, or has a copy that
\* it has not used.
LEMMA OthersHaveCopies ==
  ASSUME FilesInv, RecordsInv, NEW t \in Tab, NEW u \in Tab \ {t}, NEW r \in Room,
         store[u][r] # NoRecord, store[u][r].key = tab[t].active.key
  PROVE  Session(t) /\ HasClaim(t) /\ UnusedCopy(t)
<1>1. Session(t) /\ tab[t].room = r
  BY DEF RecordsInv, CopiesFit
<1>2. HasClaim(t)
  BY <1>1 DEF FilesInv, HoldersClaim, HasClaim, Session, Live
<1>3. InLine(tab[u], r, store[u][r]) /\ store[u][r].key \in 1..docs
  BY DEF RecordsInv, RecordsFit
<1>4. ASSUME InChat(u, r)
      PROVE  tab[u].stage = "loading"
  <2>1. tab[u].stage \in {"loading", "running", "ending"}
    BY <1>3, <1>4 DEF InLine, InChat, FilesInv, Types, Document
  <2>2. ASSUME tab[u].stage \in {"running", "ending"}
        PROVE  FALSE
    <3>1. store[u][r] = tab[u].active
      BY <1>3, <1>4, <2>2 DEF InLine, InChat
    <3>2. QED
      BY <1>3, <3>1 DEF RecordsInv, OwnKeys, FilesInv, Types
  <2>3. QED
    BY <2>1, <2>2
<1>5. store[u][r].key # 0
  BY <1>3 DEF FilesInv, Types
<1>6. QED
  BY <1>1, <1>2, <1>4, <1>5 DEF UnusedCopy

\* The document of t goes, or its session: it takes its lock with it, and leaves
\* records or none.
LEMMA LeavingRecords ==
  ASSUME FilesInv, FilesInv', RecordsInv, NEW t \in Tab, NEW D \in Document,
         tab' = [tab EXCEPT ![t] = D], Release(t), used' = used, reused' = reused,
         \A u \in Tab \ {t} : store'[u] = store[u],
         \A r \in Room : \/ store'[t][r] = NoRecord
                         \/ /\ store'[t][r] = store[t][r]
                            /\ D.page = "chat" /\ D.room = r => D.stage = "loading",
         \/ /\ D.page = "chat" /\ D.stage = "loading" /\ docs' = docs + 1
            /\ D.active = [key |-> docs + 1, ctr |-> 0]
         \/ /\ ~(D.page = "chat" /\ D.stage # "ended") /\ docs' = docs
            /\ D.active = NoRecord
  PROVE  RecordsInv'
<1>1. tab'[t] = D /\ \A u \in Tab \ {t} : tab'[u] = tab[u]
  BY DEF FilesInv, Types
<1>2. docs \in 0..MaxDocs /\ docs' \in 0..MaxDocs /\ docs <= docs'
  BY DEF FilesInv, Types
<1>3. /\ \A u \in Tab : tab[u].active.key \in 0..docs
      /\ \A u \in Tab, r \in Room : store[u][r] # NoRecord => store[u][r].key \in 1..docs
  BY <1>2 DEF RecordsInv, RecordsFit, ActiveFits, NoRecord
<1>4. D.active.key = 0 \/ D.active.key = docs + 1
  BY DEF NoRecord
<1>5. ~Live(D)
  BY DEF Live
<1>6. \A u \in Tab \ {t} : Session(u)' <=> Session(u)
  BY <1>1 DEF Session
<1>7. \A u \in Tab, r \in Room : store'[u][r] # NoRecord => store'[u][r] = store[u][r]
  OBVIOUS
<1>8. RecordsFit'
  <2> SUFFICES ASSUME NEW u \in Tab, NEW r \in Room, store'[u][r] # NoRecord
               PROVE  store'[u][r].key \in 1..docs' /\ InLine(tab'[u], r, store'[u][r])
    BY DEF RecordsFit
  <2>1. store'[u][r].key \in 1..docs'
    BY <1>2, <1>3, <1>7
  <2>2. CASE u = t
    BY <1>1, <2>1, <2>2 DEF InLine
  <2>3. CASE u # t
    BY <1>1, <2>1, <2>3 DEF RecordsInv, RecordsFit
  <2>4. QED
    BY <2>2, <2>3
<1>9. ActiveFits'
  <2> SUFFICES ASSUME NEW u \in Tab
               PROVE  IF tab'[u].page = "chat" /\ tab'[u].stage # "ended"
                      THEN tab'[u].active.key \in 1..docs' ELSE tab'[u].active = NoRecord
    BY DEF ActiveFits
  <2>1. CASE u = t
    BY <1>1, <1>2, <2>1
  <2>2. CASE u # t
    BY <1>1, <1>2, <2>2 DEF RecordsInv, ActiveFits
  <2>3. QED
    BY <2>1, <2>2
<1>10. OwnKeys'
  BY <1>1, <1>2, <1>3, <1>4 DEF RecordsInv, OwnKeys
<1>11. CopiesFit'
  <2> SUFFICES ASSUME NEW v \in Tab, NEW u \in Tab, NEW r \in Room,
                      store'[u][r] # NoRecord, store'[u][r].key = tab'[v].active.key
               PROVE  Session(v)' /\ tab'[v].room = r
    BY DEF CopiesFit
  <2>1. store[u][r] # NoRecord /\ store[u][r].key \in 1..docs /\ store'[u][r] = store[u][r]
    BY <1>3, <1>7
  <2>2. v # t
    BY <1>1, <1>2, <1>4, <2>1
  <2>3. QED
    BY <1>1, <1>6, <2>1, <2>2 DEF RecordsInv, CopiesFit
<1>12. OneRoom'
  BY <1>7 DEF RecordsInv, OneRoom
<1>13. UnusedKeys'
  BY <1>2 DEF RecordsInv, UnusedKeys
<1>14. UpToDate'
  <2> SUFFICES ASSUME ~lateCopy'
               PROVE  /\ ~reused
                      /\ \A u \in Tab : tab'[u].active.key # 0 =>
                           used[tab'[u].active.key] <= tab'[u].active.ctr
                      /\ \A u \in Tab, r \in Room : Orphaned(u, r)' =>
                           used[store'[u][r].key] <= store'[u][r].ctr
    BY DEF UpToDate
  <2>1. ~lateCopy /\ ~(HasClaim(t) /\ UnusedCopy(t))
    BY DEF Release
  <2>2. /\ ~reused
        /\ \A u \in Tab : tab[u].active.key # 0 => used[tab[u].active.key] <= tab[u].active.ctr
        /\ \A u \in Tab, r \in Room : Orphaned(u, r) => used[store[u][r].key] <= store[u][r].ctr
    BY <2>1 DEF RecordsInv, UpToDate
  <2>3. ASSUME NEW u \in Tab, tab'[u].active.key # 0
        PROVE  used[tab'[u].active.key] <= tab'[u].active.ctr
    <3>1. CASE u = t
      <4>1. D.active = [key |-> docs + 1, ctr |-> 0] /\ docs + 1 \in 1..MaxDocs
        BY <1>1, <1>2, <2>3, <3>1 DEF NoRecord
      <4>2. used[docs + 1] = 0
        BY <1>2, <4>1 DEF RecordsInv, UnusedKeys
      <4>3. QED
        BY <1>1, <3>1, <4>1, <4>2
    <3>2. CASE u # t
      BY <1>1, <2>2, <2>3, <3>2
    <3>3. QED
      BY <3>1, <3>2
  <2>4. ASSUME NEW u \in Tab, NEW r \in Room, Orphaned(u, r)'
        PROVE  used[store'[u][r].key] <= store'[u][r].ctr
    <3>1. /\ store[u][r] # NoRecord /\ store'[u][r] = store[u][r]
          /\ \A v \in Tab : tab'[v].active.key # store[u][r].key
      BY <1>7, <2>4 DEF Orphaned
    <3>2. CASE Orphaned(u, r)
      BY <2>2, <3>1, <3>2
    <3>3. CASE ~Orphaned(u, r)
      <4>1. tab[t].active.key = store[u][r].key
        BY <1>1, <3>1, <3>3 DEF Orphaned
      <4>2. u = t
        BY <2>1, <3>1, <4>1, OthersHaveCopies
      <4>3. Session(t) /\ tab[t].room = r
        BY <3>1, <4>1 DEF RecordsInv, CopiesFit
      <4>4. store[t][r] = tab[t].active
        BY <3>1, <4>2, <4>3 DEF RecordsInv, RecordsFit, InLine, Session, Live
      <4>5. tab[t].active.key # 0
        BY <1>3, <3>1, <4>1
      <4>6. QED
        BY <2>2, <3>1, <4>2, <4>4, <4>5
    <3>4. QED
      BY <3>2, <3>3
  <2>5. QED
    BY <2>2, <2>3, <2>4
<1>15. QED
  BY <1>8, <1>9, <1>10, <1>11, <1>12, <1>13, <1>14 DEF RecordsInv

\* Open, Visit, Close and Redirect.
LEMMA ShowingRecords ==
  ASSUME FilesInv, FilesInv', RecordsInv, NEW t \in Tab,
         \/ Close(t) \/ Redirect(t) \/ \E r \in Room : Open(t, r)
         \/ \E page \in {"landing", "elsewhere"} : Visit(t, page)
  PROVE  RecordsInv'
<1>0. store \in [Tab -> [Room -> Record]]
  BY DEF FilesInv, Types
<1>1. ASSUME NEW r \in Room, NewDoc
      PROVE  /\ NewChat(r) \in Document /\ NewChat(r).stage = "loading" /\ NewChat(r).room = r
             /\ NewChat(r).page = "chat" /\ NewChat(r).active = [key |-> docs + 1, ctr |-> 0]
             /\ docs' = docs + 1
  <2>1. docs + 1 \in 0..MaxDocs /\ docs' = docs + 1
    BY <1>1 DEF FilesInv, Types, NewDoc
  <2>2. QED
    BY <2>1, NewDocuments DEF NewChat, Blank
<1>2. CASE \E page \in {"landing", "elsewhere"} : Visit(t, page)
  <2>1. PICK page \in {"landing", "elsewhere"} : Visit(t, page)
    BY <1>2
  <2>2. Show(t, Other(page)) /\ store' = store /\ docs' = docs
    BY <2>1 DEF Visit
  <2>3. Other(page) \in Document /\ Other(page).page # "chat" /\ Other(page).active = NoRecord
    BY NewDocuments
  <2>4. QED
    BY <2>2, <2>3, LeavingRecords DEF Show
<1>3. CASE \E r \in Room : Open(t, r)
  <2>1. PICK r \in Room : Open(t, r)
    BY <1>3
  <2>2. NewDoc /\ Show(t, NewChat(r)) /\ store' = store
    BY <2>1 DEF Open
  <2>3. QED
    BY <1>1, <2>2, LeavingRecords DEF Show
<1>4. CASE Close(t)
  <2>1. /\ Show(t, Blank) /\ docs' = docs
        /\ store' = [store EXCEPT ![t] = [r \in Room |-> NoRecord]]
    BY <1>4 DEF Close
  <2>2. /\ \A u \in Tab \ {t} : store'[u] = store[u]
        /\ \A r \in Room : store'[t][r] = NoRecord
    BY <1>0, <2>1
  <2>3. QED
    BY <2>1, <2>2, NewDocuments, LeavingRecords DEF Show
<1>5. CASE Redirect(t)
  <2> DEFINE D == Other("landing")
  <2>1. /\ Show(t, D) /\ docs' = docs
        /\ store' = [store EXCEPT ![t] = [r \in Room |-> NoRecord]]
    BY <1>5 DEF Redirect
  <2>2. /\ \A u \in Tab \ {t} : store'[u] = store[u]
        /\ \A r \in Room : store'[t][r] = NoRecord
    BY <1>0, <2>1
  <2>3. D \in Document /\ D.page = "landing" /\ D.active = NoRecord
    BY NewDocuments
  <2> HIDE DEF D
  <2>4. QED
    BY <2>1, <2>2, <2>3, LeavingRecords DEF Show
<1>6. QED
  BY <1>2, <1>3, <1>4, <1>5

\* Finalize: the record goes, and the key with it.
LEMMA FinalizeRecords ==
  ASSUME FilesInv, FilesInv', RecordsInv, NEW t \in Tab, Session(t), Finalize(t)
  PROVE  RecordsInv'
<1>a. PICK worker \in {tab[t].worker} \cup (IF tab[t].worker = "holding" THEN {"none"} ELSE {}) :
        tab' = [tab EXCEPT ![t].stage = "ended", ![t].ready = FALSE,
                           ![t].worker = worker, ![t].active = NoRecord]
  BY DEF Finalize
<1> DEFINE d == [tab[t] EXCEPT !.stage = "ended", !.ready = FALSE,
                               !.worker = worker, !.active = NoRecord]
<1>0. /\ store \in [Tab -> [Room -> Record]] /\ NoRecord \in Record /\ tab[t].room \in Room
      /\ tab[t] \in Document
  BY DEF FilesInv, Types, NoRecord, Record, Session, Live
<1>1. d \in Document /\ d.stage = "ended" /\ d.active = NoRecord /\ d.room = tab[t].room
  BY <1>0 DEF Document
<1>2. tab' = [tab EXCEPT ![t] = d]
  BY <1>a
<1> HIDE DEF d
<1>3. store' = [store EXCEPT ![t][tab[t].room] = NoRecord]
  BY DEF Finalize
<1>4. /\ \A u \in Tab \ {t} : store'[u] = store[u]
      /\ \A r \in Room : store'[t][r] = IF r = tab[t].room THEN NoRecord ELSE store[t][r]
  BY <1>0, <1>3
<1>5. \A r \in Room : \/ store'[t][r] = NoRecord
                     \/ /\ store'[t][r] = store[t][r]
                        /\ d.page = "chat" /\ d.room = r => d.stage = "loading"
  BY <1>1, <1>4
<1>6. QED
  BY <1>1, <1>2, <1>4, <1>5, LeavingRecords DEF Finalize

\* Terminate.
LEMMA TerminateRecords ==
  ASSUME FilesInv, FilesInv', RecordsInv, NEW t \in Tab, Terminate(t)
  PROVE  RecordsInv'
<1>1. Session(t)
  BY DEF Terminate, Session, Live
<1>2. CASE Finalize(t)
  BY <1>1, <1>2, FinalizeRecords
<1>3. CASE /\ tab' = [tab EXCEPT ![t].stage = "ending"]
           /\ UNCHANGED <<store, claim, opfs, history, docs>>
  <2> DEFINE d == [tab[t] EXCEPT !.stage = "ending"]
  <2>1. /\ tab[t] \in Document /\ tab[t].stage = "running" /\ tab[t].page = "chat"
    BY DEF FilesInv, Types, Terminate
  <2>2. /\ d.page = "chat" /\ d.room = tab[t].room /\ d.active = tab[t].active
        /\ d.stage = "ending"
    BY <2>1 DEF Document
  <2>3. tab'[t] = d /\ \A u \in Tab \ {t} : tab'[u] = tab[u]
    BY <1>3 DEF FilesInv, Types
  <2> HIDE DEF d
  <2>4. QED
    BY <1>3, <2>1, <2>2, <2>3, RecordsUntouched DEF Live
<1>4. QED
  BY <1>2, <1>3 DEF Terminate

\* Duplicate: the copy has the record of the original, and a key of its own.
LEMMA DuplicateRecords ==
  ASSUME FilesInv, FilesInv', RecordsInv, NEW t \in Tab, NEW u \in Tab, Duplicate(t, u)
  PROVE  RecordsInv'
<1> DEFINE chat == tab[t].page = "chat"
           D == IF chat THEN NewChat(tab[t].room) ELSE Other(tab[t].page)
<1>1. /\ docs \in 0..MaxDocs /\ docs' \in 0..MaxDocs
      /\ docs' = (IF chat THEN docs + 1 ELSE docs) /\ tab[u].page = "none" /\ t # u
  BY DEF FilesInv, Types, Duplicate, NewDoc
<1>2. /\ D.page = tab[t].page /\ D.stage = "loading"
      /\ IF chat THEN D.active = [key |-> docs + 1, ctr |-> 0] ELSE D.active = NoRecord
  <2>1. CASE chat
    BY <2>1 DEF NewChat, Blank
  <2>2. CASE ~chat
    <3>1. tab[t].page \in {"landing", "elsewhere"}
      BY <2>2 DEF FilesInv, Types, Document, Duplicate
    <3>2. QED
      BY <2>2, <3>1, NewDocuments
  <2>3. QED
    BY <2>1, <2>2
<1>3. tab'[u] = D /\ \A v \in Tab \ {u} : tab'[v] = tab[v]
  BY DEF FilesInv, Types, Duplicate
<1>a. D.active.key = 0 \/ (D.active.key = docs + 1 /\ docs' = docs + 1 /\ D.active.ctr = 0)
  BY <1>1, <1>2 DEF NoRecord
<1> HIDE DEF D, chat
<1>4. store'[u] = store[t] /\ \A v \in Tab \ {u} : store'[v] = store[v]
  BY DEF FilesInv, Types, Duplicate
<1>5. used' = used /\ reused' = reused /\ lateCopy' = lateCopy
  BY DEF Duplicate, history
<1>6. /\ \A v \in Tab : tab[v].active.key \in 0..docs
      /\ \A v \in Tab, r \in Room : store[v][r] # NoRecord => store[v][r].key \in 1..docs
  BY <1>1 DEF RecordsInv, RecordsFit, ActiveFits, NoRecord
\* Every record after the step is one before it, of who has it or of t.
<1>7. \A v \in Tab : \E w \in Tab : store'[v] = store[w] /\ (v # u => w = v) /\ (v = u => w = t)
  BY <1>4
<1>8. ~Live(tab'[u]) /\ ~Live(tab[u]) /\ tab[u].active = NoRecord
  BY <1>1, <1>2, <1>3 DEF Live, RecordsInv, ActiveFits
<1>9. RecordsFit'
  <2> SUFFICES ASSUME NEW v \in Tab, NEW r \in Room, store'[v][r] # NoRecord
               PROVE  store'[v][r].key \in 1..docs' /\ InLine(tab'[v], r, store'[v][r])
    BY DEF RecordsFit
  <2>1. store'[v][r].key \in 1..docs'
    BY <1>1, <1>6, <1>7
  <2>2. CASE v = u
    BY <1>2, <1>3, <2>1, <2>2 DEF InLine
  <2>3. CASE v # u
    BY <1>3, <1>4, <2>1, <2>3 DEF RecordsInv, RecordsFit
  <2>4. QED
    BY <2>2, <2>3
<1>10. ActiveFits'
  <2> SUFFICES ASSUME NEW v \in Tab
               PROVE  IF tab'[v].page = "chat" /\ tab'[v].stage # "ended"
                      THEN tab'[v].active.key \in 1..docs' ELSE tab'[v].active = NoRecord
    BY DEF ActiveFits
  <2>1. CASE v = u
    BY <1>1, <1>2, <1>3, <2>1 DEF chat
  <2>2. CASE v # u
    BY <1>1, <1>3, <2>2 DEF RecordsInv, ActiveFits
  <2>3. QED
    BY <2>1, <2>2
<1>11. OwnKeys'
  BY <1>1, <1>3, <1>6, <1>a DEF RecordsInv, OwnKeys
<1>12. CopiesFit'
  <2> SUFFICES ASSUME NEW v \in Tab, NEW w \in Tab, NEW r \in Room,
                      store'[w][r] # NoRecord, store'[w][r].key = tab'[v].active.key
               PROVE  Live(tab'[v]) /\ tab'[v].room = r
    BY DEF CopiesFit, Session
  <2>1. PICK x \in Tab : store'[w] = store[x]
    BY <1>7
  <2>2. v # u
    BY <1>1, <1>3, <1>6, <1>a, <2>1
  <2>3. QED
    BY <1>3, <2>1, <2>2 DEF RecordsInv, CopiesFit, Session
<1>13. OneRoom'
  <2> SUFFICES ASSUME NEW v \in Tab, NEW w \in Tab, NEW r \in Room, NEW s \in Room,
                      store'[v][r] # NoRecord, store'[w][s] # NoRecord,
                      store'[v][r].key = store'[w][s].key
               PROVE  r = s
    BY DEF OneRoom
  <2>1. PICK x \in Tab : store'[v] = store[x]
    BY <1>7
  <2>2. PICK y \in Tab : store'[w] = store[y]
    BY <1>7
  <2>3. QED
    BY <2>1, <2>2 DEF RecordsInv, OneRoom
<1>14. UnusedKeys'
  BY <1>1, <1>5 DEF RecordsInv, UnusedKeys
<1>15. UpToDate'
  <2> SUFFICES ASSUME ~lateCopy
               PROVE  /\ ~reused
                      /\ \A v \in Tab : tab'[v].active.key # 0 =>
                           used[tab'[v].active.key] <= tab'[v].active.ctr
                      /\ \A v \in Tab, r \in Room : Orphaned(v, r)' =>
                           used[store'[v][r].key] <= store'[v][r].ctr
    BY <1>5 DEF UpToDate
  <2>1. /\ ~reused
        /\ \A v \in Tab : tab[v].active.key # 0 => used[tab[v].active.key] <= tab[v].active.ctr
        /\ \A v \in Tab, r \in Room : Orphaned(v, r) => used[store[v][r].key] <= store[v][r].ctr
    BY DEF RecordsInv, UpToDate
  <2>2. ASSUME NEW v \in Tab, tab'[v].active.key # 0
        PROVE  used[tab'[v].active.key] <= tab'[v].active.ctr
    <3>1. docs' = docs + 1 => used[docs + 1] = 0
      BY <1>1 DEF RecordsInv, UnusedKeys
    <3>2. CASE v = u
      BY <1>3, <1>a, <2>2, <3>1, <3>2
    <3>3. CASE v # u
      BY <1>3, <2>1, <2>2, <3>3
    <3>4. QED
      BY <3>2, <3>3
  <2>3. ASSUME NEW v \in Tab, NEW r \in Room, Orphaned(v, r)'
        PROVE  used[store'[v][r].key] <= store'[v][r].ctr
    <3>1. PICK x \in Tab : store'[v] = store[x]
      BY <1>7
    <3>2. /\ store[x][r] # NoRecord /\ store[x][r].key # 0
          /\ \A w \in Tab : tab'[w].active.key # store[x][r].key
      BY <1>6, <2>3, <3>1 DEF Orphaned
    <3>3. \A w \in Tab : tab[w].active.key # store[x][r].key
      BY <1>3, <1>8, <3>2 DEF NoRecord
    <3>4. QED
      BY <2>1, <3>1, <3>2, <3>3 DEF Orphaned
  <2>4. QED
    BY <2>1, <2>2, <2>3
<1>16. QED
  BY <1>9, <1>10, <1>11, <1>12, <1>13, <1>14, <1>15 DEF RecordsInv

\* ClaimRoom: in a room without a lock nobody has the record's key in memory, so
\* the record is up to date.  Who is refused leaves the key to its session.
LEMMA ClaimRecords ==
  ASSUME FilesInv, FilesInv', RecordsInv, NEW t \in Tab, ClaimRoom(t)
  PROVE  RecordsInv'
<1> DEFINE r0 == tab[t].room
           rec == store[t][r0]
<1>1. /\ tab[t].page = "chat" /\ tab[t].stage = "loading" /\ r0 \in Room
      /\ tab[t] \in Document /\ ~Live(tab[t])
      /\ store \in [Tab -> [Room -> Record]] /\ NoRecord \in Record
  <2>1. NoRecord \in Record
    BY DEF NoRecord, Record
  <2>2. tab[t].page = "chat" /\ tab[t].stage = "loading"
    BY DEF ClaimRoom
  <2>3. QED
    BY <2>1, <2>2 DEF FilesInv, Types, Live
<1>2. used' = used /\ reused' = reused /\ lateCopy' = lateCopy /\ docs' = docs
  BY DEF ClaimRoom, history
<1>3. docs \in 0..MaxDocs /\ tab[t].active.key \in 1..docs
  BY <1>1 DEF FilesInv, Types, RecordsInv, ActiveFits
\* The key in memory until now is in no record: t had no session.
<1>4. \A u \in Tab, r \in Room : store[u][r] # NoRecord => store[u][r].key # tab[t].active.key
  BY <1>1 DEF RecordsInv, CopiesFit, Session
<1>5. \A u \in Tab, r \in Room : store[u][r] # NoRecord => store[u][r].key \in 1..docs
  BY DEF RecordsInv, RecordsFit
<1>6. CASE claim[r0] = NoTab
  <2> DEFINE key == IF rec # NoRecord THEN rec ELSE tab[t].active
             d == [tab[t] EXCEPT !.stage = "running", !.active = key]
  <2>1. tab' = [tab EXCEPT ![t] = d] /\ store' = store
    BY <1>6 DEF ClaimRoom
  <2>2. /\ d.page = "chat" /\ d.room = r0 /\ d.stage = "running" /\ d.active = key /\ Live(d)
    BY <1>1 DEF Document, Live
  <2>3. tab'[t] = d /\ \A u \in Tab \ {t} : tab'[u] = tab[u]
    BY <2>1 DEF FilesInv, Types
  <2>4. key.key \in 1..docs
    BY <1>1, <1>3, <1>5
  <2>5. \A u \in Tab \ {t} : tab[u].active.key # key.key
    <3> SUFFICES ASSUME NEW u \in Tab \ {t}, tab[u].active.key = key.key
                 PROVE  FALSE
      OBVIOUS
    <3>1. CASE rec # NoRecord
      <4>1. Session(u) /\ tab[u].room = r0
        BY <1>1, <3>1 DEF RecordsInv, CopiesFit
      <4>2. claim[r0] = u
        BY <4>1 DEF FilesInv, HoldersClaim
      <4>3. QED
        BY <1>6, <4>2
    <3>2. CASE rec = NoRecord
      BY <1>3, <3>2 DEF RecordsInv, OwnKeys
    <3>3. QED
      BY <3>1, <3>2
  <2>6. \A u \in Tab, r \in Room :
          (store[u][r] # NoRecord /\ store[u][r].key = key.key) => r = r0 /\ rec # NoRecord
    BY <1>1, <1>4 DEF RecordsInv, OneRoom
  <2>7. rec # NoRecord => key = rec
    OBVIOUS
  <2>8. rec = NoRecord => key = tab[t].active
    OBVIOUS
  <2> HIDE DEF d, key
  <2>9. RecordsFit'
    <3> SUFFICES ASSUME NEW u \in Tab, NEW r \in Room, store[u][r] # NoRecord
                 PROVE  store[u][r].key \in 1..docs /\ InLine(tab'[u], r, store[u][r])
      BY <1>2, <2>1 DEF RecordsFit
    <3>1. store[u][r].key \in 1..docs /\ InLine(tab[u], r, store[u][r])
      BY DEF RecordsInv, RecordsFit
    <3>2. CASE u = t
      BY <2>2, <2>3, <2>7, <3>1, <3>2 DEF InLine
    <3>3. CASE u # t
      BY <2>3, <3>1, <3>3
    <3>4. QED
      BY <3>2, <3>3
  <2>10. ActiveFits'
    <3> SUFFICES ASSUME NEW u \in Tab
                 PROVE  IF tab'[u].page = "chat" /\ tab'[u].stage # "ended"
                        THEN tab'[u].active.key \in 1..docs ELSE tab'[u].active = NoRecord
      BY <1>2 DEF ActiveFits
    <3>1. CASE u = t
      BY <2>2, <2>3, <2>4, <3>1
    <3>2. CASE u # t
      BY <2>3, <3>2 DEF RecordsInv, ActiveFits
    <3>3. QED
      BY <3>1, <3>2
  <2>11. OwnKeys'
    BY <2>2, <2>3, <2>5 DEF RecordsInv, OwnKeys
  <2>12. CopiesFit'
    <3> SUFFICES ASSUME NEW v \in Tab, NEW u \in Tab, NEW r \in Room,
                        store[u][r] # NoRecord, store[u][r].key = tab'[v].active.key
                 PROVE  Live(tab'[v]) /\ tab'[v].room = r
      BY <2>1 DEF CopiesFit, Session
    <3>1. CASE v = t
      BY <2>2, <2>3, <2>6, <3>1
    <3>2. CASE v # t
      BY <2>3, <3>2 DEF RecordsInv, CopiesFit, Session
    <3>3. QED
      BY <3>1, <3>2
  <2>13. OneRoom' /\ UnusedKeys'
    BY <1>2, <2>1 DEF RecordsInv, OneRoom, UnusedKeys
  <2>14. UpToDate'
    <3> SUFFICES ASSUME ~lateCopy
                 PROVE  /\ ~reused
                        /\ \A u \in Tab : tab'[u].active.key # 0 =>
                             used[tab'[u].active.key] <= tab'[u].active.ctr
                        /\ \A u \in Tab, r \in Room : Orphaned(u, r)' =>
                             used[store[u][r].key] <= store[u][r].ctr
      BY <1>2, <2>1 DEF UpToDate
    <3>1. /\ ~reused
          /\ \A u \in Tab : tab[u].active.key # 0 => used[tab[u].active.key] <= tab[u].active.ctr
          /\ \A u \in Tab, r \in Room : Orphaned(u, r) => used[store[u][r].key] <= store[u][r].ctr
      BY DEF RecordsInv, UpToDate
    <3>2. used[key.key] <= key.ctr
      <4>1. CASE rec # NoRecord
        <5>1. tab[t].active.key # rec.key
          BY <1>1, <1>4, <4>1
        <5>2. Orphaned(t, r0)
          BY <2>5, <2>7, <4>1, <5>1 DEF Orphaned
        <5>3. QED
          BY <1>1, <2>7, <3>1, <4>1, <5>2
      <4>2. CASE rec = NoRecord
        BY <1>3, <2>8, <3>1, <4>2
      <4>3. QED
        BY <4>1, <4>2
    <3>3. ASSUME NEW u \in Tab, tab'[u].active.key # 0
          PROVE  used[tab'[u].active.key] <= tab'[u].active.ctr
      BY <2>2, <2>3, <3>1, <3>2, <3>3
    <3>4. ASSUME NEW u \in Tab, NEW r \in Room, Orphaned(u, r)'
          PROVE  used[store[u][r].key] <= store[u][r].ctr
      <4>1. store[u][r] # NoRecord /\ \A v \in Tab : tab'[v].active.key # store[u][r].key
        BY <2>1, <3>4 DEF Orphaned
      <4>2. Orphaned(u, r)
        BY <1>4, <2>3, <4>1 DEF Orphaned
      <4>3. QED
        BY <3>1, <4>2
    <3>5. QED
      BY <3>1, <3>3, <3>4
  <2>15. QED
    BY <2>9, <2>10, <2>11, <2>12, <2>13, <2>14 DEF RecordsInv
<1>7. CASE claim[r0] # NoTab
  <2> DEFINE d == [tab[t] EXCEPT !.stage = "ended", !.active = NoRecord]
  <2>1. tab' = [tab EXCEPT ![t] = d] /\ store' = [store EXCEPT ![t][r0] = NoRecord]
    BY <1>7 DEF ClaimRoom, StoreAfterRefusal
  <2>2. /\ d.stage = "ended" /\ d.active = NoRecord /\ ~Live(d) /\ d.active.key = 0
        /\ d.room = r0
    BY <1>1 DEF Document, Live, NoRecord
  <2>3. tab'[t] = d /\ \A u \in Tab \ {t} : tab'[u] = tab[u]
    BY <2>1 DEF FilesInv, Types
  <2> HIDE DEF d
  <2>4. /\ \A u \in Tab \ {t} : store'[u] = store[u]
        /\ \A r \in Room : store'[t][r] = IF r = r0 THEN NoRecord ELSE store[t][r]
    BY <1>1, <2>1
  <2>5. RecordsFit'
    <3> SUFFICES ASSUME NEW u \in Tab, NEW r \in Room, store'[u][r] # NoRecord
                 PROVE  store'[u][r].key \in 1..docs /\ InLine(tab'[u], r, store'[u][r])
      BY <1>2 DEF RecordsFit
    <3>1. /\ store'[u][r] = store[u][r] /\ store[u][r].key \in 1..docs
          /\ InLine(tab[u], r, store[u][r]) /\ (u = t => r # r0)
      BY <2>4 DEF RecordsInv, RecordsFit
    <3>2. CASE u = t
      BY <2>2, <2>3, <3>1, <3>2 DEF InLine
    <3>3. CASE u # t
      BY <2>3, <3>1, <3>3
    <3>4. QED
      BY <3>2, <3>3
  <2>6. ActiveFits'
    BY <1>2, <2>2, <2>3 DEF RecordsInv, ActiveFits
  <2>7. OwnKeys'
    BY <2>2, <2>3 DEF RecordsInv, OwnKeys
  <2>8. CopiesFit'
    <3> SUFFICES ASSUME NEW v \in Tab, NEW u \in Tab, NEW r \in Room,
                        store'[u][r] # NoRecord, store'[u][r].key = tab'[v].active.key
                 PROVE  Live(tab'[v]) /\ tab'[v].room = r
      BY DEF CopiesFit, Session
    <3>1. store[u][r] # NoRecord /\ store'[u][r] = store[u][r] /\ store[u][r].key # 0
      BY <1>5, <2>4
    <3>2. v # t
      BY <2>2, <2>3, <3>1
    <3>3. QED
      BY <2>3, <3>1, <3>2 DEF RecordsInv, CopiesFit, Session
  <2>9. OneRoom' /\ UnusedKeys'
    BY <1>2, <2>4 DEF RecordsInv, OneRoom, UnusedKeys
  <2>10. UpToDate'
    <3> SUFFICES ASSUME ~lateCopy
                 PROVE  /\ ~reused
                        /\ \A u \in Tab : tab'[u].active.key # 0 =>
                             used[tab'[u].active.key] <= tab'[u].active.ctr
                        /\ \A u \in Tab, r \in Room : Orphaned(u, r)' =>
                             used[store'[u][r].key] <= store'[u][r].ctr
      BY <1>2 DEF UpToDate
    <3>1. /\ ~reused
          /\ \A u \in Tab : tab[u].active.key # 0 => used[tab[u].active.key] <= tab[u].active.ctr
          /\ \A u \in Tab, r \in Room : Orphaned(u, r) => used[store[u][r].key] <= store[u][r].ctr
      BY DEF RecordsInv, UpToDate
    <3>2. ASSUME NEW u \in Tab, NEW r \in Room, Orphaned(u, r)'
          PROVE  used[store'[u][r].key] <= store'[u][r].ctr
      <4>1. /\ store[u][r] # NoRecord /\ store'[u][r] = store[u][r]
            /\ \A v \in Tab : tab'[v].active.key # store[u][r].key
        BY <2>4, <3>2 DEF Orphaned
      <4>2. Orphaned(u, r)
        BY <1>4, <2>3, <4>1 DEF Orphaned
      <4>3. QED
        BY <3>1, <4>1, <4>2
    <3>3. QED
      BY <2>2, <2>3, <3>1, <3>2
  <2>11. QED
    BY <2>5, <2>6, <2>7, <2>8, <2>9, <2>10 DEF RecordsInv
<1>8. QED
  BY <1>6, <1>7

\* Upgrade: the first record of a key that only this session has.
LEMMA UpgradeRecords ==
  ASSUME FilesInv, FilesInv', RecordsInv, NEW t \in Tab, Upgrade(t)
  PROVE  RecordsInv'
<1> DEFINE r0 == tab[t].room
<1>1. /\ tab[t].page = "chat" /\ tab[t].stage = "running" /\ r0 \in Room /\ Session(t)
      /\ store \in [Tab -> [Room -> Record]]
  BY DEF FilesInv, Types, Upgrade, Session, Live
<1>2. /\ used' = used /\ reused' = reused /\ lateCopy' = lateCopy /\ docs' = docs /\ tab' = tab
      /\ store' = [store EXCEPT ![t][r0] = tab[t].active]
  BY DEF Upgrade, history
<1>3. tab[t].active.key \in 1..docs /\ docs \in 0..MaxDocs
  BY <1>1 DEF FilesInv, Types, RecordsInv, ActiveFits
<1>4. \A u \in Tab, r \in Room :
        store'[u][r] = IF u = t /\ r = r0 THEN tab[t].active ELSE store[u][r]
  BY <1>1, <1>2
<1>5. RecordsFit'
  <2> SUFFICES ASSUME NEW u \in Tab, NEW r \in Room, store'[u][r] # NoRecord
               PROVE  store'[u][r].key \in 1..docs /\ InLine(tab[u], r, store'[u][r])
    BY <1>2 DEF RecordsFit
  <2>1. CASE u = t /\ r = r0
    BY <1>1, <1>3, <1>4, <2>1 DEF InLine
  <2>2. CASE ~(u = t /\ r = r0)
    BY <1>4, <2>2 DEF RecordsInv, RecordsFit
  <2>3. QED
    BY <2>1, <2>2
<1>6. ActiveFits' /\ OwnKeys' /\ UnusedKeys'
  BY <1>2 DEF RecordsInv, ActiveFits, OwnKeys, UnusedKeys
<1>7. CopiesFit'
  <2> SUFFICES ASSUME NEW v \in Tab, NEW u \in Tab, NEW r \in Room,
                      store'[u][r] # NoRecord, store'[u][r].key = tab[v].active.key
               PROVE  Session(v) /\ tab[v].room = r
    BY <1>2 DEF CopiesFit, Session
  <2>1. CASE u = t /\ r = r0
    <3>1. v = t
      BY <1>3, <1>4, <2>1 DEF RecordsInv, OwnKeys
    <3>2. QED
      BY <1>1, <2>1, <3>1
  <2>2. CASE ~(u = t /\ r = r0)
    BY <1>4, <2>2 DEF RecordsInv, CopiesFit
  <2>3. QED
    BY <2>1, <2>2
<1>8. OneRoom'
  <2>1. \A u \in Tab, r \in Room :
          (store'[u][r] # NoRecord /\ store'[u][r].key = tab[t].active.key) => r = r0
    BY <1>2, <1>7 DEF CopiesFit
  <2>2. QED
    BY <1>4, <2>1 DEF RecordsInv, OneRoom
<1>9. UpToDate'
  <2>1. \A u \in Tab, r \in Room : Orphaned(u, r)' => Orphaned(u, r) /\ store'[u][r] = store[u][r]
    BY <1>2, <1>4 DEF Orphaned
  <2>2. QED
    BY <1>2, <2>1 DEF RecordsInv, UpToDate
<1>10. QED
  BY <1>5, <1>6, <1>7, <1>8, <1>9 DEF RecordsInv

\* Send: memory and record go on together, from where the key was up to date.
LEMMA SendRecords ==
  ASSUME FilesInv, FilesInv', RecordsInv, NEW t \in Tab, Send(t)
  PROVE  RecordsInv'
<1> DEFINE r0 == tab[t].room
           next == [tab[t].active EXCEPT !.ctr = @ + 1]
           k == tab[t].active.key
           d == [tab[t] EXCEPT !.active = next]
<1>1. /\ tab[t].page = "chat" /\ tab[t].stage = "running" /\ r0 \in Room /\ Session(t)
      /\ store \in [Tab -> [Room -> Record]] /\ tab[t] \in Document /\ tab[t].active \in Record
      /\ store[t][r0] # NoRecord
  BY DEF FilesInv, Types, Send, Session, Live, Document
<1>2. /\ lateCopy' = lateCopy /\ docs' = docs
      /\ store' = [store EXCEPT ![t][r0] = next]
      /\ reused' = (reused \/ next.ctr <= used[next.key])
      /\ used' = [used EXCEPT ![next.key] = IF next.ctr > @ THEN next.ctr ELSE @]
      /\ tab' = [tab EXCEPT ![t] = d]
  BY DEF Send
<1>3. k \in 1..docs /\ docs \in 0..MaxDocs /\ used \in [1..MaxDocs -> Nat]
  BY <1>1 DEF FilesInv, Types, RecordsInv, ActiveFits
<1>4. next.key = k /\ next.ctr = tab[t].active.ctr + 1 /\ next \in Record /\ tab[t].active.ctr \in Nat
  BY <1>1 DEF Record
<1>5. next # NoRecord
  BY <1>3, <1>4 DEF NoRecord
<1> HIDE DEF next
<1>6. /\ d.page = "chat" /\ d.room = r0 /\ d.stage = "running" /\ d.active = next /\ Live(d)
  BY <1>1 DEF Document, Live
<1>7. tab'[t] = d /\ \A u \in Tab \ {t} : tab'[u] = tab[u]
  BY <1>2 DEF FilesInv, Types
<1> HIDE DEF d
<1>8. \A u \in Tab, r \in Room :
        store'[u][r] = IF u = t /\ r = r0 THEN next ELSE store[u][r]
  BY <1>1, <1>2, <1>4
<1>9. /\ \A u \in Tab : tab'[u].active.key = tab[u].active.key
      /\ \A u \in Tab : Live(tab'[u]) <=> Live(tab[u])
      /\ \A u \in Tab : tab'[u].room = tab[u].room /\ tab'[u].page = tab[u].page
                        /\ tab'[u].stage = tab[u].stage
  BY <1>1, <1>4, <1>6, <1>7 DEF Live
<1>10. store[t][r0].key = k
  BY <1>1 DEF RecordsInv, RecordsFit, InLine
<1>11. \A u \in Tab, r \in Room : store'[u][r].key = store[u][r].key
                                  /\ (store'[u][r] # NoRecord <=> store[u][r] # NoRecord)
  BY <1>1, <1>4, <1>5, <1>8, <1>10
<1>12. RecordsFit'
  <2> SUFFICES ASSUME NEW u \in Tab, NEW r \in Room, store'[u][r] # NoRecord
               PROVE  store'[u][r].key \in 1..docs /\ InLine(tab'[u], r, store'[u][r])
    BY <1>2 DEF RecordsFit
  <2>1. store[u][r].key \in 1..docs /\ InLine(tab[u], r, store[u][r])
    BY <1>11 DEF RecordsInv, RecordsFit
  <2>2. store'[u][r].key \in 1..docs
    BY <1>11, <2>1
  <2>3. CASE u = t
    BY <1>6, <1>7, <1>8, <2>2, <2>3 DEF InLine
  <2>4. CASE u # t
    BY <1>7, <1>8, <2>1, <2>2, <2>4
  <2>5. QED
    BY <2>3, <2>4
<1>13. ActiveFits'
  <2> SUFFICES ASSUME NEW u \in Tab
               PROVE  IF tab'[u].page = "chat" /\ tab'[u].stage # "ended"
                      THEN tab'[u].active.key \in 1..docs ELSE tab'[u].active = NoRecord
    BY <1>2 DEF ActiveFits
  <2>1. CASE u = t
    BY <1>3, <1>4, <1>6, <1>7, <2>1
  <2>2. CASE u # t
    BY <1>7, <2>2 DEF RecordsInv, ActiveFits
  <2>3. QED
    BY <2>1, <2>2
<1>14. OwnKeys'
  BY <1>9 DEF RecordsInv, OwnKeys
<1>15. CopiesFit'
  BY <1>9, <1>11 DEF RecordsInv, CopiesFit, Session
<1>16. OneRoom'
  BY <1>11 DEF RecordsInv, OneRoom
<1>17. \A j \in 1..MaxDocs : j # k => used'[j] = used[j]
  BY <1>2, <1>3, <1>4
<1>18. UnusedKeys'
  BY <1>2, <1>3, <1>17 DEF RecordsInv, UnusedKeys
<1>19. UpToDate'
  <2> SUFFICES ASSUME ~lateCopy
               PROVE  /\ ~reused'
                      /\ \A u \in Tab : tab'[u].active.key # 0 =>
                           used'[tab'[u].active.key] <= tab'[u].active.ctr
                      /\ \A u \in Tab, r \in Room : Orphaned(u, r)' =>
                           used'[store'[u][r].key] <= store'[u][r].ctr
    BY <1>2 DEF UpToDate
  <2>1. /\ ~reused
        /\ \A u \in Tab : tab[u].active.key # 0 => used[tab[u].active.key] <= tab[u].active.ctr
        /\ \A u \in Tab, r \in Room : Orphaned(u, r) => used[store[u][r].key] <= store[u][r].ctr
    BY DEF RecordsInv, UpToDate
  <2>2. used[k] <= tab[t].active.ctr /\ used[k] \in Nat
    BY <1>3, <2>1
  <2>3. ~reused'
    <3>1. ~(next.ctr <= used[next.key])
      BY <1>4, <2>2
    <3>2. QED
      BY <1>2, <2>1, <3>1, Zenon
  <2>4. used'[k] = next.ctr
    BY <1>2, <1>3, <1>4, <2>2
  <2>5. ASSUME NEW u \in Tab, tab'[u].active.key # 0
        PROVE  used'[tab'[u].active.key] <= tab'[u].active.ctr
    <3>1. CASE u = t
      BY <1>4, <1>6, <1>7, <2>4, <3>1
    <3>2. CASE u # t
      <4>1. tab[u].active.key # k /\ tab[u].active.key # 0 /\ tab'[u] = tab[u]
        BY <1>3, <1>7, <2>5, <3>2 DEF RecordsInv, OwnKeys
      <4>2. tab[u].active.key \in 1..MaxDocs
        <5>1. tab[u].active.key \in 0..MaxDocs
          BY DEF FilesInv, Types, Document, Record
        <5>2. QED
          BY <4>1, <5>1
      <4>3. QED
        BY <1>17, <2>1, <4>1, <4>2
    <3>3. QED
      BY <3>1, <3>2
  <2>6. ASSUME NEW u \in Tab, NEW r \in Room, Orphaned(u, r)'
        PROVE  used'[store'[u][r].key] <= store'[u][r].ctr
    <3>1. Orphaned(u, r) /\ store[u][r].key # k
      BY <1>9, <1>11, <2>6 DEF Orphaned
    <3>2. store'[u][r] = store[u][r]
      BY <1>8, <1>10, <3>1
    <3>3. store[u][r].key \in 1..MaxDocs
      BY <1>3, <3>1 DEF Orphaned, RecordsInv, RecordsFit
    <3>4. QED
      BY <1>17, <2>1, <3>1, <3>2, <3>3
  <2>7. QED
    BY <2>3, <2>5, <2>6
<1>20. QED
  BY <1>12, <1>13, <1>14, <1>15, <1>16, <1>18, <1>19 DEF RecordsInv

\* The file system and the workers have nothing to do with records.
LEMMA FileSystemRecords ==
  ASSUME FilesInv, RecordsInv,
         \/ QueryLocks \/ Work \/ BootFails
         \/ \E t \in Tab : Probe(t) \/ AcceptOffer(t) \/ WorkerBegins(t) \/ WorkerStops(t)
  PROVE  RecordsInv'
<1>1. UNCHANGED <<store, history, docs>>
  BY DEF QueryLocks, Work, BootFails, Probe, AcceptOffer, WorkerBegins, WorkerStops
<1>2. \A u \in Tab : /\ tab'[u].page = tab[u].page /\ tab'[u].room = tab[u].room
                     /\ tab'[u].stage = tab[u].stage /\ tab'[u].active = tab[u].active
  <2>1. tab \in [Tab -> Document]
    BY DEF FilesInv, Types
  <2>2. CASE QueryLocks
    BY <2>2 DEF QueryLocks
  <2>3. CASE BootFails
    <3>1. tab' = [tab EXCEPT ![Head(queue).tab].init = "failed"]
      BY <2>3 DEF BootFails
    <3>2. QED
      BY <2>1, <3>1 DEF Document
  <2>4. CASE Work
    <3>1. \/ tab' = tab
          \/ tab' = [tab EXCEPT ![Head(queue).tab].init = "done", ![Head(queue).tab].ready = TRUE]
      BY <2>4 DEF Work
    <3>2. QED
      BY <2>1, <3>1 DEF Document
  <2>5. CASE \E t \in Tab : Probe(t)
    <3>1. PICK t \in Tab, how \in {"queued", "off"} : tab' = [tab EXCEPT ![t].init = how]
      BY <2>5 DEF Probe
    <3>2. QED
      BY <2>1, <3>1 DEF Document
  <2>6. CASE \E t \in Tab : AcceptOffer(t) \/ WorkerBegins(t) \/ WorkerStops(t)
    <3>1. PICK t \in Tab, w \in {"none", "waiting", "holding"} : tab' = [tab EXCEPT ![t].worker = w]
      BY <2>6 DEF AcceptOffer, WorkerBegins, WorkerStops
    <3>2. QED
      BY <2>1, <3>1 DEF Document
  <2>7. QED
    BY <2>2, <2>3, <2>4, <2>5, <2>6
<1>3. \A u \in Tab : Live(tab'[u]) <=> Live(tab[u])
  BY <1>2 DEF Live
<1>4. QED
  BY <1>1, <1>2, <1>3, RecordsUntouched

LEMMA RecordsStep == FilesInv /\ FilesInv' /\ RecordsInv /\ [Next]_vars => RecordsInv'
<1> SUFFICES ASSUME FilesInv, FilesInv', RecordsInv, [Next]_vars
             PROVE  RecordsInv'
  OBVIOUS
<1>1. CASE QueryLocks \/ Work \/ BootFails
  BY <1>1, FileSystemRecords
<1>2. ASSUME NEW t \in Tab, Machine(t)
      PROVE  RecordsInv'
  <2>1. CASE ClaimRoom(t)
    BY <2>1, ClaimRecords
  <2>2. CASE Probe(t)
    BY <2>2, FileSystemRecords
  <2>3. CASE FinalizeTermination(t)
    BY <2>3, FinalizeRecords DEF FinalizeTermination, Session, Live
  <2>4. CASE Redirect(t)
    BY <2>4, ShowingRecords
  <2>5. QED
    BY <1>2, <2>1, <2>2, <2>3, <2>4 DEF Machine
<1>3. ASSUME NEW t \in Tab, User(t)
      PROVE  RecordsInv'
  <2>1. CASE Upgrade(t)
    BY <2>1, UpgradeRecords
  <2>2. CASE Send(t)
    BY <2>2, SendRecords
  <2>3. CASE Terminate(t)
    BY <2>3, TerminateRecords
  <2>4. CASE \E u \in Tab : Duplicate(t, u)
    BY <2>4, DuplicateRecords
  <2>5. CASE \/ Close(t) \/ \E r \in Room : Open(t, r)
             \/ \E page \in {"landing", "elsewhere"} : Visit(t, page)
    BY <2>5, ShowingRecords
  <2>6. CASE AcceptOffer(t)
    BY <2>6, FileSystemRecords
  <2>7. QED
    BY <1>3, <2>1, <2>2, <2>3, <2>4, <2>5, <2>6 DEF User
<1>4. ASSUME NEW t \in Tab, WorkerBegins(t) \/ WorkerStops(t)
      PROVE  RecordsInv'
  BY <1>4, FileSystemRecords
<1>5. CASE UNCHANGED vars
  BY <1>5, RecordsUntouched DEF vars
<1>6. QED
  BY <1>1, <1>2, <1>3, <1>4, <1>5 DEF Next

LEMMA RecordsInit == Init => RecordsInv
<1> SUFFICES ASSUME Init
             PROVE  RecordsInv
  OBVIOUS
<1>1. /\ \A t \in Tab : tab[t].page = "none" /\ tab[t].active = NoRecord
      /\ \A t \in Tab, r \in Room : store[t][r] = NoRecord
  BY NewDocuments DEF Init
<1>2. RecordsFit /\ CopiesFit /\ OneRoom /\ UpToDate
  BY <1>1 DEF RecordsFit, CopiesFit, OneRoom, UpToDate, Orphaned, Init, NoRecord
<1>3. ActiveFits /\ OwnKeys /\ UnusedKeys
  BY <1>1 DEF ActiveFits, OwnKeys, UnusedKeys, NoRecord, Init
<1>4. QED
  BY <1>2, <1>3 DEF RecordsInv

\* claimRoom, the record in sessionStorage and the counter written before it is
\* used: for any number of tabs, duplicates, reloads and visits of other pages, no key
\* and counter are used twice unless a session ended or lost its document while
\* another tab had a copy of its record that it had not used.
THEOREM ReuseOnlyAfterLateCopy == Spec => []ReuseNeedsLateCopy
<1>1. RecordsInv => ReuseNeedsLateCopy
  BY DEF RecordsInv, UpToDate, ReuseNeedsLateCopy
<1>2. QED
  BY <1>1, FilesAlways, RecordsInit, RecordsStep, PTL DEF Spec
=============================================================================
