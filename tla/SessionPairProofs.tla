-------------------------- MODULE SessionPairProofs --------------------------
(***************************************************************************)
(* Proofs about SessionPair: whatever texts, offers and faults, the state  *)
(* keeps its types and a terminated session is silent; without faults no   *)
(* text is lost; and without faults and offers upgrades and the rekey end  *)
(* nobody's session and leave the two ends in sync.                        *)
(***************************************************************************)
EXTENDS SessionPair, FiniteSetTheorems, SequenceTheorems, TLAPS

USE BoundAssumption, FaultAssumption

-----------------------------------------------------------------------------
(* Ends                                                                    *)

Relayed == ModeKind \cup Envelope
Rec == Record \cup {NoRecord}

LEMMA Peers ==
  /\ Role = {"initiator", "joiner"}
  /\ \A p \in Role : Peer(p) \in Role /\ Peer(p) # p /\ Peer(Peer(p)) = p
  /\ \A p, q \in Role : q = p \/ q = Peer(p)
BY DEF Role, Peer

\* Records that are stored again with a counter or the marker.
LEMMA RecTyped ==
  ASSUME NEW r \in Rec, r # NoRecord
  PROVE  /\ \A n \in Nat : [r EXCEPT !.s = n] \in Rec /\ [r EXCEPT !.n = n] \in Rec
         /\ [r EXCEPT !.rekey_in_progress = TRUE] \in Rec
         /\ \A n \in Nat : [r EXCEPT !.s = n] # NoRecord /\ [r EXCEPT !.n = n] # NoRecord
         /\ [r EXCEPT !.rekey_in_progress = TRUE] # NoRecord
<1>1. r \in Record /\ \A x \in Record : x.stored = TRUE
  BY DEF Rec, Record
<1>2. /\ \A n \in Nat : [r EXCEPT !.s = n] \in Record /\ [r EXCEPT !.n = n] \in Record
      /\ [r EXCEPT !.rekey_in_progress = TRUE] \in Record
  BY <1>1 DEF Record
<1>3. NoRecord.stored = FALSE
  BY DEF NoRecord
<1>4. \A x \in Record : x # NoRecord /\ x \in Rec
  BY <1>1, <1>3 DEF Rec
<1>5. QED
  BY <1>2, <1>4

\* Everything but the counter of the sender and the record.
Alike(n, e) ==
  /\ n.st = e.st /\ n.kind = e.kind /\ n.mode = e.mode /\ n.peerMode = e.peerMode /\ n.key = e.key
  /\ n.recvCtr = e.recvCtr /\ n.gap = e.gap /\ n.rekeyInFlight = e.rekeyInFlight
  /\ n.pendingPair = e.pendingPair /\ n.resumeId = e.resumeId /\ n.offering = e.offering
  /\ n.incoming = e.incoming /\ n.up = e.up /\ n.hp = e.hp /\ n.peerResume = e.peerResume
  /\ n.inq = e.inq /\ n.link = e.link /\ n.full = e.full /\ n.timer = e.timer
  /\ Stored(n) <=> Stored(e)

\* A page that waits for the passkey has a record.
Locked(e) == e.st = "RESUMING" => Stored(e)

LEMMA CountedTyped ==
  ASSUME NEW e \in End, NEW types \in Seq(Relayed)
  PROVE  /\ Counted(e, types) \in End /\ Alike(Counted(e, types), e)
         /\ Counted(e, types).sendCtr = IF CanSend(e) THEN e.sendCtr + Len(types) ELSE e.sendCtr
<1>1. CASE ~CanSend(e) \/ types = <<>>
  <2>1. Counted(e, types) = e
    BY <1>1 DEF Counted
  <2>2. types = <<>> => Len(types) = 0
    OBVIOUS
  <2>3. e.sendCtr \in Nat
    BY DEF End
  <2>4. QED
    BY <1>1, <2>1, <2>2, <2>3 DEF Alike
<1>2. CASE CanSend(e) /\ types # <<>>
  <2>1. PICK r : r = IF Stored(e) THEN [e.rec EXCEPT !.s = e.sendCtr + Len(types)] ELSE e.rec
    OBVIOUS
  <2>2. e.sendCtr + Len(types) \in Nat /\ e.rec \in Rec
    BY DEF End, Rec
  <2>3. r \in Rec /\ (r = NoRecord <=> e.rec = NoRecord)
    BY <2>1, <2>2, RecTyped DEF Stored
  <2>4. Counted(e, types) = [e EXCEPT !.sendCtr = e.sendCtr + Len(types), !.rec = r]
    BY <1>2, <2>1 DEF Counted, End
  <2>5. \A c \in Nat : LET n == [e EXCEPT !.sendCtr = c, !.rec = r]
                       IN n \in End /\ n.sendCtr = c /\ Alike(n, e)
    BY <2>3 DEF End, Rec, Alike, Stored
  <2>6. QED
    BY <1>2, <2>2, <2>4, <2>5
<1>3. QED
  BY <1>1, <1>2

-----------------------------------------------------------------------------
(* Counting texts                                                          *)

TextAt(q) == {i \in DOMAIN q : q[i].type = "msg"}

LEMMA TextAtFinite ==
  ASSUME NEW q \in Seq(Frame)
  PROVE  IsFiniteSet(TextAt(q)) /\ TextsIn(q) = Cardinality(TextAt(q)) /\ TextsIn(q) \in Nat
<1>1. Len(q) \in Nat /\ DOMAIN q = 1..Len(q)
  OBVIOUS
<1>4. IsFiniteSet(1..Len(q))
  BY <1>1, FS_Interval
<1>5. TextAt(q) \in SUBSET (1..Len(q))
  BY <1>1 DEF TextAt
<1>2. IsFiniteSet(TextAt(q))
  BY <1>4, <1>5, FS_Subset
<1>3. TextsIn(q) = Cardinality(TextAt(q))
  BY DEF TextsIn, TextAt
<1>6. QED
  BY <1>2, <1>3, FS_CardinalityType

LEMMA TextsConcat ==
  ASSUME NEW a \in Seq(Frame), NEW b \in Seq(Frame)
  PROVE  TextsIn(a \o b) = TextsIn(a) + TextsIn(b)
<1> DEFINE f == [i \in TextAt(b) |-> i + Len(a)]
           S == {i \in DOMAIN (a \o b) : i > Len(a) /\ (a \o b)[i].type = "msg"}
<1>1. DOMAIN (a \o b) = 1..(Len(a) + Len(b)) /\ DOMAIN a = 1..Len(a) /\ DOMAIN b = 1..Len(b)
  OBVIOUS
<1>2. /\ \A i \in 1..Len(a) : (a \o b)[i] = a[i]
      /\ \A i \in 1..Len(b) : (a \o b)[i + Len(a)] = b[i]
  OBVIOUS
<1>3. TextAt(a \o b) = TextAt(a) \cup S /\ TextAt(a) \cap S = {}
  BY <1>1, <1>2 DEF TextAt
<1>4. f \in Bijection(TextAt(b), S)
  <2>1. f \in [TextAt(b) -> S]
    BY <1>1, <1>2 DEF TextAt
  <2>2. \A i, j \in TextAt(b) : f[i] = f[j] => i = j
    BY <1>1 DEF TextAt
  <2>3. \A s \in S : s - Len(a) \in TextAt(b) /\ f[s - Len(a)] = s
    BY <1>1, <1>2 DEF TextAt
  <2> HIDE DEF f, S
  <2>4. \A s \in S : \E i \in TextAt(b) : f[i] = s
    BY <2>3
  <2>5. DOMAIN f = TextAt(b)
    BY <2>1
  <2>6. QED
    BY <2>1, <2>2, <2>4, <2>5 DEF Bijection, Injection, Surjection, IsInjective
<1>5. IsFiniteSet(S) /\ Cardinality(S) = TextsIn(b)
  BY <1>4, TextAtFinite, FS_Bijection DEF ExistsBijection
<1>6. a \o b \in Seq(Frame)
  OBVIOUS
<1> HIDE DEF S
<1>7. Cardinality(TextAt(a) \cup S) = Cardinality(TextAt(a)) + Cardinality(S) - Cardinality(TextAt(a) \cap S)
  BY <1>5, TextAtFinite, FS_Union
<1>8. /\ TextsIn(a \o b) = Cardinality(TextAt(a \o b)) /\ TextsIn(a) = Cardinality(TextAt(a))
      /\ TextsIn(a) \in Nat /\ TextsIn(b) \in Nat
  BY <1>6, TextAtFinite
<1>9. Cardinality(TextAt(a) \cap S) = 0
  BY <1>3, FS_EmptySet
<1>10. QED
  BY <1>3, <1>5, <1>7, <1>8, <1>9

LEMMA TextsFew ==
  /\ TextsIn(<<>>) = 0
  /\ \A f \in Frame : TextsIn(<<f>>) = IF f.type = "msg" THEN 1 ELSE 0
  /\ \A q \in Seq(Frame) : (\A i \in 1..Len(q) : q[i].type # "msg") => TextsIn(q) = 0
<1>1. \A q \in Seq(Frame) : (\A i \in 1..Len(q) : q[i].type # "msg") => TextsIn(q) = 0
  <2>1. TAKE q \in Seq(Frame)
  <2>2. HAVE \A i \in 1..Len(q) : q[i].type # "msg"
  <2>3. TextAt(q) = {}
    BY <2>2 DEF TextAt
  <2>4. QED
    BY <2>3, TextAtFinite, FS_EmptySet
<1>2. TextsIn(<<>>) = 0
  <2>1. PICK q \in Seq(Frame) : q = <<>>
    BY EmptySeq
  <2>2. Len(q) = 0
    BY <2>1, EmptySeq
  <2>3. \A i \in 1..Len(q) : FALSE
    BY <2>2
  <2>4. TextsIn(q) = 0
    BY <1>1, <2>3
  <2>5. QED
    BY <2>1, <2>4
<1>3. ASSUME NEW f \in Frame
      PROVE  TextsIn(<<f>>) = IF f.type = "msg" THEN 1 ELSE 0
  <2>1. <<f>> \in Seq(Frame) /\ Len(<<f>>) = 1 /\ <<f>>[1] = f /\ DOMAIN <<f>> = {1}
    OBVIOUS
  <2>2. CASE f.type = "msg"
    <3>1. TextAt(<<f>>) = {1}
      BY <2>1, <2>2 DEF TextAt
    <3>2. QED
      BY <2>1, <2>2, <3>1, TextAtFinite, FS_Singleton
  <2>3. CASE f.type # "msg"
    <3>1. \A i \in 1..Len(<<f>>) : <<f>>[i].type # "msg"
      BY <2>1, <2>3
    <3>2. QED
      BY <1>1, <2>1, <2>3, <3>1
  <2>4. QED
    BY <2>2, <2>3
<1>4. QED
  BY <1>1, <1>2, <1>3

LEMMA TextsHeadTail ==
  ASSUME NEW q \in Seq(Frame), q # <<>>
  PROVE  /\ Head(q) \in Frame /\ Tail(q) \in Seq(Frame) /\ q = <<Head(q)>> \o Tail(q)
         /\ TextsIn(q) = (IF Head(q).type = "msg" THEN 1 ELSE 0) + TextsIn(Tail(q))
<1>1. Head(q) \in Frame /\ Tail(q) \in Seq(Frame) /\ <<Head(q)>> \in Seq(Frame)
  OBVIOUS
<1>2. q = <<Head(q)>> \o Tail(q)
  OBVIOUS
<1>3. QED
  BY <1>1, <1>2, TextsConcat, TextsFew

-----------------------------------------------------------------------------
(* The accounts of one end                                                 *)

Over == {"FATAL_ENDING", "TERMINATED"}

\* An end, the frames on their way to it, the texts it has shown and those
\* that its peer has sent.
Sound(e, q, h, t) ==
  /\ e \in End /\ q \in Seq(Frame) /\ h \in Nat /\ t \in Nat
  /\ h + TextsIn(e.inq) + TextsIn(q) <= t
  /\ e.st \in Over => e.sendCtr = 0
  /\ Locked(e)

\* None is lost.
Exact(e, q, h, t) == h + TextsIn(e.inq) + TextsIn(q) = t

\* The end n is e, perhaps after it has taken the first frame of its chain.
Passes(n, e, h, g) ==
  \/ n.inq = e.inq /\ g = h
  \/ /\ e.inq # <<>> /\ n.inq = Tail(e.inq)
     /\ g = IF Head(e.inq).type = "msg" THEN h + 1 ELSE h

LEMMA InqTyped == \A e \in End : e.inq \in Seq(Frame) /\ TextsIn(e.inq) \in Nat
BY TextAtFinite DEF End

LEMMA SoundPasses ==
  ASSUME NEW e, NEW q, NEW h, NEW t, Sound(e, q, h, t), NEW n \in End, NEW g, Passes(n, e, h, g),
         n.st \in Over => n.sendCtr = 0, Locked(n)
  PROVE  Sound(n, q, g, t) /\ (Exact(e, q, h, t) => Exact(n, q, g, t))
<1>1. e \in End /\ e.inq \in Seq(Frame) /\ TextsIn(q) \in Nat /\ TextsIn(e.inq) \in Nat
  BY InqTyped, TextAtFinite DEF Sound
<1>2. CASE n.inq = e.inq /\ g = h
  BY <1>2 DEF Sound, Exact
<1>3. CASE /\ e.inq # <<>> /\ n.inq = Tail(e.inq)
           /\ g = IF Head(e.inq).type = "msg" THEN h + 1 ELSE h
  <2>1. /\ TextsIn(e.inq) = (IF Head(e.inq).type = "msg" THEN 1 ELSE 0) + TextsIn(n.inq)
        /\ TextsIn(n.inq) \in Nat
    BY <1>1, <1>3, TextsHeadTail, InqTyped
  <2>2. g + TextsIn(n.inq) = h + TextsIn(e.inq) /\ g \in Nat
    BY <1>1, <1>3, <2>1 DEF Sound
  <2>3. QED
    BY <1>1, <2>1, <2>2 DEF Sound, Exact
<1>4. QED
  BY <1>2, <1>3 DEF Passes

LEMMA SoundSent ==
  ASSUME NEW e, NEW q, NEW h, NEW t, Sound(e, q, h, t), NEW fs \in Seq(Frame), NEW u \in Nat,
         t + TextsIn(fs) <= u
  PROVE  /\ Sound(e, q \o fs, h, u)
         /\ Exact(e, q, h, t) /\ u = t + TextsIn(fs) => Exact(e, q \o fs, h, u)
<1>1. e \in End /\ q \in Seq(Frame) /\ q \o fs \in Seq(Frame)
  BY DEF Sound
<1>2. /\ TextsIn(q \o fs) = TextsIn(q) + TextsIn(fs)
      /\ TextsIn(q) \in Nat /\ TextsIn(fs) \in Nat /\ TextsIn(e.inq) \in Nat
  BY <1>1, TextsConcat, TextAtFinite, InqTyped
<1>3. QED
  BY <1>1, <1>2 DEF Sound, Exact

LEMMA SoundArrived ==
  ASSUME NEW e, NEW q, NEW h, NEW t, Sound(e, q, h, t), q # <<>>
  PROVE  /\ Sound([e EXCEPT !.inq = Append(@, Head(q))], Tail(q), h, t)
         /\ Exact(e, q, h, t) => Exact([e EXCEPT !.inq = Append(@, Head(q))], Tail(q), h, t)
         /\ Sound(e, Tail(q), h, t)
<1>1. e \in End /\ q \in Seq(Frame) /\ e.inq \in Seq(Frame)
  BY InqTyped DEF Sound
<1>2. PICK f \in Frame : f = Head(q)
  BY <1>1, TextsHeadTail
<1>3. PICK n : n = [e EXCEPT !.inq = Append(@, f)]
  OBVIOUS
<1>4. Append(e.inq, f) = e.inq \o <<f>> /\ <<f>> \in Seq(Frame) /\ Append(e.inq, f) \in Seq(Frame)
  BY <1>1
<1>5. \A s \in Seq(Frame) : LET m == [e EXCEPT !.inq = s]
                            IN /\ m \in End /\ m.inq = s /\ m.st = e.st /\ m.sendCtr = e.sendCtr
                               /\ m.rec = e.rec
  BY <1>1 DEF End
<1>6. /\ n \in End /\ n.inq = e.inq \o <<f>> /\ n.st = e.st /\ n.sendCtr = e.sendCtr
      /\ n.rec = e.rec
  <2>1. n = [e EXCEPT !.inq = Append(e.inq, f)]
    BY <1>1, <1>3 DEF End
  <2>2. QED
    BY <1>4, <1>5, <2>1
<1>7. TextsIn(n.inq) = TextsIn(e.inq) + TextsIn(<<f>>)
  BY <1>1, <1>4, <1>6, TextsConcat
<1>8. TextsIn(q) = TextsIn(<<f>>) + TextsIn(Tail(q)) /\ Tail(q) \in Seq(Frame)
  BY <1>1, <1>2, TextsHeadTail, TextsFew
<1>9. /\ TextsIn(q) \in Nat /\ TextsIn(<<f>>) \in Nat /\ TextsIn(e.inq) \in Nat
      /\ TextsIn(Tail(q)) \in Nat
  BY <1>1, <1>4, <1>8, TextAtFinite
<1>10. Sound(n, Tail(q), h, t) /\ (Exact(e, q, h, t) => Exact(n, Tail(q), h, t)) /\ Sound(e, Tail(q), h, t)
  BY <1>6, <1>7, <1>8, <1>9 DEF Sound, Exact, Locked, Stored
<1>11. QED
  BY <1>2, <1>3, <1>10

\* What is on its way to the end is lost, or the end starts anew.
LEMMA SoundLost ==
  ASSUME NEW e, NEW q, NEW h, NEW t, Sound(e, q, h, t), NEW n \in End,
         n.inq \in {e.inq, <<>>}, n.st \in Over => n.sendCtr = 0, Locked(n),
         NEW f \in Seq(Frame), TextsIn(f) = 0
  PROVE  Sound(n, f, h, t)
<1>1. e \in End /\ q \in Seq(Frame)
  BY DEF Sound
<1>2. /\ TextsIn(q) \in Nat /\ TextsIn(e.inq) \in Nat /\ TextsIn(n.inq) <= TextsIn(e.inq)
      /\ TextsIn(n.inq) \in Nat
  BY <1>1, TextAtFinite, InqTyped, TextsFew
<1>3. QED
  BY <1>2 DEF Sound

LEMMA EmptyQueue == <<>> \in Seq(Frame) /\ TextsIn(<<>>) = 0
BY TextsFew

-----------------------------------------------------------------------------
(* Frames                                                                  *)

\* Without faults only these are relayed.
PlainKind == ModeKind \cup {"msg", "file_offer", "file_decline", "file_cancel"}
Plain(q) == \A i \in 1..Len(q) : q[i].type \in PlainKind

LEMMA FramesTyped ==
  ASSUME NEW e \in End, NEW types \in Seq(Relayed), NEW id \in Nat
  PROVE  LET fs == RelayFrames(e, types, id)
         IN /\ fs \in Seq(Frame) /\ Len(fs) = Len(types)
            /\ \A i \in 1..Len(types) : fs[i].type = types[i] /\ fs[i].key = e.key
                                         /\ fs[i].ctr = e.sendCtr + i /\ fs[i].id = id
            /\ (\A i \in 1..Len(types) : types[i] # "msg") => TextsIn(fs) = 0
            /\ (\A i \in 1..Len(types) : types[i] \in PlainKind) => Plain(fs)
<1> DEFINE fs == RelayFrames(e, types, id)
<1>1. Len(types) \in Nat /\ DOMAIN types = 1..Len(types) /\ \A i \in 1..Len(types) : types[i] \in Relayed
  OBVIOUS
<1>2. fs = [i \in 1..Len(types) |->
              [type |-> types[i], key |-> e.key, ctr |-> e.sendCtr + i, id |-> id]]
  BY <1>1 DEF RelayFrames
<1>3. \A i \in 1..Len(types) :
        [type |-> types[i], key |-> e.key, ctr |-> e.sendCtr + i, id |-> id] \in Frame
  <2>1. e.key \in {0, 1} /\ e.sendCtr \in Nat
    BY DEF End
  <2>2. QED
    BY <1>1, <2>1 DEF Frame, Relayed
<1>4. fs \in [1..Len(types) -> Frame]
  BY <1>2, <1>3
<1>5. fs \in Seq(Frame) /\ Len(fs) = Len(types)
  BY <1>1, <1>4
<1>6. \A i \in 1..Len(types) :
        fs[i] = [type |-> types[i], key |-> e.key, ctr |-> e.sendCtr + i, id |-> id]
  BY <1>2
<1> HIDE DEF fs
<1>7. ASSUME NEW i \in 1..Len(types)
      PROVE  /\ fs[i].type = types[i] /\ fs[i].key = e.key
             /\ fs[i].ctr = e.sendCtr + i /\ fs[i].id = id
  <2>1. fs[i] = [type |-> types[i], key |-> e.key, ctr |-> e.sendCtr + i, id |-> id]
    BY <1>6
  <2>2. QED
    BY <2>1
<1>8. (\A i \in 1..Len(types) : types[i] # "msg") => TextsIn(fs) = 0
  BY <1>5, <1>7, TextsFew
<1>9. (\A i \in 1..Len(types) : types[i] \in PlainKind) => Plain(fs)
  BY <1>5, <1>7 DEF Plain
<1>10. QED
  BY <1>5, <1>7, <1>8, <1>9 DEF fs

LEMMA SameFrames ==
  ASSUME NEW d, NEW e, d.key = e.key, d.sendCtr = e.sendCtr, NEW types, NEW id
  PROVE  RelayFrames(d, types, id) = RelayFrames(e, types, id)
BY DEF RelayFrames

LEMMA PlainParts ==
  /\ \A a, b \in Seq(Frame) : Plain(a) /\ Plain(b) => Plain(a \o b)
  /\ \A q \in Seq(Frame) : q # <<>> /\ Plain(q) => Head(q).type \in PlainKind /\ Plain(Tail(q))
  /\ \A q \in Seq(Frame), f \in Frame :
       Plain(q) /\ f.type \in PlainKind => Plain(Append(q, f))
<1>1. ASSUME NEW a \in Seq(Frame), NEW b \in Seq(Frame), Plain(a), Plain(b)
      PROVE  Plain(a \o b)
  <2>1. /\ Len(a) \in Nat /\ Len(b) \in Nat /\ Len(a \o b) = Len(a) + Len(b)
        /\ \A i \in 1..Len(a \o b) : (a \o b)[i] = IF i <= Len(a) THEN a[i] ELSE b[i - Len(a)]
    BY ConcatProperties
  <2>2. ASSUME NEW i \in 1..Len(a \o b)
        PROVE  (a \o b)[i].type \in PlainKind
    <3>1. CASE i <= Len(a)
      BY <1>1, <2>1, <2>2, <3>1 DEF Plain
    <3>2. CASE i > Len(a)
      <4>1. i - Len(a) \in 1..Len(b)
        BY <2>1, <2>2, <3>2
      <4>2. QED
        BY <1>1, <2>1, <2>2, <3>2, <4>1 DEF Plain
    <3>3. QED
      BY <2>1, <3>1, <3>2
  <2>3. QED
    BY <2>2 DEF Plain
<1>2. ASSUME NEW q \in Seq(Frame), q # <<>>, Plain(q)
      PROVE  Head(q).type \in PlainKind /\ Plain(Tail(q))
  <2>1. /\ Len(q) \in Nat \ {0} /\ Head(q) = q[1] /\ Len(Tail(q)) = Len(q) - 1
        /\ \A i \in 1..Len(Tail(q)) : Tail(q)[i] = q[i + 1]
    BY <1>2, HeadTailProperties, EmptySeq
  <2>2. QED
    BY <1>2, <2>1 DEF Plain
<1>3. ASSUME NEW q \in Seq(Frame), NEW f \in Frame, Plain(q), f.type \in PlainKind
      PROVE  Plain(Append(q, f))
  <2>1. /\ Len(q) \in Nat /\ Len(Append(q, f)) = Len(q) + 1
        /\ \A i \in 1..Len(q) : Append(q, f)[i] = q[i]
        /\ Append(q, f)[Len(q) + 1] = f
    OBVIOUS
  <2>2. QED
    BY <1>3, <2>1 DEF Plain
<1>4. QED
  BY <1>1, <1>2, <1>3

-----------------------------------------------------------------------------
(* One stretch of one end                                                  *)

\* The session as it is while nothing has gone wrong.
AtEase(e) ==
  /\ e.kind = "active" /\ e.link = "open" /\ e.full = FALSE /\ e.timer = FALSE /\ e.gap = FALSE
  /\ e.st \in {"ACTIVE", "UPGRADING_LOCAL", "REKEYING"} /\ e.hp # "resumeAck"

\* What the end n keeps of e when it goes on.
GoesOn(n, e) ==
  /\ n \in End /\ n.st \notin Over
  /\ AtEase(e) => AtEase(n)
  /\ Locked(e) => Locked(n)

\* What its frames depend on.
SendsAs(n, e) == n.key = e.key /\ n.sendCtr = e.sendCtr /\ n.link = e.link /\ n.full = e.full

Kinds(out) == out \in Seq(Relayed)
PlainKinds(out) == \A i \in 1..Len(out) : out[i] \in PlainKind
NoTexts(out) == \A i \in 1..Len(out) : out[i] # "msg"

\* End p becomes n and sends frames of these types.
Local(p, n, out, id) ==
  /\ GoesOn(n, end[p]) /\ Kinds(out) /\ id \in Nat
  /\ AtEase(end[p]) => PlainKinds(out)
  /\ end' = [end EXCEPT ![p] = n]
  /\ net' = IF CanSend(end[p]) /\ Reaches(p)
            THEN [net EXCEPT ![Peer(p)] = @ \o RelayFrames(end[p], out, id)] ELSE net

LEMMA LocalStep ==
  ASSUME NEW p \in Role, end[p] \in End, NEW e \in End, GoesOn(e, end[p]), SendsAs(e, end[p]),
         NEW d \in End, SendsAs(d, end[p]),
         NEW out, Kinds(out), AtEase(end[p]) => PlainKinds(out), NEW id \in Nat,
         end' = [end EXCEPT ![p] = Counted(e, out)], Emit(p, d, out, id)
  PROVE  Local(p, Counted(e, out), out, id) /\ Counted(e, out).inq = e.inq
<1>1. PICK n \in End : n = Counted(e, out) /\ Alike(n, e)
  BY CountedTyped DEF Kinds
<1>2. n.st \notin Over /\ (AtEase(end[p]) => AtEase(n)) /\ (Locked(end[p]) => Locked(n))
  BY <1>1 DEF Alike, GoesOn, SendsAs, AtEase, Locked
<1>3. RelayFrames(d, out, id) = RelayFrames(end[p], out, id) /\ (CanSend(d) <=> CanSend(end[p]))
  BY SameFrames DEF SendsAs, CanSend
<1>4. QED
  BY <1>1, <1>2, <1>3 DEF Local, GoesOn, Emit, Alike

LEMMA NothingSent ==
  /\ Kinds(<<>>) /\ PlainKinds(<<>>) /\ NoTexts(<<>>) /\ Len(<<>>) = 0
  /\ \A e : Counted(e, <<>>) = e
BY DEF Kinds, PlainKinds, NoTexts, Counted

LEMMA OneSent ==
  ASSUME NEW t \in Relayed
  PROVE  /\ Kinds(<<t>>) /\ Len(<<t>>) = 1 /\ <<t>>[1] = t
         /\ t \in PlainKind => PlainKinds(<<t>>)
         /\ t # "msg" => NoTexts(<<t>>)
<1>1. <<t>> \in Seq(Relayed) /\ Len(<<t>>) = 1 /\ <<t>>[1] = t
  OBVIOUS
<1>2. \A i \in 1..Len(<<t>>) : <<t>>[i] = t
  BY <1>1
<1>3. QED
  BY <1>1, <1>2 DEF Kinds, PlainKinds, NoTexts

LEMMA MoreSent ==
  ASSUME NEW a, NEW b, Kinds(a), Kinds(b), PlainKinds(a), PlainKinds(b), NoTexts(a), NoTexts(b)
  PROVE  Kinds(a \o b) /\ PlainKinds(a \o b) /\ NoTexts(a \o b) /\ Len(a \o b) = Len(a) + Len(b)
<1>1. a \in Seq(Relayed) /\ b \in Seq(Relayed)
  BY DEF Kinds
<1>2. /\ a \o b \in Seq(Relayed) /\ Len(a) \in Nat /\ Len(b) \in Nat /\ Len(a \o b) = Len(a) + Len(b)
      /\ \A i \in 1..Len(a \o b) : (a \o b)[i] = IF i <= Len(a) THEN a[i] ELSE b[i - Len(a)]
  BY <1>1, ConcatProperties
<1>3. \A i \in 1..Len(a \o b) : \/ \E j \in 1..Len(a) : (a \o b)[i] = a[j]
                                \/ \E j \in 1..Len(b) : (a \o b)[i] = b[j]
  <2>1. TAKE i \in 1..Len(a \o b)
  <2>2. CASE i <= Len(a)
    BY <1>2, <2>2
  <2>3. CASE i > Len(a)
    <3>1. i - Len(a) \in 1..Len(b)
      BY <1>2, <2>3
    <3>2. QED
      BY <1>2, <2>3, <3>1
  <2>4. QED
    BY <1>2, <2>2, <2>3
<1>4. QED
  BY <1>2, <1>3 DEF Kinds, PlainKinds, NoTexts

-----------------------------------------------------------------------------
(* How an end changes                                                      *)

LEMMA TookTyped ==
  ASSUME NEW e \in End, e.inq # <<>>
  PROVE  LET n == Took(e)
         IN /\ n \in End /\ n.inq = Tail(e.inq) /\ n.gap = FALSE /\ n.recvCtr = Head(e.inq).ctr
            /\ Stored(n) <=> Stored(e)
            /\ n.st = e.st /\ n.kind = e.kind /\ n.mode = e.mode /\ n.peerMode = e.peerMode
            /\ n.key = e.key /\ n.sendCtr = e.sendCtr /\ n.rekeyInFlight = e.rekeyInFlight
            /\ n.pendingPair = e.pendingPair /\ n.resumeId = e.resumeId
            /\ n.offering = e.offering /\ n.incoming = e.incoming /\ n.up = e.up /\ n.hp = e.hp
            /\ n.peerResume = e.peerResume /\ n.link = e.link /\ n.full = e.full /\ n.timer = e.timer
<1>1. Head(e.inq) \in Frame /\ Tail(e.inq) \in Seq(Frame)
  BY InqTyped, TextsHeadTail
<1>2. PICK c \in Nat : c = Head(e.inq).ctr
  BY <1>1 DEF Frame
<1>3. e.rec \in Rec
  BY DEF End, Rec
<1>4. PICK r : r = IF Stored(e) /\ Head(e.inq).type \in Envelope THEN [e.rec EXCEPT !.n = c] ELSE e.rec
  OBVIOUS
<1>5. r \in Rec /\ (r = NoRecord <=> e.rec = NoRecord)
  <2>1. CASE Stored(e) /\ Head(e.inq).type \in Envelope
    <3>1. r = [e.rec EXCEPT !.n = c] /\ e.rec \in Record
      BY <1>3, <1>4, <2>1 DEF Stored, Rec
    <3>2. r \in Record /\ r.stored = TRUE
      BY <3>1 DEF Record
    <3>3. NoRecord.stored = FALSE
      BY DEF NoRecord
    <3>4. QED
      BY <2>1, <3>2, <3>3 DEF Stored, Rec
  <2>2. CASE ~(Stored(e) /\ Head(e.inq).type \in Envelope)
    BY <1>3, <1>4, <2>2
  <2>3. QED
    BY <2>1, <2>2
<1>6. Took(e) = [e EXCEPT !.inq = Tail(e.inq), !.gap = FALSE, !.recvCtr = c, !.rec = r]
  BY <1>2, <1>4 DEF Took, End
<1>7. \A s \in Seq(Frame) :
        LET n == [e EXCEPT !.inq = s, !.gap = FALSE, !.recvCtr = c, !.rec = r]
        IN /\ n \in End /\ n.inq = s /\ n.gap = FALSE /\ n.recvCtr = c /\ n.rec = r
           /\ n.st = e.st /\ n.kind = e.kind /\ n.mode = e.mode /\ n.peerMode = e.peerMode
           /\ n.key = e.key /\ n.sendCtr = e.sendCtr /\ n.rekeyInFlight = e.rekeyInFlight
           /\ n.pendingPair = e.pendingPair /\ n.resumeId = e.resumeId
           /\ n.offering = e.offering /\ n.incoming = e.incoming /\ n.up = e.up /\ n.hp = e.hp
           /\ n.peerResume = e.peerResume /\ n.link = e.link /\ n.full = e.full /\ n.timer = e.timer
  BY ZenonT(60), <1>5 DEF End, Rec
<1>8. PICK s \in Seq(Frame) : s = Tail(e.inq)
  BY <1>1
<1>9. PICK n : n = [e EXCEPT !.inq = s, !.gap = FALSE, !.recvCtr = c, !.rec = r]
  OBVIOUS
<1>10. n = Took(e)
  BY <1>6, <1>8, <1>9
<1>11. /\ n \in End /\ n.inq = s /\ n.gap = FALSE /\ n.recvCtr = c /\ n.rec = r
       /\ n.st = e.st /\ n.kind = e.kind /\ n.mode = e.mode /\ n.peerMode = e.peerMode
       /\ n.key = e.key /\ n.sendCtr = e.sendCtr /\ n.rekeyInFlight = e.rekeyInFlight
       /\ n.pendingPair = e.pendingPair /\ n.resumeId = e.resumeId
       /\ n.offering = e.offering /\ n.incoming = e.incoming /\ n.up = e.up /\ n.hp = e.hp
       /\ n.peerResume = e.peerResume /\ n.link = e.link /\ n.full = e.full /\ n.timer = e.timer
  BY <1>7, <1>9
<1>12. Stored(n) <=> Stored(e)
  BY <1>5, <1>11 DEF Stored
<1>13. QED
  BY <1>2, <1>8, <1>10, <1>11, <1>12

LEMMA RekeyingTyped ==
  ASSUME NEW e \in End
  PROVE  LET n == EnterRekeying(e)
         IN /\ n \in End /\ n.st = "REKEYING" /\ n.rekeyInFlight = TRUE
            /\ n.offering = FALSE /\ n.incoming = FALSE
            /\ n.inq = e.inq /\ n.gap = e.gap /\ n.recvCtr = e.recvCtr
            /\ n.kind = e.kind /\ n.mode = e.mode /\ n.peerMode = e.peerMode
            /\ n.key = e.key /\ n.sendCtr = e.sendCtr
            /\ n.pendingPair = e.pendingPair /\ n.resumeId = e.resumeId
            /\ n.up = e.up /\ n.hp = e.hp
            /\ n.peerResume = e.peerResume /\ n.link = e.link /\ n.full = e.full /\ n.timer = e.timer
<1>1. e.rec \in Rec
  BY DEF End, Rec
<1>2. PICK r : r = IF Stored(e) THEN [e.rec EXCEPT !.rekey_in_progress = TRUE] ELSE e.rec
  OBVIOUS
<1>3. r \in Rec
  BY <1>1, <1>2, RecTyped DEF Stored
<1>4. EnterRekeying(e) = [e EXCEPT !.offering = FALSE, !.incoming = FALSE, !.st = "REKEYING",
                                   !.rekeyInFlight = TRUE, !.rec = r]
  <2>1. NoFiles(e) = [e EXCEPT !.offering = FALSE, !.incoming = FALSE]
    BY DEF NoFiles
  <2>2. EnterRekeying(e) = [[e EXCEPT !.offering = FALSE, !.incoming = FALSE]
                              EXCEPT !.st = "REKEYING", !.rekeyInFlight = TRUE, !.rec = r]
    BY <1>2, <2>1 DEF EnterRekeying, End
  <2>3. QED
    BY <2>2 DEF End
<1>5. PICK n : n = [e EXCEPT !.offering = FALSE, !.incoming = FALSE, !.st = "REKEYING",
                             !.rekeyInFlight = TRUE, !.rec = r]
  OBVIOUS
<1>6. n \in End
  BY ZenonT(60), <1>3, <1>5 DEF End, Rec, SessionState
<1>7. /\ n.st = "REKEYING" /\ n.rekeyInFlight = TRUE
      /\ n.offering = FALSE /\ n.incoming = FALSE
      /\ n.inq = e.inq /\ n.gap = e.gap /\ n.recvCtr = e.recvCtr
      /\ n.kind = e.kind /\ n.mode = e.mode /\ n.peerMode = e.peerMode
      /\ n.key = e.key /\ n.sendCtr = e.sendCtr
      /\ n.pendingPair = e.pendingPair /\ n.resumeId = e.resumeId
      /\ n.up = e.up /\ n.hp = e.hp
      /\ n.peerResume = e.peerResume /\ n.link = e.link /\ n.full = e.full /\ n.timer = e.timer
  BY <1>5 DEF End
<1>8. QED
  BY <1>4, <1>5, <1>6, <1>7

LEMMA ChainChoice ==
  ASSUME NEW e \in End
  PROVE  /\ LET n == [e EXCEPT !["up"] = "keygen"]
            IN /\ n \in End /\ n.up = "keygen" /\ n.hp = e.hp /\ n.st = e.st /\ n.kind = e.kind
               /\ n.inq = e.inq /\ n.gap = e.gap /\ n.recvCtr = e.recvCtr /\ n.mode = e.mode
               /\ n.peerMode = e.peerMode /\ n.key = e.key /\ n.sendCtr = e.sendCtr
               /\ n.pendingPair = e.pendingPair /\ n.rekeyInFlight = e.rekeyInFlight
               /\ n.offering = e.offering /\ n.incoming = e.incoming
               /\ n.link = e.link /\ n.full = e.full /\ n.timer = e.timer
         /\ LET n == [e EXCEPT !["hp"] = "keygen"]
            IN /\ n \in End /\ n.up = e.up /\ n.hp = "keygen" /\ n.st = e.st /\ n.kind = e.kind
               /\ n.inq = e.inq /\ n.gap = e.gap /\ n.recvCtr = e.recvCtr /\ n.mode = e.mode
               /\ n.peerMode = e.peerMode /\ n.key = e.key /\ n.sendCtr = e.sendCtr
               /\ n.pendingPair = e.pendingPair /\ n.rekeyInFlight = e.rekeyInFlight
               /\ n.offering = e.offering /\ n.incoming = e.incoming
               /\ n.link = e.link /\ n.full = e.full /\ n.timer = e.timer
BY DEF End

LEMMA Replaced ==
  ASSUME NEW x \in End
  PROVE  /\ \A t \in SessionState, r \in Rec : [x EXCEPT !.st = t, !.rec = r] \in End
         /\ [x EXCEPT !.kind = "pre", !.link = "closed"] \in End
         /\ \A u \in {"none", "passkey", "notifying", "keygen"},
              h \in {"none", "resumeAck", "keygen", "rekeyInit", "rekeyAck", "commit"} :
                [x EXCEPT !.up = u, !.hp = h] \in End
<1>1. ASSUME NEW t \in SessionState, NEW r \in Rec
      PROVE  [x EXCEPT !.st = t, !.rec = r] \in End
  BY DEF End, Rec
<1>2. [x EXCEPT !.kind = "pre", !.link = "closed"] \in End
  BY ZenonT(60) DEF End
<1>3. ASSUME NEW u \in {"none", "passkey", "notifying", "keygen"},
             NEW h \in {"none", "resumeAck", "keygen", "rekeyInit", "rekeyAck", "commit"}
      PROVE  [x EXCEPT !.up = u, !.hp = h] \in End
  BY ZenonT(60) DEF End
<1>4. QED
  BY <1>1, <1>2, <1>3

\* The record an end leaves behind, and what a reload makes of it.
LEMMA EndedTyped ==
  ASSUME NEW e \in End
  PROVE  LET n == EndedAs(e)
         IN /\ n \in End /\ n.inq = <<>> /\ n.sendCtr = 0 /\ n.st \in Over
            /\ n.rec \in {e.rec, NoRecord}
<1>1. PICK r : r = IF e.st \in {"ACTIVE", "PEER_RECONNECTING", "RECONNECTING"} THEN e.rec ELSE NoRecord
  OBVIOUS
<1>2. PICK t : t = IF e.st \in {"ACTIVE", "PEER_RECONNECTING", "RECONNECTING"} THEN "FATAL_ENDING" ELSE "TERMINATED"
  OBVIOUS
<1>3. r \in Rec /\ r \in {e.rec, NoRecord} /\ t \in Over
  BY <1>1, <1>2 DEF End, Rec, Over
<1>4. EndedAs(e) = [InitialEnd EXCEPT !.st = t, !.rec = r, !.kind = "pre", !.link = "closed",
                                      !.up = e.up, !.hp = e.hp]
  BY <1>1, <1>2 DEF EndedAs
<1>5. InitialEnd \in End /\ InitialEnd.inq = <<>> /\ InitialEnd.sendCtr = 0
  BY EmptyQueue DEF InitialEnd, End, SessionState
<1>6. PICK u \in {"none", "passkey", "notifying", "keygen"},
           h \in {"none", "resumeAck", "keygen", "rekeyInit", "rekeyAck", "commit"} :
             u = e.up /\ h = e.hp
  BY DEF End
<1>7. t \in SessionState
  BY <1>3 DEF Over, SessionState
<1>8. PICK d \in End : d = InitialEnd /\ d.inq = <<>> /\ d.sendCtr = 0
  BY <1>5
<1>9. PICK n : n = [d EXCEPT !.st = t, !.rec = r, !.kind = "pre", !.link = "closed",
                             !.up = u, !.hp = h]
  OBVIOUS
<1>10. n \in End
  <2>1. \A x \in End : [x EXCEPT !.st = t, !.rec = r] \in End
    BY <1>3, <1>7, Replaced
  <2>2. \A x \in End : [x EXCEPT !.kind = "pre", !.link = "closed"] \in End
    BY Replaced
  <2>3. \A x \in End : [x EXCEPT !.up = u, !.hp = h] \in End
    BY Replaced
  <2>4. n = [[[d EXCEPT !.st = t, !.rec = r] EXCEPT !.kind = "pre", !.link = "closed"]
                EXCEPT !.up = u, !.hp = h]
    BY <1>9 DEF End
  <2>5. QED
    BY <2>1, <2>2, <2>3, <2>4
<1>11. n.inq = <<>> /\ n.sendCtr = 0 /\ n.st = t /\ n.rec = r
  BY <1>8, <1>9 DEF End
<1>12. n = EndedAs(e)
  BY <1>4, <1>6, <1>8, <1>9
<1>13. QED
  BY <1>3, <1>10, <1>11, <1>12

-----------------------------------------------------------------------------
(* The invariant                                                           *)

\* Beside its types: no end is owed more texts than its peer has sent, and an
\* end that is over has sent nothing since.
TypeInv ==
  /\ end \in [Role -> End] /\ net \in [Role -> Seq(Frame)]
  /\ slot \in [Role -> Seat] /\ roomGone \in BOOLEAN
  /\ texts \in [Role -> 0..MaxTexts] /\ heard \in [Role -> Nat]
  /\ offers \in [Role -> 0..MaxOffers] /\ faults \in 0..MaxFaults /\ ids \in Nat
  /\ \A p \in Role : Sound(end[p], net[p], heard[p], texts[Peer(p)])

LEMMA TypeInvTypes == TypeInv /\ unsent \subseteq Awaited => TypeOK
<1>1. ASSUME TypeInv
      PROVE  heard \in [Role -> 0..MaxTexts]
  <2>1. ASSUME NEW p \in Role
        PROVE  heard[p] \in 0..MaxTexts
    <3>1. Sound(end[p], net[p], heard[p], texts[Peer(p)]) /\ texts[Peer(p)] \in 0..MaxTexts
      BY <1>1, Peers DEF TypeInv
    <3>2. TextsIn(end[p].inq) \in Nat /\ TextsIn(net[p]) \in Nat
      BY <3>1, InqTyped, TextAtFinite DEF Sound
    <3>3. heard[p] \in Nat
      BY <1>1 DEF TypeInv
    <3>4. QED
      BY <3>1, <3>2, <3>3 DEF Sound
  <2>2. QED
    BY <1>1, <2>1 DEF TypeInv
<1>2. QED
  BY <1>1 DEF TypeInv, TypeOK

\* One end goes on: it may take a frame of its chain and send frames.
Stretch(p) ==
  /\ p \in Role /\ Alive(p)
  /\ UNCHANGED <<slot, roomGone, faults, ids>> /\ offers' \in [Role -> 0..MaxOffers]
  /\ \E n, out, id, g :
       /\ Local(p, n, out, id)
       /\ Passes(n, end[p], heard[p], g) /\ heard' = [heard EXCEPT ![p] = g]
       /\ \/ NoTexts(out) /\ texts' = texts
          \/ /\ out = <<"msg">> /\ CanSend(end[p]) /\ texts[p] < MaxTexts
             /\ texts' = [texts EXCEPT ![p] = @ + 1]

\* One end ends.
Stops(p) ==
  /\ p \in Role /\ Alive(p) /\ UNCHANGED <<slot, roomGone, texts, heard, offers, ids>>
  /\ \E n \in End : /\ n.inq = <<>> /\ n.sendCtr = 0 /\ n.st \in Over
                    /\ end' = [end EXCEPT ![p] = n]
  /\ net' = [net EXCEPT ![p] = <<>>]

LEMMA StretchBy ==
  ASSUME TypeInv, NEW p \in Role, Alive(p), UNCHANGED <<slot, roomGone, faults, ids>>,
         NEW e \in End, GoesOn(e, end[p]), SendsAs(e, end[p]), NEW d \in End, SendsAs(d, end[p]),
         NEW out, Kinds(out), AtEase(end[p]) => PlainKinds(out), NoTexts(out), NEW id \in Nat,
         end' = [end EXCEPT ![p] = Counted(e, out)], Emit(p, d, out, id),
         NEW g, Passes(e, end[p], heard[p], g), heard' = [heard EXCEPT ![p] = g],
         texts' = texts, offers' = offers
  PROVE  Stretch(p)
<1>1. end[p] \in End /\ offers' \in [Role -> 0..MaxOffers]
  BY DEF TypeInv
<1>2. Local(p, Counted(e, out), out, id) /\ Counted(e, out).inq = e.inq
  BY ZenonT(60), <1>1, LocalStep
<1>3. Passes(Counted(e, out), end[p], heard[p], g)
  BY <1>2 DEF Passes
<1>4. QED
  BY <1>1, <1>2, <1>3 DEF Stretch

LEMMA NoHearing == TypeInv => \A p \in Role : heard = [heard EXCEPT ![p] = heard[p]]
BY DEF TypeInv

LEMMA StopsBy ==
  ASSUME TypeInv, NEW p \in Role, Alive(p), Terminate(p),
         UNCHANGED <<slot, roomGone, texts, heard, offers, ids>>
  PROVE  Stops(p)
<1>1. end[p] \in End
  BY DEF TypeInv
<1>2. QED
  BY <1>1, EndedTyped DEF Stops, Terminate

-----------------------------------------------------------------------------
(* The changes of one end, stretch by stretch                              *)

\* The end goes on as n, with the same frames in its chain.
Turn(n, e) == GoesOn(n, e) /\ SendsAs(n, e) /\ n.inq = e.inq

LEMMA TurnTurn ==
  ASSUME NEW a, NEW b, NEW c, Turn(b, a), Turn(c, b)
  PROVE  Turn(c, a)
BY DEF Turn, GoesOn, SendsAs

LEMMA SmallTurns ==
  ASSUME NEW e \in End, e.st \notin Over
  PROVE  /\ Turn(e, e)
         /\ \A b \in BOOLEAN : /\ Turn([e EXCEPT !.offering = b], e)
                               /\ Turn([e EXCEPT !.incoming = b], e)
                               /\ Turn([e EXCEPT !.pendingPair = b], e)
         /\ \A h \in {"none", "keygen", "rekeyInit", "rekeyAck", "commit"} :
              Turn([e EXCEPT !.hp = h], e)
         /\ \A u \in {"none", "passkey", "notifying", "keygen"} : Turn([e EXCEPT !.up = u], e)
         /\ \A t \in {"ACTIVE", "UPGRADING_LOCAL", "REKEYING"} : Turn([e EXCEPT !.st = t], e)
         /\ \A m \in {"RAM", "PRF"} : Turn([e EXCEPT !.mode = m], e)
         /\ \A m \in {"RAM", "PRF"} : Turn([e EXCEPT !.peerMode = m], e)
         /\ \A b \in BOOLEAN : Turn([e EXCEPT !.rekeyInFlight = b], e)
         /\ \A r \in Record : Turn([e EXCEPT !.rec = r], e)
<1> USE DEF Turn, GoesOn, SendsAs, AtEase, End, Locked, Stored
<1>1. Turn(e, e)
  OBVIOUS
<1>2. ASSUME NEW b \in BOOLEAN
      PROVE  /\ Turn([e EXCEPT !.offering = b], e) /\ Turn([e EXCEPT !.incoming = b], e)
             /\ Turn([e EXCEPT !.pendingPair = b], e) /\ Turn([e EXCEPT !.rekeyInFlight = b], e)
  <2>1. Turn([e EXCEPT !.offering = b], e)
    OBVIOUS
  <2>2. Turn([e EXCEPT !.incoming = b], e)
    OBVIOUS
  <2>3. Turn([e EXCEPT !.pendingPair = b], e)
    OBVIOUS
  <2>4. Turn([e EXCEPT !.rekeyInFlight = b], e)
    OBVIOUS
  <2>5. QED
    BY <2>1, <2>2, <2>3, <2>4
<1>3. ASSUME NEW h \in {"none", "keygen", "rekeyInit", "rekeyAck", "commit"}
      PROVE  Turn([e EXCEPT !.hp = h], e)
  OBVIOUS
<1>4. ASSUME NEW u \in {"none", "passkey", "notifying", "keygen"}
      PROVE  Turn([e EXCEPT !.up = u], e)
  OBVIOUS
<1>5. ASSUME NEW t \in {"ACTIVE", "UPGRADING_LOCAL", "REKEYING"}
      PROVE  Turn([e EXCEPT !.st = t], e)
  BY DEF SessionState, Over
<1>6. ASSUME NEW m \in {"RAM", "PRF"}
      PROVE  Turn([e EXCEPT !.mode = m], e) /\ Turn([e EXCEPT !.peerMode = m], e)
  <2>1. Turn([e EXCEPT !.mode = m], e)
    OBVIOUS
  <2>2. Turn([e EXCEPT !.peerMode = m], e)
    OBVIOUS
  <2>3. QED
    BY <2>1, <2>2
<1>7. ASSUME NEW r \in Record
      PROVE  Turn([e EXCEPT !.rec = r], e)
  <2>1. r # NoRecord
    <3>1. r.stored = TRUE
      BY DEF Record
    <3>2. QED
      BY <3>1 DEF NoRecord
  <2>2. QED
    BY <2>1
<1> HIDE DEF Turn, GoesOn, SendsAs, AtEase, End, Locked, Stored
<1>8. QED
  BY <1>1, <1>2, <1>3, <1>4, <1>5, <1>6, <1>7

LEMMA TurnAlive == \A n, e : Turn(n, e) => n \in End /\ n.st \notin Over
BY DEF Turn, GoesOn

LEMMA RekeyingTurn ==
  ASSUME NEW e \in End, e.st \notin Over
  PROVE  Turn(EnterRekeying(e), e)
BY RekeyingTyped DEF Turn, GoesOn, SendsAs, AtEase, Over, Locked

\* A record written from the counters of now.
LEMMA PersistedTurn ==
  ASSUME NEW e \in End, e.st \notin Over, NEW b \in BOOLEAN
  PROVE  Turn(Persisted(e, b), e)
<1>1. [stored |-> TRUE, k |-> e.key, s |-> e.sendCtr, n |-> e.recvCtr,
       hardened |-> b, rekey_in_progress |-> FALSE] \in Record
  BY DEF End, Record
<1>2. QED
  BY <1>1, SmallTurns DEF Persisted

LEMMA StartedTurn ==
  ASSUME NEW e \in End, e.st \notin Over, NEW p \in Role, NEW pc \in {"up", "hp"}
  PROVE  Turn(StartedRekey(p, e, pc), e)
<1>1. PICK r : r = EnterRekeying(e)
  OBVIOUS
<1>2. Turn(r, e) /\ r \in End /\ r.st \notin Over
  BY <1>1, RekeyingTurn, TurnAlive
<1>3. Turn([r EXCEPT !["up"] = "keygen"], r) /\ Turn([r EXCEPT !["hp"] = "keygen"], r)
  <2>1. Turn([r EXCEPT !.up = "keygen"], r) /\ Turn([r EXCEPT !.hp = "keygen"], r)
    BY <1>2, SmallTurns
  <2>2. QED
    BY <2>1
<1>4. Turn([r EXCEPT ![pc] = "keygen"], e)
  BY <1>2, <1>3, TurnTurn
<1>5. Turn(e, e)
  BY SmallTurns
<1>6. QED
  BY <1>1, <1>2, <1>4, <1>5 DEF StartedRekey

-----------------------------------------------------------------------------
(* The actions of one end                                                  *)

\* A stretch that takes no frame from the chain and shows no text.
LEMMA SkippingStretch ==
  ASSUME TypeInv, NEW p \in Role, Alive(p),
         UNCHANGED <<slot, roomGone, texts, heard, offers, faults, ids>>,
         NEW e, Turn(e, end[p]), NEW d, Turn(d, end[p]),
         NEW out, Kinds(out), AtEase(end[p]) => PlainKinds(out), NoTexts(out), NEW id \in Nat,
         end' = [end EXCEPT ![p] = Counted(e, out)], Emit(p, d, out, id)
  PROVE  Stretch(p)
<1>1. /\ heard' = [heard EXCEPT ![p] = heard[p]] /\ texts' = texts /\ offers' = offers
      /\ UNCHANGED <<slot, roomGone, faults, ids>>
  BY NoHearing
<1>2. Passes(e, end[p], heard[p], heard[p])
  BY DEF Passes, Turn
<1>3. e \in End /\ d \in End /\ GoesOn(e, end[p]) /\ SendsAs(e, end[p]) /\ SendsAs(d, end[p])
  BY DEF Turn, GoesOn
<1>4. QED
  BY <1>1, <1>2, <1>3, StretchBy

LEMMA TurnStretch ==
  ASSUME TypeInv, NEW p \in Role, Alive(p), UNCHANGED <<slot, roomGone, counts>>,
         NEW e, Turn(e, end[p]), NEW d, Turn(d, end[p]),
         NEW out, Kinds(out), AtEase(end[p]) => PlainKinds(out), NoTexts(out), NEW id \in Nat,
         end' = [end EXCEPT ![p] = Counted(e, out)], Emit(p, d, out, id)
  PROVE  Stretch(p)
<1>1. UNCHANGED <<slot, roomGone, texts, heard, offers, faults, ids>>
  BY DEF counts
<1>2. QED
  BY <1>1, SkippingStretch

\* One that sends nothing.
LEMMA SkippedStretch ==
  ASSUME TypeInv, NEW p \in Role, Alive(p),
         UNCHANGED <<slot, roomGone, net, texts, heard, offers, faults, ids>>,
         NEW e, GoesOn(e, end[p]), e.inq = end[p].inq, end' = [end EXCEPT ![p] = e]
  PROVE  Stretch(p)
<1>1. /\ heard' = [heard EXCEPT ![p] = heard[p]] /\ texts' = texts /\ offers' \in [Role -> 0..MaxOffers]
      /\ UNCHANGED <<slot, roomGone, faults, ids>>
  BY NoHearing DEF TypeInv
<1>2. Passes(e, end[p], heard[p], heard[p])
  BY DEF Passes
<1>3. Local(p, e, <<>>, 0)
  <2>1. end[p] \in End /\ net \in [Role -> Seq(Frame)] /\ Peer(p) \in Role
    BY Peers DEF TypeInv
  <2>2. PICK fs : fs = RelayFrames(end[p], <<>>, 0)
    OBVIOUS
  <2>3. <<>> \in Seq(Relayed) /\ Len(<<>>) = 0
    OBVIOUS
  <2>4. fs \in Seq(Frame) /\ Len(fs) = 0
    BY ZenonT(60), <2>1, <2>2, <2>3, FramesTyped
  <2>5. fs = <<>>
    BY <2>4
  <2>6. net[Peer(p)] \o <<>> = net[Peer(p)]
    BY <2>1, ConcatEmptySeq
  <2>7. net = [net EXCEPT ![Peer(p)] = @ \o RelayFrames(end[p], <<>>, 0)]
    BY <2>1, <2>2, <2>5, <2>6
  <2>8. QED
    BY <2>7, NothingSent DEF Local
<1>4. QED
  BY <1>1, <1>2, <1>3, NothingSent DEF Stretch

LEMMA SilentStretch ==
  ASSUME TypeInv, NEW p \in Role, Alive(p), UNCHANGED <<slot, roomGone, net, counts>>,
         NEW e, GoesOn(e, end[p]), e.inq = end[p].inq, end' = [end EXCEPT ![p] = e]
  PROVE  Stretch(p)
<1>1. UNCHANGED <<slot, roomGone, net, texts, heard, offers, faults, ids>>
  BY DEF counts
<1>2. QED
  BY <1>1, SkippedStretch

\* The buffer empties.
LEMMA DrainShape ==
  ASSUME TypeInv, NEW p \in Role, Drain(p)
  PROVE  Stretch(p)
<1>1. Alive(p) /\ end[p] \in End /\ end[p].full
  BY DEF Drain, TypeInv
<1>2. PICK e \in End : e = end[p] /\ e.full /\ e.st \notin Over
  BY <1>1 DEF Alive, Over
<1>3. PICK n : n = [e EXCEPT !.full = FALSE]
  OBVIOUS
<1>4. n \in End /\ n.inq = e.inq /\ n.st = e.st /\ n.rec = e.rec
  BY <1>3 DEF End
<1>5. ~AtEase(e)
  BY <1>2 DEF AtEase
<1>6. GoesOn(n, e)
  BY <1>2, <1>4, <1>5 DEF GoesOn, Locked, Stored
<1>7. end' = [end EXCEPT ![p] = n] /\ UNCHANGED <<slot, roomGone, net, counts>>
  BY <1>2, <1>3 DEF Drain
<1>8. QED
  BY <1>1, <1>2, <1>4, <1>6, <1>7, SilentStretch

LEMMA SayShape ==
  ASSUME TypeInv, NEW p \in Role, Say(p)
  PROVE  Stretch(p) \/ Stops(p)
<1>1. Alive(p) /\ end[p] \in End
  BY DEF Say, Alive, TypeInv
<1>2. UNCHANGED <<slot, roomGone, heard, offers, faults, ids>>
  BY DEF Say
<1>3. CASE end[p].kind # "active"
  BY <1>1, <1>2, <1>3, StopsBy DEF Say
<1>4. CASE end[p].kind = "active"
  <2>1. /\ Step(p, end[p], <<"msg">>) /\ texts[p] < MaxTexts
        /\ texts' = [texts EXCEPT ![p] = @ + (IF CanSend(end[p]) THEN 1 ELSE 0)]
    BY <1>4 DEF Say
  <2>2. Turn(end[p], end[p])
    BY <1>1, SmallTurns DEF Alive, Over
  <2>3. heard' = [heard EXCEPT ![p] = heard[p]] /\ offers' \in [Role -> 0..MaxOffers]
    BY <1>2, NoHearing DEF TypeInv
  <2>4. CASE CanSend(end[p])
    <3>1. texts' = [texts EXCEPT ![p] = @ + 1]
      BY <2>1, <2>4
    <3>2. Kinds(<<"msg">>) /\ PlainKinds(<<"msg">>)
      BY OneSent DEF Relayed, Envelope, PlainKind
    <3>3. end' = [end EXCEPT ![p] = Counted(end[p], <<"msg">>)] /\ Emit(p, end[p], <<"msg">>, 0)
      BY <2>1 DEF Step
    <3>4. Local(p, Counted(end[p], <<"msg">>), <<"msg">>, 0) /\ Counted(end[p], <<"msg">>).inq = end[p].inq
      BY ZenonT(60), <1>1, <2>2, <3>2, <3>3, LocalStep DEF Turn
    <3>5. Passes(Counted(end[p], <<"msg">>), end[p], heard[p], heard[p])
      BY <3>4 DEF Passes
    <3>6. QED
      BY <1>1, <1>2, <2>1, <2>3, <2>4, <3>1, <3>4, <3>5 DEF Stretch
  <2>5. CASE ~CanSend(end[p])
    <3>1. texts' = texts
      <4>1. texts[p] + 0 = texts[p] /\ texts = [texts EXCEPT ![p] = texts[p]]
        BY DEF TypeInv
      <4>2. QED
        BY <2>1, <2>5, <4>1
    <3>2. end' = [end EXCEPT ![p] = end[p]] /\ net' = net
      BY <2>1, <2>5 DEF Step, Counted, Emit
    <3>3. QED
      BY <1>1, <1>2, <2>2, <3>1, <3>2, SkippedStretch DEF Turn
  <2>6. QED
    BY <2>4, <2>5
<1>5. QED
  BY <1>3, <1>4

LEMMA OfferFileShape ==
  ASSUME TypeInv, NEW p \in Role, OfferFile(p)
  PROVE  Stretch(p)
<1>1. Alive(p) /\ end[p] \in End
  BY DEF OfferFile, Alive, TypeInv
<1>2. Turn([end[p] EXCEPT !.offering = TRUE], end[p])
  BY <1>1, SmallTurns DEF Alive, Over
<1>3. Kinds(<<"file_offer">>) /\ PlainKinds(<<"file_offer">>) /\ NoTexts(<<"file_offer">>)
  BY OneSent DEF Relayed, Envelope, PlainKind
<1>4. PICK e : e = [end[p] EXCEPT !.offering = TRUE]
  OBVIOUS
<1>5. end' = [end EXCEPT ![p] = Counted(e, <<"file_offer">>)] /\ Emit(p, e, <<"file_offer">>, 0)
  BY <1>4 DEF OfferFile, Step
<1>6. Local(p, Counted(e, <<"file_offer">>), <<"file_offer">>, 0) /\ Counted(e, <<"file_offer">>).inq = e.inq
  <2>1. e \in End /\ GoesOn(e, end[p]) /\ SendsAs(e, end[p])
    BY <1>2, <1>4 DEF Turn, GoesOn
  <2>2. QED
    BY ZenonT(60), <1>1, <1>3, <1>5, <2>1, LocalStep
<1>7. Passes(Counted(e, <<"file_offer">>), end[p], heard[p], heard[p])
  BY <1>2, <1>4, <1>6 DEF Passes, Turn
<1>8. heard' = [heard EXCEPT ![p] = heard[p]] /\ texts' = texts /\ UNCHANGED <<slot, roomGone, faults, ids>>
  BY NoHearing DEF OfferFile
<1>9. offers' \in [Role -> 0..MaxOffers]
  <2>1. offers[p] \in 0..MaxOffers /\ offers[p] < MaxOffers /\ offers \in [Role -> 0..MaxOffers]
    BY DEF OfferFile, TypeInv
  <2>2. offers[p] + 1 \in 0..MaxOffers
    BY <2>1
  <2>3. QED
    BY <2>1, <2>2 DEF OfferFile
<1>10. QED
  BY <1>1, <1>3, <1>6, <1>7, <1>8, <1>9 DEF Stretch

LEMMA DeclineFileShape ==
  ASSUME TypeInv, NEW p \in Role, DeclineFile(p)
  PROVE  Stretch(p)
<1>1. Alive(p) /\ end[p] \in End
  BY DEF DeclineFile, TypeInv
<1>2. Turn([end[p] EXCEPT !.incoming = FALSE], end[p])
  BY <1>1, SmallTurns DEF Alive, Over
<1>3. Kinds(<<"file_decline">>) /\ PlainKinds(<<"file_decline">>) /\ NoTexts(<<"file_decline">>)
  BY OneSent DEF Relayed, Envelope, PlainKind
<1>4. QED
  BY <1>1, <1>2, <1>3, TurnStretch DEF DeclineFile, Step

LEMMA UpgradeShape ==
  ASSUME TypeInv, NEW p \in Role, StartUpgrade(p) \/ UpgradeFails(p) \/ UpgradeSucceeds(p)
  PROVE  Stretch(p)
<1>1. Alive(p) /\ end[p] \in End /\ end \in [Role -> End] /\ end[p].st \notin Over
  BY DEF StartUpgrade, UpgradeFails, UpgradeSucceeds, Continues, Alive, TypeInv, Over
<1>2. PICK e \in End : e = end[p]
  BY <1>1
<1>3. ASSUME NEW t \in {"ACTIVE", "UPGRADING_LOCAL"}, NEW u \in {"none", "passkey", "notifying"}
      PROVE  Turn([e EXCEPT !.st = t, !.up = u], e)
  <2>1. PICK a : a = [e EXCEPT !.st = t]
    OBVIOUS
  <2>2. Turn(a, e) /\ a \in End /\ a.st \notin Over
    BY <1>1, <1>2, <2>1, SmallTurns, TurnAlive
  <2>3. Turn([a EXCEPT !.up = u], a)
    BY <2>2, SmallTurns
  <2>4. [e EXCEPT !.st = t, !.up = u] = [a EXCEPT !.up = u]
    BY <2>1
  <2>5. QED
    BY <2>2, <2>3, <2>4, TurnTurn
<1>4. CASE StartUpgrade(p)
  <2>1. end' = [end EXCEPT ![p] = [e EXCEPT !.st = "UPGRADING_LOCAL", !.up = "passkey"]]
    BY <1>1, <1>2, <1>4 DEF StartUpgrade
  <2>2. QED
    BY <1>1, <1>2, <1>3, <1>4, <2>1, SilentStretch DEF StartUpgrade, Turn
<1>5. CASE UpgradeFails(p)
  <2>1. end' = [end EXCEPT ![p] = [e EXCEPT !.st = "ACTIVE", !.up = "none"]]
    BY <1>1, <1>2, <1>5 DEF UpgradeFails
  <2>2. QED
    BY <1>1, <1>2, <1>3, <1>5, <2>1, SilentStretch DEF UpgradeFails, Turn
<1>6. CASE UpgradeSucceeds(p)
  <2>1. PICK a : a = Persisted(e, FALSE)
    OBVIOUS
  <2>2. Turn(a, e) /\ a \in End /\ a.st \notin Over
    BY <1>1, <1>2, <2>1, PersistedTurn, TurnAlive
  <2>3. PICK b : b = [a EXCEPT !.mode = "PRF"]
    OBVIOUS
  <2>4. Turn(b, a) /\ b \in End /\ b.st \notin Over
    BY <2>2, <2>3, SmallTurns, TurnAlive
  <2>5. PICK c : c = [b EXCEPT !.st = "ACTIVE"]
    OBVIOUS
  <2>6. Turn(c, b) /\ c \in End /\ c.st \notin Over
    BY <2>4, <2>5, SmallTurns, TurnAlive
  <2>7. PICK d : d = [c EXCEPT !.up = "notifying"]
    OBVIOUS
  <2>8. Turn(d, c)
    BY <2>6, <2>7, SmallTurns
  <2>9. Turn(d, e)
    BY <2>2, <2>4, <2>6, <2>8, TurnTurn
  <2>10. d = [a EXCEPT !.mode = "PRF", !.st = "ACTIVE", !.up = "notifying"]
    BY <2>3, <2>5, <2>7
  <2>11. end' = [end EXCEPT ![p] = d]
    BY <1>1, <1>2, <1>6, <2>1, <2>10 DEF UpgradeSucceeds
  <2>12. QED
    BY <1>1, <1>2, <1>6, <2>9, <2>11, SilentStretch DEF UpgradeSucceeds, Turn
<1>7. QED
  BY <1>4, <1>5, <1>6

\* The frames that cancel the open offers.
LEMMA CancelKinds ==
  ASSUME NEW e
  PROVE  /\ Kinds(CancelFrames(e)) /\ PlainKinds(CancelFrames(e)) /\ NoTexts(CancelFrames(e))
         /\ Kinds(StartFrames(e)) /\ PlainKinds(StartFrames(e)) /\ NoTexts(StartFrames(e))
<1>1. PICK a : a = IF e.offering THEN <<"file_cancel">> ELSE <<>>
  OBVIOUS
<1>2. PICK b : b = IF e.incoming THEN <<"file_decline">> ELSE <<>>
  OBVIOUS
<1>3. Kinds(a) /\ PlainKinds(a) /\ NoTexts(a) /\ Kinds(b) /\ PlainKinds(b) /\ NoTexts(b)
  BY <1>1, <1>2, OneSent, NothingSent DEF Relayed, Envelope, PlainKind
<1>4. CancelFrames(e) = a \o b
  BY <1>1, <1>2 DEF CancelFrames
<1>5. Kinds(CancelFrames(e)) /\ PlainKinds(CancelFrames(e)) /\ NoTexts(CancelFrames(e))
  BY <1>3, <1>4, MoreSent
<1>6. QED
  BY <1>5, NothingSent DEF StartFrames

LEMMA UpgradeNotifiesShape ==
  ASSUME TypeInv, NEW p \in Role, UpgradeNotifies(p)
  PROVE  Stretch(p)
<1>1. Alive(p) /\ end[p] \in End /\ end[p].st \notin Over
  BY DEF UpgradeNotifies, Continues, Alive, TypeInv, Over
<1>2. PICK e : e = [end[p] EXCEPT !.up = "none"]
  OBVIOUS
<1>3. PICK out : out = <<"MODE_UPGRADED">> \o (IF e.peerMode = "PRF" THEN StartFrames(e) ELSE <<>>)
  OBVIOUS
<1>4. PICK n : n = IF e.peerMode = "PRF" THEN StartedRekey(p, e, "up") ELSE e
  OBVIOUS
<1>5. end' = [end EXCEPT ![p] = Counted(n, out)] /\ Emit(p, e, out, 0)
      /\ UNCHANGED <<slot, roomGone, texts, heard, offers, faults, ids>>
  BY <1>2, <1>3, <1>4 DEF UpgradeNotifies
<1>6. Turn(e, end[p]) /\ e \in End /\ e.st \notin Over
  BY <1>1, <1>2, SmallTurns, TurnAlive
<1>7. Turn(n, end[p])
  BY <1>4, <1>6, StartedTurn, TurnTurn
<1>8. Kinds(out) /\ PlainKinds(out) /\ NoTexts(out)
  <2>1. /\ Kinds(<<"MODE_UPGRADED">>) /\ PlainKinds(<<"MODE_UPGRADED">>) /\ NoTexts(<<"MODE_UPGRADED">>)
    BY OneSent DEF Relayed, ModeKind, PlainKind
  <2>2. PICK b : b = IF e.peerMode = "PRF" THEN StartFrames(e) ELSE <<>>
    OBVIOUS
  <2>3. Kinds(b) /\ PlainKinds(b) /\ NoTexts(b)
    BY <2>2, CancelKinds, NothingSent
  <2>4. QED
    BY <1>3, <2>1, <2>2, <2>3, MoreSent
<1>9. QED
  BY <1>1, <1>5, <1>6, <1>7, <1>8, SkippingStretch

LEMMA SendRekeyInitShape ==
  ASSUME TypeInv, NEW p \in Role, NEW pc \in {"up", "hp"}, SendRekeyInit(p, pc)
  PROVE  Stretch(p)
<1>1. Alive(p) /\ end[p] \in End /\ end[p].st \notin Over
  BY DEF SendRekeyInit, Continues, Alive, TypeInv, Over
<1>2. PICK e \in End : e = end[p]
  BY <1>1
<1>3. PICK a : a = [e EXCEPT ![pc] = "none"]
  OBVIOUS
<1>4. Turn(a, e) /\ a \in End /\ a.st \notin Over
  <2>1. Turn([e EXCEPT !.up = "none"], e) /\ Turn([e EXCEPT !.hp = "none"], e)
    BY <1>1, <1>2, SmallTurns
  <2>2. Turn(a, e)
    BY <1>3, <2>1
  <2>3. QED
    BY <2>2, TurnAlive
<1>5. PICK b : b = [a EXCEPT !.pendingPair = TRUE]
  OBVIOUS
<1>6. Turn(b, a)
  BY <1>4, <1>5, SmallTurns
<1>7. Turn(b, e)
  BY <1>4, <1>6, TurnTurn
<1>8. b = [e EXCEPT ![pc] = "none", !.pendingPair = TRUE]
  BY <1>3, <1>5
<1>9. end' = [end EXCEPT ![p] = Counted(b, <<"REKEY_INIT">>)] /\ Emit(p, b, <<"REKEY_INIT">>, 0)
  BY <1>2, <1>8 DEF SendRekeyInit, Step
<1>10. Kinds(<<"REKEY_INIT">>) /\ PlainKinds(<<"REKEY_INIT">>) /\ NoTexts(<<"REKEY_INIT">>)
  BY OneSent DEF Relayed, ModeKind, PlainKind
<1>11. QED
  BY <1>1, <1>2, <1>7, <1>9, <1>10, SkippingStretch DEF SendRekeyInit

\* A new key: the counters start again.
LEMMA RekeyedTyped ==
  ASSUME NEW e \in End, e.st \notin Over
  PROVE  LET n == Rekeyed(e)
         IN /\ GoesOn(n, e) /\ n.inq = e.inq /\ n.link = e.link /\ n.full = e.full
            /\ n.key = 1 /\ n.sendCtr = 0 /\ n.recvCtr = 0 /\ n.hp = "commit"
            /\ n.st = e.st /\ n.kind = e.kind /\ n.mode = e.mode /\ n.peerMode = e.peerMode
            /\ n.rekeyInFlight = e.rekeyInFlight /\ n.pendingPair = e.pendingPair
            /\ n.offering = e.offering /\ n.incoming = e.incoming /\ n.up = e.up
<1>1. PICK n : n = [e EXCEPT !.key = 1, !.sendCtr = 0, !.recvCtr = 0, !.hp = "commit"]
  OBVIOUS
<1>2. n \in End
  BY <1>1 DEF End
<1>3. /\ n.inq = e.inq /\ n.link = e.link /\ n.full = e.full /\ n.gap = e.gap /\ n.timer = e.timer /\ n.rec = e.rec
      /\ n.key = 1 /\ n.sendCtr = 0 /\ n.recvCtr = 0 /\ n.hp = "commit"
      /\ n.st = e.st /\ n.kind = e.kind /\ n.mode = e.mode /\ n.peerMode = e.peerMode
      /\ n.rekeyInFlight = e.rekeyInFlight /\ n.pendingPair = e.pendingPair
      /\ n.offering = e.offering /\ n.incoming = e.incoming /\ n.up = e.up
  BY <1>1 DEF End
<1>4. GoesOn(n, e)
  BY <1>2, <1>3 DEF GoesOn, AtEase, Locked, Stored
<1>5. n = Rekeyed(e)
  BY <1>1 DEF Rekeyed
<1>6. QED
  BY <1>3, <1>4, <1>5

LEMMA AnswerRekeyInitShape ==
  ASSUME TypeInv, NEW p \in Role, AnswerRekeyInit(p)
  PROVE  Stretch(p)
<1>1. Alive(p) /\ end[p] \in End /\ end[p].st \notin Over /\ end \in [Role -> End]
  BY DEF AnswerRekeyInit, Continues, Alive, TypeInv, Over
<1>2. PICK e \in End : e = end[p]
  BY <1>1
<1>3. UNCHANGED <<slot, roomGone, texts, heard, offers, faults, ids>>
  BY DEF AnswerRekeyInit
<1>4. CASE ~CanSend(e)
  <2>1. end' = [end EXCEPT ![p] = [e EXCEPT !.hp = "none"]] /\ net' = net
    BY <1>1, <1>2, <1>4 DEF AnswerRekeyInit
  <2>2. Turn([e EXCEPT !.hp = "none"], e)
    BY <1>1, <1>2, SmallTurns
  <2>3. QED
    BY <1>1, <1>2, <1>3, <2>1, <2>2, SkippedStretch DEF Turn
<1>5. CASE CanSend(e)
  <2>1. /\ end' = [end EXCEPT ![p] = Rekeyed(Counted(e, <<"REKEY_ACK">>))]
        /\ Emit(p, e, <<"REKEY_ACK">>, 0)
    BY <1>2, <1>5 DEF AnswerRekeyInit
  <2>2. Kinds(<<"REKEY_ACK">>) /\ PlainKinds(<<"REKEY_ACK">>) /\ NoTexts(<<"REKEY_ACK">>)
    BY OneSent DEF Relayed, ModeKind, PlainKind
  <2>3. PICK c \in End : c = Counted(e, <<"REKEY_ACK">>) /\ Alike(c, e)
    BY <2>2, CountedTyped DEF Kinds
  <2>4. GoesOn(c, e) /\ c.st \notin Over /\ c.inq = e.inq
    BY <1>1, <1>2, <2>3 DEF Alike, GoesOn, AtEase, Locked
  <2>5. PICK n : n = Rekeyed(c)
    OBVIOUS
  <2>6. GoesOn(n, c) /\ n.inq = c.inq
    BY <2>4, <2>5, RekeyedTyped
  <2>7. GoesOn(n, e) /\ n.inq = e.inq
    BY <2>4, <2>6 DEF GoesOn
  <2>8. Local(p, n, <<"REKEY_ACK">>, 0)
    BY <1>2, <2>1, <2>2, <2>3, <2>5, <2>7 DEF Local, Emit
  <2>9. Passes(n, end[p], heard[p], heard[p])
    BY <1>2, <2>7 DEF Passes
  <2>10. /\ heard' = [heard EXCEPT ![p] = heard[p]] /\ texts' = texts
         /\ offers' \in [Role -> 0..MaxOffers] /\ UNCHANGED <<slot, roomGone, faults, ids>>
    BY <1>3, NoHearing DEF TypeInv
  <2>11. QED
    BY <1>1, <2>2, <2>8, <2>9, <2>10 DEF Stretch
<1>6. QED
  BY <1>4, <1>5

LEMMA TakeRekeyAckShape ==
  ASSUME TypeInv, NEW p \in Role, TakeRekeyAck(p)
  PROVE  Stretch(p)
<1>1. Alive(p) /\ end[p] \in End /\ end[p].st \notin Over
  BY DEF TakeRekeyAck, Continues, Alive, TypeInv, Over
<1>2. PICK e : e = [end[p] EXCEPT !.pendingPair = FALSE]
  OBVIOUS
<1>3. Turn(e, end[p]) /\ e \in End /\ e.st \notin Over
  BY <1>1, <1>2, SmallTurns, TurnAlive
<1>4. GoesOn(Rekeyed(e), e) /\ Rekeyed(e).inq = e.inq
  BY <1>3, RekeyedTyped
<1>5. GoesOn(Rekeyed(e), end[p]) /\ Rekeyed(e).inq = end[p].inq
  BY <1>3, <1>4 DEF Turn, GoesOn
<1>6. end' = [end EXCEPT ![p] = Rekeyed(e)]
  BY <1>2 DEF TakeRekeyAck
<1>7. QED
  BY <1>1, <1>5, <1>6, SilentStretch DEF TakeRekeyAck

LEMMA FinishCommitShape ==
  ASSUME TypeInv, NEW p \in Role, FinishCommit(p)
  PROVE  Stretch(p)
<1>1. Alive(p) /\ end[p] \in End /\ end[p].st \notin Over
  BY DEF FinishCommit, Continues, Alive, TypeInv, Over
<1>2. PICK a : a = IF Stored(end[p]) THEN Persisted(end[p], TRUE) ELSE end[p]
  OBVIOUS
<1>3. Turn(a, end[p]) /\ a \in End /\ a.st \notin Over
  BY <1>1, <1>2, PersistedTurn, SmallTurns, TurnAlive
<1>4. PICK b : b = [a EXCEPT !.rekeyInFlight = FALSE]
  OBVIOUS
<1>5. Turn(b, a) /\ b \in End /\ b.st \notin Over
  BY <1>3, <1>4, SmallTurns, TurnAlive
<1>6. PICK c : c = [b EXCEPT !.st = "ACTIVE"]
  OBVIOUS
<1>7. Turn(c, b) /\ c \in End /\ c.st \notin Over
  BY <1>5, <1>6, SmallTurns, TurnAlive
<1>8. PICK d : d = [c EXCEPT !.hp = "none"]
  OBVIOUS
<1>9. Turn(d, c)
  BY <1>7, <1>8, SmallTurns
<1>10. Turn(d, end[p])
  BY <1>3, <1>5, <1>7, <1>9, TurnTurn
<1>11. d = [a EXCEPT !.rekeyInFlight = FALSE, !.st = "ACTIVE", !.hp = "none"]
  BY <1>4, <1>6, <1>8
<1>12. end' = [end EXCEPT ![p] = Counted(d, <<"REKEY_DONE">>)] /\ Emit(p, d, <<"REKEY_DONE">>, 0)
  BY <1>2, <1>11 DEF FinishCommit, Step
<1>13. Kinds(<<"REKEY_DONE">>) /\ PlainKinds(<<"REKEY_DONE">>) /\ NoTexts(<<"REKEY_DONE">>)
  BY OneSent DEF Relayed, ModeKind, PlainKind
<1>14. QED
  BY <1>1, <1>10, <1>12, <1>13, TurnStretch DEF FinishCommit

LEMMA FinishResumeShape ==
  ASSUME TypeInv, NEW p \in Role, FinishResume(p)
  PROVE  Stretch(p)
<1>1. /\ Alive(p) /\ end[p] \in End /\ end[p].st \notin Over /\ end[p].hp = "resumeAck"
      /\ end[p].peerResume \in Nat
  BY DEF FinishResume, Continues, Alive, TypeInv, Over, End
<1>2. PICK e \in End : e = end[p]
  BY <1>1
<1>3. PICK n : n = [e EXCEPT !.hp = "none", !.st = "ACTIVE", !.peerResume = 0]
  OBVIOUS
<1>4. n \in End
  BY ZenonT(60), <1>3 DEF End, SessionState
<1>5. n.inq = e.inq /\ n.key = e.key /\ n.sendCtr = e.sendCtr /\ n.link = e.link /\ n.full = e.full /\ n.st = "ACTIVE"
  BY <1>3 DEF End
<1>6. Turn(n, e)
  BY <1>1, <1>2, <1>4, <1>5 DEF Turn, GoesOn, SendsAs, AtEase, Over, Locked
<1>7. /\ end' = [end EXCEPT ![p] = Counted(n, <<"resume_ack">>)]
      /\ Emit(p, n, <<"resume_ack">>, end[p].peerResume)
  BY <1>2, <1>3 DEF FinishResume
<1>8. Kinds(<<"resume_ack">>) /\ NoTexts(<<"resume_ack">>) /\ ~AtEase(end[p])
  BY <1>1, OneSent DEF Relayed, Envelope, AtEase
<1>9. QED
  BY <1>1, <1>2, <1>6, <1>7, <1>8, SkippingStretch DEF FinishResume

LEMMA TookGoesOn ==
  ASSUME NEW e \in End, e.st \notin Over, e.inq # <<>>
  PROVE  /\ GoesOn(Took(e), e) /\ SendsAs(Took(e), e) /\ Took(e).inq = Tail(e.inq)
         /\ Took(e) \in End /\ Took(e).st \notin Over
BY TookTyped DEF GoesOn, SendsAs, AtEase, Locked

\* A handler takes a frame that is no text.
LEMMA TakeStretch ==
  ASSUME TypeInv, NEW p \in Role, Alive(p), UNCHANGED <<slot, roomGone, counts>>,
         end[p].inq # <<>>, Head(end[p].inq).type # "msg",
         NEW e \in End, GoesOn(e, end[p]), SendsAs(e, end[p]), e.inq = Tail(end[p].inq),
         NEW out, Kinds(out), AtEase(end[p]) => PlainKinds(out), NoTexts(out), Step(p, e, out)
  PROVE  Stretch(p)
<1>1. /\ heard' = [heard EXCEPT ![p] = heard[p]] /\ texts' = texts /\ offers' = offers
      /\ UNCHANGED <<slot, roomGone, faults, ids>>
  BY NoHearing DEF counts
<1>2. Passes(e, end[p], heard[p], heard[p])
  BY DEF Passes
<1>3. end' = [end EXCEPT ![p] = Counted(e, out)] /\ Emit(p, e, out, 0)
  BY DEF Step
<1>4. QED
  BY <1>1, <1>2, <1>3, StretchBy

LEMMA TakeTurn ==
  ASSUME NEW e \in End, e.st \notin Over, e.inq # <<>>, NEW n, Turn(n, Took(e))
  PROVE  n \in End /\ GoesOn(n, e) /\ SendsAs(n, e) /\ n.inq = Tail(e.inq)
BY TookGoesOn DEF Turn, GoesOn, SendsAs

LEMMA FramesFacts ==
  ASSUME TypeInv, NEW p \in Role, NEW type, Frames(p, type)
  PROVE  /\ Alive(p) /\ end[p] \in End /\ end[p].st \notin Over /\ end[p].inq # <<>>
         /\ Head(end[p].inq).type = type
         /\ Took(end[p]) \in End /\ Took(end[p]).st \notin Over
<1>1. /\ Alive(p) /\ end[p] \in End /\ end[p].st \notin Over /\ end[p].inq # <<>>
      /\ Head(end[p].inq).type = type
  BY DEF Frames, Handles, TypeInv, Alive, Over
<1>2. QED
  BY <1>1, TookGoesOn

LEMMA RejectShape ==
  ASSUME TypeInv, NEW p \in Role, RejectFrame(p)
  PROVE  Stops(p)
BY StopsBy DEF RejectFrame, Handles, counts

LEMMA HandleTextShape ==
  ASSUME TypeInv, NEW p \in Role, HandleText(p)
  PROVE  Stretch(p)
<1>1. /\ Alive(p) /\ end[p] \in End /\ end[p].st \notin Over /\ end[p].inq # <<>>
      /\ Head(end[p].inq).type = "msg"
  BY FramesFacts DEF HandleText
<1>2. /\ GoesOn(Took(end[p]), end[p]) /\ SendsAs(Took(end[p]), end[p])
      /\ Took(end[p]).inq = Tail(end[p].inq) /\ Took(end[p]) \in End
  BY <1>1, TookGoesOn
<1>3. end' = [end EXCEPT ![p] = Counted(Took(end[p]), <<>>)] /\ Emit(p, Took(end[p]), <<>>, 0)
  BY DEF HandleText, Step
<1>4. Passes(Took(end[p]), end[p], heard[p], heard[p] + 1)
  BY <1>1, <1>2 DEF Passes
<1>5. heard' = [heard EXCEPT ![p] = heard[p] + 1] /\ texts' = texts /\ offers' = offers
  BY DEF HandleText
<1>6. UNCHANGED <<slot, roomGone, faults, ids>>
  BY DEF HandleText
<1>7. PICK e \in End : e = Took(end[p])
  BY <1>2
<1>8. QED
  BY <1>1, <1>2, <1>3, <1>4, <1>5, <1>6, <1>7, NothingSent, StretchBy

LEMMA HandleResumeShape ==
  ASSUME TypeInv, NEW p \in Role, HandleResume(p)
  PROVE  Stretch(p) \/ Stops(p)
<1>1. /\ Alive(p) /\ end[p] \in End /\ end[p].st \notin Over /\ end[p].inq # <<>>
      /\ Head(end[p].inq).type = "resume" /\ UNCHANGED <<slot, roomGone, counts>>
  BY FramesFacts DEF HandleResume
<1>2. CASE end[p].st # "PEER_RECONNECTING"
  BY <1>1, <1>2, StopsBy DEF HandleResume, counts
<1>3. CASE end[p].st = "PEER_RECONNECTING"
  <2>1. PICK i \in Nat : i = Head(end[p].inq).id
    BY <1>1, InqTyped, TextsHeadTail DEF Frame
  <2>2. PICK e \in End : e = Took(end[p])
    BY <1>1, TookGoesOn
  <2>3. PICK n : n = [e EXCEPT !.hp = "resumeAck", !.peerResume = i]
    OBVIOUS
  <2>4. n \in End
    BY <2>3 DEF End
  <2>5. n.inq = e.inq /\ n.key = e.key /\ n.sendCtr = e.sendCtr /\ n.link = e.link /\ n.full = e.full /\ n.st = e.st
    BY <2>3 DEF End
  <2>9. e.st = "PEER_RECONNECTING"
    BY <1>1, <1>3, <2>2, TookTyped
  <2>6. GoesOn(n, end[p]) /\ SendsAs(n, end[p]) /\ n.inq = Tail(end[p].inq)
    BY <1>1, <1>3, <2>2, <2>4, <2>5, <2>9, TookGoesOn DEF GoesOn, SendsAs, AtEase, Locked
  <2>7. Step(p, n, <<>>)
    BY <1>3, <2>1, <2>2, <2>3 DEF HandleResume
  <2>8. QED
    BY <1>1, <2>4, <2>6, <2>7, NothingSent, TakeStretch
<1>4. QED
  BY <1>2, <1>3

LEMMA HandleResumeAckShape ==
  ASSUME TypeInv, NEW p \in Role, HandleResumeAck(p)
  PROVE  Stretch(p) \/ Stops(p)
<1>1. /\ Alive(p) /\ end[p] \in End /\ end[p].st \notin Over /\ end[p].inq # <<>>
      /\ Head(end[p].inq).type = "resume_ack" /\ UNCHANGED <<slot, roomGone, counts>>
  BY FramesFacts DEF HandleResumeAck
<1>2. CASE end[p].kind # "resuming" \/ Head(end[p].inq).id # end[p].resumeId
  BY <1>1, <1>2, StopsBy DEF HandleResumeAck, counts
<1>3. CASE ~(end[p].kind # "resuming" \/ Head(end[p].inq).id # end[p].resumeId)
  <2>1. PICK e \in End : e = Took(end[p])
    BY <1>1, TookGoesOn
  <2>2. PICK n : n = [e EXCEPT !.kind = "active", !.st = "ACTIVE", !.timer = FALSE, !.resumeId = 0]
    OBVIOUS
  <2>3. n \in End
    BY ZenonT(60), <2>2 DEF End, SessionState
  <2>4. n.inq = e.inq /\ n.key = e.key /\ n.sendCtr = e.sendCtr /\ n.link = e.link /\ n.full = e.full /\ n.st = "ACTIVE"
    BY <2>2 DEF End
  <2>5. GoesOn(n, end[p]) /\ SendsAs(n, end[p]) /\ n.inq = Tail(end[p].inq)
    BY <1>1, <1>3, <2>1, <2>3, <2>4, TookGoesOn DEF GoesOn, SendsAs, AtEase, Over, Locked
  <2>6. Step(p, n, <<>>)
    BY <1>3, <2>1, <2>2 DEF HandleResumeAck, BackToActive
  <2>7. QED
    BY <1>1, <2>3, <2>5, <2>6, NothingSent, TakeStretch
<1>4. QED
  BY <1>2, <1>3

LEMMA HandleModeUpgradedShape ==
  ASSUME TypeInv, NEW p \in Role, HandleModeUpgraded(p)
  PROVE  Stretch(p)
<1>1. /\ Alive(p) /\ end[p] \in End /\ end[p].st \notin Over /\ end[p].inq # <<>>
      /\ Head(end[p].inq).type = "MODE_UPGRADED" /\ UNCHANGED <<slot, roomGone, counts>>
      /\ Took(end[p]) \in End /\ Took(end[p]).st \notin Over
  BY FramesFacts DEF HandleModeUpgraded
<1>2. PICK e : e = [Took(end[p]) EXCEPT !.peerMode = "PRF"]
  OBVIOUS
<1>3. Turn(e, Took(end[p])) /\ e \in End /\ e.st \notin Over
  BY <1>1, <1>2, SmallTurns, TurnAlive
<1>4. CASE e.mode = "PRF"
  <2>1. PICK n : n = StartedRekey(p, e, "hp")
    OBVIOUS
  <2>2. Turn(n, Took(end[p]))
    BY <1>3, <2>1, StartedTurn, TurnTurn
  <2>3. Step(p, n, StartFrames(e))
    BY <1>2, <1>4, <2>1 DEF HandleModeUpgraded
  <2>4. n \in End /\ GoesOn(n, end[p]) /\ SendsAs(n, end[p]) /\ n.inq = Tail(end[p].inq)
    BY <1>1, <2>2, TakeTurn
  <2>5. Kinds(StartFrames(e)) /\ PlainKinds(StartFrames(e)) /\ NoTexts(StartFrames(e))
    BY CancelKinds
  <2>6. QED
    BY <1>1, <2>3, <2>4, <2>5, TakeStretch
<1>5. CASE e.mode # "PRF"
  <2>1. Step(p, e, <<>>)
    BY <1>2, <1>5 DEF HandleModeUpgraded
  <2>2. e \in End /\ GoesOn(e, end[p]) /\ SendsAs(e, end[p]) /\ e.inq = Tail(end[p].inq)
    BY <1>1, <1>3, TakeTurn
  <2>3. QED
    BY <1>1, <2>1, <2>2, NothingSent, TakeStretch
<1>6. QED
  BY <1>4, <1>5

LEMMA HandleRekeyShape ==
  ASSUME TypeInv, NEW p \in Role, HandleRekeyInit(p) \/ HandleRekeyAck(p) \/ HandleRekeyDone(p)
  PROVE  Stretch(p) \/ Stops(p)
<1>1. PICK type \in {"REKEY_INIT", "REKEY_ACK", "REKEY_DONE"} : Frames(p, type)
  BY DEF HandleRekeyInit, HandleRekeyAck, HandleRekeyDone
<1>2. /\ Alive(p) /\ end[p] \in End /\ end[p].st \notin Over /\ end[p].inq # <<>>
      /\ Head(end[p].inq).type # "msg"
      /\ Took(end[p]) \in End /\ Took(end[p]).st \notin Over
  BY <1>1, FramesFacts
<1>3. UNCHANGED <<slot, roomGone, counts>>
  BY DEF HandleRekeyInit, HandleRekeyAck, HandleRekeyDone
<1>4. PICK t \in End : t = Took(end[p])
  BY <1>2
<1>5. CASE HandleRekeyInit(p) /\ p = "joiner"
  <2>1. PICK a : a = EnterRekeying(t)
    OBVIOUS
  <2>2. Turn(a, t) /\ a \in End /\ a.st \notin Over
    BY <1>2, <1>4, <2>1, RekeyingTurn, TurnAlive
  <2>3. PICK n : n = [a EXCEPT !.hp = "rekeyInit"]
    OBVIOUS
  <2>4. Turn(n, a)
    BY <2>2, <2>3, SmallTurns
  <2>5. Turn(n, t)
    BY <2>2, <2>4, TurnTurn
  <2>6. n \in End /\ GoesOn(n, end[p]) /\ SendsAs(n, end[p]) /\ n.inq = Tail(end[p].inq)
    BY <1>2, <1>4, <2>5, TakeTurn
  <2>7. Step(p, n, CancelFrames(t))
    BY <1>4, <1>5, <2>1, <2>3 DEF HandleRekeyInit
  <2>8. QED
    BY <1>2, <1>3, <2>6, <2>7, CancelKinds, TakeStretch
<1>6. CASE HandleRekeyAck(p) /\ ~(p # "initiator" \/ ~end[p].pendingPair)
  <2>1. PICK n : n = [t EXCEPT !.hp = "rekeyAck"]
    OBVIOUS
  <2>2. Turn(n, t)
    BY <1>2, <1>4, <2>1, SmallTurns
  <2>3. n \in End /\ GoesOn(n, end[p]) /\ SendsAs(n, end[p]) /\ n.inq = Tail(end[p].inq)
    BY <1>2, <1>4, <2>2, TakeTurn
  <2>4. Step(p, n, <<>>)
    BY <1>4, <1>6, <2>1 DEF HandleRekeyAck
  <2>5. QED
    BY <1>2, <1>3, <2>3, <2>4, NothingSent, TakeStretch
<1>7. CASE HandleRekeyDone(p)
  <2>1. Turn(t, t)
    BY <1>2, <1>4, SmallTurns
  <2>2. t \in End /\ GoesOn(t, end[p]) /\ SendsAs(t, end[p]) /\ t.inq = Tail(end[p].inq)
    BY <1>2, <1>4, <2>1, TakeTurn
  <2>3. Step(p, t, <<>>)
    BY <1>4, <1>7 DEF HandleRekeyDone
  <2>4. QED
    BY <1>2, <1>3, <2>2, <2>3, NothingSent, TakeStretch
<1>8. CASE \/ HandleRekeyInit(p) /\ p # "joiner"
           \/ HandleRekeyAck(p) /\ (p # "initiator" \/ ~end[p].pendingPair)
  <2>1. Terminate(p)
    BY <1>8 DEF HandleRekeyInit, HandleRekeyAck
  <2>2. QED
    BY <1>2, <1>3, <2>1, StopsBy DEF counts
<1>9. QED
  BY <1>5, <1>6, <1>7, <1>8

LEMMA HandleFileShape ==
  ASSUME TypeInv, NEW p \in Role, HandleFileOffer(p) \/ HandleFileEnd(p)
  PROVE  Stretch(p)
<1>1. PICK type \in {"file_offer", "file_decline", "file_cancel"} : Frames(p, type)
  BY DEF HandleFileOffer, HandleFileEnd
<1>2. /\ Alive(p) /\ end[p] \in End /\ end[p].st \notin Over /\ end[p].inq # <<>>
      /\ Head(end[p].inq).type # "msg"
      /\ Took(end[p]) \in End /\ Took(end[p]).st \notin Over
  BY <1>1, FramesFacts
<1>3. UNCHANGED <<slot, roomGone, counts>>
  BY DEF HandleFileOffer, HandleFileEnd
<1>4. PICK t \in End : t = Took(end[p])
  BY <1>2
<1>5. PICK n, out : /\ n \in {t, [t EXCEPT !.incoming = TRUE], [t EXCEPT !.offering = FALSE],
                              [t EXCEPT !.incoming = FALSE]}
                    /\ out \in {<<>>, <<"file_decline">>} /\ Step(p, n, out)
  <2>1. CASE HandleFileOffer(p)
    <3>1. \/ Step(p, [t EXCEPT !.incoming = TRUE], <<>>)
          \/ Step(p, t, IF end[p].kind = "active" THEN <<"file_decline">> ELSE <<>>)
      BY <1>4, <2>1 DEF HandleFileOffer
    <3>2. QED
      BY <3>1
  <2>2. CASE HandleFileEnd(p)
    <3>1. \/ Step(p, [t EXCEPT !.offering = FALSE], <<>>)
          \/ Step(p, [t EXCEPT !.incoming = FALSE], <<>>)
      BY <1>4, <2>2 DEF HandleFileEnd
    <3>2. QED
      BY <3>1
  <2>3. QED
    BY <2>1, <2>2
<1>6. Turn(n, t)
  BY <1>2, <1>4, <1>5, SmallTurns
<1>7. n \in End /\ GoesOn(n, end[p]) /\ SendsAs(n, end[p]) /\ n.inq = Tail(end[p].inq)
  BY <1>2, <1>4, <1>6, TakeTurn
<1>8. Kinds(out) /\ PlainKinds(out) /\ NoTexts(out)
  <2>1. Kinds(<<"file_decline">>) /\ PlainKinds(<<"file_decline">>) /\ NoTexts(<<"file_decline">>)
    BY OneSent DEF Relayed, Envelope, PlainKind
  <2>2. QED
    BY <1>5, <2>1, NothingSent
<1>9. QED
  BY <1>2, <1>3, <1>5, <1>7, <1>8, TakeStretch

LEMMA ScheduledTyped ==
  ASSUME NEW e \in End
  PROVE  LET n == [e EXCEPT !.link = "closed", !.full = FALSE, !.st = "RECONNECTING", !.timer = TRUE]
         IN n \in End /\ n.inq = e.inq /\ n.st = "RECONNECTING"
<1>1. "RECONNECTING" \in SessionState
  BY DEF SessionState
<1>2. PICK n : n = [e EXCEPT !.link = "closed", !.full = FALSE, !.st = "RECONNECTING", !.timer = TRUE]
  OBVIOUS
<1>3. n \in End
  BY ZenonT(60), <1>1, <1>2 DEF End
<1>4. n.inq = e.inq /\ n.st = "RECONNECTING"
  BY <1>2 DEF End
<1>5. QED
  BY <1>2, <1>3, <1>4

LEMMA UnlockedTyped ==
  ASSUME NEW e \in End, e.st = "RESUMING", e.rec # NoRecord
  PROVE  LET n == Unlocked(e) IN n \in End /\ n.inq = e.inq /\ n.st = "RESUMING" /\ n.rec = e.rec
<1>1. e.rec.k \in {0, 1} /\ e.rec.s \in Nat /\ e.rec.n \in Nat
  BY DEF End, Record
<1>2. PICK k \in {0, 1}, s \in Nat, c \in Nat : k = e.rec.k /\ s = e.rec.s /\ c = e.rec.n
  BY <1>1
<1>3. PICK n : n = [e EXCEPT !.kind = "resuming", !.key = k, !.sendCtr = s, !.recvCtr = c,
                             !.gap = TRUE, !.timer = TRUE]
  OBVIOUS
<1>4. n \in End
  BY <1>3 DEF End
<1>5. n.inq = e.inq /\ n.st = "RESUMING" /\ n.rec = e.rec
  BY <1>3 DEF End
<1>6. n = Unlocked(e)
  BY <1>2, <1>3 DEF Unlocked
<1>7. QED
  BY <1>4, <1>5, <1>6

LEMMA SocketClosesShape ==
  ASSUME TypeInv, NEW p \in Role, SocketCloses(p)
  PROVE  Stretch(p) \/ Stops(p)
<1>1. Alive(p) /\ end[p] \in End /\ end[p].link = "broken" /\ UNCHANGED <<slot, roomGone, counts>>
  BY DEF SocketCloses, TypeInv
<1>2. PICK e \in End : e = end[p]
  BY <1>1
<1>3. CASE canRetryReconnect(e)
  <2>1. PICK n : n = [e EXCEPT !.link = "closed", !.full = FALSE, !.st = "RECONNECTING", !.timer = TRUE]
    OBVIOUS
  <2>2. n \in End /\ n.inq = e.inq /\ n.st = "RECONNECTING"
    BY <2>1, ScheduledTyped
  <2>7. e.link = "broken"
    BY <1>1, <1>2
  <2>4. GoesOn(n, e)
    BY <2>2, <2>7 DEF GoesOn, AtEase, Over, Locked
  <2>5. end' = [end EXCEPT ![p] = n] /\ net' = net
    BY <1>2, <1>3, <2>1 DEF SocketCloses, scheduleReconnect
  <2>6. QED
    BY <1>1, <1>2, <2>2, <2>4, <2>5, SilentStretch
<1>4. CASE ~canRetryReconnect(e)
  BY <1>1, <1>2, <1>4, StopsBy DEF SocketCloses, counts
<1>5. QED
  BY <1>3, <1>4

LEMMA UnlockShape ==
  ASSUME TypeInv, NEW p \in Role, Unlock(p)
  PROVE  Stretch(p) \/ Stops(p)
<1>1. /\ Alive(p) /\ end[p] \in End /\ end[p].st = "RESUMING" /\ Stored(end[p])
      /\ UNCHANGED <<slot, roomGone, counts>>
  BY DEF Unlock, TypeInv, Alive, Sound, Locked
<1>2. CASE Terminate(p)
  BY <1>1, <1>2, StopsBy DEF counts
<1>3. CASE end' = [end EXCEPT ![p] = Unlocked(@)] /\ UNCHANGED net
  <2>1. PICK n : n = Unlocked(end[p])
    OBVIOUS
  <2>2. n \in End /\ n.inq = end[p].inq /\ n.st = "RESUMING" /\ n.rec = end[p].rec
    BY <1>1, <2>1, UnlockedTyped DEF Stored
  <2>3. GoesOn(n, end[p])
    BY <1>1, <2>2 DEF GoesOn, AtEase, Over, Locked, Stored
  <2>4. QED
    BY <1>1, <1>3, <2>1, <2>2, <2>3, SilentStretch
<1>4. QED
  BY <1>2, <1>3 DEF Unlock

\* The actions that end a session outright.
LEMMA StopShape ==
  ASSUME TypeInv, NEW p \in Role,
         VisibilityWake(p) \/ ReconnectExhausted(p) \/ ArrivePeerLeft(p) \/ Leave(p) \/ WorkFails(p)
  PROVE  Stops(p)
<1>1. CASE VisibilityWake(p) \/ ReconnectExhausted(p) \/ ArrivePeerLeft(p) \/ WorkFails(p)
  <2>1. Alive(p) /\ Terminate(p) /\ UNCHANGED <<slot, roomGone, texts, heard, offers, ids>>
    BY <1>1 DEF VisibilityWake, ReconnectExhausted, ArrivePeerLeft, WorkFails, Arrives, Alive, counts
  <2>2. QED
    BY <2>1, StopsBy
<1>2. CASE Leave(p)
  <2>1. end[p] \in End /\ Alive(p)
    BY <1>2 DEF Leave, TypeInv
  <2>2. [end[p] EXCEPT !.st = "TERMINATED"] \in End
    BY <2>1 DEF End, SessionState
  <2>3. PICK n \in End : /\ n = EndedAs([end[p] EXCEPT !.st = "TERMINATED"])
                         /\ n.inq = <<>> /\ n.sendCtr = 0 /\ n.st \in Over
    BY <2>2, EndedTyped
  <2>4. QED
    BY <1>2, <2>1, <2>3 DEF Leave, Stops
<1>3. QED
  BY <1>1, <1>2

-----------------------------------------------------------------------------
(* The invariant is kept                                                   *)

LEMMA StretchKeeps ==
  ASSUME TypeInv, NEW p \in Role, Stretch(p)
  PROVE  /\ TypeInv'
         /\ Reaches(p) => \A q \in Role : Exact(end[q], net[q], heard[q], texts[Peer(q)])
                                           => Exact(end[q], net[q], heard[q], texts[Peer(q)])'
<1>1. PICK n, out, id, g :
        /\ Local(p, n, out, id)
        /\ Passes(n, end[p], heard[p], g) /\ heard' = [heard EXCEPT ![p] = g]
        /\ \/ NoTexts(out) /\ texts' = texts
           \/ /\ out = <<"msg">> /\ CanSend(end[p]) /\ texts[p] < MaxTexts
              /\ texts' = [texts EXCEPT ![p] = @ + 1]
  BY DEF Stretch
<1>2. PICK o \in Role : o = Peer(p) /\ o # p /\ Peer(o) = p /\ \A q \in Role : q = p \/ q = o
  BY Peers
<1>3. /\ end \in [Role -> End] /\ net \in [Role -> Seq(Frame)] /\ texts \in [Role -> 0..MaxTexts]
      /\ heard \in [Role -> Nat] /\ end[p] \in End /\ net[o] \in Seq(Frame) /\ texts[p] \in 0..MaxTexts
      /\ Sound(end[p], net[p], heard[p], texts[o]) /\ Sound(end[o], net[o], heard[o], texts[p])
  BY <1>2 DEF TypeInv
<1>4. PICK fs : fs = RelayFrames(end[p], out, id)
  OBVIOUS
<1>5. /\ fs \in Seq(Frame) /\ (NoTexts(out) => TextsIn(fs) = 0)
      /\ out = <<"msg">> => TextsIn(fs) = 1
  <2>1. /\ out \in Seq(Relayed) /\ id \in Nat
    BY <1>1 DEF Local, Kinds
  <2>2. /\ fs \in Seq(Frame) /\ Len(fs) = Len(out)
        /\ \A i \in 1..Len(out) : fs[i].type = out[i]
        /\ (\A i \in 1..Len(out) : out[i] # "msg") => TextsIn(fs) = 0
    <3>1. PICK e \in End : e = end[p]
      BY <1>3
    <3>2. fs = RelayFrames(e, out, id)
      BY <1>4, <3>1
    <3>3. /\ RelayFrames(e, out, id) \in Seq(Frame) /\ Len(RelayFrames(e, out, id)) = Len(out)
          /\ \A i \in 1..Len(out) : RelayFrames(e, out, id)[i].type = out[i]
          /\ (\A i \in 1..Len(out) : out[i] # "msg") => TextsIn(RelayFrames(e, out, id)) = 0
      BY <2>1, FramesTyped
    <3>4. QED
      BY <3>2, <3>3
  <2>3. ASSUME out = <<"msg">>
        PROVE  TextsIn(fs) = 1
    <3>1. Len(out) = 1 /\ out[1] = "msg"
      BY <2>3
    <3>5. Len(fs) = 1 /\ 1 \in 1..Len(out) /\ 1 \in 1..Len(fs)
      BY <2>2, <3>1
    <3>2. Len(fs) = 1 /\ fs[1].type = "msg" /\ fs[1] \in Frame
      BY <2>2, <3>1, <3>5, ElementOfSeq
    <3>3. fs = <<fs[1]>>
      BY <2>2, <3>2
    <3>4. QED
      BY <3>2, <3>3, TextsFew
  <2>4. QED
    BY <2>2, <2>3 DEF NoTexts
<1>6. /\ GoesOn(n, end[p]) /\ n \in End /\ n.st \notin Over /\ Locked(n)
      /\ end' = [end EXCEPT ![p] = n]
      /\ net' = net \/ net' = [net EXCEPT ![o] = net[o] \o fs]
      /\ CanSend(end[p]) /\ Reaches(p) => net' = [net EXCEPT ![o] = net[o] \o fs]
      /\ ~CanSend(end[p]) => net' = net
  BY <1>1, <1>2, <1>3, <1>4 DEF Local, GoesOn, Sound
<1>7. Sound(n, net[p], g, texts[o])
      /\ (Exact(end[p], net[p], heard[p], texts[o]) => Exact(n, net[p], g, texts[o]))
  BY <1>1, <1>3, <1>6, SoundPasses
<1>8. PICK t \in 0..MaxTexts : t = texts'[p] /\ t \in Nat /\ texts[p] + TextsIn(fs) = t
  <2>1. CASE NoTexts(out) /\ texts' = texts
    BY <1>3, <1>5, <2>1
  <2>2. CASE out = <<"msg">> /\ texts[p] < MaxTexts /\ texts' = [texts EXCEPT ![p] = @ + 1]
    BY <1>3, <1>5, <2>2
  <2>3. QED
    BY <1>1, <2>1, <2>2
<1>9. texts' \in [Role -> 0..MaxTexts] /\ texts'[o] = texts[o]
  BY <1>1, <1>2, <1>3, <1>8
<1>10. PICK a \in Seq(Frame) : a = net'[o] /\ Sound(end[o], a, heard[o], t)
  <2>1. Sound(end[o], net[o] \o fs, heard[o], t) /\ net[o] \o fs \in Seq(Frame)
    BY <1>3, <1>5, <1>8, SoundSent
  <2>2. Sound(end[o], net[o], heard[o], t)
    <3>1. TextsIn(fs) \in Nat /\ texts[p] \in Nat /\ TextsIn(net[o]) \in Nat /\ TextsIn(end[o].inq) \in Nat
      BY <1>3, <1>5, TextAtFinite, InqTyped DEF Sound
    <3>2. QED
      BY <1>3, <1>8, <3>1 DEF Sound
  <2>3. net'[o] \in {net[o], net[o] \o fs}
    BY <1>2, <1>3, <1>6
  <2>4. QED
    BY <1>3, <2>1, <2>2, <2>3
<1>11. ASSUME Reaches(p), Exact(end[o], net[o], heard[o], texts[p])
       PROVE  Exact(end[o], a, heard[o], t)
  <2>1. CASE CanSend(end[p])
    <3>1. a = net[o] \o fs
      BY <1>3, <1>6, <1>10, <1>11, <2>1
    <3>2. QED
      BY <1>3, <1>5, <1>8, <1>11, <3>1, SoundSent
  <2>2. CASE ~CanSend(end[p])
    <3>1. a = net[o] /\ t = texts[p]
      BY <1>1, <1>6, <1>8, <1>10, <2>2, <1>3, <1>5
    <3>2. QED
      BY <1>11, <3>1
  <2>3. QED
    BY <2>1, <2>2
<1>12. /\ end'[p] = n /\ end'[o] = end[o] /\ net'[p] = net[p] /\ net'[o] = a
       /\ heard'[p] = g /\ heard'[o] = heard[o] /\ texts'[p] = t /\ texts'[o] = texts[o]
       /\ end' \in [Role -> End] /\ net' \in [Role -> Seq(Frame)] /\ heard' \in [Role -> Nat]
  BY <1>1, <1>2, <1>3, <1>6, <1>7, <1>8, <1>9, <1>10 DEF Sound
<1>13. \A q \in Role : Sound(end'[q], net'[q], heard'[q], texts'[Peer(q)])
  BY <1>2, <1>7, <1>10, <1>12
<1>14. /\ slot' = slot /\ roomGone' = roomGone /\ faults' = faults /\ ids' = ids
       /\ offers' \in [Role -> 0..MaxOffers]
  BY DEF Stretch
<1>15. TypeInv'
  BY <1>9, <1>12, <1>13, <1>14 DEF TypeInv
<1>16. ASSUME Reaches(p), NEW q \in Role, Exact(end[q], net[q], heard[q], texts[Peer(q)])
       PROVE  Exact(end[q], net[q], heard[q], texts[Peer(q)])'
  <2>1. Exact(end'[q], net'[q], heard'[q], texts'[Peer(q)])
    BY <1>2, <1>7, <1>11, <1>12, <1>16
  <2>2. QED
    BY <2>1 DEF Exact
<1>17. QED
  BY <1>15, <1>16

\* One end changes, and the frames on their way to it.
LEMMA OneKeeps ==
  ASSUME TypeInv, NEW p \in Role, NEW n, NEW f, end' = [end EXCEPT ![p] = n], net' = [net EXCEPT ![p] = f],
         Sound(n, f, heard[p], texts[Peer(p)]), UNCHANGED <<texts, heard, offers>>,
         slot' \in [Role -> Seat], roomGone' \in BOOLEAN, faults' \in 0..MaxFaults, ids' \in Nat
  PROVE  TypeInv'
<1>1. n \in End /\ f \in Seq(Frame)
  BY DEF Sound
<1>2. end' \in [Role -> End] /\ net' \in [Role -> Seq(Frame)]
  BY <1>1 DEF TypeInv
<1>3. ASSUME NEW q \in Role
      PROVE  Sound(end'[q], net'[q], heard'[q], texts'[Peer(q)])
  <2>1. CASE q = p
    <3>1. end'[q] = n /\ net'[q] = f /\ heard' = heard /\ texts' = texts
      BY <2>1 DEF TypeInv
    <3>2. QED
      BY <2>1, <3>1
  <2>2. CASE q # p
    <3>1. end'[q] = end[q] /\ net'[q] = net[q] /\ heard' = heard /\ texts' = texts
      BY <2>2 DEF TypeInv
    <3>2. QED
      BY <3>1 DEF TypeInv
  <2>3. QED
    BY <2>1, <2>2
<1>4. /\ texts' \in [Role -> 0..MaxTexts] /\ heard' \in [Role -> Nat] /\ offers' \in [Role -> 0..MaxOffers]
  BY DEF TypeInv
<1>5. QED
  BY <1>2, <1>3, <1>4 DEF TypeInv

LEMMA StopsKeeps ==
  ASSUME TypeInv, NEW p \in Role, Stops(p), faults' \in 0..MaxFaults
  PROVE  TypeInv'
<1>1. PICK n \in End : /\ n.inq = <<>> /\ n.sendCtr = 0 /\ n.st \in Over
                       /\ end' = [end EXCEPT ![p] = n]
  BY DEF Stops
<1>2. net' = [net EXCEPT ![p] = <<>>] /\ UNCHANGED <<slot, roomGone, texts, heard, offers, ids>>
  BY DEF Stops
<1>3. Sound(end[p], net[p], heard[p], texts[Peer(p)]) /\ Locked(n)
  BY <1>1 DEF TypeInv, Locked, Over
<1>4. Sound(n, <<>>, heard[p], texts[Peer(p)])
  BY <1>1, <1>3, SoundLost, EmptyQueue
<1>5. slot' \in [Role -> Seat] /\ roomGone' \in BOOLEAN /\ ids' \in Nat
  BY <1>2 DEF TypeInv
<1>6. QED
  BY <1>1, <1>2, <1>4, <1>5, OneKeeps

LEMMA ArrivesFacts ==
  ASSUME TypeInv, NEW p \in Role, NEW type, Arrives(p, type)
  PROVE  /\ Alive(p) /\ end[p] \in End /\ net[p] \in Seq(Frame) /\ net[p] # <<>> /\ Head(net[p]) \in Frame
         /\ Head(net[p]).type = type /\ Tail(net[p]) \in Seq(Frame)
         /\ Sound(end[p], net[p], heard[p], texts[Peer(p)])
<1>1. /\ Alive(p) /\ end[p] \in End /\ net[p] \in Seq(Frame) /\ net[p] # <<>>
      /\ Head(net[p]).type = type /\ Sound(end[p], net[p], heard[p], texts[Peer(p)])
  BY DEF Arrives, TypeInv
<1>2. QED
  BY <1>1, TextsHeadTail

LEMMA ArriveRelayKeeps ==
  ASSUME TypeInv, NEW p \in Role, ArriveRelay(p)
  PROVE  /\ TypeInv'
         /\ \A q \in Role : Exact(end[q], net[q], heard[q], texts[Peer(q)])
                              => Exact(end[q], net[q], heard[q], texts[Peer(q)])'
<1>1. PICK type \in ModeKind \cup Envelope : Arrives(p, type)
  BY DEF ArriveRelay
<1>2. /\ end[p] \in End /\ net[p] \in Seq(Frame) /\ net[p] # <<>>
      /\ Sound(end[p], net[p], heard[p], texts[Peer(p)])
  BY <1>1, ArrivesFacts
<1>3. PICK e \in End : e = end[p]
  BY <1>2
<1>4. PICK n : n = [e EXCEPT !.inq = Append(@, Head(net[p]))]
  OBVIOUS
<1>5. /\ Sound(n, Tail(net[p]), heard[p], texts[Peer(p)])
      /\ Exact(e, net[p], heard[p], texts[Peer(p)]) => Exact(n, Tail(net[p]), heard[p], texts[Peer(p)])
  BY <1>2, <1>3, <1>4, SoundArrived
<1>6. end \in [Role -> End] /\ net \in [Role -> Seq(Frame)]
  BY DEF TypeInv
<1>7. end' = [end EXCEPT ![p] = n] /\ net' = [net EXCEPT ![p] = Tail(net[p])]
  BY <1>3, <1>4, <1>6 DEF ArriveRelay, Consume
<1>8. UNCHANGED <<slot, roomGone, texts, heard, offers, faults, ids>>
  BY DEF ArriveRelay, counts
<1>9. TypeInv'
  <2>1. slot' \in [Role -> Seat] /\ roomGone' \in BOOLEAN /\ ids' \in Nat /\ faults' \in 0..MaxFaults
    BY <1>8 DEF TypeInv
  <2>2. QED
    BY <1>5, <1>7, <1>8, <2>1, OneKeeps
<1>10. ASSUME NEW q \in Role, Exact(end[q], net[q], heard[q], texts[Peer(q)])
       PROVE  Exact(end[q], net[q], heard[q], texts[Peer(q)])'
  <2>1. CASE q = p
    <3>1. end'[q] = n /\ net'[q] = Tail(net[p]) /\ heard'[q] = heard[p] /\ texts'[Peer(q)] = texts[Peer(p)]
      BY <1>6, <1>7, <1>8, <2>1
    <3>2. Exact(n, Tail(net[p]), heard[p], texts[Peer(p)])
      BY <1>3, <1>5, <1>10, <2>1
    <3>3. QED
      BY <3>1, <3>2 DEF Exact
  <2>2. CASE q # p
    <3>1. end'[q] = end[q] /\ net'[q] = net[q] /\ heard'[q] = heard[q] /\ texts'[Peer(q)] = texts[Peer(q)]
      BY <1>6, <1>7, <1>8, <2>2
    <3>2. QED
      BY <1>10, <3>1 DEF Exact
  <2>3. QED
    BY <2>1, <2>2
<1>11. QED
  BY <1>9, <1>10

LEMMA PeerEventTyped ==
  ASSUME NEW e \in End
  PROVE  LET n == [e EXCEPT !.st = "PEER_RECONNECTING", !.gap = TRUE]
         IN n \in End /\ n.inq = e.inq /\ n.st = "PEER_RECONNECTING"
BY DEF End, SessionState

LEMMA ArrivePeerKeeps ==
  ASSUME TypeInv, NEW p \in Role, ArrivePeerJoined(p) \/ ArrivePeerDisconnected(p)
  PROVE  TypeInv'
<1>1. PICK type \in {"PEER_JOINED", "PEER_DISCONNECTED"} : Arrives(p, type)
  BY DEF ArrivePeerJoined, ArrivePeerDisconnected
<1>2. /\ Alive(p) /\ end[p] \in End /\ net[p] \in Seq(Frame) /\ net[p] # <<>> /\ Tail(net[p]) \in Seq(Frame)
      /\ Sound(end[p], net[p], heard[p], texts[Peer(p)])
  BY <1>1, ArrivesFacts
<1>3. UNCHANGED <<slot, roomGone, texts, heard, offers, faults, ids>>
  BY DEF ArrivePeerJoined, ArrivePeerDisconnected, counts
<1>4. slot' \in [Role -> Seat] /\ roomGone' \in BOOLEAN /\ ids' \in Nat /\ faults' \in 0..MaxFaults
  BY <1>3 DEF TypeInv
<1>5. CASE ArrivePeerDisconnected(p) /\ (end[p].kind # "active" \/ end[p].peerMode # "PRF")
  BY <1>2, <1>3, <1>4, <1>5, StopsBy, StopsKeeps DEF ArrivePeerDisconnected
<1>6. ASSUME NEW n \in End, n.inq = end[p].inq, n.st \in Over => n.sendCtr = 0, Locked(n),
             end' = [end EXCEPT ![p] = n], Consume(p)
      PROVE  TypeInv'
  <2>1. Sound(n, net[p], heard[p], texts[Peer(p)])
    BY <1>2, <1>6, SoundPasses DEF Passes
  <2>2. Sound(n, Tail(net[p]), heard[p], texts[Peer(p)])
    BY <1>2, <2>1, SoundArrived
  <2>3. QED
    BY <1>3, <1>4, <1>6, <2>2, OneKeeps DEF Consume
<1>7. PICK e \in End : e = end[p]
  BY <1>2
<1>8. end \in [Role -> End] /\ Sound(e, net[p], heard[p], texts[Peer(p)])
  BY <1>2, <1>7 DEF TypeInv
<1>9. CASE ArrivePeerJoined(p)
  <2>1. PICK b \in BOOLEAN : b = (e.gap \/ e.st = "PEER_RECONNECTING")
    OBVIOUS
  <2>2. end' = [end EXCEPT ![p] = [e EXCEPT !.gap = b]] /\ Consume(p)
    BY <1>7, <1>8, <1>9, <2>1 DEF ArrivePeerJoined
  <2>3. PICK n : n = [e EXCEPT !.gap = b]
    OBVIOUS
  <2>4. n \in End /\ n.inq = e.inq /\ n.st = e.st /\ n.sendCtr = e.sendCtr /\ n.rec = e.rec
    BY <2>3 DEF End
  <2>5. (n.st \in Over => n.sendCtr = 0) /\ Locked(n)
    BY <1>8, <2>4 DEF Sound, Locked, Stored
  <2>6. QED
    BY <1>6, <1>7, <2>2, <2>3, <2>4, <2>5
<1>10. CASE ArrivePeerDisconnected(p) /\ ~(end[p].kind # "active" \/ end[p].peerMode # "PRF")
  <2>1. PICK n : n = [e EXCEPT !.st = "PEER_RECONNECTING", !.gap = TRUE]
    OBVIOUS
  <2>2. n \in End /\ n.inq = e.inq /\ n.st = "PEER_RECONNECTING"
    BY <2>1, PeerEventTyped
  <2>3. end' = [end EXCEPT ![p] = n] /\ Consume(p)
    BY <1>7, <1>8, <1>10, <2>1 DEF ArrivePeerDisconnected
  <2>4. (n.st \in Over => n.sendCtr = 0) /\ Locked(n)
    BY <2>2 DEF Over, Locked
  <2>5. QED
    BY <1>6, <1>7, <2>2, <2>3, <2>4
<1>11. QED
  BY <1>5, <1>9, <1>10

\* The server's notices are no texts.
LEMMA SoundNoticed ==
  ASSUME NEW type \in Control
  PROVE  /\ Notice(type) \in Frame /\ <<Notice(type)>> \in Seq(Frame) /\ TextsIn(<<Notice(type)>>) = 0
         /\ \A e, q, h, t : Sound(e, q, h, t) => Sound(e, Append(q, Notice(type)), h, t)
<1>1. PICK f : f = Notice(type)
  OBVIOUS
<1>2. f \in Frame /\ f.type = type
  BY <1>1 DEF Notice, Frame
<1>3. f.type # "msg"
  BY <1>2 DEF Control
<1>4. <<f>> \in Seq(Frame) /\ TextsIn(<<f>>) = 0
  BY <1>2, <1>3, TextsFew
<1>5. ASSUME NEW e, NEW q, NEW h, NEW t, Sound(e, q, h, t)
      PROVE  Sound(e, Append(q, f), h, t)
  <2>1. q \in Seq(Frame) /\ t \in Nat
    BY <1>5 DEF Sound
  <2>2. Append(q, f) = q \o <<f>>
    BY <1>2, <2>1
  <2>3. t + TextsIn(<<f>>) <= t
    BY <1>4, <2>1
  <2>4. QED
    BY <1>4, <1>5, <2>1, <2>2, <2>3, SoundSent
<1>6. QED
  BY <1>1, <1>2, <1>4, <1>5

LEMMA SeatFacts ==
  /\ \A s \in Seat : s.current => s.who \in Role /\ s # Empty
  /\ Empty \in Seat /\ \A p \in Role, b \in BOOLEAN : [who |-> p, current |-> b] \in Seat
BY DEF Seat, Empty

LEMMA ToldTyped ==
  ASSUME slot \in [Role -> Seat], NEW s \in Role, NEW type \in Control,
         NEW qs \in [Role -> Seq(Frame)]
  PROVE  /\ Told(qs, s, type) \in [Role -> Seq(Frame)]
         /\ \A q \in Role : Told(qs, s, type)[q] \in {qs[q], Append(qs[q], Notice(type))}
<1>1. Notice(type) \in Frame
  BY SoundNoticed
<1>2. CASE ~Live(s)
  BY <1>2 DEF Told
<1>3. CASE Live(s)
  <2>1. slot[s].who \in Role
    BY <1>3, SeatFacts DEF Live
  <2>2. PICK w \in Role : w = slot[s].who
    BY <2>1
  <2>3. Told(qs, s, type) = [qs EXCEPT ![w] = Append(qs[w], Notice(type))]
    BY <1>3, <2>2 DEF Told
  <2>4. Append(qs[w], Notice(type)) \in Seq(Frame)
    BY <1>1
  <2>5. QED
    BY <2>3, <2>4
<1>4. QED
  BY <1>2, <1>3

LEMMA ServerKeeps ==
  ASSUME TypeInv, NEW s \in Role, ServerNotices(s) \/ GraceExpires(s)
  PROVE  TypeInv'
<1>1. PICK c \in Role, type \in Control : net' = Told(net, c, type)
  <2>1. CASE ServerNotices(s)
    BY <2>1, Peers DEF ServerNotices, Control
  <2>2. CASE GraceExpires(s)
    BY <2>2 DEF GraceExpires, Control
  <2>3. QED
    BY <2>1, <2>2
<1>2. /\ UNCHANGED <<end, texts, heard, offers, faults, ids>> /\ slot' = [slot EXCEPT ![s] = Empty]
      /\ roomGone' \in BOOLEAN
  BY DEF ServerNotices, GraceExpires, counts
<1>3. slot \in [Role -> Seat] /\ net \in [Role -> Seq(Frame)]
  BY DEF TypeInv
<1>4. net' \in [Role -> Seq(Frame)] /\ \A q \in Role : net'[q] \in {net[q], Append(net[q], Notice(type))}
  BY <1>1, <1>3, ToldTyped
<1>5. ASSUME NEW q \in Role
      PROVE  Sound(end'[q], net'[q], heard'[q], texts'[Peer(q)])
  <2>1. Sound(end[q], net[q], heard[q], texts[Peer(q)])
    BY DEF TypeInv
  <2>2. Sound(end[q], Append(net[q], Notice(type)), heard[q], texts[Peer(q)])
    BY <2>1, SoundNoticed
  <2>3. Sound(end[q], net'[q], heard[q], texts[Peer(q)])
    BY <1>4, <2>1, <2>2
  <2>4. end' = end /\ heard' = heard /\ texts' = texts
    BY <1>2
  <2>5. QED
    BY <2>3, <2>4
<1>6. slot' \in [Role -> Seat]
  BY <1>2, <1>3, SeatFacts
<1>7. QED
  BY <1>2, <1>4, <1>5, <1>6 DEF TypeInv

LEMMA ReopenedTyped ==
  ASSUME NEW e \in End
  PROVE  /\ Reopened(e) \in End /\ Reopened(e).inq = e.inq /\ Reopened(e).st = e.st
         /\ Reopened(e).rec = e.rec
<1>1. PICK b \in BOOLEAN : b = (e.gap \/ e.kind = "active")
  OBVIOUS
<1>2. PICK n : n = [e EXCEPT !.kind = "resuming", !.timer = FALSE, !.link = "open", !.gap = b]
  OBVIOUS
<1>3. n \in End
  BY ZenonT(60), <1>2 DEF End
<1>4. n.inq = e.inq /\ n.st = e.st /\ n.rec = e.rec
  BY <1>2 DEF End
<1>5. n = Reopened(e)
  BY <1>1, <1>2 DEF Reopened, End
<1>6. QED
  BY <1>3, <1>4, <1>5

LEMMA AckKind == \A role : AckOf(role) \in Control
BY DEF AckOf, Control

LEMMA ReopenKeeps ==
  ASSUME TypeInv, NEW p \in Role, Reopen(p)
  PROVE  TypeInv'
<1>1. Alive(p) /\ UNCHANGED <<roomGone, texts, heard, offers, faults, ids>>
  BY DEF Reopen, counts
<1>2. /\ end \in [Role -> End] /\ net \in [Role -> Seq(Frame)] /\ slot \in [Role -> Seat]
      /\ faults \in 0..MaxFaults /\ end[p] \in End /\ \A q \in Role : Sound(end[q], net[q], heard[q], texts[Peer(q)])
  BY DEF TypeInv
<1>3. CASE roomGone \/ slot[FreeSlot] # Empty
  <2>1. Terminate(p) /\ UNCHANGED slot
    BY <1>3 DEF Reopen
  <2>2. Stops(p)
    BY <1>1, <2>1, StopsBy
  <2>3. QED
    BY <1>1, <1>2, <2>2, StopsKeeps
<1>4. CASE ~(roomGone \/ slot[FreeSlot] # Empty)
  <2>1. PICK n : n = Reopened(end[p])
    OBVIOUS
  <2>2. n \in End /\ n.inq = end[p].inq /\ n.st = end[p].st /\ n.rec = end[p].rec
    BY <1>2, <2>1, ReopenedTyped
  <2>3. n.st \notin Over /\ Locked(n)
    BY <1>1, <1>2, <2>2 DEF Alive, Over, Sound, Locked, Stored
  <2>4. PICK qs : qs = [net EXCEPT ![p] = <<Notice(AckOf(FreeSlot))>>]
    OBVIOUS
  <2>5. /\ <<Notice(AckOf(FreeSlot))>> \in Seq(Frame) /\ TextsIn(<<Notice(AckOf(FreeSlot))>>) = 0
    BY AckKind, SoundNoticed
  <2>6. qs \in [Role -> Seq(Frame)]
    BY <1>2, <2>4, <2>5
  <2>7. Peer(FreeSlot) \in Role /\ "PEER_JOINED" \in Control
    BY Peers DEF FreeSlot, Control
  <2>8. end' = [end EXCEPT ![p] = n] /\ slot' = Seated(p) /\ net' = Told(qs, Peer(FreeSlot), "PEER_JOINED")
    BY <1>4, <2>1, <2>4 DEF Reopen
  <2>9. /\ net' \in [Role -> Seq(Frame)]
        /\ \A q \in Role : net'[q] \in {qs[q], Append(qs[q], Notice("PEER_JOINED"))}
    BY <1>2, <2>6, <2>7, <2>8, ToldTyped
  <2>10. ASSUME NEW q \in Role
         PROVE  Sound(end'[q], net'[q], heard'[q], texts'[Peer(q)])
    <3>1. Sound(end'[q], qs[q], heard[q], texts[Peer(q)])
      <4>1. CASE q = p
        <5>1. Sound(n, <<Notice(AckOf(FreeSlot))>>, heard[p], texts[Peer(p)])
          BY <1>2, <2>2, <2>3, <2>5, SoundLost
        <5>2. QED
          BY <1>2, <2>4, <2>8, <4>1, <5>1
      <4>2. CASE q # p
        BY <1>2, <2>4, <2>8, <4>2
      <4>3. QED
        BY <4>1, <4>2
    <3>2. Sound(end'[q], Append(qs[q], Notice("PEER_JOINED")), heard[q], texts[Peer(q)])
      BY <2>7, <3>1, SoundNoticed
    <3>3. Sound(end'[q], net'[q], heard[q], texts[Peer(q)])
      BY <2>9, <3>1, <3>2
    <3>4. heard' = heard /\ texts' = texts
      BY <1>1
    <3>5. QED
      BY <3>3, <3>4
  <2>11. slot' \in [Role -> Seat]
    <3>1. ASSUME NEW c \in Role
          PROVE  /\ [who |-> p, current |-> TRUE] \in Seat
                 /\ slot[c].who = p => [slot[c] EXCEPT !.current = FALSE] \in Seat
      <4>1. [who |-> p, current |-> TRUE] \in Seat
        BY SeatFacts
      <4>2. ASSUME slot[c].who = p
            PROVE  [slot[c] EXCEPT !.current = FALSE] \in Seat
        <5>1. slot[c] \in Seat /\ slot[c] # Empty
          BY <1>2, <4>2 DEF Empty, Role
        <5>2. slot[c] \in [who : Role, current : BOOLEAN]
          BY <5>1 DEF Seat
        <5>3. [slot[c] EXCEPT !.current = FALSE] \in [who : Role, current : BOOLEAN]
          BY <5>2
        <5>4. QED
          BY <5>3 DEF Seat
      <4>3. QED
        BY <4>1, <4>2
    <3>2. QED
      BY <1>2, <2>8, <3>1 DEF Seated
  <2>12. end' \in [Role -> End]
    BY <1>2, <2>2, <2>8
  <2>13. QED
    BY <1>1, <2>9, <2>10, <2>11, <2>12 DEF TypeInv
<1>5. QED
  BY <1>3, <1>4

\* An ACK that is answered with a probe, and one that is not.
LEMMA ProbeKeeps ==
  ASSUME TypeInv, NEW p \in Role, NEW type, Arrives(p, type), SendProbe(p),
         UNCHANGED <<slot, roomGone, texts, heard, offers, faults>>
  PROVE  TypeInv'
<1>1. /\ Alive(p) /\ end[p] \in End /\ net[p] \in Seq(Frame) /\ net[p] # <<>> /\ Tail(net[p]) \in Seq(Frame)
      /\ Sound(end[p], net[p], heard[p], texts[Peer(p)])
  BY ArrivesFacts
<1>2. PICK o \in Role : o = Peer(p) /\ o # p /\ Peer(o) = p /\ \A q \in Role : q = p \/ q = o
  BY Peers
<1>3. /\ end \in [Role -> End] /\ net \in [Role -> Seq(Frame)] /\ texts \in [Role -> 0..MaxTexts]
      /\ ids \in Nat /\ net[o] \in Seq(Frame) /\ Sound(end[o], net[o], heard[o], texts[p])
  BY <1>2 DEF TypeInv
<1>4. PICK i \in Nat : i = ids + 1
  BY <1>3
<1>5. PICK e : e = [end[p] EXCEPT !.resumeId = i]
  OBVIOUS
<1>6. /\ e \in End /\ e.inq = end[p].inq /\ e.st = end[p].st /\ e.rec = end[p].rec
  BY <1>1, <1>5 DEF End
<1>7. <<"resume">> \in Seq(Relayed)
  BY DEF Relayed, Envelope
<1>8. PICK n \in End : n = Counted(e, <<"resume">>) /\ Alike(n, e)
  BY <1>6, <1>7, CountedTyped
<1>9. Sound(n, Tail(net[p]), heard[p], texts[o])
  <2>1. n.inq = end[p].inq /\ n.st \notin Over /\ Locked(n)
    BY <1>1, <1>6, <1>8 DEF Alike, Alive, Over, Sound, Locked, Stored
  <2>2. Sound(n, net[p], heard[p], texts[o])
    BY <1>1, <1>2, <2>1, SoundPasses DEF Passes
  <2>3. QED
    BY <1>1, <2>2, SoundArrived
<1>10. PICK fs : fs = RelayFrames(e, <<"resume">>, i)
  OBVIOUS
<1>11. fs \in Seq(Frame) /\ TextsIn(fs) = 0
  <2>1. PICK out \in Seq(Relayed) : out = <<"resume">>
    BY <1>7
  <2>2. "resume" \in Relayed
    BY DEF Relayed, Envelope
  <2>3. NoTexts(out)
    BY <2>1, <2>2, OneSent
  <2>4. fs = RelayFrames(e, out, i)
    BY <1>10, <2>1
  <2>5. QED
    BY <1>6, <2>3, <2>4, FramesTyped DEF NoTexts
<1>12. Sound(end[o], net[o] \o fs, heard[o], texts[p]) /\ net[o] \o fs \in Seq(Frame)
  <2>1. texts[p] \in Nat
    BY <1>3
  <2>2. texts[p] + TextsIn(fs) <= texts[p]
    BY <1>11, <2>1
  <2>3. QED
    BY <1>3, <1>11, <2>1, <2>2, SoundSent
<1>13. /\ end' = [end EXCEPT ![p] = n]
       /\ net' = [net EXCEPT ![p] = Tail(@), ![o] = IF Reaches(p) THEN @ \o fs ELSE @]
  BY <1>2, <1>4, <1>5, <1>8, <1>10 DEF SendProbe
<1>14. /\ end'[p] = n /\ end'[o] = end[o] /\ net'[p] = Tail(net[p])
       /\ net'[o] \in {net[o], net[o] \o fs}
       /\ end' \in [Role -> End] /\ net' \in [Role -> Seq(Frame)]
  BY <1>1, <1>2, <1>3, <1>12, <1>13
<1>15. UNCHANGED <<slot, roomGone, texts, heard, offers, faults>> /\ ids' = i
  BY <1>4 DEF SendProbe
<1>16. \A q \in Role : Sound(end'[q], net'[q], heard'[q], texts'[Peer(q)])
  <2>1. heard' = heard /\ texts' = texts
    BY <1>15
  <2>2. Sound(end'[p], net'[p], heard'[p], texts'[o])
    BY <1>9, <1>14, <2>1
  <2>3. Sound(end'[o], net'[o], heard'[o], texts'[p])
    BY <1>3, <1>12, <1>14, <2>1
  <2>4. QED
    BY <1>2, <2>2, <2>3
<1>17. QED
  BY <1>14, <1>15, <1>16 DEF TypeInv

LEMMA SkipProbeKeeps ==
  ASSUME TypeInv, NEW p \in Role, NEW type, Arrives(p, type), NEW role, SkipProbe(p, role),
         UNCHANGED <<slot, roomGone, texts, heard, offers, faults>>
  PROVE  TypeInv'
<1>1. /\ Alive(p) /\ end[p] \in End /\ net[p] \in Seq(Frame) /\ net[p] # <<>> /\ Tail(net[p]) \in Seq(Frame)
      /\ Sound(end[p], net[p], heard[p], texts[Peer(p)])
  BY ArrivesFacts
<1>2. UNCHANGED <<slot, roomGone, texts, heard, offers, faults, ids>>
  BY DEF SkipProbe
<1>3. slot' \in [Role -> Seat] /\ roomGone' \in BOOLEAN /\ ids' \in Nat /\ faults' \in 0..MaxFaults
  BY <1>2 DEF TypeInv
<1>4. ASSUME NEW n \in End, n.inq = end[p].inq, n.st \in Over => n.sendCtr = 0, Locked(n),
             end' = [end EXCEPT ![p] = n], Consume(p)
      PROVE  TypeInv'
  <2>1. Sound(n, net[p], heard[p], texts[Peer(p)])
    BY <1>1, <1>4, SoundPasses DEF Passes
  <2>2. Sound(n, Tail(net[p]), heard[p], texts[Peer(p)])
    BY <1>1, <2>1, SoundArrived
  <2>3. QED
    BY <1>2, <1>3, <1>4, <2>2, OneKeeps DEF Consume
<1>5. PICK e \in End : e = end[p]
  BY <1>1
<1>6. CASE Terminate(p)
  BY <1>1, <1>2, <1>3, <1>6, StopsBy, StopsKeeps
<1>7. CASE end' = end /\ Consume(p)
  <2>1. end' = [end EXCEPT ![p] = e]
    BY <1>5, <1>7 DEF TypeInv
  <2>2. (e.st \in Over => e.sendCtr = 0) /\ Locked(e)
    BY <1>1, <1>5 DEF Sound
  <2>3. QED
    BY <1>4, <1>5, <1>7, <2>1, <2>2
<1>8. CASE end' = [end EXCEPT ![p].st = "WAITING_FOR_PEER"] /\ Consume(p)
  <2>1. PICK n : n = [e EXCEPT !.st = "WAITING_FOR_PEER"]
    OBVIOUS
  <2>2. "WAITING_FOR_PEER" \in SessionState
    BY DEF SessionState
  <2>3. n \in End /\ n.inq = e.inq /\ n.st = "WAITING_FOR_PEER"
    BY <2>1, <2>2 DEF End
  <2>4. (n.st \in Over => n.sendCtr = 0) /\ Locked(n)
    BY <2>3 DEF Over, Locked
  <2>5. end' = [end EXCEPT ![p] = n]
    BY <1>5, <1>8, <2>1
  <2>6. QED
    BY <1>4, <1>5, <1>8, <2>3, <2>4, <2>5
<1>9. QED
  BY <1>6, <1>7, <1>8 DEF SkipProbe

LEMMA ArriveAckKeeps ==
  ASSUME TypeInv, NEW p \in Role, ArriveAck(p)
  PROVE  TypeInv'
<1>1. PICK role \in Role : /\ Arrives(p, AckOf(role))
                           /\ IF end[p].kind = "resuming" THEN SendProbe(p) ELSE SkipProbe(p, role)
  BY DEF ArriveAck
<1>2. UNCHANGED <<slot, roomGone, texts, heard, offers, faults>>
  BY DEF ArriveAck
<1>3. CASE SendProbe(p)
  BY <1>1, <1>2, <1>3, ProbeKeeps
<1>4. CASE SkipProbe(p, role)
  BY <1>1, <1>2, <1>4, SkipProbeKeeps
<1>5. QED
  BY <1>1, <1>3, <1>4

LEMMA LockedEndTyped ==
  ASSUME NEW r \in Record
  PROVE  LET n == LockedEnd(r)
         IN /\ n \in End /\ n.inq = <<>> /\ n.sendCtr = 0 /\ n.st = "RESUMING" /\ n.rec = r
            /\ Locked(n)
<1>1. PICK m \in {"RAM", "PRF"} : m = IF r.hardened THEN "PRF" ELSE "RAM"
  OBVIOUS
<1>2. InitialEnd \in End /\ InitialEnd.inq = <<>> /\ InitialEnd.sendCtr = 0
  BY EmptyQueue DEF InitialEnd, End, SessionState
<1>3. PICK d \in End : d = InitialEnd /\ d.inq = <<>> /\ d.sendCtr = 0
  BY <1>2
<1>4. "RESUMING" \in SessionState
  BY DEF SessionState
<1>5. PICK n : n = [d EXCEPT !.st = "RESUMING", !.kind = "pre", !.link = "closed", !.rec = r,
                             !.shook = FALSE, !.mode = "PRF", !.peerMode = m]
  OBVIOUS
<1>6. n \in End
  BY ZenonT(60), <1>4, <1>5 DEF End
<1>7. n.inq = <<>> /\ n.sendCtr = 0 /\ n.st = "RESUMING" /\ n.rec = r
  BY <1>3, <1>5 DEF End
<1>8. n = LockedEnd(r)
  BY <1>1, <1>3, <1>5 DEF LockedEnd
<1>9. r # NoRecord
  <2>1. r.stored = TRUE
    BY DEF Record
  <2>2. QED
    BY <2>1 DEF NoRecord
<1>10. QED
  BY <1>6, <1>7, <1>8, <1>9 DEF Locked, Stored

\* What F5 leaves of an end.
LEMMA ReloadFacts ==
  ASSUME NEW e \in End
  PROVE  LET n == IF Resumable(e.rec) THEN LockedEnd(e.rec)
                  ELSE [InitialEnd EXCEPT !.st = "TERMINATED", !.kind = "pre", !.link = "closed"]
         IN /\ n \in End /\ n.inq = <<>> /\ n.sendCtr = 0 /\ n.st \in {"RESUMING", "TERMINATED"}
            /\ n.rec \in {e.rec, NoRecord} /\ Locked(n)
<1>1. CASE Resumable(e.rec)
  <2>1. e.rec \in Record
    BY <1>1 DEF Resumable, End
  <2>2. PICK n : n = LockedEnd(e.rec)
    OBVIOUS
  <2>3. /\ n \in End /\ n.inq = <<>> /\ n.sendCtr = 0 /\ n.st = "RESUMING" /\ n.rec = e.rec
        /\ Locked(n)
    BY <2>1, <2>2, LockedEndTyped
  <2>4. QED
    BY <1>1, <2>2, <2>3
<1>2. CASE ~Resumable(e.rec)
  <2>1. PICK n : n = [InitialEnd EXCEPT !.st = "TERMINATED", !.kind = "pre", !.link = "closed"]
    OBVIOUS
  <2>2. n \in End /\ n.inq = <<>> /\ n.sendCtr = 0 /\ n.st = "TERMINATED" /\ n.rec = NoRecord
    <3>1. /\ InitialEnd \in End /\ InitialEnd.inq = <<>> /\ InitialEnd.sendCtr = 0
          /\ InitialEnd.rec = NoRecord
      BY EmptyQueue DEF InitialEnd, End, SessionState
    <3>2. PICK d \in End : d = InitialEnd /\ d.inq = <<>> /\ d.sendCtr = 0 /\ d.rec = NoRecord
      BY <3>1
    <3>3. n = [d EXCEPT !.st = "TERMINATED", !.kind = "pre", !.link = "closed"]
      BY <2>1, <3>2
    <3>4. "TERMINATED" \in SessionState
      BY DEF SessionState
    <3>5. n \in End
      <4>1. n = [[d EXCEPT !.st = "TERMINATED", !.rec = NoRecord] EXCEPT !.kind = "pre", !.link = "closed"]
        BY ZenonT(60), <3>2, <3>3 DEF End
      <4>2. NoRecord \in Rec
        BY DEF Rec
      <4>3. [d EXCEPT !.st = "TERMINATED", !.rec = NoRecord] \in End
        BY <3>4, <4>2, Replaced
      <4>4. QED
        BY <4>1, <4>3, Replaced
    <3>6. QED
      BY <3>2, <3>3, <3>5 DEF End
  <2>3. QED
    BY <1>2, <2>1, <2>2 DEF Locked
<1>3. QED
  BY <1>1, <1>2

LEMMA FaultTyped ==
  ASSUME TypeInv, NEW f, Fault(f)
  PROVE  faults' \in 0..MaxFaults /\ faults' # 0
<1>1. faults \in 0..MaxFaults /\ faults < MaxFaults /\ faults' = faults + 1
  BY DEF Fault, TypeInv
<1>2. QED
  BY <1>1

LEMMA PageKeeps ==
  ASSUME TypeInv, NEW p \in Role, Drop(p) \/ Fill(p) \/ Reload(p) \/ FinalizeTermination(p)
  PROVE  TypeInv'
<1>1. /\ end[p] \in End /\ end \in [Role -> End] /\ net \in [Role -> Seq(Frame)] /\ net[p] \in Seq(Frame)
      /\ Sound(end[p], net[p], heard[p], texts[Peer(p)])
  BY DEF TypeInv
<1>2. UNCHANGED <<slot, roomGone, texts, heard, offers, ids>> /\ faults' \in 0..MaxFaults
  <2>1. UNCHANGED <<slot, roomGone, texts, heard, offers, ids>>
    BY DEF Drop, Fill, Reload, FinalizeTermination, counts
  <2>2. CASE Drop(p) \/ Fill(p) \/ Reload(p)
    <3>1. PICK f : Fault(f)
      BY <2>2 DEF Drop, Fill, Reload
    <3>2. QED
      BY <2>1, <3>1, FaultTyped
  <2>3. CASE FinalizeTermination(p)
    BY <2>1, <2>3 DEF FinalizeTermination, counts, TypeInv
  <2>4. QED
    BY <2>2, <2>3
<1>3. slot' \in [Role -> Seat] /\ roomGone' \in BOOLEAN /\ ids' \in Nat
  BY <1>2 DEF TypeInv
<1>4. PICK e \in End : e = end[p]
  BY <1>1
<1>5. CASE Drop(p)
  <2>1. PICK n : n = [e EXCEPT !.link = "broken"]
    OBVIOUS
  <2>2. /\ n \in End /\ n.inq = e.inq /\ n.st = e.st /\ n.sendCtr = e.sendCtr /\ n.rec = e.rec
    BY <2>1 DEF End
  <2>3. (n.st \in Over => n.sendCtr = 0) /\ Locked(n)
    BY <1>1, <1>4, <2>2 DEF Sound, Locked, Stored
  <2>4. Sound(n, <<>>, heard[p], texts[Peer(p)])
    BY <1>1, <1>4, <2>2, <2>3, EmptyQueue, SoundLost
  <2>5. end' = [end EXCEPT ![p] = n] /\ net' = [net EXCEPT ![p] = <<>>]
    BY <1>1, <1>4, <1>5, <2>1 DEF Drop
  <2>6. QED
    BY <1>2, <1>3, <2>4, <2>5, OneKeeps
<1>6. CASE Reload(p)
  <2>1. PICK n : n = IF Resumable(e.rec) THEN LockedEnd(e.rec)
                     ELSE [InitialEnd EXCEPT !.st = "TERMINATED", !.kind = "pre", !.link = "closed"]
    OBVIOUS
  <2>2. n \in End /\ n.inq = <<>> /\ n.sendCtr = 0 /\ Locked(n)
    BY <2>1, ReloadFacts
  <2>3. Sound(n, <<>>, heard[p], texts[Peer(p)])
    BY <1>1, <2>2, EmptyQueue, SoundLost
  <2>4. end' = [end EXCEPT ![p] = n] /\ net' = [net EXCEPT ![p] = <<>>]
    BY <1>4, <1>6, <2>1 DEF Reload
  <2>5. QED
    BY <1>2, <1>3, <2>3, <2>4, OneKeeps
<1>7. CASE FinalizeTermination(p)
  <2>1. PICK n : n = [e EXCEPT !.st = "TERMINATED", !.rec = NoRecord]
    OBVIOUS
  <2>2. /\ n \in End /\ n.inq = e.inq /\ n.st = "TERMINATED" /\ n.sendCtr = e.sendCtr
    BY <2>1 DEF End, SessionState
  <2>3. n.sendCtr = 0 /\ Locked(n)
    BY <1>1, <1>4, <1>7, <2>2 DEF FinalizeTermination, Sound, Over, Locked
  <2>4. Sound(n, net[p], heard[p], texts[Peer(p)])
    BY <1>1, <1>4, <2>2, <2>3, SoundPasses DEF Passes
  <2>5. end' = [end EXCEPT ![p] = n] /\ net' = [net EXCEPT ![p] = net[p]]
    BY <1>1, <1>4, <1>7, <2>1 DEF FinalizeTermination
  <2>6. QED
    BY <1>2, <1>3, <2>4, <2>5, OneKeeps
<1>9. CASE Fill(p)
  <2>1. PICK n : n = [e EXCEPT !.full = TRUE]
    OBVIOUS
  <2>2. /\ n \in End /\ n.inq = e.inq /\ n.st = e.st /\ n.sendCtr = e.sendCtr /\ n.rec = e.rec
    BY <2>1 DEF End
  <2>3. (n.st \in Over => n.sendCtr = 0) /\ Locked(n)
    BY <1>1, <1>4, <2>2 DEF Sound, Locked, Stored
  <2>4. Sound(n, net[p], heard[p], texts[Peer(p)])
    BY <1>1, <1>4, <2>2, <2>3, SoundPasses DEF Passes
  <2>5. end' = [end EXCEPT ![p] = n] /\ net' = [net EXCEPT ![p] = net[p]]
    BY <1>1, <1>4, <1>9, <2>1 DEF Fill
  <2>6. QED
    BY <1>2, <1>3, <2>4, <2>5, OneKeeps
<1>8. QED
  BY <1>5, <1>6, <1>7, <1>9

\* What a step is, seen from one end or one slot.
StepOf(p) ==
  \/ Stretch(p) \/ Stops(p) \/ ArriveRelay(p) \/ ArriveAck(p)
  \/ ArrivePeerJoined(p) \/ ArrivePeerDisconnected(p) \/ Reopen(p)
  \/ ServerNotices(p) \/ GraceExpires(p) \/ Drop(p) \/ Fill(p) \/ Reload(p)
  \/ FinalizeTermination(p)

LEMMA NextCases ==
  ASSUME TypeInv, Next
  PROVE  faults' \in 0..MaxFaults /\ (faults' = faults \/ faults' # 0) /\ \E p \in Role : StepOf(p)
<1>1. PICK p \in Role :
        \/ User(p) \/ Machine(p) \/ Server(p) \/ Reopen(p) \/ ReconnectExhausted(p)
        \/ Drop(p) \/ Fill(p) \/ Drain(p) \/ Leave(p) \/ WorkFails(p) \/ Reload(p)
  BY DEF Next
<1>2. StepOf(p)
  <2>1. CASE User(p)
    <3>1. Stretch(p) \/ Stops(p)
      BY <2>1, SayShape, OfferFileShape, DeclineFileShape, UnlockShape, StopShape, UpgradeShape DEF User
    <3>2. QED
      BY <3>1 DEF StepOf
  <2>2. CASE Inbound(p)
    <3>1. Stretch(p) \/ Stops(p)
      BY <2>2, RejectShape, HandleTextShape, HandleResumeShape, HandleResumeAckShape,
         HandleModeUpgradedShape, HandleRekeyShape, HandleFileShape DEF Inbound
    <3>2. QED
      BY <3>1 DEF StepOf
  <2>3. CASE Resumption(p)
    <3>1. Stretch(p)
      BY <2>3, UpgradeNotifiesShape, SendRekeyInitShape, AnswerRekeyInitShape, TakeRekeyAckShape,
         FinishCommitShape, FinishResumeShape DEF Resumption
    <3>2. QED
      BY <3>1 DEF StepOf
  <2>4. CASE Arrive(p)
    BY <2>4, StopShape DEF Arrive, StepOf
  <2>5. CASE SocketCloses(p)
    BY <2>5, SocketClosesShape DEF StepOf
  <2>6. CASE FinalizeTermination(p) \/ Reopen(p) \/ Drop(p) \/ Fill(p) \/ Reload(p)
    BY <2>6 DEF StepOf
  <2>7. CASE ReconnectExhausted(p) \/ Leave(p) \/ WorkFails(p)
    BY <2>7, StopShape DEF StepOf
  <2>8. CASE Server(p)
    BY <2>8 DEF Server, StepOf
  <2>10. CASE Drain(p)
    BY <2>10, DrainShape DEF StepOf
  <2>9. QED
    BY <1>1, <2>1, <2>2, <2>3, <2>4, <2>5, <2>6, <2>7, <2>8, <2>10 DEF Machine
<1>3. faults' \in 0..MaxFaults /\ (faults' = faults \/ faults' # 0)
  <2>1. CASE Drop(p) \/ Fill(p) \/ Leave(p) \/ WorkFails(p) \/ Reload(p)
    <3>1. PICK f : Fault(f)
      BY <2>1 DEF Drop, Fill, Leave, WorkFails, Reload
    <3>2. QED
      BY <3>1, FaultTyped
  <2>2. CASE ~(Drop(p) \/ Fill(p) \/ Leave(p) \/ WorkFails(p) \/ Reload(p))
    <3>1. faults' = faults
      <4>1. CASE User(p)
        BY <4>1 DEF User, Say, OfferFile, DeclineFile, Unlock, VisibilityWake, StartUpgrade,
           UpgradeFails, UpgradeSucceeds, counts
      <4>2. CASE Inbound(p)
        BY <4>2 DEF Inbound, RejectFrame, HandleText, HandleResume, HandleResumeAck,
           HandleModeUpgraded, HandleRekeyInit, HandleRekeyAck, HandleRekeyDone, HandleFileOffer,
           HandleFileEnd, counts
      <4>3. CASE Resumption(p)
        BY <4>3 DEF Resumption, UpgradeNotifies, SendRekeyInit, AnswerRekeyInit, TakeRekeyAck,
           FinishCommit, FinishResume, counts
      <4>4. CASE Arrive(p)
        BY <4>4 DEF Arrive, ArriveRelay, ArriveAck, ArrivePeerJoined, ArrivePeerDisconnected,
           ArrivePeerLeft, counts
      <4>5. CASE \/ SocketCloses(p) \/ FinalizeTermination(p) \/ Server(p) \/ Reopen(p)
                 \/ ReconnectExhausted(p) \/ Drain(p)
        BY <4>5 DEF SocketCloses, FinalizeTermination, Server, ServerNotices, GraceExpires,
           Reopen, ReconnectExhausted, Drain, counts
      <4>6. QED
        BY <1>1, <2>2, <4>1, <4>2, <4>3, <4>4, <4>5 DEF Machine
    <3>2. QED
      BY <3>1 DEF TypeInv
  <2>3. QED
    BY <2>1, <2>2
<1>4. QED
  BY <1>2, <1>3

LEMMA InitTyped == Init => TypeInv
<1> SUFFICES ASSUME Init
             PROVE  TypeInv
  OBVIOUS
<1>1. InitialEnd \in End /\ InitialEnd.inq = <<>> /\ InitialEnd.st = "ACTIVE"
  BY EmptyQueue DEF InitialEnd, End, SessionState
<1>2. PICK e \in End : e = InitialEnd /\ e.inq = <<>> /\ e.st = "ACTIVE"
  BY <1>1
<1>3. Sound(e, <<>>, 0, 0)
  BY <1>2, EmptyQueue DEF Sound, Over, Locked
<1>4. /\ end = [p \in Role |-> e] /\ net = [p \in Role |-> <<>>]
      /\ texts = [p \in Role |-> 0] /\ heard = [p \in Role |-> 0] /\ offers = [p \in Role |-> 0]
      /\ faults = 0 /\ ids = 0 /\ roomGone = FALSE
      /\ slot = [p \in Role |-> [who |-> p, current |-> TRUE]]
  BY <1>2 DEF Init
<1>5. \A p \in Role : Sound(end[p], net[p], heard[p], texts[Peer(p)])
  BY <1>3, <1>4, Peers
<1>6. slot \in [Role -> Seat]
  BY <1>4, SeatFacts
<1>7. 0 \in 0..MaxTexts /\ 0 \in 0..MaxOffers /\ 0 \in 0..MaxFaults
  BY BoundAssumption
<1>8. end \in [Role -> End] /\ net \in [Role -> Seq(Frame)]
  BY <1>4, EmptyQueue
<1>9. QED
  BY <1>4, <1>5, <1>6, <1>7, <1>8 DEF TypeInv

LEMMA StepTyped == TypeInv /\ [Next]_vars => TypeInv'
<1>1. ASSUME TypeInv, Next
      PROVE  TypeInv'
  <2>1. PICK p \in Role : StepOf(p) /\ faults' \in 0..MaxFaults
    BY <1>1, NextCases
  <2>2. QED
    BY <1>1, <2>1, StretchKeeps, StopsKeeps, ArriveRelayKeeps, ArriveAckKeeps, ArrivePeerKeeps,
       ReopenKeeps, ServerKeeps, PageKeeps DEF StepOf
<1>2. ASSUME TypeInv, UNCHANGED vars
      PROVE  TypeInv'
  BY <1>2 DEF TypeInv, vars, counts
<1>3. QED
  BY <1>1, <1>2

LEMMA UnsentStep ==
  unsent \subseteq Awaited /\ [Next]_vars => (unsent \subseteq Awaited)'
<1>1. ASSUME unsent \subseteq Awaited, Next
      PROVE  unsent' \subseteq Awaited
  <2>1. PICK p \in Role :
          \/ User(p) \/ Machine(p) \/ Server(p) \/ Reopen(p) \/ ReconnectExhausted(p)
          \/ Drop(p) \/ Fill(p) \/ Drain(p) \/ Leave(p) \/ WorkFails(p) \/ Reload(p)
    BY <1>1 DEF Next
  <2>2. CASE User(p)
    BY <1>1, <2>2 DEF User, Say, OfferFile, DeclineFile, Unlock, VisibilityWake, StartUpgrade,
       UpgradeFails, UpgradeSucceeds, counts
  <2>3. CASE Inbound(p)
    BY <1>1, <2>3 DEF Inbound, RejectFrame, HandleText, HandleResume, HandleResumeAck,
       HandleModeUpgraded, HandleRekeyInit, HandleRekeyAck, HandleRekeyDone, HandleFileOffer,
       HandleFileEnd, counts
  <2>4. CASE Resumption(p)
    <3>1. CASE TakeRekeyAck(p) \/ FinishCommit(p)
      BY <1>1, <3>1 DEF TakeRekeyAck, FinishCommit, counts
    <3>2. CASE ~(TakeRekeyAck(p) \/ FinishCommit(p))
      <4>1. \E type \in Awaited : Skipped(p, type)
        BY <2>4, <3>2 DEF Resumption, UpgradeNotifies, SendRekeyInit, AnswerRekeyInit, FinishResume,
           Awaited
      <4>2. QED
        BY <1>1, <4>1 DEF Skipped
    <3>3. QED
      BY <3>1, <3>2
  <2>5. CASE Arrive(p)
    <3>1. CASE ArriveAck(p)
      <4>1. unsent' = unsent \/ unsent' = unsent \cup {"resume"}
        BY <3>1 DEF ArriveAck, SendProbe, SkipProbe
      <4>2. QED
        BY <1>1, <4>1 DEF Awaited
    <3>2. CASE ~ArriveAck(p)
      BY <1>1, <2>5, <3>2 DEF Arrive, ArriveRelay, ArrivePeerJoined, ArrivePeerDisconnected,
         ArrivePeerLeft, counts
    <3>3. QED
      BY <3>1, <3>2
  <2>6. CASE SocketCloses(p) \/ FinalizeTermination(p) \/ Server(p) \/ Reopen(p) \/ ReconnectExhausted(p)
    BY <1>1, <2>6 DEF SocketCloses, FinalizeTermination, Server, ServerNotices, GraceExpires,
       Reopen, ReconnectExhausted, counts
  <2>7. CASE Drop(p) \/ Fill(p) \/ Drain(p) \/ Leave(p) \/ WorkFails(p) \/ Reload(p)
    BY <1>1, <2>7 DEF Drop, Fill, Drain, Leave, WorkFails, Reload, counts
  <2>8. QED
    BY <2>1, <2>2, <2>3, <2>4, <2>5, <2>6, <2>7 DEF Machine
<1>2. ASSUME unsent \subseteq Awaited, UNCHANGED vars
      PROVE  unsent' \subseteq Awaited
  BY <1>2 DEF vars, counts
<1>3. QED
  BY <1>1, <1>2

\* The type invariant of the two ends, for every number of texts, offers and
\* faults: the state of an end, its record and the frames under way keep their
\* types, the counters of texts stay within what was sent.
THEOREM SessionTyped == Spec => []TypeOK
<1>1. Spec => []TypeInv
  BY InitTyped, StepTyped, PTL DEF Spec
<1>2. Init => unsent \subseteq Awaited
  BY DEF Init
<1>3. unsent \subseteq Awaited /\ [Next]_vars => (unsent \subseteq Awaited)'
  BY UnsentStep
<1>4. QED
  BY <1>1, <1>2, <1>3, TypeInvTypes, PTL DEF Spec

-----------------------------------------------------------------------------
(* A terminated session is silent                                          *)

LEMMA OthersKept ==
  ASSUME TypeInv, NEW p \in Role, StepOf(p)
  PROVE  \A q \in Role : q # p => end'[q] = end[q]
<1>1. end \in [Role -> End]
  BY DEF TypeInv
<1>2. \E n : end' = [end EXCEPT ![p] = n]
  <2>1. CASE Stretch(p) \/ Stops(p)
    BY <2>1 DEF Stretch, Local, Stops
  <2>2. CASE ArriveRelay(p) \/ ArrivePeerJoined(p)
    BY <1>1, <2>2 DEF ArriveRelay, ArrivePeerJoined
  <2>7. CASE ArriveAck(p)
    <3>1. \/ end' = end
          \/ end' = [end EXCEPT ![p].st = "WAITING_FOR_PEER"]
          \/ end' = [end EXCEPT ![p] = EndedAs(end[p])]
          \/ \E n : end' = [end EXCEPT ![p] = n]
      BY <2>7 DEF ArriveAck, SendProbe, SkipProbe, Terminate
    <3>2. end = [end EXCEPT ![p] = end[p]]
      BY <1>1
    <3>3. QED
      BY <3>1, <3>2
  <2>3. CASE ArrivePeerDisconnected(p) \/ Reopen(p)
    BY <1>1, <2>3 DEF ArrivePeerDisconnected, Reopen, Terminate
  <2>4. CASE Drop(p) \/ Fill(p) \/ Reload(p) \/ FinalizeTermination(p)
    BY <1>1, <2>4 DEF Drop, Fill, Reload, FinalizeTermination
  <2>5. CASE ServerNotices(p) \/ GraceExpires(p)
    <3>1. end' = end
      BY <2>5 DEF ServerNotices, GraceExpires
    <3>2. end' = [end EXCEPT ![p] = end[p]]
      BY <1>1, <3>1
    <3>3. QED
      BY <3>2
  <2>6. QED
    BY <2>1, <2>2, <2>3, <2>4, <2>5, <2>7 DEF StepOf
<1>3. QED
  BY <1>1, <1>2

LEMMA OverStep ==
  ASSUME TypeInv, NEW p \in Role, StepOf(p), ~Alive(p)
  PROVE  /\ end'[p].rec \in {end[p].rec, NoRecord}
         /\ end'[p].st \in {"FATAL_ENDING", "TERMINATED", "RESUMING"}
         /\ end'[p].sendCtr = end[p].sendCtr
         /\ end'[p].st = "RESUMING" => Reload(p)
<1>1. /\ end \in [Role -> End] /\ end[p] \in End /\ end[p].st \in {"FATAL_ENDING", "TERMINATED"}
      /\ Sound(end[p], net[p], heard[p], texts[Peer(p)])
  BY DEF TypeInv, Alive
<1>2. end[p].sendCtr = 0
  BY <1>1 DEF Sound, Over
<1>3. \/ ServerNotices(p) \/ GraceExpires(p) \/ Reload(p) \/ FinalizeTermination(p)
  BY DEF StepOf, Stretch, Stops, ArriveRelay, ArriveAck, ArrivePeerJoined, ArrivePeerDisconnected,
         Arrives, Reopen, Drop, Fill
<1>4. CASE ServerNotices(p) \/ GraceExpires(p)
  <2>1. end' = end
    BY <1>4 DEF ServerNotices, GraceExpires
  <2>2. QED
    BY <1>1, <2>1
<1>5. CASE Reload(p)
  <2>1. PICK e \in End : e = end[p]
    BY <1>1
  <2>2. PICK n : n = IF Resumable(e.rec) THEN LockedEnd(e.rec)
                     ELSE [InitialEnd EXCEPT !.st = "TERMINATED", !.kind = "pre", !.link = "closed"]
    OBVIOUS
  <2>3. n.sendCtr = 0 /\ n.st \in {"RESUMING", "TERMINATED"} /\ n.rec \in {e.rec, NoRecord}
    BY <2>2, ReloadFacts
  <2>4. end' = [end EXCEPT ![p] = n]
    BY <1>5, <2>1, <2>2 DEF Reload
  <2>5. end'[p] = n
    BY <1>1, <2>4
  <2>6. QED
    BY <1>2, <1>5, <2>1, <2>3, <2>5
<1>6. CASE FinalizeTermination(p)
  <2>1. PICK e \in End : e = end[p]
    BY <1>1
  <2>2. PICK n : n = [e EXCEPT !.st = "TERMINATED", !.rec = NoRecord]
    OBVIOUS
  <2>3. n.st = "TERMINATED" /\ n.rec = NoRecord /\ n.sendCtr = e.sendCtr
    BY <2>2 DEF End
  <2>4. end'[p] = n
    BY <1>1, <1>6, <2>1, <2>2 DEF FinalizeTermination
  <2>5. QED
    BY <2>1, <2>3, <2>4
<1>7. QED
  BY <1>3, <1>4, <1>5, <1>6

LEMMA SilentStep ==
  TypeInv /\ [Next]_vars =>
    [\A p \in Role : ~Alive(p) =>
       /\ end'[p].rec \in {end[p].rec, NoRecord}
       /\ end'[p].st \in {"FATAL_ENDING", "TERMINATED", "RESUMING"}
       /\ end'[p].sendCtr = end[p].sendCtr]_vars
<1>1. ASSUME TypeInv, Next, NEW q \in Role, ~Alive(q)
      PROVE  /\ end'[q].rec \in {end[q].rec, NoRecord}
             /\ end'[q].st \in {"FATAL_ENDING", "TERMINATED", "RESUMING"}
             /\ end'[q].sendCtr = end[q].sendCtr
  <2>1. PICK p \in Role : StepOf(p)
    BY <1>1, NextCases
  <2>2. CASE q = p
    BY <1>1, <2>1, <2>2, OverStep
  <2>3. CASE q # p
    <3>1. end'[q] = end[q]
      BY <1>1, <2>1, <2>3, OthersKept
    <3>2. end[q].st \in {"FATAL_ENDING", "TERMINATED"}
      BY <1>1 DEF Alive
    <3>3. QED
      BY <3>1, <3>2
  <2>4. QED
    BY <2>2, <2>3
<1>2. QED
  BY <1>1

\* TERMINATED is final (docs/02-protocol.md): however many faults strike, and
\* whatever work returns from its wait, a session that has ended writes no
\* record and sends nothing; only F5 within the three seconds of FATAL_ENDING
\* leads out of it, to a page that resumes from the record it left.
THEOREM TerminatedStaysSilent == Spec => TerminatedIsSilent
<1>1. Spec => []TypeInv
  BY InitTyped, StepTyped, PTL DEF Spec
<1>2. QED
  BY <1>1, SilentStep, PTL DEF Spec, TerminatedIsSilent

-----------------------------------------------------------------------------
(* No text is lost before the first fault                                  *)

BothAlive == \A p \in Role : Alive(p)

\* One end, its place in the room, and what it has still to handle.
Calm(p) ==
  /\ slot[p] = [who |-> p, current |-> TRUE] /\ AtEase(end[p])
  /\ Plain(end[p].inq) /\ Plain(net[p])
  /\ Exact(end[p], net[p], heard[p], texts[Peer(p)])

CalmInv == faults = 0 /\ BothAlive => roomGone = FALSE /\ \A p \in Role : Calm(p)

\* Without a fault nobody comes back from the end of a session.
LEMMA AliveBefore ==
  ASSUME TypeInv, Next, faults' = 0, BothAlive'
  PROVE  faults = 0 /\ BothAlive
<1>1. faults = 0
  BY NextCases
<1>2. ASSUME NEW q \in Role, ~Alive(q)
      PROVE  FALSE
  <2>1. PICK p \in Role : StepOf(p)
    BY NextCases
  <2>2. end'[q].st \notin {"FATAL_ENDING", "TERMINATED"}
    BY DEF BothAlive, Alive
  <2>3. end[q].st \in {"FATAL_ENDING", "TERMINATED"}
    BY <1>2 DEF Alive
  <2>4. q = p
    BY <2>1, <2>2, <2>3, OthersKept
  <2>5. Reload(p)
    BY <1>2, <2>1, <2>2, <2>4, OverStep
  <2>6. Fault("reload")
    BY <2>5 DEF Reload
  <2>7. QED
    BY <2>6, FaultTyped
<1>3. QED
  BY <1>1, <1>2 DEF BothAlive

LEMMA CalmReaches ==
  ASSUME \A q \in Role : Calm(q)
  PROVE  \A p \in Role : Live(p) /\ Reaches(p) /\ slot[p] # Empty
<1>1. ASSUME NEW q \in Role
      PROVE  Live(q) /\ slot[q].who = q /\ slot[q] # Empty
  <2>1. slot[q] = [who |-> q, current |-> TRUE] /\ end[q].link = "open"
    BY DEF Calm, AtEase
  <2>2. slot[q].who = q /\ slot[q].current = TRUE
    BY <2>1
  <2>3. Empty.current = FALSE
    BY DEF Empty
  <2>4. QED
    BY <2>1, <2>2, <2>3 DEF Live
<1>2. QED
  BY <1>1, Peers DEF Reaches

LEMMA CalmStretch ==
  ASSUME TypeInv, NEW p \in Role, Stretch(p), \A q \in Role : Calm(q)
  PROVE  \A q \in Role : Calm(q)'
<1>1. PICK n, out, id, g : Local(p, n, out, id) /\ Passes(n, end[p], heard[p], g)
  BY DEF Stretch
<1>2. PICK o \in Role : o = Peer(p) /\ o # p /\ Peer(o) = p /\ \A q \in Role : q = p \/ q = o
  BY Peers
<1>3. /\ end \in [Role -> End] /\ net \in [Role -> Seq(Frame)] /\ end[p] \in End /\ net[o] \in Seq(Frame)
      /\ end[p].inq \in Seq(Frame)
  BY InqTyped DEF TypeInv
<1>4. /\ AtEase(end[p]) /\ AtEase(end[o]) /\ Plain(end[p].inq) /\ Plain(end[o].inq)
      /\ Plain(net[p]) /\ Plain(net[o])
  BY DEF Calm
<1>5. AtEase(n) /\ n \in End /\ end' = [end EXCEPT ![p] = n] /\ slot' = slot
  BY <1>1, <1>4 DEF Local, GoesOn, Stretch
<1>6. Plain(n.inq)
  BY <1>1, <1>3, <1>4, PlainParts DEF Passes
<1>7. net'[p] = net[p] /\ net'[o] \in Seq(Frame) /\ Plain(net'[o])
  <2>1. PICK fs : fs = RelayFrames(end[p], out, id)
    OBVIOUS
  <2>2. out \in Seq(Relayed) /\ id \in Nat /\ PlainKinds(out)
    BY <1>1, <1>4 DEF Local, Kinds
  <2>3. fs \in Seq(Frame) /\ Plain(fs)
    BY <1>3, <2>1, <2>2, FramesTyped DEF PlainKinds
  <2>4. Plain(net[o] \o fs) /\ net[o] \o fs \in Seq(Frame)
    BY <1>3, <1>4, <2>3, PlainParts
  <2>5. net' = net \/ net' = [net EXCEPT ![o] = net[o] \o fs]
    BY <1>1, <1>2, <2>1 DEF Local
  <2>6. QED
    BY <1>2, <1>3, <1>4, <2>4, <2>5
<1>8. Reaches(p)
  BY CalmReaches
<1>9. \A q \in Role : Exact(end[q], net[q], heard[q], texts[Peer(q)])'
  BY <1>8, StretchKeeps DEF Calm
<1>10. ASSUME NEW q \in Role
       PROVE  Calm(q)'
  <2>1. slot'[q] = [who |-> q, current |-> TRUE]
    BY <1>5 DEF Calm
  <2>2. AtEase(end'[q]) /\ Plain(end'[q].inq) /\ Plain(net'[q])
    BY <1>2, <1>3, <1>4, <1>5, <1>6, <1>7
  <2>3. QED
    BY <1>9, <2>1, <2>2 DEF Calm, AtEase, Plain
<1>11. QED
  BY <1>10

LEMMA CalmArrive ==
  ASSUME TypeInv, NEW p \in Role, ArriveRelay(p), \A q \in Role : Calm(q)
  PROVE  \A q \in Role : Calm(q)'
<1>1. PICK type \in ModeKind \cup Envelope : Arrives(p, type)
  BY DEF ArriveRelay
<1>2. /\ end[p] \in End /\ net[p] \in Seq(Frame) /\ net[p] # <<>> /\ Head(net[p]) \in Frame
      /\ end[p].inq \in Seq(Frame)
  BY <1>1, ArrivesFacts, InqTyped
<1>3. end \in [Role -> End] /\ net \in [Role -> Seq(Frame)]
  BY DEF TypeInv
<1>4. PICK e \in End, f \in Frame : e = end[p] /\ f = Head(net[p])
  BY <1>2
<1>5. PICK n : n = [e EXCEPT !.inq = Append(e.inq, f)]
  OBVIOUS
<1>6. end'[p] = n /\ net'[p] = Tail(net[p]) /\ slot' = slot /\ \A q \in Role : q # p => end'[q] = end[q] /\ net'[q] = net[q]
  BY <1>3, <1>4, <1>5 DEF ArriveRelay, Consume
<1>7. AtEase(e) /\ Plain(e.inq) /\ Plain(net[p])
  BY <1>4 DEF Calm
<1>8. f.type \in PlainKind /\ Plain(Tail(net[p]))
  BY <1>2, <1>4, <1>7, PlainParts
<1>9. n.inq = Append(e.inq, f) /\ AtEase(n)
  BY <1>5, <1>7 DEF End, AtEase
<1>10. Plain(n.inq)
  BY <1>2, <1>4, <1>7, <1>8, <1>9, PlainParts
<1>11. \A q \in Role : Exact(end[q], net[q], heard[q], texts[Peer(q)])'
  BY ArriveRelayKeeps DEF Calm
<1>12. ASSUME NEW q \in Role
       PROVE  Calm(q)'
  <2>1. slot'[q] = [who |-> q, current |-> TRUE]
    BY <1>6 DEF Calm
  <2>2. AtEase(end'[q]) /\ Plain(end'[q].inq) /\ Plain(net'[q])
    <3>1. CASE q = p
      BY <1>6, <1>8, <1>9, <1>10, <3>1
    <3>2. CASE q # p
      BY <1>6, <3>2 DEF Calm
    <3>3. QED
      BY <3>1, <3>2
  <2>3. QED
    BY <1>11, <2>1, <2>2 DEF Calm, AtEase, Plain
<1>13. QED
  BY <1>12

\* The other steps need a fault, a control frame, or somebody who is gone.
LEMMA CalmSteps ==
  ASSUME TypeInv, NEW p \in Role, StepOf(p), faults' = 0, BothAlive, BothAlive',
         \A q \in Role : Calm(q)
  PROVE  Stretch(p) \/ ArriveRelay(p)
<1>1. ~Stops(p)
  <2>1. SUFFICES ASSUME Stops(p)
                 PROVE  FALSE
    OBVIOUS
  <2>2. PICK n \in End : n.st \in Over /\ end' = [end EXCEPT ![p] = n]
    BY <2>1 DEF Stops
  <2>3. end'[p].st \in Over
    BY <2>2 DEF TypeInv
  <2>4. QED
    BY <2>3 DEF BothAlive, Alive, Over
<1>2. ~ArriveAck(p) /\ ~ArrivePeerJoined(p) /\ ~ArrivePeerDisconnected(p)
  <2>1. SUFFICES ASSUME NEW type \in Control, Arrives(p, type)
                 PROVE  FALSE
    BY AckKind DEF ArriveAck, ArrivePeerJoined, ArrivePeerDisconnected, Control
  <2>2. net[p] \in Seq(Frame) /\ net[p] # <<>> /\ Head(net[p]).type = type
    BY <2>1, ArrivesFacts
  <2>3. Head(net[p]).type \in PlainKind
    BY <2>2, PlainParts DEF Calm
  <2>4. QED
    BY <2>1, <2>2, <2>3 DEF Control, PlainKind, ModeKind
<1>3. ~Reopen(p)
  BY DEF Reopen, Calm, AtEase
<1>4. ~ServerNotices(p) /\ ~GraceExpires(p)
  BY CalmReaches, Peers DEF ServerNotices, GraceExpires
<1>5. ~Drop(p) /\ ~Fill(p) /\ ~Reload(p)
  BY FaultTyped DEF Drop, Fill, Reload
<1>6. ~FinalizeTermination(p)
  BY DEF FinalizeTermination, BothAlive, Alive
<1>7. QED
  BY <1>1, <1>2, <1>3, <1>4, <1>5, <1>6 DEF StepOf

LEMMA InitCalm == Init => CalmInv
<1> SUFFICES ASSUME Init
             PROVE  roomGone = FALSE /\ \A p \in Role : Calm(p)
  BY DEF CalmInv
<1>1. /\ InitialEnd.inq = <<>> /\ AtEase(InitialEnd)
  BY DEF InitialEnd, AtEase
<1>2. Plain(<<>>) /\ TextsIn(<<>>) = 0
  <2>1. \A q \in Seq(Frame) : q = <<>> => Len(q) = 0
    BY EmptySeq
  <2>2. \A q \in Seq(Frame) : q = <<>> => Plain(q)
    BY <2>1 DEF Plain
  <2>3. QED
    BY <2>2, EmptyQueue
<1>3. ASSUME NEW p \in Role
      PROVE  Calm(p)
  <2>1. /\ end[p] = InitialEnd /\ net[p] = <<>> /\ heard[p] = 0 /\ texts[Peer(p)] = 0
        /\ slot[p] = [who |-> p, current |-> TRUE]
    BY Peers DEF Init
  <2>2. QED
    BY <1>1, <1>2, <2>1 DEF Calm, Exact
<1>4. QED
  BY <1>3 DEF Init

LEMMA CalmStep == TypeInv /\ CalmInv /\ [Next]_vars => CalmInv'
<1>1. ASSUME TypeInv, CalmInv, Next, faults' = 0, BothAlive'
      PROVE  roomGone' = FALSE /\ \A q \in Role : Calm(q)'
  <2>1. faults = 0 /\ BothAlive
    BY <1>1, AliveBefore
  <2>2. roomGone = FALSE /\ \A q \in Role : Calm(q)
    BY <1>1, <2>1 DEF CalmInv
  <2>3. PICK p \in Role : StepOf(p)
    BY <1>1, NextCases
  <2>4. Stretch(p) \/ ArriveRelay(p)
    BY <1>1, <2>1, <2>2, <2>3, CalmSteps
  <2>5. roomGone' = roomGone
    BY <2>4 DEF Stretch, ArriveRelay
  <2>6. QED
    BY <1>1, <2>2, <2>4, <2>5, CalmStretch, CalmArrive
<1>2. ASSUME TypeInv, CalmInv, Next
      PROVE  CalmInv'
  BY <1>1, <1>2 DEF CalmInv, BothAlive, Calm
<1>3. ASSUME CalmInv, UNCHANGED vars
      PROVE  CalmInv'
  BY <1>3 DEF CalmInv, BothAlive, Alive, Calm, vars, counts
<1>4. QED
  BY <1>2, <1>3

LEMMA CalmLosesNone == TypeInv /\ CalmInv /\ faults = 0 => NoTextLost
<1>1. ASSUME TypeInv, CalmInv, faults = 0, BothAlive, NEW p \in Role
      PROVE  texts[Peer(p)] = heard[p] + TextsIn(Pending(p))
  <2>1. Exact(end[p], net[p], heard[p], texts[Peer(p)]) /\ end[p] \in End /\ net[p] \in Seq(Frame) /\ heard[p] \in Nat
    BY <1>1 DEF CalmInv, Calm, TypeInv
  <2>2. TextsIn(Pending(p)) = TextsIn(end[p].inq) + TextsIn(net[p])
    BY <2>1, InqTyped, TextsConcat DEF Pending
  <2>3. TextsIn(end[p].inq) \in Nat /\ TextsIn(net[p]) \in Nat
    BY <2>1, InqTyped, TextAtFinite
  <2>4. QED
    BY <2>1, <2>2, <2>3 DEF Exact
<1>2. QED
  BY <1>1 DEF NoTextLost, BothAlive

\* As long as no fault has struck and neither session has ended, each text that
\* an end sent is shown by the other or waits in its queues: none is lost to an
\* upgrade, a rekey, a file offer or a closed room, for any number of texts.
THEOREM NoTextIsLost == Spec => [](faults = 0 => NoTextLost)
<1>1. Spec => [](TypeInv /\ CalmInv)
  BY InitTyped, StepTyped, InitCalm, CalmStep, PTL DEF Spec
<1>2. QED
  BY <1>1, CalmLosesNone, PTL

-----------------------------------------------------------------------------
(* Queues of frames                                                        *)

Has(q, t) == \E k \in 1..Len(q) : q[k].type = t
Only(q, S) == \A k \in 1..Len(q) : q[k].type \in S
Single(q, t) == \A k, l \in 1..Len(q) : q[k].type = t /\ q[l].type = t => k = l
AtEnd(q, t) == \A k \in 1..Len(q) : q[k].type = t => k = Len(q)

\* Frames under one key with consecutive counters.
Chain(q, key, from, to) ==
  /\ \A k \in 1..Len(q) : q[k].key = key /\ q[k].ctr = from + k
  /\ to = from + Len(q)

\* Frames under the old key, the last of which is the REKEY_ACK, then frames
\* under the new one.
Turnover(q, from, to) ==
  \E c \in 1..Len(q) :
    /\ \A k \in 1..Len(q) : /\ q[k].type = "REKEY_ACK" <=> k = c
                            /\ k <= c => q[k].key = 0 /\ q[k].ctr = from + k
                            /\ k > c => q[k].key = 1 /\ q[k].ctr = k - c
    /\ to = Len(q) - c

LEMMA Nothing ==
  ASSUME NEW q, q = <<>>
  PROVE  /\ \A t : ~Has(q, t) /\ Single(q, t) /\ AtEnd(q, t)
         /\ \A S : Only(q, S)
         /\ \A key, n : n \in Nat => Chain(q, key, n, n)
         /\ \A key, n, m : n \in Nat /\ Chain(q, key, n, m) => n = m
<1>1. Len(q) = 0 /\ 1..Len(q) = {}
  OBVIOUS
<1>2. QED
  BY <1>1 DEF Has, Single, AtEnd, Only, Chain

LEMMA Appending ==
  ASSUME NEW q \in Seq(Frame), NEW x \in Frame, NEW r, r = Append(q, x)
  PROVE  /\ \A t : Has(r, t) <=> Has(q, t) \/ x.type = t
         /\ \A t : Single(q, t) /\ (x.type # t \/ ~Has(q, t)) => Single(r, t)
         /\ \A t : ~Has(q, t) => AtEnd(r, t)
         /\ \A S : Only(q, S) /\ x.type \in S => Only(r, S)
         /\ \A key, n, m : n \in Nat /\ Chain(q, key, n, m) /\ x.key = key /\ x.ctr = m + 1 => Chain(r, key, n, m + 1)
<1>1. Len(q) \in Nat /\ Len(r) = Len(q) + 1 /\ r[Len(q) + 1] = x /\ \A k \in 1..Len(q) : r[k] = q[k]
  OBVIOUS
<1>2. \A k \in 1..Len(r) : k \in 1..Len(q) \/ k = Len(q) + 1
  BY <1>1
<1>3. \A k \in 1..Len(q) : k \in 1..Len(r)
  BY <1>1
<1>4. Len(q) + 1 \in 1..Len(r)
  BY <1>1
<1>5. \A t : Has(r, t) <=> Has(q, t) \/ x.type = t
  BY <1>1, <1>2, <1>3, <1>4 DEF Has
<1>6. \A t : Single(q, t) /\ (x.type # t \/ ~Has(q, t)) => Single(r, t)
  BY <1>1, <1>2, <1>3 DEF Has, Single
<1>7. \A t : ~Has(q, t) => AtEnd(r, t)
  BY <1>1, <1>2 DEF Has, AtEnd
<1>8. \A S : Only(q, S) /\ x.type \in S => Only(r, S)
  BY <1>1, <1>2 DEF Only
<1>9. \A key, n, m : n \in Nat /\ Chain(q, key, n, m) /\ x.key = key /\ x.ctr = m + 1 => Chain(r, key, n, m + 1)
  <2>1. SUFFICES ASSUME NEW key, NEW n \in Nat, NEW m, Chain(q, key, n, m), x.key = key, x.ctr = m + 1
                 PROVE  Chain(r, key, n, m + 1)
    OBVIOUS
  <2>2. m = n + Len(q) /\ \A k \in 1..Len(q) : q[k].key = key /\ q[k].ctr = n + k
    BY <2>1 DEF Chain
  <2>3. m + 1 = n + Len(r) /\ x.ctr = n + (Len(q) + 1)
    BY <1>1, <2>1, <2>2
  <2>4. \A k \in 1..Len(r) : r[k].key = key /\ r[k].ctr = n + k
    BY <1>1, <1>2, <2>1, <2>2, <2>3
  <2>5. QED
    BY <2>3, <2>4 DEF Chain
<1>10. QED
  BY <1>5, <1>6, <1>7, <1>8, <1>9

LEMMA AppendingTurnover ==
  ASSUME NEW q \in Seq(Frame), NEW x \in Frame, NEW r, r = Append(q, x), NEW n \in Nat
  PROVE  /\ \A m : Turnover(q, n, m) /\ x.key = 1 /\ x.ctr = m + 1 /\ x.type # "REKEY_ACK" => Turnover(r, n, m + 1)
         /\ \A m : Chain(q, 0, n, m) /\ ~Has(q, "REKEY_ACK") /\ x.key = 0 /\ x.ctr = m + 1 /\ x.type = "REKEY_ACK"
                     => Turnover(r, n, 0)
<1>1. Len(q) \in Nat /\ Len(r) = Len(q) + 1 /\ r[Len(q) + 1] = x /\ \A k \in 1..Len(q) : r[k] = q[k]
  OBVIOUS
<1>2. \A k \in 1..Len(r) : k \in 1..Len(q) \/ k = Len(q) + 1
  BY <1>1
<1>3. ASSUME NEW m, Turnover(q, n, m), x.key = 1, x.ctr = m + 1, x.type # "REKEY_ACK"
      PROVE  Turnover(r, n, m + 1)
  <2>1. PICK c \in 1..Len(q) :
          /\ \A k \in 1..Len(q) : /\ q[k].type = "REKEY_ACK" <=> k = c
                                  /\ k <= c => q[k].key = 0 /\ q[k].ctr = n + k
                                  /\ k > c => q[k].key = 1 /\ q[k].ctr = k - c
          /\ m = Len(q) - c
    BY <1>3 DEF Turnover
  <2>2. c \in 1..Len(r) /\ m + 1 = Len(r) - c
    BY <1>1, <2>1
  <2>3. ASSUME NEW k \in 1..Len(r)
        PROVE  /\ r[k].type = "REKEY_ACK" <=> k = c
               /\ k <= c => r[k].key = 0 /\ r[k].ctr = n + k
               /\ k > c => r[k].key = 1 /\ r[k].ctr = k - c
    <3>1. CASE k \in 1..Len(q)
      BY <1>1, <2>1, <3>1
    <3>2. CASE k = Len(q) + 1
      BY <1>1, <1>3, <2>1, <3>2
    <3>3. QED
      BY <1>2, <3>1, <3>2
  <2>4. QED
    BY <2>2, <2>3 DEF Turnover
<1>4. ASSUME NEW m, Chain(q, 0, n, m), ~Has(q, "REKEY_ACK"), x.key = 0, x.ctr = m + 1, x.type = "REKEY_ACK"
      PROVE  Turnover(r, n, 0)
  <2>1. Len(r) \in 1..Len(r) /\ 0 = Len(r) - Len(r)
    BY <1>1
  <2>2. ASSUME NEW k \in 1..Len(r)
        PROVE  /\ r[k].type = "REKEY_ACK" <=> k = Len(r)
               /\ k <= Len(r) => r[k].key = 0 /\ r[k].ctr = n + k
               /\ k > Len(r) => r[k].key = 1 /\ r[k].ctr = k - Len(r)
    <3>1. CASE k \in 1..Len(q)
      BY <1>1, <1>4, <3>1 DEF Chain, Has
    <3>2. CASE k = Len(q) + 1
      BY <1>1, <1>4, <3>2 DEF Chain
    <3>3. QED
      BY <1>2, <3>1, <3>2
  <2>3. QED
    BY <2>1, <2>2 DEF Turnover
<1>5. QED
  BY <1>3, <1>4

LEMMA Taking ==
  ASSUME NEW q \in Seq(Frame), q # <<>>, NEW x, x = Head(q), NEW r, r = Tail(q)
  PROVE  /\ r \in Seq(Frame) /\ x \in Frame
         /\ \A t : Has(q, t) <=> Has(r, t) \/ x.type = t
         /\ \A t : Single(q, t) => Single(r, t) /\ (x.type = t => ~Has(r, t))
         /\ \A t : AtEnd(q, t) => AtEnd(r, t) /\ (x.type = t => r = <<>>)
         /\ \A S : Only(q, S) => Only(r, S) /\ x.type \in S
         /\ \A key, n, m : n \in Nat /\ Chain(q, key, n, m) =>
              x.key = key /\ x.ctr = n + 1 /\ Chain(r, key, n + 1, m)
<1>1. /\ Len(q) \in Nat \ {0} /\ Len(r) = Len(q) - 1 /\ x = q[1] /\ r \in Seq(Frame) /\ x \in Frame
      /\ \A k \in 1..Len(r) : r[k] = q[k + 1]
  OBVIOUS
<1>2. \A k \in 1..Len(q) : k = 1 \/ (k - 1 \in 1..Len(r) /\ q[k] = r[k - 1])
  BY <1>1
<1>3. \A k \in 1..Len(r) : k + 1 \in 1..Len(q) /\ r[k] = q[k + 1]
  BY <1>1
<1>4. 1 \in 1..Len(q)
  BY <1>1
<1>5. \A t : Has(q, t) <=> Has(r, t) \/ x.type = t
  <2>1. ASSUME NEW t, Has(r, t)
        PROVE  Has(q, t)
    <3>1. PICK k \in 1..Len(r) : r[k].type = t
      BY <2>1 DEF Has
    <3>2. PICK d \in 1..Len(q) : d = k + 1 /\ r[k] = q[d]
      BY <1>3
    <3>3. QED
      BY <3>1, <3>2 DEF Has
  <2>2. \A t : x.type = t => Has(q, t)
    BY <1>1, <1>4 DEF Has
  <2>3. ASSUME NEW t, Has(q, t), x.type # t
        PROVE  Has(r, t)
    <3>1. PICK k \in 1..Len(q) : q[k].type = t
      BY <2>3 DEF Has
    <3>2. PICK d \in 1..Len(r) : r[d] = q[k]
      BY <1>1, <1>2, <2>3, <3>1
    <3>3. QED
      BY <3>1, <3>2 DEF Has
  <2>4. QED
    BY <2>1, <2>2, <2>3
<1>6. \A t : Single(q, t) => Single(r, t) /\ (x.type = t => ~Has(r, t))
  BY <1>1, <1>3, <1>4 DEF Has, Single
<1>7. \A t : AtEnd(q, t) => AtEnd(r, t) /\ (x.type = t => r = <<>>)
  <2>1. ASSUME NEW t, AtEnd(q, t), NEW k \in 1..Len(r), r[k].type = t
        PROVE  k = Len(r)
    <3>1. PICK d \in 1..Len(q) : d = k + 1 /\ r[k] = q[d]
      BY <1>3
    <3>2. d = Len(q)
      BY <2>1, <3>1 DEF AtEnd
    <3>3. \A l, m \in Nat : l = m - 1 /\ k + 1 = m => k = l
      OBVIOUS
    <3>4. Len(r) \in Nat /\ Len(q) \in Nat /\ Len(r) = Len(q) - 1
      BY <1>1
    <3>5. QED
      BY <3>1, <3>2, <3>3, <3>4
  <2>2. ASSUME NEW t, AtEnd(q, t), x.type = t
        PROVE  Len(r) = 0
    <3>1. q[1].type = t
      BY <1>1, <2>2
    <3>2. 1 = Len(q)
      BY <1>4, <2>2, <3>1 DEF AtEnd
    <3>3. QED
      BY <1>1, <3>2
  <2>3. QED
    BY <1>1, <2>1, <2>2, EmptySeq DEF AtEnd
<1>8. \A S : Only(q, S) => Only(r, S) /\ x.type \in S
  BY <1>1, <1>3, <1>4 DEF Only
<1>9. \A key, n, m : n \in Nat /\ Chain(q, key, n, m) => x.key = key /\ x.ctr = n + 1 /\ Chain(r, key, n + 1, m)
  BY <1>1, <1>3, <1>4 DEF Chain
<1>10. QED
  BY <1>1, <1>5, <1>6, <1>7, <1>8, <1>9

LEMMA TakingChain ==
  ASSUME NEW q \in Seq(Frame), q # <<>>, NEW x, x = Head(q), NEW r, r = Tail(q),
         NEW key, NEW n \in Nat, NEW m, Chain(q, key, n, m)
  PROVE  x.key = key /\ x.ctr = n + 1 /\ Chain(r, key, n + 1, m)
BY Taking

LEMMA TakingTurnover ==
  ASSUME NEW q \in Seq(Frame), q # <<>>, NEW x, x = Head(q), NEW r, r = Tail(q), NEW n \in Nat,
         NEW m, Turnover(q, n, m)
  PROVE  /\ x.key = 0 /\ x.ctr = n + 1
         /\ x.type # "REKEY_ACK" => Turnover(r, n + 1, m)
         /\ x.type = "REKEY_ACK" => Chain(r, 1, 0, m) /\ ~Has(r, "REKEY_ACK")
<1>1. /\ Len(q) \in Nat \ {0} /\ Len(r) = Len(q) - 1 /\ x = q[1]
      /\ \A k \in 1..Len(r) : r[k] = q[k + 1]
  OBVIOUS
<1>2. PICK c \in 1..Len(q) :
        /\ \A k \in 1..Len(q) : /\ q[k].type = "REKEY_ACK" <=> k = c
                                /\ k <= c => q[k].key = 0 /\ q[k].ctr = n + k
                                /\ k > c => q[k].key = 1 /\ q[k].ctr = k - c
        /\ m = Len(q) - c
  BY DEF Turnover
<1>3. \A k \in 1..Len(r) : k + 1 \in 1..Len(q) /\ r[k] = q[k + 1]
  BY <1>1
<1>4. x.key = 0 /\ x.ctr = n + 1
  BY <1>1, <1>2
<1>5. ASSUME x.type # "REKEY_ACK"
      PROVE  Turnover(r, n + 1, m)
  <2>1. c # 1
    BY <1>1, <1>2, <1>5
  <2>2. c - 1 \in 1..Len(r) /\ m = Len(r) - (c - 1)
    BY <1>1, <1>2, <2>1
  <2>3. ASSUME NEW k \in 1..Len(r)
        PROVE  /\ r[k].type = "REKEY_ACK" <=> k = c - 1
               /\ k <= c - 1 => r[k].key = 0 /\ r[k].ctr = (n + 1) + k
               /\ k > c - 1 => r[k].key = 1 /\ r[k].ctr = k - (c - 1)
    <3>1. PICK d \in 1..Len(q) : d = k + 1 /\ r[k] = q[d]
      BY <1>3
    <3>2. QED
      BY <1>2, <3>1
  <2>4. QED
    BY <2>2, <2>3 DEF Turnover
<1>6. ASSUME x.type = "REKEY_ACK"
      PROVE  Chain(r, 1, 0, m) /\ ~Has(r, "REKEY_ACK")
  <2>1. c = 1
    BY <1>1, <1>2, <1>6
  <2>2. \A k \in 1..Len(r) : r[k].type # "REKEY_ACK" /\ r[k].key = 1 /\ r[k].ctr = 0 + k
    <3>1. TAKE k \in 1..Len(r)
    <3>2. PICK d \in 1..Len(q) : d = k + 1 /\ r[k] = q[d]
      BY <1>3
    <3>3. QED
      BY <1>2, <2>1, <3>2
  <2>3. m = 0 + Len(r)
    BY <1>1, <1>2, <2>1
  <2>4. QED
    BY <2>2, <2>3 DEF Chain, Has
<1>7. QED
  BY <1>4, <1>5, <1>6
-----------------------------------------------------------------------------
(* The rekey of two ends                                                   *)

Fields == {"st", "mode", "peerMode", "key", "sendCtr", "recvCtr", "rekeyInFlight", "pendingPair",
           "offering", "incoming", "up", "hp"}
Keeps(n, e, F) == \A f \in Fields \ F : n[f] = e[f]

Typed(e) ==
  /\ e.st \in {"ACTIVE", "UPGRADING_LOCAL", "REKEYING"}
  /\ e.mode \in {"RAM", "PRF"} /\ e.peerMode \in {"RAM", "PRF"} /\ e.key \in {0, 1}
  /\ e.sendCtr \in Nat /\ e.recvCtr \in Nat /\ e.rekeyInFlight \in BOOLEAN /\ e.pendingPair \in BOOLEAN
  /\ e.up \in {"none", "passkey", "notifying", "keygen"}

Upgraded(e) == e.mode = "PRF" /\ e.up # "notifying"

\* What holds of each end.
Common(e) ==
  /\ e.up = "passkey" => e.mode = "RAM"
  /\ e.up = "notifying" => e.mode = "PRF" /\ e.key = 0 /\ e.pendingPair = FALSE
  /\ e.st = "REKEYING" \/ e.key = 1 => e.mode = "PRF" /\ e.peerMode = "PRF"
  /\ e.rekeyInFlight = TRUE <=> e.st = "REKEYING"
  /\ e.offering = FALSE /\ e.incoming = FALSE
  /\ e.key = 1 => e.up = "none" /\ e.pendingPair = FALSE
  /\ e.hp = "commit" => e.key = 1 /\ e.st = "REKEYING"

\* What holds of the initiator: it generates its pair, waits for the answer,
\* takes it.
Leads(e) ==
  /\ e.hp \in {"none", "keygen", "rekeyAck", "commit"}
  /\ e.up = "keygen" \/ e.hp = "keygen" =>
       e.st = "REKEYING" /\ e.key = 0 /\ e.pendingPair = FALSE /\ e.up # e.hp
  /\ e.pendingPair = TRUE => e.st = "REKEYING" /\ e.key = 0 /\ e.up = "none" /\ e.hp \in {"none", "rekeyAck"}
  /\ e.hp = "rekeyAck" => e.pendingPair = TRUE

\* What holds of the joiner.
Follows(e) ==
  /\ e.hp \in {"none", "rekeyInit", "commit"} /\ e.up # "keygen" /\ e.pendingPair = FALSE
  /\ e.hp = "rekeyInit" => e.st = "REKEYING" /\ e.key = 0 /\ e.up = "none"

\* What e knows of the mode of o, q being on its way from o to e.
Known(e, o, q) ==
  /\ e.peerMode = "PRF" => Upgraded(o)
  /\ Has(q, "MODE_UPGRADED") => e.peerMode = "RAM" /\ Upgraded(o)
  /\ Single(q, "MODE_UPGRADED")
  /\ Upgraded(o) => e.peerMode = "PRF" \/ Has(q, "MODE_UPGRADED")

Orders == {"msg", "MODE_UPGRADED", "REKEY_INIT", "REKEY_DONE"}
Answers == {"msg", "MODE_UPGRADED", "REKEY_ACK", "REKEY_DONE"}

\* What is on its way to the joiner j.
ToJoiner(i, j, q) ==
  /\ j.key = 0 => i.key = 0
  /\ j.key = 1 /\ i.key = 0 => i.pendingPair = TRUE
  /\ i.key = j.key => Chain(q, i.key, j.recvCtr, i.sendCtr)
  /\ i.key # j.key => q = <<>> /\ j.recvCtr = 0
  /\ Only(q, Orders)
  /\ AtEnd(q, "REKEY_INIT")
  /\ Has(q, "REKEY_INIT") => i.pendingPair = TRUE /\ i.hp = "none" /\ j.key = 0 /\ j.hp # "rekeyInit"
  /\ j.hp = "rekeyInit" => i.pendingPair = TRUE /\ i.hp = "none" /\ q = <<>>

\* What is on its way to the initiator i.
ToInitiator(j, i, q) ==
  /\ i.hp = "rekeyAck" => j.key = 1
  /\ Only(q, Answers)
  /\ j.key = i.key => Chain(q, j.key, i.recvCtr, j.sendCtr) /\ ~Has(q, "REKEY_ACK")
  /\ j.key # i.key /\ i.hp = "rekeyAck" => Chain(q, 1, 0, j.sendCtr) /\ ~Has(q, "REKEY_ACK")
  /\ j.key # i.key /\ i.hp # "rekeyAck" => Turnover(q, i.recvCtr, j.sendCtr)

\* The two ends i and j, and what is on its way to each.
Rekeys(i, j, a, b) ==
  /\ Common(i) /\ Leads(i) /\ Common(j) /\ Follows(j)
  /\ Known(i, j, a) /\ Known(j, i, b)
  /\ ToJoiner(i, j, b) /\ ToInitiator(j, i, a)

\* One frame of type t is sent after q, which becomes r.
Sends(n, e, q, r, t) ==
  /\ n.sendCtr = e.sendCtr + 1
  /\ \E x \in Frame : r = Append(q, x) /\ x.type = t /\ x.key = e.key /\ x.ctr = e.sendCtr + 1

\* The first frame of q is taken and is of type t.
Takes(n, e, q, r, t) ==
  /\ q # <<>> /\ r = Tail(q) /\ Head(q).type = t /\ n.recvCtr = Head(q).ctr

LEMMA InitiatorSends ==
  ASSUME NEW i, NEW j, NEW a, NEW b \in Seq(Frame), NEW n, NEW c, Typed(i), Typed(j),
         ToJoiner(i, j, b), ToInitiator(j, i, a),
         NEW t \in {"msg", "MODE_UPGRADED", "REKEY_DONE"}, Sends(n, i, b, c, t),
         i.pendingPair = FALSE, n.pendingPair = FALSE, n.key = i.key, n.recvCtr = i.recvCtr,
         i.hp # "rekeyAck", n.hp # "rekeyAck"
  PROVE  ToJoiner(n, j, c) /\ ToInitiator(j, n, a)
<1>1. PICK x \in Frame : c = Append(b, x) /\ x.type = t /\ x.key = i.key /\ x.ctr = i.sendCtr + 1
  BY DEF Sends
<1>2. i.key = j.key /\ ~Has(b, "REKEY_INIT") /\ j.hp # "rekeyInit"
  BY DEF ToJoiner, Typed
<1>3. /\ Chain(c, i.key, j.recvCtr, i.sendCtr + 1) /\ Only(c, Orders)
      /\ ~Has(c, "REKEY_INIT") /\ AtEnd(c, "REKEY_INIT")
  <2>1. Chain(b, i.key, j.recvCtr, i.sendCtr) /\ Only(b, Orders)
    BY <1>2 DEF ToJoiner
  <2>2. j.recvCtr \in Nat
    BY DEF Typed
  <2>3. x.type \in Orders /\ x.type # "REKEY_INIT"
    BY <1>1 DEF Orders
  <2>4. QED
    BY <1>1, <1>2, <2>1, <2>2, <2>3, Appending
<1>4. ToJoiner(n, j, c)
  BY <1>2, <1>3 DEF ToJoiner, Sends
<1>5. ToInitiator(j, n, a)
  BY DEF ToInitiator
<1>6. QED
  BY <1>4, <1>5

LEMMA JoinerSends ==
  ASSUME NEW i, NEW j, NEW a \in Seq(Frame), NEW b, NEW n, NEW c, Typed(i), Typed(j),
         ToJoiner(i, j, b), ToInitiator(j, i, a),
         NEW t \in {"msg", "MODE_UPGRADED", "REKEY_DONE"}, Sends(n, j, a, c, t),
         n.key = j.key, n.recvCtr = j.recvCtr, j.hp # "rekeyInit", n.hp # "rekeyInit"
  PROVE  ToJoiner(i, n, b) /\ ToInitiator(n, i, c)
<1>1. PICK x \in Frame : c = Append(a, x) /\ x.type = t /\ x.key = j.key /\ x.ctr = j.sendCtr + 1
  BY DEF Sends
<1>2. ToJoiner(i, n, b)
  BY DEF ToJoiner
<1>3. /\ Only(c, Answers)
      /\ Has(c, "REKEY_ACK") <=> Has(a, "REKEY_ACK")
  <2>1. x.type \in Answers /\ x.type # "REKEY_ACK" /\ Only(a, Answers)
    BY <1>1 DEF Answers, ToInitiator
  <2>2. QED
    BY <1>1, <2>1, Appending
<1>4. i.recvCtr \in Nat /\ 0 \in Nat /\ n.sendCtr = j.sendCtr + 1
  BY DEF Typed, Sends
<1>5. CASE j.key = i.key
  <2>1. Chain(a, j.key, i.recvCtr, j.sendCtr) /\ ~Has(a, "REKEY_ACK")
    BY <1>5 DEF ToInitiator
  <2>2. Chain(c, j.key, i.recvCtr, j.sendCtr + 1)
    BY <1>1, <1>4, <2>1, Appending
  <2>3. QED
    BY <1>2, <1>3, <1>4, <1>5, <2>1, <2>2 DEF ToInitiator
<1>6. CASE j.key # i.key /\ i.hp = "rekeyAck"
  <2>1. Chain(a, 1, 0, j.sendCtr) /\ ~Has(a, "REKEY_ACK") /\ j.key = 1
    BY <1>6 DEF ToInitiator
  <2>2. Chain(c, 1, 0, j.sendCtr + 1)
    BY ZenonT(60), <1>1, <1>4, <2>1, Appending
  <2>3. QED
    BY <1>2, <1>3, <1>4, <1>6, <2>1, <2>2 DEF ToInitiator
<1>7. CASE j.key # i.key /\ i.hp # "rekeyAck"
  <2>1. Turnover(a, i.recvCtr, j.sendCtr) /\ j.key = 1
    BY <1>7 DEF ToInitiator, ToJoiner, Typed
  <2>2. Turnover(c, i.recvCtr, j.sendCtr + 1)
    BY <1>1, <1>4, <2>1, AppendingTurnover
  <2>3. QED
    BY <1>2, <1>3, <1>4, <1>7, <2>1, <2>2 DEF ToInitiator
<1>8. QED
  BY <1>5, <1>6, <1>7

\* The next frame is one that its end accepts.
LEMMA NextAccepted ==
  ASSUME NEW i, NEW j, NEW a \in Seq(Frame), NEW b \in Seq(Frame), Typed(i), Typed(j),
         ToJoiner(i, j, b), ToInitiator(j, i, a)
  PROVE  /\ a # <<>> /\ i.hp = "none" => Head(a).key = i.key /\ Head(a).ctr = i.recvCtr + 1 /\ Head(a).type \in Answers
         /\ b # <<>> => Head(b).key = j.key /\ Head(b).ctr = j.recvCtr + 1 /\ Head(b).type \in Orders
<1>1. i.recvCtr \in Nat /\ j.recvCtr \in Nat
  BY DEF Typed
<1>2. ASSUME a # <<>>, i.hp = "none"
      PROVE  Head(a).key = i.key /\ Head(a).ctr = i.recvCtr + 1 /\ Head(a).type \in Answers
  <2>1. PICK x, r : x = Head(a) /\ r = Tail(a)
    OBVIOUS
  <2>2. x.type \in Answers
    BY <1>2, <2>1, Taking DEF ToInitiator
  <2>3. CASE j.key = i.key
    <3>1. Chain(a, i.key, i.recvCtr, j.sendCtr)
      BY <2>3 DEF ToInitiator
    <3>2. QED
      BY <1>1, <1>2, <2>1, <2>2, <3>1, Taking
  <2>4. CASE j.key # i.key
    <3>1. Turnover(a, i.recvCtr, j.sendCtr) /\ i.key = 0
      BY <1>2, <2>4 DEF ToInitiator, ToJoiner, Typed
    <3>2. QED
      BY <1>1, <1>2, <2>1, <2>2, <3>1, TakingTurnover
  <2>5. QED
    BY <2>3, <2>4
<1>3. ASSUME b # <<>>
      PROVE  Head(b).key = j.key /\ Head(b).ctr = j.recvCtr + 1 /\ Head(b).type \in Orders
  <2>1. PICK x, r : x = Head(b) /\ r = Tail(b)
    OBVIOUS
  <2>2. Chain(b, j.key, j.recvCtr, i.sendCtr) /\ Only(b, Orders)
    BY <1>3 DEF ToJoiner
  <2>3. QED
    BY <1>1, <1>3, <2>1, <2>2, Taking
<1>4. QED
  BY <1>2, <1>3

LEMMA InitiatorTakes ==
  ASSUME NEW i, NEW j, NEW a \in Seq(Frame), NEW b, NEW n, NEW c, NEW t, Typed(i), Typed(j),
         ToJoiner(i, j, b), ToInitiator(j, i, a), Takes(n, i, a, c, t), t # "REKEY_ACK",
         n.key = i.key, n.sendCtr = i.sendCtr, n.pendingPair = i.pendingPair,
         i.hp = "none", n.hp # "rekeyAck", i.pendingPair = TRUE => n.hp = "none"
  PROVE  ToJoiner(n, j, b) /\ ToInitiator(j, n, c)
<1>1. PICK x : x = Head(a) /\ c = Tail(a) /\ a # <<>> /\ x.type = t /\ n.recvCtr = x.ctr
  BY DEF Takes
<1>2. ToJoiner(n, j, b)
  BY DEF ToJoiner
<1>3. Only(c, Answers) /\ (Has(c, "REKEY_ACK") => Has(a, "REKEY_ACK"))
  BY <1>1, Taking DEF ToInitiator
<1>4. i.recvCtr \in Nat
  BY DEF Typed
<1>5. CASE j.key = i.key
  <2>1. Chain(a, j.key, i.recvCtr, j.sendCtr) /\ ~Has(a, "REKEY_ACK")
    BY <1>5 DEF ToInitiator
  <2>2. Chain(c, j.key, i.recvCtr + 1, j.sendCtr) /\ x.ctr = i.recvCtr + 1
    <3>1. PICK k, f, m : f \in Nat /\ k = j.key /\ f = i.recvCtr /\ m = j.sendCtr /\ Chain(a, k, f, m)
      BY <1>4, <2>1
    <3>2. a # <<>> /\ x = Head(a) /\ c = Tail(a) /\ f \in Nat /\ Chain(a, k, f, m)
      BY <1>1, <3>1
    <3>3. Chain(c, k, f + 1, m)
      BY <3>2, TakingChain
    <3>4. x.ctr = f + 1
      BY <3>2, TakingChain
    <3>5. QED
      BY <3>1, <3>3, <3>4
  <2>3. QED
    BY <1>1, <1>2, <1>3, <1>5, <2>1, <2>2 DEF ToInitiator
<1>6. CASE j.key # i.key
  <2>1. Turnover(a, i.recvCtr, j.sendCtr)
    BY <1>6 DEF ToInitiator
  <2>2. Turnover(c, i.recvCtr + 1, j.sendCtr) /\ x.ctr = i.recvCtr + 1
    BY ZenonT(60), <1>1, <1>4, <2>1, TakingTurnover
  <2>3. QED
    BY <1>1, <1>2, <1>3, <1>6, <2>1, <2>2 DEF ToInitiator
<1>7. QED
  BY <1>5, <1>6

LEMMA JoinerTakes ==
  ASSUME NEW i, NEW j, NEW a, NEW b \in Seq(Frame), NEW n, NEW c, NEW t, Typed(i), Typed(j),
         ToJoiner(i, j, b), ToInitiator(j, i, a), Takes(n, j, b, c, t), t # "REKEY_INIT",
         n.key = j.key, n.sendCtr = j.sendCtr, j.hp # "rekeyInit", n.hp # "rekeyInit"
  PROVE  ToJoiner(i, n, c) /\ ToInitiator(n, i, a)
<1>1. PICK x : x = Head(b) /\ c = Tail(b) /\ b # <<>> /\ x.type = t /\ n.recvCtr = x.ctr
  BY DEF Takes
<1>2. ToInitiator(n, i, a)
  BY DEF ToInitiator
<1>3. /\ i.key = j.key /\ Chain(b, i.key, j.recvCtr, i.sendCtr) /\ Only(b, Orders) /\ AtEnd(b, "REKEY_INIT")
      /\ j.recvCtr \in Nat
  BY <1>1 DEF ToJoiner, Typed
<1>4. /\ Chain(c, i.key, j.recvCtr + 1, i.sendCtr) /\ x.ctr = j.recvCtr + 1 /\ Only(c, Orders) /\ AtEnd(c, "REKEY_INIT")
      /\ Has(c, "REKEY_INIT") => Has(b, "REKEY_INIT")
  <2>1. PICK k, f, m : f \in Nat /\ k = i.key /\ f = j.recvCtr /\ m = i.sendCtr /\ Chain(b, k, f, m)
    BY <1>3
  <2>2. Chain(c, k, f + 1, m) /\ x.ctr = f + 1
    <3>1. b # <<>> /\ x = Head(b) /\ c = Tail(b) /\ f \in Nat /\ Chain(b, k, f, m)
      BY <1>1, <2>1
    <3>2. Chain(c, k, f + 1, m)
      BY <3>1, TakingChain
    <3>3. x.ctr = f + 1
      BY <3>1, TakingChain
    <3>4. QED
      BY <3>2, <3>3
  <2>3. Only(c, Orders) /\ AtEnd(c, "REKEY_INIT") /\ (Has(c, "REKEY_INIT") => Has(b, "REKEY_INIT"))
    BY <1>1, <1>3, Taking
  <2>4. QED
    BY <2>1, <2>2, <2>3
<1>5. QED
  BY <1>1, <1>2, <1>3, <1>4 DEF ToJoiner

LEMMA KnownKept ==
  ASSUME NEW e, NEW o, NEW q, NEW n, NEW m, Known(e, o, q), n.peerMode = e.peerMode,
         Upgraded(m) <=> Upgraded(o)
  PROVE  Known(n, m, q)
BY DEF Known

LEMMA KnownSent ==
  ASSUME NEW e, NEW o, NEW q \in Seq(Frame), NEW m, NEW r, NEW t, Typed(e), Known(e, o, q), Sends(m, o, q, r, t),
         t # "MODE_UPGRADED" => (Upgraded(m) <=> Upgraded(o)),
         t = "MODE_UPGRADED" => ~Upgraded(o) /\ Upgraded(m)
  PROVE  Known(e, m, r)
<1>1. PICK x \in Frame : r = Append(q, x) /\ x.type = t
  BY DEF Sends
<1>2. /\ Has(r, "MODE_UPGRADED") <=> Has(q, "MODE_UPGRADED") \/ t = "MODE_UPGRADED"
      /\ Single(q, "MODE_UPGRADED") /\ (t # "MODE_UPGRADED" \/ ~Has(q, "MODE_UPGRADED")) => Single(r, "MODE_UPGRADED")
  BY <1>1, Appending
<1>3. QED
  BY <1>2 DEF Known, Typed

LEMMA KnownTaken ==
  ASSUME NEW e, NEW o, NEW q \in Seq(Frame), NEW n, NEW r, NEW t, Known(e, o, q), Takes(n, e, q, r, t),
         n.peerMode = IF t = "MODE_UPGRADED" THEN "PRF" ELSE e.peerMode
  PROVE  Known(n, o, r)
<1>1. PICK x : x = Head(q) /\ r = Tail(q) /\ q # <<>> /\ x.type = t
  BY DEF Takes
<1>2. /\ Has(q, "MODE_UPGRADED") <=> Has(r, "MODE_UPGRADED") \/ t = "MODE_UPGRADED"
      /\ Single(q, "MODE_UPGRADED") => Single(r, "MODE_UPGRADED") /\ (t = "MODE_UPGRADED" => ~Has(r, "MODE_UPGRADED"))
  BY <1>1, Taking
<1>3. QED
  BY <1>2 DEF Known

-----------------------------------------------------------------------------
(* What one end does while no file is offered                              *)

\* The end changes as upgradeToPrf begins, fails or has its passkey.
TurnsUp(n, e) ==
  /\ Keeps(n, e, {"st", "up", "mode"})
  /\ \/ e.mode = "RAM" /\ e.st = "ACTIVE" /\ n.mode = "RAM" /\ n.st = "UPGRADING_LOCAL" /\ n.up = "passkey"
     \/ e.up = "passkey" /\ n.mode = e.mode /\ n.st = "ACTIVE" /\ n.up = "none"
     \/ e.up = "passkey" /\ n.mode = "PRF" /\ n.st = "ACTIVE" /\ n.up = "notifying"

\* It says a text, r being what was on its way to its peer and s what is then.
Says(n, e, r, s) ==
  Keeps(n, e, {"sendCtr"}) /\ Sends(n, e, r, s, "msg") /\ e.st = "ACTIVE" /\ e.up # "notifying"

\* It enters the rekey, or is left as it was; pc is where the initiator waits.
Enters(n, e, pc, wait) ==
  /\ e.st # "REKEYING" /\ e.rekeyInFlight = FALSE
  /\ n.st = "REKEYING" /\ n.rekeyInFlight = TRUE /\ n[pc] = wait
Stays(n, e) == n.st = e.st /\ n.rekeyInFlight = e.rekeyInFlight

Notifies(n, e, r, s, wait) ==
  /\ Keeps(n, e, {"sendCtr", "up", "st", "rekeyInFlight"}) /\ Sends(n, e, r, s, "MODE_UPGRADED")
  /\ e.up = "notifying"
  /\ (Stays(n, e) /\ n.up = "none") \/ (e.peerMode = "PRF" /\ Enters(n, e, "up", wait))

SendsInit(n, e, r, s) ==
  /\ Keeps(n, e, {"sendCtr", "up", "hp", "pendingPair"}) /\ Sends(n, e, r, s, "REKEY_INIT")
  /\ n.pendingPair = TRUE /\ e.up # "notifying"
  /\ (e.up = "keygen" /\ n.up = "none" /\ n.hp = e.hp) \/ (e.hp = "keygen" /\ n.hp = "none" /\ n.up = e.up)

NewKey(n) == n.key = 1 /\ n.sendCtr = 0 /\ n.recvCtr = 0 /\ n.hp = "commit"

Responds(n, e, r, s) ==
  /\ Keeps(n, e, {"key", "sendCtr", "recvCtr", "hp"}) /\ NewKey(n) /\ e.hp = "rekeyInit"
  /\ \E x \in Frame : s = Append(r, x) /\ x.type = "REKEY_ACK" /\ x.key = e.key /\ x.ctr = e.sendCtr + 1

Concludes(n, e) ==
  /\ Keeps(n, e, {"key", "sendCtr", "recvCtr", "hp", "pendingPair"}) /\ NewKey(n)
  /\ e.hp = "rekeyAck" /\ n.pendingPair = FALSE

Commits(n, e, r, s) ==
  /\ Keeps(n, e, {"sendCtr", "rekeyInFlight", "st", "hp"}) /\ Sends(n, e, r, s, "REKEY_DONE")
  /\ e.hp = "commit" /\ n.hp = "none" /\ n.st = "ACTIVE" /\ n.rekeyInFlight = FALSE

\* It takes a frame, q being what was on its way to it and u what is then.
Hears(n, e, q, u) ==
  /\ Keeps(n, e, {"recvCtr"}) /\ e.hp = "none"
  /\ \E t \in {"msg", "REKEY_DONE"} : Takes(n, e, q, u, t)

HearsUpgrade(n, e, q, u, wait) ==
  /\ Keeps(n, e, {"recvCtr", "peerMode", "st", "rekeyInFlight", "hp"}) /\ Takes(n, e, q, u, "MODE_UPGRADED")
  /\ e.hp = "none" /\ n.peerMode = "PRF"
  /\ (Stays(n, e) /\ n.hp = "none") \/ (e.mode = "PRF" /\ Enters(n, e, "hp", wait))

HearsInit(n, e, q, u) ==
  /\ Keeps(n, e, {"recvCtr", "st", "rekeyInFlight", "hp"}) /\ Takes(n, e, q, u, "REKEY_INIT")
  /\ e.hp = "none" /\ n.st = "REKEYING" /\ n.rekeyInFlight = TRUE /\ n.hp = "rekeyInit"

HearsAck(n, e, q, u) ==
  /\ Keeps(n, e, {"recvCtr", "hp"}) /\ Takes(n, e, q, u, "REKEY_ACK") /\ e.hp = "none" /\ n.hp = "rekeyAck"

\* The two ends, with what they hold and what is on its way, as the lemmas below
\* take them.
Pair(i, j, a, b) ==
  Typed(i) /\ Typed(j) /\ a \in Seq(Frame) /\ b \in Seq(Frame) /\ Rekeys(i, j, a, b)

LEMMA TurnsUpKeeps ==
  ASSUME NEW i, NEW j, NEW a, NEW b, Pair(i, j, a, b), NEW n
  PROVE  /\ TurnsUp(n, i) => Rekeys(n, j, a, b)
         /\ TurnsUp(n, j) => Rekeys(i, n, a, b)
<1>1. ASSUME TurnsUp(n, i)
      PROVE  Rekeys(n, j, a, b)
  <2>1. /\ n.peerMode = i.peerMode /\ n.key = i.key /\ n.sendCtr = i.sendCtr /\ n.recvCtr = i.recvCtr
        /\ n.rekeyInFlight = i.rekeyInFlight /\ n.pendingPair = i.pendingPair
        /\ n.offering = i.offering /\ n.incoming = i.incoming /\ n.hp = i.hp
    BY <1>1 DEF TurnsUp, Keeps, Fields
  <2>2. i.mode = "RAM" /\ i.st # "REKEYING" /\ i.pendingPair = FALSE /\ i.key = 0 /\ i.hp = "none" /\ i.up # "notifying"
    BY <1>1 DEF TurnsUp, Pair, Rekeys, Common, Leads, Typed
  <2>3. Common(n) /\ Leads(n)
    BY <1>1, <2>1, <2>2 DEF TurnsUp, Pair, Rekeys, Common, Leads, Typed
  <2>4. ~Upgraded(n) /\ ~Upgraded(i)
    BY <1>1, <2>2 DEF TurnsUp, Upgraded
  <2>5. Known(n, j, a) /\ Known(j, n, b)
    BY <2>1, <2>4, KnownKept DEF Pair, Rekeys
  <2>6. ToJoiner(n, j, b) /\ ToInitiator(j, n, a)
    BY <2>1 DEF Pair, Rekeys, ToJoiner, ToInitiator
  <2>7. QED
    BY <2>3, <2>5, <2>6 DEF Pair, Rekeys
<1>2. ASSUME TurnsUp(n, j)
      PROVE  Rekeys(i, n, a, b)
  <2>1. /\ n.peerMode = j.peerMode /\ n.key = j.key /\ n.sendCtr = j.sendCtr /\ n.recvCtr = j.recvCtr
        /\ n.rekeyInFlight = j.rekeyInFlight /\ n.pendingPair = j.pendingPair
        /\ n.offering = j.offering /\ n.incoming = j.incoming /\ n.hp = j.hp
    BY <1>2 DEF TurnsUp, Keeps, Fields
  <2>2. j.mode = "RAM" /\ j.st # "REKEYING" /\ j.pendingPair = FALSE /\ j.key = 0 /\ j.hp = "none" /\ j.up # "notifying"
    BY <1>2 DEF TurnsUp, Pair, Rekeys, Common, Follows, Typed
  <2>3. Common(n) /\ Follows(n)
    BY <1>2, <2>1, <2>2 DEF TurnsUp, Pair, Rekeys, Common, Follows, Typed
  <2>4. ~Upgraded(n) /\ ~Upgraded(j)
    BY <1>2, <2>2 DEF TurnsUp, Upgraded
  <2>5. Known(n, i, b) /\ Known(i, n, a)
    BY <2>1, <2>4, KnownKept DEF Pair, Rekeys
  <2>6. ToJoiner(i, n, b) /\ ToInitiator(n, i, a)
    BY <2>1 DEF Pair, Rekeys, ToJoiner, ToInitiator
  <2>7. QED
    BY <2>3, <2>5, <2>6 DEF Pair, Rekeys
<1>3. QED
  BY <1>1, <1>2

LEMMA SaysKeeps ==
  ASSUME NEW i, NEW j, NEW a, NEW b, Pair(i, j, a, b), NEW n, NEW s
  PROVE  /\ Says(n, i, b, s) => Rekeys(n, j, a, s)
         /\ Says(n, j, a, s) => Rekeys(i, n, s, b)
<1>1. ASSUME Says(n, i, b, s)
      PROVE  Rekeys(n, j, a, s)
  <2>1. /\ n.peerMode = i.peerMode /\ n.key = i.key /\ n.recvCtr = i.recvCtr
        /\ n.rekeyInFlight = i.rekeyInFlight /\ n.pendingPair = i.pendingPair /\ n.st = i.st /\ n.up = i.up
        /\ n.mode = i.mode /\ n.offering = i.offering /\ n.incoming = i.incoming /\ n.hp = i.hp
    BY <1>1 DEF Says, Keeps, Fields
  <2>2. i.pendingPair = FALSE /\ i.hp # "rekeyAck" /\ Sends(n, i, b, s, "msg")
    BY <1>1 DEF Says, Pair, Rekeys, Leads, Typed
  <2>3. Common(n) /\ Leads(n)
    BY <2>1 DEF Pair, Rekeys, Common, Leads
  <2>4. Known(n, j, a) /\ Known(j, n, s)
    BY <2>1, <2>2, KnownKept, KnownSent DEF Pair, Rekeys, Upgraded
  <2>5. ToJoiner(n, j, s) /\ ToInitiator(j, n, a)
    BY <2>1, <2>2, InitiatorSends DEF Pair, Rekeys
  <2>6. QED
    BY <2>3, <2>4, <2>5 DEF Pair, Rekeys
<1>2. ASSUME Says(n, j, a, s)
      PROVE  Rekeys(i, n, s, b)
  <2>1. /\ n.peerMode = j.peerMode /\ n.key = j.key /\ n.recvCtr = j.recvCtr
        /\ n.rekeyInFlight = j.rekeyInFlight /\ n.pendingPair = j.pendingPair /\ n.st = j.st /\ n.up = j.up
        /\ n.mode = j.mode /\ n.offering = j.offering /\ n.incoming = j.incoming /\ n.hp = j.hp
    BY <1>2 DEF Says, Keeps, Fields
  <2>2. j.hp # "rekeyInit" /\ Sends(n, j, a, s, "msg")
    BY <1>2 DEF Says, Pair, Rekeys, Follows
  <2>3. Common(n) /\ Follows(n)
    BY <2>1 DEF Pair, Rekeys, Common, Follows
  <2>4. Known(n, i, b) /\ Known(i, n, s)
    BY <2>1, <2>2, KnownKept, KnownSent DEF Pair, Rekeys, Upgraded
  <2>5. ToJoiner(i, n, b) /\ ToInitiator(n, i, s)
    BY <2>1, <2>2, JoinerSends DEF Pair, Rekeys
  <2>6. QED
    BY <2>3, <2>4, <2>5 DEF Pair, Rekeys
<1>3. QED
  BY <1>1, <1>2

LEMMA NotifiesKeeps ==
  ASSUME NEW i, NEW j, NEW a, NEW b, Pair(i, j, a, b), NEW n, NEW s
  PROVE  /\ Notifies(n, i, b, s, "keygen") => Rekeys(n, j, a, s)
         /\ Notifies(n, j, a, s, "none") => Rekeys(i, n, s, b)
<1>1. ASSUME Notifies(n, i, b, s, "keygen")
      PROVE  Rekeys(n, j, a, s)
  <2>1. /\ n.peerMode = i.peerMode /\ n.key = i.key /\ n.recvCtr = i.recvCtr /\ n.pendingPair = i.pendingPair
        /\ n.mode = i.mode /\ n.offering = i.offering /\ n.incoming = i.incoming /\ n.hp = i.hp
    BY <1>1 DEF Notifies, Keeps, Fields
  <2>2. /\ i.up = "notifying" /\ i.mode = "PRF" /\ i.key = 0 /\ i.pendingPair = FALSE /\ i.hp # "rekeyAck"
        /\ Sends(n, i, b, s, "MODE_UPGRADED")
    BY <1>1 DEF Notifies, Pair, Rekeys, Common, Leads, Typed
  <2>3. \/ n.st = i.st /\ n.rekeyInFlight = i.rekeyInFlight /\ n.up = "none"
        \/ /\ i.peerMode = "PRF" /\ i.st # "REKEYING" /\ n.st = "REKEYING" /\ n.rekeyInFlight = TRUE
           /\ n.up = "keygen"
    BY <1>1 DEF Notifies, Stays, Enters
  <2>4. Common(n) /\ Leads(n)
    BY <2>1, <2>2, <2>3 DEF Pair, Rekeys, Common, Leads
  <2>5. ~Upgraded(i) /\ Upgraded(n)
    BY <2>1, <2>2, <2>3 DEF Upgraded
  <2>6. Known(n, j, a) /\ Known(j, n, s)
    BY <2>1, <2>2, <2>5, KnownKept, KnownSent DEF Pair, Rekeys
  <2>7. ToJoiner(n, j, s) /\ ToInitiator(j, n, a)
    BY <2>1, <2>2, InitiatorSends DEF Pair, Rekeys
  <2>8. QED
    BY <2>4, <2>6, <2>7 DEF Pair, Rekeys
<1>2. ASSUME Notifies(n, j, a, s, "none")
      PROVE  Rekeys(i, n, s, b)
  <2>1. /\ n.peerMode = j.peerMode /\ n.key = j.key /\ n.recvCtr = j.recvCtr /\ n.pendingPair = j.pendingPair
        /\ n.mode = j.mode /\ n.offering = j.offering /\ n.incoming = j.incoming /\ n.hp = j.hp
    BY <1>2 DEF Notifies, Keeps, Fields
  <2>2. j.up = "notifying" /\ j.mode = "PRF" /\ j.key = 0 /\ j.hp # "rekeyInit" /\ Sends(n, j, a, s, "MODE_UPGRADED")
    BY <1>2 DEF Notifies, Pair, Rekeys, Common, Follows
  <2>3. \/ n.st = j.st /\ n.rekeyInFlight = j.rekeyInFlight /\ n.up = "none"
        \/ /\ j.peerMode = "PRF" /\ n.st = "REKEYING" /\ n.rekeyInFlight = TRUE /\ n.up = "none"
    BY <1>2 DEF Notifies, Stays, Enters
  <2>4. Common(n) /\ Follows(n)
    BY <2>1, <2>2, <2>3 DEF Pair, Rekeys, Common, Follows
  <2>5. ~Upgraded(j) /\ Upgraded(n)
    BY <2>1, <2>2, <2>3 DEF Upgraded
  <2>6. Known(n, i, b) /\ Known(i, n, s)
    BY <2>1, <2>2, <2>5, KnownKept, KnownSent DEF Pair, Rekeys
  <2>7. ToJoiner(i, n, b) /\ ToInitiator(n, i, s)
    BY <2>1, <2>2, JoinerSends DEF Pair, Rekeys
  <2>8. QED
    BY <2>4, <2>6, <2>7 DEF Pair, Rekeys
<1>3. QED
  BY <1>1, <1>2

LEMMA SendsInitKeeps ==
  ASSUME NEW i, NEW j, NEW a, NEW b, Pair(i, j, a, b), NEW n, NEW s, SendsInit(n, i, b, s)
  PROVE  Rekeys(n, j, a, s)
<1>1. /\ n.peerMode = i.peerMode /\ n.key = i.key /\ n.recvCtr = i.recvCtr /\ n.st = i.st
      /\ n.rekeyInFlight = i.rekeyInFlight
      /\ n.mode = i.mode /\ n.offering = i.offering /\ n.incoming = i.incoming
  BY DEF SendsInit, Keeps, Fields
<1>2. /\ i.pendingPair = FALSE /\ i.st = "REKEYING" /\ i.key = 0 /\ i.up # "notifying" /\ i.mode = "PRF"
      /\ i.hp # "rekeyAck" /\ i.hp # "commit" /\ i.up # "passkey"
      /\ n.pendingPair = TRUE /\ n.up = "none" /\ n.hp = "none"
      /\ Sends(n, i, b, s, "REKEY_INIT")
  BY DEF SendsInit, Pair, Rekeys, Common, Leads, Typed
<1>3. Common(n) /\ Leads(n)
  BY <1>1, <1>2 DEF Pair, Rekeys, Common, Leads
<1>4. Known(n, j, a) /\ Known(j, n, s)
  <2>1. Upgraded(n) /\ Upgraded(i)
    BY <1>1, <1>2 DEF Upgraded
  <2>2. QED
    BY <1>1, <1>2, <2>1, KnownKept, KnownSent DEF Pair, Rekeys
<1>5. /\ i.key = j.key /\ ~Has(b, "REKEY_INIT") /\ j.hp # "rekeyInit" /\ b \in Seq(Frame)
      /\ Chain(b, 0, j.recvCtr, i.sendCtr) /\ Only(b, Orders) /\ j.recvCtr \in Nat
  BY <1>2 DEF Pair, Rekeys, ToJoiner, Typed
<1>6. /\ Chain(s, 0, j.recvCtr, n.sendCtr) /\ Only(s, Orders) /\ AtEnd(s, "REKEY_INIT")
  <2>1. PICK x \in Frame : s = Append(b, x) /\ x.type = "REKEY_INIT" /\ x.key = 0 /\ x.ctr = i.sendCtr + 1
    BY <1>2 DEF Sends
  <2>2. x.type \in Orders /\ n.sendCtr = i.sendCtr + 1
    BY <1>2, <2>1 DEF Orders, Sends
  <2>3. Only(s, Orders) /\ AtEnd(s, "REKEY_INIT")
    BY <1>5, <2>1, <2>2, Appending
  <2>4. Chain(s, 0, j.recvCtr, i.sendCtr + 1)
    BY <1>5, <2>1, Appending
  <2>5. QED
    BY <2>2, <2>3, <2>4
<1>7. ToJoiner(n, j, s)
  BY <1>1, <1>2, <1>5, <1>6 DEF ToJoiner
<1>8. ToInitiator(j, n, a)
  BY <1>1, <1>2 DEF Pair, Rekeys, ToInitiator
<1>9. QED
  BY <1>3, <1>4, <1>7, <1>8 DEF Pair, Rekeys

LEMMA RespondsKeeps ==
  ASSUME NEW i, NEW j, NEW a, NEW b, Pair(i, j, a, b), NEW n, NEW s, Responds(n, j, a, s)
  PROVE  Rekeys(i, n, s, b)
<1>1. /\ n.peerMode = j.peerMode /\ n.st = j.st /\ n.rekeyInFlight = j.rekeyInFlight /\ n.pendingPair = j.pendingPair
      /\ n.mode = j.mode /\ n.offering = j.offering /\ n.incoming = j.incoming /\ n.up = j.up
  BY DEF Responds, Keeps, Fields
<1>2. /\ j.hp = "rekeyInit" /\ n.key = 1 /\ n.sendCtr = 0 /\ n.recvCtr = 0 /\ n.hp = "commit"
      /\ j.st = "REKEYING" /\ j.key = 0 /\ j.up = "none"
  BY DEF Responds, NewKey, Pair, Rekeys, Follows
<1>3. Common(n) /\ Follows(n)
  BY <1>1, <1>2 DEF Pair, Rekeys, Common, Follows
<1>4. i.pendingPair = TRUE /\ i.hp = "none" /\ b = <<>> /\ i.key = 0
  BY <1>2 DEF Pair, Rekeys, ToJoiner
<1>5. PICK x \in Frame : s = Append(a, x) /\ x.type = "REKEY_ACK" /\ x.key = 0 /\ x.ctr = j.sendCtr + 1
  BY <1>2 DEF Responds
<1>6. /\ a \in Seq(Frame) /\ Only(a, Answers) /\ Chain(a, 0, i.recvCtr, j.sendCtr) /\ ~Has(a, "REKEY_ACK")
      /\ i.recvCtr \in Nat
  BY <1>2, <1>4 DEF Pair, Rekeys, ToInitiator, Typed
<1>7. Only(s, Answers) /\ Turnover(s, i.recvCtr, 0)
  <2>1. x.type \in Answers
    BY <1>5 DEF Answers
  <2>2. QED
    BY <1>5, <1>6, <2>1, Appending, AppendingTurnover
<1>8. ToInitiator(n, i, s)
  BY <1>2, <1>4, <1>7 DEF ToInitiator
<1>9. ToJoiner(i, n, b)
  BY <1>2, <1>4, Nothing DEF ToJoiner
<1>10. Known(n, i, b) /\ Known(i, n, s)
  <2>1. Known(n, i, b)
    BY <1>1, KnownKept DEF Pair, Rekeys
  <2>2. Upgraded(n) <=> Upgraded(j)
    BY <1>1 DEF Upgraded
  <2>3. /\ Has(s, "MODE_UPGRADED") <=> Has(a, "MODE_UPGRADED")
        /\ Single(a, "MODE_UPGRADED") => Single(s, "MODE_UPGRADED")
    BY <1>5, <1>6, Appending
  <2>4. QED
    BY <2>1, <2>2, <2>3 DEF Pair, Rekeys, Known
<1>11. QED
  BY <1>3, <1>8, <1>9, <1>10 DEF Pair, Rekeys

LEMMA ConcludesKeeps ==
  ASSUME NEW i, NEW j, NEW a, NEW b, Pair(i, j, a, b), NEW n, Concludes(n, i)
  PROVE  Rekeys(n, j, a, b)
<1>1. /\ n.peerMode = i.peerMode /\ n.st = i.st /\ n.rekeyInFlight = i.rekeyInFlight
      /\ n.mode = i.mode /\ n.offering = i.offering /\ n.incoming = i.incoming /\ n.up = i.up
  BY DEF Concludes, Keeps, Fields
<1>2. /\ i.hp = "rekeyAck" /\ n.key = 1 /\ n.sendCtr = 0 /\ n.recvCtr = 0 /\ n.hp = "commit" /\ n.pendingPair = FALSE
      /\ i.pendingPair = TRUE /\ i.st = "REKEYING" /\ i.key = 0 /\ i.up = "none"
  BY DEF Concludes, NewKey, Pair, Rekeys, Leads
<1>3. Common(n) /\ Leads(n)
  BY <1>1, <1>2 DEF Pair, Rekeys, Common, Leads
<1>4. Known(n, j, a) /\ Known(j, n, b)
  <2>1. Upgraded(n) <=> Upgraded(i)
    BY <1>1 DEF Upgraded
  <2>2. QED
    BY <1>1, <2>1, KnownKept DEF Pair, Rekeys
<1>5. j.key = 1 /\ b = <<>> /\ j.recvCtr = 0 /\ Chain(a, 1, 0, j.sendCtr) /\ ~Has(a, "REKEY_ACK") /\ Only(a, Answers)
  BY <1>2 DEF Pair, Rekeys, ToJoiner, ToInitiator
<1>6. ToInitiator(j, n, a)
  BY <1>2, <1>5 DEF ToInitiator
<1>7. ToJoiner(n, j, b)
  <2>1. j.hp # "rekeyInit"
    BY <1>5 DEF Pair, Rekeys, Follows
  <2>2. Chain(b, 1, 0, 0) /\ Only(b, Orders) /\ AtEnd(b, "REKEY_INIT") /\ ~Has(b, "REKEY_INIT")
    BY <1>5, Nothing
  <2>3. QED
    BY <1>2, <1>5, <2>1, <2>2 DEF ToJoiner
<1>8. QED
  BY <1>3, <1>4, <1>6, <1>7 DEF Pair, Rekeys

LEMMA CommitsKeeps ==
  ASSUME NEW i, NEW j, NEW a, NEW b, Pair(i, j, a, b), NEW n, NEW s
  PROVE  /\ Commits(n, i, b, s) => Rekeys(n, j, a, s)
         /\ Commits(n, j, a, s) => Rekeys(i, n, s, b)
<1>1. ASSUME Commits(n, i, b, s)
      PROVE  Rekeys(n, j, a, s)
  <2>1. /\ n.peerMode = i.peerMode /\ n.key = i.key /\ n.recvCtr = i.recvCtr /\ n.pendingPair = i.pendingPair
        /\ n.mode = i.mode /\ n.offering = i.offering /\ n.incoming = i.incoming /\ n.up = i.up
    BY <1>1 DEF Commits, Keeps, Fields
  <2>2. /\ i.hp = "commit" /\ i.key = 1 /\ i.pendingPair = FALSE /\ i.up = "none"
        /\ n.hp = "none" /\ n.st = "ACTIVE" /\ n.rekeyInFlight = FALSE /\ Sends(n, i, b, s, "REKEY_DONE")
    BY <1>1 DEF Commits, Pair, Rekeys, Common
  <2>3. Common(n) /\ Leads(n)
    BY <2>1, <2>2 DEF Pair, Rekeys, Common, Leads
  <2>4. Known(n, j, a) /\ Known(j, n, s)
    BY <2>1, <2>2, KnownKept, KnownSent DEF Pair, Rekeys, Upgraded
  <2>5. ToJoiner(n, j, s) /\ ToInitiator(j, n, a)
    BY <2>1, <2>2, InitiatorSends DEF Pair, Rekeys
  <2>6. QED
    BY <2>3, <2>4, <2>5 DEF Pair, Rekeys
<1>2. ASSUME Commits(n, j, a, s)
      PROVE  Rekeys(i, n, s, b)
  <2>1. /\ n.peerMode = j.peerMode /\ n.key = j.key /\ n.recvCtr = j.recvCtr /\ n.pendingPair = j.pendingPair
        /\ n.mode = j.mode /\ n.offering = j.offering /\ n.incoming = j.incoming /\ n.up = j.up
    BY <1>2 DEF Commits, Keeps, Fields
  <2>2. /\ j.hp = "commit" /\ j.key = 1 /\ j.up = "none"
        /\ n.hp = "none" /\ n.st = "ACTIVE" /\ n.rekeyInFlight = FALSE /\ Sends(n, j, a, s, "REKEY_DONE")
    BY <1>2 DEF Commits, Pair, Rekeys, Common
  <2>3. Common(n) /\ Follows(n)
    BY <2>1, <2>2 DEF Pair, Rekeys, Common, Follows
  <2>4. Known(n, i, b) /\ Known(i, n, s)
    BY <2>1, <2>2, KnownKept, KnownSent DEF Pair, Rekeys, Upgraded
  <2>5. ToJoiner(i, n, b) /\ ToInitiator(n, i, s)
    BY <2>1, <2>2, JoinerSends DEF Pair, Rekeys
  <2>6. QED
    BY <2>3, <2>4, <2>5 DEF Pair, Rekeys
<1>3. QED
  BY <1>1, <1>2

LEMMA HearsKeeps ==
  ASSUME NEW i, NEW j, NEW a, NEW b, Pair(i, j, a, b), NEW n, NEW u
  PROVE  /\ Hears(n, i, a, u) => Rekeys(n, j, u, b)
         /\ Hears(n, j, b, u) => Rekeys(i, n, a, u)
<1>1. ASSUME Hears(n, i, a, u)
      PROVE  Rekeys(n, j, u, b)
  <2>1. /\ n.peerMode = i.peerMode /\ n.key = i.key /\ n.sendCtr = i.sendCtr /\ n.pendingPair = i.pendingPair
        /\ n.mode = i.mode /\ n.offering = i.offering /\ n.incoming = i.incoming /\ n.up = i.up
        /\ n.hp = i.hp /\ n.st = i.st /\ n.rekeyInFlight = i.rekeyInFlight
    BY <1>1 DEF Hears, Keeps, Fields
  <2>2. PICK t \in {"msg", "REKEY_DONE"} : Takes(n, i, a, u, t) /\ i.hp = "none"
    BY <1>1 DEF Hears
  <2>3. Common(n) /\ Leads(n)
    BY <2>1 DEF Pair, Rekeys, Common, Leads
  <2>4. Known(n, j, u) /\ Known(j, n, b)
    BY <2>1, <2>2, KnownKept, KnownTaken DEF Pair, Rekeys, Upgraded
  <2>5. ToJoiner(n, j, b) /\ ToInitiator(j, n, u)
    BY <2>1, <2>2, InitiatorTakes DEF Pair, Rekeys
  <2>6. QED
    BY <2>3, <2>4, <2>5 DEF Pair, Rekeys
<1>2. ASSUME Hears(n, j, b, u)
      PROVE  Rekeys(i, n, a, u)
  <2>1. /\ n.peerMode = j.peerMode /\ n.key = j.key /\ n.sendCtr = j.sendCtr /\ n.pendingPair = j.pendingPair
        /\ n.mode = j.mode /\ n.offering = j.offering /\ n.incoming = j.incoming /\ n.up = j.up
        /\ n.hp = j.hp /\ n.st = j.st /\ n.rekeyInFlight = j.rekeyInFlight
    BY <1>2 DEF Hears, Keeps, Fields
  <2>2. PICK t \in {"msg", "REKEY_DONE"} : Takes(n, j, b, u, t) /\ j.hp = "none"
    BY <1>2 DEF Hears
  <2>3. Common(n) /\ Follows(n)
    BY <2>1 DEF Pair, Rekeys, Common, Follows
  <2>4. Known(n, i, u) /\ Known(i, n, a)
    BY <2>1, <2>2, KnownKept, KnownTaken DEF Pair, Rekeys, Upgraded
  <2>5. ToJoiner(i, n, u) /\ ToInitiator(n, i, a)
    BY <2>1, <2>2, JoinerTakes DEF Pair, Rekeys
  <2>6. QED
    BY <2>3, <2>4, <2>5 DEF Pair, Rekeys
<1>3. QED
  BY <1>1, <1>2

LEMMA HearsUpgradeKeeps ==
  ASSUME NEW i, NEW j, NEW a, NEW b, Pair(i, j, a, b), NEW n, NEW u
  PROVE  /\ HearsUpgrade(n, i, a, u, "keygen") => Rekeys(n, j, u, b)
         /\ HearsUpgrade(n, j, b, u, "none") => Rekeys(i, n, a, u)
<1>1. ASSUME HearsUpgrade(n, i, a, u, "keygen")
      PROVE  Rekeys(n, j, u, b)
  <2>1. /\ n.key = i.key /\ n.sendCtr = i.sendCtr /\ n.pendingPair = i.pendingPair
        /\ n.mode = i.mode /\ n.offering = i.offering /\ n.incoming = i.incoming /\ n.up = i.up
    BY <1>1 DEF HearsUpgrade, Keeps, Fields
  <2>2. Takes(n, i, a, u, "MODE_UPGRADED") /\ i.hp = "none" /\ n.peerMode = "PRF"
    BY <1>1 DEF HearsUpgrade
  <2>3. \/ n.st = i.st /\ n.rekeyInFlight = i.rekeyInFlight /\ n.hp = "none"
        \/ /\ i.mode = "PRF" /\ i.st # "REKEYING" /\ n.st = "REKEYING" /\ n.rekeyInFlight = TRUE /\ n.hp = "keygen"
    BY <1>1 DEF HearsUpgrade, Stays, Enters
  <2>4. i.peerMode = "RAM"
    <3>1. Has(a, "MODE_UPGRADED")
      BY <2>2, Taking DEF Takes, Pair
    <3>2. QED
      BY <3>1 DEF Pair, Rekeys, Known
  <2>5. i.key = 0 /\ i.st # "REKEYING" /\ i.pendingPair = FALSE
    BY <2>4 DEF Pair, Rekeys, Common, Leads, Typed
  <2>6. Common(n) /\ Leads(n)
    BY <2>1, <2>2, <2>3, <2>5 DEF Pair, Rekeys, Common, Leads
  <2>7. Known(n, j, u) /\ Known(j, n, b)
    BY <2>1, <2>2, KnownKept, KnownTaken DEF Pair, Rekeys, Upgraded
  <2>8. ToJoiner(n, j, b) /\ ToInitiator(j, n, u)
    BY <2>1, <2>2, <2>3, <2>5, InitiatorTakes DEF Pair, Rekeys
  <2>9. QED
    BY <2>6, <2>7, <2>8 DEF Pair, Rekeys
<1>2. ASSUME HearsUpgrade(n, j, b, u, "none")
      PROVE  Rekeys(i, n, a, u)
  <2>1. /\ n.key = j.key /\ n.sendCtr = j.sendCtr /\ n.pendingPair = j.pendingPair
        /\ n.mode = j.mode /\ n.offering = j.offering /\ n.incoming = j.incoming /\ n.up = j.up
    BY <1>2 DEF HearsUpgrade, Keeps, Fields
  <2>2. Takes(n, j, b, u, "MODE_UPGRADED") /\ j.hp = "none" /\ n.peerMode = "PRF"
    BY <1>2 DEF HearsUpgrade
  <2>3. /\ n.hp = "none"
        /\ \/ n.st = j.st /\ n.rekeyInFlight = j.rekeyInFlight
           \/ j.mode = "PRF" /\ n.st = "REKEYING" /\ n.rekeyInFlight = TRUE
    BY <1>2 DEF HearsUpgrade, Stays, Enters
  <2>4. Common(n) /\ Follows(n)
    BY <2>1, <2>2, <2>3 DEF Pair, Rekeys, Common, Follows
  <2>5. Known(n, i, u) /\ Known(i, n, a)
    BY <2>1, <2>2, KnownKept, KnownTaken DEF Pair, Rekeys, Upgraded
  <2>6. ToJoiner(i, n, u) /\ ToInitiator(n, i, a)
    BY <2>1, <2>2, <2>3, JoinerTakes DEF Pair, Rekeys
  <2>7. QED
    BY <2>4, <2>5, <2>6 DEF Pair, Rekeys
<1>3. QED
  BY <1>1, <1>2

LEMMA HearsInitKeeps ==
  ASSUME NEW i, NEW j, NEW a, NEW b, Pair(i, j, a, b), NEW n, NEW u, HearsInit(n, j, b, u)
  PROVE  Rekeys(i, n, a, u)
<1>1. /\ n.peerMode = j.peerMode /\ n.key = j.key /\ n.sendCtr = j.sendCtr /\ n.pendingPair = j.pendingPair
      /\ n.mode = j.mode /\ n.offering = j.offering /\ n.incoming = j.incoming /\ n.up = j.up
  BY DEF HearsInit, Keeps, Fields
<1>2. /\ Takes(n, j, b, u, "REKEY_INIT") /\ j.hp = "none" /\ n.st = "REKEYING" /\ n.rekeyInFlight = TRUE
      /\ n.hp = "rekeyInit"
  BY DEF HearsInit
<1>3. PICK x : x = Head(b) /\ u = Tail(b) /\ b # <<>> /\ x.type = "REKEY_INIT" /\ n.recvCtr = x.ctr
  BY <1>2 DEF Takes
<1>4. b \in Seq(Frame) /\ AtEnd(b, "REKEY_INIT") /\ b # <<>> /\ x = Head(b) /\ u = Tail(b) /\ x.type = "REKEY_INIT"
  BY <1>3 DEF Pair, Rekeys, ToJoiner
<1>5. Has(b, "REKEY_INIT") /\ u = <<>>
  BY <1>4, Taking
<1>6. i.pendingPair = TRUE /\ i.hp = "none" /\ j.key = 0 /\ i.key = 0
  BY <1>5 DEF Pair, Rekeys, ToJoiner
<1>7. i.mode = "PRF" /\ i.peerMode = "PRF" /\ i.up = "none"
  BY <1>6 DEF Pair, Rekeys, Common, Leads
<1>8. Upgraded(i) /\ Upgraded(j)
  BY <1>7 DEF Pair, Rekeys, Known, Upgraded
<1>9. Known(n, i, u) /\ Known(i, n, a)
  BY <1>1, <1>2, KnownKept, KnownTaken DEF Pair, Rekeys, Upgraded
<1>10. n.peerMode = "PRF"
  BY <1>5, <1>8, <1>9, Nothing DEF Known
<1>11. Common(n) /\ Follows(n)
  BY <1>1, <1>2, <1>6, <1>8, <1>10 DEF Pair, Rekeys, Common, Follows, Upgraded, Typed
<1>12. ToInitiator(n, i, a)
  BY <1>1 DEF Pair, Rekeys, ToInitiator
<1>13. Chain(u, 0, n.recvCtr, i.sendCtr)
  <2>1. PICK f, m : f = j.recvCtr /\ m = i.sendCtr /\ f \in Nat /\ Chain(b, 0, f, m)
    BY <1>6 DEF Pair, Rekeys, ToJoiner, Typed
  <2>2. b \in Seq(Frame) /\ b # <<>> /\ x = Head(b) /\ u = Tail(b) /\ f \in Nat /\ Chain(b, 0, f, m)
    BY <1>4, <2>1
  <2>3. Chain(u, 0, f + 1, m)
    BY <2>2, TakingChain
  <2>4. x.ctr = f + 1
    BY <2>2, TakingChain
  <2>5. QED
    BY <1>3, <2>1, <2>3, <2>4
<1>14. Only(u, Orders) /\ AtEnd(u, "REKEY_INIT") /\ ~Has(u, "REKEY_INIT")
  BY <1>5, Nothing
<1>15. ToJoiner(i, n, u)
  BY <1>1, <1>2, <1>5, <1>6, <1>13, <1>14 DEF ToJoiner
<1>16. QED
  BY <1>9, <1>11, <1>12, <1>15 DEF Pair, Rekeys

LEMMA HearsAckKeeps ==
  ASSUME NEW i, NEW j, NEW a, NEW b, Pair(i, j, a, b), NEW n, NEW u, HearsAck(n, i, a, u)
  PROVE  Rekeys(n, j, u, b)
<1>1. /\ n.peerMode = i.peerMode /\ n.key = i.key /\ n.sendCtr = i.sendCtr /\ n.pendingPair = i.pendingPair
      /\ n.mode = i.mode /\ n.offering = i.offering /\ n.incoming = i.incoming /\ n.up = i.up
      /\ n.st = i.st /\ n.rekeyInFlight = i.rekeyInFlight
  BY DEF HearsAck, Keeps, Fields
<1>2. Takes(n, i, a, u, "REKEY_ACK") /\ i.hp = "none" /\ n.hp = "rekeyAck"
  BY DEF HearsAck
<1>3. PICK x : x = Head(a) /\ u = Tail(a) /\ a # <<>> /\ x.type = "REKEY_ACK" /\ a \in Seq(Frame)
  BY <1>2 DEF Takes, Pair
<1>4. Has(a, "REKEY_ACK")
  BY <1>3, Taking
<1>5. j.key # i.key /\ j.key = 1 /\ i.key = 0 /\ i.pendingPair = TRUE
  BY <1>4 DEF Pair, Rekeys, ToInitiator, ToJoiner, Typed
<1>6. Common(n) /\ Leads(n)
  BY <1>1, <1>2, <1>5 DEF Pair, Rekeys, Common, Leads
<1>7. Known(n, j, u) /\ Known(j, n, b)
  BY <1>1, <1>2, KnownKept, KnownTaken DEF Pair, Rekeys, Upgraded
<1>8. ToJoiner(n, j, b)
  BY <1>1, <1>5 DEF Pair, Rekeys, ToJoiner, Follows
<1>9. Chain(u, 1, 0, j.sendCtr) /\ ~Has(u, "REKEY_ACK")
  <2>1. PICK f, m : f = i.recvCtr /\ m = j.sendCtr /\ f \in Nat /\ Turnover(a, f, m)
    BY <1>2, <1>5 DEF Pair, Rekeys, ToInitiator, Typed
  <2>2. f \in Nat /\ Turnover(a, f, m)
    BY <2>1
  <2>3. Chain(u, 1, 0, m) /\ ~Has(u, "REKEY_ACK")
    BY <1>3, <2>2, TakingTurnover
  <2>4. QED
    BY <2>1, <2>3
<1>10. Only(u, Answers)
  BY <1>3, Taking DEF Pair, Rekeys, ToInitiator
<1>11. ToInitiator(j, n, u)
  BY <1>1, <1>2, <1>5, <1>9, <1>10 DEF ToInitiator
<1>12. QED
  BY <1>6, <1>7, <1>8, <1>11 DEF Pair, Rekeys

\* What end p, once e, becomes: n; what is on its way to it becomes u, once q,
\* and what is on its way to its peer s, once r.
Act(p, n, e, q, u, r, s) ==
  LET wait == IF p = "initiator" THEN "keygen" ELSE "none"
  IN \/ TurnsUp(n, e) /\ u = q /\ s = r
     \/ Says(n, e, r, s) /\ u = q
     \/ Notifies(n, e, r, s, wait) /\ u = q
     \/ p = "initiator" /\ SendsInit(n, e, r, s) /\ u = q
     \/ p = "joiner" /\ Responds(n, e, r, s) /\ u = q
     \/ p = "initiator" /\ Concludes(n, e) /\ u = q /\ s = r
     \/ Commits(n, e, r, s) /\ u = q
     \/ Hears(n, e, q, u) /\ s = r
     \/ HearsUpgrade(n, e, q, u, wait) /\ s = r
     \/ p = "joiner" /\ HearsInit(n, e, q, u) /\ s = r
     \/ p = "initiator" /\ HearsAck(n, e, q, u) /\ s = r

LEMMA ActKeeps ==
  ASSUME NEW i, NEW j, NEW a, NEW b, Pair(i, j, a, b), NEW n, NEW u, NEW s
  PROVE  /\ Act("initiator", n, i, a, u, b, s) => Rekeys(n, j, u, s)
         /\ Act("joiner", n, j, b, u, a, s) => Rekeys(i, n, s, u)
<1>1. ASSUME Act("initiator", n, i, a, u, b, s)
      PROVE  Rekeys(n, j, u, s)
  <2>1. \/ TurnsUp(n, i) /\ u = a /\ s = b
        \/ Says(n, i, b, s) /\ u = a
        \/ Notifies(n, i, b, s, "keygen") /\ u = a
        \/ SendsInit(n, i, b, s) /\ u = a
        \/ Concludes(n, i) /\ u = a /\ s = b
        \/ Commits(n, i, b, s) /\ u = a
        \/ Hears(n, i, a, u) /\ s = b
        \/ HearsUpgrade(n, i, a, u, "keygen") /\ s = b
        \/ HearsAck(n, i, a, u) /\ s = b
    BY <1>1 DEF Act
  <2>2. QED
    BY <2>1, TurnsUpKeeps, SaysKeeps, NotifiesKeeps, SendsInitKeeps, ConcludesKeeps, CommitsKeeps, HearsKeeps,
       HearsUpgradeKeeps, HearsAckKeeps
<1>2. ASSUME Act("joiner", n, j, b, u, a, s)
      PROVE  Rekeys(i, n, s, u)
  <2>1. \/ TurnsUp(n, j) /\ u = b /\ s = a
        \/ Says(n, j, a, s) /\ u = b
        \/ Notifies(n, j, a, s, "none") /\ u = b
        \/ Responds(n, j, a, s) /\ u = b
        \/ Commits(n, j, a, s) /\ u = b
        \/ Hears(n, j, b, u) /\ s = a
        \/ HearsUpgrade(n, j, b, u, "none") /\ s = a
        \/ HearsInit(n, j, b, u) /\ s = a
    BY <1>2 DEF Act
  <2>2. QED
    BY <2>1, TurnsUpKeeps, SaysKeeps, NotifiesKeeps, RespondsKeeps, CommitsKeeps, HearsKeeps,
       HearsUpgradeKeeps, HearsInitKeeps
<1>3. QED
  BY <1>1, <1>2

LEMMA KeepsSt == \A n, e, F : Keeps(n, e, F) /\ "st" \notin F => n.st = e.st
BY DEF Keeps, Fields

LEMMA ActAlive ==
  ASSUME NEW p, NEW n, NEW e, NEW q, NEW u, NEW r, NEW s, Typed(e), Act(p, n, e, q, u, r, s)
  PROVE  n.st \notin Over
<1>1. n.st = e.st \/ n.st \in {"ACTIVE", "UPGRADING_LOCAL", "REKEYING"}
  BY KeepsSt DEF Act, TurnsUp, Says, Notifies, SendsInit, Responds, Concludes, Commits, Hears, HearsUpgrade,
     HearsInit, HearsAck, Stays, Enters
<1>2. QED
  BY <1>1 DEF Typed, Over

LEMMA Joined ==
  ASSUME NEW q \in Seq(Frame), NEW r \in Seq(Frame)
  PROVE  /\ q \o r \in Seq(Frame)
         /\ \A x \in Frame : q \o (r \o <<x>>) = Append(q \o r, x)
         /\ q # <<>> => q \o r # <<>> /\ Head(q \o r) = Head(q) /\ Tail(q \o r) = Tail(q) \o r
         /\ r # <<>> => Append(q, Head(r)) \o Tail(r) = q \o r
<1>1. ASSUME NEW x \in Frame
      PROVE  q \o (r \o <<x>>) = Append(q \o r, x)
  <2>1. <<x>> \in Seq(Frame)
    OBVIOUS
  <2>2. (q \o r) \o <<x>> = q \o (r \o <<x>>)
    BY <2>1, ConcatAssociative
  <2>3. q \o r \in Seq(Frame)
    BY ConcatProperties
  <2>4. Append(q \o r, x) = (q \o r) \o <<x>>
    BY <2>3, AppendIsConcat
  <2>5. QED
    BY <2>2, <2>4
<1>2. ASSUME q # <<>>
      PROVE  q \o r # <<>> /\ Head(q \o r) = Head(q) /\ Tail(q \o r) = Tail(q) \o r
  <2>1. q \o r # <<>> /\ Head(q \o r) = Head(q)
    BY <1>2
  <2>2. Tail(q \o r) = Tail(q) \o r
    BY <1>2
  <2>3. QED
    BY <2>1, <2>2
<1>3. ASSUME r # <<>>
      PROVE  Append(q, Head(r)) \o Tail(r) = q \o r
  <2>1. PICK x \in Frame, v \in Seq(Frame) : x = Head(r) /\ v = Tail(r)
    BY <1>3, HeadTailProperties
  <2>2. r = <<x>> \o v
    <3>1. /\ Len(r) \in Nat \ {0} /\ Len(v) = Len(r) - 1 /\ x = r[1]
          /\ \A k \in 1..Len(v) : v[k] = r[k + 1]
      BY <1>3, <2>1
    <3>2. PICK w : w = <<x>>
      OBVIOUS
    <3>3. w \in Seq(Frame) /\ Len(w) = 1 /\ w[1] = x
      BY <3>2
    <3>4. /\ w \o v \in Seq(Frame) /\ Len(w \o v) = 1 + Len(v)
          /\ \A k \in 1..1 + Len(v) : (w \o v)[k] = IF k <= 1 THEN w[k] ELSE v[k - 1]
      <4>1. /\ w \o v \in Seq(Frame) /\ Len(w \o v) = Len(w) + Len(v)
            /\ \A k \in 1..Len(w) + Len(v) : (w \o v)[k] = IF k <= Len(w) THEN w[k] ELSE v[k - Len(w)]
        BY <3>3, ConcatProperties
      <4>2. QED
        BY <3>3, <4>1
    <3>5. Len(w \o v) = Len(r)
      BY <3>1, <3>4
    <3>6. ASSUME NEW k \in 1..Len(r)
          PROVE  (w \o v)[k] = r[k]
      <4>1. CASE k = 1
        BY <3>1, <3>3, <3>4, <4>1
      <4>2. CASE k # 1
        <5>1. k - 1 \in 1..Len(v) /\ k \in 1..1 + Len(v) /\ ~(k <= 1)
          BY <3>1, <4>2
        <5>2. (w \o v)[k] = v[k - 1] /\ v[k - 1] = r[(k - 1) + 1]
          BY <3>1, <3>4, <5>1
        <5>3. QED
          BY <5>2
      <4>3. QED
        BY <4>1, <4>2
    <3>7. w \o v = r
      BY <3>4, <3>5, <3>6, SeqEqual
    <3>8. QED
      BY <3>2, <3>7
  <2>3. Append(q, x) = q \o <<x>>
    BY AppendIsConcat
  <2>4. <<x>> \in Seq(Frame)
    OBVIOUS
  <2>5. (q \o <<x>>) \o v = q \o (<<x>> \o v)
    BY <2>4, ConcatAssociative
  <2>6. QED
    BY <2>1, <2>2, <2>3, <2>5
<1>4. q \o r \in Seq(Frame)
  BY ConcatProperties
<1>5. QED
  BY <1>1, <1>2, <1>3, <1>4

-----------------------------------------------------------------------------
(* Fields that change                                                      *)

LEMMA KeepsKeeps ==
  ASSUME NEW a, NEW b, NEW c, NEW F, NEW G, NEW H, Keeps(b, a, F), Keeps(c, b, G), F \cup G \subseteq H
  PROVE  Keeps(c, a, H)
BY DEF Keeps

LEMMA Touched ==
  ASSUME NEW e \in End
  PROVE  /\ \A v : [e EXCEPT !.st = v].st = v /\ Keeps([e EXCEPT !.st = v], e, {"st"})
         /\ \A v : [e EXCEPT !.up = v].up = v /\ Keeps([e EXCEPT !.up = v], e, {"up"})
         /\ \A v : [e EXCEPT !.hp = v].hp = v /\ Keeps([e EXCEPT !.hp = v], e, {"hp"})
         /\ \A v : [e EXCEPT !.mode = v].mode = v /\ Keeps([e EXCEPT !.mode = v], e, {"mode"})
         /\ \A v : [e EXCEPT !.peerMode = v].peerMode = v /\ Keeps([e EXCEPT !.peerMode = v], e, {"peerMode"})
         /\ \A v : [e EXCEPT !.pendingPair = v].pendingPair = v /\ Keeps([e EXCEPT !.pendingPair = v], e, {"pendingPair"})
         /\ \A v : [e EXCEPT !.rekeyInFlight = v].rekeyInFlight = v
                     /\ Keeps([e EXCEPT !.rekeyInFlight = v], e, {"rekeyInFlight"})
         /\ \A v : Keeps([e EXCEPT !.rec = v], e, {})
<1> USE DEF Keeps, Fields, End
<1>1. \A v : [e EXCEPT !.st = v].st = v /\ Keeps([e EXCEPT !.st = v], e, {"st"})
  OBVIOUS
<1>2. \A v : [e EXCEPT !.up = v].up = v /\ Keeps([e EXCEPT !.up = v], e, {"up"})
  OBVIOUS
<1>3. \A v : [e EXCEPT !.hp = v].hp = v /\ Keeps([e EXCEPT !.hp = v], e, {"hp"})
  OBVIOUS
<1>4. \A v : [e EXCEPT !.mode = v].mode = v /\ Keeps([e EXCEPT !.mode = v], e, {"mode"})
  OBVIOUS
<1>5. \A v : [e EXCEPT !.peerMode = v].peerMode = v /\ Keeps([e EXCEPT !.peerMode = v], e, {"peerMode"})
  OBVIOUS
<1>6. \A v : [e EXCEPT !.pendingPair = v].pendingPair = v /\ Keeps([e EXCEPT !.pendingPair = v], e, {"pendingPair"})
  OBVIOUS
<1>7. \A v : [e EXCEPT !.rekeyInFlight = v].rekeyInFlight = v
               /\ Keeps([e EXCEPT !.rekeyInFlight = v], e, {"rekeyInFlight"})
  OBVIOUS
<1>8. \A v : Keeps([e EXCEPT !.rec = v], e, {})
  OBVIOUS
<1> HIDE DEF Keeps, Fields, End
<1>9. QED
  BY <1>1, <1>2, <1>3, <1>4, <1>5, <1>6, <1>7, <1>8

-----------------------------------------------------------------------------
(* The steps of a session without faults and offers                        *)

NoOffers == \A p \in Role : offers[p] = 0

Paired == Rekeys(end["initiator"], end["joiner"], Pending("initiator"), Pending("joiner"))

Settled == TypeInv /\ BothAlive /\ (\A q \in Role : Calm(q)) /\ Paired

Moves(p) == Act(p, end'[p], end[p], Pending(p), Pending(p)', Pending(Peer(p)), Pending(Peer(p))')

LEMMA SettledFacts ==
  ASSUME Settled, NEW p \in Role
  PROVE  /\ end \in [Role -> End] /\ net \in [Role -> Seq(Frame)] /\ end[p] \in End /\ net[p] \in Seq(Frame)
         /\ end[p].inq \in Seq(Frame) /\ Pending(p) \in Seq(Frame) /\ AtEase(end[p]) /\ Typed(end[p])
         /\ Reaches(p) /\ CanSend(end[p]) /\ Common(end[p]) /\ Alive(p) /\ end[p].st \notin Over
<1>1. /\ end \in [Role -> End] /\ net \in [Role -> Seq(Frame)] /\ end[p] \in End /\ net[p] \in Seq(Frame)
      /\ end[p].inq \in Seq(Frame) /\ AtEase(end[p]) /\ Alive(p)
  BY InqTyped DEF Settled, TypeInv, Calm, BothAlive
<1>2. PICK e \in End : e = end[p] /\ AtEase(e)
  BY <1>1
<1>3. Typed(e) /\ CanSend(e) /\ e.st \notin Over
  BY <1>2 DEF End, AtEase, Typed, CanSend, Over
<1>4. Pending(p) \in Seq(Frame)
  BY <1>1, Joined DEF Pending
<1>5. Reaches(p)
  BY CalmReaches DEF Settled
<1>6. Common(end[p])
  BY Peers DEF Settled, Paired, Rekeys
<1>7. QED
  BY <1>1, <1>2, <1>3, <1>4, <1>5, <1>6

LEMMA SettledPair ==
  ASSUME Settled
  PROVE  Pair(end["initiator"], end["joiner"], Pending("initiator"), Pending("joiner"))
BY SettledFacts, Peers DEF Settled, Paired, Pair

LEMMA KeepsCounted ==
  ASSUME NEW n, NEW e, Alike(n, e)
  PROVE  Keeps(n, e, {"sendCtr"})
BY DEF Alike, Keeps, Fields

LEMMA OneFrame ==
  ASSUME NEW d \in End, NEW t \in Relayed, NEW id \in Nat
  PROVE  \E x \in Frame : /\ RelayFrames(d, <<t>>, id) = <<x>>
                         /\ x.type = t /\ x.key = d.key /\ x.ctr = d.sendCtr + 1
<1>1. PICK x : x = [type |-> t, key |-> d.key, ctr |-> d.sendCtr + 1, id |-> id]
  OBVIOUS
<1>2. d.key \in {0, 1} /\ d.sendCtr \in Nat
  BY DEF End
<1>3. x \in Frame
  BY <1>1, <1>2 DEF Frame, Relayed
<1>4. x.type = t /\ x.key = d.key /\ x.ctr = d.sendCtr + 1
  BY <1>1
<1>5. DOMAIN <<t>> = {1} /\ <<t>>[1] = t
  OBVIOUS
<1>6. RelayFrames(d, <<t>>, id) = [i \in {1} |-> x]
  BY <1>1, <1>5 DEF RelayFrames
<1>7. [i \in {1} |-> x] = <<x>>
  OBVIOUS
<1>8. QED
  BY <1>3, <1>4, <1>6, <1>7

\* One frame of type t by e follows u in v.
Sent(e, u, v, t) ==
  \E x \in Frame : v = Append(u, x) /\ x.type = t /\ x.key = e.key /\ x.ctr = e.sendCtr + 1

\* What its peer has still to handle, when the end p sends one frame.
LEMMA EmitOne ==
  ASSUME Settled, NEW p \in Role, NEW d \in End, SendsAs(d, end[p]), NEW t \in Relayed, NEW id \in Nat,
         NEW n, end' = [end EXCEPT ![p] = n], Emit(p, d, <<t>>, id)
  PROVE  end'[p] = n /\ net'[p] = net[p] /\ Sent(end[p], Pending(Peer(p)), Pending(Peer(p))', t)
<1>1. PICK o \in Role : o = Peer(p) /\ o # p
  BY Peers
<1>2. /\ end \in [Role -> End] /\ net \in [Role -> Seq(Frame)] /\ net[o] \in Seq(Frame)
      /\ end[o].inq \in Seq(Frame) /\ Reaches(p) /\ CanSend(end[p])
  BY <1>1, SettledFacts
<1>3. end'[p] = n /\ end'[o] = end[o]
  BY <1>1, <1>2
<1>4. PICK fs : fs = RelayFrames(d, <<t>>, id)
  OBVIOUS
<1>5. PICK x \in Frame : fs = <<x>> /\ x.type = t /\ x.key = d.key /\ x.ctr = d.sendCtr + 1
  BY <1>4, OneFrame
<1>6. net' = [net EXCEPT ![o] = net[o] \o fs]
  BY <1>1, <1>2, <1>4 DEF Emit, SendsAs, CanSend
<1>7. net'[p] = net[p] /\ net'[o] = net[o] \o fs
  BY <1>1, <1>2, <1>6
<1>8. Pending(o)' = end[o].inq \o (net[o] \o fs)
  BY <1>3, <1>7 DEF Pending
<1>9. end[o].inq \o (net[o] \o <<x>>) = Append(end[o].inq \o net[o], x)
  BY ZenonT(60), <1>2, Joined
<1>10. Pending(o)' = Append(Pending(o), x)
  BY <1>5, <1>8, <1>9 DEF Pending
<1>11. x.key = end[p].key /\ x.ctr = end[p].sendCtr + 1 /\ x.type = t
  BY <1>5 DEF SendsAs
<1>12. PICK u, v : u = Pending(Peer(p)) /\ v = Pending(Peer(p))' /\ v = Append(u, x)
  BY <1>1, <1>10
<1>13. Sent(end[p], u, v, t)
  BY <1>11, <1>12 DEF Sent
<1>14. QED
  BY <1>3, <1>7, <1>12, <1>13

LEMMA SentOne ==
  ASSUME Settled, NEW p \in Role, NEW e \in End, NEW d \in End, SendsAs(e, end[p]), SendsAs(d, end[p]),
         NEW t \in Relayed, NEW id \in Nat,
         end' = [end EXCEPT ![p] = Counted(e, <<t>>)], Emit(p, d, <<t>>, id)
  PROVE  /\ Keeps(end'[p], e, {"sendCtr"})
         /\ Sends(end'[p], end[p], Pending(Peer(p)), Pending(Peer(p))', t)
         /\ Pending(p)' = e.inq \o net[p]
<1>1. <<t>> \in Seq(Relayed) /\ Len(<<t>>) = 1
  BY OneSent DEF Kinds
<1>2. CanSend(e)
  BY SettledFacts DEF SendsAs, CanSend
<1>3. PICK n \in End : n = Counted(e, <<t>>) /\ Alike(n, e) /\ n.sendCtr = e.sendCtr + 1
  BY <1>1, <1>2, CountedTyped
<1>4. end'[p] = n /\ net'[p] = net[p] /\ Sent(end[p], Pending(Peer(p)), Pending(Peer(p))', t)
  <2>1. end' = [end EXCEPT ![p] = n]
    BY <1>3
  <2>2. QED
    BY <2>1, EmitOne
<1>5. Keeps(end'[p], e, {"sendCtr"}) /\ n.inq = e.inq
  BY <1>3, <1>4, KeepsCounted DEF Alike
<1>6. Pending(p)' = e.inq \o net[p]
  BY <1>4, <1>5 DEF Pending
<1>7. end'[p].sendCtr = end[p].sendCtr + 1
  BY <1>3, <1>4 DEF SendsAs
<1>8. QED
  BY <1>4, <1>5, <1>6, <1>7 DEF Sends, Sent

LEMMA SentNone ==
  ASSUME Settled, NEW p \in Role, NEW e, end' = [end EXCEPT ![p] = e], net' = net
  PROVE  end'[p] = e /\ Pending(p)' = e.inq \o net[p] /\ Pending(Peer(p))' = Pending(Peer(p))
BY SettledFacts, Peers DEF Pending

LEMMA StepNone ==
  ASSUME Settled, NEW p \in Role, NEW e, Step(p, e, <<>>)
  PROVE  end'[p] = e /\ Pending(p)' = e.inq \o net[p] /\ Pending(Peer(p))' = Pending(Peer(p))
<1>1. end' = [end EXCEPT ![p] = e]
  BY NothingSent DEF Step
<1>2. net' = net
  <2>1. PICK fs : fs = RelayFrames(e, <<>>, 0)
    OBVIOUS
  <2>2. fs = <<>>
    BY <2>1 DEF RelayFrames
  <2>3. net \in [Role -> Seq(Frame)] /\ Peer(p) \in Role
    BY SettledFacts, Peers
  <2>4. net[Peer(p)] \o <<>> = net[Peer(p)]
    BY <2>3, ConcatEmptySeq
  <2>5. [net EXCEPT ![Peer(p)] = @ \o fs] = net
    BY <2>2, <2>3, <2>4
  <2>6. QED
    BY <2>1, <2>5 DEF Step, Emit
<1>3. QED
  BY <1>1, <1>2, SentNone

\* The frame that an end takes is the first of those on their way to it.
LEMMA TookFirst ==
  ASSUME Settled, NEW p \in Role, NEW t, Frames(p, t), NEW n, n.recvCtr = Head(end[p].inq).ctr
  PROVE  /\ end[p].hp = "none" /\ end[p].inq # <<>>
         /\ Takes(n, end[p], Pending(p), Tail(end[p].inq) \o net[p], t)
<1>1. end[p].hp = "none" /\ end[p].inq # <<>> /\ Head(end[p].inq).type = t
  BY DEF Frames, Handles
<1>2. /\ Pending(p) # <<>> /\ Head(Pending(p)) = Head(end[p].inq)
      /\ Tail(Pending(p)) = Tail(end[p].inq) \o net[p]
  BY <1>1, SettledFacts, Joined DEF Pending
<1>3. QED
  BY <1>1, <1>2 DEF Takes

\* What is first is accepted, and is of a kind that its end expects.
LEMMA FirstAccepted ==
  ASSUME Settled, NEW p \in Role, NEW t, Handles(p, t)
  PROVE  /\ Accepts(end[p], Head(end[p].inq))
         /\ t \in IF p = "initiator" THEN Answers ELSE Orders
<1>1. end[p].hp = "none" /\ end[p].inq # <<>> /\ Head(end[p].inq).type = t
  BY DEF Handles
<1>2. Pending(p) # <<>> /\ Head(Pending(p)) = Head(end[p].inq) /\ end[p].gap = FALSE
  BY <1>1, SettledFacts, Joined DEF Pending, AtEase
<1>3. PICK f : f = Head(Pending(p))
  OBVIOUS
<1>4. f.key = end[p].key /\ f.ctr = end[p].recvCtr + 1 /\ f.type \in IF p = "initiator" THEN Answers ELSE Orders
  <2>1. Pair(end["initiator"], end["joiner"], Pending("initiator"), Pending("joiner"))
    BY SettledPair
  <2>2. p \in {"initiator", "joiner"}
    BY Peers
  <2>3. QED
    BY <1>1, <1>2, <1>3, <2>1, <2>2, NextAccepted DEF Pair, Rekeys
<1>5. QED
  BY <1>1, <1>2, <1>3, <1>4 DEF Accepts

LEMMA SayMoves ==
  ASSUME Settled, NEW p \in Role, Say(p)
  PROVE  Moves(p)
<1>1. end[p] \in End /\ AtEase(end[p]) /\ end[p].st = "ACTIVE"
  BY SettledFacts DEF Say
<1>2. Step(p, end[p], <<"msg">>)
  BY <1>1 DEF Say, AtEase
<1>3. end[p].up # "notifying"
  BY <1>2 DEF Step, Sending
<1>4. /\ Keeps(end'[p], end[p], {"sendCtr"}) /\ Pending(p)' = end[p].inq \o net[p]
      /\ Sends(end'[p], end[p], Pending(Peer(p)), Pending(Peer(p))', "msg")
  BY <1>1, <1>2, SentOne DEF Step, SendsAs, Relayed, Envelope
<1>5. Says(end'[p], end[p], Pending(Peer(p)), Pending(Peer(p))') /\ Pending(p)' = Pending(p)
  BY <1>1, <1>3, <1>4 DEF Says, Pending
<1>6. QED
  BY <1>5 DEF Moves, Act

LEMMA UpgradeMoves ==
  ASSUME Settled, NEW p \in Role, StartUpgrade(p) \/ UpgradeFails(p) \/ UpgradeSucceeds(p)
  PROVE  Moves(p)
<1>1. end \in [Role -> End] /\ end[p] \in End /\ end[p].st \notin Over
  BY SettledFacts
<1>2. PICK e \in End : e = end[p]
  BY <1>1
<1>3. \E n : end' = [end EXCEPT ![p] = n] /\ TurnsUp(n, e) /\ n.inq = e.inq
  <2>1. CASE StartUpgrade(p)
    <3>1. PICK n : n = [e EXCEPT !.st = "UPGRADING_LOCAL", !.up = "passkey"]
      OBVIOUS
    <3>2. end' = [end EXCEPT ![p] = n] /\ e.mode = "RAM" /\ e.st = "ACTIVE"
      BY <1>1, <1>2, <2>1, <3>1 DEF StartUpgrade
    <3>3. /\ Keeps(n, e, {"st", "up", "mode"})
          /\ n.st = "UPGRADING_LOCAL" /\ n.up = "passkey" /\ n.mode = e.mode /\ n.inq = e.inq
      BY <3>1 DEF Keeps, Fields, End
    <3>4. QED
      BY <3>2, <3>3 DEF TurnsUp
  <2>2. CASE UpgradeFails(p)
    <3>1. PICK n : n = [e EXCEPT !.st = "ACTIVE", !.up = "none"]
      OBVIOUS
    <3>2. end' = [end EXCEPT ![p] = n] /\ e.up = "passkey"
      BY <1>1, <1>2, <2>2, <3>1 DEF UpgradeFails
    <3>3. Keeps(n, e, {"st", "up", "mode"}) /\ n.st = "ACTIVE" /\ n.up = "none" /\ n.mode = e.mode /\ n.inq = e.inq
      BY <3>1 DEF Keeps, Fields, End
    <3>4. QED
      BY <3>2, <3>3 DEF TurnsUp
  <2>3. CASE UpgradeSucceeds(p)
    <3>1. PICK a : a = Persisted(e, FALSE)
      OBVIOUS
    <3>2. a \in End /\ Keeps(a, e, {}) /\ a.inq = e.inq
      BY <1>1, <1>2, <3>1, PersistedTurn, Touched, TurnAlive DEF Persisted, Turn
    <3>3. PICK n : n = [a EXCEPT !.mode = "PRF", !.st = "ACTIVE", !.up = "notifying"]
      OBVIOUS
    <3>4. end' = [end EXCEPT ![p] = n] /\ e.up = "passkey"
      BY <1>1, <1>2, <2>3, <3>1, <3>3 DEF UpgradeSucceeds
    <3>5. Keeps(n, a, {"st", "up", "mode"}) /\ n.st = "ACTIVE" /\ n.up = "notifying" /\ n.mode = "PRF" /\ n.inq = a.inq
      BY <3>2, <3>3 DEF Keeps, Fields, End
    <3>6. Keeps(n, e, {"st", "up", "mode"})
      BY <3>2, <3>5, KeepsKeeps
    <3>7. QED
      BY <3>2, <3>4, <3>5, <3>6 DEF TurnsUp
  <2>4. QED
    BY <2>1, <2>2, <2>3
<1>4. PICK n : end' = [end EXCEPT ![p] = n] /\ TurnsUp(n, e) /\ n.inq = e.inq
  BY <1>3
<1>5. net' = net
  BY DEF StartUpgrade, UpgradeFails, UpgradeSucceeds
<1>6. end'[p] = n /\ Pending(p)' = n.inq \o net[p] /\ Pending(Peer(p))' = Pending(Peer(p))
  BY <1>4, <1>5, SentNone
<1>7. QED
  BY <1>2, <1>4, <1>6 DEF Moves, Act, Pending

\* The rekey of e has begun in n, or could not begin.
Begun(p, n, e, pc) ==
  /\ ~MayStartRekey(e) => n = e
  /\ MayStartRekey(e) => /\ Keeps(n, e, {"st", "rekeyInFlight", pc})
                         /\ n.st = "REKEYING" /\ n.rekeyInFlight = TRUE
                         /\ n[pc] = IF p = "initiator" THEN "keygen" ELSE e[pc]

\* Without an open offer the rekey begins without a frame.
LEMMA StartedFields ==
  ASSUME NEW e \in End, e.st \notin Over, e.offering = FALSE, e.incoming = FALSE, NEW p \in Role, NEW pc \in {"up", "hp"},
         NEW n, n = StartedRekey(p, e, pc)
  PROVE  /\ n \in End /\ Turn(n, e) /\ StartFrames(e) = <<>> /\ CancelFrames(e) = <<>>
         /\ Keeps(EnterRekeying(e), e, {"st", "rekeyInFlight"})
         /\ Begun(p, n, e, pc)
<1>1. n \in End /\ Turn(n, e)
  BY StartedTurn, TurnAlive
<1>2. CancelFrames(e) = <<>> /\ StartFrames(e) = <<>>
  BY DEF CancelFrames, StartFrames
<1>3. PICK a : a = EnterRekeying(e)
  OBVIOUS
<1>4. a \in End /\ a.st = "REKEYING" /\ a.rekeyInFlight = TRUE /\ Keeps(a, e, {"st", "rekeyInFlight"})
  <2>1. /\ a \in End /\ a.st = "REKEYING" /\ a.rekeyInFlight = TRUE /\ a.offering = FALSE /\ a.incoming = FALSE
        /\ a.recvCtr = e.recvCtr /\ a.mode = e.mode /\ a.peerMode = e.peerMode
        /\ a.key = e.key /\ a.sendCtr = e.sendCtr /\ a.pendingPair = e.pendingPair /\ a.up = e.up /\ a.hp = e.hp
    BY <1>3, RekeyingTyped
  <2>2. QED
    BY <2>1 DEF Keeps, Fields
<1>5. ASSUME MayStartRekey(e)
      PROVE  /\ Keeps(n, e, {"st", "rekeyInFlight", pc})
             /\ n.st = "REKEYING" /\ n.rekeyInFlight = TRUE
             /\ n[pc] = IF p = "initiator" THEN "keygen" ELSE e[pc]
  <2>1. CASE p = "initiator"
    <3>1. n = [a EXCEPT ![pc] = "keygen"]
      BY <1>3, <1>5, <2>1 DEF StartedRekey
    <3>2. Keeps(n, a, {pc}) /\ n[pc] = "keygen"
      <4>1. CASE pc = "up"
        <5>1. PICK b : b = [a EXCEPT !.up = "keygen"]
          OBVIOUS
        <5>2. Keeps(b, a, {"up"}) /\ b.up = "keygen"
          BY <1>4, <5>1, Touched
        <5>3. n = b
          BY <3>1, <4>1, <5>1
        <5>4. QED
          BY <4>1, <5>2, <5>3
      <4>2. CASE pc = "hp"
        <5>1. PICK b : b = [a EXCEPT !.hp = "keygen"]
          OBVIOUS
        <5>2. Keeps(b, a, {"hp"}) /\ b.hp = "keygen"
          BY <1>4, <5>1, Touched
        <5>3. n = b
          BY <3>1, <4>2, <5>1
        <5>4. QED
          BY <4>2, <5>2, <5>3
      <4>3. QED
        BY <4>1, <4>2
    <3>3. Keeps(n, e, {"st", "rekeyInFlight", pc})
      BY <1>4, <3>2, KeepsKeeps
    <3>4. n.st = a.st /\ n.rekeyInFlight = a.rekeyInFlight
      BY <3>2 DEF Keeps, Fields
    <3>5. QED
      BY <1>4, <2>1, <3>2, <3>3, <3>4
  <2>2. CASE p # "initiator"
    <3>1. n = a
      BY <1>3, <1>5, <2>2 DEF StartedRekey
    <3>2. n[pc] = e[pc]
      BY <1>4, <3>1 DEF Keeps, Fields
    <3>3. Keeps(n, e, {"st", "rekeyInFlight", pc})
      BY <1>4, <3>1 DEF Keeps
    <3>4. QED
      BY <1>4, <2>2, <3>1, <3>2, <3>3
  <2>3. QED
    BY <2>1, <2>2
<1>6. QED
  BY <1>1, <1>2, <1>3, <1>4, <1>5 DEF StartedRekey, Begun

LEMMA UpgradeNotifiesMoves ==
  ASSUME Settled, NEW p \in Role, UpgradeNotifies(p)
  PROVE  Moves(p)
<1>1. PICK a \in End : /\ a = end[p] /\ a.st \notin Over /\ a.offering = FALSE /\ a.incoming = FALSE
                       /\ a.up = "notifying" /\ a.rekeyInFlight \in BOOLEAN
  BY SettledFacts DEF Common, Typed, UpgradeNotifies, Sending
<1>2. PICK e \in End : e = [a EXCEPT !.up = "none"] /\ Turn(e, a) /\ Keeps(e, a, {"up"}) /\ e.up = "none"
  <2>1. PICK e : e = [a EXCEPT !.up = "none"]
    OBVIOUS
  <2>2. Turn(e, a) /\ e \in End
    BY <1>1, <2>1, SmallTurns, TurnAlive
  <2>3. Keeps(e, a, {"up"}) /\ e.up = "none"
    BY <2>1, Touched
  <2>4. QED
    BY <2>1, <2>2, <2>3
<1>3. e.st \notin Over /\ e.offering = FALSE /\ e.incoming = FALSE
  BY <1>1, <1>2 DEF Keeps, Fields
<1>4. PICK m : m = StartedRekey(p, e, "up")
  OBVIOUS
<1>5. m \in End /\ Turn(m, e) /\ StartFrames(e) = <<>> /\ Begun(p, m, e, "up")
  BY <1>3, <1>4, StartedFields
<1>6. PICK n \in End : /\ n = (IF e.peerMode = "PRF" THEN m ELSE e) /\ Turn(n, e)
                       /\ Keeps(n, e, {"st", "rekeyInFlight", "up"})
                       /\ \/ n.st = e.st /\ n.rekeyInFlight = e.rekeyInFlight /\ n.up = "none"
                          \/ /\ e.peerMode = "PRF" /\ MayStartRekey(e) /\ n.st = "REKEYING" /\ n.rekeyInFlight = TRUE
                             /\ n.up = IF p = "initiator" THEN "keygen" ELSE "none"
  <2>1. Turn(e, e) /\ Keeps(e, e, {"st", "rekeyInFlight", "up"})
    BY <1>3, SmallTurns DEF Keeps
  <2>2. CASE e.peerMode = "PRF" /\ MayStartRekey(e)
    BY <1>2, <1>5, <2>2 DEF Begun
  <2>3. CASE ~(e.peerMode = "PRF" /\ MayStartRekey(e))
    BY <1>2, <1>5, <2>1, <2>3 DEF Begun
  <2>4. QED
    BY <2>2, <2>3
<1>7. <<"MODE_UPGRADED">> \o (IF e.peerMode = "PRF" THEN StartFrames(e) ELSE <<>>) = <<"MODE_UPGRADED">>
  <2>1. <<"MODE_UPGRADED">> \in Seq(Relayed)
    BY DEF Relayed, ModeKind
  <2>2. <<"MODE_UPGRADED">> \o <<>> = <<"MODE_UPGRADED">>
    BY <2>1, ConcatEmptySeq
  <2>3. QED
    BY <1>5, <2>2
<1>8. /\ end' = [end EXCEPT ![p] = Counted(n, <<"MODE_UPGRADED">>)]
      /\ Emit(p, e, <<"MODE_UPGRADED">>, 0)
  BY <1>1, <1>2, <1>4, <1>6, <1>7 DEF UpgradeNotifies
<1>9. SendsAs(n, end[p]) /\ SendsAs(e, end[p]) /\ n.inq = a.inq /\ "MODE_UPGRADED" \in Relayed /\ 0 \in Nat
  BY <1>1, <1>2, <1>6 DEF Turn, SendsAs, Relayed, ModeKind
<1>10. /\ Keeps(end'[p], n, {"sendCtr"}) /\ Pending(p)' = n.inq \o net[p]
       /\ Sends(end'[p], end[p], Pending(Peer(p)), Pending(Peer(p))', "MODE_UPGRADED")
  BY <1>8, <1>9, SentOne
<1>11. PICK N : N = end'[p] /\ Keeps(N, n, {"sendCtr"}) /\ Sends(N, a, Pending(Peer(p)), Pending(Peer(p))', "MODE_UPGRADED")
  BY <1>1, <1>10
<1>12. Keeps(N, a, {"sendCtr", "up", "st", "rekeyInFlight"})
  BY <1>2, <1>6, <1>11 DEF Keeps
<1>13. \/ Stays(N, a) /\ N.up = "none"
       \/ a.peerMode = "PRF" /\ Enters(N, a, "up", IF p = "initiator" THEN "keygen" ELSE "none")
  <2>1. N.st = n.st /\ N.rekeyInFlight = n.rekeyInFlight /\ N.up = n.up
    BY <1>11 DEF Keeps, Fields
  <2>2. e.st = a.st /\ e.rekeyInFlight = a.rekeyInFlight /\ e.peerMode = a.peerMode
    BY <1>2 DEF Keeps, Fields
  <2>3. QED
    BY <1>1, <1>6, <2>1, <2>2 DEF Stays, Enters, MayStartRekey
<1>14. Pending(p)' = Pending(p)
  BY <1>1, <1>9, <1>10 DEF Pending
<1>15. Notifies(N, a, Pending(Peer(p)), Pending(Peer(p))', IF p = "initiator" THEN "keygen" ELSE "none")
  BY <1>1, <1>11, <1>12, <1>13 DEF Notifies
<1>16. QED
  BY <1>1, <1>11, <1>14, <1>15 DEF Moves, Act

LEMMA SendRekeyInitMoves ==
  ASSUME Settled, NEW p \in Role, NEW pc \in {"up", "hp"}, SendRekeyInit(p, pc)
  PROVE  Moves(p)
<1>1. PICK a \in End : /\ a = end[p] /\ a[pc] = "keygen"
                       /\ Step(p, [a EXCEPT ![pc] = "none", !.pendingPair = TRUE], <<"REKEY_INIT">>)
  BY SettledFacts DEF SendRekeyInit
<1>2. a.up = "keygen" \/ a.hp = "keygen"
  BY <1>1
<1>3. p = "initiator" /\ a.up # "notifying"
  BY <1>1, <1>2, Peers DEF Settled, Paired, Rekeys, Follows, Step, Sending
<1>4. PICK c \in End : /\ c = [a EXCEPT ![pc] = "none"] /\ Keeps(c, a, {"up", "hp"}) /\ Turn(c, a)
                       /\ \/ a.up = "keygen" /\ c.up = "none" /\ c.hp = a.hp
                          \/ a.hp = "keygen" /\ c.hp = "none" /\ c.up = a.up
  <2>1. a.st \notin Over
    BY <1>1, SettledFacts
  <2>2. CASE pc = "up"
    <3>1. PICK c : c = [a EXCEPT !.up = "none"] /\ Turn(c, a) /\ Keeps(c, a, {"up"}) /\ c.up = "none"
      <4>1. PICK c : c = [a EXCEPT !.up = "none"]
        OBVIOUS
      <4>2. Turn(c, a)
        BY <2>1, <4>1, SmallTurns
      <4>3. Keeps(c, a, {"up"}) /\ c.up = "none"
        BY <4>1, Touched
      <4>4. QED
        BY <4>1, <4>2, <4>3
    <3>2. Keeps(c, a, {"up", "hp"}) /\ c.hp = a.hp
      BY <3>1 DEF Keeps, Fields
    <3>3. c = [a EXCEPT ![pc] = "none"] /\ a.up = "keygen"
      BY <1>1, <2>2, <3>1
    <3>4. QED
      BY <3>1, <3>2, <3>3, TurnAlive
  <2>3. CASE pc = "hp"
    <3>1. PICK c : c = [a EXCEPT !.hp = "none"] /\ Turn(c, a) /\ Keeps(c, a, {"hp"}) /\ c.hp = "none"
      <4>1. PICK c : c = [a EXCEPT !.hp = "none"]
        OBVIOUS
      <4>2. Turn(c, a)
        BY <2>1, <4>1, SmallTurns
      <4>3. Keeps(c, a, {"hp"}) /\ c.hp = "none"
        BY <4>1, Touched
      <4>4. QED
        BY <4>1, <4>2, <4>3
    <3>2. Keeps(c, a, {"up", "hp"}) /\ c.up = a.up
      BY <3>1 DEF Keeps, Fields
    <3>3. c = [a EXCEPT ![pc] = "none"] /\ a.hp = "keygen"
      BY <1>1, <2>3, <3>1
    <3>4. QED
      BY <3>1, <3>2, <3>3, TurnAlive
  <2>4. QED
    BY <2>2, <2>3
<1>5. PICK e \in End : /\ e = [a EXCEPT ![pc] = "none", !.pendingPair = TRUE] /\ Turn(e, a)
                       /\ Keeps(e, a, {"up", "hp", "pendingPair"}) /\ e.pendingPair = TRUE /\ e.up = c.up /\ e.hp = c.hp
  <2>1. PICK e : e = [c EXCEPT !.pendingPair = TRUE]
    OBVIOUS
  <2>2. Turn(e, c) /\ Keeps(e, c, {"pendingPair"}) /\ e.pendingPair = TRUE
    BY <1>4, <2>1, SmallTurns, TurnAlive, Touched
  <2>3. e = [a EXCEPT ![pc] = "none", !.pendingPair = TRUE]
    BY <1>4, <2>1
  <2>4. Turn(e, a) /\ e \in End
    BY <1>4, <2>2, TurnTurn, TurnAlive
  <2>5. Keeps(e, a, {"up", "hp", "pendingPair"}) /\ e.up = c.up /\ e.hp = c.hp
    BY <1>4, <2>2 DEF Keeps, Fields
  <2>6. QED
    BY <2>2, <2>3, <2>4, <2>5
<1>6. /\ end' = [end EXCEPT ![p] = Counted(e, <<"REKEY_INIT">>)]
      /\ Emit(p, e, <<"REKEY_INIT">>, 0)
  BY <1>1, <1>5 DEF Step
<1>7. SendsAs(e, end[p]) /\ e.inq = a.inq /\ "REKEY_INIT" \in Relayed /\ 0 \in Nat
  BY <1>1, <1>5 DEF Turn, Relayed, ModeKind
<1>8. /\ Keeps(end'[p], e, {"sendCtr"}) /\ Pending(p)' = e.inq \o net[p]
      /\ Sends(end'[p], end[p], Pending(Peer(p)), Pending(Peer(p))', "REKEY_INIT")
  BY <1>6, <1>7, SentOne
<1>9. PICK N : N = end'[p] /\ Keeps(N, e, {"sendCtr"}) /\ Sends(N, a, Pending(Peer(p)), Pending(Peer(p))', "REKEY_INIT")
  BY <1>1, <1>8
<1>10. Keeps(N, a, {"sendCtr", "up", "hp", "pendingPair"})
  BY <1>5, <1>9 DEF Keeps
<1>11. N.pendingPair = e.pendingPair /\ N.up = e.up /\ N.hp = e.hp
  BY <1>9 DEF Keeps, Fields
<1>12. SendsInit(N, a, Pending(Peer(p)), Pending(Peer(p))')
  BY <1>3, <1>4, <1>5, <1>9, <1>10, <1>11 DEF SendsInit
<1>13. Pending(p)' = Pending(p)
  BY <1>1, <1>7, <1>8 DEF Pending
<1>14. QED
  BY <1>1, <1>3, <1>9, <1>12, <1>13 DEF Moves, Act

LEMMA AnswerRekeyInitMoves ==
  ASSUME Settled, NEW p \in Role, AnswerRekeyInit(p)
  PROVE  Moves(p)
<1>1. PICK a \in End : a = end[p] /\ a.hp = "rekeyInit" /\ CanSend(a) /\ a.st \notin Over
  BY SettledFacts DEF AnswerRekeyInit
<1>2. p = "joiner"
  BY <1>1, Peers DEF Settled, Paired, Rekeys, Leads
<1>3. <<"REKEY_ACK">> \in Seq(Relayed) /\ "REKEY_ACK" \in Relayed /\ 0 \in Nat
  BY DEF Relayed, ModeKind
<1>4. PICK c \in End : c = Counted(a, <<"REKEY_ACK">>) /\ Alike(c, a)
  BY <1>3, CountedTyped
<1>5. c.st \notin Over /\ Keeps(c, a, {"sendCtr"}) /\ c.inq = a.inq
  BY <1>1, <1>4, KeepsCounted DEF Alike
<1>6. PICK n : n = Rekeyed(c)
  OBVIOUS
<1>7. /\ n.inq = c.inq /\ n.key = 1 /\ n.sendCtr = 0 /\ n.recvCtr = 0 /\ n.hp = "commit"
      /\ n.st = c.st /\ n.mode = c.mode /\ n.peerMode = c.peerMode
      /\ n.rekeyInFlight = c.rekeyInFlight /\ n.pendingPair = c.pendingPair
      /\ n.offering = c.offering /\ n.incoming = c.incoming /\ n.up = c.up
  BY <1>5, <1>6, RekeyedTyped
<1>8. Keeps(n, c, {"key", "sendCtr", "recvCtr", "hp"}) /\ NewKey(n)
  BY <1>7 DEF Keeps, Fields, NewKey
<1>9. Keeps(n, a, {"key", "sendCtr", "recvCtr", "hp"})
  BY <1>5, <1>8 DEF Keeps
<1>10. end' = [end EXCEPT ![p] = n] /\ Emit(p, a, <<"REKEY_ACK">>, 0) /\ SendsAs(a, end[p])
  BY <1>1, <1>4, <1>6 DEF AnswerRekeyInit, SendsAs
<1>11. end'[p] = n /\ net'[p] = net[p] /\ Sent(end[p], Pending(Peer(p)), Pending(Peer(p))', "REKEY_ACK")
  BY <1>3, <1>10, EmitOne
<1>12. Pending(p)' = Pending(p)
  BY <1>1, <1>5, <1>7, <1>11 DEF Pending
<1>13. Responds(n, a, Pending(Peer(p)), Pending(Peer(p))')
  BY <1>1, <1>8, <1>9, <1>11 DEF Responds, Sent
<1>14. QED
  BY <1>1, <1>2, <1>11, <1>12, <1>13 DEF Moves, Act

LEMMA TakeRekeyAckMoves ==
  ASSUME Settled, NEW p \in Role, TakeRekeyAck(p)
  PROVE  Moves(p)
<1>1. PICK a \in End : a = end[p] /\ a.hp = "rekeyAck" /\ a.st \notin Over
  BY SettledFacts DEF TakeRekeyAck
<1>2. p = "initiator"
  BY <1>1, Peers DEF Settled, Paired, Rekeys, Follows
<1>3. PICK c : c = [a EXCEPT !.pendingPair = FALSE]
  OBVIOUS
<1>4. Turn(c, a) /\ c \in End /\ c.st \notin Over
  BY <1>1, <1>3, SmallTurns, TurnAlive
<1>5. Keeps(c, a, {"pendingPair"}) /\ c.pendingPair = FALSE /\ c.inq = a.inq
  BY <1>3, <1>4, Touched DEF Turn
<1>6. PICK n : n = Rekeyed(c)
  OBVIOUS
<1>7. /\ n.inq = c.inq /\ n.key = 1 /\ n.sendCtr = 0 /\ n.recvCtr = 0 /\ n.hp = "commit"
      /\ n.st = c.st /\ n.mode = c.mode /\ n.peerMode = c.peerMode
      /\ n.rekeyInFlight = c.rekeyInFlight /\ n.pendingPair = c.pendingPair
      /\ n.offering = c.offering /\ n.incoming = c.incoming /\ n.up = c.up
  BY <1>4, <1>6, RekeyedTyped
<1>8. Keeps(n, c, {"key", "sendCtr", "recvCtr", "hp"}) /\ NewKey(n)
  BY <1>7 DEF Keeps, Fields, NewKey
<1>9. Keeps(n, a, {"key", "sendCtr", "recvCtr", "hp", "pendingPair"}) /\ n.pendingPair = FALSE
  BY <1>5, <1>7, <1>8 DEF Keeps
<1>10. end' = [end EXCEPT ![p] = n] /\ net' = net
  BY <1>1, <1>3, <1>6 DEF TakeRekeyAck
<1>11. end'[p] = n /\ Pending(p)' = n.inq \o net[p] /\ Pending(Peer(p))' = Pending(Peer(p))
  BY <1>10, SentNone
<1>12. Pending(p)' = Pending(p)
  BY <1>1, <1>5, <1>7, <1>11 DEF Pending
<1>13. Concludes(n, a)
  BY <1>1, <1>8, <1>9 DEF Concludes
<1>14. QED
  BY <1>1, <1>2, <1>11, <1>12, <1>13 DEF Moves, Act

LEMMA FinishCommitMoves ==
  ASSUME Settled, NEW p \in Role, FinishCommit(p)
  PROVE  Moves(p)
<1>1. PICK o \in End : o = end[p] /\ o.hp = "commit" /\ o.st \notin Over
  BY SettledFacts DEF FinishCommit
<1>2. PICK a : a = IF Stored(o) THEN Persisted(o, TRUE) ELSE o
  OBVIOUS
<1>3. Turn(a, o) /\ a \in End /\ a.st \notin Over
  BY <1>1, <1>2, PersistedTurn, SmallTurns, TurnAlive
<1>4. Keeps(a, o, {})
  <2>1. Keeps(Persisted(o, TRUE), o, {})
    BY Touched DEF Persisted
  <2>2. Keeps(o, o, {})
    BY DEF Keeps
  <2>3. QED
    BY <1>2, <2>1, <2>2
<1>5. PICK b : b = [a EXCEPT !.rekeyInFlight = FALSE]
  OBVIOUS
<1>6. Turn(b, a) /\ b \in End /\ b.st \notin Over /\ Keeps(b, a, {"rekeyInFlight"}) /\ b.rekeyInFlight = FALSE
  <2>1. Turn(b, a) /\ b \in End /\ b.st \notin Over
    BY <1>3, <1>5, SmallTurns, TurnAlive
  <2>2. Keeps(b, a, {"rekeyInFlight"}) /\ b.rekeyInFlight = FALSE
    BY <1>3, <1>5, Touched
  <2>3. QED
    BY <2>1, <2>2
<1>7. PICK c : c = [b EXCEPT !.st = "ACTIVE"]
  OBVIOUS
<1>8. Turn(c, b) /\ c \in End /\ c.st \notin Over /\ Keeps(c, b, {"st"}) /\ c.st = "ACTIVE"
  <2>1. Turn(c, b) /\ c \in End /\ c.st \notin Over
    BY <1>6, <1>7, SmallTurns, TurnAlive
  <2>2. Keeps(c, b, {"st"}) /\ c.st = "ACTIVE"
    BY <1>6, <1>7, Touched
  <2>3. QED
    BY <2>1, <2>2
<1>9. PICK d : d = [c EXCEPT !.hp = "none"]
  OBVIOUS
<1>10. Turn(d, c) /\ d \in End /\ Keeps(d, c, {"hp"}) /\ d.hp = "none"
  <2>1. Turn(d, c) /\ d \in End
    BY <1>8, <1>9, SmallTurns, TurnAlive
  <2>2. Keeps(d, c, {"hp"}) /\ d.hp = "none"
    BY <1>8, <1>9, Touched
  <2>3. QED
    BY <2>1, <2>2
<1>11. Turn(d, o)
  BY <1>3, <1>6, <1>8, <1>10, TurnTurn
<1>12. d = [a EXCEPT !.rekeyInFlight = FALSE, !.st = "ACTIVE", !.hp = "none"]
  BY <1>5, <1>7, <1>9
<1>13. end' = [end EXCEPT ![p] = Counted(d, <<"REKEY_DONE">>)] /\ Emit(p, d, <<"REKEY_DONE">>, 0)
  BY <1>1, <1>2, <1>12 DEF FinishCommit, Step
<1>14. SendsAs(d, end[p]) /\ d.inq = o.inq /\ "REKEY_DONE" \in Relayed /\ 0 \in Nat
  BY <1>1, <1>11 DEF Turn, Relayed, ModeKind
<1>15. /\ Keeps(end'[p], d, {"sendCtr"}) /\ Pending(p)' = d.inq \o net[p]
       /\ Sends(end'[p], end[p], Pending(Peer(p)), Pending(Peer(p))', "REKEY_DONE")
  BY <1>10, <1>13, <1>14, SentOne
<1>16. PICK N : N = end'[p] /\ Keeps(N, d, {"sendCtr"}) /\ Sends(N, o, Pending(Peer(p)), Pending(Peer(p))', "REKEY_DONE")
  BY <1>1, <1>15
<1>17. Keeps(N, o, {"sendCtr", "rekeyInFlight", "st", "hp"})
  BY <1>4, <1>6, <1>8, <1>10, <1>16 DEF Keeps
<1>18. N.hp = "none" /\ N.st = "ACTIVE" /\ N.rekeyInFlight = FALSE
  BY <1>6, <1>8, <1>10, <1>16 DEF Keeps, Fields
<1>19. Commits(N, o, Pending(Peer(p)), Pending(Peer(p))')
  BY <1>1, <1>16, <1>17, <1>18 DEF Commits
<1>20. Pending(p)' = Pending(p)
  BY <1>1, <1>14, <1>15 DEF Pending
<1>21. QED
  BY <1>1, <1>16, <1>19, <1>20 DEF Moves, Act

\* An end that takes a frame of the inbound chain.
LEMMA TookFields ==
  ASSUME Settled, NEW p \in Role, NEW t, Frames(p, t), NEW k, k = Took(end[p])
  PROVE  /\ k \in End /\ k.st \notin Over /\ Keeps(k, end[p], {"recvCtr"}) /\ k.inq = Tail(end[p].inq)
         /\ k.recvCtr = Head(end[p].inq).ctr /\ k.offering = FALSE /\ k.incoming = FALSE /\ k.hp = "none"
<1>1. PICK e \in End : /\ e = end[p] /\ e.inq # <<>> /\ e.hp = "none" /\ e.st \notin Over
                       /\ e.offering = FALSE /\ e.incoming = FALSE
  BY SettledFacts DEF Frames, Handles, Common
<1>2. /\ k \in End /\ k.inq = Tail(e.inq) /\ k.recvCtr = Head(e.inq).ctr
      /\ k.st = e.st /\ k.mode = e.mode /\ k.peerMode = e.peerMode
      /\ k.key = e.key /\ k.sendCtr = e.sendCtr /\ k.rekeyInFlight = e.rekeyInFlight
      /\ k.pendingPair = e.pendingPair /\ k.offering = e.offering /\ k.incoming = e.incoming
      /\ k.up = e.up /\ k.hp = e.hp
  BY <1>1, TookTyped
<1>3. Keeps(k, e, {"recvCtr"})
  BY <1>2 DEF Keeps, Fields
<1>4. QED
  BY <1>1, <1>2, <1>3

LEMMA TookStep ==
  ASSUME Settled, NEW p \in Role, NEW t, Frames(p, t), NEW k, k = Took(end[p]),
         NEW n, n.recvCtr = k.recvCtr, n.inq = k.inq, Step(p, n, <<>>)
  PROVE  /\ end'[p] = n /\ end[p].hp = "none" /\ Pending(Peer(p))' = Pending(Peer(p))
         /\ Takes(n, end[p], Pending(p), Pending(p)', t)
<1>1. k.inq = Tail(end[p].inq) /\ k.recvCtr = Head(end[p].inq).ctr
  BY TookFields
<1>2. end'[p] = n /\ Pending(p)' = n.inq \o net[p] /\ Pending(Peer(p))' = Pending(Peer(p))
  BY StepNone
<1>3. n.recvCtr = Head(end[p].inq).ctr
  BY <1>1
<1>4. end[p].hp = "none" /\ Takes(n, end[p], Pending(p), Tail(end[p].inq) \o net[p], t)
  BY <1>3, TookFirst
<1>5. Pending(p)' = Tail(end[p].inq) \o net[p]
  BY <1>1, <1>2
<1>6. QED
  BY <1>2, <1>4, <1>5

LEMMA HearsMoves ==
  ASSUME Settled, NEW p \in Role, HandleText(p) \/ HandleRekeyDone(p)
  PROVE  Moves(p)
<1>1. PICK t \in {"msg", "REKEY_DONE"} : Frames(p, t)
  BY DEF HandleText, HandleRekeyDone
<1>2. PICK k : k = Took(end[p])
  OBVIOUS
<1>3. Step(p, k, <<>>)
  BY <1>2 DEF HandleText, HandleRekeyDone
<1>4. Keeps(k, end[p], {"recvCtr"})
  BY <1>1, <1>2, TookFields
<1>5. /\ end'[p] = k /\ end[p].hp = "none" /\ Pending(Peer(p))' = Pending(Peer(p))
      /\ Takes(k, end[p], Pending(p), Pending(p)', t)
  BY <1>1, <1>2, <1>3, TookStep
<1>6. Hears(k, end[p], Pending(p), Pending(p)')
  BY <1>4, <1>5 DEF Hears
<1>7. QED
  BY <1>5, <1>6 DEF Moves, Act

LEMMA HandleModeUpgradedMoves ==
  ASSUME Settled, NEW p \in Role, HandleModeUpgraded(p)
  PROVE  Moves(p)
<1>1. Frames(p, "MODE_UPGRADED")
  BY DEF HandleModeUpgraded
<1>2. PICK k \in End : /\ k = Took(end[p]) /\ k.st \notin Over /\ Keeps(k, end[p], {"recvCtr"})
                       /\ k.offering = FALSE /\ k.incoming = FALSE /\ k.hp = "none"
  BY <1>1, TookFields
<1>3. PICK e : e = [k EXCEPT !.peerMode = "PRF"]
  OBVIOUS
<1>4. Turn(e, k) /\ e \in End /\ e.st \notin Over
  BY <1>2, <1>3, SmallTurns, TurnAlive
<1>5. Keeps(e, k, {"peerMode"}) /\ e.peerMode = "PRF"
  BY <1>2, <1>3, Touched
<1>6. e.offering = FALSE /\ e.incoming = FALSE /\ e.hp = "none" /\ e.recvCtr = k.recvCtr
  BY <1>2, <1>5 DEF Keeps, Fields
<1>7. PICK m : m = StartedRekey(p, e, "hp")
  OBVIOUS
<1>8. m \in End /\ Turn(m, e) /\ StartFrames(e) = <<>> /\ Begun(p, m, e, "hp")
  BY <1>4, <1>6, <1>7, StartedFields
<1>9. PICK n : n = IF e.mode = "PRF" THEN m ELSE e
  OBVIOUS
<1>10. /\ Turn(n, e) /\ Keeps(n, e, {"st", "rekeyInFlight", "hp"})
       /\ \/ n.st = e.st /\ n.rekeyInFlight = e.rekeyInFlight /\ n.hp = "none"
          \/ /\ e.mode = "PRF" /\ MayStartRekey(e) /\ n.st = "REKEYING" /\ n.rekeyInFlight = TRUE
             /\ n.hp = IF p = "initiator" THEN "keygen" ELSE "none"
  <2>1. Turn(e, e) /\ Keeps(e, e, {"st", "rekeyInFlight", "hp"})
    BY <1>4, SmallTurns DEF Keeps
  <2>2. CASE e.mode = "PRF" /\ MayStartRekey(e)
    BY <1>6, <1>8, <1>9, <2>2 DEF Begun
  <2>3. CASE ~(e.mode = "PRF" /\ MayStartRekey(e))
    BY <1>6, <1>8, <1>9, <2>1, <2>3 DEF Begun
  <2>4. QED
    BY <2>2, <2>3
<1>11. Step(p, n, <<>>)
  BY <1>2, <1>3, <1>7, <1>8, <1>9 DEF HandleModeUpgraded
<1>12. n.recvCtr = k.recvCtr /\ n.inq = k.inq /\ n.peerMode = "PRF"
  <2>1. n.inq = e.inq /\ e.inq = k.inq
    BY <1>4, <1>10 DEF Turn
  <2>2. n.recvCtr = e.recvCtr /\ n.peerMode = e.peerMode
    BY <1>10 DEF Keeps, Fields
  <2>3. QED
    BY <1>5, <1>6, <2>1, <2>2
<1>13. /\ end'[p] = n /\ end[p].hp = "none" /\ Pending(Peer(p))' = Pending(Peer(p))
       /\ Takes(n, end[p], Pending(p), Pending(p)', "MODE_UPGRADED")
  BY <1>1, <1>2, <1>11, <1>12, TookStep
<1>14. Keeps(n, end[p], {"recvCtr", "peerMode", "st", "rekeyInFlight", "hp"})
  BY <1>2, <1>5, <1>10 DEF Keeps
<1>15. e.st = end[p].st /\ e.rekeyInFlight = end[p].rekeyInFlight /\ e.mode = end[p].mode /\ end[p].rekeyInFlight \in BOOLEAN
  BY <1>2, <1>5, SettledFacts DEF Keeps, Fields, Typed
<1>16. \/ Stays(n, end[p]) /\ n.hp = "none"
       \/ end[p].mode = "PRF" /\ Enters(n, end[p], "hp", IF p = "initiator" THEN "keygen" ELSE "none")
  BY <1>10, <1>15 DEF Stays, Enters, MayStartRekey
<1>17. HearsUpgrade(n, end[p], Pending(p), Pending(p)', IF p = "initiator" THEN "keygen" ELSE "none")
  BY <1>12, <1>13, <1>14, <1>16 DEF HearsUpgrade
<1>18. QED
  BY <1>13, <1>17 DEF Moves, Act

LEMMA HandleRekeyInitMoves ==
  ASSUME Settled, NEW p \in Role, HandleRekeyInit(p)
  PROVE  Moves(p)
<1>1. Frames(p, "REKEY_INIT")
  BY DEF HandleRekeyInit
<1>2. p = "joiner"
  <2>1. "REKEY_INIT" \in IF p = "initiator" THEN Answers ELSE Orders
    BY <1>1, FirstAccepted DEF Frames
  <2>2. QED
    BY <2>1, Peers DEF Answers
<1>3. PICK k \in End : /\ k = Took(end[p]) /\ k.st \notin Over /\ Keeps(k, end[p], {"recvCtr"})
                       /\ k.offering = FALSE /\ k.incoming = FALSE
  BY <1>1, TookFields
<1>4. PICK a : a = EnterRekeying(k)
  OBVIOUS
<1>5. Turn(a, k) /\ a \in End
  BY <1>3, <1>4, RekeyingTurn, TurnAlive
<1>6. Keeps(a, k, {"st", "rekeyInFlight"}) /\ a.st = "REKEYING" /\ a.rekeyInFlight = TRUE
  <2>1. /\ a.st = "REKEYING" /\ a.rekeyInFlight = TRUE /\ a.offering = FALSE /\ a.incoming = FALSE
        /\ a.recvCtr = k.recvCtr /\ a.mode = k.mode /\ a.peerMode = k.peerMode
        /\ a.key = k.key /\ a.sendCtr = k.sendCtr /\ a.pendingPair = k.pendingPair /\ a.up = k.up /\ a.hp = k.hp
    BY <1>4, RekeyingTyped
  <2>2. k.offering = FALSE /\ k.incoming = FALSE
    BY <1>3
  <2>3. QED
    BY <2>1, <2>2 DEF Keeps, Fields
<1>7. PICK n : n = [a EXCEPT !.hp = "rekeyInit"]
  OBVIOUS
<1>8. Turn(n, a)
  BY <1>5, <1>7, SmallTurns, TurnAlive
<1>9. Keeps(n, a, {"hp"}) /\ n.hp = "rekeyInit"
  BY <1>5, <1>7, Touched
<1>10. CancelFrames(k) = <<>>
  BY <1>3 DEF CancelFrames
<1>11. Step(p, n, <<>>)
  BY <1>2, <1>3, <1>4, <1>7, <1>10 DEF HandleRekeyInit
<1>12. n.recvCtr = k.recvCtr /\ n.inq = k.inq /\ n.st = "REKEYING" /\ n.rekeyInFlight = TRUE
  BY <1>5, <1>6, <1>8, <1>9 DEF Keeps, Fields, Turn
<1>13. /\ end'[p] = n /\ end[p].hp = "none" /\ Pending(Peer(p))' = Pending(Peer(p))
       /\ Takes(n, end[p], Pending(p), Pending(p)', "REKEY_INIT")
  BY <1>1, <1>3, <1>11, <1>12, TookStep
<1>14. Keeps(n, end[p], {"recvCtr", "st", "rekeyInFlight", "hp"})
  BY <1>3, <1>6, <1>9 DEF Keeps
<1>15. HearsInit(n, end[p], Pending(p), Pending(p)')
  BY <1>9, <1>12, <1>13, <1>14 DEF HearsInit
<1>16. QED
  BY <1>2, <1>13, <1>15 DEF Moves, Act

LEMMA HandleRekeyAckMoves ==
  ASSUME Settled, NEW p \in Role, HandleRekeyAck(p)
  PROVE  Moves(p)
<1>1. Frames(p, "REKEY_ACK")
  BY DEF HandleRekeyAck
<1>2. p = "initiator"
  <2>1. "REKEY_ACK" \in IF p = "initiator" THEN Answers ELSE Orders
    BY <1>1, FirstAccepted DEF Frames
  <2>2. QED
    BY <2>1, Peers DEF Orders
<1>3. end[p].pendingPair = TRUE
  <2>1. PICK q \in Seq(Frame) : q = Pending("initiator")
    BY <1>2, SettledFacts
  <2>2. q # <<>> /\ Head(q).type = "REKEY_ACK"
    <3>1. end[p].inq # <<>> /\ Head(end[p].inq).type = "REKEY_ACK"
      BY <1>1 DEF Frames, Handles
    <3>2. QED
      BY <1>2, <2>1, <3>1, SettledFacts, Joined DEF Pending
  <2>3. Has(q, "REKEY_ACK")
    BY <2>2, Taking
  <2>4. PICK i, j : i = end["initiator"] /\ j = end["joiner"] /\ Pair(i, j, q, Pending("joiner"))
    BY <2>1, SettledPair
  <2>5. i.pendingPair = TRUE
    BY <2>3, <2>4 DEF Pair, Rekeys, ToInitiator, ToJoiner, Typed
  <2>6. QED
    BY <1>2, <2>4, <2>5
<1>4. PICK k \in End : k = Took(end[p]) /\ k.st \notin Over /\ Keeps(k, end[p], {"recvCtr"})
  BY <1>1, TookFields
<1>5. PICK n : n = [k EXCEPT !.hp = "rekeyAck"]
  OBVIOUS
<1>6. Turn(n, k)
  BY <1>4, <1>5, SmallTurns
<1>7. Keeps(n, k, {"hp"}) /\ n.hp = "rekeyAck"
  BY <1>4, <1>5, Touched
<1>8. Step(p, n, <<>>)
  BY <1>2, <1>3, <1>4, <1>5 DEF HandleRekeyAck
<1>9. n.recvCtr = k.recvCtr /\ n.inq = k.inq
  BY <1>6, <1>7 DEF Keeps, Fields, Turn
<1>10. /\ end'[p] = n /\ end[p].hp = "none" /\ Pending(Peer(p))' = Pending(Peer(p))
       /\ Takes(n, end[p], Pending(p), Pending(p)', "REKEY_ACK")
  BY <1>1, <1>4, <1>8, <1>9, TookStep
<1>11. Keeps(n, end[p], {"recvCtr", "hp"})
  BY <1>4, <1>7 DEF Keeps
<1>12. HearsAck(n, end[p], Pending(p), Pending(p)')
  BY <1>7, <1>10, <1>11 DEF HearsAck
<1>13. QED
  BY <1>2, <1>10, <1>12 DEF Moves, Act

\* The actions that a session without faults and offers takes, but for arrivals.
Course(p) ==
  \/ Say(p) \/ StartUpgrade(p) \/ UpgradeFails(p) \/ UpgradeSucceeds(p)
  \/ UpgradeNotifies(p) \/ SendRekeyInit(p, "up") \/ SendRekeyInit(p, "hp")
  \/ AnswerRekeyInit(p) \/ TakeRekeyAck(p) \/ FinishCommit(p)
  \/ HandleText(p) \/ HandleRekeyDone(p) \/ HandleModeUpgraded(p) \/ HandleRekeyInit(p) \/ HandleRekeyAck(p)

LEMMA CourseMoves ==
  ASSUME Settled, NEW p \in Role, Course(p)
  PROVE  Moves(p)
<1>1. CASE Say(p) \/ StartUpgrade(p) \/ UpgradeFails(p) \/ UpgradeSucceeds(p) \/ UpgradeNotifies(p)
  BY <1>1, SayMoves, UpgradeMoves, UpgradeNotifiesMoves
<1>2. CASE SendRekeyInit(p, "up") \/ SendRekeyInit(p, "hp")
  BY <1>2, SendRekeyInitMoves
<1>3. CASE AnswerRekeyInit(p) \/ TakeRekeyAck(p) \/ FinishCommit(p)
  BY <1>3, AnswerRekeyInitMoves, TakeRekeyAckMoves, FinishCommitMoves
<1>4. CASE HandleText(p) \/ HandleRekeyDone(p) \/ HandleModeUpgraded(p) \/ HandleRekeyInit(p) \/ HandleRekeyAck(p)
  BY <1>4, HearsMoves, HandleModeUpgradedMoves, HandleRekeyInitMoves, HandleRekeyAckMoves
<1>5. QED
  BY <1>1, <1>2, <1>3, <1>4 DEF Course

\* What is not of the session's course cannot happen.
LEMMA NoSuchFrame ==
  ASSUME Settled, NEW p \in Role
  PROVE  /\ ~RejectFrame(p) /\ ~HandleResume(p) /\ ~HandleResumeAck(p)
         /\ ~HandleFileOffer(p) /\ ~HandleFileEnd(p)
<1>1. ~RejectFrame(p)
  <2>1. SUFFICES ASSUME NEW type, Handles(p, type), ~Accepts(end[p], Head(end[p].inq))
                 PROVE  FALSE
    BY DEF RejectFrame
  <2>2. QED
    BY <2>1, FirstAccepted
<1>2. ASSUME NEW t \in {"resume", "resume_ack", "file_offer", "file_decline", "file_cancel"}, Frames(p, t)
      PROVE  FALSE
  <2>1. t \in IF p = "initiator" THEN Answers ELSE Orders
    BY <1>2, FirstAccepted DEF Frames
  <2>2. QED
    BY <2>1 DEF Answers, Orders
<1>3. QED
  BY <1>1, <1>2 DEF HandleResume, HandleResumeAck, HandleFileOffer, HandleFileEnd

LEMMA NoSuchStep ==
  ASSUME Settled, NEW p \in Role
  PROVE  /\ ~FinishResume(p) /\ ~DeclineFile(p) /\ ~Unlock(p) /\ ~VisibilityWake(p)
         /\ ~SocketCloses(p) /\ ~FinalizeTermination(p) /\ ~Reopen(p) /\ ~ReconnectExhausted(p)
         /\ ~ServerNotices(p) /\ ~GraceExpires(p)
<1>1. AtEase(end[p]) /\ end[p].incoming = FALSE
  BY SettledFacts DEF Common
<1>2. ~FinishResume(p) /\ ~DeclineFile(p) /\ ~Unlock(p) /\ ~VisibilityWake(p)
  BY <1>1 DEF AtEase, FinishResume, DeclineFile, Unlock, VisibilityWake
<1>3. ~SocketCloses(p) /\ ~FinalizeTermination(p) /\ ~Reopen(p) /\ ~ReconnectExhausted(p)
  BY <1>1 DEF AtEase, SocketCloses, FinalizeTermination, Reopen, ReconnectExhausted
<1>4. ~ServerNotices(p) /\ ~GraceExpires(p)
  BY CalmReaches, Peers DEF Settled, ServerNotices, GraceExpires
<1>5. QED
  BY <1>2, <1>3, <1>4

LEMMA NoSuchArrival ==
  ASSUME Settled, NEW p \in Role
  PROVE  ~ArriveAck(p) /\ ~ArrivePeerJoined(p) /\ ~ArrivePeerDisconnected(p) /\ ~ArrivePeerLeft(p)
<1>1. SUFFICES ASSUME NEW type \in Control, Arrives(p, type)
               PROVE  FALSE
  BY AckKind DEF ArriveAck, ArrivePeerJoined, ArrivePeerDisconnected, ArrivePeerLeft, Control
<1>2. net[p] \in Seq(Frame) /\ net[p] # <<>> /\ Head(net[p]).type = type
  BY <1>1, ArrivesFacts DEF Settled
<1>3. Head(net[p]).type \in PlainKind
  BY <1>2, PlainParts DEF Settled, Calm
<1>4. QED
  BY <1>1, <1>2, <1>3 DEF Control, PlainKind, ModeKind

LEMMA NoSuchFault ==
  ASSUME TypeInv, faults' = 0, NEW p
  PROVE  ~Drop(p) /\ ~Fill(p) /\ ~Leave(p) /\ ~WorkFails(p) /\ ~Reload(p)
BY FaultTyped DEF Drop, Fill, Leave, WorkFails, Reload

LEMMA NoSuchOffer ==
  ASSUME TypeInv, NoOffers', NEW p \in Role
  PROVE  ~OfferFile(p)
<1>1. SUFFICES ASSUME OfferFile(p)
               PROVE  FALSE
  OBVIOUS
<1>2. offers \in [Role -> 0..MaxOffers] /\ offers' = [offers EXCEPT ![p] = @ + 1]
  BY <1>1 DEF TypeInv, OfferFile
<1>3. offers[p] \in Nat /\ offers'[p] = offers[p] + 1
  BY <1>2, BoundAssumption
<1>4. offers'[p] = 0
  BY DEF NoOffers
<1>5. QED
  BY <1>3, <1>4

\* No offer has been made before, if none has been made yet.
LEMMA OffersKept ==
  ASSUME TypeInv, Next, NoOffers'
  PROVE  NoOffers
<1>1. PICK p \in Role :
        \/ User(p) \/ Machine(p) \/ Server(p) \/ Reopen(p) \/ ReconnectExhausted(p)
        \/ Drop(p) \/ Fill(p) \/ Drain(p) \/ Leave(p) \/ WorkFails(p) \/ Reload(p)
  BY DEF Next
<1>2. ~OfferFile(p)
  BY NoSuchOffer
<1>3. offers' = offers
  <2>1. CASE User(p)
    BY <1>2, <2>1 DEF User, Say, DeclineFile, Unlock, VisibilityWake, StartUpgrade,
       UpgradeFails, UpgradeSucceeds, counts
  <2>2. CASE Inbound(p)
    BY <2>2 DEF Inbound, RejectFrame, HandleText, HandleResume, HandleResumeAck,
       HandleModeUpgraded, HandleRekeyInit, HandleRekeyAck, HandleRekeyDone, HandleFileOffer,
       HandleFileEnd, counts
  <2>3. CASE Resumption(p)
    BY <2>3 DEF Resumption, UpgradeNotifies, SendRekeyInit, AnswerRekeyInit, TakeRekeyAck,
       FinishCommit, FinishResume, counts
  <2>4. CASE Arrive(p)
    BY <2>4 DEF Arrive, ArriveRelay, ArriveAck, ArrivePeerJoined, ArrivePeerDisconnected,
       ArrivePeerLeft, counts
  <2>5. CASE SocketCloses(p) \/ FinalizeTermination(p) \/ Server(p) \/ Reopen(p) \/ ReconnectExhausted(p)
    BY <2>5 DEF SocketCloses, FinalizeTermination, Server, ServerNotices, GraceExpires,
       Reopen, ReconnectExhausted, counts
  <2>6. CASE Drop(p) \/ Fill(p) \/ Drain(p) \/ Leave(p) \/ WorkFails(p) \/ Reload(p)
    BY <2>6 DEF Drop, Fill, Drain, Leave, WorkFails, Reload, counts
  <2>7. QED
    BY <1>1, <2>1, <2>2, <2>3, <2>4, <2>5, <2>6 DEF Machine
<1>4. QED
  BY <1>3 DEF NoOffers

LEMMA SettledNext ==
  ASSUME Settled, Next, faults' = 0, NoOffers'
  PROVE  \E p \in Role : Course(p) \/ ArriveRelay(p)
<1>1. PICK p \in Role :
        \/ User(p) \/ Machine(p) \/ Server(p) \/ Reopen(p) \/ ReconnectExhausted(p)
        \/ Drop(p) \/ Fill(p) \/ Drain(p) \/ Leave(p) \/ WorkFails(p) \/ Reload(p)
  BY DEF Next
<1>2. TypeInv
  BY DEF Settled
<1>3. CASE User(p)
  BY <1>2, <1>3, NoSuchOffer, NoSuchStep DEF User, Course
<1>4. CASE Inbound(p)
  BY <1>4, NoSuchFrame DEF Inbound, Course
<1>5. CASE Resumption(p)
  BY <1>5, NoSuchStep DEF Resumption, Course
<1>6. CASE Arrive(p)
  BY <1>6, NoSuchArrival DEF Arrive
<1>7. CASE SocketCloses(p) \/ FinalizeTermination(p) \/ Server(p) \/ Reopen(p) \/ ReconnectExhausted(p)
  BY <1>7, NoSuchStep DEF Server
<1>8. CASE Drop(p) \/ Fill(p) \/ Leave(p) \/ WorkFails(p) \/ Reload(p)
  BY <1>2, <1>8, NoSuchFault
<1>10. ~Drain(p)
  BY SettledFacts DEF AtEase, Drain
<1>9. QED
  BY <1>1, <1>3, <1>4, <1>5, <1>6, <1>7, <1>8, <1>10 DEF Machine

LEMMA CourseStep ==
  ASSUME TypeInv, NEW p \in Role, Course(p)
  PROVE  StepOf(p)
<1>1. CASE Say(p) \/ StartUpgrade(p) \/ UpgradeFails(p) \/ UpgradeSucceeds(p) \/ UpgradeNotifies(p)
  BY <1>1, SayShape, UpgradeShape, UpgradeNotifiesShape DEF StepOf
<1>2. CASE SendRekeyInit(p, "up") \/ SendRekeyInit(p, "hp")
  BY <1>2, SendRekeyInitShape DEF StepOf
<1>3. CASE AnswerRekeyInit(p) \/ TakeRekeyAck(p) \/ FinishCommit(p)
  BY <1>3, AnswerRekeyInitShape, TakeRekeyAckShape, FinishCommitShape DEF StepOf
<1>4. CASE HandleText(p) \/ HandleRekeyDone(p) \/ HandleModeUpgraded(p) \/ HandleRekeyInit(p) \/ HandleRekeyAck(p)
  BY <1>4, HandleTextShape, HandleModeUpgradedShape, HandleRekeyShape DEF StepOf
<1>5. QED
  BY <1>1, <1>2, <1>3, <1>4 DEF Course

LEMMA RekeysAlike ==
  ASSUME NEW i, NEW j, NEW a, NEW b, Rekeys(i, j, a, b), NEW n
  PROVE  /\ Keeps(n, i, {}) => Rekeys(n, j, a, b)
         /\ Keeps(n, j, {}) => Rekeys(i, n, a, b)
<1>1. ASSUME Keeps(n, i, {})
      PROVE  Rekeys(n, j, a, b)
  <2>1. /\ n.peerMode = i.peerMode /\ n.key = i.key /\ n.sendCtr = i.sendCtr /\ n.recvCtr = i.recvCtr
        /\ n.rekeyInFlight = i.rekeyInFlight /\ n.pendingPair = i.pendingPair /\ n.st = i.st /\ n.up = i.up
        /\ n.mode = i.mode /\ n.offering = i.offering /\ n.incoming = i.incoming /\ n.hp = i.hp
    BY <1>1 DEF Keeps, Fields
  <2>2. Common(n) /\ Leads(n)
    BY <2>1 DEF Rekeys, Common, Leads
  <2>3. Known(n, j, a) /\ Known(j, n, b)
    BY <2>1, KnownKept DEF Rekeys, Upgraded
  <2>4. ToJoiner(n, j, b) /\ ToInitiator(j, n, a)
    BY <2>1 DEF Rekeys, ToJoiner, ToInitiator
  <2>5. QED
    BY <2>2, <2>3, <2>4 DEF Rekeys
<1>2. ASSUME Keeps(n, j, {})
      PROVE  Rekeys(i, n, a, b)
  <2>1. /\ n.peerMode = j.peerMode /\ n.key = j.key /\ n.sendCtr = j.sendCtr /\ n.recvCtr = j.recvCtr
        /\ n.rekeyInFlight = j.rekeyInFlight /\ n.pendingPair = j.pendingPair /\ n.st = j.st /\ n.up = j.up
        /\ n.mode = j.mode /\ n.offering = j.offering /\ n.incoming = j.incoming /\ n.hp = j.hp
    BY <1>2 DEF Keeps, Fields
  <2>2. Common(n) /\ Follows(n)
    BY <2>1 DEF Rekeys, Common, Follows
  <2>3. Known(n, i, b) /\ Known(i, n, a)
    BY <2>1, KnownKept DEF Rekeys, Upgraded
  <2>4. ToJoiner(i, n, b) /\ ToInitiator(n, i, a)
    BY <2>1 DEF Rekeys, ToJoiner, ToInitiator
  <2>5. QED
    BY <2>2, <2>3, <2>4 DEF Rekeys
<1>3. QED
  BY <1>1, <1>2

\* A frame that arrives changes what is held where, and not what is to be handled.
LEMMA ArrivalKeeps ==
  ASSUME Settled, NEW p \in Role, ArriveRelay(p)
  PROVE  /\ Keeps(end'[p], end[p], {}) /\ end'[Peer(p)] = end[Peer(p)]
         /\ Pending(p)' = Pending(p) /\ Pending(Peer(p))' = Pending(Peer(p))
<1>1. PICK e \in End : e = end[p] /\ e.inq \in Seq(Frame)
  BY SettledFacts
<1>2. /\ end \in [Role -> End] /\ net \in [Role -> Seq(Frame)] /\ net[p] \in Seq(Frame)
      /\ Peer(p) \in Role /\ Peer(p) # p
  BY SettledFacts, Peers
<1>3. net[p] # <<>> /\ net' = [net EXCEPT ![p] = Tail(net[p])]
  BY <1>2 DEF ArriveRelay, Arrives, Consume
<1>4. PICK n : n = [e EXCEPT !.inq = Append(e.inq, Head(net[p]))]
  OBVIOUS
<1>5. n.inq = Append(e.inq, Head(net[p])) /\ Keeps(n, e, {})
  BY <1>4 DEF Keeps, Fields, End
<1>6. end' = [end EXCEPT ![p] = n]
  BY <1>1, <1>2, <1>4 DEF ArriveRelay
<1>7. end'[p] = n /\ end'[Peer(p)] = end[Peer(p)] /\ net'[p] = Tail(net[p]) /\ net'[Peer(p)] = net[Peer(p)]
  BY <1>2, <1>3, <1>6
<1>8. Append(e.inq, Head(net[p])) \o Tail(net[p]) = e.inq \o net[p]
  BY <1>1, <1>2, <1>3, Joined
<1>9. Pending(p)' = Pending(p)
  BY <1>1, <1>5, <1>7, <1>8 DEF Pending
<1>10. Pending(Peer(p))' = Pending(Peer(p))
  BY <1>7 DEF Pending
<1>11. QED
  BY <1>1, <1>5, <1>7, <1>9, <1>10

LEMMA SettledStep ==
  ASSUME Settled, Next, faults' = 0, NoOffers'
  PROVE  BothAlive' /\ Paired'
<1>1. PICK p \in Role : Course(p) \/ ArriveRelay(p)
  BY SettledNext
<1>2. PICK i, j, a, b, k, l, c, d :
        /\ i = end["initiator"] /\ j = end["joiner"] /\ a = Pending("initiator") /\ b = Pending("joiner")
        /\ k = end'["initiator"] /\ l = end'["joiner"] /\ c = Pending("initiator")' /\ d = Pending("joiner")'
  OBVIOUS
<1>3. Pair(i, j, a, b)
  BY <1>2, SettledPair
<1>4. i.st \notin Over /\ j.st \notin Over /\ Typed(i) /\ Typed(j)
  BY <1>2, SettledFacts, Peers
<1>5. Rekeys(k, l, c, d) /\ k.st \notin Over /\ l.st \notin Over
  <2>1. CASE Course(p)
    <3>1. Moves(p)
      BY <2>1, CourseMoves
    <3>2. StepOf(p) /\ TypeInv
      BY <2>1, CourseStep DEF Settled
    <3>3. end'[Peer(p)] = end[Peer(p)]
      BY <3>2, OthersKept, Peers
    <3>4. CASE p = "initiator"
      <4>1. Peer(p) = "joiner"
        BY <3>4 DEF Peer
      <4>2. l = j /\ Act("initiator", k, i, a, c, b, d)
        BY <1>2, <3>1, <3>3, <3>4, <4>1 DEF Moves
      <4>3. Rekeys(k, j, c, d)
        BY <1>3, <4>2, ActKeeps
      <4>4. k.st \notin Over
        BY <1>4, <4>2, ActAlive
      <4>5. QED
        BY <1>4, <4>2, <4>3, <4>4
    <3>5. CASE p = "joiner"
      <4>1. Peer(p) = "initiator"
        BY <3>5 DEF Peer
      <4>2. k = i /\ Act("joiner", l, j, b, d, a, c)
        BY <1>2, <3>1, <3>3, <3>5, <4>1 DEF Moves
      <4>3. Rekeys(i, l, c, d)
        BY <1>3, <4>2, ActKeeps
      <4>4. l.st \notin Over
        BY <1>4, <4>2, ActAlive
      <4>5. QED
        BY <1>4, <4>2, <4>3, <4>4
    <3>6. QED
      BY <3>4, <3>5, Peers
  <2>2. CASE ArriveRelay(p)
    <3>1. /\ Keeps(end'[p], end[p], {}) /\ end'[Peer(p)] = end[Peer(p)]
          /\ Pending(p)' = Pending(p) /\ Pending(Peer(p))' = Pending(Peer(p))
      BY <2>2, ArrivalKeeps
    <3>2. CASE p = "initiator"
      <4>1. Peer(p) = "joiner"
        BY <3>2 DEF Peer
      <4>2. Keeps(k, i, {}) /\ l = j /\ c = a /\ d = b
        BY <1>2, <3>1, <3>2, <4>1
      <4>3. Rekeys(i, j, a, b)
        BY <1>3 DEF Pair
      <4>4. Rekeys(k, j, a, b)
        BY <4>2, <4>3, RekeysAlike
      <4>5. QED
        BY <1>4, <4>2, <4>4, KeepsSt
    <3>3. CASE p = "joiner"
      <4>1. Peer(p) = "initiator"
        BY <3>3 DEF Peer
      <4>2. Keeps(l, j, {}) /\ k = i /\ c = a /\ d = b
        BY <1>2, <3>1, <3>3, <4>1
      <4>3. Rekeys(i, j, a, b)
        BY <1>3 DEF Pair
      <4>4. Rekeys(i, l, a, b)
        BY <4>2, <4>3, RekeysAlike
      <4>5. QED
        BY <1>4, <4>2, <4>4, KeepsSt
    <3>4. QED
      BY <3>2, <3>3, Peers
  <2>3. QED
    BY <1>1, <2>1, <2>2
<1>6. Paired'
  BY <1>2, <1>5 DEF Paired
<1>7. BothAlive'
  BY <1>2, <1>5, Peers DEF BothAlive, Alive, Over
<1>8. QED
  BY <1>6, <1>7

\* Without faults and offers both sessions live and the two ends agree.
RekeyInv == faults = 0 /\ NoOffers => BothAlive /\ Paired

LEMMA InitRekey == Init => RekeyInv
<1> SUFFICES ASSUME Init
             PROVE  BothAlive /\ Paired
  BY DEF RekeyInv
<1>1. PICK e : e = InitialEnd
  OBVIOUS
<1>2. /\ e.st = "ACTIVE" /\ e.mode = "RAM" /\ e.peerMode = "RAM" /\ e.key = 0 /\ e.sendCtr = 0 /\ e.recvCtr = 0
      /\ e.rekeyInFlight = FALSE /\ e.pendingPair = FALSE /\ e.offering = FALSE /\ e.incoming = FALSE
      /\ e.up = "none" /\ e.hp = "none" /\ e.inq = <<>>
  BY <1>1 DEF InitialEnd
<1>3. \A p \in Role : end[p] = e /\ net[p] = <<>>
  BY <1>1 DEF Init
<1>4. BothAlive
  BY <1>2, <1>3 DEF BothAlive, Alive
<1>5. <<>> \o <<>> = <<>>
  BY EmptyQueue, ConcatEmptySeq
<1>6. PICK q : q = <<>>
  OBVIOUS
<1>7. /\ ~Has(q, "MODE_UPGRADED") /\ Single(q, "MODE_UPGRADED") /\ ~Has(q, "REKEY_INIT") /\ ~Has(q, "REKEY_ACK")
      /\ AtEnd(q, "REKEY_INIT") /\ Only(q, Orders) /\ Only(q, Answers) /\ Chain(q, 0, 0, 0)
  BY <1>6, Nothing
<1>8. Common(e) /\ Leads(e) /\ Follows(e)
  BY <1>2 DEF Common, Leads, Follows
<1>9. Known(e, e, q)
  BY <1>2, <1>7 DEF Known, Upgraded
<1>10. ToJoiner(e, e, q) /\ ToInitiator(e, e, q)
  BY <1>2, <1>7 DEF ToJoiner, ToInitiator
<1>11. Rekeys(e, e, q, q)
  BY <1>8, <1>9, <1>10 DEF Rekeys
<1>12. Paired
  <2>1. end["initiator"] = e /\ end["joiner"] = e
    BY <1>3, Peers
  <2>2. \A p \in Role : end[p].inq = <<>> /\ net[p] = <<>>
    BY <1>2, <1>3
  <2>3. \A p \in Role : Pending(p) = <<>>
    BY <1>5, <2>2 DEF Pending
  <2>4. Pending("initiator") = q /\ Pending("joiner") = q
    BY <1>6, <2>3, Peers
  <2>5. QED
    BY <1>11, <2>1, <2>4 DEF Paired
<1>13. QED
  BY <1>4, <1>12

LEMMA SettledBefore ==
  ASSUME TypeInv, CalmInv, RekeyInv, faults = 0, NoOffers
  PROVE  Settled
BY DEF CalmInv, RekeyInv, Settled

LEMMA RekeyStep == TypeInv /\ CalmInv /\ RekeyInv /\ [Next]_vars => RekeyInv'
<1>1. ASSUME TypeInv, CalmInv, RekeyInv, Next, faults' = 0, NoOffers'
      PROVE  BothAlive' /\ Paired'
  <2>1. faults = 0
    BY <1>1, NextCases
  <2>2. NoOffers
    BY <1>1, OffersKept
  <2>3. Settled
    BY <1>1, <2>1, <2>2, SettledBefore
  <2>4. QED
    BY <1>1, <2>3, SettledStep
<1>2. ASSUME TypeInv, CalmInv, RekeyInv, Next
      PROVE  RekeyInv'
  BY <1>1, <1>2 DEF RekeyInv
<1>3. ASSUME RekeyInv, UNCHANGED vars
      PROVE  RekeyInv'
  BY <1>3 DEF RekeyInv, NoOffers, BothAlive, Alive, Paired, Pending, vars, counts
<1>4. QED
  BY <1>2, <1>3

\* As long as no fault has struck and no file was offered nobody's session ends,
\* however the upgrades, the rekey and the texts of the two ends cross, for any
\* number of texts.
THEOREM NobodyIsTerminated == Spec => [](faults = 0 => NobodyTerminates)
<1>1. Spec => [](TypeInv /\ CalmInv /\ RekeyInv)
  BY InitTyped, StepTyped, InitCalm, CalmStep, InitRekey, RekeyStep, PTL DEF Spec
<1>2. RekeyInv => (faults = 0 => NobodyTerminates)
  BY DEF RekeyInv, NoOffers, NobodyTerminates, BothAlive
<1>3. QED
  BY <1>1, <1>2, PTL

LEMMA SettledInSync == Settled => InSync
<1> SUFFICES ASSUME Settled, Quiet, BothActive
             PROVE  \A p \in Role : /\ end[p].kind = "active" /\ Reaches(p)
                                    /\ end[p].key = end[Peer(p)].key
                                    /\ end[p].recvCtr = end[Peer(p)].sendCtr
  BY DEF InSync
<1>1. \A p \in Role : end[p].kind = "active" /\ Reaches(p)
  BY SettledFacts DEF AtEase
<1>2. PICK i, j, a, b : /\ i = end["initiator"] /\ j = end["joiner"]
                        /\ a = Pending("initiator") /\ b = Pending("joiner")
  OBVIOUS
<1>3. Pair(i, j, a, b)
  BY <1>2, SettledPair
<1>4. a = <<>> /\ b = <<>> /\ i.st = "ACTIVE"
  <2>1. <<>> \o <<>> = <<>>
    BY EmptyQueue, ConcatEmptySeq
  <2>2. QED
    BY <1>2, <2>1, Peers DEF Quiet, BothActive, Pending
<1>5. i.key = j.key
  BY <1>3, <1>4 DEF Pair, Rekeys, ToJoiner, Leads, Typed
<1>6. PICK x, y, v, w : x = i.recvCtr /\ y = j.sendCtr /\ v = j.recvCtr /\ w = i.sendCtr /\ x \in Nat /\ v \in Nat
  BY <1>3 DEF Pair, Typed
<1>7. Chain(a, i.key, x, y) /\ Chain(b, i.key, v, w)
  BY <1>3, <1>5, <1>6 DEF Pair, Rekeys, ToJoiner, ToInitiator
<1>8. x = y /\ v = w
  BY <1>4, <1>6, <1>7, Nothing
<1>9. QED
  BY ZenonT(60), <1>1, <1>2, <1>5, <1>6, <1>8, Peers

\* Under the same conditions two ends that show ACTIVE with nothing under way
\* hold one key, and each counter is the one that the other expects.
THEOREM RekeyKeepsInSync == Spec => [](faults = 0 /\ (\A p \in Role : offers[p] = 0) => InSync)
<1>1. Spec => [](TypeInv /\ CalmInv /\ RekeyInv)
  BY InitTyped, StepTyped, InitCalm, CalmStep, InitRekey, RekeyStep, PTL DEF Spec
<1>2. TypeInv /\ CalmInv /\ RekeyInv => (faults = 0 /\ (\A p \in Role : offers[p] = 0) => InSync)
  BY SettledBefore, SettledInSync DEF NoOffers
<1>3. QED
  BY <1>1, <1>2, PTL
=============================================================================
