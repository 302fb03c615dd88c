----------------------------- MODULE LimitsProofs -----------------------------
(***************************************************************************)
(* Both rate limiters implement Allowance: for all addresses and sockets,  *)
(* all rates, and tables of any size.                                      *)
(***************************************************************************)
EXTENDS Limits, FiniteSetTheorems, SequenceTheorems, TLAPS

USE LimitAssumption

-----------------------------------------------------------------------------
(* Credit                                                                  *)

\* One tick more brings one refill more.
LEMMA OneMoreTick ==
  ASSUME NEW a \in Nat, NEW b \in Nat
  PROVE  (a + 1) * b = a * b + b /\ a * b \in Nat
  OBVIOUS

\* The longer a bucket waits, the more it has earned.
LEMMA LongerIsMore ==
  ASSUME NEW a \in Nat, NEW b \in Nat, NEW r \in Nat, b <= a
  PROVE  b * r <= a * r
<1>1. PICK d \in Nat : a = b + d
  <2>1. a - b \in Nat /\ a = b + (a - b)
    OBVIOUS
  <2>2. QED
    BY <2>1
<1>2. a * r = b * r + d * r /\ d * r \in Nat /\ b * r \in Nat
  BY <1>1
<1>3. QED
  BY <1>2

\* Refilled: between what the bucket has and the limit, and what it has when no
\* time has passed.
LEMMA RefilledFacts ==
  ASSUME now \in Nat, NEW limit \in Nat, NEW rate \in Nat,
         NEW bucket, bucket.tokens \in 0..limit, bucket.last \in 0..now
  PROVE  /\ Refilled(bucket, limit, rate) \in 0..limit
         /\ bucket.last = now => Refilled(bucket, limit, rate) = bucket.tokens
<1> DEFINE earned == (now - bucket.last) * rate
<1>1. now - bucket.last \in Nat
  OBVIOUS
<1>2. earned \in Nat
  BY <1>1, OneMoreTick
<1>3. bucket.last = now => earned = 0
  OBVIOUS
<1>4. Refilled(bucket, limit, rate)
        = IF bucket.tokens + earned > limit THEN limit ELSE bucket.tokens + earned
  BY DEF Refilled
<1> HIDE DEF earned
<1>5. QED
  BY <1>2, <1>3, <1>4

\* A tick of the clock adds a refill to the credit, up to the limit.
LEMMA RefilledTick ==
  ASSUME now \in Nat, now' = now + 1, NEW limit \in Nat, NEW rate \in Nat,
         NEW bucket, bucket.tokens \in 0..limit, bucket.last \in 0..now
  PROVE  Refilled(bucket, limit, rate)'
           = LET amount == Refilled(bucket, limit, rate)
             IN IF amount + rate > limit THEN limit ELSE amount + rate
<1> DEFINE earned == (now - bucket.last) * rate
<1>1. now - bucket.last \in Nat /\ now' - bucket.last = (now - bucket.last) + 1
  OBVIOUS
<1>2. earned \in Nat /\ (now' - bucket.last) * rate = earned + rate
  BY <1>1, OneMoreTick
<1>3. Refilled(bucket, limit, rate)
        = IF bucket.tokens + earned > limit THEN limit ELSE bucket.tokens + earned
  BY DEF Refilled
<1>4. Refilled(bucket, limit, rate)'
        = IF bucket.tokens + (earned + rate) > limit THEN limit ELSE bucket.tokens + (earned + rate)
  BY <1>2 DEF Refilled
<1> HIDE DEF earned
<1>5. QED
  BY <1>2, <1>3, <1>4

\* Charged: a request that is covered is paid for.
LEMMA ChargedFacts ==
  ASSUME NEW limit \in Nat, NEW tokens \in 0..limit
  PROVE  /\ Charged(tokens) \in 0..limit
         /\ tokens >= Cost => Charged(tokens) = tokens - Cost
         /\ ~(tokens >= Cost) => Charged(tokens) = tokens
  BY DEF Charged

-----------------------------------------------------------------------------
(* The bucket of a socket                                                  *)

RelayInv ==
  /\ now \in 0..MaxTime
  /\ \A s \in Socket : /\ relay[s].tokens \in 0..RelayLimit /\ relay[s].last \in 0..now
  /\ DOMAIN relay = Socket

LEMMA RelayInit == Init => RelayInv
  BY DEF Init, RelayInv

LEMMA RelayStep == RelayInv /\ [Next]_vars => RelayInv'
<1> SUFFICES ASSUME RelayInv, [Next]_vars
             PROVE  RelayInv'
  OBVIOUS
<1>1. CASE now' = now /\ relay' = relay
  BY <1>1 DEF RelayInv
<1>2. CASE TimePasses
  BY <1>2 DEF RelayInv, TimePasses
<1>3. ASSUME NEW s \in Socket, Consume(s)
      PROVE  RelayInv'
  <2>1. now' = now /\ relay' = [relay EXCEPT ![s] = Consumed(relay[s])]
    BY <1>3 DEF Consume
  <2>2. Refilled(relay[s], RelayLimit, RelayRefill) \in 0..RelayLimit
    BY RefilledFacts DEF RelayInv
  <2>3. Consumed(relay[s]).tokens \in 0..RelayLimit /\ Consumed(relay[s]).last = now
    BY <2>2, ChargedFacts DEF Consumed
  <2> HIDE DEF Consumed
  <2>4. QED
    BY <2>1, <2>3 DEF RelayInv
<1>4. ASSUME NEW s \in Socket, Renew(s)
      PROVE  RelayInv'
  BY <1>4 DEF RelayInv, Renew, createRelayBucket
<1>5. QED
  BY <1>1, <1>2, <1>3, <1>4 DEF Next, Gc, CheckIp, vars, relayVars

\* createRelayBucket and consumeRelayToken: the bucket of a socket, which is
\* refilled only when a frame comes, keeps the allowance that Allowance states.
THEOREM RelayBucketIsAllowance == Spec => RelayImplementsAllowance
<1>1. Init => BySocket!Init
  <2> SUFFICES ASSUME Init
               PROVE  BySocket!Init
    OBVIOUS
  <2>1. \A s \in Socket : Refilled(relay[s], RelayLimit, RelayRefill) = RelayLimit
    <3> TAKE s \in Socket
    <3>1. relay[s].tokens = RelayLimit /\ relay[s].last = now /\ now = 0
      BY DEF Init
    <3>2. QED
      BY <3>1, RefilledFacts
  <2>2. QED
    BY <2>1 DEF BySocket!Init, Init
<1>2. RelayInv /\ RelayInv' /\ [Next]_vars => [BySocket!Next]_(BySocket!vars)
  <2> SUFFICES ASSUME RelayInv, RelayInv', [Next]_vars
               PROVE  [BySocket!Next]_(BySocket!vars)
    OBVIOUS
  <2> DEFINE C(s) == Refilled(relay[s], RelayLimit, RelayRefill)
             credit == [s \in Socket |-> C(s)]
  <2>0. /\ now \in Nat
        /\ \A s \in Socket : /\ relay[s].tokens \in 0..RelayLimit /\ relay[s].last \in 0..now
                             /\ C(s) \in 0..RelayLimit
    BY RefilledFacts DEF RelayInv
  <2>1. CASE now' = now /\ relay' = relay /\ answer' = answer
    <3>1. credit' = credit
      BY <2>1 DEF Refilled
    <3>2. QED
      BY <2>1, <3>1 DEF BySocket!vars
  <2>2. CASE TimePasses
    <3>1. now' = now + 1 /\ relay' = relay /\ answer' = <<>>
      BY <2>2 DEF TimePasses
    <3>2. \A s \in Socket : Refilled(relay[s], RelayLimit, RelayRefill)'
                              = BySocket!Earned(C(s))
      BY <2>0, <3>1, RefilledTick DEF BySocket!Earned
    <3>3. BySocket!Tick
      BY <3>1, <3>2 DEF BySocket!Tick
    <3>4. QED
      BY <3>3 DEF BySocket!Next
  <2>3. ASSUME NEW s \in Socket, Consume(s)
        PROVE  BySocket!Next
    <3>1. /\ now' = now /\ relay' = [relay EXCEPT ![s] = Consumed(relay[s])]
          /\ answer' = <<s, C(s) >= Cost>>
      BY <2>3 DEF Consume
    <3>2. relay'[s].tokens = Charged(C(s)) /\ relay'[s].last = now
      BY <3>1 DEF Consumed, RelayInv
    <3>3. \A t \in Socket \ {s} : relay'[t] = relay[t]
      BY <3>1 DEF RelayInv
    <3>4. Charged(C(s)) \in 0..RelayLimit
      BY <2>0, ChargedFacts
    <3>5. Refilled(relay[s], RelayLimit, RelayRefill)' = Charged(C(s))
      <4> DEFINE b == relay'[s]
      <4>1. b.tokens \in 0..RelayLimit /\ b.last \in 0..now /\ b.last = now
        BY <2>0, <3>2, <3>4
      <4> HIDE DEF b
      <4>2. Refilled(b, RelayLimit, RelayRefill) = b.tokens
        BY <2>0, <4>1, RefilledFacts
      <4>3. QED
        BY <3>1, <3>2, <4>2 DEF Refilled, b
    <3>6. \A t \in Socket \ {s} : Refilled(relay[t], RelayLimit, RelayRefill)' = C(t)
      BY <3>1, <3>3 DEF Refilled
    <3>7. \A t \in Socket :
            C(t)' = IF t \in {} THEN RelayLimit
                    ELSE IF t = s /\ C(s) >= Cost THEN C(s) - Cost ELSE C(t)
      BY <2>0, <3>5, <3>6, ChargedFacts
    <3> HIDE DEF C
    <3>8. BySocket!Ask(s, {})
      BY <3>1, <3>7 DEF BySocket!Ask, C
    <3>9. QED
      BY <3>8 DEF BySocket!Next
  <2>4. ASSUME NEW s \in Socket, Renew(s)
        PROVE  BySocket!Next
    <3>1. /\ now' = now /\ answer' = <<>>
          /\ relay' = [relay EXCEPT ![s] = [tokens |-> RelayLimit, last |-> now]]
      BY <2>4 DEF Renew, createRelayBucket
    <3>2. relay'[s].tokens = RelayLimit /\ relay'[s].last = now
      BY <3>1 DEF RelayInv
    <3>3. Refilled(relay[s], RelayLimit, RelayRefill)' = RelayLimit
      <4> DEFINE b == relay'[s]
      <4>1. b.tokens \in 0..RelayLimit /\ b.last \in 0..now /\ b.last = now
        BY <2>0, <3>2
      <4> HIDE DEF b
      <4>2. Refilled(b, RelayLimit, RelayRefill) = b.tokens
        BY <2>0, <4>1, RefilledFacts
      <4>3. QED
        BY <3>1, <3>2, <4>2 DEF Refilled, b
    <3>4. \A t \in Socket \ {s} : C(t)' = C(t)
      BY <3>1 DEF Refilled, RelayInv
    <3>5. BySocket!Forgive(s)
      BY <3>1, <3>3, <3>4 DEF BySocket!Forgive
    <3>6. QED
      BY <3>5 DEF BySocket!Next
  <2>5. QED
    BY <2>1, <2>2, <2>3, <2>4 DEF Next, Gc, CheckIp, vars, relayVars
<1>3. QED
  BY <1>1, <1>2, RelayInit, RelayStep, PTL DEF Spec, BySocket!Spec, RelayImplementsAllowance

-----------------------------------------------------------------------------
(* Addresses: however it is written, an address leads to one key           *)

Groups == [value : Nat, padded : BOOLEAN, dotted : BOOLEAN]

\* w is the address written with n groups: eight, or seven of which the last is dotted.
Written(groups, w, n) ==
  /\ w \in Seq(Groups) /\ Len(w) = n /\ DOMAIN w = 1..n
  /\ \A k \in 1..4 : w[k].value = groups[k] /\ Stripped(w[k]) = Group(groups[k], FALSE, FALSE)
  /\ \A k \in 1..n : w[k].dotted <=> (n = 7 /\ k = 7)

\* Groups i to j may be left out.
Zeros(w, i, j) == \A k \in i..j : w[k].value = 0 /\ ~w[k].dotted

LEMMA GroupExcept ==
  ASSUME NEW value, NEW padded, NEW bare, NEW dotted, NEW g, NEW h,
         g = Group(value, padded, dotted), h = Group(value, bare, dotted)
  PROVE  [g EXCEPT !.padded = bare] = h
  BY DEF Group

LEMMA StrippedGroup ==
  ASSUME NEW value, NEW padded, NEW dotted
  PROVE  Stripped(Group(value, padded, dotted)) = Group(value, FALSE, dotted)
<1> DEFINE g == Group(value, padded, dotted)
           h == Group(value, FALSE, dotted)
<1>1. [g EXCEPT !.padded = FALSE] = h
  BY GroupExcept
<1>2. QED
  BY <1>1 DEF Stripped

\* InFull: eight groups, or seven with a dotted end.
LEMMA InFullFacts ==
  ASSUME NEW groups \in [1..8 -> Nat], NEW padded \in BOOLEAN, NEW dotted \in BOOLEAN
  PROVE  Written(groups, InFull(groups, padded, dotted), IF dotted THEN 7 ELSE 8)
<1> DEFINE w == InFull(groups, padded, dotted)
           n == IF dotted THEN 7 ELSE 8
<1>1. w = [i \in 1..n |-> IF dotted THEN Group(IF i = 7 THEN 0 ELSE groups[i], padded /\ i < 7, i = 7)
                          ELSE Group(groups[i], padded, FALSE)]
  BY DEF InFull
<1>2. \A i \in 1..n : w[i] \in Groups
  <2> TAKE i \in 1..n
  <2>1. (i < 7) \in BOOLEAN /\ (i = 7) \in BOOLEAN /\ (padded /\ i < 7) \in BOOLEAN
    OBVIOUS
  <2>2. groups[i] \in Nat /\ (IF i = 7 THEN 0 ELSE groups[i]) \in Nat
    OBVIOUS
  <2>3. CASE dotted
    BY <1>1, <2>1, <2>2, <2>3 DEF Group, Groups
  <2>4. CASE ~dotted
    BY <1>1, <2>2, <2>4 DEF Group, Groups
  <2>5. QED
    BY <2>3, <2>4
<1>3. w \in Seq(Groups) /\ Len(w) = n /\ DOMAIN w = 1..n
  <2>1. w \in [1..n -> Groups] /\ n \in Nat
    BY <1>1, <1>2
  <2> HIDE DEF w, n
  <2>2. w \in Seq(Groups)
    BY <2>1, SeqDef
  <2>3. DOMAIN w = 1..n /\ DOMAIN w = 1..Len(w) /\ Len(w) \in Nat
    BY <2>1, <2>2, LenProperties
  <2>4. Len(w) = n
    BY <2>1, <2>3
  <2>5. QED
    BY <2>2, <2>3, <2>4
<1>4. \A i \in 1..4 : w[i].value = groups[i] /\ Stripped(w[i]) = Group(groups[i], FALSE, FALSE)
  <2> TAKE i \in 1..4
  <2>1. i \in 1..n /\ i # 7 /\ i < 7
    OBVIOUS
  <2>2. \E p \in BOOLEAN : w[i] = Group(groups[i], p, FALSE)
    <3>1. CASE dotted
      <4>1. w[i] = Group(IF i = 7 THEN 0 ELSE groups[i], padded /\ i < 7, i = 7)
        BY <1>1, <2>1, <3>1
      <4>2. (i = 7) = FALSE /\ (IF i = 7 THEN 0 ELSE groups[i]) = groups[i]
        BY <2>1
      <4>3. w[i] = Group(groups[i], padded /\ i < 7, FALSE)
        BY <4>1, <4>2
      <4>4. QED
        BY <4>3
    <3>2. CASE ~dotted
      BY <1>1, <2>1, <3>2
    <3>3. QED
      BY <3>1, <3>2
  <2> HIDE DEF w
  <2>3. PICK p \in BOOLEAN : w[i] = Group(groups[i], p, FALSE)
    BY <2>2
  <2>4. w[i].value = groups[i]
    BY <2>3 DEF Group
  <2>5. Stripped(Group(groups[i], p, FALSE)) = Group(groups[i], FALSE, FALSE)
    BY StrippedGroup, Zenon
  <2>6. QED
    BY <2>3, <2>4, <2>5
<1>5. \A i \in 1..n : w[i].dotted <=> (dotted /\ i = 7)
  <2> TAKE i \in 1..n
  <2>1. CASE dotted
    <3>1. w[i] = Group(IF i = 7 THEN 0 ELSE groups[i], padded /\ i < 7, i = 7)
      BY <1>1, <2>1
    <3> HIDE DEF w, n
    <3>2. w[i].dotted = (i = 7)
      BY <3>1 DEF Group
    <3>3. QED
      BY <2>1, <3>2
  <2>2. CASE ~dotted
    <3>1. w[i] = Group(groups[i], padded, FALSE)
      BY <1>1, <2>2
    <3> HIDE DEF w, n
    <3>2. w[i].dotted = FALSE
      BY <3>1 DEF Group
    <3>3. QED
      BY <2>2, <3>2
  <2>3. QED
    BY <2>1, <2>2
<1>6. \A i \in 1..n : w[i].dotted <=> (n = 7 /\ i = 7)
  BY <1>5
<1> HIDE DEF w, n
<1>7. QED
  BY <1>3, <1>4, <1>6 DEF w, n, Written

\* groupSpan of a sequence without a dotted end, and of one with it.
LEMMA SpanFacts ==
  ASSUME NEW g, NEW n \in Nat, Len(g) = n, DOMAIN g = 1..n
  PROVE  /\ (\A i \in 1..n : ~g[i].dotted) => groupSpan(g) = n
         /\ (n > 0 /\ \A i \in 1..n : g[i].dotted <=> i = n) => groupSpan(g) = n + 1
<1>1. ASSUME \A i \in 1..n : ~g[i].dotted
      PROVE  groupSpan(g) = n
  <2>1. {i \in DOMAIN g : g[i].dotted} = {}
    BY <1>1
  <2>2. QED
    BY <2>1, FS_EmptySet DEF groupSpan
<1>2. ASSUME n > 0, \A i \in 1..n : g[i].dotted <=> i = n
      PROVE  groupSpan(g) = n + 1
  <2>1. {i \in DOMAIN g : g[i].dotted} = {n}
    BY <1>2
  <2>2. Cardinality({n}) = 1
    BY FS_Singleton
  <2>3. QED
    BY <2>1, <2>2 DEF groupSpan
<1>3. QED
  BY <1>1, <1>2

Zero == Group(0, FALSE, FALSE)

\* The address of n groups w with zeros again for the groups i to j.
PutBack(w, i, j, n) ==
  LET head == SubSeq(w, 1, i - 1)
      tail == SubSeq(w, j + 1, n)
      fill == [k \in 1..(8 - groupSpan(head) - groupSpan(tail)) |-> Zero]
  IN (head \o fill) \o tail

\* What ipv6Prefix64 makes of a text in which the groups i to j, all zero, are left out.
LEMMA Expanded ==
  ASSUME NEW groups, NEW w, NEW n \in {7, 8}, Written(groups, w, n),
         NEW i \in 1..n, NEW j \in 1..n, i <= j, Zeros(w, i, j)
  PROVE  \A k \in 1..4 : Stripped(PutBack(w, i, j, n)[k]) = Group(groups[k], FALSE, FALSE)
<1> DEFINE head == SubSeq(w, 1, i - 1)
           tail == SubSeq(w, j + 1, n)
           fill == [k \in 1..(8 - groupSpan(head) - groupSpan(tail)) |-> Zero]
<1>1. i \in Nat /\ j \in Nat /\ n \in Nat /\ 1 <= i /\ i <= j /\ j <= n /\ n \in {7, 8}
  OBVIOUS
<1>2. w \in Seq(Groups) /\ Len(w) = n /\ DOMAIN w = 1..n
  BY DEF Written
<1>3. \A k \in 1..n : w[k].dotted <=> (n = 7 /\ k = 7)
  BY DEF Written
<1>4. n = 7 => j <= 6
  <2>1. ASSUME n = 7, j = 7
        PROVE  FALSE
    <3>1. j \in 1..n /\ j \in i..j
      BY <1>1
    <3>2. w[j].dotted
      BY <1>3, <2>1, <3>1
    <3>3. ~w[j].dotted
      BY <3>1 DEF Zeros
    <3>4. QED
      BY <3>2, <3>3
  <2>2. QED
    BY <1>1, <2>1
<1>5. /\ head \in Seq(Groups) /\ Len(head) = i - 1 /\ DOMAIN head = 1..(i - 1)
      /\ \A k \in 1..(i - 1) : head[k] = w[k]
  <2>1. \A k \in 1..(i - 1) : k \in 1..Len(w)
    BY <1>1, <1>2
  <2>2. \A k \in 1..(i - 1) : w[k] \in Groups
    BY <1>2, <2>1, ElementOfSeq
  <2>3. /\ head \in Seq(Groups) /\ Len(head) = IF 1 <= i - 1 THEN (i - 1) - 1 + 1 ELSE 0
        /\ \A k \in 1..((i - 1) - 1 + 1) : head[k] = w[1 + k - 1]
    BY <1>1, <1>2, <2>2, SubSeqProperties
  <2> HIDE DEF head
  <2>4. Len(head) = i - 1
    BY <1>1, <2>3
  <2>5. \A k \in 1..(i - 1) : head[k] = w[k]
    <3> TAKE k \in 1..(i - 1)
    <3>1. k \in 1..((i - 1) - 1 + 1) /\ 1 + k - 1 = k
      BY <1>1
    <3>2. QED
      BY <2>3, <3>1
  <2>6. QED
    BY <2>3, <2>4, <2>5, LenProperties
<1>6. /\ tail \in Seq(Groups) /\ Len(tail) = n - j /\ DOMAIN tail = 1..(n - j)
      /\ \A k \in 1..(n - j) : tail[k] = w[j + k]
  <2>1. \A k \in (j + 1)..n : k \in 1..Len(w)
    BY <1>1, <1>2
  <2>2. \A k \in (j + 1)..n : w[k] \in Groups
    BY <1>2, <2>1, ElementOfSeq
  <2>3. /\ tail \in Seq(Groups) /\ Len(tail) = IF j + 1 <= n THEN n - (j + 1) + 1 ELSE 0
        /\ \A k \in 1..(n - (j + 1) + 1) : tail[k] = w[(j + 1) + k - 1]
    BY <1>1, <1>2, <2>2, SubSeqProperties
  <2> HIDE DEF tail
  <2>4. Len(tail) = n - j
    BY <1>1, <2>3
  <2>5. \A k \in 1..(n - j) : tail[k] = w[j + k]
    <3> TAKE k \in 1..(n - j)
    <3>1. k \in 1..(n - (j + 1) + 1) /\ (j + 1) + k - 1 = j + k
      BY <1>1
    <3>2. QED
      BY <2>3, <3>1
  <2>6. QED
    BY <2>3, <2>4, <2>5, LenProperties
<1> HIDE DEF head, tail
<1>7. groupSpan(head) = i - 1
  <2>1. ASSUME NEW k \in 1..(i - 1)
        PROVE  ~head[k].dotted
    <3>1. k \in 1..n /\ ~(n = 7 /\ k = 7)
      BY <1>1, <1>4
    <3>2. ~w[k].dotted
      BY <1>3, <3>1
    <3>3. QED
      BY <1>5, <3>2
  <2>2. i - 1 \in Nat
    BY <1>1
  <2>3. QED
    BY <1>5, <2>1, <2>2, SpanFacts
<1>8. groupSpan(tail) = 8 - j
  <2>1. ASSUME NEW k \in 1..(n - j)
        PROVE  tail[k].dotted <=> (n = 7 /\ k = n - j)
    <3>1. j + k \in 1..n /\ (n = 7 /\ j + k = 7 <=> n = 7 /\ k = n - j)
      BY <1>1
    <3>2. w[j + k].dotted <=> (n = 7 /\ j + k = 7)
      BY <1>3, <3>1
    <3>3. tail[k] = w[j + k]
      BY <1>6
    <3>4. QED
      BY <3>1, <3>2, <3>3
  <2>2. n - j \in Nat
    BY <1>1
  <2>3. CASE n = 7
    <3>1. n - j > 0
      BY <1>1, <1>4, <2>3
    <3>2. \A k \in 1..(n - j) : tail[k].dotted <=> k = n - j
      BY <2>1, <2>3
    <3>3. groupSpan(tail) = (n - j) + 1
      BY <1>6, <2>2, <3>1, <3>2, SpanFacts
    <3>4. QED
      BY <1>1, <2>3, <3>3
  <2>4. CASE n = 8
    <3>1. \A k \in 1..(n - j) : ~tail[k].dotted
      BY <2>1, <2>4
    <3>2. groupSpan(tail) = n - j
      BY <1>6, <2>2, <3>1, SpanFacts
    <3>3. QED
      BY <2>4, <3>2
  <2>5. QED
    BY <1>1, <2>3, <2>4
<1>9. 8 - groupSpan(head) - groupSpan(tail) = j - i + 1 /\ j - i + 1 \in Nat
  BY <1>1, <1>7, <1>8
<1>10. /\ fill \in Seq(Groups) /\ Len(fill) = j - i + 1
       /\ \A k \in 1..(j - i + 1) : fill[k] = Zero
  <2>1. Zero \in Groups
    BY DEF Group, Groups, Zero
  <2>2. fill = [k \in 1..(j - i + 1) |-> Zero]
    BY <1>9
  <2>3. fill \in [1..(j - i + 1) -> Groups]
    BY <2>1, <2>2
  <2>4. \A k \in 1..(j - i + 1) : fill[k] = Zero
    BY <2>2
  <2> HIDE DEF fill
  <2>5. PICK m \in Nat : m = j - i + 1
    BY <1>9
  <2>6. fill \in [1..m -> Groups]
    BY <2>3, <2>5
  <2>7. fill \in Seq(Groups) /\ DOMAIN fill = 1..m
    BY <2>6, SeqDef
  <2>8. Len(fill) = m
    BY <2>7, LenProperties
  <2>9. QED
    BY <2>4, <2>5, <2>7, <2>8
<1> HIDE DEF fill
<1> DEFINE front == head \o fill
           all == front \o tail
<1>12. /\ front \in Seq(Groups) /\ Len(front) = Len(head) + Len(fill)
       /\ \A k \in 1..(Len(head) + Len(fill)) :
            front[k] = IF k <= Len(head) THEN head[k] ELSE fill[k - Len(head)]
  BY <1>5, <1>10, ConcatProperties
<1> HIDE DEF front
<1>13. Len(front) = j
  BY <1>1, <1>5, <1>10, <1>12
<1>14. \A k \in 1..n : all[k] = IF k <= j THEN front[k] ELSE tail[k - j]
  <2>1. \A k \in 1..(Len(front) + Len(tail)) :
          all[k] = IF k <= Len(front) THEN front[k] ELSE tail[k - Len(front)]
    <3>1. front \in Seq(Groups) /\ tail \in Seq(Groups)
      BY <1>6, <1>12
    <3>2. QED
      BY <3>1, ConcatProperties
  <2>2. Len(front) + Len(tail) = n
    BY <1>1, <1>6, <1>13
  <2> HIDE DEF all
  <2>3. QED
    BY <1>13, <2>1, <2>2
<1>15. \A k \in 1..j : front[k] = IF k <= i - 1 THEN w[k] ELSE Zero
  <2> TAKE k \in 1..j
  <2>1. front[k] = IF k <= Len(head) THEN head[k] ELSE fill[k - Len(head)]
    BY <1>12, <1>13
  <2>2. CASE k <= i - 1
    <3>1. k \in 1..(i - 1)
      BY <1>1, <2>2
    <3>2. QED
      BY <1>5, <2>1, <2>2, <3>1
  <2>3. CASE ~(k <= i - 1)
    <3>1. k - (i - 1) \in 1..(j - i + 1)
      BY <1>1, <2>3
    <3>2. front[k] = fill[k - (i - 1)]
      BY <1>5, <2>1, <2>3
    <3>3. QED
      BY <1>10, <2>3, <3>1, <3>2
  <2>4. QED
    BY <2>2, <2>3
<1> HIDE DEF all
<1>16. ASSUME NEW k \in 1..4
       PROVE  Stripped(all[k]) = Group(groups[k], FALSE, FALSE)
  <2>1. k \in 1..n /\ all[k] = IF k <= j THEN front[k] ELSE tail[k - j]
    BY <1>1, <1>14
  <2>2. Stripped(w[k]) = Group(groups[k], FALSE, FALSE) /\ w[k].value = groups[k]
    BY DEF Written
  <2>3. CASE k <= i - 1
    <3>1. k \in 1..j /\ k <= j
      BY <1>1, <2>3
    <3>2. all[k] = w[k]
      BY <1>15, <2>1, <2>3, <3>1
    <3>3. QED
      BY <2>2, <3>2
  <2>4. CASE i <= k /\ k <= j
    <3>1. k \in 1..j /\ k \in i..j /\ ~(k <= i - 1)
      BY <1>1, <2>4
    <3>2. all[k] = Zero
      BY <1>15, <2>1, <2>4, <3>1
    <3>3. w[k].value = 0
      BY <3>1 DEF Zeros
    <3>4. QED
      BY <2>2, <3>2, <3>3 DEF Stripped, Group, Zero
  <2>5. CASE ~(k <= j)
    <3>1. k - j \in 1..(n - j) /\ j + (k - j) = k
      BY <1>1, <2>1, <2>5
    <3>2. tail[k - j] = w[j + (k - j)]
      BY <1>6, <3>1
    <3>3. all[k] = w[k]
      BY <2>1, <2>5, <3>1, <3>2
    <3>4. QED
      BY <2>2, <3>3
  <2>6. k <= i - 1 \/ (i <= k /\ k <= j) \/ ~(k <= j)
    BY <1>1
  <2>7. QED
    BY <2>3, <2>4, <2>5, <2>6
<1>17. QED
  BY <1>16 DEF all, front, head, tail, fill, PutBack

\* ipv6Prefix64: leading zeros, "::" and a dotted end do not matter.
LEMMA PrefixOfSpelling ==
  ASSUME NEW groups \in [1..8 -> Nat], NEW t \in Spellings(groups)
  PROVE  t.kind = "v6" /\ ipv6Prefix64(t) = [i \in 1..4 |-> Group(groups[i], FALSE, FALSE)]
<1>1. PICK padded \in BOOLEAN, dotted \in BOOLEAN :
        LET w == InFull(groups, padded, dotted)
        IN \/ t = [kind |-> "v6", head |-> w, gap |-> FALSE, tail |-> <<>>]
           \/ \E r \in Runs(w) :
                t = [kind |-> "v6", head |-> SubSeq(w, 1, r[1] - 1), gap |-> TRUE,
                     tail |-> SubSeq(w, r[2] + 1, Len(w))]
  BY DEF Spellings
<1> DEFINE w == InFull(groups, padded, dotted)
           n == IF dotted THEN 7 ELSE 8
<1>2. Written(groups, w, n)
  BY InFullFacts
<1>5. n \in {7, 8}
  OBVIOUS
<1>6. \/ t = [kind |-> "v6", head |-> w, gap |-> FALSE, tail |-> <<>>]
      \/ \E r \in Runs(w) :
           t = [kind |-> "v6", head |-> SubSeq(w, 1, r[1] - 1), gap |-> TRUE,
                tail |-> SubSeq(w, r[2] + 1, Len(w))]
  BY <1>1
<1> HIDE DEF w, n
<1>7. CASE t = [kind |-> "v6", head |-> w, gap |-> FALSE, tail |-> <<>>]
  <2>1. t.kind = "v6" /\ t.head = w /\ t.gap = FALSE
    BY <1>7
  <2>2. ipv6Prefix64(t) = [i \in 1..4 |-> Stripped(w[i])]
    BY <2>1 DEF ipv6Prefix64
  <2>3. QED
    BY <1>2, <2>1, <2>2 DEF Written
<1>8. ASSUME NEW r \in Runs(w),
             t = [kind |-> "v6", head |-> SubSeq(w, 1, r[1] - 1), gap |-> TRUE,
                  tail |-> SubSeq(w, r[2] + 1, Len(w))]
      PROVE  t.kind = "v6" /\ ipv6Prefix64(t) = [i \in 1..4 |-> Group(groups[i], FALSE, FALSE)]
  <2> DEFINE i == r[1]
             j == r[2]
  <2>1. i \in 1..n /\ j \in 1..n /\ i <= j /\ Zeros(w, i, j)
    BY <1>2 DEF Runs, Written, Zeros
  <2>2. /\ t.kind = "v6" /\ t.head = SubSeq(w, 1, i - 1) /\ t.gap = TRUE
        /\ t.tail = SubSeq(w, j + 1, n)
    BY <1>2, <1>8 DEF Written
  <2> HIDE DEF i, j
  <2>3. \A k \in 1..4 : Stripped(PutBack(w, i, j, n)[k]) = Group(groups[k], FALSE, FALSE)
    BY <1>2, <1>5, <2>1, Expanded
  <2>4. ipv6Prefix64(t) = [k \in 1..4 |-> Stripped(PutBack(w, i, j, n)[k])]
    BY <2>2 DEF ipv6Prefix64, Zero, PutBack
  <2>5. QED
    BY <2>2, <2>3, <2>4
<1>9. QED
  BY <1>6, <1>7, <1>8

\* An address is its network and its host, one after the other.
LEMMA WholeAddress ==
  ASSUME NEW c \in [1..4 -> Nat], NEW h \in [1..4 -> Nat]
  PROVE  c \o h \in [1..8 -> Nat] /\ \A i \in 1..4 : (c \o h)[i] = c[i]
<1>1. c \in Seq(Nat) /\ h \in Seq(Nat)
  BY SeqDef
<1>2. Len(c) = 4 /\ Len(h) = 4
  BY <1>1, LenProperties
<1> DEFINE a == c \o h
<1>3. /\ a \in Seq(Nat) /\ Len(a) = Len(c) + Len(h)
      /\ \A i \in 1..(Len(c) + Len(h)) : a[i] = IF i <= Len(c) THEN c[i] ELSE h[i - Len(c)]
  BY <1>1, ConcatProperties
<1> HIDE DEF a
<1>4. Len(a) = 8 /\ \A i \in 1..8 : a[i] = IF i <= 4 THEN c[i] ELSE h[i - 4]
  BY <1>2, <1>3
<1>5. a \in [1..8 -> Nat] /\ \A i \in 1..4 : a[i] = c[i]
  <2>1. a \in [1..Len(a) -> Nat]
    BY <1>3, LenProperties
  <2>2. \A i \in 1..4 : i \in 1..8 /\ i <= 4
    OBVIOUS
  <2>3. QED
    BY <1>4, <2>1, <2>2
<1>6. QED
  BY <1>5 DEF a

\* Every text of a client's address leads to the client's key.
LEMMA TextLeadsToKey ==
  ASSUME AddressAssumption, NEW c \in Client, NEW t \in Texts(c)
  PROVE  t.kind \in {"v4", "v6"} /\ bucketKey(normalizeIp(t)) = KeyOf(c)
<1>1. CASE c \in V4
  <2>1. PICK mapped \in BOOLEAN : t = [kind |-> "v4", addr |-> c, mapped |-> mapped]
    BY <1>1 DEF Texts
  <2>2. t.kind = "v4" /\ normalizeIp(t).kind = "v4" /\ normalizeIp(t).addr = c
    BY <2>1 DEF normalizeIp
  <2>3. QED
    BY <1>1, <2>2 DEF bucketKey, KeyOf
<1>2. CASE c \notin V4
  <2>1. PICK h \in Host : t \in Spellings(c \o h)
    BY <1>2 DEF Texts
  <2>2. c \in [1..4 -> Nat] /\ h \in [1..4 -> Nat]
    BY <1>2 DEF Client, AddressAssumption
  <2> DEFINE groups == c \o h
  <2>3. groups \in [1..8 -> Nat] /\ \A i \in 1..4 : groups[i] = c[i]
    BY <2>2, WholeAddress
  <2> HIDE DEF groups
  <2>4. t.kind = "v6" /\ ipv6Prefix64(t) = [i \in 1..4 |-> Group(groups[i], FALSE, FALSE)]
    BY <2>1, <2>3, PrefixOfSpelling DEF groups
  <2>5. ipv6Prefix64(t) = KeyOf(c)
    BY <1>2, <2>3, <2>4 DEF KeyOf
  <2>6. QED
    BY <2>4, <2>5 DEF normalizeIp, bucketKey
<1>3. QED
  BY <1>1, <1>2

\* extractIp: behind a trusted proxy the last token that is not blank counts,
\* else the address of the socket does.
LEMMA LastToken ==
  ASSUME NEW request, NEW n \in Nat \ {0}, NEW t,
         DOMAIN request.header = 1..n, request.header[n] = t, t.kind \in {"v4", "v6"}
  PROVE  extractIp(request, TRUE) = normalizeIp(t)
<1> DEFINE header == request.header
<1> DEFINE tokens == {i \in DOMAIN header : header[i].kind # "blank"}
           last == CHOOSE i \in tokens : \A j \in tokens : j <= i
<1>1. n \in tokens /\ \A j \in tokens : j \in 1..n /\ j <= n
  OBVIOUS
<1>2. last \in tokens /\ \A j \in tokens : j <= last
  BY <1>1
<1>3. last = n
  BY <1>1, <1>2
<1>4. normalizeIp(t).kind = t.kind
  BY DEF normalizeIp
<1>5. extractIp(request, TRUE)
        = IF tokens # {} /\ normalizeIp(header[last]).kind \in {"v4", "v6"}
          THEN normalizeIp(header[last]) ELSE normalizeIp(request.address)
  BY DEF extractIp
<1> HIDE DEF tokens, last
<1>6. QED
  BY <1>1, <1>3, <1>4, <1>5

\* However a client's address is written and whatever precedes it in the header,
\* the request is counted under the client's key.
LEMMA OneKey ==
  ASSUME AddressAssumption, NEW c \in Client, NEW key \in Keys[c]
  PROVE  key = KeyOf(c)
<1>1. PICK trusted \in BOOLEAN : \E r \in Requests(c, trusted) : key = bucketKey(extractIp(r, trusted))
  BY DEF Keys
<1>2. PICK r \in Requests(c, trusted) : key = bucketKey(extractIp(r, trusted))
  BY <1>1
<1>3. CASE trusted = TRUE
  <2> DEFINE Before == {<<>>} \cup {<<f>> : f \in Forged}
             Sent(h, t) == [header |-> h \o <<t>>, address |-> [kind |-> "proxy"]]
             All == {Sent(h, t) : h \in Before, t \in Texts(c)}
  <2>0. r \in All
    <3>1. Requests(c, TRUE) = All
      BY DEF Requests
    <3>2. r \in Requests(c, TRUE)
      BY <1>3
    <3> HIDE DEF All
    <3>3. QED
      BY <3>1, <3>2
  <2> HIDE DEF Before, Sent
  <2>a. PICK h \in Before, t \in Texts(c) : r = Sent(h, t)
    BY <2>0
  <2>1. r = [header |-> h \o <<t>>, address |-> [kind |-> "proxy"]]
    BY <2>a DEF Sent
  <2>2. t.kind \in {"v4", "v6"} /\ bucketKey(normalizeIp(t)) = KeyOf(c)
    BY TextLeadsToKey
  <2>3. extractIp(r, TRUE) = normalizeIp(t)
    <3>1. CASE h = <<>>
      <4>1. r.header = <<t>>
        BY <2>1, <3>1
      <4>2. DOMAIN r.header = 1..1 /\ r.header[1] = t
        BY <4>1
      <4>3. 1 \in Nat \ {0}
        OBVIOUS
      <4>4. QED
        BY <2>2, <4>2, <4>3, LastToken
    <3>2. ASSUME NEW f \in Forged, h = <<f>>
          PROVE  extractIp(r, TRUE) = normalizeIp(t)
      <4> DEFINE a == <<f>>
                 b == <<t>>
      <4>1. a \in Seq({f, t}) /\ b \in Seq({f, t}) /\ Len(a) = 1 /\ Len(b) = 1 /\ b[1] = t
        OBVIOUS
      <4>2. r.header = a \o b
        BY <2>1, <3>2
      <4> HIDE DEF a, b
      <4>3. DOMAIN r.header = 1..2 /\ r.header[2] = t
        <5>1. /\ r.header \in Seq({f, t}) /\ Len(r.header) = Len(a) + Len(b)
              /\ \A i \in 1..(Len(a) + Len(b)) : r.header[i] = IF i <= Len(a) THEN a[i] ELSE b[i - Len(a)]
          BY <4>1, <4>2, ConcatProperties
        <5>2. QED
          BY <4>1, <5>1, LenProperties
      <4>4. 2 \in Nat \ {0}
        OBVIOUS
      <4>5. QED
        BY <2>2, <4>3, <4>4, LastToken
    <3>3. QED
      BY <3>1, <3>2 DEF Before
  <2>4. QED
    BY <1>2, <1>3, <2>2, <2>3
<1>4. CASE trusted = FALSE
  <2>1. PICK f \in Forged, t \in Texts(c) : r = [header |-> <<f>>, address |-> t]
    BY <1>4 DEF Requests
  <2>2. extractIp(r, FALSE) = normalizeIp(t)
    BY <2>1 DEF extractIp
  <2>3. QED
    BY <1>2, <1>4, <2>2, TextLeadsToKey
<1>5. QED
  BY <1>3, <1>4

\* Two clients never share a key.
LEMMA KeysApart ==
  ASSUME AddressAssumption, NEW c \in Client, NEW d \in Client, KeyOf(c) = KeyOf(d)
  PROVE  c = d
<1>1. CASE c \in V4 /\ d \in V4
  BY <1>1 DEF KeyOf
<1>2. CASE c \in V4 /\ d \notin V4
  BY <1>2 DEF KeyOf, AddressAssumption, Client
<1>3. CASE c \notin V4 /\ d \in V4
  BY <1>3 DEF KeyOf, AddressAssumption, Client
<1>4. CASE c \notin V4 /\ d \notin V4
  <2>1. c \in [1..4 -> Nat] /\ d \in [1..4 -> Nat]
    BY <1>4 DEF Client, AddressAssumption
  <2>2. ASSUME NEW i \in 1..4
        PROVE  c[i] = d[i]
    <3>1. KeyOf(c)[i] = Group(c[i], FALSE, FALSE) /\ KeyOf(d)[i] = Group(d[i], FALSE, FALSE)
      BY <1>4 DEF KeyOf
    <3>2. Group(c[i], FALSE, FALSE).value = c[i] /\ Group(d[i], FALSE, FALSE).value = d[i]
      BY DEF Group
    <3>3. QED
      BY <3>1, <3>2
  <2>3. QED
    BY <2>1, <2>2
<1>5. QED
  BY <1>1, <1>2, <1>3, <1>4

-----------------------------------------------------------------------------
(* The table                                                               *)

Bucket == [key : {KeyOf(c) : c \in Client}, tokens : 0..Limit, last : Nat]

\* A table has an entry per key, none of them from the future.
Table(table, time) ==
  /\ table \in Seq(Bucket)
  /\ \A i \in DOMAIN table : table[i].last <= time
  /\ \A i, j \in DOMAIN table : table[i].key = table[j].key => i = j

MapInv == now \in 0..MaxTime /\ Table(map, now) /\ Len(map) <= MAX_BUCKETS

Holds(table, bucket) == \E i \in DOMAIN table : table[i] = bucket

\* map.set: the entry takes the place of the one with its key, or is a new one.
LEMMA SetFacts ==
  ASSUME NEW table, NEW time \in Nat, Table(table, time), NEW entry \in Bucket, entry.last = time
  PROVE  /\ Table(Set(table, entry), time)
         /\ Len(Set(table, entry)) = IF \E i \in DOMAIN table : table[i].key = entry.key
                                     THEN Len(table) ELSE Len(table) + 1
         /\ \A b : Holds(Set(table, entry), b) <=> b = entry \/ (Holds(table, b) /\ b.key # entry.key)
<1> DEFINE new == Set(table, entry)
<1>0. /\ table \in Seq(Bucket) /\ DOMAIN table = 1..Len(table) /\ Len(table) \in Nat
      /\ \A i \in DOMAIN table : table[i] \in Bucket
  BY LenProperties, ElementOfSeq DEF Table
<1>1. CASE \E i \in DOMAIN table : table[i].key = entry.key
  <2>1. PICK i \in DOMAIN table : table[i].key = entry.key
    BY <1>1
  <2>2. \A j \in DOMAIN table : table[j].key = entry.key <=> j = i
    BY <2>1 DEF Table
  <2>3. new = [j \in DOMAIN table |-> IF j = i THEN entry ELSE table[j]]
    BY <1>1, <2>2 DEF Set
  <2> HIDE DEF new
  <2>4. new \in [1..Len(table) -> Bucket]
    BY <1>0, <2>3
  <2>5. new \in Seq(Bucket) /\ DOMAIN new = DOMAIN table
    BY <1>0, <2>4, SeqDef
  <2>6. Len(new) = Len(table)
    BY <1>0, <2>5, LenProperties
  <2>7. new[i] = entry /\ \A j \in DOMAIN table : j # i => new[j] = table[j]
    BY <2>1, <2>3
  <2>8. \A j \in DOMAIN new : new[j].last <= time /\ (new[j].key = entry.key <=> j = i)
    <3> SUFFICES ASSUME NEW j \in DOMAIN table
                 PROVE  new[j].last <= time /\ (new[j].key = entry.key <=> j = i)
      BY <2>5
    <3>1. CASE j = i
      BY <2>7, <3>1
    <3>2. CASE j # i
      BY <2>2, <2>7, <3>2 DEF Table
    <3>3. QED
      BY <3>1, <3>2
  <2>9. \A j, k \in DOMAIN new : new[j].key = new[k].key => j = k
    BY <2>5, <2>7, <2>8 DEF Table
  <2>10. Table(new, time)
    BY <2>5, <2>8, <2>9 DEF Table
  <2>11. \A b : Holds(new, b) <=> b = entry \/ (Holds(table, b) /\ b.key # entry.key)
    BY <2>1, <2>2, <2>5, <2>7 DEF Holds
  <2>12. QED
    BY <1>1, <2>6, <2>10, <2>11 DEF new
<1>2. CASE \A i \in DOMAIN table : table[i].key # entry.key
  <2>1. new = Append(table, entry)
    BY <1>2 DEF Set
  <2> HIDE DEF new
  <2>2. /\ new \in Seq(Bucket) /\ Len(new) = Len(table) + 1
        /\ \A i \in 1..Len(table) : new[i] = table[i]
        /\ new[Len(table) + 1] = entry
    BY <1>0, <2>1, AppendProperties
  <2>3. DOMAIN new = 1..(Len(table) + 1)
    BY <2>2, LenProperties
  <2>4. \A j \in DOMAIN new : j \in DOMAIN table \/ j = Len(table) + 1
    BY <1>0, <2>3
  <2>5. \A j \in DOMAIN new : new[j].last <= time
    BY <1>0, <2>2, <2>4 DEF Table
  <2>6. \A j, k \in DOMAIN new : new[j].key = new[k].key => j = k
    BY <1>0, <1>2, <2>2, <2>4 DEF Table
  <2>7. \A b : Holds(new, b) <=> b = entry \/ (Holds(table, b) /\ b.key # entry.key)
    BY <1>0, <1>2, <2>2, <2>3, <2>4 DEF Holds
  <2>8. QED
    BY <1>2, <2>2, <2>5, <2>6, <2>7 DEF new, Table
<1>3. QED
  BY <1>1, <1>2

\* The oldest entry goes, the others stay.
LEMMA TailFacts ==
  ASSUME NEW table, NEW time \in Nat, Table(table, time), Len(table) > 0
  PROVE  /\ Table(Tail(table), time) /\ Len(Tail(table)) = Len(table) - 1
         /\ Holds(table, Head(table))
         /\ \A b : Holds(Tail(table), b) <=> Holds(table, b) /\ b.key # Head(table).key
<1> DEFINE rest == Tail(table)
<1>1. /\ table \in Seq(Bucket) /\ DOMAIN table = 1..Len(table) /\ Len(table) \in Nat
      /\ table # <<>>
  BY LenProperties DEF Table
<1>2. /\ Head(table) = table[1] /\ rest \in Seq(Bucket) /\ Len(rest) = Len(table) - 1
      /\ \A i \in 1..Len(rest) : rest[i] = table[i + 1]
  BY <1>1, HeadTailProperties
<1> HIDE DEF rest
<1>3. DOMAIN rest = 1..(Len(table) - 1)
  BY <1>2, LenProperties
<1>4. \A i \in DOMAIN rest : i + 1 \in DOMAIN table /\ rest[i] = table[i + 1] /\ i + 1 # 1 /\ i \in Nat
  BY <1>1, <1>2, <1>3
<1>5. 1 \in DOMAIN table /\ \A i \in DOMAIN table : i = 1 \/ i - 1 \in DOMAIN rest
  BY <1>1, <1>3
<1>6. \A i, j \in DOMAIN rest : rest[i].key = rest[j].key => i = j
  BY <1>4 DEF Table
<1>7. \A i \in DOMAIN rest : rest[i].last <= time
  BY <1>4 DEF Table
<1>8. ASSUME NEW b, Holds(rest, b)
      PROVE  Holds(table, b) /\ b.key # Head(table).key
  <2>1. PICK i \in DOMAIN rest : rest[i] = b
    BY <1>8 DEF Holds
  <2>2. i + 1 \in DOMAIN table /\ b = table[i + 1] /\ i + 1 # 1
    BY <1>4, <2>1
  <2>3. table[i + 1].key # table[1].key
    BY <1>5, <2>2 DEF Table
  <2>4. QED
    BY <1>2, <2>2, <2>3 DEF Holds
<1>9. ASSUME NEW b, Holds(table, b), b.key # Head(table).key
      PROVE  Holds(rest, b)
  <2>1. PICK i \in DOMAIN table : table[i] = b
    BY <1>9 DEF Holds
  <2>2. i - 1 \in DOMAIN rest /\ i \in Nat
    BY <1>1, <1>2, <1>5, <1>9, <2>1
  <2>3. rest[i - 1] = table[(i - 1) + 1] /\ (i - 1) + 1 = i
    BY <1>4, <2>2
  <2>4. QED
    BY <2>1, <2>2, <2>3 DEF Holds
<1>10. QED
  BY <1>2, <1>5, <1>6, <1>7, <1>8, <1>9 DEF rest, Table, Holds

\* gc drops the entries that are stale, and no other.
LEMMA GcFacts ==
  ASSUME MapInv, Gc
  PROVE  /\ Table(map', now) /\ Len(map') <= Len(map)
         /\ \A b : Holds(map', b) <=> Holds(map, b) /\ ~Stale(b)
<1> DEFINE kept == {i \in DOMAIN map : ~Stale(map[i])}
           n == Cardinality(kept)
<1>1. /\ map \in Seq(Bucket) /\ DOMAIN map = 1..Len(map) /\ Len(map) \in Nat
      /\ \A i \in DOMAIN map : map[i] \in Bucket /\ map[i].last <= now
      /\ \A i, j \in DOMAIN map : map[i].key = map[j].key => i = j
  BY LenProperties, ElementOfSeq DEF MapInv, Table
<1>2. IsFiniteSet(1..Len(map)) /\ Cardinality(1..Len(map)) = Len(map)
  BY <1>1, FS_Interval
<1>3. n \in Nat /\ n <= Len(map)
  <2>1. kept \subseteq 1..Len(map)
    BY <1>1
  <2> HIDE DEF kept
  <2>2. IsFiniteSet(kept) /\ Cardinality(kept) <= Cardinality(1..Len(map))
    BY <1>2, <2>1, FS_Subset
  <2>3. QED
    BY <1>2, <2>2, FS_CardinalityType
<1>4. PICK place \in Bijection(1..n, kept) : map' = [i \in DOMAIN place |-> map[place[i]]]
  BY DEF Gc
<1>5. /\ place \in [1..n -> kept]
      /\ \A i, j \in 1..n : place[i] = place[j] => i = j
      /\ \A k \in kept : \E i \in 1..n : place[i] = k
  BY <1>4, Zenon DEF Bijection, Injection, Surjection, IsInjective
<1>6. \A k \in kept : k \in DOMAIN map /\ ~Stale(map[k])
  OBVIOUS
<1>7. \A k \in DOMAIN map : ~Stale(map[k]) => k \in kept
  OBVIOUS
<1> HIDE DEF kept, n
<1>8. map' = [i \in 1..n |-> map[place[i]]]
  BY <1>4, <1>5
<1>9. map' \in [1..n -> Bucket]
  BY <1>1, <1>5, <1>6, <1>8
<1>10. map' \in Seq(Bucket) /\ DOMAIN map' = 1..n
  BY <1>3, <1>9, SeqDef
<1>11. Len(map') = n
  BY <1>3, <1>10, LenProperties
<1>12. \A i \in 1..n : place[i] \in kept /\ place[i] \in DOMAIN map /\ map'[i] = map[place[i]]
  BY <1>5, <1>6, <1>8
<1>13. \A i, j \in DOMAIN map' : map'[i].key = map'[j].key => i = j
  BY <1>1, <1>5, <1>10, <1>12
<1>14. \A i \in DOMAIN map' : map'[i].last <= now
  BY <1>1, <1>10, <1>12
<1>15. \A b : Holds(map', b) => Holds(map, b) /\ ~Stale(b)
  BY <1>6, <1>10, <1>12 DEF Holds
<1>16. \A b : Holds(map, b) /\ ~Stale(b) => Holds(map', b)
  BY <1>5, <1>7, <1>10, <1>12 DEF Holds
<1>17. QED
  BY <1>3, <1>10, <1>11, <1>13, <1>14, <1>15, <1>16 DEF Table

-----------------------------------------------------------------------------
(* The address limiter                                                     *)

\* The bucket at this time.
RefilledAt(bucket, time) ==
  LET tokens == bucket.tokens + (time - bucket.last) * Refill
  IN IF tokens > Limit THEN Limit ELSE tokens

\* What a table says at this time of the owner of this key.
Credit(table, time, key) ==
  LET entries == {i \in DOMAIN table : table[i].key = key}
  IN IF entries = {} THEN Limit ELSE RefilledAt(table[CHOOSE i \in entries : TRUE], time)

LEMMA CreditNowAndNext ==
  ASSUME NEW c
  PROVE  CreditOf(c) = Credit(map, now, KeyOf(c)) /\ CreditOf(c)' = Credit(map', now', KeyOf(c))
  BY DEF CreditOf, Credit, Entries, Refilled, RefilledAt

\* It is the bucket with the key that counts, or the limit if there is none.
LEMMA CreditByEntry ==
  ASSUME NEW table, NEW time, Table(table, time), NEW key
  PROVE  /\ (\A b : Holds(table, b) => b.key # key) => Credit(table, time, key) = Limit
         /\ \A b : Holds(table, b) /\ b.key = key => Credit(table, time, key) = RefilledAt(b, time)
<1> DEFINE entries == {i \in DOMAIN table : table[i].key = key}
           e == CHOOSE i \in entries : TRUE
<1>1. Credit(table, time, key) = IF entries = {} THEN Limit ELSE RefilledAt(table[e], time)
  BY DEF Credit
<1>2. entries # {} => e \in entries
  OBVIOUS
<1>3. \A i \in entries : i \in DOMAIN table /\ table[i].key = key
  OBVIOUS
<1>4. ASSUME NEW b, Holds(table, b), b.key = key
      PROVE  entries # {} /\ table[e] = b
  <2>1. PICK i \in DOMAIN table : table[i] = b
    BY <1>4 DEF Holds
  <2>2. i \in entries
    BY <1>4, <2>1
  <2>3. e = i
    BY <1>2, <1>3, <1>4, <2>1, <2>2 DEF Table
  <2>4. QED
    BY <2>1, <2>2, <2>3
<1>5. (\A b : Holds(table, b) => b.key # key) => entries = {}
  BY <1>3 DEF Holds
<1> HIDE DEF entries, e
<1>6. QED
  BY <1>1, <1>4, <1>5

\* A client's credit is between nothing and the limit.
LEMMA CreditRange ==
  ASSUME NEW table, NEW time \in Nat, Table(table, time), NEW key
  PROVE  Credit(table, time, key) \in 0..Limit
<1>1. ASSUME NEW b, Holds(table, b)
      PROVE  RefilledAt(b, time) \in 0..Limit
  <2>1. b \in Bucket /\ b.last <= time
    BY <1>1, LenProperties, ElementOfSeq DEF Holds, Table
  <2>2. b.tokens \in 0..Limit /\ b.last \in Nat
    BY <2>1 DEF Bucket
  <2> DEFINE earned == (time - b.last) * Refill
  <2>3. time - b.last \in Nat
    BY <2>1, <2>2
  <2>4. earned \in Nat
    BY <2>3, OneMoreTick
  <2>5. RefilledAt(b, time) = IF b.tokens + earned > Limit THEN Limit ELSE b.tokens + earned
    BY DEF RefilledAt
  <2> HIDE DEF earned
  <2>6. QED
    BY <2>2, <2>4, <2>5
<1>2. QED
  BY <1>1, CreditByEntry

\* check: the client's entry is set, and at most the oldest one makes room.
LEMMA CheckFacts ==
  ASSUME MapInv, NEW c \in Client, Check(c, KeyOf(c))
  PROVE  LET key == KeyOf(c)
             tokens == Credit(map, now, key)
             entry == [key |-> key, tokens |-> Charged(tokens), last |-> now]
         IN /\ verdict' = <<c, tokens >= Cost>>
            /\ Table(map', now) /\ Len(map') <= MAX_BUCKETS
            /\ \/ \A b : Holds(map', b) <=> b = entry \/ (Holds(map, b) /\ b.key # key)
               \/ \E old : /\ Holds(map, old) /\ old.key # key
                           /\ \A b : Holds(map', b) <=>
                                b = entry \/ (Holds(map, b) /\ b.key # old.key /\ b.key # key)
<1> DEFINE key == KeyOf(c)
           tokens == Credit(map, now, key)
           entry == [key |-> key, tokens |-> Charged(tokens), last |-> now]
           table == Evicted(key)
<1>1. now \in Nat /\ Table(map, now) /\ Len(map) <= MAX_BUCKETS /\ Len(map) \in Nat
  BY LenProperties DEF MapInv, Table
<1>2. tokens \in 0..Limit
  BY <1>1, CreditRange
<1>3. /\ map' = Set(table, entry) /\ verdict' = <<c, tokens >= Cost>>
  BY DEF Check, Credit, Entries, Refilled, RefilledAt
<1>4. entry \in Bucket /\ entry.key = key /\ entry.last = now
  <2>1. Charged(tokens) \in 0..Limit
    BY <1>2, ChargedFacts
  <2>2. key \in {KeyOf(d) : d \in Client}
    OBVIOUS
  <2> HIDE DEF tokens, key
  <2>3. QED
    BY <1>1, <2>1, <2>2 DEF Bucket
<1> HIDE DEF tokens, key, entry, table
<1>5. CASE ~(Entries(key) = {} /\ Len(map) >= MAX_BUCKETS)
  <2>1. table = map
    BY <1>5 DEF Evicted, table
  <2>2. /\ Table(map', now)
        /\ Len(map') = IF \E i \in DOMAIN map : map[i].key = key THEN Len(map) ELSE Len(map) + 1
        /\ \A b : Holds(map', b) <=> b = entry \/ (Holds(map, b) /\ b.key # key)
    BY <1>1, <1>3, <1>4, <2>1, SetFacts
  <2>3. Len(map') <= MAX_BUCKETS
    BY <1>1, <1>5, <2>2 DEF Entries
  <2>4. QED
    BY <1>3, <2>2, <2>3 DEF tokens, key, entry
<1>6. CASE Entries(key) = {} /\ Len(map) >= MAX_BUCKETS
  <2>1. table = Tail(map)
    BY <1>6 DEF Evicted, table
  <2>2. Len(map) > 0 /\ Len(map) = MAX_BUCKETS
    BY <1>1, <1>6
  <2>3. /\ Table(table, now) /\ Len(table) = Len(map) - 1
        /\ Holds(map, Head(map))
        /\ \A b : Holds(table, b) <=> Holds(map, b) /\ b.key # Head(map).key
    BY <1>1, <2>1, <2>2, TailFacts
  <2>4. \A b : Holds(map, b) => b.key # key
    BY <1>6 DEF Holds, Entries
  <2>5. \A i \in DOMAIN table : table[i].key # key
    BY <2>3, <2>4 DEF Holds
  <2>6. /\ Table(map', now) /\ Len(map') = Len(table) + 1
        /\ \A b : Holds(map', b) <=> b = entry \/ (Holds(table, b) /\ b.key # key)
    BY <1>1, <1>3, <1>4, <2>3, <2>5, SetFacts
  <2>7. Len(map') <= MAX_BUCKETS
    BY <1>1, <2>2, <2>3, <2>6
  <2>8. Holds(map, Head(map)) /\ Head(map).key # key
    BY <2>3, <2>4
  <2>9. \A b : Holds(map', b) <=> b = entry \/ (Holds(map, b) /\ b.key # Head(map).key /\ b.key # key)
    BY <2>3, <2>6
  <2>10. QED
    BY <1>3, <2>6, <2>7, <2>8, <2>9 DEF tokens, key, entry
<1>7. QED
  BY <1>5, <1>6

LEMMA CheckIpFacts ==
  ASSUME NEW c \in Client, CheckIp(c)
  PROVE  Check(c, KeyOf(c)) /\ now' = now /\ relay' = relay /\ answer' = answer
  BY OneKey, AddressAssumption DEF CheckIp, relayVars

LEMMA MapInit == Init => MapInv
<1> SUFFICES ASSUME Init
             PROVE  MapInv
  OBVIOUS
<1>1. map = <<>> /\ now = 0
  BY DEF Init
<1>2. map \in Seq(Bucket) /\ Len(map) = 0 /\ DOMAIN map = {}
  BY <1>1
<1>3. QED
  BY <1>1, <1>2 DEF MapInv, Table

LEMMA MapStep == MapInv /\ [Next]_vars => MapInv'
<1> SUFFICES ASSUME MapInv, [Next]_vars
             PROVE  MapInv'
  OBVIOUS
<1>1. CASE now' = now /\ map' = map
  BY <1>1 DEF MapInv, Table
<1>2. CASE TimePasses
  <2>1. now' \in 0..MaxTime /\ now' = now + 1 /\ map' = map
    BY <1>2 DEF MapInv, TimePasses
  <2>2. map \in Seq(Bucket) /\ \A i \in DOMAIN map : map[i] \in Bucket
    BY LenProperties, ElementOfSeq DEF MapInv, Table
  <2>3. \A i \in DOMAIN map : map[i].last \in Nat /\ map[i].last <= now + 1
    BY <2>2 DEF MapInv, Table, Bucket
  <2>4. QED
    BY <2>1, <2>3 DEF MapInv, Table
<1>3. CASE Gc
  <2>1. now' = now
    BY <1>3 DEF Gc
  <2>2. Len(map) \in Nat /\ Len(map') \in Nat
    BY <1>3, GcFacts, LenProperties DEF MapInv, Table
  <2>3. QED
    BY <1>3, <2>1, <2>2, GcFacts DEF MapInv
<1>4. ASSUME NEW c \in Client, CheckIp(c)
      PROVE  MapInv'
  BY <1>4, CheckIpFacts, CheckFacts DEF MapInv
<1>5. QED
  BY <1>1, <1>2, <1>3, <1>4 DEF Next, Consume, Renew, vars, ipVars

\* The table of the address limiter has at most MAX_BUCKETS entries, one per
\* key, and no bucket of either limiter holds more than its limit.
THEOREM LimitsTyped == Spec => []TypeOK
<1>1. MapInv /\ RelayInv => TypeOK
  <2> SUFFICES ASSUME MapInv, RelayInv
               PROVE  TypeOK
    OBVIOUS
  <2>1. \A i \in DOMAIN map : map[i] \in Bucket
    BY LenProperties, ElementOfSeq DEF MapInv, Table
  <2>2. \A i \in DOMAIN map : map[i].tokens \in 0..Limit /\ map[i].last \in 0..now
    BY <2>1 DEF MapInv, Table, Bucket
  <2>3. QED
    BY <2>2 DEF MapInv, RelayInv, Table, TypeOK
<1>2. QED
  BY <1>1, MapInit, MapStep, RelayInit, RelayStep, PTL DEF Spec

\* A bucket that is collected would be full.
LEMMA StaleIsFull ==
  ASSUME TtlAssumption, MapInv, NEW b \in Bucket, b.last <= now, Stale(b)
  PROVE  RefilledAt(b, now) = Limit
<1>1. b.tokens \in Nat /\ b.last \in Nat /\ now \in Nat /\ IDLE_BUCKET_TTL \in Nat
  BY DEF Bucket, MapInv, TtlAssumption
<1>2. now - b.last \in Nat /\ IDLE_BUCKET_TTL <= now - b.last
  BY <1>1 DEF Stale
<1>3. IDLE_BUCKET_TTL * Refill <= (now - b.last) * Refill
  BY <1>1, <1>2, LongerIsMore
<1>4. Limit <= IDLE_BUCKET_TTL * Refill
  BY DEF TtlAssumption
<1> DEFINE earned == (now - b.last) * Refill
           least == IDLE_BUCKET_TTL * Refill
<1>5. earned \in Nat /\ least \in Nat
  BY <1>1, <1>2, OneMoreTick
<1>6. RefilledAt(b, now) = IF b.tokens + earned > Limit THEN Limit ELSE b.tokens + earned
  BY DEF RefilledAt
<1>7. least <= earned /\ Limit <= least
  BY <1>3, <1>4
<1> HIDE DEF earned, least
<1>8. QED
  BY <1>1, <1>5, <1>6, <1>7

\* check: the client pays if it can, and only the owner of an evicted entry is
\* forgiven what it owes.
LEMMA CheckIsAsk ==
  ASSUME MapInv, NEW c \in Client, CheckIp(c)
  PROVE  ByClient!Ask(c, {}) \/ \E d \in Client \ {c} : ByClient!Ask(c, {d})
<1> DEFINE key == KeyOf(c)
           C(d) == Credit(map, now, KeyOf(d))
           D(d) == Credit(map', now, KeyOf(d))
           entry == [key |-> key, tokens |-> Charged(C(c)), last |-> now]
<1>1. now \in Nat /\ now' = now /\ Table(map, now)
  BY CheckIpFacts DEF MapInv
<1>2. /\ verdict' = <<c, C(c) >= Cost>> /\ Table(map', now)
      /\ \/ \A b : Holds(map', b) <=> b = entry \/ (Holds(map, b) /\ b.key # key)
         \/ \E old : /\ Holds(map, old) /\ old.key # key
                     /\ \A b : Holds(map', b) <=>
                          b = entry \/ (Holds(map, b) /\ b.key # old.key /\ b.key # key)
  BY CheckIpFacts, CheckFacts
<1>3. C(c) \in 0..Limit
  BY <1>1, CreditRange
<1>4. RefilledAt(entry, now) = Charged(C(c)) /\ entry.key = key
  <2>1. Charged(C(c)) \in 0..Limit
    BY <1>3, ChargedFacts
  <2> DEFINE amount == Charged(C(c))
  <2> HIDE DEF amount
  <2>2. entry.tokens = amount /\ entry.last = now /\ entry.key = key
    BY DEF amount
  <2>3. (now - entry.last) * Refill = 0
    BY <1>1, <2>2
  <2> HIDE DEF entry
  <2>4. RefilledAt(entry, now) = amount
    BY <2>1, <2>2, <2>3 DEF RefilledAt, amount
  <2>5. QED
    BY <2>2, <2>4 DEF amount
<1> HIDE DEF entry
<1>5. D(c) = Charged(C(c))
  <2>1. Holds(map', entry)
    BY <1>2
  <2>2. QED
    BY <1>2, <1>4, <2>1, CreditByEntry
<1>6. /\ \A d \in Client : CreditOf(d) = C(d) /\ CreditOf(d)' = D(d)
      /\ verdict' = <<c, C(c) >= Cost>>
  BY <1>1, <1>2, CreditNowAndNext
<1>7. \A d \in Client : d # c => KeyOf(d) # key
  BY KeysApart, AddressAssumption
<1>8. CASE \A b : Holds(map', b) <=> b = entry \/ (Holds(map, b) /\ b.key # key)
  <2>1. ASSUME NEW d \in Client, d # c
        PROVE  D(d) = C(d)
    <3>1. \A b : b.key = KeyOf(d) => (Holds(map', b) <=> Holds(map, b))
      BY <1>4, <1>7, <1>8, <2>1
    <3>2. CASE \A b : Holds(map, b) => b.key # KeyOf(d)
      <4>1. \A b : Holds(map', b) => b.key # KeyOf(d)
        BY <3>1, <3>2
      <4>2. QED
        BY <1>1, <1>2, <3>2, <4>1, CreditByEntry
    <3>3. ASSUME NEW b, Holds(map, b), b.key = KeyOf(d)
          PROVE  D(d) = C(d)
      <4>1. Holds(map', b)
        BY <3>1, <3>3
      <4>2. C(d) = RefilledAt(b, now) /\ D(d) = RefilledAt(b, now)
        BY <1>1, <1>2, <3>3, <4>1, CreditByEntry
      <4>3. QED
        BY <4>2
    <3>4. QED
      BY <3>2, <3>3
  <2> HIDE DEF C, D
  <2>2. \A d \in Client :
          D(d) = IF d \in {} THEN Limit ELSE IF d = c /\ C(c) >= Cost THEN C(c) - Cost ELSE C(d)
    BY <1>3, <1>5, <2>1, ChargedFacts
  <2>3. ByClient!Ask(c, {})
    BY <1>6, <2>2 DEF ByClient!Ask
  <2>4. QED
    BY <2>3
<1>9. ASSUME NEW old, Holds(map, old), old.key # key,
             \A b : Holds(map', b) <=>
               b = entry \/ (Holds(map, b) /\ b.key # old.key /\ b.key # key)
      PROVE  \E d \in Client \ {c} : ByClient!Ask(c, {d})
  <2>1. old \in Bucket
    BY <1>1, <1>9, LenProperties, ElementOfSeq DEF Holds, Table
  <2>2. PICK e \in Client : old.key = KeyOf(e)
    BY <2>1 DEF Bucket
  <2>3. e # c
    BY <1>9, <2>2
  <2>4. D(e) = Limit
    <3>1. \A b : Holds(map', b) => b.key # KeyOf(e)
      BY <1>4, <1>9, <2>2
    <3>2. QED
      BY <1>2, <3>1, CreditByEntry
  <2>5. ASSUME NEW d \in Client, d # c, d # e
        PROVE  D(d) = C(d)
    <3>1. KeyOf(d) # key /\ KeyOf(d) # KeyOf(e)
      BY <2>5, KeysApart, AddressAssumption
    <3>2. \A b : b.key = KeyOf(d) => (Holds(map', b) <=> Holds(map, b))
      BY <1>4, <1>9, <2>2, <3>1
    <3>3. CASE \A b : Holds(map, b) => b.key # KeyOf(d)
      <4>1. \A b : Holds(map', b) => b.key # KeyOf(d)
        BY <3>2, <3>3
      <4>2. QED
        BY <1>1, <1>2, <3>3, <4>1, CreditByEntry
    <3>4. ASSUME NEW b, Holds(map, b), b.key = KeyOf(d)
          PROVE  D(d) = C(d)
      <4>1. Holds(map', b)
        BY <3>2, <3>4
      <4>2. C(d) = RefilledAt(b, now) /\ D(d) = RefilledAt(b, now)
        BY <1>1, <1>2, <3>4, <4>1, CreditByEntry
      <4>3. QED
        BY <4>2
    <3>5. QED
      BY <3>3, <3>4
  <2> HIDE DEF C, D
  <2>6. \A d \in Client :
          D(d) = IF d \in {e} THEN Limit ELSE IF d = c /\ C(c) >= Cost THEN C(c) - Cost ELSE C(d)
    BY <1>3, <1>5, <2>3, <2>4, <2>5, ChargedFacts
  <2>7. ByClient!Ask(c, {e})
    BY <1>6, <2>6 DEF ByClient!Ask
  <2>8. QED
    BY <2>3, <2>7
<1>10. QED
  BY <1>2, <1>8, <1>9

\* The address limiter, with its lazy refill, its eviction and its collection,
\* and however the addresses are written, keeps the allowance that Allowance
\* states.
THEOREM AddressLimiterIsAllowance == Spec => ImplementsAllowance
<1>1. Init => ByClient!Init
  <2> SUFFICES ASSUME Init
               PROVE  ByClient!Init
    OBVIOUS
  <2>1. map = <<>>
    BY DEF Init
  <2>2. \A c \in Client : CreditOf(c) = Limit
    BY <2>1 DEF CreditOf, Entries
  <2>3. QED
    BY <2>2 DEF ByClient!Init, Init
<1>2. MapInv /\ [Next]_vars => [ByClient!Next]_(ByClient!vars)
  <2> SUFFICES ASSUME MapInv, [Next]_vars
               PROVE  [ByClient!Next]_(ByClient!vars)
    OBVIOUS
  <2> DEFINE credit == [c \in Client |-> CreditOf(c)]
  <2>0. now \in Nat /\ Table(map, now)
    BY DEF MapInv
  <2>1. CASE now' = now /\ map' = map /\ verdict' = verdict
    <3>1. \A c \in Client : CreditOf(c)' = CreditOf(c)
      BY <2>1, CreditNowAndNext
    <3>2. credit' = credit
      BY <3>1
    <3>3. QED
      BY <2>1, <3>2 DEF ByClient!vars
  <2>2. CASE TimePasses
    <3>1. now' = now + 1 /\ map' = map /\ verdict' = <<>>
      BY <2>2 DEF TimePasses
    <3>2. ASSUME NEW c \in Client
          PROVE  CreditOf(c)' = ByClient!Earned(CreditOf(c))
      <4>1. Table(map, now + 1)
        <5>1. \A i \in DOMAIN map : map[i] \in Bucket
          BY <2>0, LenProperties, ElementOfSeq DEF Table
        <5>2. \A i \in DOMAIN map : map[i].last <= now + 1
          BY <2>0, <5>1 DEF Table, Bucket
        <5>3. QED
          BY <2>0, <5>2 DEF Table
      <4> DEFINE key == KeyOf(c)
                 x == Credit(map, now, key)
                 y == Credit(map, now + 1, key)
      <4>2. CreditOf(c) = x /\ CreditOf(c)' = y
        BY <3>1, CreditNowAndNext
      <4>3. CASE \A b : Holds(map, b) => b.key # key
        <5>1. x = Limit /\ y = Limit
          BY <2>0, <4>1, <4>3, CreditByEntry
        <5>2. QED
          BY <4>2, <5>1 DEF ByClient!Earned
      <4>4. ASSUME NEW b, Holds(map, b), b.key = key
            PROVE  CreditOf(c)' = ByClient!Earned(CreditOf(c))
        <5>1. x = RefilledAt(b, now) /\ y = RefilledAt(b, now + 1)
          BY <2>0, <4>1, <4>4, CreditByEntry
        <5>2. b \in Bucket /\ b.last <= now
          BY <2>0, <4>4, LenProperties, ElementOfSeq DEF Holds, Table
        <5>3. b.tokens \in 0..Limit /\ b.last \in 0..now
          BY <2>0, <5>2 DEF Bucket
        <5>4. RefilledAt(b, now) = Refilled(b, Limit, Refill)
          BY DEF RefilledAt, Refilled
        <5>5. RefilledAt(b, now + 1) = Refilled(b, Limit, Refill)'
          BY <3>1 DEF RefilledAt, Refilled
        <5>6. Refilled(b, Limit, Refill)' = ByClient!Earned(Refilled(b, Limit, Refill))
          BY <2>0, <3>1, <5>3, RefilledTick DEF ByClient!Earned
        <5>7. QED
          BY <4>2, <5>1, <5>4, <5>5, <5>6
      <4>5. QED
        BY <4>3, <4>4
    <3>3. ByClient!Tick
      BY <3>1, <3>2 DEF ByClient!Tick
    <3>4. QED
      BY <3>3 DEF ByClient!Next
  <2>3. CASE Gc
    <3>1. now' = now /\ verdict' = verdict
      BY <2>3 DEF Gc
    <3>2. Table(map', now) /\ \A b : Holds(map', b) <=> Holds(map, b) /\ ~Stale(b)
      BY <2>3, GcFacts
    <3>3. ASSUME NEW c \in Client
          PROVE  CreditOf(c)' = CreditOf(c)
      <4> DEFINE key == KeyOf(c)
                 x == Credit(map, now, key)
                 y == Credit(map', now, key)
      <4>1. CreditOf(c) = x /\ CreditOf(c)' = y
        BY <3>1, CreditNowAndNext
      <4>2. CASE \A b : Holds(map, b) => b.key # key
        <5>1. \A b : Holds(map', b) => b.key # key
          BY <3>2, <4>2
        <5>2. x = Limit /\ y = Limit
          BY <2>0, <3>2, <4>2, <5>1, CreditByEntry
        <5>3. QED
          BY <4>1, <5>2
      <4>3. ASSUME NEW b, Holds(map, b), b.key = key
            PROVE  CreditOf(c)' = CreditOf(c)
        <5>1. x = RefilledAt(b, now)
          BY <2>0, <4>3, CreditByEntry
        <5>2. CASE Stale(b)
          <6>1. b \in Bucket /\ b.last <= now
            BY <2>0, <4>3, LenProperties, ElementOfSeq DEF Holds, Table
          <6>2. x = Limit
            BY <5>1, <5>2, <6>1, StaleIsFull, TtlAssumption
          <6>3. \A a : Holds(map, a) /\ a.key = key => a = b
            BY <2>0, <4>3 DEF Holds, Table
          <6>4. \A a : Holds(map', a) => a.key # key
            BY <3>2, <5>2, <6>3
          <6>5. y = Limit
            BY <3>2, <6>4, CreditByEntry
          <6>6. QED
            BY <4>1, <6>2, <6>5
        <5>3. CASE ~Stale(b)
          <6>1. Holds(map', b)
            BY <3>2, <4>3, <5>3
          <6>2. y = RefilledAt(b, now)
            BY <3>2, <4>3, <6>1, CreditByEntry
          <6>3. QED
            BY <4>1, <5>1, <6>2
        <5>4. QED
          BY <5>2, <5>3
      <4>4. QED
        BY <4>2, <4>3
    <3>4. credit' = credit
      BY <3>3
    <3>5. QED
      BY <3>1, <3>4 DEF ByClient!vars
  <2>4. ASSUME NEW c \in Client, CheckIp(c)
        PROVE  ByClient!Next
    BY <2>4, CheckIsAsk DEF ByClient!Next
  <2>5. QED
    BY <2>1, <2>2, <2>3, <2>4 DEF Next, Consume, Renew, vars, ipVars
<1>3. QED
  BY <1>1, <1>2, MapInit, MapStep, PTL DEF Spec, ByClient!Spec, ImplementsAllowance
=============================================================================
