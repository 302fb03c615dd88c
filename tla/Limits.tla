-------------------------------- MODULE Limits --------------------------------
(***************************************************************************)
(* The two rate limiters of the server: ratelimit/ip-limiter.ts, a table   *)
(* of token buckets by address (found by wire/ip.ts), and                  *)
(* ratelimit/relay-bucket.ts, one bucket per socket.  The address limiter  *)
(* has four tables, which are alike and share nothing: this is one.        *)
(*                                                                         *)
(* Credit and time are integers: a token is Cost units, a tick brings      *)
(* Refill units.  A Map in JavaScript keeps the order in which its keys    *)
(* were first set, so the table is a sequence.                             *)
(***************************************************************************)
EXTENDS Integers, Sequences, FiniteSets, Functions

CONSTANTS
  V4,                \* IPv4 addresses
  Network, Host,     \* IPv6: the first four groups and the last four, as numbers
  Socket,            \* sockets of the relay
  Limit, Cost, Refill,
  RelayLimit, RelayRefill,
  IDLE_BUCKET_TTL,   \* IDLE_BUCKET_TTL_MS in ticks
  MAX_BUCKETS,       \* MAX_BUCKETS_PER_MAP
  MaxTime            \* bound: ticks

ASSUME LimitAssumption ==
  /\ Limit \in Nat /\ Cost \in Nat \ {0} /\ Refill \in Nat /\ RelayLimit \in Nat /\ RelayRefill \in Nat
  /\ MAX_BUCKETS \in Nat \ {0} /\ MaxTime \in Nat

\* The time after which a bucket is collected fills it.  The defaults keep this
\* (ten minutes fill a hundred times ten requests a minute); config.ts accepts
\* rates that do not.
ASSUME TtlAssumption == IDLE_BUCKET_TTL \in Nat /\ Limit <= IDLE_BUCKET_TTL * Refill

\* Those who have an allowance: an IPv4 address, or an IPv6 network of 64 bits.
Client == V4 \cup Network

VARIABLES
  now,               \* performance.now()
  map,               \* the table, as entries [key, tokens, last] in the order of insertion
  relay,             \* the bucket of each socket
  verdict,           \* the check just made, and its answer
  answer             \* the frame just counted, and the answer

ipVars == <<map, verdict>>
relayVars == <<relay, answer>>
vars == <<now, ipVars, relayVars>>

-----------------------------------------------------------------------------
(* Addresses                                                               *)

\* A group as it is written: its value, whether zeros lead it, and whether it
\* is the dotted end of an address, which stands for two groups.
Group(value, padded, dotted) == [value |-> value, padded |-> padded, dotted |-> dotted]

\* The address in full, with or without leading zeros and a dotted end.
InFull(groups, padded, dotted) ==
  IF dotted THEN [i \in 1..7 |-> Group(IF i = 7 THEN 0 ELSE groups[i], padded /\ i < 7, i = 7)]
  ELSE [i \in 1..8 |-> Group(groups[i], padded, FALSE)]

\* A run of zero groups, i to j, can be left out once.
Runs(w) ==
  {r \in (DOMAIN w) \X (DOMAIN w) :
     r[1] <= r[2] /\ \A i \in r[1]..r[2] : w[i].value = 0 /\ ~w[i].dotted}

\* The texts that denote an IPv6 address: before "::", whether there is one,
\* and after it.
Spellings(groups) ==
  UNION {LET w == InFull(groups, padded, dotted)
         IN {[kind |-> "v6", head |-> w, gap |-> FALSE, tail |-> <<>>]}
              \cup {[kind |-> "v6", head |-> SubSeq(w, 1, r[1] - 1), gap |-> TRUE,
                     tail |-> SubSeq(w, r[2] + 1, Len(w))] : r \in Runs(w)}
         : padded \in BOOLEAN, dotted \in BOOLEAN}

\* The texts that a client's address may come in: an IPv4 address also as
\* "::ffff:1.2.3.4".
Texts(c) ==
  IF c \in V4 THEN {[kind |-> "v4", addr |-> c, mapped |-> mapped] : mapped \in BOOLEAN}
  ELSE UNION {Spellings(c \o h) : h \in Host}

\* A request of client c: the tokens of the proxy's header and the address of
\* the socket.  Behind a trusted proxy the header ends with the client's
\* address and the socket is the proxy's; else the header may say anything.
Forged == {[kind |-> "junk"], [kind |-> "blank"]} \cup UNION {Texts(c) : c \in V4}
Requests(c, trusted) ==
  IF trusted
  THEN {[header |-> h \o <<t>>, address |-> [kind |-> "proxy"]] :
          h \in {<<>>} \cup {<<f>> : f \in Forged}, t \in Texts(c)}
  ELSE {[header |-> <<f>>, address |-> t] : f \in Forged, t \in Texts(c)}

normalizeIp(raw) == IF raw.kind = "v4" THEN [raw EXCEPT !.mapped = FALSE] ELSE raw

extractIp(request, trusted) ==
  LET tokens == {i \in DOMAIN request.header : request.header[i].kind # "blank"}
      candidate == normalizeIp(request.header[CHOOSE i \in tokens : \A j \in tokens : j <= i])
  IN IF trusted /\ tokens # {} /\ candidate.kind \in {"v4", "v6"}
     THEN candidate ELSE normalizeIp(request.address)

\* Faulty variant: a dotted end counts as one group.
SpanOfGroups(groups) == Len(groups)

groupSpan(groups) == Len(groups) + Cardinality({i \in DOMAIN groups : groups[i].dotted})

Stripped(group) == [group EXCEPT !.padded = FALSE]

ipv6Prefix64(ip) ==
  LET fill == [i \in 1..(8 - groupSpan(ip.head) - groupSpan(ip.tail)) |-> Group(0, FALSE, FALSE)]
      groups == IF ip.gap THEN ip.head \o fill \o ip.tail ELSE ip.head
  IN [i \in 1..4 |-> Stripped(groups[i])]

bucketKey(ip) == IF ip.kind = "v6" THEN ipv6Prefix64(ip) ELSE ip.addr

\* The keys that the requests of a client lead to.
Keys ==
  [c \in Client |-> UNION {{bucketKey(extractIp(r, trusted)) : r \in Requests(c, trusted)}
                         : trusted \in BOOLEAN}]

\* The one key that they should all lead to.
KeyOf(c) == IF c \in V4 THEN c ELSE [i \in 1..4 |-> Group(c[i], FALSE, FALSE)]

\* An IPv4 address is not an IPv6 network, nor written like one.
ASSUME AddressAssumption ==
  /\ \A n \in Network \cup Host : n \in [1..4 -> Nat]
  /\ \A a \in V4, n \in Network : a # n /\ a # [i \in 1..4 |-> Group(n[i], FALSE, FALSE)]

-----------------------------------------------------------------------------
(* The address limiter                                                     *)

Refilled(bucket, limit, rate) ==
  LET tokens == bucket.tokens + (now - bucket.last) * rate
  IN IF tokens > limit THEN limit ELSE tokens

Charged(tokens) == IF tokens >= Cost THEN tokens - Cost ELSE tokens

Entries(key) == {i \in DOMAIN map : map[i].key = key}

\* map.set: an entry that exists keeps its place.
Set(entries, entry) ==
  IF \E i \in DOMAIN entries : entries[i].key = entry.key
  THEN [i \in DOMAIN entries |-> IF entries[i].key = entry.key THEN entry ELSE entries[i]]
  ELSE Append(entries, entry)

\* Faulty variant: the table grows.
NoneEvicted(key) == map

\* The table with room for this key: its oldest entry may have to go.
Evicted(key) == IF Entries(key) = {} /\ Len(map) >= MAX_BUCKETS THEN Tail(map) ELSE map

\* check, for client c whose request leads to this key.
Check(c, key) ==
  LET table == Evicted(key)
      tokens == IF Entries(key) = {} THEN Limit
                ELSE Refilled(map[CHOOSE i \in Entries(key) : TRUE], Limit, Refill)
  IN /\ map' = Set(table, [key |-> key, tokens |-> Charged(tokens), last |-> now])
     /\ verdict' = <<c, tokens >= Cost>>

CheckIp(c) ==
  /\ \E key \in Keys[c] : Check(c, key)
  /\ UNCHANGED <<now, relayVars>>

Stale(bucket) == bucket.last < now - IDLE_BUCKET_TTL

\* gc, from the sweeper or under memory pressure: the others stay, in their order.
Gc ==
  /\ LET kept == {i \in DOMAIN map : ~Stale(map[i])}
     IN \E place \in Bijection(1..Cardinality(kept), kept) :
          /\ \A i, j \in DOMAIN place : i < j => place[i] < place[j]
          /\ map' = [i \in DOMAIN place |-> map[place[i]]]
  /\ UNCHANGED <<now, verdict, relayVars>>

-----------------------------------------------------------------------------
(* The bucket of a socket                                                  *)

createRelayBucket == [tokens |-> RelayLimit, last |-> now]

\* Faulty variant: a refusal does not note the time, so that the same time is
\* paid for again at the next request.
ConsumedKeepingTime(bucket) ==
  LET tokens == Refilled(bucket, RelayLimit, RelayRefill)
  IN [tokens |-> Charged(tokens), last |-> IF tokens >= Cost THEN now ELSE bucket.last]

\* consumeRelayToken: the bucket after it.
Consumed(bucket) == [tokens |-> Charged(Refilled(bucket, RelayLimit, RelayRefill)), last |-> now]

\* A RELAY frame, or a HANDSHAKE frame to an empty slot.
Consume(s) ==
  /\ answer' = <<s, Refilled(relay[s], RelayLimit, RelayRefill) >= Cost>>
  /\ relay' = [relay EXCEPT ![s] = Consumed(@)]
  /\ UNCHANGED <<now, ipVars>>

\* The client comes back with a new socket, whose bucket is full.
Renew(s) ==
  /\ relay' = [relay EXCEPT ![s] = createRelayBucket]
  /\ answer' = <<>>
  /\ UNCHANGED <<now, ipVars>>

-----------------------------------------------------------------------------
Init ==
  /\ now = 0 /\ map = <<>>
  /\ relay = [s \in Socket |-> [tokens |-> RelayLimit, last |-> 0]]
  /\ verdict = <<>> /\ answer = <<>>

TimePasses ==
  /\ now < MaxTime /\ now' = now + 1
  /\ verdict' = <<>> /\ answer' = <<>>
  /\ UNCHANGED <<map, relay>>

Next ==
  \/ TimePasses \/ Gc \/ \E c \in Client : CheckIp(c)
  \/ \E s \in Socket : Consume(s) \/ Renew(s)

Spec == Init /\ [][Next]_vars

-----------------------------------------------------------------------------
(* Properties                                                              *)

\* The table has at most MAX_BUCKETS entries, one per key.
TypeOK ==
  /\ now \in 0..MaxTime
  /\ Len(map) <= MAX_BUCKETS
  /\ \A i \in DOMAIN map : map[i].tokens \in 0..Limit /\ map[i].last \in 0..now
  /\ \A i, j \in DOMAIN map : map[i].key = map[j].key => i = j
  /\ \A s \in Socket : relay[s].tokens \in 0..RelayLimit /\ relay[s].last \in 0..now

\* The credit of a client, which the table holds as of its last request.
CreditOf(c) ==
  IF Entries(KeyOf(c)) = {} THEN Limit
  ELSE Refilled(map[CHOOSE i \in Entries(KeyOf(c)) : TRUE], Limit, Refill)

ByClient == INSTANCE Allowance WITH
  credit <- [c \in Client |-> CreditOf(c)]

BySocket == INSTANCE Allowance WITH
  Client <- Socket, Limit <- RelayLimit, Refill <- RelayRefill,
  credit <- [s \in Socket |-> Refilled(relay[s], RelayLimit, RelayRefill)],
  verdict <- answer

\* The address limiter keeps an allowance per IPv4 address or IPv6 network,
\* however the address is written and whatever lazy refill, eviction and
\* collection do to the table.  Only an eviction forgets what somebody owes;
\* a collection never does.
ImplementsAllowance == ByClient!Spec

\* The bucket of a socket keeps an allowance per socket.
RelayImplementsAllowance == BySocket!Spec
=============================================================================
