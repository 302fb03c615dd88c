# unseen.fyi in TLA+

Formal models of unseen.fyi, a two-person end-to-end encrypted chat: a browser
client, and a relay server that forwards ciphertext between two sockets in a
room and stores nothing. `PROJECT.json` lists the components, the runs, the
source lines behind each definition, the hazards and the theorems.

## 1. The system

| component | source | state | operations |
|---|---|---|---|
| send counter and nonce | `client/src/domain/send.ts`, `nonce.ts`, `storage/session-store.ts` | session key, committed and reserved counter, the record in sessionStorage and its mirror | allocate and encrypt, upgrade to PRF, rekey, terminate, reload and resume |
| session | `client/src/domain/session.ts`, `receive.ts`, `transport/*` | `sessionState`, `internal.kind`, modes, keys, counters, `rekeyInFlight`, pending pair and resume id, inbound chain, reconnect timer | text, upgrade, rekey, resume, reconnect, terminate |
| relay server | `server/src/wire/handlers.ts`, `room/*` | `ws.data` of each socket, rooms with two slots, `openConnections` | open, HELLO (create, join, resume), forward, close, HELLO timeout, sweep |
| file transfer | `client/src/domain/file-send.ts`, `file-receive.ts`, `client/src/workers/*` | `transferActive`, `incomingActive`, credits, queues, send loops, the workers, attachments | offer, accept, decline, chunk, complete, acknowledge, cancel, four timeouts |
| rate limiters | `server/src/ratelimit/*`, `wire/ip.ts` | token buckets per address and per socket | find the address and its key, check, evict, collect, consume |
| before ACTIVE | `session.ts`, `handshake.ts`, `transport/ws.ts` | `intentTried`, the socket's generation, the ephemeral key, `localHandshakeSent` | create, fall back to join, exchange keys |
| tabs of a browser | `duplicate-tab.ts`, `storage/opfs-transfers.ts`, `file-state.ts`, `landing-view.ts` | the Web Lock of a room, the record of each tab, the directories of received files and their locks | claim, release, sweep at boot and on the landing page, purge |
| wire | `shared/src/wire/*`, `shared/src/limits.ts`, the composer of `chat-view.ts`, the chunks of `file-send-worker.ts` | none that outlives a call, except the tail of a file not yet cut | encode, check, forward, decode, cut and store |
| message log | `state/message-log.ts` | the messages shown | append, replace, forget |
| keys, rendering, static files | `shared/src/crypto/`, `client/src/components/`, `server/src/static/` | none that outlives a call, or presentation | |

**Interactions.** A session holds one socket. The server's control frames (ACK,
PEER_JOINED, PEER_DISCONNECTED, PEER_LEFT) and the socket's close act in the
client at once; RELAY frames wait in a chain and are handled one at a time, and
a handler may await cryptography, storage or a send. File components share the
session's socket, its counters and its outbound chain, and answer in whatever
state the session is. The server knows of sessions only which socket is in
which slot of which room, not which slot was whose; a client that lost its socket comes back with a
HELLO of intent resume, and the two ends convince each other with
`resume`/`resume_ack`. What survives a reload is the record in sessionStorage.
Tabs of one browser share Web Locks and the origin's private file system, and
nothing else.

**What is hard.**
- Reloads and storage failures between persisting, sending and switching keys:
  AES-GCM must not see a nonce twice.
- Pages opening one link at once: creates that are refused, joins that follow, and
  three events each of which may start the handshake.
- Both ends upgrading at once, and the rekey crossing texts, offers and drops.
- The socket's close overtaking frames that already wait in the chain.
- A passkey dialog open while the session changes under it.
- The server noticing a dead socket later than the client does.
- Room deletion against late close callbacks, and the slot and capacity counts.
- Tabs that duplicate each other's storage, and sweep a file system that others use.
- Limits that one layer checks in other units than the next.
- Flow control between page, worker and wire on both sides; cancelled transfers
  whose loops and handlers are still awaiting something.

`PROJECT.json` "hazards" has the full list, each with its line and the
properties that watch it.

## 2. The modules

### SendCounter, SendCounterProofs
The two ends' allocators and everything that touches their state. `Send` is
`encryptRelayFrame`: reserve a block if needed, persist the bound, advance,
build the nonce, encrypt. `SetRekeyInProgress`, `CommitRekey` and
`FinishRekey` are the stretches of the rekey between awaits. A reload may come
between any two actions: `ReloadAndResume` is `attemptResume`, and
`ReloadWithoutRecord` a page that finds nothing usable. `Terminate` keeps the
record for the seconds of FATAL_ENDING, as the code does.

### RelayServer, RelayServerProofs
Handlers are synchronous in Bun, so an action is a whole handler. Time appears
as two bits of a room (`waited`, `idle`): the sweeper sees that
`INITIATOR_WAIT_TIMEOUT_MS` or the grace period is over. A limiter's refusal, a
dropped send and a full buffer are choices of the environment. The close handler
of a socket that the server itself closes is an event of its own: it comes
eventually, and other events may come first. `notice` is the last control frame or
error code the server sent on a socket, which is what the client believes;
`struck` is history, the room ids whose room was left by a socket without a slot
in it (section 7).

### Connect, ConnectProofs
Pages that open one link, up to ACTIVE, with the room between them. Nobody has a
record, so the mode is RAM and a lost socket ends the session. A page has at
most two sockets, the one of its create and the one of its join; which is the
current one is the code's `connectionGen`. `sending` and `handling` say what
`sendLocalHandshake` and `handleHandshakeFrame` are awaiting; the HANDSHAKE
frames that wait behind them are `inq`. A key is the pair of pages whose
ephemeral keys it is derived from. Simplifications: opening a socket and its
HELLO are one step; pages are numbered in the order in which they open the link
(they are alike, so this loses nothing); terminating from ACTIVE skips the three
seconds of FATAL_ENDING, which `SessionPair` has. Faults: a page leaves, a socket
is lost, the room expires, a limiter refuses, a promise is rejected.

### SessionPair, SessionPairProofs
The two ends of a session after the handshake, and the room between them
reduced to two slots. A slot holds the current socket of an end or an old one
that the server has not seen close, and an end that comes back gets the first
free slot, as in `addPeer`, which may be its peer's. One action is the code between two awaits; `hp` and `up`
are what an inbound handler and `upgradeToPrf` are waiting for. A socket is
`open`, `broken` (dead, and neither side knows) or `closed`; one whose buffer is
`full` is open and skips what is sent, as `canSend` tells the callers to. `kind`
is `internal.kind`, and an ACK finds it resuming or not (`ArriveAck`); `shook`
says that the end has sent a handshake. Key 0 is the handshake's, key 1 the rekeyed
one. Faults: a broken socket, a reload, leaving the page, a failure of cryptography
or storage (`WorkFails`: the handler's error path ends the session), a buffer that
fills up (`Fill`). `unsent` is history, the kinds of frames that were skipped. An offer
survives the close of a socket at both ends, as `onWsClose` of the file
components only drops what has been accepted.

### FileTransfer, FileTransferProofs
One direction of transfer, both ends with their workers. Each end has an
outbound chain; code that awaits a send continues when the chain reaches it.
A chunk is its number, a stored file the sequence of chunks written, and two
hashes agree when the sequences do. Several transfers may follow one another,
so that loops and handlers of a finished one meet its successor. Time is
abstracted: a timeout may strike whenever its timer is set. Faults: a lost
socket (any suffix of what was on its way is lost too), a full buffer (a send is
skipped on an open socket), a file that cannot be read, a disk error, a post to the
worker that fails, a worker that does not answer and is terminated. The chunk loop's
polling of the socket's soft cap is part of its wait for the outbound chain.

### Allowance, Limits, LimitsProofs
`Allowance` is what a limiter promises: each client has a credit that grows with
time up to a limit, and a request is granted exactly if the credit covers it.
`Limits` is the server's code: `extractIp` and `bucketKey` on addresses in every
spelling, the table of the address limiter in the order of a JavaScript Map, with
lazy refill, eviction and collection, and the bucket of a socket. Both are shown
to implement `Allowance` (`ImplementsAllowance`, `RelayImplementsAllowance`), the
credit being what the table's entry would be worth now. One step of `Allowance`
may forget what a client owes: an eviction, or a client that comes back with a
new socket. A collection may not, and that needs `TtlAssumption`: the ten minutes
after which a bucket is collected must fill it. The defaults keep this with a
wide margin; `config.ts` accepts values that do not.

### Tabs, TabsProofs
The tabs of one browser. A tab shows one document after another (a chat, the
landing page, or another site), and a document takes its locks and its requests for
locks with it; records stay with the tab through reloads and visits (`Open`,
`Visit`) and are copied when it is duplicated, on whatever page it is. `ClaimRoom`
is the exclusive lock of a room, `Probe` to `BootFails` the way of a chat to its
directory. The exclusive lock of the file system has two kinds of holders. Pages
wait for it in `queue`; the one at the head asks for the held names
(`QueryLocks`) and acts on the answer later (`Work`), and what it cannot remove it
passes over. The worker of a transfer (`AcceptOffer`, `WorkerBegins`,
`WorkerStops`) has it for as long as the transfer, makes the directory if it is
gone, and may outlive its session for a while. `spared`, `used`, `reused` and
`lateCopy` are history.

### Wire, WireProofs
Everything that is written to the wire or read from it, with the real limits.
A buffer is its length and what was written where; a text is the number of its
characters of each kind, which is all that its lengths in UTF-8 and in JSON depend
on. `RelaySend`, `Relay` and `Receive` carry frames from one end to the other,
`ReadStream` and `EndOfStream` cut a file, and `Stored` puts its pieces down.
Encoders and decoders have their own tables of bytes and names, as in the code
(`BYTE_BY_ERROR` and `ERROR_BY_BYTE`, and so on): that they agree is checked and proved.
`DraftAssumption` says that drafts are texts, and `FileAssumption` that a file has
between 1 and `MAX_FILE_SIZE_BYTES` bytes, as the sender asks.

Definitions commented "Faulty variant" (one at a time, in place of the
definition below them) are plausible mistakes in the code; each property is
checked to fail for one of them.

## 3. The runs

| run | instance | what it shows |
|---|---|---|
| `send_counter` | blocks of 1 and 2, counters to 3, one rekey, 3 frames | `NonceUnique`, `RecordAhead`, `NeverRollback` |
| `relay_server` | 3 sockets, 1 room, capacity 3 | the state of a room is what its slots show (`RoomShape`, `SlotsAreMembers`, `NoOrphans`), clients were told the truth (`ToldTheTruth`), the capacity count is exact (`CapacityExact`), no slot is stolen, no wait lasts forever (`WaitsEnd`) |
| `connect` | 3 pages, one fault of any kind | a key is the key of two pages in opposite roles (`KeyOfTwo`), only a third page is turned away and nobody breaks the protocol (`OnlyThirdTurnedAway`), two pages meet (`PairsUp`), and none is left halfway (`Settles`) |
| `session_calm` | a text and an offer from each end, no fault | upgrades and rekey crossing everything: nobody terminates, no text lost, both harden (`BothHarden`) |
| `session_faults` | two faults: drop, reload, departure, failure, full buffer | ends that are both ACTIVE sit opposite each other, with one key and counters in step (`InSync`), a terminated session is silent, every passage ends (`PassagesEnd`) |
| `session_probe`, `session_marker` | at most two drops | what the documentation says and the code does not keep (section 6) |
| `file_transfer` | 2 transfers of 3 chunks, two faults | a file is only finished whole, credits are exact, a transfer being sent has its loop, every transfer ends |
| `limits` | 1 IPv4 address, 2 IPv6 networks with 2 hosts each, 2 buckets, 5 ticks | both limiters implement `Allowance` |
| `tabs` | 2 tabs, 2 rooms, 3 chats opened, 1 frame per key | a session keeps its directory (`DirectoryKept`), counters are not reused across tabs but for the late copy (`ReuseNeedsLateCopy`) |
| `tabs_files` | 2 tabs, 2 rooms, 2 chats opened | directories of ended sessions go (`OrphansGo`) |
| `wire` | 8 drafts, 6 files and 4 lengths of reads at the limits; 1 message, 3 reads | frames and envelopes are read back as sent, nothing but a draft full of escapes fails to be encoded (`LostToEscapes`), files arrive whole (`StoredInPlace`) |

**Why these bounds.** *Counters*: a chunk block larger than a text block, a
counter width small enough to be exhausted, and a rekey after which counting
starts anew all happen within three frames; the theorems cover every other
value. *Server*: a room has two slots, so the third socket contends, and it may
take the id of a room whose last socket is still to be reported closed; a socket
that has closed connects again. The capacity is three, so that the third socket is let in to contend: the count that an
upgrade is compared with is checked through refusals, errors and closes, and that it
stays within the capacity is proved for every capacity (`TypeCorrect`). What crosses
rooms is left to the theorems.
*Connect*: two pages meet and the third contends with either, before, during and
after their handshake; one fault of each kind strikes at every moment. The
invariants also hold with two faults (1.5 million states); the run has one because
the liveness properties take too long with two.
*Session*: two faults allow a fault during the recovery from another; texts and
offers are left out of the fault runs, where they would only multiply states.
`session_calm` has no full buffers: `BothHarden` is about sends that are not skipped,
and what a skipped one does to a rekey is in `session_faults`.
*Files*: three chunks exceed the sender's credit of two, which exceeds the
receiver's of one, so both ends' queues fill and the receiver's hard cap of one
is hit; the second transfer meets what is left of the first. Any two of the
six kinds of fault strike at every moment.
*Limits*: three clients contend for a table of two, so the one that is owed most
may be evicted; a request costs two units and a tick brings one, so credit is
fractional; five ticks are past the three after which a bucket is collected. The
networks differ in where a zero group is, and every way of writing, shortening and
padding them and of a dotted end is tried.
*Tabs*: two tabs are an original and its duplicate, or two rooms; the third chat
opened is a reload or a return of either, and visits to other pages are not counted.
One frame per key suffices to repeat one. A document has one worker at a time.
`tabs` is reduced by the symmetry of the tabs; `tabs_files` is not, its property
being a liveness property.
*Wire*: the limits are the code's own; drafts, names and files are on them and one
off, and so are reads against the chunk. A message does not depend on earlier ones,
so one at a time is enough; three reads leave a tail, complete it, and end.

Deadlock checking is off where the system may really stop: sessions that ended,
transfers that are over, tabs that are closed, counters at the named bounds
`MaxFrames`, `MaxOverrun`, `MaxTexts`, `MaxOffers`, `MaxFaults`, `MaxTransfers`,
`MaxTime`, `MaxDocs`, `MaxSends`, `MaxInputs` and `MaxReads`. The server never stops
and is checked for deadlock.

## 4. Fairness

Nothing is assumed of users, of passkey dialogs or of faults.
- `RelayServer`: weak fairness of the HELLO timer, the passing of time, the
  sweeper's `setInterval`, and the close event of a socket the server closed.
- `Connect`: weak fairness of each page's machinery (promises settle, frames
  arrive), and of each socket's close event and its handlers at the server.
- `SessionPair`: weak fairness of each client's machinery (promises settle,
  frames arrive, close events are delivered, the timer of FATAL_ENDING fires),
  of the server (a dead socket is noticed by keepalive, the grace period is
  swept), of the reconnect timer, and of a full buffer that drains.
- `FileTransfer`: weak fairness of sender steps, receiver steps and each of the four
  timeouts; strong fairness of the reconnection and of a receiver's send that is not
  skipped. Strong, because a user may try to accept an offer again and again in
  between; a lost socket is replaced and a full one drains all the same. A killed
  worker, a failed write and the like are faults and not fair.
- `Tabs`: weak fairness of each tab's machinery (claims are answered, probes end in
  their three seconds, the timers of FATAL_ENDING and of the redirect fire) and of
  the end of a worker whose session is over (`shutdown`, or `acceptOffer` when it
  comes back from its wait). Strong fairness of the page at the head of the queue:
  Web Locks are granted in the order of the requests, and the model does not keep a
  worker's place among them, so it says no more than that a lock which is free again
  and again is granted. A transfer may last for ever; `OrphansGo` has as its hypothesis
  that none keeps the lock for good.

## 5. What is proved

`SendCounterProofs` proves for every block size, counter width, number of
rekeys and number of frames:

- `TypeCorrect`: `TypeOK` always holds;
- `NonceUniqueTheorem`: no key and nonce are used twice, by either end;
- `RecordAheadTheorem`: a resumable record bounds every counter used under its key;
- `NeverRollbackTheorem`: no step goes back to an earlier key or counter.

The assumptions are the named ones of `SendCounter`: block sizes and
`MAX_COUNTER` are positive naturals, the bounds are naturals.

`NonceUnique` is not inductive: a state in which the record lags behind memory
satisfies it, and the next reload breaks it. The inductive invariant `IInv` adds
- `MemoryAhead`: the reservation covers the committed counter, no frame has a
  later key than its end, and under the current key none has a counter above
  `committed`;
- `RecordMatches`: while a page exists mirror and record go together; a
  resumable record holds the current key and the current reservation; during a
  rekey the record is marked, hence not resumable.

`Send` uses a counter above every earlier one of its end under its key
(`MemoryAhead`), and the two ends differ in the direction byte, so the frame is
new. Every other step leaves `sent` alone and never moves an end back
(`QuietStep`); for the resume this is `RecordMatches`, and for the commit of a
rekey the larger key.

`RelayServerProofs` proves for every finite set of sockets, every set of room ids,
every capacity and handshake cap:

- `TypeCorrect`: `TypeOK`, which bounds `openConnections` by `maxConnections`;
- `SlotsHoldMembers`: `SlotsAreMembers`;
- `CapacityIsExact`: `CapacityExact`;
- `SlotsAreNotStolen`: `NoSlotStolen`;
- `RoomsKeepShape`: `RoomShape`;
- `NoSocketIsOrphaned`: `NoOrphans`;
- `MembersAreToldTheTruth`: `ToldTheTruth`.

They assume that the model values for "undefined" are no sockets, ids or rooms,
and that the two limits are naturals. `SlotsAreMembers` and `CapacityExact` are
not inductive: a socket that connects anew must not carry the data of its
previous life, and one that says HELLO must not be in a room already. `Lifecycle`
adds that: an absent socket has fresh data, an open one is admitted, one that has
not said HELLO is in no room. Most handlers neither admit nor end a socket and
can account for every slot, so one lemma (`StayingStep`) carries them; `Open` and
`Close` change the set of admitted sockets by one element and are proved with the
cardinality theorems. In `Close` a socket is removed from the room its data name,
and by `SlotsAreMembers` it has a slot in no other, so none is left behind even
if the room was deleted and created anew in between. `NoSlotStolen` needs of
the invariant only the types: create takes an unused id, `addPeer` a free slot,
and every other handler keeps slots or empties them.

The last three rest on `RoomInv`, proved on top of that: every room that was not
struck has the shape of its slots (`Shaped`); every socket that is `Settled`, that is
open and told of a room which was not struck, sits in its slot there and was last
told the state of that room (`Seated`); and who is in no room was told nothing that
leaves it open (`Untold`). A close that comes when the socket's room is gone finds
no room, or another one of the same id, and then by `SlotsAreMembers` it has no slot
there: that room is struck. Every other close takes a slot, and `registry.remove`
does what the remaining one expects.

`ConnectProofs` proves for every number of pages and every sequence of faults:

- `ConnectTyped`: `TypeOK`;
- `KeyIsOfTwo`: `KeyOfTwo`;
- `OnlyAThirdIsTurnedAway`: `OnlyThirdTurnedAway`.

`KeyOfTwo` says nothing of keys still on their way, and is not inductive. The
invariant `BaseInv` describes each page with its current socket and both queues
(`Own`, `Line`, `Queue`), the socket it does not use (`Aside`), and the room: a
socket in it is its page's current one, open at the server, and was sent its ACK
first (`Layout`, `Seat`). Hence one HELLO and at most one HANDSHAKE go up, and what
comes down is in the order ACK, PEER_JOINED, HANDSHAKE, which is the first half
of `OnlyThirdTurnedAway`. On top of it, `HeardInv` says that whoever is heard (its
HANDSHAKE on its way, in the chain, or used) was paired with the hearer in the
other role, and has had its one HANDSHAKE forwarded; `Matching`, that no page is
linked with two others by hearing, being heard or sharing the room. A forwarded
HANDSHAKE finds a peer that hears nobody, since it is linked with the sender by the
room and with no one else, and the sender's has not been forwarded before; so
nobody hears a second one, and `KeyOfTwo` follows. The second half
of `OnlyThirdTurnedAway` needs `CalmInv`, which holds until the first fault: no
socket is lost, a socket that the server has closed has its refusal on the way,
every paired page is in the room, and the room that a page was told of still exists.

`FileTransferProofs` proves for every number of chunks and transfers, all credits,
every cap and every set of faults:

- `TransfersTyped`: `TypeOK`;
- `CreditIsExact`: `CreditExact`;
- `SendingKeepsLoop`: `SendingHasLoop`;
- `FinalizesCompleteFiles`: `FinalizeIsComplete`;
- `StoresWholeFiles`: `StoredIsWhole`.

The receiver's invariant `Sound` is that file, worker's inbox and pending queue are
the consecutive chunks seen so far, once each and in order, that free credit and
inbox add up to the initial credit, and that nothing is received before the offer is
accepted. From it a file of full length is whole, whatever arrived. The sender's
is that a loop awaits a chunk exactly while the outbound chain has it (`Awaits`), one
per transfer, so that a loop of a cancelled transfer which wakes under its successor
neither takes nor returns credit; and what its locals are in each phase
(`SenderShape`). `AcksTrue` relates the two ends: a `complete_ack` on its way is of a
file that is stored whole.

`LimitsProofs` proves for every set of addresses and sockets, all limits, costs and
rates, and a table of any size:

- `LimitsTyped`: `TypeOK`;
- `AddressLimiterIsAllowance` and `RelayBucketIsAllowance`: `Limits` implements
  `Allowance` for addresses and for sockets.

The assumptions are those of `Limits`: naturals, `TtlAssumption`, and
`AddressAssumption` (networks and hosts are four groups of naturals, an IPv4
address is neither a network nor a network's key). The invariant `MapInv` says that
the table has one entry per key, none from the future. The refinement is proved step
by step: the ticks of the clock since an entry was
last written are worth what the lazy refill adds at once; a collected entry was
full by `TtlAssumption`; an eviction is the one `Forgive`. That all spellings of an
address come to one key (`extractIp`, `bucketKey`) is part of the proof.

`TabsProofs` proves for every set of tabs and rooms, and any number of documents and
frames:

- `DirectoryIsKept`: `DirectoryKept`;
- `ReuseOnlyAfterLateCopy`: `ReuseNeedsLateCopy`.

The first rests on `FilesInv`: a session holds the lock of its room, a request for the
file system's lock fits the document that made it, one per document, a purge that
is still to come stands before the boot of a later session of its room, and no
session has a directory of which a sweep in progress was not told. Workers only add
directories and removals that fail only leave some. The second adds `RecordsInv`:
which records a key can be in, that a record of the room a tab is on is what its
session has in memory (`RecordsFit`), that no two documents have the same key in
memory, and that without a late copy whoever has a key, or the record that alone has
it, is not behind what was used. Whoever else has a record of a session's key has a
copy that it has not used yet (`OthersHaveCopies`), so when the session goes `Release`
notes it.

`SessionPairProofs` proves for every number of texts, offers and faults:

- `SessionTyped`: `TypeOK`;
- `TerminatedStaysSilent`: `TerminatedIsSilent`;
- `NoTextIsLost`: `NoTextLost` as long as no fault has struck;
- `NobodyIsTerminated`: `NobodyTerminates` as long as no fault has struck;
- `RekeyKeepsInSync`: `InSync` as long as no fault has struck and no file was offered.

`TypeOK` bounds the texts an end has shown by `MaxTexts` and is not inductive: the
frames under way might hold more texts than were sent. `TypeInv` adds the ledger
`Sound`, that what an end has shown and what waits in its two queues is no more
than its peer sent; that an end which is over has the counter 0; and that a page
which waits for its passkey has a record. `TerminatedIsSilent` follows by asking
which steps an end that is over can take at all. Most handlers have the same shape,
a stretch of one end that moves its own fields, takes at most the head of its chain
and sends some frames, so each action is first shown to be a `Stretch` or a `Stops`
and the invariants are proved of those two. `NoTextLost` needs `CalmInv`: before the
first fault, and while both sessions are alive, each end sits in its own slot on an
open socket, only RELAY frames other than probes are under way, and the ledger is
exact.

The last two rest on `RekeyInv`: without faults and offers both sessions are alive
and `Rekeys` holds of the two ends and of what each has still to handle. It says
for each end how its state, mode, key and waits go together (`Common`, `Leads`,
`Follows`); what each knows of the other's mode (`Known`: the peer is upgraded, or
its only MODE_UPGRADED is still under way); and what is under way. To the joiner
that is one `Chain` of frames, under the joiner's key and with consecutive counters,
which ends with the REKEY_INIT if there is one, and nothing while the joiner alone has
the new key. To the initiator it is a `Chain` too, but for the time in which only the
joiner has the new key: then it is a `Turnover`, frames under the old key up to the
REKEY_ACK and frames under the new one from counter 1 after it. So the next frame is
always one that its end accepts (`NextAccepted`), and no handler meets a frame that
would end the session. Each action is first shown to be one of eleven moves on
fields and queues (`Act`), and the moves are shown to keep `Rekeys`; an arrival moves
a frame from one queue to the next and changes nothing that `Rekeys` sees.

`WireProofs` proves for every set of drafts, every file of 1 to `MAX_FILE_SIZE_BYTES`
bytes, every way in which the stream hands it over and any number of messages:

- `FramesAreReadBack`: `ReadBackAsSent`;
- `DraftsLostOnlyToEscapes`: `LostToEscapes`;
- `FilesStoredInPlace`: `StoredInPlace`.

The limits keep their values, so the arithmetic of the layers is part of the proofs: a
plaintext of up to `MAX_PLAINTEXT_BYTES` becomes a frame of at most `MAX_WIRE_BYTES`
whose length field holds it (`RelayIsRead`); a chunk with its header is such a
plaintext (`ChunkIsRead`), and so is every envelope but `msg`, whatever its fields
(`EnvelopesAreValid`), so that none of those is ever lost; a body of `MAX_BODY_BYTES` without control characters at most
doubles in JSON and still fits (`ThrownForControls`). The decoders' tables give back
every name that the encoders' have (`IntentsAgree`, `RolesAgree`, `ErrorsAgree`). Buffers are handled by one lemma, that a
write is read back and leaves alone what it does not overlap (`WriteThenRead`).

`StoredInPlace` is not inductive: it says nothing of the chunks that are still to come.
`WireInv` adds `FileInv`, that what was read is the chunks cut and a tail shorter
than a chunk, and none at the end; that each chunk on its way is the one due under
its number, with the place and length the receiver computes (`Due`); and
`Consecutive`, that the chunks in the two queues are numbered without gap from the
first not stored to the last cut. One turn of the pipeline keeps this (`CutIsDue`)
whatever the sizes of the reads, the end of the stream included.

Only model-checked: `InSync` of `SessionPair` after a fault or an offer, and liveness
(`WaitsEnd`, `PairsUp`, `Settles`, `BothHarden`, `PassagesEnd`, `TransfersEnd`,
`OrphansGo`), which is outside what the prover handles.

## 6. Where code and documentation disagree

Each has a run whose property states the documentation and is violated.
- **`PeerReturnsByProbe`**. `upgradeToPrf` writes ACTIVE after the passkey dialog
  whatever happened meanwhile (`session.ts:850, 855, 872`). If the peer dropped
  while the dialog was open, PEER_RECONNECTING is lost, and the peer's probe then
  ends the session with `resume_unexpected`.
- **`MarkerCleared`**. When two upgrades cross and the initiator's socket drops
  before it reads the joiner's MODE_UPGRADED, the joiner keeps `rekeyInFlight`
  and the record's rekey marker for good, and a later F5 discards the session.

`PassagesEnd` has an exception (`Forsaken`), on which the documentation is
silent: an end may wait for a frame that the peer skipped, and no timeout ends that
wait. A full buffer makes an end skip a MODE_UPGRADED, a REKEY_INIT, a REKEY_ACK, a
probe or its answer, and goes on as if it had been sent; and a second drop can make
an old `resume_ack` be handled between the reopening of the socket and its ACK, which
then finds the session active (`session.ts:1045`), writes WAITING_FOR_PEER or starts a
handshake, and sends no probe.

Four more divergences were met on the way and are stated as what the models do,
without a run of their own:
- a `resume_ack` that waited in the chain when the socket closed sets ACTIVE and
  clears the reconnect timer that the close had set (`session.ts:347-352`): a
  session on a closed socket with no attempt scheduled (against
  `docs/02-protocol.md:199`). `PassagesEnd` has this as its other exception
  (`Zombie`) and needs it only after a second fault;
- a `file_decline` leaves in REKEYING under the old key, and the session ends when
  the other end has already switched (`session.ts:376`, against
  `docs/02-protocol.md:216`); `NobodyTerminates` is therefore stated for sessions
  without offers;
- the sender's verifying timeout counts as a success (`file-send.ts:204`); the
  documentation calls it a refusal (`docs/03-client.md:181`);
- a sender that loses its socket drops the transfer without a `file_cancel`, and
  the receiver stays in `receiving` until its user cancels (`file-send.ts:488`,
  against `docs/03-client.md:183`); `TransfersEnd` has this as its exception
  (`LeftBehind`), and the same after a skipped chunk, a killed worker or a failed post.

## 7. What is not modelled, and what is assumed

- **Late closes.** `registry.remove` marks a room HALF_OPEN even for a socket that
  has no slot in it. If the server closes a socket, its room is deleted and another
  is created under the same id before the close handler runs, the new room is
  struck: it may have two sockets and be HALF_OPEN, and the sweeper closes one.
  Whether Bun ever lets another event come first is not documented, so the model has it;
  `RoomShape`, `NoOrphans` and `ToldTheTruth` speak of the room ids that were never
  struck, the other properties of all.
- **An unanswered create.** When its ACK is dropped `handleCreate` deletes the room and
  returns, without closing the socket as the join does (`handlers.ts:97-99`, against
  `141-142`). The socket stays open, with the data of a room that does not exist and
  without a HELLO timer; `Unanswered` is the exception for it in `NoOrphans`,
  `ToldTheTruth` and `WaitsEnd`. The transport has no idle
  timeout (`server.ts:116`) and keepalive asks only the sockets in rooms, so only its
  client ends it.
- **Wrong slot on resume.** `addPeer` gives a returning socket the first free slot,
  whichever it was before, so an end may be seated opposite an old socket of its
  own, or the ends may swap slots. `SessionPair` has this: the client does not
  look at the role of the ACK on resume, forwarding depends only on being
  opposite, and once the server sees the old socket close the end is told
  PEER_DISCONNECTED and waits as for any other peer.
- **The late copy.** `ReuseNeedsLateCopy` states an exception that the code has: a
  tab is duplicated, the original sends a frame and then ends, leaves or is closed
  before the duplicate has asked for the room; the duplicate then finds the room
  unclaimed, and its copy of the record is behind. The duplicate may be loading
  the chat, which is short, or it may be a copy of a tab that had left the chat for
  the landing page or another site: records are kept there (`docs/03-client.md:72`),
  and the copy can be used much later. It needs the passkey to resume.
- **Addresses.** The model has the spellings that Bun and proxies produce. An IPv4
  address in a longer mapped form than `::ffff:1.2.3.4` would be taken for IPv6 and
  share the bucket of 0:0:0:0::/64 with all others of its kind; requests without an
  address share the bucket "unknown".
- **Pacing.** The relay allows a socket 200 frames per second after a burst of 2000;
  the chunk sender is held back by its own socket's buffer alone. On a link faster
  than about 1.7 MB/s a large file exceeds the bucket, and RATE_LIMITED ends the
  session (`docs/04-server.md:154` counts on about 150 frames per second). No
  property covers rates against each other: time in `Limits` is only ordered.
- **A lost draft.** The composer lets go of a draft before `send` has encoded it. With
  more than about nine hundred control characters the JSON of a permitted draft
  exceeds `MAX_PLAINTEXT_BYTES` and the text is gone without notice (`LostToEscapes`).
  The same goes for a draft sent into a closed or a full socket
  (`chat-view.ts:389-390`), which `Wire` does not have.
- **Tabs** leaves out the page cache (`lifecycle/bfcache.ts` sweeps and shows a page
  that comes back from it as ended), a secret edited in the address bar without a
  reload, and storage that the browser evicts. Reloading the landing page is left out
  as it only repeats its sweep.
- **A rejected promise of the handshake.** `runInbound` swallows exceptions with the
  comment that handlers terminate themselves, but `sendLocalHandshake` and
  `ensureEphemeral` do not when WebCrypto refuses to make or wrap the ephemeral
  key: the page and its peer stay in CONNECTING, WAITING_FOR_PEER or HANDSHAKING
  until somebody leaves. `Settles` states this as its exception.
- **Connect** leaves out what needs a record (resume is in `SessionPair`, the claim of
  the room by one of two tabs in `Tabs`), frames that do not decode, and the drop of an ACK or PEER_JOINED,
  which `RelayServer` has. PEER_LEFT does not occur there: in RAM mode whoever is
  left alone is gone before the grace period is over.
- **Transfers** take place within an active session that resumes after a drop.
  Once buffers fill up, any send after may be skipped or not. Page hide, the end of
  the session, and `file_progress` (which the sender
  ignores) are left out; the cap on received bytes is one reason among others to
  decline.
- **Cryptography and storage** either work or fail as a whole. Frames from a
  peer that does not follow the protocol are not generated in `SessionPair` and
  `FileTransfer`; the relay server's clients may send anything.
- **Limiters** are nondeterministic refusals in `RelayServer` and `Connect`; what they
  refuse is `Limits`.
- **Not modelled**: the message log is a list for display, which nothing reads back;
  key derivation and passkeys are WebCrypto and WebAuthn calls whose outcomes are
  actions of `SessionPair`; markdown and sanitising are string processing beyond
  bounded inputs; rendering, static files, metrics, logs, configuration and the build
  are presentation or plumbing without a protocol of their own.
- **Durations** are abstracted everywhere: that `scheduleReconnect` measures its
  five minutes from 0 after F5 (`session.ts:293`) is a listed hazard without a
  property.

## 8. Plan

Done: `SendCounter` and `RelayServer` with their proofs, `Connect`, `SessionPair` with
the room's slots, `FileTransfer`, `Limits` against `Allowance`, `Tabs` and `Wire`,
with proofs for all of them.

Next, models: the reconnect schedule with a clock, for the five minutes after F5.

Next, proofs: `InSync` of `SessionPair` after faults and offers, for every number of
them.
