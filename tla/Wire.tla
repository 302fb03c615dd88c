--------------------------------- MODULE Wire ---------------------------------
(***************************************************************************)
(* What is on the wire: the composer's check of a draft, the envelopes     *)
(* (shared/wire/envelope.ts), the chunks that a file is cut into           *)
(* (workers/file-send-worker.ts), the frames around them                   *)
(* (shared/wire/codec.ts), the relay's check of a frame, and the decoders  *)
(* at the other end.  Every limit has its real value: the question is      *)
(* whether what one layer lets pass is what the next one accepts.          *)
(*                                                                         *)
(* A buffer is its length and what has been written at which offset.  A    *)
(* read gives what was written if it is at that offset and of that width,  *)
(* and no byte otherwise.  A text is the number of its characters of each  *)
(* kind, a piece of a file the place it was cut from.                      *)
(*                                                                         *)
(* A frame in flight carries, for the properties, what it was made from.   *)
(***************************************************************************)
EXTENDS Integers, Sequences

CONSTANTS
  Drafts,         \* texts typed, as numbers of characters
  FileSizes,      \* sizes of files, in bytes
  ReadSizes,      \* what a stream may hand over at a time, besides all that is left
  MaxInputs,      \* bound: drafts, envelopes, mode frames and frames of the server
  MaxReads        \* bound: reads of the file

ASSUME InputAssumption == MaxInputs \in Nat /\ MaxReads \in Nat /\ ReadSizes \subseteq Nat \ {0}

\* A text is the number of its characters of each kind.
Text == [plain : Nat, wide : Nat, quoted : Nat, control : Nat, blank : Nat]
ASSUME DraftAssumption == Drafts \subseteq Text

\* The sender takes no empty file and none above this size.
MAX_FILE_SIZE_BYTES == 104857600
ASSUME FileAssumption == FileSizes \subseteq 1..MAX_FILE_SIZE_BYTES

VARIABLES
  up, down,       \* frames on their way to the server, and from it to the other end
  lost,           \* envelopes that could not be encoded and were not sent
  file,           \* the file being sent: bytes read, bytes not yet cut, pieces cut
  stored,         \* the file received: its pieces and where they were put
  ended,          \* a limit ended the session at the sender
  inputs, reads

vars == <<up, down, lost, file, stored, ended, inputs, reads>>

-----------------------------------------------------------------------------
(* limits.ts and the lengths of codec.ts                                   *)

MAX_BODY_BYTES == 4096
UINT16_MAX == 65535
MAX_PLAINTEXT_BYTES == 8704
MAX_WIRE_BYTES == 8736
CHUNK_DATA_MAX_BYTES == 8692

ROOM_ID_LENGTH == 16
NONCE_LENGTH == 12
TAG_LENGTH == 16
PUBKEY_LENGTH == 32
TID_BYTES == 8
SEQ_BYTES == 4
CHUNK_HEADER_BYTES == TID_BYTES + SEQ_BYTES
HELLO_FRAME_LENGTH == 1 + ROOM_ID_LENGTH + 1 + 1
HANDSHAKE_FRAME_LENGTH == 1 + NONCE_LENGTH + PUBKEY_LENGTH + TAG_LENGTH
RELAY_CT_LEN_OFFSET == 2 + NONCE_LENGTH
RELAY_HEADER_LENGTH == 1 + 1 + NONCE_LENGTH + 2

-----------------------------------------------------------------------------
(* Buffers                                                                 *)

NoByte == -1
Buffer(length) == [len |-> length, at |-> [i \in {} |-> 0]]

\* A write takes the place of what it overlaps.
Write(buf, offset, width, value) ==
  LET kept == {o \in DOMAIN buf.at : o + buf.at[o].width <= offset \/ offset + width <= o}
  IN [buf EXCEPT !.at = [o \in kept \cup {offset} |->
                           IF o = offset THEN [width |-> width, value |-> value] ELSE buf.at[o]]]

Read(buf, offset, width) ==
  IF offset \in DOMAIN buf.at /\ buf.at[offset].width = width THEN buf.at[offset].value ELSE NoByte

\* AES-GCM: the tag binds nonce and kind.
Encrypted(kind, nonce, plaintext) ==
  [len |-> plaintext.len + TAG_LENGTH, nonce |-> nonce, kind |-> kind, plaintext |-> plaintext]

-----------------------------------------------------------------------------
(* Bytes for names                                                         *)

MsgType == [HELLO |-> 1, ACK |-> 2, PEER_JOINED |-> 3, HANDSHAKE |-> 4, RELAY |-> 5,
            PEER_DISCONNECTED |-> 6, PEER_LEFT |-> 7, ERROR |-> 8]

\* The constant that this byte is.  Encoders and decoders name the same constants
\* of MsgType and RelayKind.
NameOf(table, byte) ==
  IF \E n \in DOMAIN table : table[n] = byte THEN CHOOSE n \in DOMAIN table : table[n] = byte
  ELSE "undefined"

BYTE_BY_INTENT == [create |-> 1, join |-> 2, resume |-> 3]
BYTE_BY_ROLE == [initiator |-> 1, joiner |-> 2]
BYTE_BY_ERROR ==
  [INVALID_HELLO |-> 1, UNSUPPORTED_VERSION |-> 2, ROOM_FULL |-> 3, ROOM_NOT_FOUND |-> 4,
   ROOM_ALREADY_EXISTS |-> 5, OVER_CAPACITY |-> 6, RATE_LIMITED |-> 7, MESSAGE_TOO_LARGE |-> 8,
   INVALID_PAYLOAD |-> 9, BAD_STATE |-> 10, HELLO_TIMEOUT |-> 11, MODE_MISMATCH |-> 12,
   INTERNAL |-> 255]

\* The decoders have tables of their own, which no type ties to the encoders'.
INTENT_BY_BYTE == <<"create", "join", "resume">>
ROLE_BY_BYTE == <<"initiator", "joiner">>
ERROR_BY_BYTE ==
  LET FirstCodes ==
        <<"INVALID_HELLO", "UNSUPPORTED_VERSION", "ROOM_FULL", "ROOM_NOT_FOUND",
          "ROOM_ALREADY_EXISTS", "OVER_CAPACITY", "RATE_LIMITED", "MESSAGE_TOO_LARGE",
          "INVALID_PAYLOAD", "BAD_STATE", "HELLO_TIMEOUT", "MODE_MISMATCH">>
  IN [byte \in 1..12 \cup {255} |-> IF byte = 255 THEN "INTERNAL" ELSE FirstCodes[byte]]

\* What a table has for a byte, as a lookup in an object gives it.
Lookup(table, byte) == IF byte \in DOMAIN table THEN table[byte] ELSE "undefined"

RelayKind == [MSG |-> 0, CHUNK |-> 1, MODE_UPGRADED |-> 16, REKEY_INIT |-> 17,
              REKEY_ACK |-> 18, REKEY_DONE |-> 19]

\* Faulty variant: the last kind is missing in the set.
KindButLast(byte) == byte \in {0, 1, 16, 17, 18}

\* Of the set that lists the kinds once more.
isRelayKind(byte) ==
  byte \in {RelayKind.MSG, RelayKind.CHUNK, RelayKind.MODE_UPGRADED, RelayKind.REKEY_INIT,
            RelayKind.REKEY_ACK, RelayKind.REKEY_DONE}

-----------------------------------------------------------------------------
(* Texts and envelopes                                                     *)

\* The bytes of a text in UTF-8, and in JSON: a wide character has three bytes;
\* quotes, backslashes and line breaks are escaped in two characters, other
\* control characters in six.
utf8ByteLength(text) == text.plain + 3 * text.wide + text.quoted + text.control + text.blank
Escaped(text) == utf8ByteLength(text) + text.quoted + 5 * text.control

\* trim() of the composer; here the blanks of a text are those around it.
Trimmed(text) == [text EXCEPT !.blank = 0]

\* Faulty variant: the length of a JavaScript string.
DraftLength(text) == text.plain + text.wide + text.quoted + text.control + text.blank

draftByteLength(text) == utf8ByteLength(text)

\* The fields of each kind of envelope besides "kind", by what asX asks of them.
PARSERS ==
  [msg |-> [body |-> "body", t |-> "string"],
   resume |-> [_id |-> "id"], resume_ack |-> [_id |-> "id"],
   file_offer |-> [tid |-> "tid", name |-> "name", size |-> "size"],
   file_accept |-> [tid |-> "tid"],
   file_decline |-> [tid |-> "tid", reason |-> "decline"],
   file_progress |-> [tid |-> "tid", received_bytes |-> "count"],
   file_complete |-> [tid |-> "tid", sender_sha256 |-> "sha256"],
   file_complete_ack |-> [tid |-> "tid"],
   file_cancel |-> [tid |-> "tid", side |-> "side", reason |-> "cancel"]]

DECLINE_REASONS == {"too_large", "user_rejected", "unsupported"}
CANCEL_REASONS == {"user_aborted", "integrity_failure", "session_rekey"}
CANCEL_SIDES == {"sender", "receiver"}

MAX_NAME_BYTES_WIRE == 1024

Accepts(what, value) ==
  CASE what = "body"    -> utf8ByteLength(value) <= MAX_BODY_BYTES
    [] what = "name"    -> utf8ByteLength(value) <= MAX_NAME_BYTES_WIRE
    [] what = "size"    -> value >= 1
    [] what = "count"   -> value >= 0
    [] what = "tid"     -> value = "hex"
    [] what = "id"      -> value \in {"hex", "zeros"}
    [] what = "decline" -> value \in DECLINE_REASONS
    [] what = "cancel"  -> value \in CANCEL_REASONS
    [] what = "side"    -> value \in CANCEL_SIDES
    [] OTHER            -> TRUE

\* The bytes of JSON.stringify for each kind, at most, without body and name.
JsonOverhead ==
         [msg |-> 55, resume |-> 42, resume_ack |-> 46, file_offer |-> 73, file_accept |-> 47,
          file_decline |-> 73, file_progress |-> 76, file_complete |-> 132,
          file_complete_ack |-> 53, file_cancel |-> 94]

JsonBytes(envelope) ==
  JsonOverhead[envelope.kind]
    + CASE envelope.kind = "msg"        -> Escaped(envelope.fields.body)
        [] envelope.kind = "file_offer" -> Escaped(envelope.fields.name)
        [] OTHER                        -> 0

\* encodeEnvelope throws.
EncodeThrows(envelope) ==
  \/ envelope.kind = "msg" /\ utf8ByteLength(envelope.fields.body) > MAX_BODY_BYTES
  \/ JsonBytes(envelope) > MAX_PLAINTEXT_BYTES

encodeEnvelope(envelope) == Write(Buffer(JsonBytes(envelope)), 0, JsonBytes(envelope), envelope)

Malformed == [kind |-> "malformed"]

decodeEnvelope(bytes) ==
  LET parsed == Read(bytes, 0, bytes.len)
      valid == /\ bytes.len <= MAX_PLAINTEXT_BYTES
               /\ parsed.kind \in DOMAIN PARSERS
               /\ DOMAIN parsed.fields = DOMAIN PARSERS[parsed.kind]
               /\ \A f \in DOMAIN parsed.fields : Accepts(PARSERS[parsed.kind][f], parsed.fields[f])
  IN IF valid THEN parsed ELSE Malformed

Msg(body) == [kind |-> "msg", fields |-> [body |-> body, t |-> "iso"]]

\* sanitizeFilename leaves 255 bytes at most, and an underscore before a dot.
OfPlain(n) == [plain |-> n, wide |-> 0, quoted |-> 0, control |-> 0, blank |-> 0]
Names == {OfPlain(1), [OfPlain(0) EXCEPT !.wide = 85], [OfPlain(1) EXCEPT !.quoted = 255]}

\* The other envelopes that the two ends send.
Envelopes ==
  {[kind |-> k, fields |-> [_id |-> i]] : k \in {"resume", "resume_ack"}, i \in {"hex", "zeros"}}
    \cup {[kind |-> "file_offer", fields |-> [tid |-> "hex", name |-> n, size |-> s]] :
            n \in Names, s \in {file.size}}
    \cup {[kind |-> k, fields |-> [tid |-> "hex"]] : k \in {"file_accept", "file_complete_ack"}}
    \cup {[kind |-> "file_decline", fields |-> [tid |-> "hex", reason |-> r]] : r \in DECLINE_REASONS}
    \cup {[kind |-> "file_progress", fields |-> [tid |-> "hex", received_bytes |-> n]] : n \in {0, file.size}}
    \cup {[kind |-> "file_complete", fields |-> [tid |-> "hex", sender_sha256 |-> "sha"]]}
    \cup {[kind |-> "file_cancel", fields |-> [tid |-> "hex", side |-> s, reason |-> r]] :
            s \in CANCEL_SIDES, r \in CANCEL_REASONS}

-----------------------------------------------------------------------------
(* Frames                                                                  *)

Typed(length, type) == Write(Buffer(length), 0, 1, MsgType[type])

encodeHello(room, intent) ==
  LET named == Write(Typed(HELLO_FRAME_LENGTH, "HELLO"), 1, ROOM_ID_LENGTH, room)
      versioned == Write(named, 1 + ROOM_ID_LENGTH, 1, 1)
  IN Write(versioned, 1 + ROOM_ID_LENGTH + 1, 1, BYTE_BY_INTENT[intent])

encodeHandshake(nonce, ciphertext) ==
  Write(Write(Typed(HANDSHAKE_FRAME_LENGTH, "HANDSHAKE"), 1, NONCE_LENGTH, nonce),
        1 + NONCE_LENGTH, ciphertext.len, ciphertext)

\* encodeRelay throws.
RelayThrows(ciphertext) ==
  ciphertext.len > UINT16_MAX \/ RELAY_HEADER_LENGTH + ciphertext.len > MAX_WIRE_BYTES

encodeRelay(kind, nonce, ciphertext) ==
  LET typed == Typed(RELAY_HEADER_LENGTH + ciphertext.len, "RELAY")
      head == Write(Write(typed, 1, 1, kind), 2, NONCE_LENGTH, nonce)
      sized == Write(head, RELAY_CT_LEN_OFFSET, 2, ciphertext.len % (UINT16_MAX + 1))
  IN Write(sized, RELAY_HEADER_LENGTH, ciphertext.len, ciphertext)

encodeAck(role) == Write(Typed(2, "ACK"), 1, 1, BYTE_BY_ROLE[role])
GRACE_MS_HINT == 5 * 60 * 1000
encodePeerDisconnected(graceMs) == Write(Typed(5, "PEER_DISCONNECTED"), 1, 4, graceMs)
encodeError(code) == Write(Typed(2, "ERROR"), 1, 1, BYTE_BY_ERROR[code])

Undefined == [type |-> "undefined"]

decodeHello(buf) ==
  LET intent == Lookup(INTENT_BY_BYTE, Read(buf, 1 + ROOM_ID_LENGTH + 1, 1))
  IN IF buf.len # HELLO_FRAME_LENGTH \/ intent = "undefined" THEN Undefined
     ELSE [type |-> "HELLO", room |-> Read(buf, 1, ROOM_ID_LENGTH),
           protocolVersion |-> Read(buf, 1 + ROOM_ID_LENGTH, 1), intent |-> intent]

decodeHandshake(buf) ==
  IF buf.len # HANDSHAKE_FRAME_LENGTH THEN Undefined
  ELSE [type |-> "HANDSHAKE", nonce |-> Read(buf, 1, NONCE_LENGTH),
        ciphertext |-> Read(buf, 1 + NONCE_LENGTH, PUBKEY_LENGTH + TAG_LENGTH)]

decodeRelay(buf) ==
  LET kind == Read(buf, 1, 1)
      length == Read(buf, RELAY_CT_LEN_OFFSET, 2)
  IN IF \/ buf.len < RELAY_HEADER_LENGTH \/ ~isRelayKind(kind)
        \/ buf.len # RELAY_HEADER_LENGTH + length
     THEN Undefined
     ELSE [type |-> "RELAY", kind |-> kind, nonce |-> Read(buf, 2, NONCE_LENGTH),
           ciphertext |-> Read(buf, RELAY_HEADER_LENGTH, length)]

decodeAck(buf) ==
  LET role == Lookup(ROLE_BY_BYTE, Read(buf, 1, 1))
  IN IF buf.len # 2 \/ role = "undefined" THEN Undefined ELSE [type |-> "ACK", role |-> role]

decodeError(buf) ==
  LET code == Lookup(ERROR_BY_BYTE, Read(buf, 1, 1))
  IN IF buf.len # 2 \/ code = "undefined" THEN Undefined ELSE [type |-> "ERROR", code |-> code]

decodePeerDisconnected(buf) ==
  IF buf.len # 5 THEN Undefined
  ELSE [type |-> "PEER_DISCONNECTED", graceMs |-> Read(buf, 1, 4)]

decodeServerFrame(buf) ==
  LET type == NameOf(MsgType, Read(buf, 0, 1))
  IN CASE type = "ACK" -> decodeAck(buf)
       [] type = "ERROR" -> decodeError(buf)
       [] type \in {"PEER_JOINED", "PEER_LEFT"} /\ buf.len = 1 -> [type |-> type]
       [] type = "PEER_DISCONNECTED" -> decodePeerDisconnected(buf)
       [] type = "HANDSHAKE" -> decodeHandshake(buf)
       [] type = "RELAY" -> decodeRelay(buf)
       [] OTHER -> Undefined

-----------------------------------------------------------------------------
(* The other end: what a frame says                                        *)

\* The plaintext of a chunk: tid, number and data.
buildChunkPlaintext(seq, piece) ==
  LET tid == Write(Buffer(CHUNK_HEADER_BYTES + piece.len), 0, TID_BYTES, 1)
  IN Write(Write(tid, TID_BYTES, SEQ_BYTES, seq), CHUNK_HEADER_BYTES, piece.len, piece)

parseChunkPlaintext(plaintext) ==
  IF plaintext.len < CHUNK_HEADER_BYTES THEN Malformed
  ELSE [kind |-> "chunk", seq |-> Read(plaintext, TID_BYTES, SEQ_BYTES),
        piece |-> Read(plaintext, CHUNK_HEADER_BYTES, plaintext.len - CHUNK_HEADER_BYTES)]

\* The payload of a mode frame: a public key, or nothing.
PayloadLength(kind) == IF kind \in {"REKEY_INIT", "REKEY_ACK"} THEN PUBKEY_LENGTH ELSE 0
ModePayload(kind) == Buffer(PayloadLength(kind))

\* validateAndDecryptFrame, and then what the kind of the frame asks for.
Understood(frame) ==
  LET kind == NameOf(RelayKind, frame.kind)
      plaintext == frame.ciphertext.plaintext
  IN IF frame.ciphertext.nonce # frame.nonce \/ frame.ciphertext.kind # frame.kind THEN Malformed
     ELSE CASE kind = "MSG"   -> decodeEnvelope(plaintext)
            [] kind = "CHUNK" -> parseChunkPlaintext(plaintext)
            [] OTHER -> IF plaintext.len = PayloadLength(kind) THEN [kind |-> kind] ELSE Malformed

\* What the receiving client gets out of a buffer.
Received(buf) ==
  LET frame == decodeServerFrame(buf)
  IN IF frame.type = "RELAY" THEN Understood(frame) ELSE frame

-----------------------------------------------------------------------------
Init ==
  /\ up = <<>> /\ down = <<>> /\ lost = {} /\ ended = FALSE /\ inputs = 0 /\ reads = 0
  /\ \E size \in FileSizes : file = [size |-> size, read |-> 0, tail |-> 0, seq |-> 0, eof |-> FALSE]
  /\ stored = [next |-> 0, pieces |-> {}, failed |-> FALSE]

Input == inputs < MaxInputs /\ ~ended /\ inputs' = inputs + 1 /\ UNCHANGED reads

Sent(buf, says) == [buf |-> buf, says |-> says]

\* runRelaySendTask with each of these plaintexts; one that does not fit in a
\* frame ends the session.
RelaySend(kind, plaintexts, says) ==
  LET ciphertext(i) == Encrypted(RelayKind[kind], inputs, plaintexts[i])
      frames == [i \in DOMAIN plaintexts |->
                   Sent(encodeRelay(RelayKind[kind], inputs, ciphertext(i)), says[i])]
  IN IF \E i \in DOMAIN plaintexts : RelayThrows(ciphertext(i))
     THEN ended' = TRUE /\ UNCHANGED up
     ELSE up' = up \o frames /\ UNCHANGED ended

\* sendEncoded.  An envelope that cannot be encoded is a rejected promise; none of
\* its callers tries again.
SendEncoded(envelope) ==
  IF EncodeThrows(envelope) THEN lost' = lost \cup {envelope} /\ UNCHANGED <<up, ended>>
  ELSE RelaySend("MSG", <<encodeEnvelope(envelope)>>, <<envelope>>) /\ UNCHANGED lost

\* #sendDraft of the chat view, which lets go of the draft without waiting for
\* session.send.
SendDraft(draft) ==
  LET body == Trimmed(draft)
  IN /\ draftByteLength(body) \in 1..MAX_BODY_BYTES /\ Input
     /\ SendEncoded(Msg(body))
     /\ UNCHANGED <<down, file, stored>>

SendEnvelope(envelope) == Input /\ SendEncoded(envelope) /\ UNCHANGED <<down, file, stored>>

SendMode(kind) ==
  /\ Input
  /\ RelaySend(kind, <<ModePayload(kind)>>, <<[kind |-> kind]>>)
  /\ UNCHANGED <<down, lost, file, stored>>

\* HELLO, and the handshake that follows.
SendHello(intent) ==
  /\ Input
  /\ up' = Append(up, Sent(encodeHello(1, intent),
                           [type |-> "HELLO", room |-> 1, protocolVersion |-> 1, intent |-> intent]))
  /\ UNCHANGED <<down, lost, file, stored, ended>>

SendHandshake ==
  /\ Input
  /\ LET ciphertext == Encrypted(0, inputs, Buffer(PUBKEY_LENGTH))
     IN up' = Append(up, Sent(encodeHandshake(inputs, ciphertext),
                              [type |-> "HANDSHAKE", nonce |-> inputs, ciphertext |-> ciphertext]))
  /\ UNCHANGED <<down, lost, file, stored, ended>>

\* A frame of the server's own.
ServerSays(buf, says) ==
  /\ Input
  /\ down' = Append(down, Sent(buf, says))
  /\ UNCHANGED <<up, lost, file, stored, ended>>

ServerFrame ==
  \/ \E role \in DOMAIN BYTE_BY_ROLE : ServerSays(encodeAck(role), [type |-> "ACK", role |-> role])
  \/ \E code \in DOMAIN BYTE_BY_ERROR : ServerSays(encodeError(code), [type |-> "ERROR", code |-> code])
  \/ \E type \in {"PEER_JOINED", "PEER_LEFT"} : ServerSays(Typed(1, type), [type |-> type])
  \/ ServerSays(encodePeerDisconnected(GRACE_MS_HINT),
                [type |-> "PEER_DISCONNECTED", graceMs |-> GRACE_MS_HINT])

-----------------------------------------------------------------------------
(* Files                                                                   *)

Pieces(from, count) ==
  [i \in 1..count |-> [from |-> from + (i - 1) * CHUNK_DATA_MAX_BYTES, len |-> CHUNK_DATA_MAX_BYTES]]

\* Faulty variant: the piece that a read ends with is not kept for the next.
CutEachRead(n, isEof) ==
  LET count == n \div CHUNK_DATA_MAX_BYTES
      rest == n % CHUNK_DATA_MAX_BYTES
      last == [from |-> file.read + n - rest, len |-> rest]
  IN [pieces |-> Pieces(file.read, count) \o (IF rest > 0 THEN <<last>> ELSE <<>>), tail |-> 0]

\* The n bytes just read, after the tail of what was read before.
consumeIntoChunks(n, isEof) ==
  LET combined == file.tail + n
      count == combined \div CHUNK_DATA_MAX_BYTES
      rest == combined % CHUNK_DATA_MAX_BYTES
      last == [from |-> file.read + n - rest, len |-> rest]
  IN [pieces |-> Pieces(file.read - file.tail, count) \o (IF isEof /\ rest > 0 THEN <<last>> ELSE <<>>),
      tail |-> IF isEof THEN 0 ELSE rest]

\* One turn of runPipeline: what it cuts is numbered and sent.
Turn(n, isEof) ==
  LET cut == consumeIntoChunks(n, isEof)
      seq(i) == file.seq + i - 1
  IN /\ file' = [file EXCEPT !.read = @ + n, !.tail = cut.tail, !.seq = @ + Len(cut.pieces), !.eof = isEof]
     /\ RelaySend("CHUNK", [i \in DOMAIN cut.pieces |-> buildChunkPlaintext(seq(i), cut.pieces[i])],
                  [i \in DOMAIN cut.pieces |-> [kind |-> "chunk", seq |-> seq(i), piece |-> cut.pieces[i]]])
     /\ UNCHANGED <<down, lost, stored, inputs>>

ReadStream ==
  /\ reads < MaxReads /\ ~ended /\ reads' = reads + 1
  /\ LET left == file.size - file.read
     IN \E n \in ReadSizes \cup {left} : n \in 1..left /\ Turn(n, FALSE)

EndOfStream ==
  /\ file.read = file.size /\ ~file.eof /\ ~ended
  /\ Turn(0, TRUE) /\ UNCHANGED reads

computeTotalChunks(size) == (size + CHUNK_DATA_MAX_BYTES - 1) \div CHUNK_DATA_MAX_BYTES

expectedChunkLen(size, seq) ==
  IF seq + 1 < computeTotalChunks(size) THEN CHUNK_DATA_MAX_BYTES
  ELSE size - CHUNK_DATA_MAX_BYTES * (computeTotalChunks(size) - 1)

\* dispatchChunkFrame, and the write of the worker.
Stored(chunk) ==
  IF /\ chunk.seq = stored.next /\ chunk.seq < computeTotalChunks(file.size)
     /\ chunk.piece.len = expectedChunkLen(file.size, chunk.seq)
  THEN [stored EXCEPT !.next = @ + 1,
          !.pieces = @ \cup {[piece |-> chunk.piece, at |-> chunk.seq * CHUNK_DATA_MAX_BYTES]}]
  ELSE [stored EXCEPT !.failed = TRUE]

-----------------------------------------------------------------------------
(* The relay and the receiving client                                      *)

TypeByte(buf) == Read(buf, 0, 1)

\* handleMessage and handleForward let the frame pass.
Passes(buf) ==
  /\ buf.len \in 1..MAX_WIRE_BYTES
  /\ \/ TypeByte(buf) = MsgType.HELLO /\ decodeHello(buf) # Undefined
     \/ TypeByte(buf) = MsgType.HANDSHAKE /\ buf.len = HANDSHAKE_FRAME_LENGTH
     \/ TypeByte(buf) = MsgType.RELAY

\* A HELLO is for the server itself, the rest is forwarded as it is.
Relay ==
  /\ up # <<>> /\ Passes(Head(up).buf)
  /\ up' = Tail(up)
  /\ down' = IF TypeByte(Head(up).buf) = MsgType.HELLO THEN down ELSE Append(down, Head(up))
  /\ UNCHANGED <<lost, file, stored, ended, inputs, reads>>

Receive ==
  /\ down # <<>>
  /\ LET content == Received(Head(down).buf)
     IN stored' = IF "kind" \in DOMAIN content /\ content.kind = "chunk" THEN Stored(content) ELSE stored
  /\ down' = Tail(down)
  /\ UNCHANGED <<up, lost, file, ended, inputs, reads>>

Next ==
  \/ \E draft \in Drafts : SendDraft(draft)
  \/ \E envelope \in Envelopes : SendEnvelope(envelope)
  \/ \E kind \in {"MODE_UPGRADED", "REKEY_INIT", "REKEY_ACK", "REKEY_DONE"} : SendMode(kind)
  \/ \E intent \in DOMAIN BYTE_BY_INTENT : SendHello(intent)
  \/ SendHandshake \/ ServerFrame \/ ReadStream \/ EndOfStream \/ Relay \/ Receive

Spec == Init /\ [][Next]_vars

-----------------------------------------------------------------------------
(* Properties                                                              *)

\* What the ends and the server send passes the relay and is read back as what
\* it was made from: the limits and the layout of each layer fit the next one's.
ReadBackAsSent ==
  /\ ~ended
  /\ \A i \in DOMAIN up :
       /\ Passes(up[i].buf)
       /\ TypeByte(up[i].buf) = MsgType.HELLO => decodeHello(up[i].buf) = up[i].says
  /\ \A i \in DOMAIN down : Received(down[i].buf) = down[i].says

\* Every envelope that an end makes can be encoded, so that an open socket gets it,
\* but for a text that has more than MAX_PLAINTEXT_BYTES in JSON because of its
\* control characters: that draft is gone from the composer and nobody is told.
\* (A draft sent into a closed or a full socket is gone as well; there is no such
\* socket in this module.)
LostToEscapes ==
  \A envelope \in lost : envelope.kind = "msg" /\ envelope.fields.body.control > 0

\* However the stream hands the file over, its pieces are those that the receiver
\* expects, and each is stored where it was cut.
StoredInPlace ==
  /\ ~stored.failed
  /\ \A p \in stored.pieces : p.at = p.piece.from
  /\ (file.eof /\ up = <<>> /\ down = <<>>) => stored.next = computeTotalChunks(file.size)
=============================================================================
