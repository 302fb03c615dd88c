------------------------------ MODULE WireProofs ------------------------------
(***************************************************************************)
(* For every set of drafts and of file sizes, and however a stream hands   *)
(* its bytes over: what is sent passes the relay and is read back, drafts  *)
(* are lost only to escapes, and files are stored as they were cut.        *)
(***************************************************************************)
EXTENDS Wire, SequenceTheorems, TLAPS

\* The limits, as facts.
LEMMA LimitValues ==
  /\ MAX_PLAINTEXT_BYTES = 8704 /\ MAX_WIRE_BYTES = 8736 /\ UINT16_MAX = 65535 /\ MAX_BODY_BYTES = 4096
  /\ MAX_NAME_BYTES_WIRE = 1024 /\ RELAY_HEADER_LENGTH = 16 /\ CHUNK_DATA_MAX_BYTES = 8692
  /\ HANDSHAKE_FRAME_LENGTH = 61 /\ HELLO_FRAME_LENGTH = 19 /\ CHUNK_HEADER_BYTES = 12
  BY DEF MAX_PLAINTEXT_BYTES, MAX_WIRE_BYTES, UINT16_MAX, MAX_BODY_BYTES, MAX_NAME_BYTES_WIRE,
         RELAY_HEADER_LENGTH, NONCE_LENGTH, CHUNK_DATA_MAX_BYTES, HANDSHAKE_FRAME_LENGTH, PUBKEY_LENGTH,
         TAG_LENGTH, HELLO_FRAME_LENGTH, ROOM_ID_LENGTH, CHUNK_HEADER_BYTES, TID_BYTES, SEQ_BYTES

-----------------------------------------------------------------------------
(* Buffers                                                                 *)

IsBuffer(buf) == buf = [len |-> buf.len, at |-> [o \in DOMAIN buf.at |-> buf.at[o]]]

LEMMA FreshBuffer ==
  ASSUME NEW n
  PROVE  IsBuffer(Buffer(n)) /\ Buffer(n).len = n
  BY DEF IsBuffer, Buffer

\* What was written is read back, and a read that does not overlap it gives what
\* it gave before.
LEMMA WriteThenRead ==
  ASSUME NEW buf, IsBuffer(buf), NEW offset \in Nat, NEW width \in Nat, NEW value
  PROVE  LET b == Write(buf, offset, width, value)
         IN /\ IsBuffer(b) /\ b.len = buf.len
            /\ Read(b, offset, width) = value
            /\ \A o \in Nat, w \in Nat :
                 o # offset /\ (o + w <= offset \/ offset + width <= o) => Read(b, o, w) = Read(buf, o, w)
<1> DEFINE kept == {o \in DOMAIN buf.at : o + buf.at[o].width <= offset \/ offset + width <= o}
           at == [o \in kept \cup {offset} |->
                    IF o = offset THEN [width |-> width, value |-> value] ELSE buf.at[o]]
           b == Write(buf, offset, width, value)
<1>1. b = [len |-> buf.len, at |-> at]
  BY DEF Write, IsBuffer
<1>2. IsBuffer(b) /\ b.len = buf.len /\ b.at = at
  BY <1>1 DEF IsBuffer
<1>3. Read(b, offset, width) = value
  <2>1. offset \in DOMAIN at /\ at[offset] = [width |-> width, value |-> value]
    OBVIOUS
  <2>2. QED
    BY <2>1, <1>2 DEF Read
<1>4. ASSUME NEW o \in Nat, NEW w \in Nat, o # offset, o + w <= offset \/ offset + width <= o
      PROVE  Read(b, o, w) = Read(buf, o, w)
  <2>1. o \in DOMAIN at <=> o \in kept
    BY <1>4
  <2>2. o \in kept => at[o] = buf.at[o]
    BY <1>4
  <2>3. o \in DOMAIN buf.at /\ buf.at[o].width = w => o \in kept
    BY <1>4
  <2> HIDE DEF at
  <2>4. QED
    BY <2>1, <2>2, <2>3, <1>2 DEF Read
<1>5. QED
  BY <1>2, <1>3, <1>4

LEMMA WriteKeepsLength ==
  ASSUME NEW buf, IsBuffer(buf), NEW offset \in Nat, NEW width \in Nat, NEW value
  PROVE  IsBuffer(Write(buf, offset, width, value)) /\ Write(buf, offset, width, value).len = buf.len
  BY WriteThenRead

-----------------------------------------------------------------------------
(* Bytes for names                                                         *)

OneToOne(table) == \A m, n \in DOMAIN table : table[m] = table[n] => m = n

LEMMA NameOfByte ==
  ASSUME NEW table, OneToOne(table), NEW n \in DOMAIN table
  PROVE  NameOf(table, table[n]) = n
<1> DEFINE P(m) == m \in DOMAIN table /\ table[m] = table[n]
<1>1. P(n)
  OBVIOUS
<1>2. P(CHOOSE m \in DOMAIN table : table[m] = table[n])
  BY <1>1
<1>3. QED
  BY <1>1, <1>2 DEF NameOf, OneToOne

LEMMA TablesAreOneToOne ==
  OneToOne(MsgType) /\ OneToOne(RelayKind)
<1>1. OneToOne(MsgType)
  BY DEF OneToOne, MsgType
<1>2. OneToOne(RelayKind)
  BY DEF OneToOne, RelayKind
<1>3. QED
  BY <1>1, <1>2

\* The decoders' tables agree with the encoders'.
LEMMA IntentsAgree ==
  \A intent \in DOMAIN BYTE_BY_INTENT :
    Lookup(INTENT_BY_BYTE, BYTE_BY_INTENT[intent]) = intent /\ intent # "undefined"
  BY DEF Lookup, INTENT_BY_BYTE, BYTE_BY_INTENT

LEMMA RolesAgree ==
  \A role \in DOMAIN BYTE_BY_ROLE :
    Lookup(ROLE_BY_BYTE, BYTE_BY_ROLE[role]) = role /\ role # "undefined"
  BY DEF Lookup, ROLE_BY_BYTE, BYTE_BY_ROLE

LEMMA ErrorsAgree ==
  \A code \in DOMAIN BYTE_BY_ERROR :
    Lookup(ERROR_BY_BYTE, BYTE_BY_ERROR[code]) = code /\ code # "undefined"
  BY DEF Lookup, ERROR_BY_BYTE, BYTE_BY_ERROR

LEMMA TypeNames ==
  \A type \in DOMAIN MsgType : NameOf(MsgType, MsgType[type]) = type
  BY NameOfByte, TablesAreOneToOne

LEMMA TypeBytes ==
  /\ DOMAIN MsgType = {"HELLO", "ACK", "PEER_JOINED", "HANDSHAKE", "RELAY", "PEER_DISCONNECTED", "PEER_LEFT",
                       "ERROR"}
  /\ MsgType.HELLO = 1 /\ MsgType.ACK = 2 /\ MsgType.PEER_JOINED = 3 /\ MsgType.HANDSHAKE = 4
  /\ MsgType.RELAY = 5 /\ MsgType.PEER_DISCONNECTED = 6 /\ MsgType.PEER_LEFT = 7 /\ MsgType.ERROR = 8
  /\ \A type \in DOMAIN MsgType : MsgType[type] \in Nat
  BY DEF MsgType

-----------------------------------------------------------------------------
(* Frames                                                                  *)

LEMMA TypedFrame ==
  ASSUME NEW n \in Nat, NEW type \in DOMAIN MsgType
  PROVE  LET b == Typed(n, type)
         IN /\ IsBuffer(b) /\ b.len = n
            /\ Read(b, 0, 1) = MsgType[type]
  BY FreshBuffer, WriteThenRead DEF Typed

\* A frame of two bytes.
LEMMA NamedFrame ==
  ASSUME NEW type \in DOMAIN MsgType, NEW byte
  PROVE  LET b == Write(Typed(2, type), 1, 1, byte)
         IN b.len = 2 /\ Read(b, 0, 1) = MsgType[type] /\ Read(b, 1, 1) = byte
<1> DEFINE t == Typed(2, type)
<1>1. IsBuffer(t) /\ t.len = 2 /\ Read(t, 0, 1) = MsgType[type]
  BY TypedFrame
<1> HIDE DEF t
<1>2. LET b == Write(t, 1, 1, byte)
      IN b.len = 2 /\ Read(b, 0, 1) = MsgType[type] /\ Read(b, 1, 1) = byte
  BY <1>1, WriteThenRead
<1>3. QED
  BY <1>2 DEF t

LEMMA AckIsRead ==
  ASSUME NEW role \in DOMAIN BYTE_BY_ROLE
  PROVE  Received(encodeAck(role)) = [type |-> "ACK", role |-> role]
<1> DEFINE b == encodeAck(role)
<1>1. b.len = 2 /\ Read(b, 0, 1) = MsgType.ACK /\ Read(b, 1, 1) = BYTE_BY_ROLE[role]
  BY NamedFrame, TypeBytes DEF encodeAck
<1>2. NameOf(MsgType, Read(b, 0, 1)) = "ACK"
  BY <1>1, TypeNames, TypeBytes
<1>3. Lookup(ROLE_BY_BYTE, Read(b, 1, 1)) = role /\ role # "undefined"
  BY <1>1, RolesAgree
<1>4. decodeAck(b) = [type |-> "ACK", role |-> role]
  BY <1>1, <1>3 DEF decodeAck
<1>5. decodeServerFrame(b) = decodeAck(b)
  BY <1>2 DEF decodeServerFrame
<1>6. QED
  BY <1>4, <1>5 DEF Received

LEMMA ErrorIsRead ==
  ASSUME NEW code \in DOMAIN BYTE_BY_ERROR
  PROVE  Received(encodeError(code)) = [type |-> "ERROR", code |-> code]
<1> DEFINE b == encodeError(code)
<1>1. b.len = 2 /\ Read(b, 0, 1) = MsgType.ERROR /\ Read(b, 1, 1) = BYTE_BY_ERROR[code]
  BY NamedFrame, TypeBytes DEF encodeError
<1>2. NameOf(MsgType, Read(b, 0, 1)) = "ERROR"
  BY <1>1, TypeNames, TypeBytes
<1>3. Lookup(ERROR_BY_BYTE, Read(b, 1, 1)) = code /\ code # "undefined"
  BY <1>1, ErrorsAgree
<1>4. decodeError(b) = [type |-> "ERROR", code |-> code]
  BY <1>1, <1>3 DEF decodeError
<1>5. decodeServerFrame(b) = decodeError(b)
  BY <1>2 DEF decodeServerFrame
<1>6. QED
  BY <1>4, <1>5 DEF Received

LEMMA PeerFramesAreRead ==
  /\ \A type \in {"PEER_JOINED", "PEER_LEFT"} : Received(Typed(1, type)) = [type |-> type]
  /\ Received(encodePeerDisconnected(GRACE_MS_HINT)) =
       [type |-> "PEER_DISCONNECTED", graceMs |-> GRACE_MS_HINT]
<1>1. ASSUME NEW type \in {"PEER_JOINED", "PEER_LEFT"}
      PROVE  Received(Typed(1, type)) = [type |-> type]
  <2> DEFINE b == Typed(1, type)
  <2>1. b.len = 1 /\ NameOf(MsgType, Read(b, 0, 1)) = type
    BY TypedFrame, TypeNames, TypeBytes
  <2>2. decodeServerFrame(b) = [type |-> type]
    BY <2>1 DEF decodeServerFrame
  <2>3. QED
    BY <2>2 DEF Received
<1>2. Received(encodePeerDisconnected(GRACE_MS_HINT)) =
        [type |-> "PEER_DISCONNECTED", graceMs |-> GRACE_MS_HINT]
  <2> DEFINE t == Typed(5, "PEER_DISCONNECTED")
             b == Write(t, 1, 4, GRACE_MS_HINT)
  <2>1. IsBuffer(t) /\ t.len = 5 /\ Read(t, 0, 1) = MsgType.PEER_DISCONNECTED
    BY TypedFrame, TypeBytes
  <2> HIDE DEF t
  <2>2. b.len = 5 /\ Read(b, 0, 1) = MsgType.PEER_DISCONNECTED /\ Read(b, 1, 4) = GRACE_MS_HINT
    BY <2>1, WriteThenRead
  <2>3. NameOf(MsgType, Read(b, 0, 1)) = "PEER_DISCONNECTED"
    BY <2>2, TypeNames, TypeBytes
  <2> HIDE DEF b
  <2>4. decodeServerFrame(b) = [type |-> "PEER_DISCONNECTED", graceMs |-> GRACE_MS_HINT]
    BY <2>2, <2>3 DEF decodeServerFrame, decodePeerDisconnected
  <2>5. Received(b) = [type |-> "PEER_DISCONNECTED", graceMs |-> GRACE_MS_HINT]
    BY <2>4 DEF Received
  <2>6. QED
    BY <2>5 DEF b, t, encodePeerDisconnected
<1>3. QED
  BY <1>1, <1>2

LEMMA HelloIsRead ==
  ASSUME NEW room, NEW intent \in DOMAIN BYTE_BY_INTENT
  PROVE  LET b == encodeHello(room, intent)
         IN /\ TypeByte(b) = MsgType.HELLO /\ b.len = 19
            /\ decodeHello(b) = [type |-> "HELLO", room |-> room, protocolVersion |-> 1, intent |-> intent]
<1> DEFINE t == Typed(HELLO_FRAME_LENGTH, "HELLO")
           named == Write(t, 1, 16, room)
           versioned == Write(named, 17, 1, 1)
           b == Write(versioned, 18, 1, BYTE_BY_INTENT[intent])
<1>1. HELLO_FRAME_LENGTH = 19 /\ ROOM_ID_LENGTH = 16
  BY DEF HELLO_FRAME_LENGTH, ROOM_ID_LENGTH
<1>2. IsBuffer(t) /\ t.len = 19 /\ Read(t, 0, 1) = MsgType.HELLO
  BY <1>1, TypedFrame, TypeBytes
<1> HIDE DEF t
<1>3. IsBuffer(named) /\ named.len = 19 /\ Read(named, 0, 1) = MsgType.HELLO /\ Read(named, 1, 16) = room
  BY <1>2, WriteThenRead
<1> HIDE DEF named
<1>4. /\ IsBuffer(versioned) /\ versioned.len = 19 /\ Read(versioned, 0, 1) = MsgType.HELLO
      /\ Read(versioned, 1, 16) = room /\ Read(versioned, 17, 1) = 1
  BY <1>3, WriteThenRead
<1> HIDE DEF versioned
<1>5. /\ b.len = 19 /\ Read(b, 0, 1) = MsgType.HELLO
      /\ Read(b, 1, 16) = room /\ Read(b, 17, 1) = 1 /\ Read(b, 18, 1) = BYTE_BY_INTENT[intent]
  BY <1>4, WriteThenRead
<1>6. b = encodeHello(room, intent)
  BY <1>1 DEF encodeHello, b, versioned, named, t
<1> HIDE DEF b
<1>7. Lookup(INTENT_BY_BYTE, Read(b, 18, 1)) = intent /\ intent # "undefined"
  BY <1>5, IntentsAgree
<1>8. decodeHello(b) = [type |-> "HELLO", room |-> room, protocolVersion |-> 1, intent |-> intent]
  BY <1>1, <1>5, <1>7 DEF decodeHello
<1>9. QED
  BY <1>5, <1>6, <1>8 DEF TypeByte

LEMMA HandshakeIsRead ==
  ASSUME NEW nonce, NEW ciphertext, ciphertext.len = 48
  PROVE  LET b == encodeHandshake(nonce, ciphertext)
         IN /\ TypeByte(b) = MsgType.HANDSHAKE /\ b.len = HANDSHAKE_FRAME_LENGTH
            /\ Received(b) = [type |-> "HANDSHAKE", nonce |-> nonce, ciphertext |-> ciphertext]
<1> DEFINE t == Typed(HANDSHAKE_FRAME_LENGTH, "HANDSHAKE")
           n == Write(t, 1, 12, nonce)
           b == Write(n, 13, 48, ciphertext)
<1>1. HANDSHAKE_FRAME_LENGTH = 61 /\ NONCE_LENGTH = 12 /\ PUBKEY_LENGTH + TAG_LENGTH = 48
  BY DEF HANDSHAKE_FRAME_LENGTH, NONCE_LENGTH, PUBKEY_LENGTH, TAG_LENGTH
<1>2. IsBuffer(t) /\ t.len = 61 /\ Read(t, 0, 1) = MsgType.HANDSHAKE
  BY <1>1, TypedFrame, TypeBytes
<1> HIDE DEF t
<1>3. IsBuffer(n) /\ n.len = 61 /\ Read(n, 0, 1) = MsgType.HANDSHAKE /\ Read(n, 1, 12) = nonce
  BY <1>2, WriteThenRead
<1> HIDE DEF n
<1>4. /\ b.len = 61 /\ Read(b, 0, 1) = MsgType.HANDSHAKE
      /\ Read(b, 1, 12) = nonce /\ Read(b, 13, 48) = ciphertext
  BY <1>3, WriteThenRead
<1>5. b = encodeHandshake(nonce, ciphertext)
  BY <1>1 DEF encodeHandshake, b, n, t
<1> HIDE DEF b
<1>6. NameOf(MsgType, Read(b, 0, 1)) = "HANDSHAKE"
  BY <1>4, TypeNames, TypeBytes
<1>7. decodeServerFrame(b) = decodeHandshake(b)
  BY <1>6 DEF decodeServerFrame
<1>8. decodeHandshake(b) = [type |-> "HANDSHAKE", nonce |-> nonce, ciphertext |-> ciphertext]
  BY <1>1, <1>4 DEF decodeHandshake
<1>9. QED
  BY <1>1, <1>4, <1>5, <1>7, <1>8 DEF Received, TypeByte

LEMMA SmallRemainder ==
  ASSUME NEW n \in Nat, n <= UINT16_MAX
  PROVE  n % (UINT16_MAX + 1) = n
  BY DEF UINT16_MAX

\* A RELAY frame arrives with its kind, its nonce and its ciphertext, as long as
\* the length of the ciphertext fits into its two bytes.
LEMMA RelayIsDecoded ==
  ASSUME NEW kind \in DOMAIN RelayKind, NEW nonce, NEW ciphertext,
         ciphertext.len \in Nat \ {0}, ciphertext.len <= UINT16_MAX
  PROVE  LET b == encodeRelay(RelayKind[kind], nonce, ciphertext)
         IN /\ TypeByte(b) = MsgType.RELAY /\ b.len = 16 + ciphertext.len
            /\ decodeServerFrame(b) =
                 [type |-> "RELAY", kind |-> RelayKind[kind], nonce |-> nonce, ciphertext |-> ciphertext]
<1> DEFINE m == ciphertext.len
           t == Typed(16 + m, "RELAY")
           kinded == Write(t, 1, 1, RelayKind[kind])
           head == Write(kinded, 2, 12, nonce)
           sized == Write(head, 14, 2, m)
           b == Write(sized, 16, m, ciphertext)
<1>1. RELAY_HEADER_LENGTH = 16 /\ NONCE_LENGTH = 12 /\ RELAY_CT_LEN_OFFSET = 14
  BY DEF RELAY_HEADER_LENGTH, NONCE_LENGTH, RELAY_CT_LEN_OFFSET
<1>2. m \in Nat \ {0} /\ m % (UINT16_MAX + 1) = m
  BY SmallRemainder
<1>3. b = encodeRelay(RelayKind[kind], nonce, ciphertext)
  BY <1>1, <1>2 DEF encodeRelay
<1> HIDE DEF m
<1>4. IsBuffer(t) /\ t.len = 16 + m /\ Read(t, 0, 1) = MsgType.RELAY
  BY <1>2, TypedFrame, TypeBytes
<1> HIDE DEF t
<1>5. /\ IsBuffer(kinded) /\ kinded.len = 16 + m /\ Read(kinded, 0, 1) = MsgType.RELAY
      /\ Read(kinded, 1, 1) = RelayKind[kind]
  BY <1>4, WriteThenRead
<1> HIDE DEF kinded
<1>6. /\ IsBuffer(head) /\ head.len = 16 + m /\ Read(head, 0, 1) = MsgType.RELAY
      /\ Read(head, 1, 1) = RelayKind[kind] /\ Read(head, 2, 12) = nonce
  BY <1>5, WriteThenRead
<1> HIDE DEF head
<1>7. /\ IsBuffer(sized) /\ sized.len = 16 + m /\ Read(sized, 0, 1) = MsgType.RELAY
      /\ Read(sized, 1, 1) = RelayKind[kind] /\ Read(sized, 2, 12) = nonce /\ Read(sized, 14, 2) = m
  BY <1>6, WriteThenRead
<1> HIDE DEF sized
<1>8. /\ b.len = 16 + m /\ Read(b, 0, 1) = MsgType.RELAY
      /\ Read(b, 1, 1) = RelayKind[kind] /\ Read(b, 2, 12) = nonce /\ Read(b, 14, 2) = m
      /\ Read(b, 16, m) = ciphertext
  BY <1>2, <1>7, WriteThenRead
<1> HIDE DEF b
<1>9. isRelayKind(RelayKind[kind])
  BY DEF isRelayKind, RelayKind
<1>10. decodeRelay(b) =
         [type |-> "RELAY", kind |-> RelayKind[kind], nonce |-> nonce, ciphertext |-> ciphertext]
  BY <1>1, <1>2, <1>8, <1>9 DEF decodeRelay
<1>11. NameOf(MsgType, Read(b, 0, 1)) = "RELAY"
  BY <1>8, TypeNames, TypeBytes
<1>12. decodeServerFrame(b) = decodeRelay(b)
  BY <1>11 DEF decodeServerFrame
<1>13. QED
  BY <1>3, <1>8, <1>10, <1>12 DEF TypeByte, m
\* What a RELAY frame of this kind says, if it decrypts.
Meant(kind, plaintext) ==
  CASE kind = "MSG"   -> decodeEnvelope(plaintext)
    [] kind = "CHUNK" -> parseChunkPlaintext(plaintext)
    [] OTHER -> IF plaintext.len = PayloadLength(kind) THEN [kind |-> kind] ELSE Malformed

\* The limits fit: a plaintext of up to MAX_PLAINTEXT_BYTES can be framed, passes
\* the relay, and is read by the handler of its kind.
LEMMA RelayIsRead ==
  ASSUME NEW kind \in DOMAIN RelayKind, NEW nonce, NEW plaintext,
         plaintext.len \in Nat, plaintext.len <= MAX_PLAINTEXT_BYTES
  PROVE  LET c == Encrypted(RelayKind[kind], nonce, plaintext)
             b == encodeRelay(RelayKind[kind], nonce, c)
         IN /\ ~RelayThrows(c)
            /\ Passes(b) /\ TypeByte(b) = MsgType.RELAY
            /\ Received(b) = Meant(kind, plaintext)
<1> DEFINE c == Encrypted(RelayKind[kind], nonce, plaintext)
           b == encodeRelay(RelayKind[kind], nonce, c)
           f == [type |-> "RELAY", kind |-> RelayKind[kind], nonce |-> nonce, ciphertext |-> c]
<1>1. /\ c.len = plaintext.len + 16 /\ c.nonce = nonce /\ c.kind = RelayKind[kind] /\ c.plaintext = plaintext
  BY DEF Encrypted, TAG_LENGTH
<1> HIDE DEF c
<1>2. ~RelayThrows(c) /\ c.len \in Nat \ {0} /\ c.len <= UINT16_MAX
  BY <1>1, LimitValues DEF RelayThrows
<1>3. TypeByte(b) = MsgType.RELAY /\ b.len = 16 + c.len /\ decodeServerFrame(b) = f
  BY <1>2, RelayIsDecoded
<1> HIDE DEF b
<1>4. Passes(b)
  <2>1. b.len \in Nat /\ 1 <= b.len /\ b.len <= MAX_WIRE_BYTES /\ MAX_WIRE_BYTES \in Nat
    BY <1>1, <1>3, LimitValues
  <2>2. QED
    BY <1>3, <2>1 DEF Passes
<1>5. NameOf(RelayKind, RelayKind[kind]) = kind
  BY NameOfByte, TablesAreOneToOne
<1>6. f.type = "RELAY" /\ f.kind = RelayKind[kind] /\ f.nonce = nonce /\ f.ciphertext = c
  OBVIOUS
<1> HIDE DEF f
<1>7. Understood(f) = Meant(kind, plaintext)
  BY <1>1, <1>5, <1>6 DEF Understood, Meant
<1>8. Received(b) = Meant(kind, plaintext)
  BY <1>3, <1>6, <1>7 DEF Received
<1>9. QED
  BY <1>2, <1>3, <1>4, <1>8 DEF b, c

-----------------------------------------------------------------------------
(* Envelopes                                                               *)

\* An envelope that its parser takes.
Valid(envelope) ==
  /\ envelope.kind \in DOMAIN PARSERS
  /\ DOMAIN envelope.fields = DOMAIN PARSERS[envelope.kind]
  /\ \A f \in DOMAIN envelope.fields : Accepts(PARSERS[envelope.kind][f], envelope.fields[f])

LEMMA EnvelopeIsRead ==
  ASSUME NEW envelope, Valid(envelope), JsonBytes(envelope) \in Nat, ~EncodeThrows(envelope)
  PROVE  LET b == encodeEnvelope(envelope)
         IN /\ b.len \in Nat /\ b.len <= MAX_PLAINTEXT_BYTES
            /\ decodeEnvelope(b) = envelope
<1> DEFINE n == JsonBytes(envelope)
           b == encodeEnvelope(envelope)
<1>1. n \in Nat /\ n <= MAX_PLAINTEXT_BYTES
  BY LimitValues DEF EncodeThrows
<1>2. b = Write(Buffer(n), 0, n, envelope)
  BY DEF encodeEnvelope
<1> HIDE DEF n, b
<1>3. b.len = n /\ Read(b, 0, n) = envelope
  BY <1>1, <1>2, FreshBuffer, WriteThenRead
<1>4. decodeEnvelope(b) = envelope
  BY <1>1, <1>3 DEF decodeEnvelope, Valid
<1>5. QED
  BY <1>1, <1>3, <1>4 DEF b

LEMMA TextBytes ==
  ASSUME NEW text \in Text
  PROVE  /\ utf8ByteLength(text) \in Nat /\ Escaped(text) \in Nat
         /\ text.control = 0 => Escaped(text) <= 2 * utf8ByteLength(text)
  BY DEF Text, utf8ByteLength, Escaped

LEMMA MsgIsValid ==
  ASSUME NEW body \in Text, utf8ByteLength(body) <= MAX_BODY_BYTES
  PROVE  Valid(Msg(body)) /\ JsonBytes(Msg(body)) = 55 + Escaped(body)
<1> DEFINE m == Msg(body)
<1>1. m.kind = "msg" /\ m.fields = [body |-> body, t |-> "iso"]
  BY DEF Msg
<1>2. "msg" \in DOMAIN PARSERS /\ PARSERS["msg"] = [body |-> "body", t |-> "string"]
  BY DEF PARSERS
<1>3. Accepts("body", body)
  BY DEF Accepts
<1>4. Accepts("string", "iso")
  BY DEF Accepts
<1>5. JsonOverhead["msg"] = 55
  BY DEF JsonOverhead
<1> HIDE DEF m
<1>6. Valid(m)
  BY <1>1, <1>2, <1>3, <1>4 DEF Valid
<1>7. JsonBytes(m) = 55 + Escaped(body)
  BY <1>1, <1>5 DEF JsonBytes
<1>8. QED
  BY <1>6, <1>7 DEF m
\* The parsers of the other kinds, and their overheads.
LEMMA Parsers ==
  /\ \A k \in {"resume", "resume_ack"} : PARSERS[k] = [_id |-> "id"]
  /\ PARSERS["file_offer"] = [tid |-> "tid", name |-> "name", size |-> "size"]
  /\ \A k \in {"file_accept", "file_complete_ack"} : PARSERS[k] = [tid |-> "tid"]
  /\ PARSERS["file_decline"] = [tid |-> "tid", reason |-> "decline"]
  /\ PARSERS["file_progress"] = [tid |-> "tid", received_bytes |-> "count"]
  /\ PARSERS["file_complete"] = [tid |-> "tid", sender_sha256 |-> "sha256"]
  /\ PARSERS["file_cancel"] = [tid |-> "tid", side |-> "side", reason |-> "cancel"]
  /\ DOMAIN PARSERS = {"msg", "resume", "resume_ack", "file_offer", "file_accept", "file_decline",
                       "file_progress", "file_complete", "file_complete_ack", "file_cancel"}
  BY DEF PARSERS

LEMMA Overheads ==
  \A k \in DOMAIN PARSERS : JsonOverhead[k] \in Nat /\ JsonOverhead[k] <= 132
  BY DEF PARSERS, JsonOverhead

LEMMA NamesFit ==
  ASSUME NEW n \in Names
  PROVE  n \in Text /\ utf8ByteLength(n) <= 256 /\ Escaped(n) <= 511
  BY DEF Names, OfPlain, Text, utf8ByteLength, Escaped

LEMMA FieldsAccepted ==
  /\ Accepts("tid", "hex") /\ Accepts("id", "hex") /\ Accepts("id", "zeros") /\ Accepts("sha256", "sha")
  /\ \A r \in DECLINE_REASONS : Accepts("decline", r)
  /\ \A r \in CANCEL_REASONS : Accepts("cancel", r)
  /\ \A r \in CANCEL_SIDES : Accepts("side", r)
  /\ \A n \in Names : Accepts("name", n)
  /\ \A n \in Nat : Accepts("count", n) /\ (n >= 1 => Accepts("size", n))
<1>1. \A n \in Names : Accepts("name", n)
  <2>1. \A n \in Names : utf8ByteLength(n) <= MAX_NAME_BYTES_WIRE
    BY NamesFit, TextBytes, LimitValues
  <2>2. QED
    BY <2>1 DEF Accepts
<1>2. QED
  BY <1>1 DEF Accepts

\* Every envelope that the two ends send is one that its parser takes, and fits.
LEMMA EnvelopesAreValid ==
  ASSUME file.size \in Nat, file.size >= 1, NEW envelope \in Envelopes
  PROVE  /\ Valid(envelope) /\ JsonBytes(envelope) \in Nat
         /\ envelope.kind # "msg" /\ ~EncodeThrows(envelope)
<1> DEFINE Small(e) == Valid(e) /\ e.kind \notin {"msg", "file_offer"}
           Offer(e) == Valid(e) /\ e.kind = "file_offer" /\ e.fields.name \in Names
<1>1. ASSUME NEW k \in {"resume", "resume_ack"}, NEW i \in {"hex", "zeros"}
      PROVE  Small([kind |-> k, fields |-> [_id |-> i]])
  BY Parsers, FieldsAccepted DEF Valid
<1>2. ASSUME NEW n \in Names
      PROVE  Offer([kind |-> "file_offer", fields |-> [tid |-> "hex", name |-> n, size |-> file.size]])
  BY Parsers, FieldsAccepted DEF Valid
<1>3. ASSUME NEW k \in {"file_accept", "file_complete_ack"}
      PROVE  Small([kind |-> k, fields |-> [tid |-> "hex"]])
  BY Parsers, FieldsAccepted DEF Valid
<1>4. ASSUME NEW r \in DECLINE_REASONS
      PROVE  Small([kind |-> "file_decline", fields |-> [tid |-> "hex", reason |-> r]])
  BY Parsers, FieldsAccepted DEF Valid
<1>5. ASSUME NEW n \in {0, file.size}
      PROVE  Small([kind |-> "file_progress", fields |-> [tid |-> "hex", received_bytes |-> n]])
  BY Parsers, FieldsAccepted DEF Valid
<1>6. Small([kind |-> "file_complete", fields |-> [tid |-> "hex", sender_sha256 |-> "sha"]])
  BY Parsers, FieldsAccepted DEF Valid
<1>7. ASSUME NEW w \in CANCEL_SIDES, NEW r \in CANCEL_REASONS
      PROVE  Small([kind |-> "file_cancel", fields |-> [tid |-> "hex", side |-> w, reason |-> r]])
  BY Parsers, FieldsAccepted DEF Valid
<1>8. Small(envelope) \/ Offer(envelope)
  <2> HIDE DEF Small, Offer
  <2>1. QED
    BY <1>1, <1>2, <1>3, <1>4, <1>5, <1>6, <1>7 DEF Envelopes
<1>9. JsonOverhead[envelope.kind] \in Nat /\ JsonOverhead[envelope.kind] <= 132
  BY <1>8, Overheads DEF Valid
<1>10. CASE Small(envelope)
  <2>1. JsonBytes(envelope) = JsonOverhead[envelope.kind]
    BY <1>9, <1>10 DEF JsonBytes
  <2>2. QED
    BY <1>9, <1>10, <2>1, LimitValues DEF EncodeThrows
<1>11. CASE Offer(envelope)
  <2>1. JsonBytes(envelope) = JsonOverhead[envelope.kind] + Escaped(envelope.fields.name)
    BY <1>11 DEF JsonBytes
  <2>2. Escaped(envelope.fields.name) \in Nat /\ Escaped(envelope.fields.name) <= 511
    BY <1>11, NamesFit, TextBytes
  <2>3. QED
    BY <1>9, <1>11, <2>1, <2>2, LimitValues DEF EncodeThrows
<1>12. QED
  BY <1>8, <1>10, <1>11
-----------------------------------------------------------------------------
(* Chunks and mode frames                                                  *)

LEMMA ChunkIsRead ==
  ASSUME NEW seq, NEW piece, piece.len \in Nat \ {0}, piece.len <= CHUNK_DATA_MAX_BYTES
  PROVE  LET b == buildChunkPlaintext(seq, piece)
         IN /\ b.len \in Nat /\ b.len <= MAX_PLAINTEXT_BYTES
            /\ parseChunkPlaintext(b) = [kind |-> "chunk", seq |-> seq, piece |-> piece]
<1> DEFINE n == piece.len
           fresh == Buffer(12 + n)
           tid == Write(fresh, 0, 8, 1)
           numbered == Write(tid, 8, 4, seq)
           b == Write(numbered, 12, n, piece)
<1>1. CHUNK_HEADER_BYTES = 12 /\ TID_BYTES = 8 /\ SEQ_BYTES = 4
  BY DEF CHUNK_HEADER_BYTES, TID_BYTES, SEQ_BYTES
<1>2. b = buildChunkPlaintext(seq, piece)
  BY <1>1 DEF buildChunkPlaintext
<1>3. n \in Nat \ {0} /\ 12 + n <= MAX_PLAINTEXT_BYTES
  BY LimitValues
<1> HIDE DEF n
<1>4. IsBuffer(fresh) /\ fresh.len = 12 + n
  BY FreshBuffer
<1> HIDE DEF fresh
<1>5. IsBuffer(tid) /\ tid.len = 12 + n
  BY <1>4, WriteKeepsLength
<1> HIDE DEF tid
<1>6. IsBuffer(numbered) /\ numbered.len = 12 + n /\ Read(numbered, 8, 4) = seq
  <2>1. Read(numbered, 8, 4) = seq
    BY <1>5, WriteThenRead
  <2>2. QED
    BY <1>5, <2>1, WriteKeepsLength
<1> HIDE DEF numbered
<1>7. b.len = 12 + n /\ Read(b, 8, 4) = seq /\ Read(b, 12, n) = piece
  BY <1>3, <1>6, WriteThenRead
<1> HIDE DEF b
<1>8. parseChunkPlaintext(b) = [kind |-> "chunk", seq |-> seq, piece |-> piece]
  BY <1>1, <1>3, <1>7 DEF parseChunkPlaintext
<1>9. QED
  BY <1>2, <1>3, <1>7, <1>8

LEMMA ModeIsRead ==
  ASSUME NEW kind \in {"MODE_UPGRADED", "REKEY_INIT", "REKEY_ACK", "REKEY_DONE"}
  PROVE  /\ kind \in DOMAIN RelayKind
         /\ ModePayload(kind).len \in Nat /\ ModePayload(kind).len <= MAX_PLAINTEXT_BYTES
         /\ Meant(kind, ModePayload(kind)) = [kind |-> kind]
<1>1. kind \in DOMAIN RelayKind
  BY DEF RelayKind
<1>2. ModePayload(kind).len = PayloadLength(kind)
  BY FreshBuffer DEF ModePayload
<1>3. PayloadLength(kind) \in Nat /\ PayloadLength(kind) <= MAX_PLAINTEXT_BYTES
  BY LimitValues DEF PayloadLength, PUBKEY_LENGTH
<1>4. QED
  BY <1>1, <1>2, <1>3 DEF Meant

-----------------------------------------------------------------------------
(* Frames in flight                                                        *)

IsChunk(f) == "kind" \in DOMAIN f.says /\ f.says.kind = "chunk"

\* A frame that passes the relay and is read back as what it was made from.
ReadBack(f) ==
  /\ Passes(f.buf)
  /\ TypeByte(f.buf) = MsgType.HELLO => decodeHello(f.buf) = f.says /\ ~IsChunk(f)
  /\ TypeByte(f.buf) # MsgType.HELLO => Received(f.buf) = f.says

\* The piece of a file of this size that the receiver expects under this number,
\* at the place that it will be written to.
Due(size, seq, piece) ==
  /\ seq \in Nat /\ seq < computeTotalChunks(size)
  /\ piece.from = seq * CHUNK_DATA_MAX_BYTES
  /\ piece.len = expectedChunkLen(size, seq)

ChunkDue(size, f) == IsChunk(f) => Due(size, f.says.seq, f.says.piece)

\* The chunks of a queue are numbered from first to next - 1 in order.
Numbered(q, first, next) ==
  \E pos \in [0..Len(q) -> Nat] :
    /\ pos[0] = first /\ pos[Len(q)] = next
    /\ \A i \in 1..Len(q) :
         IF IsChunk(q[i]) THEN q[i].says.seq = pos[i - 1] /\ pos[i] = pos[i - 1] + 1
         ELSE pos[i] = pos[i - 1]

\* A queue is a sequence of the frames that are in it.
Queue(q) == q \in Seq({q[i] : i \in 1..Len(q)})

LEMMA QueueFacts ==
  ASSUME NEW q, Queue(q)
  PROVE  /\ Len(q) \in Nat /\ DOMAIN q = 1..Len(q)
         /\ q # <<>> <=> Len(q) > 0
  BY DEF Queue

LEMMA SameElements ==
  ASSUME NEW S, NEW T, NEW q \in Seq(S), \A i \in 1..Len(q) : q[i] \in T
  PROVE  q \in Seq(T)
<1>1. Len(q) \in Nat /\ q \in [1..Len(q) -> T]
  OBVIOUS
<1>2. QED
  BY <1>1, SeqDef

LEMMA SequencesAreQueues ==
  ASSUME NEW S, NEW q \in Seq(S)
  PROVE  Queue(q)
<1> DEFINE T == {q[i] : i \in 1..Len(q)}
<1>1. \A i \in 1..Len(q) : q[i] \in T
  OBVIOUS
<1> HIDE DEF T
<1>2. q \in Seq(T)
  BY <1>1, SameElements
<1>3. QED
  BY <1>2 DEF Queue, T

LEMMA QueueConcat ==
  ASSUME NEW q, NEW r, Queue(q), Queue(r)
  PROVE  /\ Queue(q \o r) /\ Len(q \o r) = Len(q) + Len(r)
         /\ \A i \in 1..(Len(q) + Len(r)) : (q \o r)[i] = IF i <= Len(q) THEN q[i] ELSE r[i - Len(q)]
<1> DEFINE S == {q[i] : i \in 1..Len(q)} \cup {r[i] : i \in 1..Len(r)}
<1>1. q \in Seq(S) /\ r \in Seq(S)
  <2>1. \A i \in 1..Len(q) : q[i] \in S
    OBVIOUS
  <2>2. \A i \in 1..Len(r) : r[i] \in S
    OBVIOUS
  <2> HIDE DEF S
  <2>3. QED
    BY <2>1, <2>2, SameElements DEF Queue
<1> HIDE DEF S
<1>2. /\ q \o r \in Seq(S) /\ Len(q \o r) = Len(q) + Len(r)
      /\ \A i \in 1..(Len(q) + Len(r)) : (q \o r)[i] = IF i <= Len(q) THEN q[i] ELSE r[i - Len(q)]
  BY <1>1
<1>3. Queue(q \o r)
  BY <1>2, SequencesAreQueues
<1>4. QED
  BY <1>2, <1>3

LEMMA QueueAppend ==
  ASSUME NEW q, NEW f, Queue(q)
  PROVE  /\ Queue(<<f>>) /\ Append(q, f) = q \o <<f>>
<1> DEFINE S == {q[i] : i \in 1..Len(q)} \cup {f}
<1>1. q \in Seq(S) /\ f \in S
  <2>1. \A i \in 1..Len(q) : q[i] \in S
    OBVIOUS
  <2> HIDE DEF S
  <2>2. QED
    BY <2>1, SameElements DEF Queue, S
<1>2. Append(q, f) = q \o <<f>>
  <2> HIDE DEF S
  <2>1. QED
    BY <1>1
<1>3. Queue(<<f>>)
  BY DEF Queue
<1>4. QED
  BY <1>2, <1>3

LEMMA QueueTail ==
  ASSUME NEW q, Queue(q), q # <<>>
  PROVE  /\ Queue(Tail(q)) /\ Len(Tail(q)) = Len(q) - 1 /\ Head(q) = q[1]
         /\ \A i \in 1..(Len(q) - 1) : Tail(q)[i] = q[i + 1]
<1> DEFINE S == {q[i] : i \in 1..Len(q)}
<1>1. q \in Seq(S)
  BY DEF Queue
<1> HIDE DEF S
<1>2. /\ Tail(q) \in Seq(S) /\ Len(Tail(q)) = Len(q) - 1 /\ Head(q) = q[1]
      /\ \A i \in 1..(Len(q) - 1) : Tail(q)[i] = q[i + 1]
  BY <1>1
<1>3. Queue(Tail(q))
  BY <1>2, SequencesAreQueues
<1>4. QED
  BY <1>2, <1>3
\* How the positions of a queue go with its chunks.
Positions(q, pos) ==
  \A i \in 1..Len(q) :
    IF IsChunk(q[i]) THEN q[i].says.seq = pos[i - 1] /\ pos[i] = pos[i - 1] + 1 ELSE pos[i] = pos[i - 1]

LEMMA NumberedNone ==
  /\ \A a \in Nat : Numbered(<<>>, a, a)
  /\ \A a, b : Numbered(<<>>, a, b) => a = b
<1>1. ASSUME NEW a \in Nat PROVE Numbered(<<>>, a, a)
  <2> DEFINE pos == [i \in 0..0 |-> a]
  <2>1. pos \in [0..Len(<<>>) -> Nat] /\ pos[0] = a /\ pos[Len(<<>>)] = a
    OBVIOUS
  <2> HIDE DEF pos
  <2>2. QED
    BY <2>1 DEF Numbered
<1>2. QED
  BY <1>1 DEF Numbered

LEMMA NumberedOne ==
  ASSUME NEW f, NEW a \in Nat
  PROVE  /\ ~IsChunk(f) => Numbered(<<f>>, a, a)
         /\ IsChunk(f) /\ f.says.seq = a => Numbered(<<f>>, a, a + 1)
<1> DEFINE q == <<f>>
           b == IF IsChunk(f) THEN a + 1 ELSE a
           pos == [i \in 0..1 |-> IF i = 0 THEN a ELSE b]
<1>1. Len(q) = 1 /\ q[1] = f
  OBVIOUS
<1>2. b \in Nat
  OBVIOUS
<1>3. pos \in [0..1 -> Nat] /\ pos[0] = a /\ pos[1] = b
  BY <1>2
<1> HIDE DEF q, pos
<1>4. ASSUME IsChunk(f) => f.says.seq = a
      PROVE  Numbered(q, a, b)
  <2>1. Positions(q, pos)
    BY <1>1, <1>3, <1>4 DEF Positions
  <2> HIDE DEF b
  <2>2. QED
    BY <1>1, <1>3, <2>1 DEF Numbered, Positions
<1>5. QED
  BY <1>4 DEF q

LEMMA NumberedRow ==
  ASSUME NEW q, Queue(q), NEW a \in Nat,
         \A i \in 1..Len(q) : IsChunk(q[i]) /\ q[i].says.seq = a + i - 1
  PROVE  Numbered(q, a, a + Len(q))
<1> DEFINE pos == [i \in 0..Len(q) |-> a + i]
<1>1. Len(q) \in Nat
  BY QueueFacts
<1>2. pos \in [0..Len(q) -> Nat] /\ pos[0] = a /\ pos[Len(q)] = a + Len(q)
  BY <1>1
<1>3. \A i \in 1..Len(q) : pos[i] = a + i /\ pos[i - 1] = a + i - 1
  BY <1>1
<1> HIDE DEF pos
<1>4. Positions(q, pos)
  BY <1>3, <1>1 DEF Positions
<1>5. QED
  BY <1>2, <1>4 DEF Numbered, Positions

LEMMA NumberedConcat ==
  ASSUME NEW q, NEW r, Queue(q), Queue(r), NEW a, NEW b, NEW c, Numbered(q, a, b), Numbered(r, b, c)
  PROVE  Numbered(q \o r, a, c)
<1>1. PICK p \in [0..Len(q) -> Nat] : p[0] = a /\ p[Len(q)] = b /\ Positions(q, p)
  BY DEF Numbered, Positions
<1>2. PICK s \in [0..Len(r) -> Nat] : s[0] = b /\ s[Len(r)] = c /\ Positions(r, s)
  BY DEF Numbered, Positions
<1> DEFINE m == Len(q)
           n == Len(r)
           pos == [i \in 0..(m + n) |-> IF i <= m THEN p[i] ELSE s[i - m]]
<1>3. m \in Nat /\ n \in Nat
  BY QueueFacts
<1>4. /\ Len(q \o r) = m + n
      /\ \A i \in 1..(m + n) : (q \o r)[i] = IF i <= m THEN q[i] ELSE r[i - m]
  BY QueueConcat
<1> HIDE DEF m, n
<1>5. pos \in [0..(m + n) -> Nat] /\ pos[0] = a /\ pos[m + n] = c
  <2>1. \A i \in 0..(m + n) : IF i <= m THEN i \in 0..m ELSE i - m \in 0..n
    BY <1>3
  <2>2. p \in [0..m -> Nat] /\ s \in [0..n -> Nat]
    BY DEF m, n
  <2>3. pos \in [0..(m + n) -> Nat]
    BY <2>1, <2>2
  <2>4. pos[0] = a
    BY <1>1, <1>3
  <2>5. pos[m + n] = IF m + n <= m THEN p[m + n] ELSE s[m + n - m]
    BY <1>3
  <2>6. p[m] = s[0] /\ s[n] = c
    BY <1>1, <1>2 DEF m, n
  <2> HIDE DEF pos
  <2>7. pos[m + n] = c
    <3>1. CASE n = 0
      BY <2>5, <2>6, <3>1, <1>3
    <3>2. CASE n # 0
      BY <2>5, <2>6, <3>2, <1>3
    <3>3. QED
      BY <3>1, <3>2
  <2>8. QED
    BY <2>3, <2>4, <2>7
<1>6. \A i \in 0..(m + n) : pos[i] = IF i <= m THEN p[i] ELSE s[i - m]
  OBVIOUS
<1> HIDE DEF pos
<1>7. ASSUME NEW i \in 1..(m + n)
      PROVE  IF IsChunk((q \o r)[i]) THEN (q \o r)[i].says.seq = pos[i - 1] /\ pos[i] = pos[i - 1] + 1
             ELSE pos[i] = pos[i - 1]
  <2>1. CASE i <= m
    <3>1. (q \o r)[i] = q[i] /\ pos[i] = p[i] /\ pos[i - 1] = p[i - 1] /\ i \in 1..m
      BY <1>3, <1>4, <1>6, <2>1
    <3>2. QED
      BY <3>1, <1>1 DEF Positions, m
  <2>2. CASE i > m
    <3>1. (q \o r)[i] = r[i - m] /\ pos[i] = s[i - m] /\ i - m \in 1..n
      BY <1>3, <1>4, <1>6, <2>2
    <3>2. pos[i - 1] = s[i - m - 1]
      <4>1. CASE i = m + 1
        <5>1. pos[m] = p[m] /\ p[m] = s[0]
          BY <1>1, <1>2, <1>3, <1>6 DEF m
        <5>2. i - 1 = m /\ i - m - 1 = 0
          BY <4>1, <1>3
        <5>3. QED
          BY <5>1, <5>2
      <4>2. CASE i # m + 1
        BY <4>2, <2>2, <1>3, <1>6
      <4>3. QED
        BY <4>1, <4>2
    <3>3. QED
      BY <3>1, <3>2, <1>2 DEF Positions, n
  <2>3. i <= m \/ i > m
    BY <1>3
  <2>4. QED
    BY <2>1, <2>2, <2>3
<1>8. Positions(q \o r, pos)
  BY <1>4, <1>7 DEF Positions
<1>9. QED
  BY <1>4, <1>5, <1>8 DEF Numbered, Positions

LEMMA NumberedTail ==
  ASSUME NEW q, Queue(q), q # <<>>, NEW a \in Nat, NEW b, Numbered(q, a, b)
  PROVE  IF IsChunk(Head(q)) THEN Head(q).says.seq = a /\ Numbered(Tail(q), a + 1, b)
         ELSE Numbered(Tail(q), a, b)
<1>1. PICK p \in [0..Len(q) -> Nat] : p[0] = a /\ p[Len(q)] = b /\ Positions(q, p)
  BY DEF Numbered, Positions
<1> DEFINE n == Len(q) - 1
           t == Tail(q)
           pos == [i \in 0..n |-> p[i + 1]]
<1>2. Len(q) \in Nat /\ Len(q) > 0 /\ n \in Nat
  BY QueueFacts
<1>3. Len(t) = n /\ Head(q) = q[1] /\ \A i \in 1..n : t[i] = q[i + 1]
  BY QueueTail
<1> HIDE DEF t
<1>4. pos \in [0..n -> Nat] /\ pos[0] = p[1] /\ pos[n] = b
  BY <1>1, <1>2
<1>5. \A i \in 0..n : pos[i] = p[i + 1]
  OBVIOUS
<1> HIDE DEF pos
<1>6. Positions(t, pos)
  <2> SUFFICES ASSUME NEW i \in 1..n
               PROVE  IF IsChunk(t[i]) THEN t[i].says.seq = pos[i - 1] /\ pos[i] = pos[i - 1] + 1
                      ELSE pos[i] = pos[i - 1]
    BY <1>3 DEF Positions
  <2>1. t[i] = q[i + 1] /\ pos[i] = p[i + 1] /\ pos[i - 1] = p[i] /\ i + 1 \in 1..Len(q) /\ (i + 1) - 1 = i
    BY <1>2, <1>3, <1>5
  <2>2. QED
    BY <2>1, <1>1 DEF Positions
<1>7. Numbered(t, p[1], b)
  BY <1>3, <1>4, <1>6 DEF Numbered, Positions
<1>8. IF IsChunk(q[1]) THEN q[1].says.seq = a /\ p[1] = a + 1 ELSE p[1] = a
  <2>1. 1 \in 1..Len(q) /\ 1 - 1 = 0
    BY <1>2
  <2>2. QED
    BY <1>1, <2>1 DEF Positions
<1>9. QED
  BY <1>3, <1>7, <1>8 DEF t
-----------------------------------------------------------------------------
(* Cutting a file                                                          *)

LEMMA ChunksCoverFile ==
  ASSUME NEW size \in Nat, size >= 1
  PROVE  LET total == computeTotalChunks(size)
         IN total \in Nat /\ total * 8692 >= size /\ (total - 1) * 8692 < size
  BY DEF computeTotalChunks, CHUNK_DATA_MAX_BYTES

LEMMA DueLength ==
  ASSUME NEW size \in Nat, size >= 1, NEW seq, NEW piece, Due(size, seq, piece)
  PROVE  piece.len \in Nat \ {0} /\ piece.len <= CHUNK_DATA_MAX_BYTES
<1> DEFINE total == computeTotalChunks(size)
<1>1. total \in Nat /\ total * 8692 >= size /\ (total - 1) * 8692 < size
  BY ChunksCoverFile
<1>2. seq \in Nat /\ seq < total /\ piece.len = expectedChunkLen(size, seq)
  BY DEF Due
<1> HIDE DEF total
<1>3. expectedChunkLen(size, seq) = IF seq + 1 < total THEN 8692 ELSE size - 8692 * (total - 1)
  BY DEF expectedChunkLen, CHUNK_DATA_MAX_BYTES, total
<1>4. QED
  BY <1>1, <1>2, <1>3, LimitValues

\* A whole piece of a file, cut at a multiple of its length, is due.
LEMMA WholePieceDue ==
  ASSUME NEW size \in Nat, size >= 1, NEW seq \in Nat, (seq + 1) * 8692 <= size
  PROVE  Due(size, seq, [from |-> seq * CHUNK_DATA_MAX_BYTES, len |-> CHUNK_DATA_MAX_BYTES])
<1> DEFINE total == computeTotalChunks(size)
<1>1. total \in Nat /\ total * 8692 >= size /\ (total - 1) * 8692 < size
  BY ChunksCoverFile
<1>2. expectedChunkLen(size, seq) = IF seq + 1 < total THEN 8692 ELSE size - 8692 * (total - 1)
  BY DEF expectedChunkLen, CHUNK_DATA_MAX_BYTES
<1> HIDE DEF total
<1>3. seq < total
  BY <1>1
<1>4. expectedChunkLen(size, seq) = 8692
  BY <1>1, <1>2
<1>5. QED
  BY <1>3, <1>4, LimitValues DEF Due, total

\* So is what is left of it after the last whole piece.
LEMMA LastPieceDue ==
  ASSUME NEW size \in Nat, size >= 1, NEW seq \in Nat, NEW rest \in Nat, rest >= 1, rest < 8692,
         size = seq * 8692 + rest
  PROVE  /\ Due(size, seq, [from |-> seq * CHUNK_DATA_MAX_BYTES, len |-> rest])
         /\ computeTotalChunks(size) = seq + 1
<1> DEFINE total == computeTotalChunks(size)
<1>1. total \in Nat /\ total * 8692 >= size /\ (total - 1) * 8692 < size
  BY ChunksCoverFile
<1>2. expectedChunkLen(size, seq) = IF seq + 1 < total THEN 8692 ELSE size - 8692 * (total - 1)
  BY DEF expectedChunkLen, CHUNK_DATA_MAX_BYTES
<1> HIDE DEF total
<1>3. total = seq + 1
  BY <1>1
<1>4. expectedChunkLen(size, seq) = rest
  BY <1>2, <1>3
<1>5. QED
  BY <1>3, <1>4, LimitValues DEF Due, total

\* Bytes that were read and not cut are less than a chunk, and at the end of the
\* stream there are none left.
FileInv ==
  /\ file \in [size : Nat, read : Nat, tail : Nat, seq : Nat, eof : BOOLEAN]
  /\ file.size >= 1 /\ file.read <= file.size /\ file.tail < 8692
  /\ ~file.eof => file.read = file.seq * 8692 + file.tail
  /\ file.eof => file.read = file.size /\ file.seq = computeTotalChunks(file.size)

LEMMA PiecesAre ==
  ASSUME NEW from, NEW count \in Nat
  PROVE  LET q == Pieces(from, count)
         IN /\ Queue(q) /\ Len(q) = count
            /\ \A i \in 1..count : q[i] = [from |-> from + (i - 1) * CHUNK_DATA_MAX_BYTES,
                                           len |-> CHUNK_DATA_MAX_BYTES]
<1> DEFINE q == Pieces(from, count)
           S == {[from |-> from + (i - 1) * CHUNK_DATA_MAX_BYTES, len |-> CHUNK_DATA_MAX_BYTES] : i \in 1..count}
<1>1. q \in [1..count -> S]
  BY DEF Pieces
<1>2. \A i \in 1..count : q[i] = [from |-> from + (i - 1) * CHUNK_DATA_MAX_BYTES, len |-> CHUNK_DATA_MAX_BYTES]
  BY DEF Pieces
<1> HIDE DEF q, S
<1>3. q \in Seq(S)
  BY <1>1, SeqDef
<1>4. Len(q) = count
  BY <1>1, <1>3
<1>5. QED
  BY <1>2, <1>3, <1>4, SequencesAreQueues DEF q

LEMMA Places ==
  ASSUME NEW s \in Nat, NEW t \in Nat, NEW r \in Nat, r = s * 8692 + t
  PROVE  /\ \A i \in Nat : r - t + (i - 1) * 8692 = (s + i - 1) * 8692
         /\ \A n, c, e \in Nat : t + n = 8692 * c + e => r + n = (s + c) * 8692 + e
  OBVIOUS

LEMMA Division ==
  ASSUME NEW n \in Nat
  PROVE  /\ n \div 8692 \in Nat /\ n % 8692 \in Nat /\ n % 8692 < 8692
         /\ n = 8692 * (n \div 8692) + (n % 8692)
  OBVIOUS

\* What one turn of the pipeline cuts is due, and the file stays described.
LEMMA CutIsDue ==
  ASSUME FileInv, ~file.eof, NEW n \in Nat, file.read + n <= file.size, NEW isEof \in BOOLEAN,
         isEof => n = 0 /\ file.read = file.size
  PROVE  LET cut == consumeIntoChunks(n, isEof)
             next == file.seq + Len(cut.pieces)
         IN /\ Queue(cut.pieces)
            /\ \A i \in 1..Len(cut.pieces) : Due(file.size, file.seq + i - 1, cut.pieces[i])
            /\ cut.tail \in Nat /\ cut.tail < 8692
            /\ isEof => next = computeTotalChunks(file.size)
            /\ ~isEof => file.read + n = next * 8692 + cut.tail
<1> DEFINE combined == file.tail + n
           count == combined \div 8692
           rest == combined % 8692
           last == [from |-> file.read + n - rest, len |-> rest]
           whole == Pieces(file.read - file.tail, count)
           end == IF isEof /\ rest > 0 THEN <<last>> ELSE <<>>
           cut == consumeIntoChunks(n, isEof)
<1>1. cut = [pieces |-> whole \o end, tail |-> IF isEof THEN 0 ELSE rest]
  BY DEF consumeIntoChunks, CHUNK_DATA_MAX_BYTES
<1>2. /\ file.size \in Nat /\ file.size >= 1 /\ file.read \in Nat /\ file.tail \in Nat /\ file.seq \in Nat
      /\ file.read = file.seq * 8692 + file.tail /\ file.tail < 8692
  BY DEF FileInv
<1>3. count \in Nat /\ rest \in Nat /\ rest < 8692 /\ combined = 8692 * count + rest
  BY <1>2, Division
<1> HIDE DEF cut, count, rest
<1>4. /\ Queue(whole) /\ Len(whole) = count
      /\ \A i \in 1..count : whole[i] = [from |-> file.read - file.tail + (i - 1) * CHUNK_DATA_MAX_BYTES,
                                         len |-> CHUNK_DATA_MAX_BYTES]
  BY <1>3, PiecesAre
<1> HIDE DEF whole
<1>5. \A i \in 1..count : Due(file.size, file.seq + i - 1, whole[i])
  <2> SUFFICES ASSUME NEW i \in 1..count PROVE Due(file.size, file.seq + i - 1, whole[i])
    OBVIOUS
  <2> DEFINE k == file.seq + i - 1
  <2>1. i \in Nat /\ i >= 1 /\ i <= count /\ k \in Nat
    BY <1>2, <1>3
  <2>2. (k + 1) * 8692 <= file.size
    BY <2>1, <1>2, <1>3
  <2>3. file.read - file.tail + (i - 1) * CHUNK_DATA_MAX_BYTES = k * CHUNK_DATA_MAX_BYTES
    BY <2>1, <1>2, Places DEF CHUNK_DATA_MAX_BYTES
  <2>4. whole[i] = [from |-> k * CHUNK_DATA_MAX_BYTES, len |-> CHUNK_DATA_MAX_BYTES]
    BY <1>4, <2>3
  <2> HIDE DEF k
  <2>5. Due(file.size, k, whole[i])
    BY <1>2, <2>1, <2>2, <2>4, WholePieceDue
  <2>6. QED
    BY <2>5 DEF k
<1>6. CASE isEof /\ rest > 0
  <2>1. count = 0 /\ rest = file.tail /\ file.size = file.seq * 8692 + rest
    BY <1>2, <1>3, <1>6
  <2>2. last = [from |-> file.seq * CHUNK_DATA_MAX_BYTES, len |-> rest]
    BY <2>1, <1>2, <1>6, LimitValues
  <2>3. Due(file.size, file.seq, last) /\ computeTotalChunks(file.size) = file.seq + 1
    BY <1>2, <1>3, <1>6, <2>1, <2>2, LastPieceDue
  <2> HIDE DEF last
  <2>4. Queue(<<last>>) /\ Len(<<last>>) = 1 /\ end = <<last>>
    BY <1>4, <1>6, QueueAppend
  <2>5. Queue(cut.pieces) /\ Len(cut.pieces) = 1 /\ cut.pieces[1] = last /\ cut.tail = 0
    BY <1>1, <1>4, <1>6, <2>1, <2>4, QueueConcat
  <2>6. \A i \in 1..Len(cut.pieces) : Due(file.size, file.seq + i - 1, cut.pieces[i])
    <3>1. \A i \in 1..1 : i = 1 /\ file.seq + i - 1 = file.seq
      BY <1>2
    <3>2. QED
      BY <3>1, <2>3, <2>5
  <2>7. /\ file.seq + Len(cut.pieces) = computeTotalChunks(file.size) /\ Queue(cut.pieces)
        /\ cut.tail \in Nat /\ cut.tail < 8692 /\ isEof
    BY <1>6, <2>3, <2>5
  <2>8. /\ isEof => file.seq + Len(cut.pieces) = computeTotalChunks(file.size)
        /\ ~isEof => file.read + n = (file.seq + Len(cut.pieces)) * 8692 + cut.tail
    BY <2>7
  <2>9. /\ Queue(cut.pieces)
        /\ \A i \in 1..Len(cut.pieces) : Due(file.size, file.seq + i - 1, cut.pieces[i])
        /\ cut.tail \in Nat /\ cut.tail < 8692
        /\ isEof => file.seq + Len(cut.pieces) = computeTotalChunks(file.size)
        /\ ~isEof => file.read + n = (file.seq + Len(cut.pieces)) * 8692 + cut.tail
    BY <2>6, <2>7, <2>8
  <2>10. QED
    BY <2>9 DEF cut
<1>7. CASE ~(isEof /\ rest > 0)
  <2>1. end = <<>> /\ Queue(<<>>)
    BY <1>7 DEF Queue
  <2>2. cut.pieces = whole
    BY <1>1, <1>4, <2>1 DEF Queue
  <2>3. cut.tail \in Nat /\ cut.tail < 8692 /\ cut.tail = IF isEof THEN 0 ELSE rest
    BY <1>1, <1>3
  <2>4. ~isEof => file.read + n = (file.seq + count) * 8692 + rest
    BY <1>2, <1>3, Places
  <2>5. isEof => file.seq + count = computeTotalChunks(file.size)
    <3> SUFFICES ASSUME isEof PROVE file.seq + count = computeTotalChunks(file.size)
      OBVIOUS
    <3>1. rest = 0 /\ count = 0 /\ file.size = file.seq * 8692
      BY <1>2, <1>3, <1>7
    <3>2. QED
      BY <3>1, <1>2 DEF computeTotalChunks, CHUNK_DATA_MAX_BYTES
  <2>6. QED
    BY <1>4, <1>5, <2>2, <2>3, <2>4, <2>5 DEF cut
<1>8. QED
  BY <1>6, <1>7
-----------------------------------------------------------------------------
(* The invariant                                                           *)

StoredInv ==
  /\ stored = [next |-> stored.next, pieces |-> stored.pieces, failed |-> FALSE] /\ stored.next \in Nat
  /\ \A p \in stored.pieces : p.at = p.piece.from

UpInv == Queue(up) /\ \A i \in 1..Len(up) : ReadBack(up[i]) /\ ChunkDue(file.size, up[i])

DownInv ==
  Queue(down) /\ \A i \in 1..Len(down) : Received(down[i].buf) = down[i].says /\ ChunkDue(file.size, down[i])

\* The chunks on their way continue what is stored, up to what was cut.
Consecutive == \E m \in Nat : Numbered(down, stored.next, m) /\ Numbered(up, m, file.seq)

WireInv == ~ended /\ FileInv /\ StoredInv /\ UpInv /\ DownInv /\ Consecutive /\ LostToEscapes

\* Frames that may be sent: read back, chunks that are due and numbered on.
Sendable(frames, size, first, next) ==
  /\ Queue(frames)
  /\ \A i \in 1..Len(frames) : ReadBack(frames[i]) /\ ChunkDue(size, frames[i])
  /\ Numbered(frames, first, next)

LEMMA SendKeepsInv ==
  ASSUME WireInv, NEW frames, Sendable(frames, file.size, file.seq, file'.seq), up' = up \o frames,
         FileInv', file'.size = file.size, LostToEscapes', UNCHANGED <<down, stored, ended>>
  PROVE  WireInv'
<1>1. UpInv'
  <2>1. /\ Queue(up') /\ Len(up') = Len(up) + Len(frames)
        /\ \A i \in 1..(Len(up) + Len(frames)) : up'[i] = IF i <= Len(up) THEN up[i] ELSE frames[i - Len(up)]
    BY QueueConcat DEF WireInv, UpInv, Sendable
  <2>2. Len(up) \in Nat /\ Len(frames) \in Nat
    BY QueueFacts DEF WireInv, UpInv, Sendable
  <2>3. ASSUME NEW i \in 1..Len(up') PROVE ReadBack(up'[i]) /\ ChunkDue(file.size, up'[i])
    <3>1. CASE i <= Len(up)
      <4>1. i \in 1..Len(up) /\ up'[i] = up[i]
        BY <2>1, <2>2, <3>1
      <4>2. QED
        BY <4>1 DEF WireInv, UpInv
    <3>2. CASE ~(i <= Len(up))
      <4>1. i - Len(up) \in 1..Len(frames) /\ up'[i] = frames[i - Len(up)]
        BY <2>1, <2>2, <3>2
      <4>2. QED
        BY <4>1 DEF Sendable
    <3>3. QED
      BY <3>1, <3>2
  <2>4. QED
    BY <2>1, <2>3 DEF UpInv, ReadBack, Passes, ChunkDue
<1>2. DownInv'
  BY DEF WireInv, DownInv
<1>3. Consecutive'
  <2>1. PICK m \in Nat : Numbered(down, stored.next, m) /\ Numbered(up, m, file.seq)
    BY DEF WireInv, Consecutive
  <2>2. Numbered(up', m, file'.seq)
    BY <2>1, NumberedConcat DEF WireInv, UpInv, Sendable
  <2>3. QED
    BY <2>1, <2>2 DEF Consecutive
<1>4. QED
  BY <1>1, <1>2, <1>3 DEF WireInv, StoredInv

LEMMA OneFrameSendable ==
  ASSUME NEW f, ReadBack(f), ~IsChunk(f), NEW size, NEW a \in Nat
  PROVE  Sendable(<<f>>, size, a, a)
<1>1. Queue(<<f>>) /\ Len(<<f>>) = 1
  BY DEF Queue
<1>2. \A i \in 1..1 : <<f>>[i] = f
  OBVIOUS
<1>3. QED
  BY <1>1, <1>2, NumberedOne DEF Sendable, ChunkDue

\* runRelaySendTask sends frames that are read back, if its plaintexts fit and
\* mean what they say.
LEMMA RelaySends ==
  ASSUME NEW kind \in DOMAIN RelayKind, NEW plaintexts, NEW says, NEW n \in Nat, DOMAIN plaintexts = 1..n,
         \A i \in 1..n : /\ plaintexts[i].len \in Nat /\ plaintexts[i].len <= MAX_PLAINTEXT_BYTES
                         /\ Meant(kind, plaintexts[i]) = says[i],
         RelaySend(kind, plaintexts, says)
  PROVE  /\ ended' = ended
         /\ \E frames : /\ up' = up \o frames /\ Queue(frames) /\ Len(frames) = n
                        /\ \A i \in 1..n : ReadBack(frames[i]) /\ frames[i].says = says[i]
<1> DEFINE ciphertext(i) == Encrypted(RelayKind[kind], inputs, plaintexts[i])
           buf(i) == encodeRelay(RelayKind[kind], inputs, ciphertext(i))
           frames == [i \in 1..n |-> Sent(buf(i), says[i])]
<1>1. ASSUME NEW i \in 1..n
      PROVE  /\ ~RelayThrows(ciphertext(i))
             /\ Passes(buf(i)) /\ TypeByte(buf(i)) = MsgType.RELAY /\ Received(buf(i)) = says[i]
  BY RelayIsRead
<1>2. ended' = ended /\ up' = up \o frames
  BY <1>1 DEF RelaySend
<1>3. ASSUME NEW i \in 1..n PROVE frames[i].buf = buf(i) /\ frames[i].says = says[i]
  BY DEF Sent
<1> HIDE DEF buf
<1>4. Queue(frames) /\ Len(frames) = n
  <2> DEFINE S == {Sent(buf(i), says[i]) : i \in 1..n}
  <2>1. frames \in [1..n -> S]
    OBVIOUS
  <2> HIDE DEF frames, S
  <2>2. frames \in Seq(S)
    BY <2>1, SeqDef
  <2>3. QED
    BY <2>1, <2>2, SequencesAreQueues
<1> HIDE DEF frames
<1>5. ASSUME NEW i \in 1..n PROVE ReadBack(frames[i]) /\ frames[i].says = says[i]
  <2>1. frames[i].buf = buf(i) /\ frames[i].says = says[i]
    BY <1>3
  <2>2. MsgType.RELAY # MsgType.HELLO
    BY TypeBytes
  <2>3. QED
    BY <1>1, <2>1, <2>2 DEF ReadBack
<1>6. QED
  BY <1>2, <1>4, <1>5
\* One frame of a kind that is no chunk.
LEMMA RelaySendsOne ==
  ASSUME WireInv, NEW kind \in DOMAIN RelayKind, NEW plaintext, NEW says,
         plaintext.len \in Nat, plaintext.len <= MAX_PLAINTEXT_BYTES, Meant(kind, plaintext) = says,
         ~("kind" \in DOMAIN says /\ says.kind = "chunk"),
         RelaySend(kind, <<plaintext>>, <<says>>), UNCHANGED <<down, file, stored>>, LostToEscapes'
  PROVE  WireInv'
<1> DEFINE n == 1
           plaintexts == <<plaintext>>
           contents == <<says>>
<1>1. /\ n \in Nat /\ DOMAIN plaintexts = 1..n /\ RelaySend(kind, plaintexts, contents)
      /\ \A i \in 1..n : plaintexts[i] = plaintext /\ contents[i] = says
  OBVIOUS
<1> HIDE DEF n, plaintexts, contents
<1>2. /\ ended' = ended
      /\ \E frames : /\ up' = up \o frames /\ Queue(frames) /\ Len(frames) = n
                     /\ \A i \in 1..n : ReadBack(frames[i]) /\ frames[i].says = contents[i]
  <2>1. \A i \in 1..n : /\ plaintexts[i].len \in Nat /\ plaintexts[i].len <= MAX_PLAINTEXT_BYTES
                        /\ Meant(kind, plaintexts[i]) = contents[i]
    BY <1>1
  <2>2. QED
    BY <1>1, <2>1, RelaySends
<1>3. PICK frames : /\ up' = up \o frames /\ Queue(frames) /\ Len(frames) = 1
                    /\ ReadBack(frames[1]) /\ frames[1].says = says
  <2>1. n = 1 /\ 1 \in 1..n
    BY DEF n
  <2>2. PICK frames : /\ up' = up \o frames /\ Queue(frames) /\ Len(frames) = n
                      /\ \A i \in 1..n : ReadBack(frames[i]) /\ frames[i].says = contents[i]
    BY <1>2
  <2>3. Len(frames) = 1 /\ ReadBack(frames[1]) /\ frames[1].says = says
    BY <1>1, <2>1, <2>2
  <2>4. QED
    BY <2>2, <2>3
<1>4. ~IsChunk(frames[1]) /\ file.seq \in Nat
  BY <1>3 DEF IsChunk, WireInv, FileInv
<1>5. frames = <<frames[1]>>
  BY <1>3 DEF Queue
<1>6. Sendable(frames, file.size, file.seq, file.seq)
  BY <1>3, <1>4, <1>5, OneFrameSendable
<1>7. FileInv'
  BY DEF WireInv, FileInv
<1>8. QED
  BY <1>2, <1>3, <1>6, <1>7, SendKeepsInv

-----------------------------------------------------------------------------
(* Steps                                                                   *)

LEMMA DraftBody ==
  ASSUME NEW draft \in Drafts, draftByteLength(Trimmed(draft)) \in 1..MAX_BODY_BYTES
  PROVE  Trimmed(draft) \in Text /\ utf8ByteLength(Trimmed(draft)) <= MAX_BODY_BYTES
<1>1. draft \in Text
  BY DraftAssumption
<1>2. Trimmed(draft) \in Text
  BY <1>1 DEF Trimmed, Text
<1>3. MAX_BODY_BYTES \in Nat
  BY LimitValues
<1>4. QED
  BY <1>2, <1>3, TextBytes DEF draftByteLength

\* A permitted draft fails to encode only because of control characters.
LEMMA ThrownForControls ==
  ASSUME NEW body \in Text, utf8ByteLength(body) <= MAX_BODY_BYTES, EncodeThrows(Msg(body))
  PROVE  body.control > 0
<1>1. JsonBytes(Msg(body)) = 55 + Escaped(body)
  BY MsgIsValid
<1>2. JsonBytes(Msg(body)) > MAX_PLAINTEXT_BYTES
  BY LimitValues, TextBytes DEF EncodeThrows, Msg
<1>3. utf8ByteLength(body) \in Nat /\ Escaped(body) \in Nat /\ body.control \in Nat
      /\ (body.control = 0 => Escaped(body) <= 2 * utf8ByteLength(body))
  BY TextBytes DEF Text
<1>4. QED
  BY <1>1, <1>2, <1>3, LimitValues

LEMMA RelayKinds == "MSG" \in DOMAIN RelayKind /\ "CHUNK" \in DOMAIN RelayKind
  BY DEF RelayKind

LEMMA SendDraftStep ==
  ASSUME WireInv, NEW draft \in Drafts, SendDraft(draft)
  PROVE  WireInv'
<1> DEFINE body == Trimmed(draft)
<1>1. body \in Text /\ utf8ByteLength(body) <= MAX_BODY_BYTES
  BY DraftBody DEF SendDraft
<1>2. Valid(Msg(body)) /\ JsonBytes(Msg(body)) = 55 + Escaped(body) /\ JsonBytes(Msg(body)) \in Nat
  BY <1>1, MsgIsValid, TextBytes
<1>3. CASE EncodeThrows(Msg(body))
  <2>1. lost' = lost \cup {Msg(body)} /\ UNCHANGED <<up, ended, down, file, stored>>
    BY <1>3 DEF SendDraft, SendEncoded
  <2>2. Msg(body).kind = "msg" /\ Msg(body).fields.body.control > 0
    BY <1>1, <1>3, ThrownForControls DEF Msg
  <2>3. LostToEscapes'
    BY <2>1, <2>2 DEF WireInv, LostToEscapes
  <2>4. QED
    BY <2>1, <2>3 DEF WireInv, FileInv, StoredInv, UpInv, DownInv, Consecutive
<1>4. CASE ~EncodeThrows(Msg(body))
  <2>1. /\ RelaySend("MSG", <<encodeEnvelope(Msg(body))>>, <<Msg(body)>>)
        /\ UNCHANGED <<lost, down, file, stored>>
    BY <1>4 DEF SendDraft, SendEncoded
  <2> DEFINE plaintext == encodeEnvelope(Msg(body))
  <2>2. /\ plaintext.len \in Nat /\ plaintext.len <= MAX_PLAINTEXT_BYTES
        /\ Meant("MSG", plaintext) = Msg(body)
    BY <1>2, <1>4, EnvelopeIsRead DEF Meant
  <2>3. Msg(body).kind # "chunk"
    BY DEF Msg
  <2> HIDE DEF plaintext, body
  <2>4. LostToEscapes'
    BY <2>1 DEF WireInv, LostToEscapes
  <2>5. QED
    BY <2>1, <2>2, <2>3, <2>4, RelayKinds, RelaySendsOne DEF plaintext
<1>5. QED
  BY <1>3, <1>4

LEMMA SendEnvelopeStep ==
  ASSUME WireInv, NEW envelope \in Envelopes, SendEnvelope(envelope)
  PROVE  WireInv'
<1> DEFINE plaintext == encodeEnvelope(envelope)
<1>1. /\ Valid(envelope) /\ JsonBytes(envelope) \in Nat /\ ~EncodeThrows(envelope)
  BY EnvelopesAreValid DEF WireInv, FileInv
<1>2. plaintext.len \in Nat /\ plaintext.len <= MAX_PLAINTEXT_BYTES /\ Meant("MSG", plaintext) = envelope
  BY <1>1, EnvelopeIsRead DEF Meant
<1>3. envelope.kind # "chunk"
  BY <1>1, Parsers DEF Valid
<1>4. RelaySend("MSG", <<plaintext>>, <<envelope>>) /\ UNCHANGED <<lost, down, file, stored>>
  BY <1>1 DEF SendEnvelope, SendEncoded
<1>5. LostToEscapes'
  BY <1>4 DEF WireInv, LostToEscapes
<1> HIDE DEF plaintext
<1>6. QED
  BY <1>2, <1>3, <1>4, <1>5, RelayKinds, RelaySendsOne

LEMMA SendModeStep ==
  ASSUME WireInv, NEW kind \in {"MODE_UPGRADED", "REKEY_INIT", "REKEY_ACK", "REKEY_DONE"}, SendMode(kind)
  PROVE  WireInv'
<1> DEFINE says == [kind |-> kind]
<1>1. says.kind # "chunk"
  OBVIOUS
<1>2. LostToEscapes'
  BY DEF WireInv, LostToEscapes, SendMode
<1>3. RelaySend(kind, <<ModePayload(kind)>>, <<says>>) /\ UNCHANGED <<down, file, stored>>
  BY DEF SendMode
<1>4. Meant(kind, ModePayload(kind)) = says
  BY ModeIsRead
<1> HIDE DEF says
<1>5. QED
  BY <1>1, <1>2, <1>3, <1>4, ModeIsRead, RelaySendsOne

LEMMA HelloPasses ==
  ASSUME NEW intent \in DOMAIN BYTE_BY_INTENT
  PROVE  LET f == Sent(encodeHello(1, intent),
                       [type |-> "HELLO", room |-> 1, protocolVersion |-> 1, intent |-> intent])
         IN ReadBack(f) /\ ~IsChunk(f)
<1> DEFINE b == encodeHello(1, intent)
           says == [type |-> "HELLO", room |-> 1, protocolVersion |-> 1, intent |-> intent]
           f == Sent(b, says)
<1>1. TypeByte(b) = MsgType.HELLO /\ b.len = 19 /\ decodeHello(b) = says
  BY HelloIsRead
<1>2. says # Undefined /\ "kind" \notin DOMAIN says
  BY DEF Undefined
<1>3. b.len \in 1..MAX_WIRE_BYTES
  <2>1. MAX_WIRE_BYTES \in Nat /\ MAX_WIRE_BYTES >= 19
    BY LimitValues
  <2>2. QED
    BY <1>1, <2>1
<1> HIDE DEF b, says
<1>4. f.buf = b /\ f.says = says
  BY DEF Sent
<1>5. ReadBack(f) /\ ~IsChunk(f)
  BY <1>1, <1>2, <1>3, <1>4 DEF ReadBack, Passes, IsChunk
<1>6. QED
  BY <1>5 DEF b, says

LEMMA HandshakePasses ==
  ASSUME NEW nonce
  PROVE  LET c == Encrypted(0, nonce, Buffer(PUBKEY_LENGTH))
             f == Sent(encodeHandshake(nonce, c), [type |-> "HANDSHAKE", nonce |-> nonce, ciphertext |-> c])
         IN ReadBack(f) /\ ~IsChunk(f)
<1> DEFINE c == Encrypted(0, nonce, Buffer(PUBKEY_LENGTH))
           b == encodeHandshake(nonce, c)
           says == [type |-> "HANDSHAKE", nonce |-> nonce, ciphertext |-> c]
           f == Sent(b, says)
<1>1. c.len = 48
  BY FreshBuffer DEF Encrypted, PUBKEY_LENGTH, TAG_LENGTH
<1> HIDE DEF c
<1>2. TypeByte(b) = MsgType.HANDSHAKE /\ b.len = HANDSHAKE_FRAME_LENGTH /\ Received(b) = says
  BY <1>1, HandshakeIsRead
<1>3. "kind" \notin DOMAIN says /\ MsgType.HANDSHAKE # MsgType.HELLO
  BY TypeBytes
<1>4. b.len \in 1..MAX_WIRE_BYTES
  <2>1. MAX_WIRE_BYTES \in Nat /\ MAX_WIRE_BYTES >= 61
    BY LimitValues
  <2>2. b.len = 61
    BY <1>2, LimitValues
  <2>3. QED
    BY <2>2, <2>1
<1> HIDE DEF b, says
<1>5. f.buf = b /\ f.says = says
  BY DEF Sent
<1>6. ReadBack(f) /\ ~IsChunk(f)
  BY <1>2, <1>3, <1>4, <1>5 DEF ReadBack, Passes, IsChunk
<1>7. QED
  BY <1>6 DEF b, c, says
LEMMA AppendStep ==
  ASSUME WireInv, NEW f, ReadBack(f), ~IsChunk(f), up' = Append(up, f),
         UNCHANGED <<down, lost, file, stored, ended>>
  PROVE  WireInv'
<1>1. up' = up \o <<f>>
  BY QueueAppend DEF WireInv, UpInv
<1>2. Sendable(<<f>>, file.size, file.seq, file.seq)
  BY OneFrameSendable DEF WireInv, FileInv
<1>3. FileInv' /\ LostToEscapes'
  BY DEF WireInv, FileInv, LostToEscapes
<1>4. QED
  BY <1>1, <1>2, <1>3, SendKeepsInv

LEMMA SendHelloStep ==
  ASSUME WireInv, NEW intent \in DOMAIN BYTE_BY_INTENT, SendHello(intent)
  PROVE  WireInv'
  BY HelloPasses, AppendStep DEF SendHello

LEMMA SendHandshakeStep ==
  ASSUME WireInv, SendHandshake
  PROVE  WireInv'
<1> DEFINE c == Encrypted(0, inputs, Buffer(PUBKEY_LENGTH))
           f == Sent(encodeHandshake(inputs, c), [type |-> "HANDSHAKE", nonce |-> inputs, ciphertext |-> c])
<1>1. ReadBack(f) /\ ~IsChunk(f)
  BY HandshakePasses
<1>2. up' = Append(up, f) /\ UNCHANGED <<down, lost, file, stored, ended>>
  BY DEF SendHandshake
<1> HIDE DEF f
<1>3. QED
  BY <1>1, <1>2, AppendStep

\* A frame joins those on their way down.
LEMMA DownKeepsInv ==
  ASSUME DownInv, NEW f, Received(f.buf) = f.says, ChunkDue(file.size, f), down' = Append(down, f),
         file'.size = file.size
  PROVE  DownInv'
<1>1. /\ Queue(down') /\ Len(down') = Len(down) + 1
      /\ \A i \in 1..(Len(down) + 1) : down'[i] = IF i <= Len(down) THEN down[i] ELSE f
  <2>1. Queue(<<f>>) /\ down' = down \o <<f>>
    BY QueueAppend DEF DownInv
  <2>2. /\ Queue(down') /\ Len(down') = Len(down) + 1
        /\ \A i \in 1..(Len(down) + 1) : down'[i] = IF i <= Len(down) THEN down[i] ELSE <<f>>[i - Len(down)]
    BY <2>1, QueueConcat DEF DownInv
  <2>3. Len(down) \in Nat
    BY QueueFacts DEF DownInv
  <2>4. \A i \in 1..(Len(down) + 1) : ~(i <= Len(down)) => i - Len(down) = 1
    BY <2>3
  <2>5. <<f>>[1] = f
    OBVIOUS
  <2>6. QED
    BY <2>2, <2>4, <2>5
<1>2. Len(down) \in Nat
  BY QueueFacts DEF DownInv
<1>3. ASSUME NEW i \in 1..Len(down')
      PROVE  Received(down'[i].buf) = down'[i].says /\ ChunkDue(file.size, down'[i])
  <2>1. CASE i <= Len(down)
    <3>1. i \in 1..Len(down) /\ down'[i] = down[i]
      BY <1>1, <1>2, <2>1
    <3>2. QED
      BY <3>1 DEF DownInv
  <2>2. CASE ~(i <= Len(down))
    <3>1. down'[i] = f
      BY <1>1, <1>2, <2>2
    <3>2. QED
      BY <3>1
  <2>3. QED
    BY <2>1, <2>2
<1>4. QED
  BY <1>1, <1>3 DEF DownInv, ChunkDue

\* Frames joining the way down, with their numbers.
LEMMA NumberedAppend ==
  ASSUME NEW q, Queue(q), NEW f, NEW a, NEW b \in Nat, Numbered(q, a, b), IsChunk(f) => f.says.seq = b
  PROVE  Numbered(Append(q, f), a, IF IsChunk(f) THEN b + 1 ELSE b)
<1>1. Queue(<<f>>) /\ Append(q, f) = q \o <<f>>
  BY QueueAppend
<1>2. Numbered(<<f>>, b, IF IsChunk(f) THEN b + 1 ELSE b)
  BY NumberedOne
<1>3. QED
  BY <1>1, <1>2, NumberedConcat

LEMMA ServerSaysStep ==
  ASSUME WireInv, NEW buf, NEW says, ServerSays(buf, says), Received(buf) = says, "kind" \notin DOMAIN says
  PROVE  WireInv'
<1> DEFINE f == Sent(buf, says)
<1>1. f.buf = buf /\ f.says = says
  BY DEF Sent
<1>2. down' = Append(down, f) /\ UNCHANGED <<up, lost, file, stored, ended>>
  BY DEF ServerSays
<1> HIDE DEF f
<1>3. ~IsChunk(f) /\ ChunkDue(file.size, f)
  BY <1>1 DEF IsChunk, ChunkDue
<1>4. DownInv'
  BY <1>1, <1>2, <1>3, DownKeepsInv DEF WireInv
<1>5. Consecutive'
  <2>1. PICK m \in Nat : Numbered(down, stored.next, m) /\ Numbered(up, m, file.seq)
    BY DEF WireInv, Consecutive
  <2>2. Numbered(down', stored.next, m)
    BY <2>1, <1>2, <1>3, NumberedAppend DEF WireInv, DownInv
  <2>3. QED
    BY <1>2, <2>1, <2>2 DEF Consecutive
<1>6. QED
  BY <1>2, <1>4, <1>5 DEF WireInv, FileInv, StoredInv, UpInv, LostToEscapes

LEMMA ServerFrameStep ==
  ASSUME WireInv, ServerFrame
  PROVE  WireInv'
<1>1. ASSUME NEW role \in DOMAIN BYTE_BY_ROLE, ServerSays(encodeAck(role), [type |-> "ACK", role |-> role])
      PROVE  WireInv'
  BY <1>1, AckIsRead, ServerSaysStep
<1>2. ASSUME NEW code \in DOMAIN BYTE_BY_ERROR, ServerSays(encodeError(code), [type |-> "ERROR", code |-> code])
      PROVE  WireInv'
  BY <1>2, ErrorIsRead, ServerSaysStep
<1>3. ASSUME NEW type \in {"PEER_JOINED", "PEER_LEFT"}, ServerSays(Typed(1, type), [type |-> type])
      PROVE  WireInv'
  BY <1>3, PeerFramesAreRead, ServerSaysStep
<1>4. CASE ServerSays(encodePeerDisconnected(GRACE_MS_HINT),
                      [type |-> "PEER_DISCONNECTED", graceMs |-> GRACE_MS_HINT])
  BY <1>4, PeerFramesAreRead, ServerSaysStep
<1>5. QED
  BY <1>1, <1>2, <1>3, <1>4 DEF ServerFrame

LEMMA RelayStep ==
  ASSUME WireInv, Relay
  PROVE  WireInv'
<1> DEFINE f == Head(up)
<1>1. /\ up # <<>> /\ up' = Tail(up) /\ UNCHANGED <<lost, file, stored, ended>>
      /\ down' = IF TypeByte(f.buf) = MsgType.HELLO THEN down ELSE Append(down, f)
  BY DEF Relay
<1>2. /\ Queue(up') /\ Len(up') = Len(up) - 1 /\ f = up[1] /\ Len(up) \in Nat /\ Len(up) > 0
      /\ \A i \in 1..(Len(up) - 1) : up'[i] = up[i + 1]
  BY <1>1, QueueTail, QueueFacts DEF WireInv, UpInv
<1>3. ReadBack(f) /\ ChunkDue(file.size, f)
  BY <1>2 DEF WireInv, UpInv
<1>4. UpInv'
  <2>1. \A i \in 1..Len(up') : i + 1 \in 1..Len(up) /\ up'[i] = up[i + 1]
    BY <1>2
  <2>2. QED
    BY <1>1, <1>2, <2>1 DEF WireInv, UpInv, ReadBack, Passes, ChunkDue
<1>5. PICK m \in Nat : Numbered(down, stored.next, m) /\ Numbered(up, m, file.seq)
  BY DEF WireInv, Consecutive
<1>6. IF IsChunk(f) THEN f.says.seq = m /\ Numbered(up', m + 1, file.seq) ELSE Numbered(up', m, file.seq)
  BY <1>1, <1>5, NumberedTail DEF WireInv, UpInv
<1>7. CASE TypeByte(f.buf) = MsgType.HELLO
  <2>1. ~IsChunk(f) /\ down' = down
    BY <1>1, <1>3, <1>7 DEF ReadBack
  <2>2. Consecutive'
    BY <1>1, <1>5, <1>6, <2>1 DEF Consecutive
  <2>3. QED
    BY <1>1, <1>4, <2>1, <2>2 DEF WireInv, FileInv, StoredInv, DownInv, LostToEscapes
<1>8. CASE TypeByte(f.buf) # MsgType.HELLO
  <2>1. Received(f.buf) = f.says /\ down' = Append(down, f)
    BY <1>1, <1>3, <1>8 DEF ReadBack
  <2>2. DownInv'
    BY <1>1, <1>3, <2>1, DownKeepsInv DEF WireInv
  <2>3. Numbered(down', stored.next, IF IsChunk(f) THEN m + 1 ELSE m)
    BY <1>5, <1>6, <2>1, NumberedAppend DEF WireInv, DownInv
  <2>4. Consecutive'
    <3>1. CASE IsChunk(f)
      BY <3>1, <1>1, <1>6, <2>3 DEF Consecutive
    <3>2. CASE ~IsChunk(f)
      BY <3>2, <1>1, <1>6, <2>3 DEF Consecutive
    <3>3. QED
      BY <3>1, <3>2
  <2>5. QED
    BY <1>1, <1>4, <2>2, <2>4 DEF WireInv, FileInv, StoredInv, LostToEscapes
<1>9. QED
  BY <1>7, <1>8

\* One turn of the pipeline: what it cuts is numbered on and due.
LEMMA TurnStep ==
  ASSUME WireInv, ~file.eof, NEW n \in Nat, file.read + n <= file.size, NEW isEof \in BOOLEAN,
         isEof => n = 0 /\ file.read = file.size, Turn(n, isEof)
  PROVE  WireInv'
<1> DEFINE cut == consumeIntoChunks(n, isEof)
           count == Len(cut.pieces)
           seq(i) == file.seq + i - 1
           plaintexts == [i \in DOMAIN cut.pieces |-> buildChunkPlaintext(seq(i), cut.pieces[i])]
           says == [i \in DOMAIN cut.pieces |-> [kind |-> "chunk", seq |-> seq(i), piece |-> cut.pieces[i]]]
<1>1. /\ file' = [file EXCEPT !.read = @ + n, !.tail = cut.tail, !.seq = @ + count, !.eof = isEof]
      /\ RelaySend("CHUNK", plaintexts, says) /\ UNCHANGED <<down, lost, stored>>
  BY DEF Turn
<1>2. FileInv /\ file.size \in Nat /\ file.size >= 1 /\ file.seq \in Nat /\ file.read \in Nat
  BY DEF WireInv, FileInv
<1>3. /\ Queue(cut.pieces) /\ cut.tail \in Nat /\ cut.tail < 8692
      /\ \A i \in 1..count : Due(file.size, seq(i), cut.pieces[i])
      /\ isEof => file.seq + count = computeTotalChunks(file.size)
      /\ ~isEof => file.read + n = (file.seq + count) * 8692 + cut.tail
  BY <1>2, CutIsDue
<1> HIDE DEF cut
<1>4. count \in Nat /\ DOMAIN cut.pieces = 1..count
  BY <1>3, QueueFacts
<1>5. DOMAIN plaintexts = 1..count
  BY <1>4
<1>6. ASSUME NEW i \in 1..count
      PROVE  /\ plaintexts[i].len \in Nat /\ plaintexts[i].len <= MAX_PLAINTEXT_BYTES
             /\ Meant("CHUNK", plaintexts[i]) = says[i]
             /\ says[i] = [kind |-> "chunk", seq |-> seq(i), piece |-> cut.pieces[i]]
  <2>1. cut.pieces[i].len \in Nat \ {0} /\ cut.pieces[i].len <= CHUNK_DATA_MAX_BYTES
    BY <1>2, <1>3, DueLength
  <2>2. /\ plaintexts[i] = buildChunkPlaintext(seq(i), cut.pieces[i])
        /\ says[i] = [kind |-> "chunk", seq |-> seq(i), piece |-> cut.pieces[i]]
    BY <1>4
  <2> HIDE DEF plaintexts, says, seq
  <2>3. QED
    BY <2>1, <2>2, ChunkIsRead DEF Meant
<1> HIDE DEF plaintexts, says
<1>7. /\ ended' = ended
      /\ \E frames : /\ up' = up \o frames /\ Queue(frames) /\ Len(frames) = count
                     /\ \A i \in 1..count : ReadBack(frames[i]) /\ frames[i].says = says[i]
  <2>1. \A i \in 1..count : /\ plaintexts[i].len \in Nat /\ plaintexts[i].len <= MAX_PLAINTEXT_BYTES
                            /\ Meant("CHUNK", plaintexts[i]) = says[i]
    BY <1>6
  <2> DEFINE kind == "CHUNK"
  <2>2. count \in Nat /\ kind \in DOMAIN RelayKind /\ RelaySend(kind, plaintexts, says)
    BY <1>1, <1>4, RelayKinds
  <2> HIDE DEF count, kind
  <2>3. \A i \in 1..count : /\ plaintexts[i].len \in Nat /\ plaintexts[i].len <= MAX_PLAINTEXT_BYTES
                            /\ Meant(kind, plaintexts[i]) = says[i]
    BY <2>1 DEF kind
  <2>4. QED
    BY <1>5, <2>2, <2>3, RelaySends
<1>8. PICK frames : /\ up' = up \o frames /\ Queue(frames) /\ Len(frames) = count
                    /\ \A i \in 1..count : ReadBack(frames[i]) /\ frames[i].says = says[i]
  BY <1>7
<1>9. ASSUME NEW i \in 1..count
      PROVE  /\ IsChunk(frames[i]) /\ frames[i].says.seq = seq(i)
             /\ ReadBack(frames[i]) /\ ChunkDue(file.size, frames[i])
  <2>1. frames[i].says = [kind |-> "chunk", seq |-> seq(i), piece |-> cut.pieces[i]]
    BY <1>6, <1>8
  <2> HIDE DEF seq
  <2>2. IsChunk(frames[i]) /\ frames[i].says.seq = seq(i) /\ frames[i].says.piece = cut.pieces[i]
    BY <2>1 DEF IsChunk
  <2>3. QED
    BY <1>3, <1>8, <2>2 DEF ChunkDue
<1>10. file'.seq = file.seq + count /\ file'.size = file.size
  BY <1>1, <1>2 DEF FileInv
<1>11. Sendable(frames, file.size, file.seq, file'.seq)
  <2>1. \A i \in 1..Len(frames) : IsChunk(frames[i]) /\ frames[i].says.seq = file.seq + i - 1
    BY <1>8, <1>9
  <2>2. Numbered(frames, file.seq, file.seq + Len(frames))
    BY <1>2, <1>8, <2>1, NumberedRow
  <2>3. QED
    BY <1>8, <1>9, <1>10, <2>2 DEF Sendable
<1>12. FileInv'
  <2>1. file'.seq \in Nat /\ file.read + n \in Nat
    BY <1>2, <1>4, <1>10
  <2>2. /\ file'.read = file.read + n /\ file'.tail = cut.tail /\ file'.eof = isEof
        /\ file' \in [size : Nat, read : Nat, tail : Nat, seq : Nat, eof : BOOLEAN]
    <3> DEFINE r == file.read + n
               s == file.seq + count
               t == cut.tail
    <3>1. file' = [size |-> file.size, read |-> r, tail |-> t, seq |-> s, eof |-> isEof]
      <4>1. PICK size, read, tail, no, eof :
              file = [size |-> size, read |-> read, tail |-> tail, seq |-> no, eof |-> eof]
        BY <1>2 DEF FileInv
      <4> HIDE DEF count
      <4>2. QED
        BY <1>1, <4>1
    <3>2. r \in Nat /\ s \in Nat /\ t \in Nat /\ file.size \in Nat
      BY <1>2, <1>3, <1>10, <2>1
    <3> HIDE DEF r, s, t
    <3>3. file' \in [size : Nat, read : Nat, tail : Nat, seq : Nat, eof : BOOLEAN]
      BY <3>1, <3>2
    <3>4. file'.read = r /\ file'.tail = t /\ file'.eof = isEof
      BY <3>1
    <3>5. QED
      BY <3>3, <3>4 DEF r, t
  <2>3. isEof => file'.read = file'.size /\ file'.seq = computeTotalChunks(file'.size)
    BY <1>2, <1>3, <1>10, <2>2
  <2>4. ~isEof => file'.read = file'.seq * 8692 + file'.tail
    BY <1>3, <1>10, <2>2
  <2>5. QED
    BY <1>2, <1>3, <1>10, <2>2, <2>3, <2>4 DEF FileInv
<1>13. LostToEscapes'
  BY <1>1 DEF WireInv, LostToEscapes
<1>14. QED
  BY <1>1, <1>7, <1>8, <1>10, <1>11, <1>12, <1>13, SendKeepsInv

LEMMA ReadStreamStep ==
  ASSUME WireInv, ReadStream
  PROVE  WireInv'
<1>1. PICK n : n \in 1..(file.size - file.read) /\ Turn(n, FALSE)
  BY DEF ReadStream
<1>2. FileInv /\ file.size \in Nat /\ file.read \in Nat
  BY DEF WireInv, FileInv
<1>3. n \in Nat /\ n >= 1 /\ file.read + n <= file.size
  BY <1>1, <1>2
<1>4. ~file.eof
  BY <1>2, <1>3 DEF FileInv
<1>5. QED
  BY <1>1, <1>3, <1>4, TurnStep

LEMMA EndOfStreamStep ==
  ASSUME WireInv, EndOfStream
  PROVE  WireInv'
<1>1. Turn(0, TRUE) /\ ~file.eof /\ file.read = file.size
  BY Zenon DEF EndOfStream
<1>2. 0 \in Nat /\ file.read + 0 <= file.size
  BY <1>1 DEF WireInv, FileInv
<1>3. QED
  BY <1>1, <1>2, TurnStep, Zenon

\* The receiver stores the next chunk due, and nothing else changes what is stored.
LEMMA ReceiveStep ==
  ASSUME WireInv, Receive
  PROVE  WireInv'
<1> DEFINE f == Head(down)
           content == f.says
<1>1. down # <<>> /\ down' = Tail(down) /\ UNCHANGED <<up, lost, file, ended>>
  BY DEF Receive
<1>2. /\ Queue(down') /\ Len(down') = Len(down) - 1 /\ f = down[1] /\ Len(down) \in Nat /\ Len(down) > 0
      /\ \A i \in 1..(Len(down) - 1) : down'[i] = down[i + 1]
  BY <1>1, QueueTail, QueueFacts DEF WireInv, DownInv
<1>3. Received(f.buf) = content /\ ChunkDue(file.size, f)
  BY <1>2 DEF WireInv, DownInv
<1>4. stored' = IF IsChunk(f) THEN Stored(content) ELSE stored
  BY <1>3 DEF Receive, IsChunk
<1>5. DownInv'
  <2>1. \A i \in 1..Len(down') : i + 1 \in 1..Len(down) /\ down'[i] = down[i + 1]
    BY <1>2
  <2>2. QED
    BY <1>1, <1>2, <2>1 DEF WireInv, DownInv, ChunkDue
<1>6. PICK m \in Nat : Numbered(down, stored.next, m) /\ Numbered(up, m, file.seq)
  BY DEF WireInv, Consecutive
<1>7. StoredInv /\ stored.next \in Nat
  BY DEF WireInv, StoredInv
<1>8. IF IsChunk(f) THEN f.says.seq = stored.next /\ Numbered(down', stored.next + 1, m)
      ELSE Numbered(down', stored.next, m)
  BY <1>1, <1>6, <1>7, NumberedTail DEF WireInv, DownInv
<1> HIDE DEF f
<1>9. CASE ~IsChunk(f)
  <2>1. stored' = stored /\ Consecutive'
    BY <1>1, <1>4, <1>6, <1>8, <1>9 DEF Consecutive
  <2>2. QED
    BY <1>1, <1>5, <2>1 DEF WireInv, FileInv, StoredInv, UpInv, LostToEscapes
<1>10. CASE IsChunk(f)
  <2>1. content.seq = stored.next /\ Due(file.size, content.seq, content.piece)
    BY <1>3, <1>8, <1>10 DEF ChunkDue
  <2> DEFINE entry == [piece |-> content.piece, at |-> content.seq * CHUNK_DATA_MAX_BYTES]
  <2>2. stored' = [stored EXCEPT !.next = @ + 1, !.pieces = @ \cup {entry}]
    BY <1>4, <1>10, <2>1 DEF Stored, Due
  <2>3. entry.at = entry.piece.from
    BY <2>1 DEF Due
  <2> HIDE DEF entry
  <2>4. stored' = [next |-> stored.next + 1, pieces |-> stored.pieces \cup {entry}, failed |-> FALSE]
    <3>1. PICK a, b : stored = [next |-> a, pieces |-> b, failed |-> FALSE]
      BY <1>7 DEF StoredInv
    <3>2. QED
      BY <2>2, <3>1
  <2>5. StoredInv'
    BY <1>7, <2>3, <2>4 DEF StoredInv
  <2>6. Consecutive'
    BY <1>1, <1>6, <1>8, <1>10, <2>4 DEF Consecutive
  <2>7. QED
    BY <1>1, <1>5, <2>5, <2>6 DEF WireInv, FileInv, UpInv, LostToEscapes
<1>11. QED
  BY <1>9, <1>10

-----------------------------------------------------------------------------
(* Theorems                                                                *)

LEMMA InitInv ==
  ASSUME Init
  PROVE  WireInv
<1>1. PICK size \in FileSizes : file = [size |-> size, read |-> 0, tail |-> 0, seq |-> 0, eof |-> FALSE]
  BY DEF Init
<1>2. size \in Nat /\ size >= 1
  <2>1. MAX_FILE_SIZE_BYTES \in Nat
    BY DEF MAX_FILE_SIZE_BYTES
  <2>2. QED
    BY <2>1, FileAssumption
<1>3. FileInv
  BY <1>1, <1>2 DEF FileInv
<1>4. up = <<>> /\ down = <<>> /\ lost = {} /\ ~ended /\ stored = [next |-> 0, pieces |-> {}, failed |-> FALSE]
  BY DEF Init
<1>5. StoredInv /\ LostToEscapes
  BY <1>4 DEF StoredInv, LostToEscapes
<1>6. UpInv /\ DownInv
  BY <1>4 DEF UpInv, DownInv, Queue
<1>7. Consecutive
  BY <1>1, <1>4, NumberedNone DEF Consecutive
<1>8. QED
  BY <1>3, <1>4, <1>5, <1>6, <1>7 DEF WireInv

LEMMA StepKeepsInv ==
  ASSUME WireInv, [Next]_vars
  PROVE  WireInv'
<1>1. CASE UNCHANGED vars
  BY <1>1 DEF vars, WireInv, FileInv, StoredInv, UpInv, DownInv, Consecutive, LostToEscapes
<1>2. CASE Next
  <2>1. ASSUME NEW draft \in Drafts, SendDraft(draft) PROVE WireInv'
    BY <2>1, SendDraftStep
  <2>2. ASSUME NEW envelope \in Envelopes, SendEnvelope(envelope) PROVE WireInv'
    BY <2>2, SendEnvelopeStep
  <2>3. ASSUME NEW kind \in {"MODE_UPGRADED", "REKEY_INIT", "REKEY_ACK", "REKEY_DONE"}, SendMode(kind)
        PROVE  WireInv'
    BY <2>3, SendModeStep
  <2>4. ASSUME NEW intent \in DOMAIN BYTE_BY_INTENT, SendHello(intent) PROVE WireInv'
    BY <2>4, SendHelloStep
  <2>5. CASE SendHandshake
    BY <2>5, SendHandshakeStep
  <2>6. CASE ServerFrame
    BY <2>6, ServerFrameStep
  <2>7. CASE ReadStream
    BY <2>7, ReadStreamStep
  <2>8. CASE EndOfStream
    BY <2>8, EndOfStreamStep
  <2>9. CASE Relay
    BY <2>9, RelayStep
  <2>10. CASE Receive
    BY <2>10, ReceiveStep
  <2>11. QED
    BY <1>2, <2>1, <2>2, <2>3, <2>4, <2>5, <2>6, <2>7, <2>8, <2>9, <2>10 DEF Next
<1>3. QED
  BY <1>1, <1>2

\* In every reachable state the frames on the wire are read back, what is stored is
\* in its place, and the chunks on their way continue it.
THEOREM WireInvariant == Spec => []WireInv
<1>1. Init => WireInv
  BY InitInv
<1>2. WireInv /\ [Next]_vars => WireInv'
  BY StepKeepsInv
<1>3. QED
  BY <1>1, <1>2, PTL DEF Spec

\* Whatever is typed, whatever the size of the file and however it is read: no limit
\* of one layer stops what another lets pass, and each decoder gives back what the
\* encoder was given.
THEOREM FramesAreReadBack == Spec => []ReadBackAsSent
<1>1. WireInv => ReadBackAsSent
  <2> SUFFICES ASSUME WireInv PROVE ReadBackAsSent
    OBVIOUS
  <2>1. DOMAIN up = 1..Len(up) /\ DOMAIN down = 1..Len(down)
    BY QueueFacts DEF WireInv, UpInv, DownInv
  <2>2. QED
    BY <2>1 DEF WireInv, UpInv, DownInv, ReadBack, ReadBackAsSent
<1>2. QED
  BY <1>1, WireInvariant, PTL

\* Of all that the two ends have to say, only a draft with control characters can be
\* too long for an envelope, although the composer lets it pass.
THEOREM DraftsLostOnlyToEscapes == Spec => []LostToEscapes
<1>1. WireInv => LostToEscapes
  BY DEF WireInv
<1>2. QED
  BY <1>1, WireInvariant, PTL

\* Every file, read in any portions, is stored piece by piece where it was cut, and
\* when nothing is on its way any more all of it is.
THEOREM FilesStoredInPlace == Spec => []StoredInPlace
<1>1. WireInv => StoredInPlace
  <2> SUFFICES ASSUME WireInv PROVE StoredInPlace
    OBVIOUS
  <2>1. ~stored.failed /\ \A p \in stored.pieces : p.at = p.piece.from
    BY DEF WireInv, StoredInv
  <2>2. ASSUME file.eof, up = <<>>, down = <<>> PROVE stored.next = computeTotalChunks(file.size)
    <3>1. PICK m \in Nat : Numbered(<<>>, stored.next, m) /\ Numbered(<<>>, m, file.seq)
      BY <2>2 DEF WireInv, Consecutive
    <3>2. stored.next = file.seq
      BY <3>1, NumberedNone
    <3>3. QED
      BY <2>2, <3>2 DEF WireInv, FileInv
  <2>3. QED
    BY <2>1, <2>2 DEF StoredInPlace
<1>2. QED
  BY <1>1, WireInvariant, PTL
=============================================================================
