-------------------------------- MODULE Wire --------------------------------
(***************************************************************************)
(* What goes over the air: a header, and a protobuf under a keystream       *)
(* (proto.rs, pbuf.rs and header.rs, through mesh_proto.py,                 *)
(* mesh_protocol.py and mesh_tx.py).  A buffer is a sequence of bytes, read *)
(* from position 1.  What a function returns is a set of one value, and {}  *)
(* where it raises.  A word is its four bytes, the least first; a varint is *)
(* a number as long as it has at most Groups groups.                        *)
(***************************************************************************)
EXTENDS Integers, Sequences, FiniteSets

CONSTANTS
  Groups,        \* how many groups of seven bits a number is written with here
  MaxVarint,     \* how many there can be
  Stream(_, _),  \* the keystream of a key and a counter block, a byte a position
  Xor(_, _),     \* of two bytes
  IsDate(_),     \* whether a word is one, and not before a clock was set
  IsText(_)      \* whether bytes are

Byte == 0..255
WireVarint == 0
WireI64 == 1
WireLen == 2
WireI32 == 5

-----------------------------------------------------------------------------
(* Writing.                                                                *)

\* put_varint.
Varint(v) ==
  LET n == CHOOSE k \in 1..Groups : v < 128 ^ k /\ \A j \in 1..(k - 1) : v >= 128 ^ j
  IN [i \in 1..n |-> ((v \div 128 ^ (i - 1)) % 128) + (IF i < n THEN 128 ELSE 0)]

Tag(number, wire) == Varint(number * 8 + wire)

\* uint, fixed32 and blob with `always'; a scalar at its default is left out.
UintAlways(number, v) == Tag(number, WireVarint) \o Varint(v)
Uint(number, v) == IF v = 0 THEN <<>> ELSE UintAlways(number, v)
Fixed32(number, word) == IF word = <<0, 0, 0, 0>> THEN <<>> ELSE Tag(number, WireI32) \o word
Nested(number, body) == Tag(number, WireLen) \o Varint(Len(body)) \o body
Blob(number, body) == IF body = <<>> THEN <<>> ELSE Nested(number, body)

\* encode_data: of the optional bitfield a zero is written.
EncodeData(portnum, payload, wants, bits) ==
  Uint(1, portnum) \o Blob(2, payload) \o Uint(3, IF wants THEN 1 ELSE 0)
    \o (IF bits = {} THEN <<>> ELSE UintAlways(9, CHOOSE b \in bits : TRUE))

-----------------------------------------------------------------------------
(* Reading.                                                                *)

\* varint: its value and where the next byte is.  One that does not end, or
\* not in time, is refused.
ReadVarint(buf, at) ==
  LET ends == {i \in at..Len(buf) : buf[i] < 128 /\ \A j \in at..(i - 1) : buf[j] >= 128}
      value[i \in at..(Len(buf) + 1)] ==
        IF i > Len(buf) \/ (i > at /\ buf[i - 1] < 128) THEN 0
        ELSE (buf[i] % 128) + 128 * value[i + 1]
  IN {[value |-> value[at], next |-> i + 1] : i \in {e \in ends : e - at < MaxVarint}}

\* fixed: its bytes.
ReadFixed(buf, at, width) ==
  IF at + width > Len(buf) + 1 THEN {}
  ELSE {[value |-> SubSeq(buf, at, at + width - 1), next |-> at + width]}

FieldOf(number, wire, v, next) == [number |-> number, wire |-> wire, value |-> v, next |-> next]

\* The body of a field with a length, which ends with the buffer at the latest.
Body(buf, number, head) ==
  IF head.value > Len(buf) + 1 - head.next THEN {}
  ELSE {FieldOf(number, WireLen, SubSeq(buf, head.next, head.next + head.value - 1),
                head.next + head.value)}

\* field.
ReadField(buf, at) ==
  UNION {LET number == tag.value \div 8
             wire == tag.value % 8
             plain(reads) == {FieldOf(number, wire, r.value, r.next) : r \in reads}
         IN CASE number = 0 -> {}
              [] number # 0 /\ wire = WireVarint -> plain(ReadVarint(buf, tag.next))
              [] number # 0 /\ wire = WireI64 -> plain(ReadFixed(buf, tag.next, 8))
              [] number # 0 /\ wire = WireI32 -> plain(ReadFixed(buf, tag.next, 4))
              [] number # 0 /\ wire = WireLen ->
                   UNION {Body(buf, number, head) : head \in ReadVarint(buf, tag.next)}
              [] OTHER -> {}
         : tag \in ReadVarint(buf, at)}

\* fields: every field up to the end of the buffer, or none if one is not.
Walk(buf) ==
  LET from[at \in 1..(Len(buf) + 1)] ==
        IF at = Len(buf) + 1 THEN {<<>>}
        ELSE UNION {{<<f>> \o rest : rest \in from[f.next]} : f \in ReadField(buf, at)}
  IN from[1]

\* The last field of a number and a wire type; one of another type is skipped.
LastOf(fields, number, wire, default) ==
  LET ps == {i \in DOMAIN fields : fields[i].number = number /\ fields[i].wire = wire}
  IN IF ps = {} THEN default ELSE fields[CHOOSE i \in ps : \A j \in ps : j <= i].value

Zero == <<0, 0, 0, 0>>

\* parse_data.
ParseData(buf) ==
  {[portnum |-> LastOf(fs, 1, WireVarint, 0), body |-> LastOf(fs, 2, WireLen, <<>>),
    wants |-> LastOf(fs, 3, WireVarint, 0) # 0, dest |-> LastOf(fs, 4, WireI32, Zero),
    request |-> LastOf(fs, 6, WireI32, Zero),
    bits |-> IF \E i \in DOMAIN fs : fs[i].number = 9 /\ fs[i].wire = WireVarint
               THEN {LastOf(fs, 9, WireVarint, 0)} ELSE {}] : fs \in Walk(buf)}

-----------------------------------------------------------------------------
(* The header.                                                             *)

HopMax == 7
LeastOf(a, b) == IF a <= b THEN a ELSE b

\* build_flags.
Flags(limit, ack, mqtt, start) ==
  LeastOf(limit, HopMax) + (IF ack THEN 8 ELSE 0) + (IF mqtt THEN 16 ELSE 0) + 32 * (start % 8)

HopLimit(flags) == flags % 8
WantAck(flags) == (flags \div 8) % 2 = 1
ViaMqtt(flags) == (flags \div 16) % 2 = 1
HopStart(flags) == (flags \div 32) % 8

\* hops_away: nothing, from a sender that does not set hop_start, or one that
\* set it below the limit.
HopsAway(flags) ==
  IF HopStart(flags) = 0 \/ HopStart(flags) < HopLimit(flags) THEN {}
  ELSE {HopStart(flags) - HopLimit(flags)}

HeaderLen == 16

Header(h) == h.to \o h.from \o h.id \o <<h.flags, h.channel, h.next, h.relay>>

\* Packet.
ParseHeader(frame) ==
  IF Len(frame) < HeaderLen THEN {}
  ELSE {[to |-> SubSeq(frame, 1, 4), from |-> SubSeq(frame, 5, 8), id |-> SubSeq(frame, 9, 12),
         flags |-> frame[13], channel |-> frame[14], next |-> frame[15], relay |-> frame[16]]}

Rest(frame) == SubSeq(frame, HeaderLen + 1, Len(frame))

XorAll(bytes) ==
  LET upto[i \in 0..Len(bytes)] == IF i = 0 THEN 0 ELSE Xor(upto[i - 1], bytes[i])
  IN upto[Len(bytes)]

\* channel_hash.
ChannelHash(name, key) == Xor(XorAll(name), XorAll(key))

-----------------------------------------------------------------------------
(* Encryption.                                                             *)

\* nonce: the packet's id and its sender.
Nonce(frame) ==
  [i \in 1..16 |-> CASE i \in 1..4 -> frame[8 + i]
                     [] i \in 9..12 -> frame[i - 4]
                     [] OTHER -> 0]

\* crypt.  No key is no encryption.
Crypt(header, body, key) ==
  IF key = <<>> THEN body
  ELSE [i \in DOMAIN body |-> Xor(body[i], Stream(key, Nonce(header))[i])]

Decrypt(frame, key) == Crypt(frame, Rest(frame), key)

\* Transmitter.frame.
Frame(tx, data, to, ack, id) ==
  LET header == Header([to |-> to, from |-> tx.num, id |-> id,
                        flags |-> Flags(tx.hop, ack, FALSE, tx.hop),
                        channel |-> ChannelHash(tx.name, tx.key), next |-> 0,
                        relay |-> IF tx.num[1] = 0 THEN 255 ELSE tx.num[1]])
  IN header \o Crypt(header, data, tx.key)

-----------------------------------------------------------------------------
(* Decoding.                                                               *)

MaxPortnum == 511
Position == 3
Nodeinfo == 4
TelemetryPort == 67

\* The first field that is wanted.  What follows it is not read, and what
\* cannot be read before it raises.
FirstField(body, Wanted(_)) ==
  LET from[at \in 1..(Len(body) + 1)] ==
        IF at = Len(body) + 1 THEN {{}}
        ELSE UNION {IF Wanted(f) THEN {{f}} ELSE from[f.next] : f \in ReadField(body, at)}
  IN from[1]

\* payload_sender_time and payload_short_name.
FirstRead(body, number, wire) ==
  {{f.value : f \in fs} :
     fs \in FirstField(body, LAMBDA f : f.number = number /\ f.wire = wire)}

\* _sender_time.
SenderTime(portnum, body) ==
  CASE portnum = Position -> {{w \in ws : IsDate(w)} : ws \in FirstRead(body, 4, WireI32)}
    [] portnum = TelemetryPort -> {{w \in ws : IsDate(w)} : ws \in FirstRead(body, 1, WireI32)}
    [] OTHER -> {{}}

\* _learn: the first name of a node is kept, while there is room.
Learn(names, limit, node, body) ==
  IF node \in DOMAIN names \/ Cardinality(DOMAIN names) >= limit THEN {names}
  ELSE {LET text == {s \in said : IsText(s)}
        IN [n \in DOMAIN names \cup {m \in {node} : text # {}} |->
              IF n \in DOMAIN names THEN names[n] ELSE CHOOSE s \in text : TRUE] :
          said \in FirstRead(body, 3, WireLen)}

\* decode: {{}} where the key does not fit, and {} where it raises, which it
\* does for the body of one of three kinds that cannot be read.
Decode(frame, key, names, limit) ==
  LET parsed == {d \in ParseData(Decrypt(frame, key)) : d.portnum <= MaxPortnum}
  IN IF key = <<>> \/ parsed = {} THEN {{}}
     ELSE LET d == CHOOSE x \in parsed : TRUE
              learned == IF d.portnum = Nodeinfo
                           THEN Learn(names, limit, SubSeq(frame, 5, 8), d.body) ELSE {names}
          IN {{[data |-> d, time |-> t, names |-> n]} :
                t \in SenderTime(d.portnum, d.body), n \in learned}

-----------------------------------------------------------------------------
(* Properties.                                                             *)

\* What encode_data writes is what parse_data reads.
DataBack(d) ==
  ParseData(EncodeData(d.portnum, d.body, d.wants, d.bits)) =
    {[d EXCEPT !.dest = Zero, !.request = Zero]}

\* A message cut short within a field is refused, which is the only test of a
\* key there is (mesh_protocol.py:346): a cut is read only where a field ends.
CutRefused(buf) ==
  \A n \in 1..(Len(buf) - 1) :
    Walk(SubSeq(buf, 1, n)) # {} => \E fs \in Walk(buf) : \E k \in DOMAIN fs : fs[k].next = n + 1

\* What one node frames another reads, after any number of relays.
FrameBack(tx, data, to, ack, id, relay, limit, names) ==
  LET sent == Frame(tx, data, to, ack, id)
      flags == Flags(limit, ack, FALSE, tx.hop)
      got == [sent EXCEPT ![13] = flags, ![15] = relay, ![16] = relay]
      h == CHOOSE x \in ParseHeader(got) : TRUE
  IN /\ h.to = to /\ h.from = tx.num /\ h.id = id
     /\ WantAck(h.flags) = ack
     /\ HopsAway(h.flags) = IF tx.hop = 0 THEN {} ELSE {tx.hop - limit}
     /\ Decrypt(got, tx.key) = data
     /\ \A r \in UNION Decode(got, tx.key, names, 2) : {r.data} = ParseData(data)

\* A frame that decode raises for is of one of the kinds it looks into.
RaisesForBodies(frame, key, names) ==
  Decode(frame, key, names, 2) = {} =>
    \A d \in ParseData(Decrypt(frame, key)) : d.portnum \in {Position, Nodeinfo, TelemetryPort}

=============================================================================
