------------------------------ MODULE BenchWire ------------------------------
(***************************************************************************)
(* The host bench's own wire format (hoststub.py), written a second time in *)
(* Python so that a disagreement with the crate shows.  A field carries its *)
(* number, 0 if it has a body, and its body; a slice past the end of a      *)
(* buffer is cut there, and only indexing raises.  Of a fixed64 the low     *)
(* word is kept.                                                            *)
(***************************************************************************)
EXTENDS Payloads

\* _varint: however many groups it has.
BenchVarint(buf, at) ==
  LET ends == {i \in at..Len(buf) : buf[i] < 128 /\ \A j \in at..(i - 1) : buf[j] >= 128}
      upto[i \in (at - 1)..Len(buf)] ==
        IF i < at THEN 0 ELSE upto[i - 1] + (buf[i] % 128) * 128 ^ (i - at)
  IN {[value |-> upto[i], next |-> i + 1] : i \in ends}

\* _put
BenchPut(v) ==
  LET from[k \in Nat] == IF k < 128 THEN <<k>> ELSE <<128 + (k % 128)>> \o from[k \div 128]
  IN from[v]

\* Python's slice of a buffer.
Cut(buf, at, length) == SubSeq(buf, at, LeastOf(at + length - 1, Len(buf)))

Little(bytes) == bytes[1] + 256 * (bytes[2] + 256 * (bytes[3] + 256 * bytes[4]))

BenchPlain(number, wire, v, next) ==
  [number |-> number, wire |-> wire, bits |-> v, body |-> <<>>, next |-> next]

\* struct.unpack of a slice: as many bytes as asked for.
BenchFixed(buf, number, wire, at, width) ==
  {BenchPlain(number, wire, Little(b), at + width) :
     b \in {c \in {Cut(buf, at, width)} : Len(c) = width}}

\* proto_field: number 0 is one like any other, and a body may run past the end.
BenchField(buf, at) ==
  UNION {LET number == tag.value \div 8
             wire == tag.value % 8
         IN CASE wire = WireVarint ->
                   {BenchPlain(number, wire, r.value, r.next) : r \in BenchVarint(buf, tag.next)}
              [] wire = WireLen ->
                   {[number |-> number, wire |-> wire, bits |-> 0,
                     body |-> Cut(buf, head.next, head.value), next |-> head.next + head.value] :
                      head \in BenchVarint(buf, tag.next)}
              [] wire = WireI32 -> BenchFixed(buf, number, wire, tag.next, 4)
              [] wire = WireI64 -> BenchFixed(buf, number, wire, tag.next, 8)
              [] OTHER -> {}
         : tag \in BenchVarint(buf, at)}

\* _fields, and parse_data's loop: until the end, or past it.
BenchWalk(buf) ==
  LET from[at \in Nat] ==
        IF at > Len(buf) THEN {<<>>}
        ELSE UNION {{<<f>> \o rest : rest \in from[f.next]} : f \in BenchField(buf, at)}
  IN from[1]

BenchFirst(body, Wanted(_)) ==
  LET from[at \in Nat] ==
        IF at > Len(body) THEN {{}}
        ELSE UNION {IF Wanted(f) THEN {{f}} ELSE from[f.next] : f \in BenchField(body, at)}
  IN from[1]

\* The last field of a number, of whatever type.
Latest(fs, number) ==
  LET is == {i \in DOMAIN fs : fs[i].number = number}
  IN {fs[i] : i \in {j \in is : \A k \in is : k <= j}}

LatestAs(fs, number, wire) ==
  LET is == {i \in DOMAIN fs : fs[i].number = number /\ fs[i].wire = wire}
  IN {fs[i] : i \in {j \in is : \A k \in is : k <= j}}

BitsOf(fields) == {f.bits : f \in fields}
BodyOf(fields) == {f.body : f \in fields}
OrZero(S) == IF S = {} THEN 0 ELSE CHOOSE v \in S : TRUE

-----------------------------------------------------------------------------
(* The envelope and the header.                                            *)

\* encode_data
BenchEncode(portnum, payload, wants, bits) ==
  (IF portnum = 0 THEN <<>> ELSE <<8>> \o BenchPut(portnum))
    \o (IF Len(payload) = 0 THEN <<>> ELSE <<18>> \o BenchPut(Len(payload)) \o payload)
    \o (IF wants THEN <<24, 1>> ELSE <<>>)
    \o (IF bits = {} THEN <<>> ELSE <<72>> \o BenchPut(OrZero(bits)))

\* parse_data: whatever type its fields have.
BenchParse(buf) ==
  {[portnum |-> OrZero(BitsOf(Latest(fs, 1))),
    body |-> IF Latest(fs, 2) = {} THEN <<>> ELSE CHOOSE b \in BodyOf(Latest(fs, 2)) : TRUE,
    wants |-> OrZero(BitsOf(Latest(fs, 3))) # 0, dest |-> OrZero(BitsOf(Latest(fs, 4))),
    request |-> OrZero(BitsOf(Latest(fs, 6))), bits |-> BitsOf(Latest(fs, 9))] :
     fs \in BenchWalk(buf)}

\* parse_header: the hops are the difference, where a start is set.
BenchHeader(frame) ==
  LET flags == frame[13]
      start == (flags \div 32) % 8
      limit == flags % 8
  IN [to |-> SubSeq(frame, 1, 4), from |-> SubSeq(frame, 5, 8), id |-> SubSeq(frame, 9, 12),
      limit |-> limit, start |-> start, ack |-> (flags \div 8) % 2 = 1,
      mqtt |-> (flags \div 16) % 2 = 1, away |-> IF start = 0 THEN {} ELSE {start - limit}]

\* pb_uint, pb_fixed32 and pb_blob_head.
BenchUint(number, v) == BenchPut(8 * number + WireVarint) \o BenchPut(v)
BenchFixed32(number, word) == BenchPut(8 * number + WireI32) \o word
BenchBlobHead(number, length) == BenchPut(8 * number + WireLen) \o BenchPut(length)

-----------------------------------------------------------------------------
(* The payload extractors.                                                 *)

\* payload_position
BenchPosition(body) ==
  {[lat |-> BitsOf(Latest(fs, 1)), lon |-> BitsOf(Latest(fs, 2)), alt |-> BitsOf(Latest(fs, 3)),
    sats |-> BitsOf(Latest(fs, 19)), precision |-> BitsOf(Latest(fs, 23))] :
     fs \in BenchWalk(body)}

\* payload_user
BenchUser(body) ==
  {[long |-> BodyOf(LatestAs(fs, 2, WireLen)), short |-> BodyOf(LatestAs(fs, 3, WireLen)),
    hw |-> BitsOf(LatestAs(fs, 5, WireVarint)),
    licensed |-> {v # 0 : v \in BitsOf(LatestAs(fs, 6, WireVarint))},
    role |-> BitsOf(LatestAs(fs, 7, WireVarint))] : fs \in BenchWalk(body)}

\* payload_device_metrics and payload_environment_metrics
BenchMetrics(body, count) ==
  {[n \in 1..count |-> BitsOf(Latest(fs, n))] : fs \in BenchWalk(body)}

\* payload_telemetry
BenchTelemetry(body) ==
  {{[number |-> f.number, body |-> f.body] : f \in fs} :
     fs \in BenchFirst(body, LAMBDA f : f.number > 1)}

\* payload_traceroute
BenchTraceroute(body) ==
  {[n \in 1..4 |-> BodyOf(LatestAs(fs, n, WireLen))] : fs \in BenchWalk(body)}

\* payload_routing
BenchRouting(body) ==
  {{[kind |-> CASE f.number = 3 -> "error" [] f.number = 1 -> "request" [] OTHER -> "reply",
     value |-> IF f.number = 3 THEN f.bits ELSE 0] : f \in fs} :
     fs \in BenchFirst(body, LAMBDA f : f.number \in {1, 2, 3})}

\* payload_sender_time and payload_short_name
BenchSenderTime(body, number) ==
  {BitsOf(fs) : fs \in BenchFirst(body, LAMBDA f : f.number = number /\ f.wire = WireI32)}

BenchShortName(body) ==
  {BodyOf(fs) : fs \in BenchFirst(body, LAMBDA f : f.number = 3 /\ f.wire = WireLen)}

\* payload_snr_at
BenchSnrAt(chunk, at) ==
  {LET byte == r.value % 256
   IN [value |-> IF byte > 127 THEN byte - 256 ELSE byte, next |-> r.next] :
     r \in BenchVarint(chunk, at)}

-----------------------------------------------------------------------------
(* Properties.                                                             *)

\* No field that is taken for a number has a body or is eight bytes long: the
\* one the crate counts by its length and the bench as 0, of the other the
\* bench keeps every bit.
Numeric(buf) ==
  \A fs \in Walk(buf) : \A i \in DOMAIN fs : fs[i].wire \in {WireVarint, WireI32}

\* Where the crate reads a buffer, the bench reads the same fields in it.
SameFields(buf) ==
  \A fs \in Walk(buf) : \E gs \in BenchWalk(buf) :
    /\ Len(gs) = Len(fs)
    /\ \A i \in DOMAIN fs :
         /\ gs[i].number = fs[i].number /\ gs[i].wire = fs[i].wire /\ gs[i].next = fs[i].next
         /\ IF fs[i].wire = WireLen THEN gs[i].body = fs[i].value ELSE gs[i].bits = Bits(fs[i])

\* And what it reads a body for: the bench passes no test that the board would
\* fail (hoststub.py:1512), as long as the crate reads the body at all.
SameReading(body) ==
  Walk(body) # {} =>
    /\ BenchUser(body) = UserOf(body)
    /\ BenchTraceroute(body) = TracerouteOf(body)
    /\ BenchTelemetry(body) = TelemetryOf(body)
    /\ BenchShortName(body) = FirstRead(body, 3, WireLen)
    /\ \A at \in DOMAIN body : BenchSnrAt(body, at) = SnrAt(body, at)
    /\ BenchSenderTime(body, 4) = {{Little(w) : w \in ws} : ws \in FirstRead(body, 4, WireI32)}
    /\ Numeric(body) =>
         /\ BenchPosition(body) = PositionOf(body)
         /\ BenchMetrics(body, 5) = MetricsOf(body, 5)
         /\ BenchRouting(body) = RoutingOf(body)

\* The fields of an envelope have the types it gives them.
Typed(buf) ==
  \A fs \in Walk(buf) : \A i \in DOMAIN fs :
    /\ fs[i].number \in {1, 3, 9} => fs[i].wire = WireVarint
    /\ fs[i].number = 2 => fs[i].wire = WireLen
    /\ fs[i].number \in {4, 6} => fs[i].wire = WireI32

SameEnvelope(buf) ==
  Typed(buf) /\ Walk(buf) # {} =>
    BenchParse(buf) = {[d EXCEPT !.dest = Little(@), !.request = Little(@)] : d \in ParseData(buf)}

\* Both write an envelope alike, and read its header alike but for a start that
\* is below the limit, of which the bench makes a negative distance.
SameWriting(d) ==
  BenchEncode(d.portnum, d.body, d.wants, d.bits) = EncodeData(d.portnum, d.body, d.wants, d.bits)

\* So do their writers of one field, of which the crate's callers leave out a
\* scalar at its default and an empty body.
SameField(number, v, word, body) ==
  /\ BenchUint(number, v) = UintAlways(number, v)
  /\ BenchFixed32(number, word) = Fixed32(number, word) \/ word = Zero
  /\ BenchBlobHead(number, Len(body)) \o body = Nested(number, body)

SameHeader(frame) ==
  LET b == BenchHeader(frame)
  IN /\ \A h \in ParseHeader(frame) : <<b.to, b.from, b.id>> = <<h.to, h.from, h.id>>
     /\ b.limit = HopLimit(frame[13]) /\ b.start = HopStart(frame[13])
     /\ b.ack = WantAck(frame[13]) /\ b.mqtt = ViaMqtt(frame[13])
     /\ b.away = HopsAway(frame[13]) \/ (HopsAway(frame[13]) = {} /\ b.start < b.limit)

=============================================================================
