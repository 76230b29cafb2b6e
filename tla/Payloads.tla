------------------------------ MODULE Payloads ------------------------------
(***************************************************************************)
(* What is read out of a message's body (payload.rs), and the line listen() *)
(* shows of it (meshtext.py).  A value that may be missing is a set of at   *)
(* most one; a scalar is its low bits, whose sign and unit are its reader's *)
(* affair.  A line is its columns in order, and what is known of each.      *)
(***************************************************************************)
EXTENDS Wire

\* The bits of a field that is taken for a number: of a fixed one the low word,
\* of one with a body how long that is.
Bits(f) ==
  CASE f.wire = WireVarint -> f.value
    [] f.wire = WireLen -> Len(f.value)
    [] OTHER -> f.value[1] + 256 * (f.value[2] + 256 * (f.value[3] + 256 * f.value[4]))

\* The last field of a number, of any type or of one.
Given(fs, number) ==
  LET is == {i \in DOMAIN fs : fs[i].number = number}
  IN {Bits(fs[i]) : i \in {j \in is : \A k \in is : k <= j}}

GivenAs(fs, number, wire) ==
  LET is == {i \in DOMAIN fs : fs[i].number = number /\ fs[i].wire = wire}
  IN {fs[i].value : i \in {j \in is : \A k \in is : k <= j}}

\* position
PositionOf(body) ==
  {[lat |-> Given(fs, 1), lon |-> Given(fs, 2), alt |-> Given(fs, 3),
    sats |-> Given(fs, 19), precision |-> Given(fs, 23)] : fs \in Walk(body)}

\* user
UserOf(body) ==
  {[long |-> GivenAs(fs, 2, WireLen), short |-> GivenAs(fs, 3, WireLen),
    hw |-> GivenAs(fs, 5, WireVarint), licensed |-> {v # 0 : v \in GivenAs(fs, 6, WireVarint)},
    role |-> GivenAs(fs, 7, WireVarint)] : fs \in Walk(body)}

\* device_metrics and environment_metrics
MetricsOf(body, count) == {[n \in 1..count |-> Given(fs, n)] : fs \in Walk(body)}

\* telemetry: the first field past the time, of one with no body nothing.
TelemetryOf(body) ==
  {{[number |-> f.number, body |-> IF f.wire = WireLen THEN f.value ELSE <<>>] : f \in fs} :
     fs \in FirstField(body, LAMBDA f : f.number > 1)}

RouteKinds == <<"request", "reply", "error">>

\* routing: the arm that is there.
RoutingOf(body) ==
  {{[kind |-> RouteKinds[f.number], value |-> IF f.number = 3 THEN Bits(f) ELSE 0] : f \in fs} :
     fs \in FirstField(body, LAMBDA f : f.number \in 1..3)}

\* traceroute: its four lists, packed.
TracerouteOf(body) == {[n \in 1..4 |-> GivenAs(fs, n, WireLen)] : fs \in Walk(body)}

\* snr_at: the low byte of a number is a signed one.
SnrAt(chunk, at) ==
  {[value |-> IF r.value % 256 > 127 THEN (r.value % 256) - 256 ELSE r.value % 256,
    next |-> r.next] : r \in ReadVarint(chunk, at)}

-----------------------------------------------------------------------------
(* The lines.                                                              *)

Column(key, shown) == [key |-> key, shown |-> shown]
Blank(key) == Column(key, {})

\* _protocol_text
TextLine(body) == {<<Column("text", {t \in {body} : IsText(t)}), Column("bytes", {Len(body)})>>}

\* _position: a coordinate alone is not shown, nor an error nobody stated.
PositionLine(body) ==
  {LET placed == p.lat # {} /\ p.lon # {}
       coarse == {q \in p.precision : placed /\ q \in 1..31}
   IN <<Column("lat", IF placed THEN p.lat ELSE {}), Column("lon", IF placed THEN p.lon ELSE {}),
        Column("err", coarse), Column("alt", p.alt), Column("sats", p.sats)>> :
     p \in PositionOf(body)}

\* _user.  Names that are no text raise.
UserLine(body) ==
  {<<Column("long", u.long), Column("short", u.short), Column("role", u.role),
     Column("hw", u.hw), Column("licensed", {u.licensed = {TRUE}})>> :
     u \in {v \in UserOf(body) : \A n \in v.long \cup v.short : IsText(n)}}

\* _device_metrics; more than 100 is mains.
DeviceLine(body) ==
  {<<Column("batt", {LeastOf(b, 101) : b \in m[1]}), Column("volt", m[2]), Column("chan", m[3]),
     Column("tx", m[4]), Column("up", m[5])>> : m \in MetricsOf(body, 5)}

\* _environment_metrics
EnvironmentLine(body) ==
  {<<Column("temp", m[1]), Column("rh", m[2]), Column("hpa", m[3])>> : m \in MetricsOf(body, 3)}

\* _telemetry
TelemetryLine(body) ==
  UNION {CASE found = {} -> {<<Blank("variant")>>}
           [] found # {} /\ \A v \in found : v.number = 2 ->
                UNION {DeviceLine(v.body) : v \in found}
           [] found # {} /\ \A v \in found : v.number = 3 ->
                UNION {EnvironmentLine(v.body) : v \in found}
           [] OTHER -> {<<Column("variant", {v.number : v \in found})>>}
         : found \in TelemetryOf(body)}

\* _hops: whole words; the broadcast address is a relay that gave no name.
Hops(chunk) ==
  [i \in 1..(Len(chunk) \div 4) |->
    {w \in {SubSeq(chunk, 4 * i - 3, 4 * i)} : w # <<255, 255, 255, 255>>}]

\* _snrs: up to the end of the list, -128 for one that is not known.
Snrs(chunk) ==
  LET from[at \in 1..(Len(chunk) + 1)] ==
        IF at = Len(chunk) + 1 THEN {<<>>}
        ELSE UNION {{<<{r.value} \ {-128}>> \o rest : rest \in from[r.next]} :
                      r \in SnrAt(chunk, at)}
  IN from[1]

\* _chain: a link past the last hop is the one into the far end.
Chain(route, snrs) ==
  [i \in 1..(IF Len(route) > Len(snrs) THEN Len(route) ELSE Len(snrs)) |->
    [name |-> IF i > Len(route) THEN {"dst"} ELSE route[i],
     snr |-> IF i > Len(snrs) THEN {} ELSE snrs[i]]]

\* _traceroute
TracerouteLine(body) ==
  UNION {LET list(n) == IF lists[n] = {} THEN <<>> ELSE CHOOSE c \in lists[n] : TRUE
             shown(hops, snrs) == {c \in {Chain(hops, snrs)} : c # <<>>}
         IN {<<Column("out", shown(Hops(list(1)), there)),
               Column("back", shown(Hops(list(3)), back))>> :
               there \in Snrs(list(2)), back \in Snrs(list(4))}
         : lists \in TracerouteOf(body)}

\* _routing
RoutingLine(body) ==
  {<<Column("ack", {r.value = 0 : r \in {x \in arm : x.kind = "error"}}),
     Column("reason", {IF r.kind = "error" THEN r.value ELSE r.kind : r \in arm})>> :
     arm \in RoutingOf(body)}

Routing == 5
TextMessage == 1
TraceroutePort == 70

\* describe: the kind, what it carries, when and whether MQTT may have it.  A
\* body that cannot be read says so in place of its columns.
Details(portnum, body) ==
  CASE portnum = TextMessage -> TextLine(body)
    [] portnum = Position -> PositionLine(body)
    [] portnum = Nodeinfo -> UserLine(body)
    [] portnum = Routing -> RoutingLine(body)
    [] portnum = TelemetryPort -> TelemetryLine(body)
    [] portnum = TraceroutePort -> TracerouteLine(body)
    [] OTHER -> {<<Column("bytes", {Len(body)})>>}

Undecodable(body) == <<Column("error", {"undecodable"}), Column("bytes", {Len(body)})>>

Described(p) ==
  <<Column("port", {p.portnum})>>
    \o (IF Details(p.portnum, p.body) = {} THEN Undecodable(p.body)
        ELSE CHOOSE line \in Details(p.portnum, p.body) : TRUE)
    \o <<Column("time", p.time), Column("mqtt", {b % 2 = 1 : b \in p.bits})>>

-----------------------------------------------------------------------------
(* Asking another node (mesh.py).                                          *)

\* ASKABLE: the port, and of telemetry the field of its kind.
Askable(what) ==
  CASE what \in {"telemetry", "device"} -> [portnum |-> TelemetryPort, variant |-> {2}]
    [] what = "environment" -> [portnum |-> TelemetryPort, variant |-> {3}]
    [] what = "air" -> [portnum |-> TelemetryPort, variant |-> {4}]
    [] what \in {"power", "energy"} -> [portnum |-> TelemetryPort, variant |-> {5}]
    [] what = "stats" -> [portnum |-> TelemetryPort, variant |-> {6}]
    [] what = "health" -> [portnum |-> TelemetryPort, variant |-> {7}]
    [] what = "nodeinfo" -> [portnum |-> Nodeinfo, variant |-> {}]
    [] what = "position" -> [portnum |-> Position, variant |-> {}]
    [] OTHER -> [portnum |-> what, variant |-> {}]

\* ask: what is put in the question, of a node whose own names are user.
Question(what, user) ==
  LET asked == Askable(what)
  IN IF asked.portnum = Nodeinfo THEN user
     ELSE IF asked.variant # {} THEN Nested(CHOOSE v \in asked.variant : TRUE, <<>>) ELSE <<>>

Ask(tx, num, what, user, bits, id) ==
  Frame(tx, EncodeData(Askable(what).portnum, Question(what, user), TRUE, bits), num, TRUE, id)

-----------------------------------------------------------------------------
(* Properties.                                                             *)

Keys(line) == [i \in DOMAIN line |-> line[i].key]

\* What columns a line has depends on its kind, and for telemetry on what is
\* measured, never on which of them are known (meshtext.py:117): no line has
\* some of them.
WholeSchema(p, q) ==
  p.portnum = q.portnum /\ p.portnum # TelemetryPort =>
    Keys(Described(p)) = Keys(Described(q)) \/ Details(p.portnum, p.body) = {}
      \/ Details(q.portnum, q.body) = {}

\* A question that is heard asks for what was meant: it is acknowledged and
\* answered, the kind of telemetry is the one field it carries, and no field in
\* it says anything else (an empty body is answered by nobody, mesh.py:248).
AsksFor(tx, num, what, user, bits, id) ==
  LET frame == Ask(tx, num, what, user, bits, id)
      heard == ParseData(Decrypt(frame, tx.key))
  IN /\ \A h \in ParseHeader(frame) : h.to = num /\ WantAck(h.flags)
     /\ heard # {}
     /\ \A d \in heard :
          /\ d.wants /\ d.portnum = Askable(what).portnum
          /\ d.portnum = TelemetryPort =>
               /\ {f.number : f \in UNION TelemetryOf(d.body)} = Askable(what).variant
               /\ \A fs \in Walk(d.body) : Len(fs) = 1
          /\ d.portnum = Nodeinfo => UserOf(d.body) = UserOf(user)

=============================================================================
