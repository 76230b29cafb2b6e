---------------------------- MODULE PhoneMessages ----------------------------
(***************************************************************************)
(* What the phone and the node say to each other (meshapi.py, nodeinfo.py): *)
(* the sections a client reads, the ones it may write, and what becomes of  *)
(* a packet it hands over.  A message is the sequence of its fields, each a *)
(* number and a value; a field has the wire type its number says.  What a   *)
(* node does not keep, and what it refuses, is the empty set.               *)
(***************************************************************************)
EXTENDS RadioSettings, Sequences, FiniteSets

-----------------------------------------------------------------------------
(* Messages (mesh_proto.py).                                               *)

Field(n, v) == <<<<n, v>>>>

\* A scalar at its default is left out, and so is an empty string.
Scalar(n, v) == IF v = 0 THEN <<>> ELSE Field(n, v)
Flag(n, is) == Scalar(n, IF is THEN 1 ELSE 0)
Blob(n, s) == IF s = <<>> THEN <<>> ELSE Field(n, s)

\* An optional field, of a set of at most one value.
Optional(n, vs) == IF vs = {} THEN <<>> ELSE Field(n, CHOOSE v \in vs : TRUE)

Positions(msg, n) == {i \in DOMAIN msg : msg[i][1] = n}

\* What a loop over fields() keeps of the fields with one number: the last.
Last(msg, n, default) ==
  LET ps == Positions(msg, n)
  IN IF ps = {} THEN default ELSE msg[CHOOSE i \in ps : \A j \in ps : j <= i][2]

Upto(s, n) == SubSeq(s, 1, IF Len(s) < n THEN Len(s) ELSE n)

-----------------------------------------------------------------------------
(* Enumerations, as the app numbers them.                                  *)
ProtoRegions == [
  UNSET |-> 0, US |-> 1, EU_433 |-> 2, EU_868 |-> 3, CN |-> 4, JP |-> 5, ANZ |-> 6,
  KR |-> 7, TW |-> 8, RU |-> 9, IN_865 |-> 10, NZ_865 |-> 11, TH |-> 12, LORA_24 |-> 13,
  UA_433 |-> 14, UA_868 |-> 15, MY_433 |-> 16, MY_919 |-> 17, SG_923 |-> 18, PH_433 |-> 19,
  PH_868 |-> 20, PH_915 |-> 21, ANZ_433 |-> 22, KZ_433 |-> 23, KZ_863 |-> 24,
  NP_865 |-> 25, BR_902 |-> 26 ]

\* LongTurbo has no number.
ProtoPresets == [
  LongFast |-> 0, LongSlow |-> 1, MediumSlow |-> 3, MediumFast |-> 4,
  ShortSlow |-> 5, ShortFast |-> 6, LongModerate |-> 7, ShortTurbo |-> 8 ]

Named(table, number) == {name \in DOMAIN table : table[name] = number}

-----------------------------------------------------------------------------
(* The sections of a node that has                                         *)
(*   num, long, short         its number and its names                     *)
(*   region, preset, num_slot the LoRa settings stored                     *)
(*   power                    the power stored, or 0 for the region's      *)
(*   name, key                its channel's, stored                        *)
(*   hop, radio               what it sends with: hop limit, power in dBm. *)

DefaultLong(num) == <<"Meshtastic", num % 65536>>
DefaultShort(num) == <<num % 65536>>

\* A name that was set, or else the derived one.
Names(node) ==
  [long |-> IF node.long = <<>> THEN DefaultLong(node.num) ELSE node.long,
   short |-> IF node.short = <<>> THEN DefaultShort(node.num) ELSE node.short]

LongLimit == 40
ShortLimit == 5

User(num, names, hw, role) ==
  Field(1, num) \o Blob(2, Upto(names.long, LongLimit)) \o Blob(3, Upto(names.short, ShortLimit))
    \o Scalar(5, hw) \o Scalar(7, role)

OwnUser(node) == User(node.num, Names(node), node.hw, 0)

Metadata(node) == Field(1, "firmware") \o Flag(5, TRUE) \o Scalar(9, node.hw)

MyInfo(node, count) == Scalar(1, node.num) \o Field(11, 30200) \o Field(13, "env") \o Scalar(15, count)

\* lora_config, with node_lora's choice of power: what is stored, or else what
\* the radio runs.
LoraConfig(node) ==
  LET p == Preset[node.preset]
      told == IF node.power # 0 THEN node.power ELSE node.radio
  IN (IF node.preset \in DOMAIN ProtoPresets
        THEN Flag(1, TRUE) \o Scalar(2, ProtoPresets[node.preset])
        ELSE Scalar(3, Bandwidth(node.region, node.preset) \div 8) \o Scalar(4, p.sf) \o Scalar(5, p.cr))
     \o Scalar(7, ProtoRegions[node.region]) \o Scalar(8, node.hop) \o Flag(9, TRUE)
     \o Scalar(10, told) \o Scalar(11, node.num_slot) \o Flag(13, TRUE)

NameLimit == 12
Primary == 1

\* Eight slots, of which the first is in use.
Channel(node, index) ==
  LET settings == Blob(2, node.key) \o Blob(3, Upto(node.name, NameLimit))
  IN IF index = 0
       THEN Field(2, settings) \o Scalar(3, Primary)
       ELSE Scalar(1, index) \o Field(2, <<>>)

Lora == 6
ConfigSection(node, section) == Field(section, IF section = Lora THEN LoraConfig(node) ELSE <<>>)
ModuleSection(section) == Field(section, <<>>)

NumChannels8 == 8
DumpSections == 8
ConfigSections == 10
ModuleSections == 13

-----------------------------------------------------------------------------
(* Reading them.                                                           *)

\* CONFIG_TYPE_OFFSET: the request counts from zero and the section from one.
Section(value) == value + 1

\* admin_read, without the passkey that goes with each answer.
AdminRead(node, number, value) ==
  CASE number = 3 -> {Field(4, OwnUser(node))}
    [] number = 12 -> {Field(13, Metadata(node))}
    [] number = 5 /\ Section(value) \in 1..ConfigSections ->
         {Field(6, ConfigSection(node, Section(value)))}
    [] number = 7 /\ Section(value) \in 1..ModuleSections ->
         {Field(8, ModuleSection(Section(value)))}
    [] number = 1 /\ value \in 1..NumChannels8 -> {Field(2, Channel(node, value - 1))}
    [] OTHER -> {}

\* _device: what a client is sent of it unasked.
Device(node, count) ==
  <<Field(3, MyInfo(node, count)), Field(13, Metadata(node))>>
    \o [i \in 1..NumChannels8 |-> Field(10, Channel(node, i - 1))]
    \o [i \in 1..DumpSections |-> Field(5, ConfigSection(node, i))]
    \o [i \in 1..ModuleSections |-> Field(9, ModuleSection(i))]

-----------------------------------------------------------------------------
(* Writing them.                                                           *)

\* set_owner: of the two names, those that are given.
Owner(body) ==
  LET given == {n \in {2, 3} : Positions(body, n) # {}}
  IN IF given = {} THEN {} ELSE {[n \in given |-> Last(body, n, <<>>)]}

\* set_config's LoRa section.  What is not in it is set back to its default.
LoraSettings(body) ==
  LET presets == Named(ProtoPresets, Last(body, 2, 0))
      regions == Named(ProtoRegions, Last(body, 7, 0))
  IN IF Last(body, 1, 0) = 0 THEN {}
     ELSE {[preset |-> p, region |-> r, power |-> Last(body, 10, 0), num_slot |-> Last(body, 11, 0)] :
             p \in presets, r \in regions \ {"UNSET"}}

\* _config_write: no other section is kept.
ConfigWrite(body) ==
  IF body # <<>> /\ body[1][1] = Lora THEN LoraSettings(body[1][2]) ELSE {}

StockKey == <<212, 241, 187, 58, 32, 41, 7, 89, 240, 188, 255, 171, 207, 78, 105, 1>>

\* channel_key, of the bytes a client sends.  One byte is an index.
ChannelKey(raw) ==
  CASE Len(raw) = 0 -> {<<>>}
    [] Len(raw) = 1 /\ raw[1] = 0 -> {<<>>}
    [] Len(raw) = 1 /\ raw[1] # 0 -> {[StockKey EXCEPT ![16] = (StockKey[16] + raw[1] - 1) % 256]}
    [] Len(raw) \in {16, 32} -> {raw}
    [] OTHER -> {}

\* _channel_write: the first slot, with a key.
ChannelWrite(body) ==
  LET settings == Last(body, 2, <<>>)
      psk == Last(settings, 2, <<>>)
  IN IF Last(body, 1, 0) # 0 \/ psk = <<>> THEN {}
     ELSE {[name |-> Last(settings, 3, <<>>), key |-> k] : k \in ChannelKey(psk)}

-----------------------------------------------------------------------------
(* Who has been heard.  `epoch' is the wall clock when `now' was read, and  *)
(* is empty while the clock is not set.                                     *)

Epoch(epoch, now, at) == IF epoch = {} THEN 0 ELSE (CHOOSE e \in epoch : TRUE) - (now - at)

NodeInfo(num, user, snr, last, hops) ==
  Field(1, num) \o Optional(2, user) \o Optional(4, snr) \o Scalar(5, last) \o Optional(9, hops)

\* peer_info.  A peer that has given no name has no user; one that has given
\* one name has the other derived.
PeerInfo(peer, epoch, now) ==
  LET named == peer.long # {} \/ peer.short # {}
      long == IF peer.long = {} THEN DefaultLong(peer.num) ELSE CHOOSE n \in peer.long : TRUE
      short == IF peer.short = {} THEN DefaultShort(peer.num) ELSE CHOOSE n \in peer.short : TRUE
      user == User(peer.num, [long |-> long, short |-> short], peer.hw, peer.role)
  IN NodeInfo(peer.num, IF named THEN {user} ELSE {}, peer.snr, Epoch(epoch, now, peer.last), peer.hops)

\* _roster: this node first, which has never heard itself.
Roster(node, peers, epoch, now) ==
  <<Field(4, NodeInfo(node.num, {OwnUser(node)}, {}, 0, {}))>>
    \o [i \in DOMAIN peers |-> Field(4, PeerInfo(peers[i], epoch, now))]

DeviceHalf == 69420
RosterHalf == 69421

\* config: what want_config_id is answered with, and its terminator.
Dump(id, node, peers, epoch, now) ==
  (IF id # RosterHalf THEN Device(node, Len(peers) + 1) ELSE <<>>)
    \o (IF id # DeviceHalf THEN Roster(node, peers, epoch, now) ELSE <<>>)
    \o <<Field(7, id)>>

-----------------------------------------------------------------------------
(* Packets.                                                                *)

Data(portnum, payload, wants, dest, request, bitfield) ==
  Scalar(1, portnum) \o Blob(2, payload) \o Flag(3, wants) \o Scalar(4, dest)
    \o Scalar(6, request) \o Optional(9, bitfield)

\* Of a packet p: who from, who to, its id, when it came and how, its flags.
MeshPacket(p, data) ==
  Scalar(1, p.from) \o Scalar(2, p.to) \o Field(4, data) \o Scalar(6, p.id) \o Scalar(7, p.time)
    \o Optional(8, p.snr) \o Scalar(9, p.hop) \o Flag(10, p.ack) \o Optional(12, p.rssi)
    \o Flag(14, p.mqtt) \o Scalar(15, p.start) \o Scalar(18, p.next) \o Scalar(19, p.relay)

\* heard: a frame the key did not open is not passed on.
Heard(p, plain, epoch, now) ==
  {Field(2, MeshPacket([p EXCEPT !.time = Epoch(epoch, now, now)], data)) : data \in plain}

Built(from, to, id, time) ==
  [from |-> from, to |-> to, id |-> id, time |-> time, snr |-> {}, hop |-> 0, ack |-> FALSE,
   rssi |-> {}, mqtt |-> FALSE, start |-> 0, next |-> 0, relay |-> 0]

Accepted == 0
NoResponse == 8
DutyCycleLimit == 9
BadRequest == 32
NotAuthorized == 33

QueueStatus(id, error) == Field(11, Scalar(1, error) \o Field(2, 1) \o Field(3, 1) \o Scalar(4, id))

-----------------------------------------------------------------------------
(* Administration and telemetry, asked of the node itself.  `client' is     *)
(* what a session has: its passkey, or none, whether that is still alive    *)
(* (key, alive) and the edit that is open (pending, of at most one).        *)

Passkey == 101

\* _command: the first field that is not the passkey.
Command(admin) ==
  LET ps == {i \in DOMAIN admin : admin[i][1] # Passkey}
  IN IF ps = {} THEN <<0, 0>> ELSE admin[CHOOSE i \in ps : \A j \in ps : i <= j]

Writes == {32, 33, 34, 64, 65, 94, 97, 99, 100}

Accepts(client, offered) == client.key # <<>> /\ client.alive /\ offered = client.key

\* What a write asks for, of the settings; {} is refused.
Wanted(number, body) ==
  CASE number = 32 -> Owner(body)
    [] number = 34 -> ConfigWrite(body)
    [] number = 33 -> ChannelWrite(body)
    [] OTHER -> {<<>>}

Clock == 43

\* _admin: {} refuses; an empty answer is a command with nothing to report.
\* `stores' says whether what is asked for is stored when it has to be.
Admin(client, node, payload, stores) ==
  LET command == Command(payload)
      number == command[1]
      body == command[2]
      read == AdminRead(node, number, body)
      atOnce == number \in {32, 33, 34} /\ client.pending = {}
      commits == number = 65 /\ client.pending # {}
  IN IF number = Clock THEN {<<>>}
     ELSE IF read # {} THEN {answer \o Field(Passkey, client.key) : answer \in read}
     ELSE IF number \notin Writes \/ ~Accepts(client, Last(payload, Passkey, <<>>)) THEN {}
     ELSE IF Wanted(number, body) = {} \/ ((atOnce \/ commits) /\ ~stores) THEN {}
     ELSE {<<>>}

\* battery: of the set of powers this board has, and what its gauge reports of
\* a pack; without a pack it runs from the mains, which is told as 101.
Battery(powers) ==
  IF powers = {} THEN [level |-> {}, volts |-> {}]
  ELSE LET pack == CHOOSE p \in powers : TRUE
       IN IF pack.level = {} THEN [level |-> {101}, volts |-> {}]
          ELSE [level |-> pack.level, volts |-> pack.volts]

\* What is unknown is left out of one, and zero in the other.
DeviceMetrics(powers, air, uptime) ==
  LET pack == Battery(powers)
  IN Optional(1, pack.level) \o Optional(2, pack.volts) \o Field(4, air) \o Field(5, uptime)

OnlineFor == 7200

\* Of the nodes heard and their times, those of the last two hours and this one.
LocalStats(air, counts, peers, now) ==
  LET online == Cardinality({i \in DOMAIN peers : now - peers[i].last < OnlineFor})
  IN Scalar(1, now) \o Scalar(3, air) \o Scalar(4, counts.sent) \o Scalar(5, counts.heard)
       \o Scalar(6, counts.dropped) \o Scalar(7, online + 1) \o Scalar(8, Len(peers) + 1)

DeviceVariant == 2
StatsVariant == 6

\* _variant and telemetry: the kind that was asked for, which is the first
\* field with a body, in the field it was asked for in.
Telemetry(request, time, stats) ==
  IF request # <<>> /\ request[1][1] \in {DeviceVariant, StatsVariant}
    THEN {Scalar(1, time) \o Field(request[1][1], stats[request[1][1]])} ELSE {}

-----------------------------------------------------------------------------
(* A packet the phone hands over, and everything it is sent for it.         *)

AdminPort == 6
TelemetryPort == 67

\* _local's answers, of what Admin or Telemetry made of it.  The reply has an
\* id of its own and names the packet it is a reply to.
Local(node, data, id, answers, own, time) ==
  LET portnum == Last(data, 1, 0)
      wants == Last(data, 3, 0) # 0
      reply(answer) == Field(2, MeshPacket(Built(node.num, node.num, own, time),
                                           Data(portnum, answer, FALSE, node.num, id, {})))
  IN IF portnum \notin {AdminPort, TelemetryPort}
       THEN <<QueueStatus(id, IF wants THEN NoResponse ELSE Accepted)>>
     ELSE IF answers = {} THEN <<QueueStatus(id, NotAuthorized)>>
     ELSE LET answer == CHOOSE a \in answers : TRUE
          IN IF answer = <<>> THEN <<QueueStatus(id, Accepted)>>
             ELSE <<QueueStatus(id, Accepted), reply(answer)>>

Broadcast == -1

\* The low byte of a number, which is never zero.
Relay(num) == IF num % 256 = 0 THEN 255 ELSE num % 256

\* What a packet is put to that may raise rather than answer: the transmitter,
\* for one to another node (a payload too long for a frame, a driver call that
\* fails, a frame that left and cannot be read back), or, for one to this node,
\* the part of it that answers for the port.
Asks(node, raw) ==
  /\ Positions(raw, 4) # {}
  /\ Last(raw, 2, Broadcast) = node.num =>
       Last(Last(raw, 4, <<>>), 1, 0) \in {AdminPort, TelemetryPort}

\* _transmit.  `answers' is what _local would make of it, `sent' the ids the
\* transmitter would send it with, none if it refuses, and `raises' whether the
\* call that decides is left by an exception: nothing is sent after that.
Transmit(node, raw, answers, own, sent, raises, time) ==
  LET id == Last(raw, 6, 0)
      to == Last(raw, 2, Broadcast)
      data == Last(raw, 4, <<>>)
      bits == IF Positions(data, 9) = {} THEN {} ELSE {Last(data, 9, 0)}
      echo(sid) == [Built(node.num, to, sid, time) EXCEPT
                      !.hop = node.hop, !.start = node.hop,
                      !.ack = Last(raw, 10, 0) # 0, !.relay = Relay(node.num)]
  IN IF Positions(raw, 4) = {} THEN <<QueueStatus(id, BadRequest)>>
     ELSE IF raises /\ Asks(node, raw) THEN <<>>
     ELSE IF to = node.num THEN Local(node, data, id, answers, own, time)
     ELSE IF sent = {} THEN <<QueueStatus(id, DutyCycleLimit)>>
     ELSE LET sid == CHOOSE i \in sent : TRUE
          IN <<QueueStatus(sid, Accepted),
               Field(2, MeshPacket(echo(sid), Data(Last(data, 1, 0), Last(data, 2, <<>>),
                                                   Last(data, 3, 0) # 0, 0, 0, bits)))>>

\* receive: what a ToRadio is taken for, which is the first of its fields that
\* is a packet, a request for a dump, a farewell or a heartbeat.
Taken(message) ==
  LET known == {i \in DOMAIN message :
                  message[i][1] \in {1, 3, 7} \/ (message[i][1] = 4 /\ message[i][2] # 0)}
  IN IF known = {} THEN {} ELSE {message[CHOOSE i \in known : \A j \in known : i <= j]}

-----------------------------------------------------------------------------
(* Properties.                                                             *)

\* Every region and every preset has a number of its own in the app, but for
\* the one preset that has none (meshapi.py:226, meshapi.py:236).
Numbered ==
  /\ DOMAIN ProtoRegions = RegionNames
  /\ PresetNames \ DOMAIN ProtoPresets = {"LongTurbo"}
  /\ \A n \in 1..26 : \E r \in RegionNames : Named(ProtoRegions, n) = {r}
  /\ \A p \in DOMAIN ProtoPresets : Named(ProtoPresets, ProtoPresets[p]) = {p}

\* The kind of a message for the phone.
Kind(m) == m[1][1]

\* For a packet it handed over a client is sent one QueueStatus, before anything
\* else, of one of these ids: it does not send a second packet until then
\* (meshapi.py:411).  What may follow is one packet.
OneStatus(out, ids) ==
  /\ Len(out) \in {1, 2}
  /\ \E id \in ids, error \in {Accepted, NoResponse, DutyCycleLimit, BadRequest, NotAuthorized} :
       out[1] = QueueStatus(id, error)
  /\ Len(out) = 2 => Kind(out[2]) = 2

\* A dump ends with its terminator, which names the half that was asked for,
\* and no other message of it is one; the device half has no node in it, and
\* the other nothing but nodes (meshapi.py:797).
DumpEnds(out, id) ==
  LET n == Len(out)
  IN /\ n > 0 /\ out[n] = Field(7, id)
     /\ \A i \in 1..(n - 1) :
          /\ Kind(out[i]) \in {3, 4, 5, 9, 10, 13}
          /\ id = DeviceHalf => Kind(out[i]) # 4
          /\ id = RosterHalf => Kind(out[i]) = 4

\* A client that reads the LoRa section and writes it back changes nothing but
\* the power, which it was told though none was stored; and it is refused for a
\* modem that has no name.
WriteBack(node) ==
  ConfigWrite(ConfigSection(node, Lora)) =
    IF node.preset \in DOMAIN ProtoPresets
      THEN {[preset |-> node.preset, region |-> node.region, num_slot |-> node.num_slot,
             power |-> IF node.power # 0 THEN node.power ELSE node.radio]}
      ELSE {}

\* And one that reads a channel and writes it back changes neither its key nor
\* a name that fits.
ChannelBack(node) ==
  ChannelWrite(Channel(node, 0)) =
    IF node.key = <<>> THEN {} ELSE {[name |-> Upto(node.name, NameLimit), key |-> node.key]}

\* The passkey that comes with a section it reads is what a client may write the
\* section back with, at once or into an edit: with another, or with none, or
\* once it has died, nothing is written (meshapi.py:1073).
KeyedWrite(client, node, other) ==
  \A rw \in {<<3, 1, 32>>, <<5, Lora - 1, 34>>, <<1, 1, 33>>} :
    \A answer \in Admin(client, node, Field(rw[1], rw[2]), FALSE) :
      LET write(key) == Field(rw[3], answer[1][2]) \o Blob(Passkey, key)
          key == Last(answer, Passkey, <<>>)
      IN /\ Admin(client, node, write(key), TRUE) = IF client.alive THEN {<<>>} ELSE {}
         /\ (Admin(client, node, write(key), FALSE) # {} <=> client.alive /\ client.pending # {})
         /\ \A wrong \in {other, <<>>} \ {key} : Admin(client, node, write(wrong), TRUE) = {}

\* A question for the node's own figures is answered in the kind it asked for, if
\* that is one of two, and never counts more nodes as about than it knows.
FiguresTold(variant, powers, counts, peers, now) ==
  LET stats == [v \in {DeviceVariant, StatsVariant} |->
                  IF v = DeviceVariant THEN DeviceMetrics(powers, 0, now) ELSE LocalStats(0, counts, peers, now)]
  IN /\ Telemetry(Field(variant, <<>>), now, stats) = {} <=> variant \notin {2, 6}
     /\ \A told \in Telemetry(Field(variant, <<>>), now, stats) :
          Last(told, variant, <<>>) # <<>> /\ {f[1] : f \in {told[i] : i \in DOMAIN told}} \subseteq {1, variant}
     /\ Last(stats[StatsVariant], 7, 0) \in 1..Last(stats[StatsVariant], 8, 0)

\* What a client reads of a section is what the dump said of it, although the
\* one counts from zero and the other from one (meshapi.py:128).
ReadsAgree(node, count) ==
  LET sent == {Device(node, count)[i] : i \in DOMAIN Device(node, count)}
      asked(number, values) == UNION {AdminRead(node, number, v) : v \in values}
  IN /\ {m[1][2] : m \in {f \in sent : f[1][1] = 5}} = {a[1][2] : a \in asked(5, 0..7)}
     /\ {m[1][2] : m \in {f \in sent : f[1][1] = 9}} = {a[1][2] : a \in asked(7, 0..12)}
     /\ {m[1][2] : m \in {f \in sent : f[1][1] = 10}} = {a[1][2] : a \in asked(1, 0..9)}

=============================================================================
