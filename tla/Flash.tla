-------------------------------- MODULE Flash --------------------------------
(***************************************************************************)
(* The board's one page of flash: the settings (keystore.py, store.rs) and, *)
(* behind them, the cache of the roster and the inbox (meshcache.py,        *)
(* cache.rs).  A region is a magic, the length of its body, a checksum and  *)
(* the body, records one after the other.  A page is a sequence of bytes; a *)
(* word is its four, the least first; a value that may be missing is a set  *)
(* of at most one; what raises is {}.                                       *)
(***************************************************************************)
EXTENDS Integers, Sequences, SequencesExt

CONSTANTS
  StoreBytes,   \* STORE_BYTES
  CacheBytes,   \* CACHE_BYTES
  NodeBytes,    \* NODE_BYTES, the most of the cache that is peers
  StoreMagic,
  CacheMagic,
  Crc(_),       \* the checksum of bytes, a word
  IsText(_)     \* whether bytes are

Byte == 0..255
Blank == 255
MaxValue == 255
HeaderLen == 10
CacheStart == StoreBytes

Lesser(a, b) == IF a < b THEN a ELSE b
U16(n) == <<n % 256, n \div 256>>

\* The n bytes of a page after its first k, and the page with others there.
Slice(page, k, n) == [i \in 1..n |-> page[k + i]]
Over(page, k, bytes) ==
  [i \in 1..Len(page) |-> IF i \in (k + 1)..(k + Len(bytes)) THEN bytes[i - k] ELSE page[i]]

-----------------------------------------------------------------------------
(* Headers.                                                                *)

\* finish
Stamped(magic, body) == magic \o U16(Len(body)) \o Crc(body) \o body

\* length: what a header claims.
Claimed(magic, raw) ==
  IF Len(raw) < HeaderLen \/ SubSeq(raw, 1, 4) # magic THEN {} ELSE {raw[5] + 256 * raw[6]}

\* verify: the body, unless what is there cannot be trusted.
Verified(magic, raw) ==
  {SubSeq(raw, HeaderLen + 1, HeaderLen + n) : n \in {m \in Claimed(magic, raw) :
     /\ HeaderLen + m <= Len(raw)
     /\ Crc(SubSeq(raw, HeaderLen + 1, HeaderLen + m)) = SubSeq(raw, 7, HeaderLen)}}

\* record, again and again: every record of a body, whose head is of a fixed
\* length and gives that of the rest.  One that runs over raises; what is too
\* short for a head is the end.
Records(body, head, SizeAt(_)) ==
  LET from[at \in 1..(Len(body) + 1)] ==
        LET next == at + head + SizeAt(at)
        IN IF at + head > Len(body) + 1 THEN {<<>>}
           ELSE IF next > Len(body) + 1 THEN {}
           ELSE {<<[kind |-> body[at], value |-> SubSeq(body, at + head, next - 1)]>> \o rest :
                   rest \in from[next]}
  IN from[1]

-----------------------------------------------------------------------------
(* The settings.                                                           *)

TagLen == 2

\* put
Put(tag, value) == <<tag, Len(value)>> \o value

Encoded(records) ==
  LET tags == SetToSortSeq(DOMAIN records, LAMBDA a, b : a < b)
  IN FlattenSeq([i \in DOMAIN tags |-> Put(tags[i], records[tags[i]])])

Region(page) == Lesser(StoreBytes, Len(page))

\* keystore_save: the whole region, its tail blanked, unless it is that already.
KeystoreSave(page, records) ==
  LET region == Region(page)
      new == Over([i \in 1..region |-> Blank], 0, Stamped(StoreMagic, Encoded(records)))
  IN IF \/ \E t \in DOMAIN records : Len(records[t]) > MaxValue
        \/ HeaderLen + Len(Encoded(records)) > region
       THEN {}
       ELSE {[page |-> IF Slice(page, 0, region) = new THEN page ELSE Over(page, 0, new),
              wrote |-> Slice(page, 0, region) # new]}

\* _stored: the body, found by the header's own word.
StoredBody(page) ==
  IF Len(page) < HeaderLen THEN {}
  ELSE UNION {Verified(StoreMagic, Slice(page, 0, HeaderLen + n)) :
                n \in {m \in Claimed(StoreMagic, Slice(page, 0, HeaderLen)) :
                         HeaderLen + m <= Len(page)}}

StoreRecords(body) == Records(body, TagLen, LAMBDA at : IF at < Len(body) THEN body[at + 1] ELSE 0)

\* keystore_load: the last of a tag counts.  A damaged store is an empty one.
KeystoreLoad(page) ==
  IF StoredBody(page) = {} THEN {<<>>}
  ELSE UNION {{[t \in {rs[i].kind : i \in DOMAIN rs} |->
                  rs[CHOOSE i \in DOMAIN rs : rs[i].kind = t /\ \A j \in DOMAIN rs :
                       rs[j].kind = t => j <= i].value] : rs \in StoreRecords(body)} :
                body \in StoredBody(page)}

\* keystore_one: the first of a tag.
KeystoreOne(page, tag) ==
  UNION {UNION {{rs[i].value : i \in {j \in DOMAIN rs : rs[j].kind = tag /\ \A k \in 1..(j - 1) :
                                         rs[k].kind # tag}} : rs \in StoreRecords(body)} :
           body \in StoredBody(page)}

\* keystore_provision: an empty set takes a record away.
Provision(page, changes) ==
  UNION {LET kept == DOMAIN old \ DOMAIN changes
             put == {t \in DOMAIN changes : changes[t] # {}}
         IN KeystoreSave(page, [t \in kept \cup put |->
              IF t \in put THEN CHOOSE v \in changes[t] : TRUE ELSE old[t]]) :
           old \in KeystoreLoad(page)}

\* keystore_erase
KeystoreErase(page) == KeystoreSave(page, <<>>)

-----------------------------------------------------------------------------
(* Where the cache is.                                                     *)

\* _cache_region
CacheRoom(page) == IF Len(page) < CacheStart + CacheBytes THEN 0 ELSE CacheBytes

\* read_cache: a prefix.
ReadCache(page, size) == Slice(page, CacheStart, Lesser(size, CacheRoom(page)))

\* _unchanged
Unchanged(page, blob) == \A i \in 1..Len(blob) : page[CacheStart + i] = blob[i]

\* write_cache: the front of the region, unless it begins like that already.
WriteCache(page, blob) ==
  LET asked == CacheRoom(page) # 0 /\ blob # <<>>
      wrote == asked /\ ~Unchanged(page, blob)
  IN IF asked /\ Len(blob) > CacheRoom(page) THEN {}
     ELSE {[page |-> IF wrote THEN Over(page, CacheStart, blob) ELSE page, wrote |-> wrote]}

-----------------------------------------------------------------------------
(* The cache's records.                                                    *)

KindLen == 3
Node == 1
Message == 2
NodeFixed == 14
MessageFixed == 20

Hops(byte) == IF byte = 0 THEN {} ELSE {byte - 1}
PackHops(hops) == IF hops = {} THEN 0 ELSE Lesser((CHOOSE h \in hops : TRUE) + 1, 255)

\* A quarter of a decibel, in two's complement; -128 is none.
Snr(byte) == IF byte = 128 THEN {} ELSE {IF byte > 127 THEN byte - 256 ELSE byte}
PackSnr(snr) ==
  LET s == CHOOSE q \in snr : TRUE
      clipped == IF s < -127 THEN -127 ELSE Lesser(s, 127)
  IN IF snr = {} THEN 128 ELSE (clipped + 256) % 256

\* put_name: one that is too long is not cut short, it is left out.
NameBytes(name) ==
  IF name = {} \/ \E n \in name : Len(n) > 254 THEN <<255>>
  ELSE LET n == CHOOSE m \in name : TRUE IN <<Len(n)>> \o n

Record(kind, payload) == <<kind>> \o U16(Len(payload)) \o payload

\* _peer_record and write_peer
PeerBytes(p) ==
  Record(Node, p.num \o p.age \o U16(Lesser(p.count, 65535))
                 \o <<PackHops(p.hops), p.hw, p.role, PackSnr(p.snr)>>
                 \o NameBytes(p.short) \o NameBytes(p.long))

\* _message_record and write_message
MessageBytes(m) ==
  Record(Message, m.id \o m.from \o m.to \o m.time
                    \o <<IF m.read THEN 1 ELSE 0, m.channel, PackHops(m.hops), PackSnr(m.snr)>>
                    \o m.text)

\* take_name: a name and where the next byte is, within a payload.
TakeName(payload, at) ==
  IF at > Len(payload) THEN {}
  ELSE IF payload[at] = 255 THEN {[name |-> {}, next |-> at + 1]}
  ELSE IF at + payload[at] > Len(payload) THEN {}
  ELSE {[name |-> {SubSeq(payload, at + 1, at + payload[at])}, next |-> at + 1 + payload[at]]}

\* read_peer and _restore_peer, which decodes both names.
ReadPeer(b) ==
  IF Len(b) < NodeFixed THEN {}
  ELSE UNION {{[num |-> SubSeq(b, 1, 4), age |-> SubSeq(b, 5, 8), count |-> b[9] + 256 * b[10],
                hops |-> Hops(b[11]), hw |-> b[12], role |-> b[13], snr |-> Snr(b[14]),
                short |-> short.name, long |-> long.name] :
                  long \in {l \in TakeName(b, short.next) :
                              \A n \in short.name \cup l.name : IsText(n)}} :
                short \in TakeName(b, NodeFixed + 1)}

\* read_message and _restore_message, which takes text only.
ReadMessage(b) ==
  IF Len(b) < MessageFixed THEN {}
  ELSE {m \in {[id |-> SubSeq(b, 1, 4), from |-> SubSeq(b, 5, 8), to |-> SubSeq(b, 9, 12),
                time |-> SubSeq(b, 13, 16), read |-> b[17] % 2 = 1, channel |-> b[18],
                hops |-> Hops(b[19]), snr |-> Snr(b[20]),
                text |-> SubSeq(b, MessageFixed + 1, Len(b))]} : IsText(m.text)}

-----------------------------------------------------------------------------
(* The cache.                                                              *)

Total(seqs) == FoldSeq(LAMBDA s, n : n + Len(s), 0, seqs)

\* _fill: up to the first that does not fit.
Fill(records, room) ==
  LET n == CHOOSE k \in 0..Len(records) :
             /\ Total(SubSeq(records, 1, k)) <= room
             /\ k < Len(records) => Total(SubSeq(records, 1, k + 1)) > room
  IN SubSeq(records, 1, n)

\* cache_blob: peers and messages come newest first and are written oldest
\* first; messages have what the peers leave.
CacheBlob(peers, messages) ==
  LET room == CacheBytes - HeaderLen
      ps == Fill([i \in DOMAIN peers |-> PeerBytes(peers[i])], Lesser(NodeBytes, room))
      ms == Fill([i \in DOMAIN messages |-> MessageBytes(messages[i])], room - Total(ps))
  IN Stamped(CacheMagic, FlattenSeq(Reverse(ps) \o Reverse(ms)))

CacheSave(page, peers, messages) == WriteCache(page, CacheBlob(peers, messages))

\* _saved: the header first, then as much as it claims.
SavedBytes(page) ==
  UNION {{ReadCache(page, HeaderLen + n)} : n \in Claimed(CacheMagic, ReadCache(page, HeaderLen))}

\* The cache's records, as far as they can be walked: what is cut ends it.
Walked(body) ==
  LET from[at \in 1..(Len(body) + 1)] ==
        LET next == at + KindLen + body[at + 1] + 256 * body[at + 2]
        IN IF at + KindLen > Len(body) + 1 \/ next > Len(body) + 1 THEN <<>>
           ELSE <<[kind |-> body[at], value |-> SubSeq(body, at + KindLen, next - 1)]>> \o from[next]
  IN from[1]

Restored(r) ==
  CASE r.kind = Node -> {[peer |-> p] : p \in ReadPeer(r.value)}
    [] r.kind = Message -> {[message |-> m] : m \in ReadMessage(r.value)}
    [] OTHER -> {}

\* cache_load: what is put back, in order, up to the first record that raises;
\* other kinds are walked past.
CacheLoad(page) ==
  UNION {UNION {LET rs == Walked(body)
                    known == SelectSeq(rs, LAMBDA r : r.kind \in {Node, Message})
                    good == {n \in 0..Len(known) : \A i \in 1..n : Restored(known[i]) # {}}
                    n == CHOOSE k \in good : \A j \in good : j <= k
                IN {[i \in 1..n |-> CHOOSE v \in Restored(known[i]) : TRUE]} :
                  body \in Verified(CacheMagic, raw)} : raw \in SavedBytes(page)}

\* cache_erase: the header is enough.
CacheErase(page) == WriteCache(page, [i \in 1..HeaderLen |-> Blank])

-----------------------------------------------------------------------------
(* Properties.                                                             *)

CacheOf(page) == Slice(page, CacheStart, CacheRoom(page))

\* What is provisioned is read back, one by one and all together, whatever was
\* there; nothing of a longer record that was there is left, and the cache is
\* as it was.  The second time costs nothing.
StoreBack(page, records) ==
  \A new \in KeystoreSave(page, records) :
    /\ KeystoreLoad(new.page) = {records}
    /\ \A t \in DOMAIN records : KeystoreOne(new.page, t) = {records[t]}
    /\ \A i \in (HeaderLen + Len(Encoded(records)) + 1)..StoreBytes : new.page[i] = Blank
    /\ CacheOf(new.page) = CacheOf(page)
    /\ KeystoreSave(new.page, records) = {[page |-> new.page, wrote |-> FALSE]}

\* Of the newest peers and messages as many are saved as fit, none of them for
\* an older one, and come back oldest first with the time and the names they
\* had; whatever an older and longer save left behind is not looked at.
CacheBack(page, peers, messages) ==
  \A new \in CacheSave(page, peers, messages) : \A back \in CacheLoad(new.page) :
    LET ps == SelectSeq(back, LAMBDA r : "peer" \in DOMAIN r)
        ms == SelectSeq(back, LAMBDA r : "message" \in DOMAIN r)
    IN /\ back = ps \o ms
       /\ \A i \in DOMAIN ps : ps[i].peer = peers[Len(ps) + 1 - i]
       /\ \A i \in DOMAIN ms : ms[i].message = messages[Len(ms) + 1 - i]
       /\ Slice(new.page, 0, StoreBytes) = Slice(page, 0, StoreBytes)
       /\ CacheSave(new.page, peers, messages) = {[page |-> new.page, wrote |-> FALSE]}

\* The blob fits whatever is saved, and is readable.
CacheFits(page, peers, messages) ==
  CacheRoom(page) > 0 =>
    \A new \in CacheSave(page, peers, messages) : CacheLoad(new.page) # {}

=============================================================================
