----------------------------- MODULE BenchFlash -----------------------------
(***************************************************************************)
(* The host bench's own reading of the page (hoststub.py), by positions in  *)
(* the whole of it rather than body by body.  Positions count from 0; where *)
(* a record ends is what the next call is given.                            *)
(***************************************************************************)
EXTENDS Flash

At(raw, k) == raw[k + 1]
Bytes(raw, k, n) == SubSeq(raw, k + 1, k + n)

\* cache_length and store_length
BenchLength(magic, head) ==
  IF Len(head) < HeaderLen \/ Bytes(head, 0, 4) # magic THEN {} ELSE {At(head, 4) + 256 * At(head, 5)}

\* cache_verify and store_verify: where the records end.
BenchVerify(magic, raw) ==
  LET ends == {HeaderLen + n : n \in BenchLength(magic, raw)}
  IN {e \in ends : e <= Len(raw) /\ Crc(Bytes(raw, HeaderLen, e - HeaderLen)) = Bytes(raw, 6, 4)}

\* cache_finish and store_finish: over the front of a buffer.
BenchFinish(magic, out, used) ==
  IF HeaderLen + used > Len(out) THEN {}
  ELSE {Over(out, 0, magic \o U16(used) \o Crc(Bytes(out, HeaderLen, used)))}

\* Where a record is, and where the next one; or that there is none.
Place(kind, off, size) == [kind |-> kind, off |-> off, size |-> size, next |-> off + size]
End == [kind |-> 0, off |-> 0, size |-> 0, next |-> 0]

\* store_record
BenchStoreRecord(raw, at, end) ==
  IF at + TagLen > end THEN {End}
  ELSE {p \in {Place(At(raw, at), at + TagLen, At(raw, at + 1))} : p.next <= end}

\* cache_record
BenchCacheRecord(raw, at, end) ==
  IF at + KindLen > end THEN {End}
  ELSE {p \in {Place(At(raw, at), at + KindLen, At(raw, at + 1) + 256 * At(raw, at + 2))} :
          p.next <= end}

\* store_put
BenchPut(out, at, tag, value) ==
  LET end == at + TagLen + Len(value)
  IN IF Len(value) > MaxValue \/ end > Len(out) THEN {}
     ELSE {[out |-> Over(out, at, <<tag, Len(value)>> \o value), next |-> end]}

\* _name_len, cache_peer_len and cache_message_len
BenchNameLen(name) == IF name = {} \/ \E n \in name : Len(n) > 254 THEN 1
                      ELSE 1 + Len(CHOOSE n \in name : TRUE)
BenchPeerLen(short, long) == KindLen + NodeFixed + BenchNameLen(short) + BenchNameLen(long)
BenchMessageLen(text) == KindLen + MessageFixed + text

\* _put_name
BenchPutName(out, at, name) ==
  IF BenchNameLen(name) = 1 /\ name # {<<>>} THEN [out |-> Over(out, at, <<255>>), next |-> at + 1]
  ELSE LET n == CHOOSE m \in name : TRUE
       IN [out |-> Over(out, at, <<Len(n)>> \o n), next |-> at + 1 + Len(n)]

\* _pack_hops and _pack_snr
BenchHops(hops) == IF \A h \in hops : h < 0 THEN 0 ELSE Lesser(1 + CHOOSE h \in hops : TRUE, 255)
BenchSnr(snr) ==
  IF snr = {} THEN 128
  ELSE LET s == Lesser(127, CHOOSE q \in snr : TRUE)
           t == IF s > -127 THEN s ELSE -127
       IN IF t < 0 THEN t + 256 ELSE t

\* cache_write_peer
BenchWritePeer(out, at, p) ==
  LET size == BenchPeerLen(p.short, p.long)
      head == <<Node>> \o U16(size - KindLen) \o p.num \o p.age \o U16(Lesser(p.count, 65535))
                \o <<BenchHops(p.hops), p.hw, p.role, BenchSnr(p.snr)>>
      first == BenchPutName(Over(out, at, head), at + KindLen + NodeFixed, p.short)
  IN IF at + size > Len(out) THEN {} ELSE {BenchPutName(first.out, first.next, p.long)}

\* cache_write_message
BenchWriteMessage(out, at, m) ==
  LET size == BenchMessageLen(Len(m.text))
      head == <<Message>> \o U16(size - KindLen) \o m.id \o m.from \o m.to \o m.time
                \o <<IF m.read THEN 1 ELSE 0, m.channel, BenchHops(m.hops), BenchSnr(m.snr)>>
  IN IF at + size > Len(out) THEN {}
     ELSE {[out |-> Over(Over(out, at, head), at + KindLen + MessageFixed, m.text),
            next |-> at + size]}

\* _take_name
BenchTakeName(raw, at, end) ==
  IF at >= end THEN {}
  ELSE IF At(raw, at) = 255 THEN {[name |-> {}, next |-> at + 1]}
  ELSE IF at + 1 + At(raw, at) > end THEN {}
  ELSE {[name |-> {Bytes(raw, at + 1, At(raw, at))}, next |-> at + 1 + At(raw, at)]}

\* cache_read_peer
BenchReadPeer(raw, off, length) ==
  IF length < NodeFixed THEN {}
  ELSE UNION {{[num |-> Bytes(raw, off, 4), age |-> Bytes(raw, off + 4, 4),
                count |-> At(raw, off + 8) + 256 * At(raw, off + 9), hops |-> Hops(At(raw, off + 10)),
                hw |-> At(raw, off + 11), role |-> At(raw, off + 12), snr |-> Snr(At(raw, off + 13)),
                short |-> short.name, long |-> long.name] :
                  long \in BenchTakeName(raw, short.next, off + length)} :
                short \in BenchTakeName(raw, off + NodeFixed, off + length)}

\* cache_read_message
BenchReadMessage(raw, off, length) ==
  IF length < MessageFixed THEN {}
  ELSE {[id |-> Bytes(raw, off, 4), from |-> Bytes(raw, off + 4, 4), to |-> Bytes(raw, off + 8, 4),
         time |-> Bytes(raw, off + 12, 4), read |-> At(raw, off + 16) % 2 = 1,
         channel |-> At(raw, off + 17), hops |-> Hops(At(raw, off + 18)),
         snr |-> Snr(At(raw, off + 19)), text |-> Bytes(raw, off + MessageFixed, length - MessageFixed)]}

-----------------------------------------------------------------------------
(* Properties.                                                             *)

\* Both find the same body behind a header, or none.
SameBody(magic, raw) ==
  Verified(magic, raw) = {Bytes(raw, HeaderLen, e - HeaderLen) : e \in BenchVerify(magic, raw)}

\* And both put the same one there.
SameHeader(magic, out, used) ==
  \A new \in BenchFinish(magic, out, used) :
    new = Over(out, 0, Stamped(magic, Bytes(out, HeaderLen, used)))

\* And the same records in it, one call after the other.
SameRecords(raw, Read(_, _, _), Expected) ==
  LET from[at \in 0..Len(raw)] ==
        UNION {IF p = End THEN {<<>>}
               ELSE {<<[kind |-> p.kind, value |-> Bytes(raw, p.off, p.size)]>> \o rest :
                       rest \in from[p.next]} : p \in Read(raw, at, Len(raw))}
  IN from[0] = Expected

\* Whatever a peer or a message is, the bench writes the bytes the board would,
\* at the place it is told, and reads back what the board would (hoststub.py:610).
SamePeer(out, at, p) ==
  LET size == Len(PeerBytes(p))
  IN /\ \A w \in BenchWritePeer(out, at, p) :
          /\ w.out = Over(out, at, PeerBytes(p)) /\ w.next = at + size
          /\ (\A n \in p.short \cup p.long : IsText(n)) =>
               BenchReadPeer(w.out, at + KindLen, size - KindLen)
                 = ReadPeer(SubSeq(PeerBytes(p), KindLen + 1, size))
     /\ (BenchWritePeer(out, at, p) = {}) = (at + size > Len(out))

SameMessage(out, at, m) ==
  LET size == Len(MessageBytes(m))
  IN /\ \A w \in BenchWriteMessage(out, at, m) :
          /\ w.out = Over(out, at, MessageBytes(m)) /\ w.next = at + size
          /\ IsText(m.text) =>
               BenchReadMessage(w.out, at + KindLen, size - KindLen)
                 = ReadMessage(SubSeq(MessageBytes(m), KindLen + 1, size))
     /\ (BenchWriteMessage(out, at, m) = {}) = (at + size > Len(out))

\* A payload that either cannot read the other cannot.
SameRefusals(b) ==
  (\A n \in UNION {p.short \cup p.long : p \in BenchReadPeer(b, 0, Len(b))} : IsText(n)) =>
    BenchReadPeer(b, 0, Len(b)) = ReadPeer(b)

=============================================================================
