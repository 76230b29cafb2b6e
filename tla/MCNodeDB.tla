------------------------------- MODULE MCNodeDB -------------------------------
(* Small instances of NodeDB.                                                *)
EXTENDS NodeDB, SequencesExt

Symmetry == Permutations(Peers)

-----------------------------------------------------------------------------
(* The frames that its rows come from.                                     *)

Bit(n, i) == (n \div 2 ^ i) % 2
XorBytes(a, b) == FoldSet(LAMBDA i, sum : sum + 2 ^ i * ((Bit(a, i) + Bit(b, i)) % 2), 0, 0..7)
Keystream(k, nonce) == [i \in 1..64 |-> (k[1] * i + nonce[1] + 3 * nonce[9]) % 256]
Dated(word) == word[4] > 56
Lettered(bytes) == \A i \in DOMAIN bytes : bytes[i] \in 32..126

W == INSTANCE BenchWire WITH
  Groups <- 3, MaxVarint <- 10, Stream <- Keystream, Xor <- XorBytes,
  IsDate <- Dated, IsText <- Lettered

Bodies == {<<>>, <<7>>, <<13, 1, 2, 3, 104>>, <<37, 1, 2, 3, 4>>, <<26, 2, 65, 66>>, <<26, 9>>}

Envelopes ==
  [portnum : {0, 3, 4, 67, 511}, body : Bodies, wants : BOOLEAN, bits : {{}, {300}},
   dest : {W!Zero}, request : {W!Zero}]

Sender(hop) == [num |-> <<0, 2, 3, 4>>, hop |-> hop, name |-> <<76, 70>>, key |-> <<9, 8>>]

Read(frame, k) == UNION W!Decode(frame, k, [n \in {} |-> 0], 2)

\* What is written is what is read: the message, the packet after any number
\* of relays, and the name and the time in it; and noise is refused, but for
\* what decode says of three kinds of body.
ASSUME FramesAgree ==
  \A d \in Envelopes :
    LET data == W!EncodeData(d.portnum, d.body, d.wants, d.bits)
        frame == W!Frame(Sender(3), data, <<255, 255, 255, 255>>, d.wants, <<1, 2, 3, 4>>)
    IN /\ W!DataBack(d) /\ W!CutRefused(data)
       /\ \A hop \in {0, 3, 7}, limit \in {0, 2, 3, 7} : limit <= hop =>
            W!FrameBack(Sender(hop), data, <<255, 255, 255, 255>>, d.wants, <<1, 2, 3, 4>>,
                        17, limit, [n \in {} |-> 0])
       /\ W!RaisesForBodies(frame, <<9, 8>>, [n \in {} |-> 0])
       /\ \A r \in Read(frame, <<9, 8>>) :
            /\ r.time # {} => d.portnum \in {3, 67} /\ r.time = {SubSeq(d.body, 2, 5)}
            /\ DOMAIN r.names # {} => r.names = [n \in {<<0, 2, 3, 4>>} |-> <<65, 66>>]

\* Two reads of the same kind are told apart.
ASSUME KindsRead ==
  LET kind(portnum, body) ==
        Read(W!Frame(Sender(3), W!EncodeData(portnum, body, FALSE, {}), W!Zero, FALSE, W!Zero), <<9, 8>>)
  IN /\ \E r \in kind(67, <<13, 1, 2, 3, 104>>) : r.time # {}
     /\ \E r \in kind(4, <<26, 2, 65, 66>>) : DOMAIN r.names # {}
     /\ kind(4, <<26, 9>>) = {} /\ kind(1, <<26, 9>>) # {}

-----------------------------------------------------------------------------
(* The bench's own reading of them, and what listen() shows.               *)

Bytes == {0, 1, 2, 8, 10, 13, 18, 26, 34, 48, 184, 128}
Noise == UNION {[1..n -> Bytes] : n \in 0..3}
Bodied == Noise \cup {<<head>> \o b : head \in {34, 37, 10, 26}, b \in {<<n>> \o [i \in 1..m |-> 8 + i] : n \in 0..5, m \in 0..5}}

\* Where the crate reads a buffer the bench reads the same, and it alone reads
\* some that the crate refuses.
ASSUME BenchReadsAlike ==
  /\ \A b \in Bodied : W!SameFields(b) /\ W!SameReading(b) /\ W!SameEnvelope(b)
  /\ \E b \in Bodied : W!Walk(b) = {} /\ W!BenchWalk(b) # {}
  /\ \E b \in Bodied : ~W!Numeric(b) /\ W!BenchMetrics(b, 5) # W!MetricsOf(b, 5)
  /\ \A d \in Envelopes : W!SameWriting(d)
  /\ \A n \in {1, 15, 16, 101}, v \in {0, 1, 127, 128, 16384}, b \in Bodies :
       W!SameField(n, v, <<v % 128, 0, 0, 0>>, b)
  /\ \A flags \in 0..255 : W!SameHeader([i \in 1..16 |-> IF i = 13 THEN flags ELSE i])

\* Every line has the columns of its kind.
ASSUME LinesWhole ==
  \A portnum \in {1, 3, 4, 5, 6, 70}, b \in {c \in Bodied : Len(c) # 3} :
    W!WholeSchema([portnum |-> portnum, body |-> b, time |-> {}, bits |-> {0}],
                  [portnum |-> portnum, body |-> <<>>, time |-> {}, bits |-> {}])

\* Everything that can be asked for, of a node with a name and of one without.
ASSUME QuestionsUnderstood ==
  \A what \in {"telemetry", "device", "environment", "air", "power", "energy", "stats", "health",
                "nodeinfo", "position"}, user \in {<<>>, <<26, 2, 65, 66>>}, bits \in {{}, {1}} :
    W!AsksFor(Sender(3), <<1, 2, 3, 4>>, what, user, bits, <<9, 9, 9, 9>>)

-----------------------------------------------------------------------------
(* The rows, byte by byte.                                                 *)

R == INSTANCE Roster
Counting == INSTANCE NodeDB WITH
  Peers <- {1, 2, 513}, Free <- 0, Senders <- {1, 2, 513, 0}, Limit <- 3, CountMax <- 65535,
  Names <- {}, Ids <- (0..255) \X (0..255), Unset <- <<>>, Absent <- "none"

Then == <<0, 1, 2, 104>>
RowsOf == {<<0, 0, 0>>, <<1, 5, 65535>>, <<2, 5, 1>>, <<513, 4, 65534>>, <<1, 300, 0>>}
Written(r) == R!RestoreRow([i \in 1..24 |-> 0], 0, r[1], Then, r[2], r[3], {3}, 43, 2, {-7})
Tables == {FlattenSeq([i \in 1..3 |-> Written(rows[i])]) : rows \in [1..3 -> RowsOf]}
Nums == {0, 1, 2, 513}

\* As NodeDB has it.
RowsIn(t) ==
  [i \in 1..3 |-> LET r == R!ReadRow(t, 24 * (i - 1))
                  IN [num |-> r.num, seen |-> r.seen, count |-> r.count, id |-> <<r.hw, r.role>>]]
Numbered(S) == {at \div 24 + 1 : at \in S}

\* NodeDB's rows are the bytes', as its scans and its sightings are; and the
\* bench has both alike.
ASSUME RowsAreBytes ==
  /\ \A t \in Tables :
       /\ R!SameScans(t, Nums)
       /\ Numbered(R!OldestRow(t)) = Counting!Oldest(RowsIn(t))
       /\ Numbered(R!FreeRow(t)) = Counting!First(Counting!At(RowsIn(t), 0))
       /\ R!Used(t) = Cardinality(Counting!Occupied(RowsIn(t)))
       /\ \A n \in Nums \ {0} : Numbered(R!Slot(t, n)) = Counting!First(Counting!At(RowsIn(t), n))
       /\ \A i \in 1..3, n \in {2, 513} :
            RowsIn(R!Touch(t, 24 * (i - 1), n, Then, 70000, {1}, {}, {-90}))
              = [RowsIn(t) EXCEPT ![i] = Counting!Touched(@, n, 70000)]
  /\ \A hops \in {{}, {0}, {7}, {254}}, snr \in {{}, {-127}, {127}}, rssi \in {{}, {0}, {-32768}} :
       \A t \in {Written(r) : r \in RowsOf} : R!SameWrites(t \o t, 513, Then, 65536, hops, snr, rssi)
  /\ R!PackHops({-1}) = 0 /\ R!PackHops({300}) = 255
  /\ R!PackSnr({-128}) = R!PackSnr({-127}) /\ R!PackRssi({1}) = R!PackRssi({})

=============================================================================
