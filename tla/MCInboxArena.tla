----------------------------- MODULE MCInboxArena -----------------------------
(* Small instances of InboxArena.  A is a one-byte character, Lead and Cont  *)
(* make one of two.                                                          *)
EXTENDS BenchArena

A == 7

SomeTexts == {<<>>, <<Lead, Cont>>, <<A, Lead, Cont>>, <<Lead>>}

-----------------------------------------------------------------------------
(* The bench's arena.                                                      *)

Arenas ==
  LET one == {<<Code(w, r), Len(t)>> \o t : w \in Wheres, r \in BOOLEAN, t \in {<<>>, <<A>>, <<Lead, Cont>>}}
  IN {b \in {FlattenSeq(rs) : rs \in UNION {[1..n -> one] : n \in 0..Limit}} : Len(b) <= Cap}

Longer == SomeTexts \cup {<<A, A, A, Lead, Cont>>, <<A, Lead, Cont, A, A>>, <<A, A, A, A>>}

\* The bench keeps messages as the board does.
ASSUME BenchArenaAlike == \A b \in Arenas, t \in Longer : SameArena(b, Code(0, FALSE), t)

-----------------------------------------------------------------------------
(* The page it is saved in: forty bytes of settings and a hundred of cache.  *)

Sum8(bytes) == FoldSeq(LAMBDA b, n : (3 * n + b + 1) % 256, 7, bytes)
Checksum(bytes) == <<Sum8(bytes), Sum8(Reverse(bytes)), Len(bytes) % 256, 77>>
Ascii(bytes) == \A i \in DOMAIN bytes : bytes[i] \in 32..126

KeyMagic == <<77, 75, 89, 49>>
KeepMagic == <<77, 75, 67, 49>>

F == INSTANCE BenchFlash WITH
  StoreBytes <- 40, CacheBytes <- 100, NodeBytes <- 45,
  StoreMagic <- KeyMagic, CacheMagic <- KeepMagic,
  Crc <- Checksum, IsText <- Ascii

Settings ==
  LET values == {{}, {<<1, 0, 0, 0>>}, {<<>>}, {[i \in 1..20 |-> 65]}}
  IN {[t \in {u \in {2, 7, 12} : v[u] # {}} |-> CHOOSE x \in v[t] : TRUE] : v \in [{2, 7, 12} -> values]}

Peer(num, hops, snr, short, long) ==
  [num |-> <<num, 0, 0, 0>>, age |-> <<60, 0, 0, 0>>, count |-> 70, hops |-> hops, hw |-> 255,
   role |-> 0, snr |-> snr, short |-> short, long |-> long]

Saying(id, time, read, hops, text) ==
  [id |-> <<id, 0, 0, 0>>, from |-> <<2, 0, 0, 0>>, to |-> <<255, 255, 255, 255>>,
   time |-> <<time, 0, 0, 0>>, read |-> read, channel |-> 31, hops |-> hops, snr |-> {-3}, text |-> text]

Neighbours ==
  {Peer(n, h, s, short, long) : n \in {2}, h \in {{}, {0}, {254}}, s \in {{}, {-127}, {127}},
     short \in {{}, {<<>>}, {<<65, 66>>}, {[i \in 1..255 |-> 65]}}, long \in {{}, {<<76>>}}}

Spoken ==
  {Saying(i, t, r, h, text) : i \in {1, 2}, t \in {0, 9}, r \in BOOLEAN, h \in {{}, {7}},
     text \in {<<>>, <<72, 73>>}}

Rosters == {<<>>, <<Peer(2, {}, {}, {}, {})>>, <<Peer(2, {0}, {-127}, {<<65, 66>>}, {<<76>>}), Peer(3, {}, {}, {}, {})>>,
            <<Peer(2, {0}, {-127}, {<<65, 66>>}, {<<76>>}), Peer(3, {1}, {5}, {<<65, 66>>}, {<<76>>})>>}
Talks == {<<>>, <<Saying(1, 0, TRUE, {}, <<72, 73>>)>>,
          <<Saying(2, 9, FALSE, {7}, <<>>), Saying(1, 0, TRUE, {}, <<72, 73>>)>>,
          <<Saying(3, 9, FALSE, {7}, [i \in 1..40 |-> 72]), Saying(1, 0, TRUE, {}, <<72, 73>>)>>}

BlankPage == [i \in 1..140 |-> 255]
Filled ==
  {new.page : new \in UNION {F!CacheSave(p, ps, ms) : p \in
     {new.page : new \in UNION {F!KeystoreSave(BlankPage, r) : r \in {[t \in {2} |-> <<9, 9>>]}}},
     ps \in Rosters, ms \in Talks}}

\* What is stored is read back, whatever the page held, and costs an erase once.
ASSUME PageKeepsIt ==
  /\ \A p \in Filled \cup {BlankPage}, r \in Settings : F!StoreBack(p, r)
  /\ \A p \in Filled \cup {BlankPage}, ps \in Rosters, ms \in Talks :
       F!CacheBack(p, ps, ms) /\ F!CacheFits(p, ps, ms)
  /\ \A p \in Filled : \A new \in F!CacheErase(p) : new.wrote /\ F!CacheLoad(new.page) = {}
  /\ \A p \in Filled : \A new \in F!KeystoreErase(p) :
       F!KeystoreOne(new.page, 2) = {} /\ F!CacheLoad(new.page) = F!CacheLoad(p)
  /\ \E p \in Filled : \E back \in F!CacheLoad(p) : Len(back) = 3
  /\ \E r \in Settings : F!KeystoreSave(BlankPage, r) = {}

\* The bench writes and reads the same bytes.
ASSUME BenchKeepsIt ==
  /\ \A p \in Neighbours : F!SamePeer([i \in 1..30 |-> 255], 3, p)
  /\ \A m \in Spoken : F!SameMessage([i \in 1..26 |-> 255], 2, m)
  /\ \A p \in Filled : LET raw == F!ReadCache(p, 100)
                       IN F!SameBody(KeepMagic, raw) /\ F!SameBody(KeyMagic, raw)
  /\ \A p \in Filled : \A b \in F!Verified(KeepMagic, F!ReadCache(p, 100)) :
       F!SameRecords(b, F!BenchCacheRecord,
         F!Records(b, 3, LAMBDA at : IF at + 2 > Len(b) THEN 0 ELSE b[at + 1] + 256 * b[at + 2]))
  /\ \A r \in Settings : \A new \in F!KeystoreSave(BlankPage, r) :
       LET b == F!Encoded(r) IN F!SameRecords(b, F!BenchStoreRecord, F!StoreRecords(b))
  /\ \A used \in 0..20 : F!SameHeader(KeyMagic, [i \in 1..25 |-> i], used)
  /\ \A n \in 0..22 : F!SameRefusals([i \in 1..n |-> IF i = 15 THEN 4 ELSE 66])

=============================================================================
