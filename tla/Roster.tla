-------------------------------- MODULE Roster --------------------------------
(***************************************************************************)
(* The roster's table byte by byte: a row's fields by where roster.rs puts  *)
(* them, and by the layout the host bench states for all of them at once    *)
(* (hoststub.py:492).  Offsets count from 0.  A word is below 2^31; a time  *)
(* is four bytes nobody looks into.  A value that may be missing is a set   *)
(* of at most one, and {} where a call raises.                              *)
(***************************************************************************)
EXTENDS Integers, Sequences, SequencesExt

RowBytes == 24

\* Where a row's fields are.
AtNum == 0
AtFirst == 4
AtLast == 8
AtSeen == 12
AtCount == 16
AtHops == 18
AtHw == 19
AtRole == 20
AtSnr == 21
AtRssi == 22

U16(n) == <<n % 256, (n \div 256) % 256>>
U32(n) == U16(n % 65536) \o U16(n \div 65536)
U16At(b, k) == b[k + 1] + 256 * b[k + 2]
U32At(b, k) == U16At(b, k) + 65536 * U16At(b, k + 2)
Put(b, k, bytes) == [i \in 1..Len(b) |-> IF i - k \in 1..Len(bytes) THEN bytes[i - k] ELSE b[i]]

\* Two's complement of so many values.
Signed(n, span) == IF n < span \div 2 THEN n ELSE n - span
Clipped(n, low, high) == IF n < low THEN low ELSE IF n > high THEN high ELSE n

\* pack_hops, pack_snr and pack_rssi
PackHops(hops) == IF \E h \in hops : h >= 0 THEN Clipped(1 + CHOOSE h \in hops : TRUE, 0, 255) ELSE 0
PackSnr(snr) == IF snr = {} THEN 128 ELSE Clipped(CHOOSE s \in snr : TRUE, -127, 127) % 256
PackRssi(rssi) == U16(IF rssi = {} THEN 0 ELSE Clipped(CHOOSE r \in rssi : TRUE, -32768, 0) % 65536)

-----------------------------------------------------------------------------
(* The crate.                                                              *)

Rows(table) == {RowBytes * i : i \in 0..(Len(table) \div RowBytes - 1)}
Lowest(S) == {at \in S : \A other \in S : at <= other}

Held(table) == {at \in Rows(table) : U32At(table, at + AtNum) # 0}

\* slot, free and used
Slot(table, num) == IF num = 0 THEN {} ELSE Lowest({at \in Rows(table) : U32At(table, at + AtNum) = num})
FreeRow(table) == Lowest(Rows(table) \ Held(table))
Used(table) == Len(SetToSeq(Held(table)))

\* oldest: of rows as old as each other the first.
OldestRow(table) ==
  Lowest({at \in Held(table) : \A other \in Held(table) :
            U32At(table, at + AtSeen) <= U32At(table, other + AtSeen)})

\* read, and what the shim makes of it: what was not known is none.
ReadRow(table, at) ==
  [num |-> U32At(table, at + AtNum), first |-> SubSeq(table, at + AtFirst + 1, at + AtLast),
   last |-> SubSeq(table, at + AtLast + 1, at + AtSeen), seen |-> U32At(table, at + AtSeen),
   count |-> U16At(table, at + AtCount), hops |-> {table[at + AtHops + 1] - 1} \ {-1},
   hw |-> table[at + AtHw + 1], role |-> table[at + AtRole + 1],
   snr |-> {Signed(table[at + AtSnr + 1], 256)} \ {-128},
   rssi |-> {Signed(U16At(table, at + AtRssi), 65536)} \ {0}]

\* touch
Touch(table, at, num, now, tick, hops, snr, rssi) ==
  LET named == IF U32At(table, at + AtNum) = 0
                 THEN Put(Put(table, at + AtNum, U32(num)), at + AtFirst, now) ELSE table
      count == U16At(table, at + AtCount)
  IN Put(Put(Put(Put(Put(Put(named, at + AtLast, now), at + AtSeen, U32(tick)),
         at + AtCount, U16(Clipped(count + 1, 0, 65535))), at + AtHops, <<PackHops(hops)>>),
         at + AtSnr, <<PackSnr(snr)>>), at + AtRssi, PackRssi(rssi))

\* restore
RestoreRow(table, at, num, when, tick, count, hops, hw, role, snr) ==
  Put(table, at, U32(num) \o when \o when \o U32(tick) \o U16(Clipped(count, 0, 65535))
                   \o <<PackHops(hops), hw, role, PackSnr(snr)>> \o PackRssi({}))

\* identify and clear
Identify(table, at, hw, role) == Put(table, at + AtHw, <<hw, role>>)
Clear(table, at) == Put(table, at, [i \in 1..RowBytes |-> 0])

-----------------------------------------------------------------------------
(* The bench.                                                              *)

\* _ROW: the widths of a row's fields, in order, and where each begins.
Layout == <<4, 4, 4, 4, 2, 1, 1, 1, 1, 2>>
Begins(n) == FoldSeq(LAMBDA w, sum : w + sum, 0, SubSeq(Layout, 1, n - 1))
Unpacked(table, at) ==
  [n \in DOMAIN Layout |-> SubSeq(table, at + Begins(n) + 1, at + Begins(n) + Layout[n])]
Little(bytes) == FoldRight(LAMBDA b, n : b + 256 * n, bytes, 0)

\* _row_at
BenchRowAt(table, at) == {at} \cap {k \in 0..(Len(table) - RowBytes) : k % RowBytes = 0}

\* range(0, len(table) - ROW_BYTES + 1, ROW_BYTES)
BenchRows(table) == {k \in 0..(Len(table) - RowBytes) : k % RowBytes = 0}
BenchNum(table, at) == Little(Unpacked(table, at)[1])

\* roster_slot, roster_free, roster_oldest and roster_used
BenchSlot(table, num) == Lowest({at \in BenchRows(table) : num # 0 /\ BenchNum(table, at) = num})
BenchFree(table) == Lowest({at \in BenchRows(table) : BenchNum(table, at) = 0})
BenchOldest(table) ==
  LET seen(at) == Little(Unpacked(table, at)[4])
      held == {at \in BenchRows(table) : BenchNum(table, at) # 0}
  IN {at \in held : \A other \in held : seen(at) < seen(other) \/ (seen(at) = seen(other) /\ at <= other)}
BenchUsed(table) == Len(SetToSeq({at \in BenchRows(table) : BenchNum(table, at) # 0}))

\* roster_read
BenchRead(table, at) ==
  LET f == Unpacked(table, at)
      hops == Little(f[6])
      snr == Signed(Little(f[9]), 256)
      rssi == Signed(Little(f[10]), 65536)
  IN [num |-> Little(f[1]), first |-> f[2], last |-> f[3], seen |-> Little(f[4]),
      count |-> Little(f[5]), hops |-> IF hops = 0 THEN {} ELSE {hops - 1},
      hw |-> Little(f[7]), role |-> Little(f[8]), snr |-> IF snr = -128 THEN {} ELSE {snr},
      rssi |-> IF rssi = 0 THEN {} ELSE {rssi}]

\* roster_touch
BenchTouch(table, at, num, now, tick, hops, snr, rssi) ==
  LET fresh == IF BenchNum(table, at) = 0 THEN Put(table, at, U32(num) \o now) ELSE table
      dated == Put(fresh, at + 8, now \o U32(tick))
      count == Little(Unpacked(table, at)[5])
      counted == IF count < 65535 THEN Put(dated, at + 16, U16(count + 1)) ELSE dated
  IN Put(Put(Put(counted, at + 18, <<PackHops(hops)>>), at + 21, <<PackSnr(snr)>>),
         at + 22, PackRssi(rssi))

\* roster_restore, roster_identify and roster_clear
BenchRestore(table, at, num, when, tick, count, hops, hw, role, snr) ==
  Put(table, at, FlattenSeq(<<U32(num), when, when, U32(tick),
        U16(IF count > 65535 THEN 65535 ELSE count), <<PackHops(hops)>>, <<hw>>, <<role>>,
        <<PackSnr(snr)>>, <<0, 0>>>>))
BenchIdentify(table, at, hw, role) == Put(Put(table, at + 19, <<hw % 256>>), at + 20, <<role % 256>>)
BenchClear(table, at) == [i \in 1..Len(table) |-> IF i \in (at + 1)..(at + RowBytes) THEN 0 ELSE table[i]]

-----------------------------------------------------------------------------
(* Properties.                                                             *)

\* The two find the same rows in a table and see the same in each.
SameScans(table, nums) ==
  /\ BenchRows(table) = Rows(table)
  /\ \A at \in 0..Len(table) : BenchRowAt(table, at) = {at} \cap Rows(table)
  /\ \A n \in nums : BenchSlot(table, n) = Slot(table, n)
  /\ BenchFree(table) = FreeRow(table)
  /\ BenchOldest(table) = OldestRow(table)
  /\ BenchUsed(table) = Used(table)
  /\ \A at \in Rows(table) : BenchRead(table, at) = ReadRow(table, at)

\* Each writes what the other writes, and nothing of another row.
SameWrites(table, num, now, tick, hops, snr, rssi) ==
  \A at \in Rows(table) :
    LET touched == Touch(table, at, num, now, tick, hops, snr, rssi)
        back == RestoreRow(table, at, num, now, tick, 70000, hops, 9, 3, snr)
    IN /\ BenchTouch(table, at, num, now, tick, hops, snr, rssi) = touched
       /\ BenchRestore(table, at, num, now, tick, 70000, hops, 9, 3, snr) = back
       /\ BenchIdentify(table, at, 9, 3) = Identify(table, at, 9, 3)
       /\ BenchClear(table, at) = Clear(table, at)
       /\ \A other \in Rows(table) \ {at} : \A new \in {touched, back, Identify(table, at, 9, 3), Clear(table, at)} :
            ReadRow(new, other) = ReadRow(table, other)
       /\ ReadRow(touched, at).hops = hops /\ ReadRow(touched, at).snr = snr
       /\ ReadRow(touched, at).rssi = rssi \ {0}

=============================================================================
