---------------------------------- MODULE Nmea ----------------------------------
(***************************************************************************)
(* The receiver's sentences byte by byte (nmea.rs) and the reader that      *)
(* polls the UART for them (gps.py): lines put together out of whatever     *)
(* arrives, their checksums, their fields as scaled integers, and the fix   *)
(* they leave.  A byte is its ASCII code.  What a function may not return,  *)
(* or a fix not hold, is a set of at most one.  Numbers are below 2^31.     *)
(***************************************************************************)
EXTENDS Integers, Sequences, FiniteSets, SequencesExt, FiniteSetsExt

CONSTANTS
  PendingMax,  \* bytes of a line kept, its end not among them (84 in the code)
  Talkers,     \* constellations told apart (8 in the code)
  ChunkMax,    \* most bytes of one read of the UART (256 in the code)
  Line         \* bytes of the echo buffer per sentence kept (84 in the code)

Return == 13
Newline == 10
Comma == 44
Dollar == 36
Star == 42
Dot == 46
Minus == 45
Plus == 43
A == 65
GGA == <<71, 71, 65>>
RMC == <<82, 77, 67>>
GSV == <<71, 83, 86>>

TimeFloor == 1735689600
SawGGA == 1
SawRMC == 2
SawGSV == 4
Bad == -1

The(S) == CHOOSE x \in S : TRUE
Or(S, x) == IF S = {} THEN x ELSE The(S)
AtMost(n, limit) == IF n > limit THEN limit ELSE n
Slice(f, from, to) == SubSeq(f, from, AtMost(to, Len(f)))

-----------------------------------------------------------------------------
(* Fields.                                                                 *)

\* field: the nth from 0, what is between two commas.
Field(line, n) ==
  LET cuts == <<0>> \o SelectSeq([i \in DOMAIN line |-> i], LAMBDA i : line[i] = Comma)
                    \o <<Len(line) + 1>>
  IN IF n + 1 < Len(cuts) THEN {SubSeq(line, cuts[n + 1] + 1, cuts[n + 2] - 1)} ELSE {}

\* field(...).unwrap_or((0, 0))
FieldOr(line, n) == Or(Field(line, n), <<>>)

Number(f) == FoldLeft(LAMBDA v, c : 10 * v + (c - 48), 0, f)
AllDigits(f) == \A i \in DOMAIN f : f[i] \in 48..57

\* digits
Digits(f) == IF f = <<>> \/ ~AllDigits(f) THEN {} ELSE {Number(f)}

\* The first place of a byte in a field, or past its end.
FirstOf(f, byte) == Min({i \in DOMAIN f : f[i] = byte} \cup {Len(f) + 1})

\* scaled: digits finer than the places are dropped.
Scaled(f, places) ==
  LET signed == f # <<>> /\ Head(f) \in {Minus, Plus}
      body == IF signed THEN Tail(f) ELSE f
      dot == FirstOf(body, Dot)
      finer == SubSeq(body, dot + 1, Len(body))
      kept == [i \in 1..places |-> IF i <= Len(finer) THEN finer[i] ELSE 48]
      sign == IF signed /\ Head(f) = Minus THEN -1 ELSE 1
  IN IF ~AllDigits(finer) THEN {}
     ELSE {sign * (whole * 10 ^ places + Number(kept)) : whole \in Digits(SubSeq(body, 1, dot - 1))}

\* degrees_e7: the minutes are the two digits before the point and what follows.
MinutesE7(e5) == (e5 * 100 + 30) \div 60
DegreesE7(f, hemisphere) ==
  LET dot == FirstOf(f, Dot)
      sign == IF hemisphere \in {<<83>>, <<87>>} THEN -1 ELSE 1
  IN IF dot < 4 THEN {}
     ELSE UNION {{sign * (whole * 10000000 + MinutesE7(e5)) :
                    e5 \in {m \in Scaled(SubSeq(f, dot - 2, Len(f)), 5) : m \in 0..5999999}} :
                 whole \in {d \in Digits(SubSeq(f, 1, dot - 3)) : d <= 180}}

\* days_from_civil
DaysFromCivil(year, month, day) ==
  LET y == IF month <= 2 THEN year - 1 ELSE year
      yoe == y % 400
      mp == IF month > 2 THEN month - 3 ELSE month + 9
      doy == ((153 * mp + 2) \div 5) + day - 1
  IN (y \div 400) * 146097 + yoe * 365 + (yoe \div 4) - (yoe \div 100) + doy - 719468

\* epoch: ddmmyy and hhmmss.
Epoch(date, clock) ==
  LET two(f, k) == Digits(SubSeq(f, k, k + 1))
  IN IF Len(date) < 6 \/ Len(clock) < 6 THEN {}
     ELSE IF \E k \in {1, 3, 5} : two(date, k) = {} \/ two(clock, k) = {} THEN {}
     ELSE LET v(f, k) == The(two(f, k))
          IN IF v(date, 3) \in 1..12 /\ v(date, 1) \in 1..31
                  /\ v(clock, 1) <= 23 /\ v(clock, 3) <= 59 /\ v(clock, 5) <= 60
               THEN {DaysFromCivil(2000 + v(date, 5), v(date, 3), v(date, 1)) * 86400
                       + v(clock, 1) * 3600 + v(clock, 3) * 60 + v(clock, 5)}
               ELSE {}

\* civil
Civil(when) ==
  LET z == (when \div 86400) + 719468
      doe == z % 146097
      yoe == (doe - (doe \div 1460) + (doe \div 36524) - (doe \div 146096)) \div 365
      doy == doe - (365 * yoe + (yoe \div 4) - (yoe \div 100))
      mp == (5 * doy + 2) \div 153
      month == IF mp < 10 THEN mp + 3 ELSE mp - 9
      year == yoe + (z \div 146097) * 400
      second == when % 86400
  IN <<IF month <= 2 THEN year + 1 ELSE year, month, doy - ((153 * mp + 2) \div 5) + 1,
       second \div 3600, (second \div 60) % 60, second % 60>>

-----------------------------------------------------------------------------
(* Sentences.                                                              *)

\* The exclusive or of bytes: of each bit, whether an odd number of them have it.
XorOf(bytes) ==
  LET odd(k) == Cardinality({i \in DOMAIN bytes : (bytes[i] \div 2 ^ k) % 2 = 1}) % 2
  IN odd(0) + 2 * odd(1) + 4 * odd(2) + 8 * odd(3) + 16 * odd(4) + 32 * odd(5) + 64 * odd(6) + 128 * odd(7)
HexOf(c) == {c - 48 : d \in {c} \cap 48..57} \cup {c - 55 : d \in {c} \cap 65..70}
              \cup {c - 87 : d \in {c} \cap 97..102}

\* checked: what is before the last star, if it adds up.
Checked(line) ==
  LET star == Max({i \in 2..Len(line) : line[i] = Star} \cup {0})
      sum == XorOf(SubSeq(line, 2, star - 1))
  IN IF Len(line) < 4 \/ line[1] # Dollar \/ star = 0 \/ star + 2 > Len(line) THEN {}
     ELSE IF \E high \in HexOf(line[star + 1]), low \in HexOf(line[star + 2]) : sum = 16 * high + low
       THEN {SubSeq(line, 1, star - 1)} ELSE {}

\* reset
Fresh ==
  [lat |-> {}, lon |-> {}, alt |-> {}, when |-> {}, sats |-> {}, view |-> {}, quality |-> 0,
   status |-> <<>>, mode |-> <<>>, nav |-> <<>>, hdop |-> {}, good |-> 0, bad |-> 0,
   talkers |-> <<>>, pending |-> <<>>]

\* first: a letter, or none.
First(f) == Slice(f, 1, 1)

\* gga: without an altitude field it is a truncated one; a quality of 0 comes
\* without coordinates and leaves the old ones.
Gga(fix, line) ==
  LET quality == Or(Digits(FieldOr(line, 6)), 0)
      told == [fix EXCEPT !.quality = AtMost(quality, 255),
                          !.sats = {n \in Digits(FieldOr(line, 7)) : n < 255},
                          !.hdop = {n \in Scaled(FieldOr(line, 8), 2) : n \in 0..65534}]
      lat == DegreesE7(FieldOr(line, 2), First(FieldOr(line, 3)))
      lon == DegreesE7(FieldOr(line, 4), First(FieldOr(line, 5)))
      alt == Scaled(FieldOr(line, 9), 3)
      read == lat # {} /\ lon # {}
  IN IF Field(line, 9) = {} THEN [fix |-> fix, saw |-> 0]
     ELSE [saw |-> SawGGA,
           fix |-> IF quality = 0 THEN told
                   ELSE [told EXCEPT !.lat = IF read THEN lat ELSE @,
                                     !.lon = IF read THEN lon ELSE @,
                                     !.alt = IF alt # {} THEN alt ELSE @]]

\* rmc: the time is taken whatever the status says, of the position.
Rmc(fix, line) ==
  LET when == {w \in Epoch(FieldOr(line, 9), FieldOr(line, 1)) : w >= TimeFloor}
  IN IF Field(line, 9) = {} THEN [fix |-> fix, saw |-> 0]
     ELSE [saw |-> SawRMC,
           fix |-> [fix EXCEPT !.status = First(FieldOr(line, 2)), !.mode = First(FieldOr(line, 12)),
                               !.nav = First(FieldOr(line, 13)),
                               !.when = IF when # {} THEN when ELSE @]]

\* note_talker: one more than the table holds goes uncounted.
NoteTalker(fix, id, count) ==
  LET known == {i \in DOMAIN fix.talkers : fix.talkers[i].id = id}
      noted == IF known # {} THEN [fix.talkers EXCEPT ![Min(known)].count = count]
               ELSE Append(fix.talkers, [id |-> id, count |-> count])
      total == FoldLeft(LAMBDA sum, t : sum + t.count, 0, noted)
  IN IF known = {} /\ Len(fix.talkers) = Talkers THEN fix
     ELSE [fix EXCEPT !.talkers = noted, !.view = {AtMost(total, 254)}]

\* gsv
Gsv(fix, line) ==
  IF Field(line, 3) = {} THEN [fix |-> fix, saw |-> 0]
  ELSE [saw |-> SawGSV,
        fix |-> NoteTalker(fix, SubSeq(line, 2, 3), AtMost(Or(Digits(FieldOr(line, 3)), 0), 254))]

\* sentence
Sentence(fix, line) ==
  IF Checked(line) = {} THEN [fix |-> fix, saw |-> Bad]
  ELSE LET body == The(Checked(line))
           kind == Slice(body, 4, 6)
       IN CASE kind = GGA -> Gga(fix, body)
            [] kind = RMC -> Rmc(fix, body)
            [] kind = GSV -> Gsv(fix, body)
            [] OTHER -> [fix |-> fix, saw |-> 0]

\* read: the receiver has to stand behind a position twice.
Valid(fix) == fix.lat # {} /\ fix.quality \in 1..5 /\ fix.status = <<A>>
Read(fix) ==
  <<fix.lat, fix.lon, fix.alt, fix.when, fix.sats, fix.view, fix.quality, fix.status, fix.mode,
    fix.nav, fix.hdop, fix.good, fix.bad, Valid(fix)>>

\* talker: an entry of the table, or none past the last.
Talker(fix, n) == {<<fix.talkers[i].id, fix.talkers[i].count>> : i \in {n + 1} \cap DOMAIN fix.talkers}

\* Fix.sentence: whether it was one this acts on.
Acted(fix, line) == Sentence(fix, line).saw > 0

\* Fix.utc: the receiver's date, whatever the board's own clock says.
Utc(fix) == {Civil(when) : when \in fix.when}

-----------------------------------------------------------------------------
(* Lines.                                                                  *)

\* What a call of feed works on: the fix, and the sentences that passed.
Feeding(fix, echo, room) == [fix |-> fix, landed |-> 0, echo |-> echo, room |-> room]

\* flush: the echo takes a sentence whole or not at all.
Flush(s) ==
  LET line == s.fix.pending
      cleared == [s EXCEPT !.fix.pending = <<>>]
      told == Sentence(cleared.fix, line)
  IN IF line = <<>> THEN cleared
     ELSE IF told.saw = Bad THEN [cleared EXCEPT !.fix.bad = @ + 1]
     ELSE [cleared EXCEPT !.fix = [told.fix EXCEPT !.good = @ + 1], !.landed = @ + 1,
             !.echo = IF Len(@) + Len(line) + 1 <= s.room THEN @ \o Append(line, Newline) ELSE @]

\* feed, one byte: a line too long is dropped with the byte that made it so.
FeedByte(s, c) ==
  IF c \in {Return, Newline} THEN Flush(s)
  ELSE IF Len(s.fix.pending) >= PendingMax
    THEN [s EXCEPT !.fix.pending = <<>>, !.fix.bad = @ + 1]
  ELSE [s EXCEPT !.fix.pending = Append(@, c)]

Feed(s, chunk) == FoldLeft(FeedByte, s, chunk)

\* A stream cut at its newlines, without them.
LinesOf(stream) ==
  LET cuts == <<0>> \o SelectSeq([i \in DOMAIN stream |-> i],
                                 LAMBDA i : stream[i] \in {Return, Newline})
  IN [n \in 1..(Len(cuts) - 1) |-> SubSeq(stream, cuts[n] + 1, cuts[n + 1] - 1)]

-----------------------------------------------------------------------------
(* The reader.                                                             *)

LastFew(s, n) == SubSeq(s, Len(s) - AtMost(Len(s), n) + 1, Len(s))

\* Reader._remember
Remember(recent, echo, keep) ==
  LastFew(recent \o SelectSeq(LinesOf(echo), LAMBDA line : line # <<>>), keep)

\* Reader.poll, of what has arrived by then, as so many reads; with nothing to
\* keep there is no echo.
Poll(reader, arrived) ==
  LET room == reader.keep * Line
      one(r, chunk) ==
        LET s == Feed(Feeding(r.fix, r.echo, room), chunk)
            full == reader.keep > 0 /\ Len(s.echo) > room - Line
        IN [r EXCEPT !.fix = s.fix, !.landed = @ + s.landed,
                     !.echo = IF full THEN <<>> ELSE s.echo,
                     !.recent = IF full THEN Remember(@, s.echo, r.keep) ELSE @]
      chunks == [n \in 1..((Len(arrived) + ChunkMax - 1) \div ChunkMax) |->
                   SubSeq(arrived, (n - 1) * ChunkMax + 1, AtMost(n * ChunkMax, Len(arrived)))]
      last == FoldLeft(one, [fix |-> reader.fix, recent |-> reader.recent, keep |-> reader.keep,
                             landed |-> 0, echo |-> <<>>], chunks)
  IN [fix |-> last.fix, keep |-> last.keep, landed |-> last.landed,
      recent |-> IF last.echo = <<>> THEN last.recent ELSE Remember(last.recent, last.echo, last.keep)]

-----------------------------------------------------------------------------
(* Properties.                                                             *)

\* The lines of a stream that a line kept whole passes: of one too long only
\* what is left when all that was dropped of it is gone (nmea.rs:536).
Rest(line) == SubSeq(line, (Len(line) \div (PendingMax + 1)) * (PendingMax + 1) + 1, Len(line))
Passing(stream) ==
  SelectSeq([n \in DOMAIN LinesOf(stream) |-> Rest(LinesOf(stream)[n])], LAMBDA l : Checked(l) # {})

\* However the stream is cut up, each sentence the parser takes was sent as the
\* end of one line: no two lines are ever spliced, and a line in time that adds
\* up is never lost.
NeverSpliced(stream, room) ==
  LET s == Feed(Feeding(Fresh, <<>>, room), stream)
      passing == Passing(stream)
  IN /\ s.landed = Len(passing) /\ s.fix.good = Len(passing)
     /\ (room >= Len(stream) => LinesOf(s.echo) = passing)

\* What the reader remembers are sentences that passed, in the order they came,
\* no more of them than it keeps; a clock or a position needs no echo.
RemembersInOrder(stream, keep) ==
  LET new(k) == [fix |-> Fresh, recent |-> <<>>, keep |-> k]
      r == Poll(new(keep), stream)
      passing == Passing(stream)
      from[n \in 0..Len(r.recent)] ==   \* the earliest of `passing' the first n can be
        IF n = 0 THEN 0
        ELSE Min({i \in 1..Len(passing) : i > from[n - 1] /\ passing[i] = r.recent[n]} \cup {Len(passing) + 1})
  IN /\ Len(r.recent) <= keep
     /\ from[Len(r.recent)] <= Len(passing)
     /\ r.landed = Len(passing)
     /\ r.fix = Poll(new(0), stream).fix

\* A time the receiver sends shows as the date it was sent with, from 2025 on,
\* and an earlier one not at all.
DateKept(year, month, day, hour, minute, second) ==
  LET when == DaysFromCivil(year, month, day) * 86400 + hour * 3600 + minute * 60 + second
      fix == [Fresh EXCEPT !.when = {w \in {when} : w >= TimeFloor}]
  IN Utc(fix) = {<<year, month, day, hour, minute, second>> : w \in fix.when}
       /\ (fix.when # {} <=> year >= 2025)

=============================================================================
