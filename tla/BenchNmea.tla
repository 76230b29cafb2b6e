-------------------------------- MODULE BenchNmea --------------------------------
(***************************************************************************)
(* The host bench's own receiver parser (hoststub.py:1001): fields by       *)
(* splitting, degrees by rounding a quotient, dates by the calendar.  {}    *)
(* stands for None, and where the calendar raises for a date it lacks.      *)
(***************************************************************************)
EXTENDS Nmea

\* bytes.split(b",")
Parts(body) ==
  FoldLeft(LAMBDA parts, c : IF c = Comma THEN Append(parts, <<>>)
                             ELSE [parts EXCEPT ![Len(parts)] = Append(@, c)],
           <<<<>>>>, body)

\* _n_checked
BenchChecked(line) ==
  LET stars == {i \in DOMAIN line : line[i] = Star}
      star == Max(stars)
      sum == XorOf(SubSeq(line, 2, star - 1))
  IN IF line = <<>> THEN {}
     ELSE IF line[1] # Dollar \/ stars = {} THEN {}
     ELSE IF star + 2 > Len(line) THEN {}
     ELSE {SubSeq(line, 1, star - 1) : sums \in
             {h \in HexOf(line[star + 1]) \X HexOf(line[star + 2]) : sum = 16 * h[1] + h[2]}}

\* The calendar: how long the months of a year are.
LeapYear(year) == (year % 4 = 0 /\ year % 100 # 0) \/ year % 400 = 0
MonthLength(year, month) ==
  <<31, IF LeapYear(year) THEN 29 ELSE 28, 31, 30, 31, 30, 31, 31, 30, 31, 30, 31>>[month]
DaysIn(year) == IF LeapYear(year) THEN 366 ELSE 365
DaysSince1970(year, month, day) ==
  FoldLeft(LAMBDA sum, y : sum + DaysIn(1969 + y), 0, [y \in 1..(year - 1970) |-> y])
    + FoldLeft(LAMBDA sum, m : sum + MonthLength(year, m), 0, [m \in 1..(month - 1) |-> m])
    + day - 1

\* _n_epoch: the first six digits of either.
BenchEpoch(date, clock) ==
  LET two(f, k) == Number(SubSeq(f, k, k + 1))
      year == 2000 + two(date, 5)
  IN IF Len(date) < 6 \/ Len(clock) < 6 THEN {}
     ELSE IF ~AllDigits(SubSeq(date, 1, 6)) \/ ~AllDigits(SubSeq(clock, 1, 6)) THEN {}
     ELSE IF two(date, 3) \notin 1..12 \/ two(clock, 1) > 23 \/ two(clock, 3) > 59 THEN {}
     ELSE IF two(date, 1) \notin 1..MonthLength(year, two(date, 3)) \/ two(clock, 5) > 59 THEN {}
     ELSE {DaysSince1970(year, two(date, 3), two(date, 1)) * 86400
             + two(clock, 1) * 3600 + two(clock, 3) * 60 + two(clock, 5)}

\* A decimal field times 10^places, to the nearest; between two, to the even one.
Nearest(n, d) ==
  LET low == n \div d
      over == 2 * (n % d)
  IN IF over < d \/ (over = d /\ low % 2 = 0) THEN low ELSE low + 1
Decimal(f) ==
  LET minus == f # <<>> /\ Head(f) = Minus
      body == IF f # <<>> /\ Head(f) \in {Minus, Plus} THEN Tail(f) ELSE f
      dot == FirstOf(body, Dot)
      finer == SubSeq(body, dot + 1, Len(body))
      digits == SubSeq(body, 1, dot - 1) \o finer
  IN IF digits = <<>> \/ ~AllDigits(digits) THEN {}
     ELSE {[n |-> IF minus THEN -Number(digits) ELSE Number(digits), d |-> 10 ^ Len(finer)]}
Rounded(f, places) == {Nearest(v.n * 10 ^ places, v.d) : v \in Decimal(f)}

\* _n_degrees_e7
BenchDegrees(f, hemisphere) ==
  LET points == {i \in DOMAIN f : f[i] = Dot}
      dot == Min(points)
      sign == IF hemisphere = <<83>> \/ hemisphere = <<87>> THEN -1 ELSE 1
  IN IF points = {} THEN {}
     ELSE IF dot < 4 THEN {}
     ELSE {sign * (v[1] * 10000000 + Nearest(v[2].n * (100000 \div v[2].d) * 100, 60)) :
             v \in {w \in Digits(SubSeq(f, 1, dot - 3)) \X Decimal(SubSeq(f, dot - 2, Len(f))) :
                      w[1] <= 180 /\ w[2].n < 60 * w[2].d}}

\* _n_talkers, of a table of pairs in which an empty one is the end.
BenchTalkers(fix) == [i \in DOMAIN fix.talkers |-> <<fix.talkers[i].id, fix.talkers[i].count>>]

\* _n_note
BenchNote(fix, id, count) ==
  LET row(i) == IF i <= Len(fix.talkers) THEN fix.talkers[i].id ELSE <<>>
      same == {i \in 1..Talkers : row(i) = id}
      empty == {i \in 1..Talkers : row(i) = <<>>}
      slot == Min(IF same # {} THEN same ELSE empty)
      table == [i \in 1..(IF slot > Len(fix.talkers) THEN slot ELSE Len(fix.talkers)) |->
                  IF i = slot THEN [id |-> id, count |-> AtMost(count, 254)] ELSE fix.talkers[i]]
      noted == [fix EXCEPT !.talkers = table]
      counts == [i \in DOMAIN table |-> BenchTalkers(noted)[i][2]]
  IN IF same = {} /\ empty = {} THEN fix
     ELSE [noted EXCEPT !.view = {AtMost(FoldLeft(LAMBDA sum, n : sum + n, 0, counts), 254)}]

\* nmea_sentence
BenchSentence(fix, line) ==
  IF BenchChecked(line) = {} THEN [fix |-> fix, saw |-> Bad]
  ELSE
    LET parts == Parts(The(BenchChecked(line)))
        part(n) == IF n + 1 <= Len(parts) THEN parts[n + 1] ELSE <<>>
        kind == Slice(parts[1], 4, 6)
        quality == Or(Digits(part(6)), 0)
        told == [fix EXCEPT !.quality = AtMost(quality, 255),
                            !.sats = Digits(part(7)) \ {255},
                            !.hdop = {AtMost(n, 65535) : n \in Rounded(part(8), 2)} \ {65535}]
        place == BenchDegrees(part(2), part(3)) \X BenchDegrees(part(4), part(5))
        height == Rounded(part(9), 3)
        when == {w \in BenchEpoch(part(9), part(1)) : w >= TimeFloor}
    IN CASE kind = GGA /\ Len(parts) >= 10 ->
              [saw |-> SawGGA,
               fix |-> IF quality = 0 THEN told
                       ELSE [told EXCEPT !.lat = IF place = {} THEN @ ELSE {p[1] : p \in place},
                                         !.lon = IF place = {} THEN @ ELSE {p[2] : p \in place},
                                         !.alt = IF height = {} THEN @ ELSE height]]
         [] kind = RMC /\ Len(parts) >= 10 ->
              [saw |-> SawRMC,
               fix |-> [fix EXCEPT !.status = Slice(part(2), 1, 1), !.mode = Slice(part(12), 1, 1),
                                   !.nav = Slice(part(13), 1, 1),
                                   !.when = IF when = {} THEN @ ELSE when]]
         [] kind = GSV /\ Len(parts) >= 4 ->
              [saw |-> SawGSV, fix |-> BenchNote(fix, Slice(parts[1], 2, 3), Or(Digits(part(3)), 0))]
         [] OTHER -> [fix |-> fix, saw |-> 0]

\* nmea_fix, of which a byte that stands for none is none, and nmea_talker.
BenchFix(fix) ==
  LET twice == fix.lat # {} /\ 1 <= fix.quality /\ fix.quality <= 5 /\ fix.status = <<A>>
  IN <<fix.lat, fix.lon, fix.alt, fix.when, fix.sats, fix.view, fix.quality, fix.status, fix.mode,
       fix.nav, fix.hdop, fix.good, fix.bad, twice>>
BenchTalker(fix, n) ==
  LET seen == BenchTalkers(fix) IN IF n < Len(seen) THEN {seen[n + 1]} ELSE {}

\* nmea_civil: the date of the calendar.
BenchCivil(when) ==
  LET days == when \div 86400
      year == CHOOSE y \in 2000..2038 : days - DaysSince1970(y, 1, 1) \in 0..(DaysIn(y) - 1)
      month == CHOOSE m \in 1..12 : days - DaysSince1970(year, m, 1) \in 0..(MonthLength(year, m) - 1)
  IN <<year, month, days - DaysSince1970(year, month, 1) + 1,
       (when % 86400) \div 3600, (when % 3600) \div 60, when % 60>>

\* nmea_feed
BenchFeed(fix, chunk, echo, room) ==
  FoldLeft(LAMBDA s, c :
    LET n == Len(s.fix.pending)
        ended == [s EXCEPT !.fix.pending = <<>>]
        told == BenchSentence(ended.fix, s.fix.pending)
    IN IF c \in {Newline, Return} /\ n = 0 THEN ended
       ELSE IF c \in {Newline, Return} /\ told.saw < 0 THEN [ended EXCEPT !.fix.bad = @ + 1]
       ELSE IF c \in {Newline, Return} THEN
         [ended EXCEPT !.fix = [told.fix EXCEPT !.good = @ + 1], !.landed = @ + 1,
            !.echo = IF room > 0 /\ Len(@) + n + 1 <= room THEN @ \o s.fix.pending \o <<Newline>> ELSE @]
       ELSE IF n >= PendingMax THEN [ended EXCEPT !.fix.bad = @ + 1]
       ELSE [s EXCEPT !.fix.pending = @ \o <<c>>],
    [fix |-> fix, landed |-> 0, echo |-> echo, room |-> room], chunk)

-----------------------------------------------------------------------------
(* Properties.                                                             *)

\* A date the calendar has is counted in as many days by either rule, and shown
\* again as it was.
SameDate(year, month, day, clock) ==
  LET when == DaysSince1970(year, month, day) * 86400 + clock
  IN DaysFromCivil(year, month, day) = DaysSince1970(year, month, day) /\ Civil(when) = BenchCivil(when)

\* From any fix a sentence no finer than the places kept leaves the same fix,
\* and the same is read of it.
SameSentence(fix, line) ==
  LET told == Sentence(fix, line)
  IN /\ BenchSentence(fix, line) = told /\ BenchFix(told.fix) = Read(told.fix)
     /\ Acted(fix, line) <=> told.saw \in {SawGGA, SawRMC, SawGSV}
     /\ \A n \in 0..(Talkers - 1) : BenchTalker(told.fix, n) = Talker(told.fix, n)

\* Whatever arrives, both take the same sentences, drop the same lines and echo
\* the same.
SameStream(fix, chunk, room) == BenchFeed(fix, chunk, <<>>, room) = Feed(Feeding(fix, <<>>, room), chunk)

\* A minute of arc in steps of 1/100000 is rounded alike, whole and nearest.
SameMinutes(e5) == MinutesE7(e5) = Nearest(e5 * 100, 60)

=============================================================================
