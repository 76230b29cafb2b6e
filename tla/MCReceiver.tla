------------------------------ MODULE MCReceiver ------------------------------
(* What the receiver sends, as the bytes it comes in, read by the board, by   *)
(* the bench and by Gnss: at the sizes of the code, and as lines of at most   *)
(* five bytes in reads of seven.  Like the client's stream of MCTcpLink it    *)
(* comes through a port that cuts it anywhere.  What is stated of a fix, and  *)
(* the pins and port of the receiver itself, are here too.                    *)
EXTENDS SequencesExt

N == INSTANCE BenchNmea WITH PendingMax <- 84, Talkers <- 3, ChunkMax <- 256, Line <- 84
G == INSTANCE Gnss WITH Qualities <- {0, 1, 6}, Statuses <- {"A", "V"}, Oldest <- 1
Short == INSTANCE BenchNmea WITH PendingMax <- 5, Talkers <- 3, ChunkMax <- 7, Line <- 6

\* A number in so many digits, fields joined by commas, a body as a sentence.
Digit(n, width) == [i \in 1..width |-> 48 + ((n \div 10 ^ (width - i)) % 10)]
Joined(fields) == [i \in DOMAIN fields |-> IF i = 1 THEN fields[i] ELSE <<N!Comma>> \o fields[i]]
HexByte(n) == LET hex(d) == IF d < 10 THEN 48 + d ELSE 55 + d IN <<hex(n \div 16), hex(n % 16)>>
Told(fields) ==
  LET body == FlattenSeq(Joined(fields))
  IN <<N!Dollar>> \o body \o <<N!Star>> \o HexByte(N!XorOf(body))

Talk(id, kind) == id \o kind
GN == <<71, 78>>
GP == <<71, 80>>
South == <<83>>
West == <<87>>

\* Degrees and minutes with a decimal part, or what cannot be read as them.
Angle(deg, wide, min, finer, places) ==
  Digit(deg, wide) \o Digit(min, 2) \o <<N!Dot>> \o Digit(finer, places)
Latitudes == {Angle(52, 2, 59, 99999, 5), Angle(0, 2, 0, 1, 4), Angle(52, 2, 60, 0, 1), <<>>, <<49, 50, 46, 53>>}
Altitudes == {Digit(35, 2) \o <<N!Dot>> \o Digit(7, 1), <<N!Minus>> \o Digit(3, 1), <<>>, <<120>>}
Ggas ==
  {Told(<<Talk(GN, N!GGA), Digit(120000, 6), lat, South, Angle(13, 3, 24, 5, 2), West, <<48 + q>>,
          Digit(sats, 2), <<49, N!Dot, 53>>, alt, <<77>>>>) :
     lat \in Latitudes, alt \in Altitudes, q \in {0, 1, 6}, sats \in {7, 99}}
    \cup {Told(<<Talk(GN, N!GGA), <<>>, <<>>>>)}
Rmcs ==
  {Told(<<Talk(GN, N!RMC), Digit(tod, 6), status, <<>>, <<>>, <<>>, <<>>, <<>>, <<>>,
          Digit(date, 6), <<>>, <<>>, <<N!A>>>>) :
     status \in {<<N!A>>, <<86>>, <<>>},
     tod \in {120059, 235959, 246000}, date \in {10126, 290228, 311225, 10100, 11301}}
    \cup {Told(<<Talk(GN, N!RMC), <<>>, <<N!A>>>>)}
Gsvs == {Told(<<Talk(id, N!GSV), <<49>>, <<49>>, n>>) : id \in {GP, GN, <<71, 65>>, <<66, 68>>},
                                                      n \in {<<52>>, Digit(254, 3), <<>>}}
Sent == Ggas \cup Rmcs \cup Gsvs \cup {Told(<<Talk(GN, <<84, 88, 84>>), <<49>>>>), <<>>, <<N!Dollar, 42>>,
          [Told(<<Talk(GP, N!GSV), <<49>>, <<49>>, <<52>>>>) EXCEPT ![5] = 72]}

Before == {N!Fresh, [N!Fresh EXCEPT !.quality = 6, !.lat = {1}, !.lon = {2}, !.alt = {3}, !.when = {N!TimeFloor},
             !.status = <<86>>, !.view = {254}, !.talkers = <<[id |-> GP, count |-> 9],
               [id |-> <<71, 76>>, count |-> 8], [id |-> <<71, 65>>, count |-> 250]>>]}

\* What Gnss is told of a sentence, and what it keeps of a fix: the
\* coordinates are the old ones, or by whom the sentence says.
HeardAs(was, s, line) ==
  IF s.saw = N!SawGGA THEN
    [kind |-> "GGA", quality |-> s.fix.quality,
     placed |-> N!DegreesE7(N!FieldOr(line, 2), N!First(N!FieldOr(line, 3))) # {}
                  /\ N!DegreesE7(N!FieldOr(line, 4), N!First(N!FieldOr(line, 5))) # {}]
  ELSE IF s.saw = N!SawRMC THEN
    [kind |-> "RMC", status |-> IF s.fix.status = <<N!A>> THEN "A" ELSE IF s.fix.status = <<>> THEN "" ELSE "V",
     when |-> IF s.fix.when = was.when THEN G!Off ELSE 0]
  ELSE [kind |-> "other"]
Shown(f, new, place) ==
  [when |-> IF f.when = {} THEN G!Off ELSE IF new THEN 0 ELSE 1, quality |-> f.quality,
   status |-> IF f.status = <<N!A>> THEN "A" ELSE IF f.status = <<>> THEN "" ELSE "V",
   place |-> place]

ASSUME SentencesAlike ==
  \A was \in Before, line \in Sent :
    /\ N!SameSentence(was, line)
    /\ LET s == N!Sentence(was, line)
           old == IF was.lat = {} THEN "none" ELSE G!By(was.quality)
           place == IF s.fix.lat = was.lat THEN old ELSE G!By(s.fix.quality)
           after == G!Parsed(Shown(was, FALSE, old), HeardAs(was, s, line))
       IN after = Shown(s.fix, s.fix.when # was.when, place) /\ G!Valid(after) = N!Valid(s.fix)

ASSUME DatesAlike ==
  \A year \in {2000, 2024, 2025, 2037}, month \in 1..12 :
    \A day \in {1, 2, 28, N!MonthLength(year, month)} :
      /\ N!SameDate(year, month, day, 86399 - 3601 * month)
      /\ N!DateKept(year, month, day, 23, 59, day)

ASSUME MinutesAlike == \A k \in 0..6000 : N!SameMinutes(997 * k)

\* Lines of three and four bytes that pass, one too long, ends and noise.
Pieces == {<<36, 42, 48, 48>>, <<36, 65, 42, 52, 49>>, <<36>>, <<48, 48>>, <<10>>}
Streams == {FlattenSeq(s) : s \in UNION {[1..n -> Pieces] : n \in 1..5}}

ASSUME LinesAlike ==
  \A stream \in Streams :
    /\ Short!NeverSpliced(stream, 0) /\ Short!NeverSpliced(stream, 40)
    /\ \A room \in {0, 9, 12} : Short!SameStream(Short!Fresh, stream, room)
    /\ Short!RemembersInOrder(stream, 1) /\ Short!RemembersInOrder(stream, 2)

P == INSTANCE Position WITH Bits <- 6

\* Coordinates of six bits, and what else a fix may hold or not.
Maybe(v) == {{}, {v}}
Placings == [lat : {{c} : c \in -32..31} \cup {{}}, lon : {{-32}, {5}}, alt : {{}, {-1999}, {35700}},
             when : Maybe(N!TimeFloor), hdop : Maybe(150), quality : {0, 1}, view : Maybe(9), sats : Maybe(7)]

ASSUME PositionsAlike ==
  /\ \A f \in Placings, valid \in BOOLEAN, precision \in {0, 1, 3, 5, 6, 7} :
       (f.lat = {} => ~valid) =>
         P!SamePosition(f, valid, precision) /\ P!Withheld(f, valid, precision, {}) /\ P!Withheld(f, valid, 3, {precision})
  /\ \A x, y \in -32..31, side \in {2, 4, 32} : P!OneSquare(x, y, side) /\ P!Centred(x, side)

\* A read that ends several sentences may find no room for the last of them: the
\* one remembered is then not the newest (gps.py:439).
ASSUME NewestMayBeLost ==
  LET line(n) == Append(Told(<<Talk(GN, N!GSV), <<49>>, <<49>>, Digit(n, 9)>>), N!Newline)
      stream == line(1) \o line(2) \o line(3) \o line(4)
      r == N!Poll([fix |-> N!Fresh, recent |-> <<>>, keep |-> 1], stream)
  IN r.landed = 4 /\ r.recent # N!LastFew(N!Passing(stream), 1)

R == INSTANCE Receiver

\* Boards reached by up to three calls, of a receiver that answers on no wiring,
\* on the board's own, or on two.
Answers == {[w \in ToSet(R!Table) |-> 0], [w \in ToSet(R!Table) |-> IF w = R!Wiring THEN 5 ELSE 0],
            [w \in ToSet(R!Table) |-> IF w = R!Table[5] THEN 2 ELSE IF w = R!Table[9] THEN 7 ELSE 0]}
Called(b, dollars) ==
  {R!OpenFound(b), R!Pps(b), R!Close(b), R!Power(b, FALSE, R!EnableActiveLow, {}), R!OpenUart(b, 115200, TRUE),
   R!Probe(b, dollars, TRUE), R!Probe(b, dollars, FALSE)}
Boards(dollars) ==
  LET after[n \in 0..3] == IF n = 0 THEN {R!Unused, [R!Unused EXCEPT !.taken = {"reset"}], [R!Unused EXCEPT !.taken = {"vext"}]}
                           ELSE after[n - 1] \cup UNION {Called(b, dollars) : b \in after[n - 1]}
  IN after[3]

ASSUME ReceiverBroughtUp ==
  \A dollars \in Answers : \A b \in Boards(dollars) :
    R!KeepsItsAlmanac(b) /\ R!OnTheFound(b) /\ R!FindsWhatTalks(b, dollars) /\ R!GivesBack(b)
=============================================================================
