-------------------------------- MODULE Position --------------------------------
(***************************************************************************)
(* What a node broadcasts of where it is (payload.rs encode_position,       *)
(* Node.locate), from the fix Nmea keeps: nothing of a fix the receiver     *)
(* does not stand behind, and no more digits than it is set to state.  A    *)
(* message is its fields in order, by number; the host bench writes its own *)
(* (hoststub.py:1345).  {} stands for a refusal, and for a value a fix does *)
(* not have.                                                                *)
(***************************************************************************)
EXTENDS Integers, Sequences

CONSTANT Bits   \* of a coordinate (32 in the code), and so PRECISION_FULL

LocInternal == 2

\* The middle of a coordinate's square: what is under the mask, and half a side.
CentreOf(x, side) == x - (x % side) + (side \div 2)

\* blur
Blur(x, precision) == IF precision >= Bits THEN x ELSE CentreOf(x, 2 ^ (Bits - precision))

\* i32 division drops what is past the point.
Metres(mm) == IF mm >= 0 THEN mm \div 1000 ELSE -((-mm) \div 1000)

Field(number, values) ==
  IF values = {} THEN <<>> ELSE <<[number |-> number, value |-> CHOOSE v \in values : TRUE]>>

\* encode_position: of a confirmed fix.
EncodePosition(fix, valid, precision) ==
  LET stated(coordinates) == IF precision > 0 THEN {Blur(x, precision) : x \in coordinates} ELSE {}
  IN IF ~valid THEN {}
     ELSE {Field(1, stated(fix.lat)) \o Field(2, stated(fix.lon))
             \o Field(3, {Metres(mm) : mm \in fix.alt}) \o Field(4, fix.when)
             \o Field(5, {LocInternal}) \o Field(12, fix.hdop)
             \o Field(17, {fix.quality} \ {0})
             \o Field(19, IF fix.view # {} THEN fix.view ELSE fix.sats) \o Field(23, {precision})}

\* Node.locate: at the node's own precision unless told one, and nothing without
\* a receiver; what is sent on the position port.
Locate(gps, own, precisions) ==
  UNION {EncodePosition(g.fix, g.valid,
           IF precisions = {} THEN own ELSE CHOOSE p \in precisions : TRUE) : g \in gps}

-----------------------------------------------------------------------------
(* The bench.                                                              *)

\* _signed32, of Bits bits.
BenchSigned(value) == IF 2 * value >= 2 ^ Bits THEN value - 2 ^ Bits ELSE value

\* The mask keeps the high bits of a word, and the sum is one again.
BenchBlur(x, precision) ==
  LET low == 2 ^ (Bits - precision)
      word == x % 2 ^ Bits
      masked == (word \div low) * low
  IN BenchSigned((masked + 2 ^ (Bits - 1 - precision)) % 2 ^ Bits)

\* position_encode and _position_fields, which fill in one field after another.
BenchPosition(fix, valid, precision) ==
  LET put(out, number, values) == IF values = {} THEN out ELSE Append(out, Field(number, values)[1])
      coordinates(word) == IF precision < Bits THEN {BenchBlur(x, precision) : x \in word} ELSE word
      where == IF fix.lat # {} /\ precision > 0
                 THEN put(put(<<>>, 1, coordinates(fix.lat)), 2, coordinates(fix.lon)) ELSE <<>>
      height == put(where, 3, {IF mm >= 0 THEN mm \div 1000 ELSE -((-mm) \div 1000) : mm \in fix.alt})
      source == put(put(height, 4, fix.when), 5, {2})
      quality == put(put(source, 12, fix.hdop), 17, IF fix.quality # 0 THEN {fix.quality} ELSE {})
      seen == put(quality, 19, IF fix.view = {} THEN fix.sats ELSE fix.view)
  IN IF valid THEN {put(seen, 23, {precision})} ELSE {}

-----------------------------------------------------------------------------
(* Properties.                                                             *)

\* Two coordinates in one square are stated alike, and from nowhere else: what is
\* sent does not tell where in its square a node is (payload.rs:159).
OneSquare(x, y, side) == (CentreOf(x, side) = CentreOf(y, side)) <=> (x \div side = y \div side)

\* What is stated is never farther off than half a side, to either side, and
\* is in the same square.
Centred(x, side) ==
  /\ CentreOf(x, side) - x <= side \div 2
  /\ x - CentreOf(x, side) < side - (side \div 2)
  /\ CentreOf(x, side) \div side = x \div side

\* The board and the bench state the same of any fix, at any precision.
SamePosition(fix, valid, precision) ==
  BenchPosition(fix, valid, precision) = EncodePosition(fix, valid, precision)

\* No coordinate leaves a node whose receiver does not vouch for it, nor one that
\* withholds them unless it is asked; one that states fewer bits sends the
\* square's for both.
Withheld(fix, valid, own, asked) ==
  LET precision == IF asked = {} THEN own ELSE CHOOSE p \in asked : TRUE
      located == Locate({[fix |-> fix, valid |-> valid]}, own, asked)
  IN /\ ~valid => located = {}
     /\ \A message \in located : \A i \in DOMAIN message :
          /\ message[i].number \in {1, 2} => precision > 0
          /\ message[i].number \in {1, 2} /\ precision < Bits =>
               message[i].value % 2 ^ (Bits - precision) = 2 ^ (Bits - precision - 1)

=============================================================================
