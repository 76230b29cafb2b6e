--------------------------------- MODULE Gnss ---------------------------------
(***************************************************************************)
(* What the receiver's sentences leave behind: the running fix of nmea.rs,  *)
(* as gps.Fix shows it.  A sentence is one that passed its checksum; noise, *)
(* halves of two lines spliced by a full UART buffer and lines too long are *)
(* dropped there and leave nothing.  A stamp is its age in seconds.  Of a   *)
(* position only who answers for it is kept, of the satellites in view      *)
(* nothing.                                                                 *)
(***************************************************************************)
EXTENDS Integers

CONSTANTS
  Qualities,   \* GGA qualities the receiver sends
  Statuses,    \* RMC statuses it sends
  Oldest       \* bound: ages from here on are alike

Off == -1      \* None, of a time or a deadline

ASSUME GnssOK ==
  /\ Qualities \subseteq 0..8
  /\ Oldest \in Nat \ {0}

\* Qualities a position is confirmed by.  6 is dead reckoning, 7 and 8 are
\* entered or simulated.
Confirmed == 1..5

Fix == [when: {Off} \cup 0..Oldest, quality: Qualities \cup {0},
        status: Statuses \cup {""}, place: {"none", "satellites", "reckoned"}]

\* nmea.reset
NoFix == [when |-> Off, quality |-> 0, status |-> "", place |-> "none"]

\* A GGA brings coordinates that can be read, or none.
Sentences ==
  [kind: {"GGA"}, quality: Qualities, placed: BOOLEAN] \cup
  [kind: {"RMC"}, status: Statuses, when: {Off} \cup 0..Oldest] \cup
  [kind: {"other"}]

By(q) == IF q \in Confirmed THEN "satellites" ELSE "reckoned"

\* Fault: the coordinates there are stay.
PlacedOnce(fix, q, placed) ==
  [fix EXCEPT !.quality = q,
              !.place = IF q = 0 \/ ~placed \/ @ # "none" THEN @ ELSE By(q)]

\* gga: the quality is always taken; the old coordinates stay when it is 0, and
\* when there are none to be read, whatever it is.
Placed(fix, q, placed) ==
  [fix EXCEPT !.quality = q, !.place = IF q = 0 \/ ~placed THEN @ ELSE By(q)]

\* rmc: a clock no satellite has set is below the floor, and is not taken.
Timed(fix, status, when) ==
  [fix EXCEPT !.status = status, !.when = IF when = Off THEN @ ELSE when]

\* parse
Parsed(fix, s) ==
  CASE s.kind = "GGA" -> Placed(fix, s.quality, s.placed)
    [] s.kind = "RMC" -> Timed(fix, s.status, s.when)
    [] s.kind = "other" -> fix

\* read: the receiver has to stand behind a position twice.
Valid(fix) == fix.place # "none" /\ fix.quality \in Confirmed /\ fix.status = "A"

\* d seconds later.
Older(fix, d) ==
  [fix EXCEPT !.when = IF @ = Off THEN Off
                       ELSE IF @ + d < Oldest THEN @ + d ELSE Oldest]

=============================================================================
