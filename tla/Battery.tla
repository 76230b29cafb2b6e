--------------------------------- MODULE Battery ---------------------------------
(***************************************************************************)
(* What a board says of its own power (meshpower.py): the pack's voltage,   *)
(* read off a divider and averaged, the charge the curve makes of it        *)
(* (power.rs), and the charger's two pins.  {} stands for None.             *)
(***************************************************************************)
EXTENDS Integers, Sequences, FiniteSets

\* OCV: the voltage at 100%, 90% and so on.
Ocv == <<4190, 4050, 3990, 3890, 3800, 3720, 3630, 3530, 3420, 3300, 3100>>
NoBattery == Ocv[Len(Ocv)] - 500

\* The steps of the curve a reading has reached.
Reached(mv) == {i \in DOMAIN Ocv : Ocv[i] <= mv}
Top(S) == CHOOSE i \in S : \A j \in S : i <= j

\* battery_percent and percent: ten a step, and what there is of the next.
Percent(millivolts) ==
  LET mv == IF millivolts > 65535 THEN 65535 ELSE millivolts
      i == Top(Reached(mv))
      soc == 10 * (Len(Ocv) - i) + ((10 * (mv - Ocv[i])) \div (Ocv[i - 1] - Ocv[i]))
  IN IF Reached(mv) = {} THEN 0 ELSE IF i = 1 \/ soc > 100 THEN 100 ELSE soc

\* battery_percent of the host bench (hoststub.py:453), by counting the steps
\* above a reading.
BenchPercent(mv) ==
  LET above == Cardinality({i \in DOMAIN Ocv : Ocv[i] > mv})
      step == Ocv[above + 1]
      soc == 10 * (10 - above) + ((10 * (mv - step)) \div (Ocv[above] - step))
  IN IF above = Len(Ocv) THEN 0 ELSE IF above = 0 \/ soc > 100 THEN 100 ELSE soc

-----------------------------------------------------------------------------
(* The board.                                                              *)

FullScale == 3300
DividerTop == 806
DividerBottom == 1500

\* Power.millivolts, of as many readings of the converter as are averaged.
Millivolts(readings) ==
  LET sum[n \in 0..Len(readings)] == IF n = 0 THEN 0 ELSE sum[n - 1] + readings[n]
      pin == ((sum[Len(readings)] \div Len(readings)) * FullScale) \div 65535
  IN (pin * (DividerTop + DividerBottom)) \div DividerBottom

Present(mv) == mv >= NoBattery

Idle == 0
Charging == 1
Faulty == 2
FaultLatched == 3

\* Power.state: both pins pull low, and a board may lack one.
State(stat1, stat2) ==
  {IF high1 THEN (IF high2 THEN Idle ELSE Charging) ELSE (IF high2 THEN Faulty ELSE FaultLatched) :
     high1 \in {p \in stat1 : stat2 # {}}, high2 \in stat2}

\* Power.report: of one voltage.
Report(mv, state) ==
  [level |-> IF mv < NoBattery THEN {}
             ELSE {IF Percent(mv) > 99 /\ state = {Charging} THEN 99 ELSE Percent(mv)},
   volts |-> {mv}]

\* The bench's, with a state and a voltage of the test's choice.
BenchReport(mv, state) ==
  LET level == BenchPercent(mv)
  IN IF mv < NoBattery THEN [level |-> {}, volts |-> {mv}]
     ELSE [level |-> {IF level > 99 /\ state = {1} THEN 99 ELSE level}, volts |-> {mv}]

\* open_power: the boards that can measure a pack, as readings and pins.
OpenPower(monitor, stat1, stat2) ==
  {[readings |-> r, stat1 |-> stat1, stat2 |-> stat2] : r \in monitor}

-----------------------------------------------------------------------------
(* Properties.                                                             *)

\* Board and bench read the same curve, which never falls as the voltage rises;
\* its ends are the ends of the table.
OneCurve(mv) ==
  /\ BenchPercent(mv) = Percent(mv)
  /\ Percent(mv) \in 0..100 /\ Percent(mv) <= Percent(mv + 1)
  /\ (Percent(mv) = 100 => mv >= Ocv[1]) /\ (mv < Ocv[Len(Ocv)] => Percent(mv) = 0)

\* A node has a level just when a pack is there; one that charges never claims
\* to be full, and one at rest or at fault is not held back.
NeverFullCharging(mv, stat1, stat2) ==
  LET report == Report(mv, State(stat1, stat2))
  IN /\ BenchReport(mv, State(stat1, stat2)) = report
     /\ report.level # {} <=> Present(mv)
     /\ \A level \in report.level :
          level = 100 <=> mv >= Ocv[1] /\ ~(stat1 = {TRUE} /\ stat2 = {FALSE})

\* One reading caught while the amplifier draws moves the average by no more than
\* its share.
OneInSo(readings, low) ==
  \A k \in DOMAIN readings :
    Millivolts(readings) - Millivolts([readings EXCEPT ![k] = low]) <=
      ((Millivolts([i \in DOMAIN readings |-> readings[k]]) - Millivolts([i \in DOMAIN readings |-> low]))
         \div Len(readings)) + 4

=============================================================================
