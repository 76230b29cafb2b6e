-------------------------------- MODULE Receiver --------------------------------
(***************************************************************************)
(* Bringing up the GNSS receiver (w12/gps.py): the pins held between calls,  *)
(* the UART, and the wiring a probe found.  A board b is the module's        *)
(* globals, with the resets the module has been given and the pins that      *)
(* something else owns.                                                      *)
(***************************************************************************)
EXTENDS Integers, Sequences, SequencesExt, Functions

Bauds == <<9600, 115200, 38400>>
EnableActiveLow == TRUE
Wiring == [activeLow |-> TRUE, swap |-> FALSE, baud |-> 9600]

Unused == [pins |-> <<>>, taken |-> {}, uart |-> {}, running |-> FALSE, found |-> Wiring,
           resets |-> 0]

\* _claim: a pin held already is driven again, one another owns is left alone.
Claim(b, name, value) ==
  IF name \in b.taken THEN b
  ELSE [b EXCEPT !.pins = [n \in DOMAIN @ \cup {name} |-> IF n = name THEN value ELSE @[n]]]

\* power: the reset line is pulsed when it is asked for, or if {} when the
\* module was not running.
Power(b, on, activeLow, reset) ==
  LET rails == Claim(Claim(b, "vext", FALSE), "enable", on # activeLow)
      awake == Claim(Claim(rails, "wake", TRUE), "reset", TRUE)
      pulse == on /\ (IF reset = {} THEN ~b.running ELSE TRUE \in reset)
                  /\ "reset" \in DOMAIN awake.pins
  IN [awake EXCEPT !.running = on, !.resets = IF pulse THEN @ + 1 ELSE @]

OpenUart(b, baud, swap) == [b EXCEPT !.uart = {[baud |-> baud, swap |-> swap]}]
CloseUart(b) == [b EXCEPT !.uart = {}]

\* close: the wiring that was found goes with the pins.
Close(b) == [CloseUart(b) EXCEPT !.pins = <<>>, !.found = Wiring, !.running = FALSE]

\* _open_found, and uart().
OpenFound(b) ==
  IF b.uart # {} /\ b.running THEN b
  ELSE OpenUart(Power(b, TRUE, b.found.activeLow, {}), b.found.baud, b.found.swap)

\* pps counts on a pin of its own, and leaves the port closed.
Pps(b) == CloseUart([b EXCEPT !.pins = Restrict(@, DOMAIN @ \ {"pps"})])

\* The table a probe goes through, in its order.
Table ==
  [i \in 1..12 |-> [activeLow |-> i <= 6, swap |-> (i - 1) % 6 >= 3, baud |-> Bauds[((i - 1) % 3) + 1]]]

\* probe, of a receiver that gives dollars[w] sentences on wiring w.
Try(b, w) == OpenUart(Power(b, TRUE, w.activeLow, {TRUE}), w.baud, w.swap)
Better(best, w, dollars) == dollars[w] > 0 /\ (best = {} \/ \A x \in best : dollars[w] > dollars[x])
Step(t, w, dollars, exhaustive) ==
  IF t.best # {} /\ ~exhaustive THEN t
  ELSE [board |-> Try(t.board, w), best |-> IF Better(t.best, w, dollars) THEN {w} ELSE t.best]
Probe(b, dollars, exhaustive) ==
  LET end == FoldLeft(LAMBDA t, w : Step(t, w, dollars, exhaustive), [board |-> b, best |-> {}], Table)
      closed == CloseUart(end.board)
  IN IF end.best = {} THEN closed ELSE [closed EXCEPT !.found = CHOOSE w \in end.best : TRUE]

-----------------------------------------------------------------------------
(* Properties.                                                             *)

\* A receiver at work is never reset and never opened again by asking it one more
\* thing: it would lose its almanac and the sentences in its buffer.  Counting
\* its pulses costs the port and not the almanac.
KeepsItsAlmanac(b) ==
  LET open == OpenFound(b)
      counted == OpenFound(Pps(open))
  IN /\ OpenFound(open) = open /\ counted.resets = open.resets /\ counted.uart # {}
     /\ (b.running => open.resets = b.resets)

\* What is open is what was found, whatever was probed, opened and closed before:
\* one that probes and then listens is on a wiring the receiver talks on, if any,
\* with its enable driven that way.
OnTheFound(b) ==
  LET open == OpenFound(b)
  IN (b.uart = {} \/ ~b.running) =>
       /\ open.uart = {[baud |-> b.found.baud, swap |-> b.found.swap]}
       /\ open.running /\ ("enable" \notin b.taken => open.pins["enable"] # b.found.activeLow)

\* A probe that stops early and one that goes on both end on a wiring that talks,
\* the second on none with fewer sentences than another; each try starts the
\* module again, and one that hears nothing leaves what was found before.
FindsWhatTalks(b, dollars) ==
  LET first == Probe(b, dollars, FALSE)
      all == Probe(b, dollars, TRUE)
      talks == {i \in 1..12 : dollars[Table[i]] > 0}
  IN IF talks = {} THEN first = all /\ all.found = b.found
     ELSE /\ dollars[first.found] > 0
          /\ \A i \in 1..12 : dollars[Table[i]] <= dollars[all.found]
          /\ ("reset" \notin b.taken =>
                /\ all.resets = b.resets + 12
                /\ first.resets = b.resets + (CHOOSE i \in talks : \A j \in talks : i <= j))
          /\ OnTheFound(first) /\ OnTheFound(all)

\* Closing gives every pin back and forgets what a probe found.
GivesBack(b) == Close(b) = [Unused EXCEPT !.taken = b.taken, !.resets = b.resets]

=============================================================================
