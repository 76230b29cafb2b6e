------------------------------- MODULE BenchDuty -------------------------------
(* The host bench's own airtime ring (hoststub.py:378), beside DutyWindow's.  *)
EXTENDS DutyWindow, SequencesExt

\* Fault: the bucket being entered is left as it was.
BenchExpireShort(slot) ==
  IF slot = last THEN window
  ELSE IF slot < last \/ slot - last >= Buckets THEN [k \in Ring |-> 0]
  ELSE FoldSeq(LAMBDA k, w : [w EXCEPT ![(last + k) % Buckets] = 0], window,
               [k \in 1..(slot - last - 1) |-> k])

\* _duty_expire: the buckets after `last` up to the slot, one after the other.
BenchExpire(slot) ==
  IF slot = last THEN window
  ELSE IF slot < last \/ slot - last >= Buckets THEN [k \in Ring |-> 0]
  ELSE FoldSeq(LAMBDA k, w : [w EXCEPT ![(last + k) % Buckets] = 0], window,
               [k \in 1..(slot - last) |-> k])

\* duty_record
BenchRecord(slot, airtime) ==
  LET w == BenchExpire(slot)
  IN [w EXCEPT ![slot % Buckets] = Smaller(Largest, @ + airtime)]

\* duty_used: one sum, and then its limit.
BenchUsed(slot) ==
  LET w == BenchExpire(slot)
  IN Smaller(Largest, FoldSeq(LAMBDA k, sum : sum + w[k], 0, [k \in 1..Buckets |-> k - 1]))

\* The ring as duty.rs sums it, capped at every step.
UsedByStep(w) ==
  FoldSeq(LAMBDA k, sum : Capped(sum, w[k]), 0, [k \in 1..Buckets |-> k - 1])

\* Whatever the ring holds and however far the clock has moved, back or past all
\* of it, the bench clears the same buckets, records as much and reports as much
\* as the crate, which caps its sum at every step.
SameRing ==
  \A slot \in Slots, airtime \in Airtimes :
    /\ BenchExpire(slot) = Expire(slot)
    /\ BenchRecord(slot, airtime) = [Expire(slot) EXCEPT ![slot % Buckets] = Capped(@, airtime)]
    /\ BenchUsed(slot) = Used(Expire(slot)) /\ UsedByStep(Expire(slot)) = Used(Expire(slot))

=============================================================================
