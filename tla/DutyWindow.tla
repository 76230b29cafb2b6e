------------------------------ MODULE DutyWindow ------------------------------
(***************************************************************************)
(* The transmit budget: a ring of airtime buckets (duty.rs), the refusal   *)
(* it backs (mesh_tx.DutyCycle) and the order in which Node.send asks,     *)
(* waits, transmits and records, or is left by an exception before it      *)
(* records.  Time and airtime share one unit.  A reboot loses the ring,    *)
(* which is Python memory, and restarts the monotonic clock the buckets    *)
(* are counted by; release() and start() lose the ring alone.              *)
(***************************************************************************)
EXTENDS Integers, FiniteSets, Functions

CONSTANTS
  Buckets,     \* buckets in the ring (60 in the code)
  BucketS,     \* width of one (a minute in the code)
  Budget,      \* DutyCycle.budget_us
  Airtimes,    \* airtimes of the frames this node sends
  Largest,     \* the largest value a bucket holds (2^32 - 1 in the code)
  Horizon,     \* bound: the last instant of a behaviour
  MaxBoots,    \* bound: reboots and restarts in a behaviour
  MaxLeft      \* bound: transmissions left by an exception since the last of them

ASSUME DutyOK ==
  /\ Buckets \in Nat \ {0}
  /\ BucketS \in Nat \ {0}
  /\ Budget \in Nat
  /\ Airtimes \subseteq Nat \ {0}
  /\ Largest \in Nat
  /\ Horizon \in Nat
  /\ MaxBoots \in Nat /\ MaxLeft \in Nat

\* Below 100% the budget is less than an hour in microseconds, within the range.
ASSUME BudgetOK == Budget <= Largest

VARIABLES
  clock,    \* real time
  booted,   \* when this boot began; time.monotonic() is clock - booted
  boots,    \* reboots and restarts so far
  open,     \* the region allows 100%: nothing is ever refused
  window,   \* the buckets
  last,     \* the header: the last slot written or read
  stage,    \* where Node.send is
  us,       \* the airtime of the frame it holds
  began,    \* when its transmission began
  \* history, all since the ring was last emptied:
  credit,      \* per slot, the airtime recorded in it
  aired,       \* the transmissions recorded or under way, by start and airtime
  unrecorded   \* those an exception left before they were recorded

ring == <<window, last>>
call == <<stage, us, began>>
history == <<credit, aired, unrecorded>>
vars == <<clock, booted, boots, open, window, last, stage, us, began, credit, aired, unrecorded>>

Slots == 0..(Horizon \div BucketS)
Ring  == 0..Buckets - 1

\* Fault: the bucket width is left out.
SlotRaw == clock - booted

\* DutyCycle._slot
Slot == (clock - booted) \div BucketS

Smaller(a, b) == IF a < b THEN a ELSE b
Capped(a, b) == Smaller(a + b, Largest)   \* u32::saturating_add

TypeOK ==
  /\ clock \in 0..Horizon
  /\ booted \in 0..Horizon
  /\ boots \in 0..MaxBoots
  /\ open \in BOOLEAN
  /\ window \in [Ring -> 0..Largest]
  /\ last \in Slots
  /\ stage \in {"idle", "waiting", "sending"}
  /\ us \in Airtimes \cup {0}
  /\ began \in 0..Horizon
  /\ credit \in [Slots -> 0..Largest]
  /\ aired \cup unrecorded \subseteq [at: 0..Horizon, us: Airtimes]

NoAirtime == [k \in Ring |-> 0]
NoCredit  == [s \in Slots |-> 0]

Init ==
  /\ clock = 0 /\ booted = 0 /\ boots = 0
  /\ open \in BOOLEAN
  /\ window = NoAirtime /\ last = 0
  /\ stage = "idle" /\ us = 0 /\ began = 0
  /\ credit = NoCredit
  /\ aired = {} /\ unrecorded = {}

-----------------------------------------------------------------------------
\* The indices of the buckets the move from `last` to slot s runs over.
Passed(s) == {(last + k) % Buckets : k \in 1..(s - last)}

\* duty.rs expire: every bucket the clock has moved over is cleared.
Expire(s) ==
  IF s = last THEN window
  ELSE IF s < last \/ s - last >= Buckets THEN NoAirtime
  ELSE [k \in Ring |-> IF k \in Passed(s) THEN 0 ELSE window[k]]

\* Reading expires too, and moves the header.
Used(w) == Smaller(SumFunction(w), Largest)   \* saturating at every step

Read == window' = Expire(Slot) /\ last' = Slot

\* Fault: the frame being asked about is not counted.
AllowsOne(a) == open \/ Used(Expire(Slot)) <= Budget

\* DutyCycle.allows
Allows(a) == open \/ Used(Expire(Slot)) + a <= Budget

\* Node.send: the frame is built and the budget asked.
Ask(a) ==
  /\ stage = "idle"
  /\ IF open THEN UNCHANGED ring ELSE Read
  /\ IF Allows(a) THEN stage' = "waiting" /\ us' = a ELSE UNCHANGED <<stage, us>>
  /\ UNCHANGED <<clock, booted, boots, open, began, history>>

\* The channel never cleared, or an exception came before the frame went out.
GiveUp ==
  /\ stage = "waiting"
  /\ stage' = "idle" /\ us' = 0
  /\ UNCHANGED <<clock, booted, boots, open, ring, began, history>>

Transmit ==
  /\ stage = "waiting" /\ clock + us <= Horizon
  /\ stage' = "sending"
  /\ began' = clock
  /\ aired' = aired \cup {[at |-> clock, us |-> us]}
  /\ UNCHANGED <<clock, booted, boots, open, ring, us, credit, unrecorded>>

\* Fault: an overflow wraps.
RecordWraps ==
  /\ stage = "sending" /\ clock >= began + us
  /\ window' = LET w == Expire(Slot) IN
       [w EXCEPT ![Slot % Buckets] = (@ + us) % (Largest + 1)]
  /\ last' = Slot
  /\ credit' = [credit EXCEPT ![Slot] = Capped(@, us)]
  /\ stage' = "idle" /\ us' = 0 /\ began' = 0
  /\ UNCHANGED <<clock, booted, boots, open, aired, unrecorded>>

\* The call returns, at once or after the chip's own timeout, and the airtime
\* is recorded whether or not the packet left.
Record ==
  /\ stage = "sending" /\ clock >= began + us
  /\ window' = LET w == Expire(Slot) IN
       [w EXCEPT ![Slot % Buckets] = Capped(@, us)]
  /\ last' = Slot
  /\ credit' = [credit EXCEPT ![Slot] = Capped(@, us)]
  /\ stage' = "idle" /\ us' = 0 /\ began' = 0
  /\ UNCHANGED <<clock, booted, boots, open, aired, unrecorded>>

\* Ctrl-C, or the driver's RuntimeError, leaves Node.send while the frame is on
\* the air: the line that records it is not reached.
LeftOnAir ==
  /\ stage = "sending" /\ clock > began /\ Cardinality(unrecorded) < MaxLeft
  /\ stage' = "idle" /\ us' = 0 /\ began' = 0
  /\ aired' = aired \ {[at |-> began, us |-> us]}
  /\ unrecorded' = unrecorded \cup {[at |-> began, us |-> us]}
  /\ UNCHANGED <<clock, booted, boots, open, ring, credit>>

\* DutyCycle.__str__, printed by status(), describe() and a refusal.
Report ==
  /\ stage = "idle"
  /\ Read
  /\ UNCHANGED <<clock, booted, boots, open, call, history>>

Tick ==
  /\ clock < Horizon
  /\ clock' = clock + 1
  /\ UNCHANGED <<booted, boots, open, ring, call, history>>

\* A new DutyCycle starts with an empty ring.
Emptied ==
  /\ window' = NoAirtime /\ last' = 0
  /\ stage' = "idle" /\ us' = 0 /\ began' = 0
  /\ credit' = NoCredit
  /\ aired' = {} /\ unrecorded' = {}

\* release() and start() at the prompt, without a reset; configure() may have
\* changed the region between them.
Restart ==
  /\ stage = "idle" /\ boots < MaxBoots
  /\ boots' = boots + 1
  /\ open' \in BOOLEAN
  /\ Emptied
  /\ UNCHANGED <<clock, booted>>

\* A reset at any moment: power, ctrl-D, microcontroller.reset().  Admin may
\* have changed the region before it.
Reboot ==
  /\ boots < MaxBoots
  /\ boots' = boots + 1
  /\ clock < Horizon
  /\ clock' = clock + 1
  /\ booted' = clock'
  /\ open' \in BOOLEAN
  /\ Emptied

Next ==
  \/ \E a \in Airtimes : Ask(a)
  \/ GiveUp \/ Transmit \/ Record \/ LeftOnAir \/ Report \/ Tick \/ Restart \/ Reboot

Spec == Init /\ [][Next]_vars

-----------------------------------------------------------------------------
(* Properties.                                                             *)

\* The slot bucket k stands for: the latest one, up to `last`, that falls on it.
SlotOf(k) == last - ((last - k) % Buckets)

\* The ring forgets nothing early and remembers nothing late: each bucket holds
\* exactly what was recorded in the slot it stands for, and is empty when that
\* slot would lie before the boot.
WindowExact ==
  \A k \in Ring : window[k] = IF SlotOf(k) < 0 THEN 0 ELSE credit[SlotOf(k)]

\* Airtime of those transmissions on the air during [from, from + span).
OnAir(sent, from, span) ==
  LET in == {e \in sent : e.at < from + span /\ e.at + e.us > from}
  IN SumFunctionOnSet([e \in sent |-> e.us], in)

\* Over any stretch of the window less one bucket, wherever it starts, a node
\* that refuses by its ring has had no more on the air since the ring was last
\* emptied than its budget and what exceptions left unrecorded.
BudgetKept ==
  ~open => \A from \in 0..Horizon :
    LET span == (Buckets - 1) * BucketS
    IN OnAir(aired \cup unrecorded, from, span) <= Budget + OnAir(unrecorded, from, span)

=============================================================================
