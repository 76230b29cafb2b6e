-------------------------------- MODULE Upkeep --------------------------------
(***************************************************************************)
(* The upkeep a node owes: Node.service, which reads the receiver, saves    *)
(* the cache, and broadcasts a position and a nodeinfo, by deadlines that   *)
(* are looked at on the way past; and the clock, which the mesh, the phone  *)
(* and the satellites set.                                                  *)
(* A deadline is the seconds left to it.  The clock is what it is ahead of  *)
(* the time by; a stamp off the air is behind by its delay, or, of a node    *)
(* whose clock is fast, ahead.  A client's time is right.  The dirty         *)
(* flags of the two tables, which every line here reads together, are one.  *)
(* A board without a receiver is one whose receiver never speaks.           *)
(***************************************************************************)
EXTENDS Gnss

CONSTANTS
  AutosaveS, SettleS,     \* meshcache's intervals
  InfoS, PositionS,       \* the broadcast intervals
  ResyncS,                \* GPS_RESYNC_S
  Cap,                    \* how far the mesh may move a clock (an hour)
  Delays,                 \* how far stamps are behind
  MaxGap                  \* bound: seconds between two calls of service

ASSUME UpkeepOK ==
  /\ SettleS \in Nat \ {0} /\ AutosaveS \in Nat /\ AutosaveS >= SettleS
  /\ InfoS \in Nat \ {0} /\ PositionS \in Nat \ {0} /\ ResyncS \in Nat \ {0}
  /\ Cap \in Nat /\ Delays \subseteq Int
  /\ MaxGap \in Nat \ {0} /\ MaxGap < PositionS /\ MaxGap <= Oldest

VARIABLES
  rank,       \* clock_rank
  clock,      \* the RTC, ahead of the time by
  attached,   \* a client is connected
  fix,        \* gps.fix
  nextGps,    \* _next_gps
  dirty,      \* nodes.dirty or inbox.dirty
  settleAt, nextSave, nextPos, nextInfo,
  ask,        \* _ask_names
  best,       \* history, while the mesh is all there is: the best stamp heeded,
  worst,      \* and telemetry's worst
  bare,       \* history: the last GGA that claimed a position brought none
  silent,     \* history: the receiver has let a stamp get old
  unsaved,    \* history: for how long there has been news, since a save was tried
  sinceSave, sincePos, sinceInfo,  \* history: since each was last tried
  late,       \* history: calls that passed a due nodeinfo by
  amiss       \* history: what was done too soon

stamps == <<best, worst>>
receiver == <<fix, nextGps, bare, silent>>
clocks == <<rank, clock, stamps, attached, receiver>>
saves == <<dirty, settleAt, nextSave, unsaved, sinceSave>>
broadcasts == <<nextPos, nextInfo, ask, sincePos, sinceInfo, late>>
vars == <<clocks, saves, broadcasts, amiss>>

NONE == 0    \* CLOCK_*
MESH == 1
PHONE == 2
GPS == 3

Deadline(n) == {Off} \cup 0..n

TypeOK ==
  /\ rank \in NONE..GPS /\ clock \in Int /\ attached \in BOOLEAN
  /\ fix \in Fix /\ nextGps \in Deadline(ResyncS)
  /\ dirty \in BOOLEAN /\ ask \in BOOLEAN /\ silent \in BOOLEAN
  /\ settleAt \in Deadline(SettleS) /\ nextSave \in 0..AutosaveS
  /\ nextPos \in Deadline(PositionS) /\ nextInfo \in 0..InfoS
  /\ best \in Int /\ worst \in Int /\ bare \in BOOLEAN /\ unsaved \in {Off} \cup Nat
  /\ sinceSave \in 0..SettleS /\ sincePos \in 0..PositionS /\ sinceInfo \in 0..InfoS
  /\ late \in 0..2
  /\ amiss \subseteq {"save", "nodeinfo", "position"}

\* Node.__init__ with what cache_load brought back, and start.
Booted ==
  /\ rank' = NONE /\ clock' = 0 /\ best' = 0 /\ worst' = 0
  /\ attached' = FALSE
  /\ fix' = NoFix /\ nextGps' = Off /\ bare' = FALSE /\ silent' = FALSE
  /\ dirty' = FALSE /\ unsaved' = Off
  /\ settleAt' = Off /\ nextSave' = AutosaveS
  /\ nextPos' = Off /\ nextInfo' = InfoS
  /\ ask' = TRUE
  /\ sinceSave' = SettleS /\ sincePos' = PositionS /\ sinceInfo' = InfoS
  /\ late' = 0

Init ==
  /\ rank = NONE /\ clock = 0 /\ best = 0 /\ worst = 0
  /\ attached = FALSE
  /\ fix = NoFix /\ nextGps = Off /\ bare = FALSE /\ silent = FALSE
  /\ dirty = FALSE /\ unsaved = Off
  /\ settleAt = Off /\ nextSave = AutosaveS
  /\ nextPos = Off /\ nextInfo = InfoS
  /\ ask = TRUE
  /\ sinceSave = SettleS /\ sincePos = PositionS /\ sinceInfo = InfoS
  /\ late = 0
  /\ amiss = {}

\* Fault: a deadline that was passed by goes on down.
LeftOn(t, d) == IF t = Off THEN Off ELSE t - d

Left(t, d) == IF t > d THEN t - d ELSE IF t = Off THEN Off ELSE 0
Since(t, d, top) == IF t + d < top THEN t + d ELSE top

-----------------------------------------------------------------------------
(* What comes in between two calls of service.                             *)

\* Fault: any stamp will do for a start.
SeedsAny(port) == TRUE

\* Only telemetry seeds a clock that was never set.
Seeds(port) == port = "telemetry"

\* The worst telemetry, after one more stamp.
Worse(port, delay) ==
  IF port = "telemetry" /\ (rank = NONE \/ -delay < worst) THEN -delay ELSE worst

\* _seed_clock, of a stamp that far behind.
Stamped(port, delay) ==
  IF rank >= PHONE \/ attached
    THEN UNCHANGED <<rank, clock, stamps>>
  ELSE IF rank = NONE
    THEN IF Seeds(port)
           THEN rank' = MESH /\ clock' = -delay /\ best' = -delay /\ worst' = Worse(port, delay)
           ELSE UNCHANGED <<rank, clock, stamps>>
  ELSE /\ clock' = IF clock < -delay /\ -delay - clock < Cap THEN -delay ELSE clock
       /\ best' = IF best < -delay THEN -delay ELSE best
       /\ worst' = Worse(port, delay)
       /\ UNCHANGED rank

\* _receive: a packet with or without a stamp, worth saving or not.
Noted(news) ==
  /\ dirty' = (dirty \/ news)
  /\ unsaved' = IF news /\ unsaved = Off THEN 0 ELSE unsaved

Receive(news) ==
  /\ Noted(news)
  /\ UNCHANGED <<clocks, settleAt, nextSave, sinceSave, broadcasts, amiss>>

ReceiveStamped(port, delay, news) ==
  /\ Stamped(port, delay)
  /\ Noted(news)
  /\ UNCHANGED <<attached, receiver, settleAt, nextSave, sinceSave, broadcasts, amiss>>

\* A client comes or goes, on either transport.
Attach ==
  /\ attached' = ~attached
  /\ UNCHANGED <<rank, clock, stamps, receiver, saves, broadcasts, amiss>>

\* set_clock, for the client's set_time_only.
SetTime ==
  /\ attached /\ rank <= PHONE
  /\ rank' = PHONE /\ clock' = 0 /\ best' = 0 /\ worst' = 0
  /\ UNCHANGED <<attached, receiver, saves, broadcasts, amiss>>

-----------------------------------------------------------------------------
(* Saving.                                                                 *)

\* save puts off both deadlines, whether it finds anything to write or not.
Settled(t) == Off

\* save with the settle deadline at t, forced or not, and with memory for
\* meshcache and what it builds, or not.
Saved(t, force, memory) ==
  /\ nextSave' = AutosaveS
  /\ settleAt' = Settled(t)
  /\ IF (force \/ dirty) /\ memory
       THEN dirty' = FALSE /\ unsaved' = Off
       ELSE dirty' = dirty /\ unsaved' = IF unsaved = Off THEN Off ELSE 0

\* At the prompt, forced; and when serve or stop ends.
Save(force, memory) ==
  /\ Saved(settleAt, force, memory)
  /\ sinceSave' = 0
  /\ UNCHANGED <<clocks, broadcasts, amiss>>

\* restart, ordered by a client, which saves first if there is memory; or power
\* goes.  What was not saved is not heard of again.
Restart == Booted /\ UNCHANGED amiss

\* factory_reset, full: the tables are empty and so is the flash.
FactoryReset ==
  /\ dirty' = FALSE /\ unsaved' = Off
  /\ UNCHANGED <<settleAt, nextSave, sinceSave, clocks, broadcasts, amiss>>

-----------------------------------------------------------------------------
(* Broadcasts.                                                             *)

\* introduce, at the prompt.
Introduce ==
  /\ ask' = FALSE
  /\ nextInfo' = InfoS
  /\ sinceInfo' = 0 /\ late' = 0
  /\ UNCHANGED <<clocks, saves, nextPos, sincePos, amiss>>

\* Fault: only a position that went waits out the interval.
PositionArmedIfSent(goes) == IF goes THEN PositionS ELSE 0

\* Fault: due again at once.
PositionArmedNow(goes) == 0

PositionArmed(goes) == PositionS

\* Fault: dated from the last change.
SettleFromLast(d) == IF ~dirty THEN Off ELSE SettleS

\* Dated from the first change.
SettleBy(d) ==
  IF ~dirty THEN Off ELSE IF settleAt = Off THEN SettleS ELSE Left(settleAt, d)

\* _service_gps, with the fix as it is now: the clock is taken when nothing as
\* good has set it, and corrected now and then.
Synced(f, d) ==
  LET due == Left(nextGps, d)
  IN IF f.when # Off /\ (rank < GPS \/ due \in {Off, 0})
       THEN rank' = GPS /\ clock' = -f.when /\ nextGps' = ResyncS /\ best' = 0 /\ worst' = 0
       ELSE nextGps' = due /\ UNCHANGED <<rank, clock, stamps>>

\* service, d seconds after it was last called, with what the receiver has said:
\* a sentence at most, as another call may follow at once.  A send goes, or a
\* guard refuses it; whether there is memory, and whether a send goes, is asked
\* only where it makes a difference.
Service(d, s, memory, goes) ==
  LET f       == Parsed(Older(fix, d), s)
      settle  == SettleBy(d)
      saveDue == Left(nextSave, d) = 0 \/ settle = 0
      pos     == IF nextPos = Off /\ Valid(f) THEN 0 ELSE Left(nextPos, d)
      posDue  == pos = 0
      posGoes == posDue /\ Valid(f) /\ goes
      infoDue == Left(nextInfo, d) = 0
      saveAge == Since(sinceSave, d, SettleS)
      posAge  == Since(sincePos, d, PositionS)
      infoAge == Since(sinceInfo, d, InfoS)
  IN /\ memory \/ (saveDue /\ dirty)
     /\ goes \/ (posDue /\ Valid(f))
     /\ fix' = f
     /\ Synced(f, d)
     /\ silent' = (silent \/ f.when > MaxGap)
     /\ bare' = IF s.kind = "GGA" /\ s.quality # 0 THEN ~s.placed ELSE bare
     /\ IF saveDue
          THEN /\ Saved(settle, FALSE, memory)
               /\ sinceSave' = IF dirty THEN 0 ELSE saveAge
          ELSE /\ settleAt' = settle /\ nextSave' = Left(nextSave, d)
               /\ unsaved' = IF unsaved = Off THEN Off ELSE unsaved + d
               /\ sinceSave' = saveAge
               /\ UNCHANGED dirty
     /\ nextPos' = IF posDue THEN PositionArmed(posGoes) ELSE pos
     /\ sincePos' = IF posDue THEN 0 ELSE posAge
     /\ IF infoDue /\ ~posGoes
          THEN nextInfo' = InfoS /\ ask' = FALSE /\ sinceInfo' = 0 /\ late' = 0
          ELSE /\ nextInfo' = Left(nextInfo, d)
               /\ sinceInfo' = infoAge
               /\ late' = IF infoDue /\ late < 2 THEN late + 1 ELSE late
               /\ UNCHANGED ask
     /\ amiss' = amiss
          \cup (IF saveDue /\ dirty /\ saveAge < SettleS THEN {"save"} ELSE {})
          \cup (IF posDue /\ posAge < PositionS THEN {"position"} ELSE {})
          \cup (IF infoDue /\ ~posGoes /\ infoAge < InfoS THEN {"nodeinfo"} ELSE {})
     /\ UNCHANGED attached

\* What the receiver can have sent in those seconds.
Said(d) == {s \in Sentences : s.kind = "RMC" => s.when <= d}

Next ==
  \/ \E news \in BOOLEAN :
       \/ Receive(news)
       \/ \E delay \in Delays, port \in {"telemetry", "position"} : ReceiveStamped(port, delay, news)
  \/ Attach \/ SetTime
  \/ \E force, memory \in BOOLEAN : Save(force, memory)
  \/ Restart \/ FactoryReset \/ Introduce
  \/ \E d \in 0..MaxGap, memory, goes \in BOOLEAN :
       \E s \in Said(d) : Service(d, s, memory, goes)

Spec == Init /\ [][Next]_vars

-----------------------------------------------------------------------------
(* Properties.                                                             *)

\* The newest stamp off the air is the least wrong (meshnode.py:550).  While the
\* mesh is all there is the clock lies between the stamps heeded, and is the best
\* of them as long as no telemetry was behind that by the hour a stamp may move
\* it: whatever order they come in, and however stale a position's are.  A
\* client's clock, once taken, is not moved by anything less; and the receiver's,
\* while it speaks, is never older than the seconds between two calls.
ClockAsGood ==
  /\ rank = MESH => clock \in worst..best /\ (best - worst < Cap => clock = best)
  /\ rank = PHONE => clock = 0
  /\ rank = GPS /\ ~silent => clock \in -MaxGap..0

\* The receiver answers for every position this node would state: none was
\* worked out without satellites, whatever sentences came between, unless the
\* word for it came in a GGA without coordinates that can be read (nmea.rs:471),
\* which is then taken for the coordinates there are.
Vouched == Valid(fix) /\ ~bare => fix.place = "satellites"

\* News cannot be put off by more news (meshnode.py:426), nor by saves that find
\* no memory: a save is tried for it in its time.
NewsSaved == unsaved < SettleS + MaxGap

\* Flash is rated for a number of erasures (meshcache.py:17), and a refusal waits
\* out the interval (meshnode.py:441): however the deadlines, the saves asked for
\* and those that failed fall, the node does not write of itself twice within the
\* time news is given to settle, nor try either broadcast again before its own.
Paced == amiss = {}

\* A position that goes ends the call, but never keeps a due nodeinfo waiting for
\* longer than one.
Punctual == late <= 1

=============================================================================
