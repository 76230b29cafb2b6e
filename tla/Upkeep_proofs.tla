----------------------------- MODULE Upkeep_proofs -----------------------------
(* The upkeep of a node, for all intervals, delays and gaps between calls; and *)
(* of what else a node answers with and runs on: how a packet handed over by a *)
(* phone is answered and a dump ended, and what the radio settings come to.    *)
EXTENDS Upkeep, PhoneMessages, TLAPS

(* The inductive invariant, of the clock, of saving and of broadcasting.    *)

\* A quality that confirms came with the position there is, or with none.
Backed(f, b) == f.quality \in Confirmed /\ ~b => f.place = "satellites"
VouchedFor == Backed(fix, bare)

ClocksOK ==
  /\ rank \in NONE..GPS /\ clock \in Int /\ best \in Int /\ worst \in Int
  /\ attached \in BOOLEAN /\ silent \in BOOLEAN /\ bare \in BOOLEAN
  /\ fix \in Fix /\ nextGps \in Deadline(ResyncS)
  /\ VouchedFor /\ ClockAsGood

\* News is waited with from the first call that sees it, and since then as long
\* as is gone of the time to settle.
Settling ==
  /\ dirty <=> unsaved # Off
  /\ settleAt # 0
  /\ settleAt = Off => unsaved \in {Off, 0}
  /\ settleAt # Off => unsaved + settleAt <= SettleS + MaxGap

\* A deadline is no nearer than its interval leaves it.
SavesSpaced ==
  /\ settleAt # Off => sinceSave + settleAt >= SettleS
  /\ sinceSave + nextSave >= SettleS

SavesOK ==
  /\ dirty \in BOOLEAN /\ settleAt \in Deadline(SettleS) /\ nextSave \in 0..AutosaveS
  /\ unsaved \in {Off} \cup Nat /\ sinceSave \in 0..SettleS
  /\ Settling /\ SavesSpaced

SendsSpaced ==
  /\ IF nextPos = Off THEN sincePos = PositionS ELSE sincePos + nextPos >= PositionS
  /\ sinceInfo + nextInfo >= InfoS

\* A nodeinfo that was passed by is due, and the position that passed it is not.
Waiting == late = 0 \/ (late = 1 /\ nextInfo = 0 /\ nextPos = PositionS)

SendsOK ==
  /\ nextPos \in Deadline(PositionS) /\ nextInfo \in 0..InfoS /\ ask \in BOOLEAN
  /\ sincePos \in 0..PositionS /\ sinceInfo \in 0..InfoS
  /\ SendsSpaced /\ Waiting

IInv == ClocksOK /\ SavesOK /\ SendsOK /\ Paced

-----------------------------------------------------------------------------
(* The receiver.                                                           *)

\* The fields of a fix.
LEMMA FixFields ==
  ASSUME NEW f \in Fix
  PROVE  /\ f.when \in {Off} \cup 0..Oldest /\ f.quality \in Qualities \cup {0}
         /\ f.status \in Statuses \cup {""} /\ f.place \in {"none", "satellites", "reckoned"}
  BY DEF Fix

\* Time passes for its stamp alone.
LEMMA OlderKept ==
  ASSUME NEW f \in Fix, NEW d \in Nat
  PROVE  Older(f, d) \in Fix /\ Older(f, d).quality = f.quality /\ Older(f, d).place = f.place
<1>1. Oldest \in Nat /\ f.when \in {Off} \cup 0..Oldest
  BY GnssOK, FixFields DEF GnssOK
<1>2. (IF f.when = Off THEN Off ELSE IF f.when + d < Oldest THEN f.when + d ELSE Oldest)
        \in {Off} \cup 0..Oldest
  BY <1>1 DEF Off
<1>3. \A w \in {Off} \cup 0..Oldest :
        LET g == [f EXCEPT !.when = w]
        IN g \in Fix /\ g.quality = f.quality /\ g.place = f.place
  BY DEF Fix
<1>4. QED  BY <1>2, <1>3 DEF Older

\* A position is confirmed by satellites, is not confirmed, or is an older one.
LEMMA PlacedKept ==
  ASSUME NEW f \in Fix, NEW q \in Qualities, NEW placed \in BOOLEAN, NEW b \in BOOLEAN, Backed(f, b)
  PROVE  LET g == Placed(f, q, placed)
         IN g \in Fix /\ Backed(g, IF q # 0 THEN ~placed ELSE b)
<1>1. \A p \in {"none", "satellites", "reckoned"} :
        LET g == [f EXCEPT !.quality = q, !.place = p]
        IN g \in Fix /\ g.quality = q /\ g.place = p
  BY DEF Fix
<1>2. CASE q = 0 \/ ~placed
  <2>1. Placed(f, q, placed) = [f EXCEPT !.quality = q, !.place = f.place]  BY <1>2 DEF Placed
  <2>2. Placed(f, q, placed) \in Fix /\ Placed(f, q, placed).quality = q
    BY <1>1, <2>1, FixFields
  <2>3. q = 0 => q \notin Confirmed  BY DEF Confirmed
  <2>4. QED  BY <1>2, <2>2, <2>3 DEF Backed
<1>3. CASE q # 0 /\ placed
  <2>1. By(q) \in {"none", "satellites", "reckoned"} /\ (q \in Confirmed => By(q) = "satellites")
    BY DEF By
  <2>2. Placed(f, q, placed) = [f EXCEPT !.quality = q, !.place = By(q)]  BY <1>3 DEF Placed
  <2>3. Placed(f, q, placed) \in Fix /\ Placed(f, q, placed).quality = q
        /\ Placed(f, q, placed).place = By(q)
    BY <1>1, <2>1, <2>2
  <2>4. QED  BY <2>1, <2>3 DEF Backed
<1>4. QED  BY <1>2, <1>3

\* A time moves nothing else.
LEMMA TimedKept ==
  ASSUME NEW f \in Fix, NEW t \in Statuses, NEW x \in {Off} \cup 0..Oldest
  PROVE  LET g == Timed(f, t, x)
         IN g \in Fix /\ g.quality = f.quality /\ g.place = f.place
<1>1. \A w \in {Off} \cup 0..Oldest :
        LET g == [f EXCEPT !.status = t, !.when = w]
        IN g \in Fix /\ g.quality = f.quality /\ g.place = f.place
  BY DEF Fix
<1>2. CASE x = Off
  <2>1. Timed(f, t, x) = [f EXCEPT !.status = t, !.when = f.when]  BY <1>2 DEF Timed
  <2>2. QED  BY <1>1, <2>1, FixFields
<1>3. CASE x # Off
  <2>1. Timed(f, t, x) = [f EXCEPT !.status = t, !.when = x]  BY <1>3 DEF Timed
  <2>2. LET g == [f EXCEPT !.status = t, !.when = x]
        IN g \in Fix /\ g.quality = f.quality /\ g.place = f.place
    BY <1>1
  <2>3. QED  BY <2>1, <2>2
<1>4. QED  BY <1>2, <1>3

\* Whether the last GGA that claimed a position brought none.
BareAfter(t, b) == IF t.kind = "GGA" /\ t.quality # 0 THEN ~t.placed ELSE b

\* A sentence leaves a fix, and one whose position is answered for.
LEMMA ParsedKept ==
  ASSUME NEW f \in Fix, NEW t \in Sentences, NEW b \in BOOLEAN, Backed(f, b)
  PROVE  Parsed(f, t) \in Fix /\ Backed(Parsed(f, t), BareAfter(t, b)) /\ BareAfter(t, b) \in BOOLEAN
<1>1. CASE t \in [kind : {"GGA"}, quality : Qualities, placed : BOOLEAN]
  <2>1. t.kind = "GGA" /\ t.quality \in Qualities /\ t.placed \in BOOLEAN  BY <1>1
  <2>2. Parsed(f, t) = Placed(f, t.quality, t.placed)  BY <2>1 DEF Parsed
  <2>3. BareAfter(t, b) = IF t.quality # 0 THEN ~t.placed ELSE b  BY <2>1, Zenon DEF BareAfter
  <2>4. BareAfter(t, b) \in BOOLEAN  BY <2>1, <2>3, Zenon
  <2>5. QED  BY <2>1, <2>2, <2>3, <2>4, PlacedKept, Zenon
<1>2. CASE t \in [kind : {"RMC"}, status : Statuses, when : {Off} \cup 0..Oldest]
  <2>1. Parsed(f, t) = Timed(f, t.status, t.when) /\ t.status \in Statuses
        /\ t.when \in {Off} \cup 0..Oldest
    BY <1>2 DEF Parsed
  <2>2. t.kind = "RMC"  BY <1>2
  <2>3. BareAfter(t, b) = b  BY <2>2, Zenon DEF BareAfter
  <2>4. QED  BY <2>1, <2>3, TimedKept DEF Backed
<1>3. CASE t \in [kind : {"other"}]
  <2>1. Parsed(f, t) = f  BY <1>3 DEF Parsed
  <2>2. t.kind = "other"  BY <1>3
  <2>3. BareAfter(t, b) = b  BY <2>2, Zenon DEF BareAfter
  <2>4. QED  BY <2>1, <2>3
<1>4. QED  BY <1>1, <1>2, <1>3 DEF Sentences

-----------------------------------------------------------------------------
(* What a node starts as, and what a step that leaves a part alone does.   *)

LEMMA NothingFixed ==
  NoFix \in Fix /\ NoFix.quality \notin Confirmed
<1>1. NoFix \in Fix  BY DEF NoFix, Fix, Off
<1>2. NoFix.quality = 0  BY DEF NoFix
<1>3. QED  BY <1>1, <1>2 DEF Confirmed

Fresh ==
  /\ rank = NONE /\ clock = 0 /\ best = 0 /\ worst = 0 /\ attached = FALSE
  /\ fix = NoFix /\ nextGps = Off /\ bare = FALSE /\ silent = FALSE
  /\ dirty = FALSE /\ unsaved = Off /\ settleAt = Off /\ nextSave = AutosaveS
  /\ nextPos = Off /\ nextInfo = InfoS /\ ask = TRUE /\ late = 0
  /\ sinceSave = SettleS /\ sincePos = PositionS /\ sinceInfo = InfoS

LEMMA FreshOK == Fresh => ClocksOK /\ SavesOK /\ SendsOK
<1> SUFFICES ASSUME Fresh  PROVE ClocksOK /\ SavesOK /\ SendsOK
  OBVIOUS
<1>1. ClocksOK
  <2>1. attached \in BOOLEAN /\ silent \in BOOLEAN /\ bare \in BOOLEAN /\ fix \in Fix /\ VouchedFor
    BY NothingFixed, Zenon DEF Fresh, VouchedFor, Backed
  <2>2. nextGps \in Deadline(ResyncS)  BY DEF Fresh, Deadline
  <2>3. rank \in NONE..GPS /\ clock \in Int /\ best \in Int /\ worst \in Int /\ ClockAsGood
    BY DEF Fresh, ClockAsGood, NONE, MESH, PHONE, GPS
  <2>4. QED  BY <2>1, <2>2, <2>3 DEF ClocksOK
<1>2. SavesOK
  <2>1. dirty \in BOOLEAN /\ ~dirty  BY Zenon DEF Fresh
  <2>2. settleAt \in Deadline(SettleS) /\ nextSave \in 0..AutosaveS
        /\ unsaved \in {Off} \cup Nat /\ sinceSave \in 0..SettleS
    BY UpkeepOK DEF UpkeepOK, Fresh, Deadline
  <2>3. Settling  BY <2>1 DEF Fresh, Settling, Off
  <2>4. SavesSpaced  BY UpkeepOK DEF UpkeepOK, Fresh, SavesSpaced
  <2>5. QED  BY <2>1, <2>2, <2>3, <2>4 DEF SavesOK
<1>3. SendsOK
  BY UpkeepOK DEF UpkeepOK, Fresh, SendsOK, SendsSpaced, Waiting, Deadline, Off
<1>4. QED  BY <1>1, <1>2, <1>3

LEMMA InitIInv == Init => IInv
<1>1. Init => Fresh  BY DEF Init, Fresh
<1>2. Init => Paced  BY DEF Init, Paced
<1>3. QED  BY <1>1, <1>2, FreshOK DEF IInv

LEMMA RestartKeeps ==
  ASSUME IInv, Restart
  PROVE  IInv'
<1>1. Fresh'  BY DEF Restart, Booted, Fresh
<1>2. (ClocksOK /\ SavesOK /\ SendsOK)'  BY <1>1, FreshOK, PTL
<1>3. Paced'  BY DEF IInv, Restart, Paced
<1>4. QED  BY <1>2, <1>3 DEF IInv

LEMMA ClocksAlone ==
  ASSUME ClocksOK, UNCHANGED clocks
  PROVE  ClocksOK'
  BY DEF ClocksOK, clocks, stamps, receiver, VouchedFor, Backed, ClockAsGood

LEMMA SavesAlone ==
  ASSUME SavesOK, UNCHANGED saves
  PROVE  SavesOK'
  BY DEF SavesOK, saves, Settling, SavesSpaced

LEMMA SendsAlone ==
  ASSUME SendsOK, UNCHANGED broadcasts
  PROVE  SendsOK'
  BY DEF SendsOK, broadcasts, SendsSpaced, Waiting

-----------------------------------------------------------------------------
(* What comes in between two calls, and what is asked for.                 *)

\* A stamp off the air moves a clock the mesh has set, or none, and never back.
LEMMA StampedKeeps ==
  ASSUME ClocksOK, NEW port, NEW delay \in Int, Stamped(port, delay), UNCHANGED <<attached, receiver>>
  PROVE  ClocksOK'
<1>1. UNCHANGED <<attached, fix, nextGps, bare, silent>>  BY DEF receiver
<1>2. attached' \in BOOLEAN /\ silent' \in BOOLEAN /\ bare' \in BOOLEAN /\ fix' \in Fix
      /\ nextGps' \in Deadline(ResyncS) /\ VouchedFor'
  BY <1>1, Zenon DEF ClocksOK, VouchedFor, Backed
<1>3. CASE UNCHANGED <<rank, clock, stamps>>
  BY <1>3, ClocksAlone DEF clocks
<1>4. CASE rank' = MESH /\ clock' = -delay /\ best' = -delay /\ worst' = -delay
  <2>1. rank' \in NONE..GPS /\ clock' \in Int /\ best' \in Int /\ worst' \in Int /\ ClockAsGood'
    BY <1>4 DEF ClockAsGood, NONE, MESH, PHONE, GPS
  <2>2. QED  BY <1>2, <2>1 DEF ClocksOK
<1>5. CASE /\ rank # NONE /\ rank < PHONE /\ rank' = rank
           /\ clock' = IF clock < -delay /\ -delay - clock < Cap THEN -delay ELSE clock
           /\ best' = IF best < -delay THEN -delay ELSE best
           /\ worst' = IF port = "telemetry" /\ -delay < worst THEN -delay ELSE worst
  <2>1. rank = MESH /\ clock \in worst..best /\ (best - worst < Cap => clock = best) /\ Cap \in Nat
        /\ worst \in Int /\ best \in Int /\ clock \in Int
    BY <1>5, UpkeepOK DEF UpkeepOK, ClocksOK, ClockAsGood, NONE, MESH, PHONE, GPS
  <2>2. clock' \in Int /\ best' \in Int /\ worst' \in Int /\ worst' <= worst
    BY <1>5, <2>1
  <2>3. clock' \in worst'..best'
    BY <1>5, <2>1, <2>2
  <2>4. best' - worst' < Cap => clock' = best'
    BY <1>5, <2>1, <2>2
  <2>5. rank' \in NONE..GPS /\ ClockAsGood'
    BY <1>5, <2>1, <2>3, <2>4 DEF ClockAsGood, NONE, MESH, PHONE, GPS
  <2>6. QED  BY <1>2, <2>2, <2>5 DEF ClocksOK
<1>6. QED
  BY <1>3, <1>4, <1>5 DEF Stamped, Worse, Seeds, ClocksOK, NONE, MESH, PHONE, GPS

\* News only starts to wait.
LEMMA NotedKeeps ==
  ASSUME SavesOK, NEW news \in BOOLEAN, Noted(news), UNCHANGED <<settleAt, nextSave, sinceSave>>
  PROVE  SavesOK'
<1>1. CASE ~news \/ dirty
  <2>1. UNCHANGED saves
    BY <1>1 DEF Noted, SavesOK, Settling, saves
  <2>2. QED  BY <2>1, SavesAlone
<1>2. CASE news /\ ~dirty
  <2>1. unsaved = Off  BY <1>2 DEF SavesOK, Settling
  <2>2. dirty' = TRUE /\ unsaved' = 0  BY <1>2, <2>1 DEF Noted
  <2>3. dirty' \in BOOLEAN /\ dirty'  BY <2>2, Zenon
  <2>4. settleAt # Off => settleAt \in 0..SettleS  BY DEF SavesOK, Deadline
  <2>5. Settling'
    BY <2>1, <2>2, <2>3, <2>4, UpkeepOK DEF UpkeepOK, SavesOK, Settling, Off
  <2>6. QED  BY <2>2, <2>3, <2>5 DEF SavesOK, SavesSpaced
<1>3. QED  BY <1>1, <1>2

LEMMA ReceiveKeeps ==
  ASSUME IInv, NEW news \in BOOLEAN, Receive(news)
  PROVE  IInv'
<1>1. SavesOK'  BY NotedKeeps DEF IInv, Receive
<1>2. QED  BY <1>1, ClocksAlone, SendsAlone DEF IInv, Receive, Paced

LEMMA ReceiveStampedKeeps ==
  ASSUME IInv, NEW news \in BOOLEAN, NEW port, NEW delay \in Int, ReceiveStamped(port, delay, news)
  PROVE  IInv'
<1>1. ClocksOK'  BY StampedKeeps DEF IInv, ReceiveStamped
<1>2. SavesOK'  BY NotedKeeps DEF IInv, ReceiveStamped
<1>3. SendsOK'  BY SendsAlone DEF IInv, ReceiveStamped
<1>4. QED  BY <1>1, <1>2, <1>3 DEF IInv, ReceiveStamped, Paced

LEMMA AttachKeeps ==
  ASSUME IInv, Attach
  PROVE  IInv'
<1>1. ClocksOK'
  <2>1. attached' \in BOOLEAN /\ silent' \in BOOLEAN /\ bare' \in BOOLEAN
    BY Zenon DEF Attach, receiver, IInv, ClocksOK
  <2>2. QED  BY <2>1 DEF Attach, IInv, ClocksOK, stamps, receiver, VouchedFor, Backed, ClockAsGood
<1>2. QED  BY <1>1, SavesAlone, SendsAlone DEF IInv, Attach, Paced

LEMMA SetTimeKeeps ==
  ASSUME IInv, SetTime
  PROVE  IInv'
<1>1. ClocksOK'
  BY DEF SetTime, IInv, ClocksOK, receiver, VouchedFor, Backed, ClockAsGood, NONE, MESH, PHONE, GPS
<1>2. QED  BY <1>1, SavesAlone, SendsAlone DEF IInv, SetTime, Paced

\* A save, whether it wrote or not, leaves nothing waiting to settle.
LEMMA SavedKeeps ==
  ASSUME SavesOK, NEW t, NEW force \in BOOLEAN, NEW memory \in BOOLEAN, Saved(t, force, memory),
         sinceSave' \in 0..SettleS
  PROVE  SavesOK'
<1>1. nextSave' = AutosaveS /\ settleAt' = Off
  BY DEF Saved, Settled
<1>2. dirty' \in BOOLEAN /\ unsaved' \in {Off, 0} /\ (dirty' <=> unsaved' # Off)
  <2>1. CASE (force \/ dirty) /\ memory
    <3>1. dirty' = FALSE /\ unsaved' = Off  BY <2>1 DEF Saved
    <3>2. dirty' \in BOOLEAN /\ ~dirty'  BY <3>1, Zenon
    <3>3. QED  BY <3>1, <3>2
  <2>2. CASE ~((force \/ dirty) /\ memory)
    <3>1. dirty' = dirty /\ unsaved' = IF unsaved = Off THEN Off ELSE 0  BY <2>2 DEF Saved
    <3>2. dirty' \in BOOLEAN  BY <3>1, Zenon DEF SavesOK
    <3>3. QED  BY <3>1, <3>2 DEF SavesOK, Settling, Off
  <2>3. QED  BY <2>1, <2>2
<1>3. Settling'
  BY <1>1, <1>2 DEF Settling, Off
<1>4. SavesSpaced'
  <2>1. SettleS \in Nat /\ AutosaveS \in Nat /\ AutosaveS >= SettleS  BY UpkeepOK DEF UpkeepOK
  <2>2. \A n \in Nat : n + AutosaveS >= SettleS  BY <2>1
  <2>3. sinceSave' \in Nat  BY <2>1
  <2>4. QED  BY <1>1, <2>2, <2>3 DEF SavesSpaced
<1>5. settleAt' \in Deadline(SettleS) /\ nextSave' \in 0..AutosaveS /\ unsaved' \in {Off} \cup Nat
  BY <1>1, <1>2, UpkeepOK DEF UpkeepOK, Deadline
<1>6. QED  BY <1>2, <1>3, <1>4, <1>5 DEF SavesOK

LEMMA SaveKeeps ==
  ASSUME IInv, NEW force \in BOOLEAN, NEW memory \in BOOLEAN, Save(force, memory)
  PROVE  IInv'
<1>1. SavesOK'
  <2>1. sinceSave' \in 0..SettleS  BY UpkeepOK DEF UpkeepOK, Save
  <2>2. QED  BY <2>1, SavedKeeps DEF IInv, Save
<1>2. QED  BY <1>1, ClocksAlone, SendsAlone DEF IInv, Save, Paced

LEMMA FactoryResetKeeps ==
  ASSUME IInv, FactoryReset
  PROVE  IInv'
<1>1. SavesOK'
  <2>1. dirty' \in BOOLEAN /\ ~dirty'  BY Zenon DEF FactoryReset
  <2>2. unsaved' = Off /\ settleAt' = settleAt  BY DEF FactoryReset
  <2>3. settleAt # Off => settleAt \in 0..SettleS  BY DEF IInv, SavesOK, Deadline
  <2>4. Settling'
    BY <2>1, <2>2, <2>3, UpkeepOK DEF UpkeepOK, IInv, SavesOK, Settling, Off
  <2>5. QED  BY <2>1, <2>2, <2>4 DEF FactoryReset, IInv, SavesOK, SavesSpaced
<1>2. QED  BY <1>1, ClocksAlone, SendsAlone DEF IInv, FactoryReset, Paced

LEMMA IntroduceKeeps ==
  ASSUME IInv, Introduce
  PROVE  IInv'
<1>1. SendsOK'
  <2>1. ask' \in BOOLEAN  BY Zenon DEF Introduce
  <2>2. QED
    BY <2>1, UpkeepOK DEF UpkeepOK, Introduce, IInv, SendsOK, SendsSpaced, Waiting
<1>2. QED  BY <1>1, ClocksAlone, SavesAlone DEF IInv, Introduce, Paced

-----------------------------------------------------------------------------
(* A call of service.                                                      *)

\* A deadline on the way down.
LEMMA LeftDown ==
  ASSUME NEW n \in Nat, NEW t \in Deadline(n), NEW d \in Nat
  PROVE  /\ Left(t, d) \in Deadline(n)
         /\ t = Off <=> Left(t, d) = Off
         /\ t # Off => t <= Left(t, d) + d
         /\ t # Off /\ Left(t, d) # 0 => Left(t, d) = t - d
  BY DEF Left, Deadline, Off

\* A time since, on the way up.
LEMMA SinceUp ==
  ASSUME NEW n \in Nat, NEW t \in 0..n, NEW d \in Nat
  PROVE  Since(t, d, n) \in 0..n /\ (Since(t, d, n) = n \/ Since(t, d, n) = t + d)
  BY DEF Since

LEMMA ServiceClocks ==
  ASSUME IInv, NEW d \in 0..MaxGap, NEW s \in Sentences, NEW memory \in BOOLEAN, NEW goes \in BOOLEAN,
         Service(d, s, memory, goes)
  PROVE  ClocksOK'
<1> DEFINE f == Parsed(Older(fix, d), s)
           due == Left(nextGps, d)
<1>1. d \in Nat /\ MaxGap \in Nat /\ Oldest \in Nat /\ ResyncS \in Nat
  BY UpkeepOK, GnssOK DEF UpkeepOK, GnssOK
<1>2. fix' = f /\ attached' = attached /\ silent' = (silent \/ f.when > MaxGap)
      /\ bare' = BareAfter(s, bare)
  BY DEF Service, BareAfter
<1>3. IF f.when # Off /\ (rank < GPS \/ due \in {Off, 0})
        THEN rank' = GPS /\ clock' = -f.when /\ nextGps' = ResyncS /\ best' = 0 /\ worst' = 0
        ELSE nextGps' = due /\ rank' = rank /\ clock' = clock /\ best' = best /\ worst' = worst
  BY DEF Service, Synced, stamps
<1>4. f \in Fix /\ Backed(f, BareAfter(s, bare)) /\ BareAfter(s, bare) \in BOOLEAN
  <2>1. fix \in Fix /\ Backed(fix, bare) /\ bare \in BOOLEAN
    BY DEF IInv, ClocksOK, VouchedFor
  <2>2. Older(fix, d) \in Fix /\ Backed(Older(fix, d), bare)
    BY <1>1, <2>1, OlderKept DEF Backed
  <2>3. QED  BY <2>1, <2>2, ParsedKept
<1>5. due \in Deadline(ResyncS)
  BY <1>1, LeftDown DEF IInv, ClocksOK
<1>6. f.when \in {Off} \cup 0..Oldest
  BY <1>4, FixFields
<1> HIDE DEF f, due
<1>7. attached' \in BOOLEAN /\ silent' \in BOOLEAN /\ bare' \in BOOLEAN
  BY <1>2, <1>4, Zenon DEF IInv, ClocksOK
<1>8. fix' \in Fix /\ VouchedFor'
  BY <1>2, <1>4 DEF VouchedFor, Backed
<1>9. CASE f.when # Off /\ (rank < GPS \/ due \in {Off, 0})
  <2>1. rank' = GPS /\ clock' = -f.when /\ nextGps' = ResyncS /\ f.when \in 0..Oldest
        /\ best' = 0 /\ worst' = 0
    BY <1>3, <1>6, <1>9
  <2>2. ~silent' => ~(f.when > MaxGap)  BY <1>2
  <2>3. rank' \in NONE..GPS /\ clock' \in Int /\ best' \in Int /\ worst' \in Int /\ ClockAsGood'
    BY <1>1, <2>1, <2>2 DEF ClockAsGood, NONE, MESH, PHONE, GPS
  <2>4. nextGps' \in Deadline(ResyncS)
    BY <1>1, <2>1 DEF Deadline
  <2>5. QED  BY <1>7, <1>8, <2>3, <2>4 DEF ClocksOK
<1>10. CASE ~(f.when # Off /\ (rank < GPS \/ due \in {Off, 0}))
  <2>1. nextGps' = due /\ rank' = rank /\ clock' = clock /\ best' = best /\ worst' = worst
    BY <1>3, <1>10
  <2>2. ~silent' => ~silent  BY <1>2
  <2>3. QED
    BY <1>5, <1>7, <1>8, <2>1, <2>2 DEF IInv, ClocksOK, ClockAsGood
<1>11. QED  BY <1>9, <1>10

\* The settle deadline as a call finds it: it is set by the first that sees news.
LEMMA SettleByDown ==
  ASSUME SavesOK, NEW d \in 0..MaxGap
  PROVE  /\ SettleBy(d) \in Deadline(SettleS)
         /\ SettleBy(d) = Off <=> ~dirty
         /\ dirty /\ SettleBy(d) # 0 => unsaved + d + SettleBy(d) <= SettleS + MaxGap
         /\ dirty => sinceSave + d + SettleBy(d) >= SettleS
<1>1. SettleS \in Nat \ {0} /\ MaxGap \in Nat /\ d \in Nat  BY UpkeepOK DEF UpkeepOK
<1>2. settleAt \in Deadline(SettleS) /\ sinceSave \in Nat /\ unsaved \in {Off} \cup Nat
  BY <1>1 DEF SavesOK
<1>3. CASE ~dirty
  BY <1>1, <1>3 DEF SettleBy, Deadline
<1>4. CASE dirty /\ settleAt = Off
  <2>1. SettleBy(d) = SettleS /\ unsaved = 0  BY <1>4 DEF SettleBy, SavesOK, Settling
  <2>2. QED  BY <1>1, <1>2, <1>4, <2>1 DEF Deadline, Off
<1>5. CASE dirty /\ settleAt # Off
  <2>1. SettleBy(d) = Left(settleAt, d)  BY <1>5 DEF SettleBy
  <2>2. /\ Left(settleAt, d) \in Deadline(SettleS) /\ Left(settleAt, d) # Off
        /\ settleAt <= Left(settleAt, d) + d
        /\ Left(settleAt, d) # 0 => Left(settleAt, d) = settleAt - d
    BY <1>1, <1>2, <1>5, LeftDown
  <2>3. unsaved + settleAt <= SettleS + MaxGap /\ sinceSave + settleAt >= SettleS
    BY <1>5 DEF SavesOK, Settling, SavesSpaced
  <2>4. settleAt \in Nat /\ Left(settleAt, d) \in Nat
    BY <1>1, <1>2, <1>5, <2>2 DEF Deadline
  <2>5. unsaved \in Int  BY <1>2 DEF Off
  <2> DEFINE left == Left(settleAt, d)
  <2> HIDE DEF left
  <2>6. left # 0 => unsaved + d + left <= SettleS + MaxGap
    BY <1>1, <2>2, <2>3, <2>4, <2>5 DEF left
  <2>7. sinceSave + d + left >= SettleS
    BY <1>1, <1>2, <2>2, <2>3, <2>4 DEF left
  <2>8. QED  BY <1>5, <2>1, <2>2, <2>6, <2>7 DEF left
<1>6. QED  BY <1>3, <1>4, <1>5

\* What a save waits for: either deadline.
SaveDue(d) == Left(nextSave, d) = 0 \/ SettleBy(d) = 0

\* A save that is due was put off for as long as news is given to settle.
LEMMA SaveSpaced ==
  ASSUME SavesOK, NEW d \in 0..MaxGap, SaveDue(d), dirty
  PROVE  Since(sinceSave, d, SettleS) = SettleS
<1>1. SettleS \in Nat /\ d \in Nat /\ AutosaveS \in Nat  BY UpkeepOK DEF UpkeepOK
<1>2. sinceSave \in 0..SettleS /\ nextSave \in 0..AutosaveS /\ sinceSave + nextSave >= SettleS
  BY DEF SavesOK, SavesSpaced
<1>3. sinceSave + d >= SettleS
  <2>1. CASE Left(nextSave, d) = 0
    <3>1. nextSave <= d  BY <1>1, <1>2, <2>1 DEF Left, Off
    <3>2. QED  BY <1>1, <1>2, <3>1
  <2>2. CASE SettleBy(d) = 0
    <3>1. sinceSave + d + SettleBy(d) >= SettleS  BY SettleByDown
    <3>2. QED  BY <1>1, <1>2, <2>2, <3>1
  <2>3. QED  BY <2>1, <2>2 DEF SaveDue
<1>4. QED  BY <1>1, <1>2, <1>3 DEF Since

LEMMA ServiceSaves ==
  ASSUME IInv, NEW d \in 0..MaxGap, NEW s, NEW memory \in BOOLEAN, NEW goes \in BOOLEAN,
         Service(d, s, memory, goes)
  PROVE  SavesOK'
<1> DEFINE age == Since(sinceSave, d, SettleS)
           settle == SettleBy(d)
<1>1. SettleS \in Nat \ {0} /\ d \in Nat /\ AutosaveS \in Nat /\ MaxGap \in Nat
  BY UpkeepOK DEF UpkeepOK
<1>2. SavesOK  BY DEF IInv
<1>3. age \in 0..SettleS /\ (age = SettleS \/ age = sinceSave + d)
  BY <1>1, <1>2, SinceUp DEF SavesOK
<1>4. /\ settle \in Deadline(SettleS)
      /\ settle = Off <=> ~dirty
      /\ dirty /\ settle # 0 => unsaved + d + settle <= SettleS + MaxGap
      /\ dirty => sinceSave + d + settle >= SettleS
  BY <1>2, SettleByDown
<1>5. IF SaveDue(d)
        THEN Saved(settle, FALSE, memory) /\ sinceSave' = IF dirty THEN 0 ELSE age
        ELSE /\ settleAt' = settle /\ nextSave' = Left(nextSave, d)
             /\ unsaved' = IF unsaved = Off THEN Off ELSE unsaved + d
             /\ sinceSave' = age /\ dirty' = dirty
  BY DEF Service, SaveDue
<1> HIDE DEF age, settle
<1>6. CASE SaveDue(d)
  <2>1. sinceSave' \in 0..SettleS  BY <1>1, <1>3, <1>5, <1>6
  <2>2. Saved(settle, FALSE, memory)  BY <1>5, <1>6
  <2>3. QED  BY <1>2, <2>1, <2>2, SavedKeeps
<1>7. CASE ~SaveDue(d)
  <2>1. /\ settleAt' = settle /\ nextSave' = Left(nextSave, d) /\ sinceSave' = age
        /\ unsaved' = IF unsaved = Off THEN Off ELSE unsaved + d
    BY <1>5, <1>7
  <2>2. dirty' \in BOOLEAN /\ (dirty' <=> dirty)
    <3>1. dirty' = dirty  BY <1>5, <1>7
    <3>2. QED  BY <1>2, <3>1, Zenon DEF SavesOK
  <2>3. settle # 0 /\ Left(nextSave, d) # 0  BY <1>7 DEF SaveDue, settle
  <2>4. unsaved \in {Off} \cup Nat /\ (dirty <=> unsaved # Off) /\ sinceSave \in 0..SettleS
    BY <1>2 DEF SavesOK, Settling
  <2>5. unsaved' \in {Off} \cup Nat  BY <1>1, <2>1, <2>4
  <2>6. Settling'
    <3>1. dirty' <=> unsaved' # Off  BY <1>1, <2>1, <2>2, <2>4 DEF Off
    <3>2. settleAt' = Off => unsaved' \in {Off, 0}  BY <1>4, <2>1, <2>4
    <3>3. settleAt' # Off => unsaved' + settleAt' <= SettleS + MaxGap  BY <1>4, <2>1, <2>3, <2>4
    <3>4. QED  BY <2>1, <2>3, <3>1, <3>2, <3>3 DEF Settling
  <2>7. Left(nextSave, d) \in 0..AutosaveS /\ sinceSave + d + Left(nextSave, d) >= SettleS
    <3>1. nextSave \in 0..AutosaveS /\ sinceSave + nextSave >= SettleS
      BY <1>2 DEF SavesOK, SavesSpaced
    <3>2. Left(nextSave, d) = nextSave - d /\ nextSave > d  BY <1>1, <2>3, <3>1 DEF Left, Off
    <3>3. QED  BY <1>1, <2>4, <3>1, <3>2
  <2>8. SavesSpaced'
    <3>1. settle # Off => age + settle >= SettleS
      BY <1>1, <1>3, <1>4, <2>4 DEF Deadline, Off
    <3>2. age + Left(nextSave, d) >= SettleS
      BY <1>1, <1>3, <2>4, <2>7
    <3>3. QED  BY <2>1, <3>1, <3>2 DEF SavesSpaced
  <2>9. settleAt' \in Deadline(SettleS) /\ nextSave' \in 0..AutosaveS /\ sinceSave' \in 0..SettleS
    BY <1>3, <1>4, <2>1, <2>7
  <2>10. QED  BY <2>2, <2>5, <2>6, <2>8, <2>9 DEF SavesOK
<1>8. QED  BY <1>6, <1>7

\* The position deadline as a call finds it: it is due as soon as there is one.
PosLeft(d, f) == IF nextPos = Off /\ Valid(f) THEN 0 ELSE Left(nextPos, d)

\* A position that is due was put off for its interval, and one just armed is not.
LEMMA PosSpaced ==
  ASSUME SendsOK, NEW d \in 0..MaxGap, NEW f
  PROVE  LET pos == PosLeft(d, f)
             age == Since(sincePos, d, PositionS)
         IN /\ pos \in Deadline(PositionS) /\ age \in 0..PositionS
            /\ pos = 0 => age = PositionS
            /\ IF pos = Off THEN age = PositionS ELSE age + pos >= PositionS
            /\ nextPos = PositionS => pos # 0
<1>1. PositionS \in Nat /\ d \in Nat /\ d < PositionS  BY UpkeepOK DEF UpkeepOK
<1>2. /\ sincePos \in 0..PositionS /\ nextPos \in Deadline(PositionS)
      /\ IF nextPos = Off THEN sincePos = PositionS ELSE sincePos + nextPos >= PositionS
  BY DEF SendsOK, SendsSpaced
<1>3. CASE nextPos = Off
  <2>1. Since(sincePos, d, PositionS) = PositionS  BY <1>1, <1>2, <1>3 DEF Since
  <2>2. PosLeft(d, f) \in {Off, 0}  BY <1>1, <1>3 DEF PosLeft, Left, Off
  <2>3. QED  BY <1>1, <1>3, <2>1, <2>2 DEF Deadline, Off
<1>4. CASE nextPos # Off
  <2>1. PosLeft(d, f) = IF nextPos > d THEN nextPos - d ELSE 0  BY <1>4 DEF PosLeft, Left
  <2>2. nextPos \in 0..PositionS /\ sincePos + nextPos >= PositionS  BY <1>2, <1>4 DEF Deadline
  <2>3. Since(sincePos, d, PositionS) = IF sincePos + d < PositionS THEN sincePos + d ELSE PositionS
    BY DEF Since
  <2>4. QED  BY <1>1, <1>2, <2>1, <2>2, <2>3 DEF Deadline, Off
<1>5. QED  BY <1>3, <1>4

\* A nodeinfo that is due was put off for its interval.
LEMMA InfoSpaced ==
  ASSUME SendsOK, NEW d \in 0..MaxGap
  PROVE  LET age == Since(sinceInfo, d, InfoS)
         IN /\ Left(nextInfo, d) \in 0..InfoS /\ age \in 0..InfoS
            /\ Left(nextInfo, d) = 0 => age = InfoS
            /\ age + Left(nextInfo, d) >= InfoS
            /\ nextInfo = 0 => Left(nextInfo, d) = 0
<1>1. InfoS \in Nat /\ d \in Nat  BY UpkeepOK DEF UpkeepOK
<1>2. sinceInfo \in 0..InfoS /\ nextInfo \in 0..InfoS /\ sinceInfo + nextInfo >= InfoS
  BY DEF SendsOK, SendsSpaced
<1>3. Left(nextInfo, d) = IF nextInfo > d THEN nextInfo - d ELSE 0
  BY <1>1, <1>2 DEF Left, Off
<1>4. Since(sinceInfo, d, InfoS) = IF sinceInfo + d < InfoS THEN sinceInfo + d ELSE InfoS
  BY DEF Since
<1>5. QED  BY <1>1, <1>2, <1>3, <1>4

LEMMA ServiceSends ==
  ASSUME IInv, NEW d \in 0..MaxGap, NEW s, NEW memory \in BOOLEAN, NEW goes \in BOOLEAN,
         Service(d, s, memory, goes)
  PROVE  SendsOK'
<1> DEFINE f == Parsed(Older(fix, d), s)
           pos == PosLeft(d, f)
           posGoes == pos = 0 /\ Valid(f) /\ goes
           info == Left(nextInfo, d)
           posAge == Since(sincePos, d, PositionS)
           infoAge == Since(sinceInfo, d, InfoS)
<1>1. PositionS \in Nat \ {0} /\ InfoS \in Nat \ {0}
  BY UpkeepOK DEF UpkeepOK
<1>2. SendsOK  BY DEF IInv
<1>3. /\ nextPos' = IF pos = 0 THEN PositionS ELSE pos
      /\ sincePos' = IF pos = 0 THEN 0 ELSE posAge
      /\ IF info = 0 /\ ~posGoes
           THEN nextInfo' = InfoS /\ ask' = FALSE /\ sinceInfo' = 0 /\ late' = 0
           ELSE /\ nextInfo' = info /\ sinceInfo' = infoAge /\ ask' = ask
                /\ late' = IF info = 0 /\ late < 2 THEN late + 1 ELSE late
  BY DEF Service, PosLeft, PositionArmed
<1>4. /\ pos \in Deadline(PositionS) /\ posAge \in 0..PositionS
      /\ IF pos = Off THEN posAge = PositionS ELSE posAge + pos >= PositionS
      /\ nextPos = PositionS => pos # 0
  BY <1>2, PosSpaced
<1>5. /\ info \in 0..InfoS /\ infoAge \in 0..InfoS /\ infoAge + info >= InfoS
      /\ nextInfo = 0 => info = 0
  BY <1>2, InfoSpaced
<1>6. late = 0 \/ (late = 1 /\ nextInfo = 0 /\ nextPos = PositionS)
  BY <1>2 DEF SendsOK, Waiting
<1>7. posGoes => pos = 0
  OBVIOUS
<1>8. ask' \in BOOLEAN
  <2>1. ask' = FALSE \/ ask' = ask  BY <1>3
  <2>2. QED  BY <1>2, <2>1, Zenon DEF SendsOK
<1> HIDE DEF f, pos, posGoes, info, posAge, infoAge
<1>9. nextPos' \in Deadline(PositionS) /\ sincePos' \in 0..PositionS
      /\ IF nextPos' = Off THEN sincePos' = PositionS ELSE sincePos' + nextPos' >= PositionS
  <2>1. CASE pos = 0
    BY <1>1, <1>3, <2>1 DEF Deadline, Off
  <2>2. CASE pos # 0
    BY <1>3, <1>4, <2>2
  <2>3. QED  BY <2>1, <2>2
<1>10. nextInfo' \in 0..InfoS /\ sinceInfo' \in 0..InfoS /\ sinceInfo' + nextInfo' >= InfoS
  BY <1>1, <1>3, <1>5
<1>11. Waiting'
  <2>1. CASE info = 0 /\ ~posGoes
    BY <1>3, <2>1 DEF Waiting
  <2>2. CASE info = 0 /\ posGoes
    <3>1. late = 0  BY <1>4, <1>6, <1>7, <2>2
    <3>2. late' = 1 /\ nextInfo' = 0 /\ nextPos' = PositionS
      BY <1>3, <1>7, <2>2, <3>1
    <3>3. QED  BY <3>2 DEF Waiting
  <2>3. CASE info # 0
    <3>1. late = 0  BY <1>5, <1>6, <2>3
    <3>2. late' = 0  BY <1>3, <2>3, <3>1
    <3>3. QED  BY <3>2 DEF Waiting
  <2>4. QED  BY <2>1, <2>2, <2>3
<1>12. QED  BY <1>8, <1>9, <1>10, <1>11 DEF SendsOK, SendsSpaced

LEMMA ServicePaced ==
  ASSUME IInv, NEW d \in 0..MaxGap, NEW s, NEW memory \in BOOLEAN, NEW goes \in BOOLEAN,
         Service(d, s, memory, goes)
  PROVE  Paced'
<1> DEFINE f == Parsed(Older(fix, d), s)
           posGoes == PosLeft(d, f) = 0 /\ Valid(f) /\ goes
           saveAge == Since(sinceSave, d, SettleS)
           posAge == Since(sincePos, d, PositionS)
           infoAge == Since(sinceInfo, d, InfoS)
<1>1. SettleS \in Nat /\ PositionS \in Nat /\ InfoS \in Nat
  BY UpkeepOK DEF UpkeepOK
<1>2. amiss = {} /\ SavesOK /\ SendsOK
  BY DEF IInv, Paced
<1>3. amiss' = amiss
        \cup (IF SaveDue(d) /\ dirty /\ saveAge < SettleS THEN {"save"} ELSE {})
        \cup (IF PosLeft(d, f) = 0 /\ posAge < PositionS THEN {"position"} ELSE {})
        \cup (IF Left(nextInfo, d) = 0 /\ ~posGoes /\ infoAge < InfoS THEN {"nodeinfo"} ELSE {})
  BY DEF Service, PosLeft, SaveDue
<1>4. SaveDue(d) /\ dirty => saveAge = SettleS
  BY <1>2, SaveSpaced
<1>5. PosLeft(d, f) = 0 => posAge = PositionS
  BY <1>2, PosSpaced
<1>6. Left(nextInfo, d) = 0 => infoAge = InfoS
  BY <1>2, InfoSpaced
<1> HIDE DEF f, posGoes, saveAge, posAge, infoAge
<1>7. ~(SaveDue(d) /\ dirty /\ saveAge < SettleS)  BY <1>1, <1>4
<1>8. ~(PosLeft(d, f) = 0 /\ posAge < PositionS)  BY <1>1, <1>5
<1>9. ~(Left(nextInfo, d) = 0 /\ ~posGoes /\ infoAge < InfoS)  BY <1>1, <1>6
<1>10. amiss' = {}  BY <1>2, <1>3, <1>7, <1>8, <1>9
<1>11. QED  BY <1>10 DEF Paced

LEMMA ServiceKeeps ==
  ASSUME IInv, NEW d \in 0..MaxGap, NEW s \in Sentences, NEW memory \in BOOLEAN, NEW goes \in BOOLEAN,
         Service(d, s, memory, goes)
  PROVE  IInv'
  BY ServiceClocks, ServiceSaves, ServiceSends, ServicePaced DEF IInv

-----------------------------------------------------------------------------
(* The invariant, and what follows from it.                                *)

LEMMA NextKeeps == IInv /\ [Next]_vars => IInv'
<1> SUFFICES ASSUME IInv, [Next]_vars  PROVE IInv'
  OBVIOUS
<1>1. CASE UNCHANGED vars
  BY <1>1, ClocksAlone, SavesAlone, SendsAlone DEF IInv, vars, Paced
<1>2. ASSUME NEW news \in BOOLEAN, Receive(news)
      PROVE  IInv'
  BY <1>2, ReceiveKeeps
<1>3. ASSUME NEW news \in BOOLEAN, NEW delay \in Delays, NEW port \in {"telemetry", "position"},
             ReceiveStamped(port, delay, news)
      PROVE  IInv'
  <2>1. delay \in Int  BY UpkeepOK DEF UpkeepOK
  <2>2. QED  BY <1>3, <2>1, ReceiveStampedKeeps
<1>4. CASE Attach  BY <1>4, AttachKeeps
<1>5. CASE SetTime  BY <1>5, SetTimeKeeps
<1>6. ASSUME NEW force \in BOOLEAN, NEW memory \in BOOLEAN, Save(force, memory)
      PROVE  IInv'
  BY <1>6, SaveKeeps
<1>7. CASE Restart  BY <1>7, RestartKeeps
<1>8. CASE FactoryReset  BY <1>8, FactoryResetKeeps
<1>9. CASE Introduce  BY <1>9, IntroduceKeeps
<1>10. ASSUME NEW d \in 0..MaxGap, NEW memory \in BOOLEAN, NEW goes \in BOOLEAN, NEW s \in Said(d),
              Service(d, s, memory, goes)
       PROVE  IInv'
  <2>1. s \in Sentences  BY DEF Said
  <2>2. QED  BY <1>10, <2>1, ServiceKeeps
<1>11. QED
  BY <1>1, <1>2, <1>3, <1>4, <1>5, <1>6, <1>7, <1>8, <1>9, <1>10 DEF Next

LEMMA Invariance == Spec => []IInv
  BY InitIInv, NextKeeps, PTL DEF Spec

\* Whatever the intervals, and whatever comes in between: the node's variables
\* have their types.
THEOREM TypeSafe == Spec => []TypeOK
<1>1. IInv => TypeOK
  <2> SUFFICES ASSUME IInv  PROVE TypeOK
    OBVIOUS
  <2>1. late \in 0..2  BY DEF IInv, SendsOK, Waiting
  <2>2. amiss \subseteq {"save", "nodeinfo", "position"}  BY DEF IInv, Paced
  <2>3. QED  BY <2>1, <2>2, Zenon DEF IInv, ClocksOK, SavesOK, SendsOK, TypeOK
<1>2. QED  BY <1>1, Invariance, PTL

\* Whatever the stamps, fast, late or stale: a clock the mesh has set lies between
\* the worst of telemetry and the best of all, and is the best if the two are less
\* than an hour apart; one a client has set is the client's; one the receiver
\* keeps, while it speaks, is no older than two calls are apart.
THEOREM ClockIsAsGood == Spec => []ClockAsGood
<1>1. IInv => ClockAsGood  BY DEF IInv, ClocksOK
<1>2. QED  BY <1>1, Invariance, PTL

\* Every position that is stated was worked out with satellites, but for one a GGA
\* without coordinates has vouched for.
THEOREM PositionIsVouched == Spec => []Vouched
<1>1. IInv => Vouched  BY DEF IInv, ClocksOK, VouchedFor, Backed, Vouched, Valid
<1>2. QED  BY <1>1, Invariance, PTL

\* A save is tried for news within the time it is given to settle and a call.
THEOREM NewsIsSaved == Spec => []NewsSaved
<1>1. IInv => NewsSaved
  <2> SUFFICES ASSUME IInv  PROVE NewsSaved
    OBVIOUS
  <2>1. SettleS \in Nat \ {0} /\ MaxGap \in Nat \ {0}  BY UpkeepOK DEF UpkeepOK
  <2>2. unsaved \in {Off} \cup Nat /\ settleAt \in Deadline(SettleS) /\ Settling
    BY DEF IInv, SavesOK
  <2>3. CASE settleAt = Off
    BY <2>1, <2>2, <2>3 DEF Settling, NewsSaved, Off
  <2>4. CASE settleAt # Off
    <3>1. settleAt >= 1 /\ unsaved + settleAt <= SettleS + MaxGap
      BY <2>1, <2>2, <2>4 DEF Settling, Deadline
    <3>2. QED  BY <2>1, <2>2, <2>4, <3>1 DEF NewsSaved, Deadline, Off
  <2>5. QED  BY <2>3, <2>4
<1>2. QED  BY <1>1, Invariance, PTL

\* Neither a save nor a broadcast is tried again before its interval is over.
THEOREM UpkeepIsPaced == Spec => []Paced
<1>1. IInv => Paced  BY DEF IInv
<1>2. QED  BY <1>1, Invariance, PTL

\* A nodeinfo that is due is passed by once at most.
THEOREM NodeinfoIsPunctual == Spec => []Punctual
<1>1. IInv => Punctual  BY DEF IInv, SendsOK, Waiting, Punctual
<1>2. QED  BY <1>1, Invariance, PTL

-----------------------------------------------------------------------------
(* What the phone is told.                                                  *)
\* A field alone is a message of its number.
LEMMA FieldKind ==
  ASSUME NEW n, NEW v
  PROVE  Kind(Field(n, v)) = n
  BY DEF Kind, Field

Messages(K, V) == {Field(k, v) : k \in K, v \in V}

\* Of messages made in one of several ways each is of one of their kinds.
LEMMA MessageKinds ==
  ASSUME NEW K, NEW V
  PROVE  /\ \A k \in K, v \in V : Field(k, v) \in Messages(K, V)
         /\ \A m \in Messages(K, V) : Kind(m) \in K
<1>1. \A k \in K, v \in V : Field(k, v) \in Messages(K, V)
  BY DEF Messages
<1>2. ASSUME NEW m \in Messages(K, V)
      PROVE  Kind(m) \in K
  <2>1. PICK k \in K, v \in V : m = Field(k, v)  BY <1>2 DEF Messages
  <2>2. QED  BY <2>1, FieldKind
<1>3. QED  BY <1>1, <1>2

\* An answer made here accounts for the packet it answers.
LEMMA LocalStatus ==
  ASSUME NEW node, NEW data, NEW id, NEW answers, NEW own, NEW time
  PROVE  OneStatus(Local(node, data, id, answers, own, time), {id})
<1> DEFINE portnum == Last(data, 1, 0)
           wants == Last(data, 3, 0) # 0
           answer == CHOOSE a \in answers : TRUE
           reply(a) == Field(2, MeshPacket(Built(node.num, node.num, own, time),
                                           Data(portnum, a, FALSE, node.num, id, {})))
           out == Local(node, data, id, answers, own, time)
<1>1. CASE portnum \notin {AdminPort, TelemetryPort}
  <2>1. \E e \in {NoResponse, Accepted} : out = <<QueueStatus(id, e)>>
    BY <1>1 DEF Local
  <2>2. QED  BY <2>1 DEF OneStatus
<1>2. CASE portnum \in {AdminPort, TelemetryPort} /\ answers = {}
  <2>1. out = <<QueueStatus(id, NotAuthorized)>>
    BY <1>2 DEF Local
  <2>2. QED  BY <2>1 DEF OneStatus
<1>3. CASE portnum \in {AdminPort, TelemetryPort} /\ answers # {}
  <2> HIDE DEF answer, reply
  <2>1. out = <<QueueStatus(id, Accepted)>> \/ out = <<QueueStatus(id, Accepted), reply(answer)>>
    BY <1>3 DEF Local, answer, reply
  <2>2. Kind(reply(answer)) = 2
    BY FieldKind DEF reply
  <2>3. QED  BY <2>1, <2>2 DEF OneStatus
<1>4. QED  BY <1>1, <1>2, <1>3

\* A packet is answered with one QueueStatus, of the id the client handed over
\* or the one it was sent with, on every path out of _transmit but one: after an
\* exception out of the call that decides there is no answer at all, not even
\* half of one, though the docstring says there is one "on every path"
\* (meshapi.py:408, meshapi.py:986).
THEOREM EveryPathAnswers ==
  ASSUME NEW node, NEW raw, NEW answers, NEW own, NEW sent, NEW raises \in BOOLEAN, NEW time
  PROVE  LET out == Transmit(node, raw, answers, own, sent, raises, time)
         IN IF raises /\ Asks(node, raw) THEN out = <<>>
            ELSE OneStatus(out, {Last(raw, 6, 0)} \cup sent)
<1> DEFINE id == Last(raw, 6, 0)
           data == Last(raw, 4, <<>>)
           sid == CHOOSE i \in sent : TRUE
           out == Transmit(node, raw, answers, own, sent, raises, time)
<1>1. CASE raises /\ Asks(node, raw)
  <2>1. Positions(raw, 4) # {}  BY <1>1 DEF Asks
  <2>2. out = <<>>  BY <1>1, <2>1 DEF Transmit
  <2>3. QED  BY <1>1, <2>2
<1>2. CASE ~(raises /\ Asks(node, raw))
  <2> SUFFICES OneStatus(out, {id} \cup sent)  BY <1>2
  <2>1. CASE Positions(raw, 4) = {}
    <3>1. out = <<QueueStatus(id, BadRequest)>>  BY <2>1 DEF Transmit
    <3>2. QED  BY <3>1 DEF OneStatus
  <2>2. CASE Positions(raw, 4) # {} /\ Last(raw, 2, Broadcast) = node.num
    <3>1. out = Local(node, data, id, answers, own, time)  BY <1>2, <2>2 DEF Transmit
    <3>2. OneStatus(out, {id})  BY <3>1, LocalStatus
    <3>3. QED  BY <3>2 DEF OneStatus
  <2>3. CASE Positions(raw, 4) # {} /\ Last(raw, 2, Broadcast) # node.num /\ sent = {}
    <3>1. out = <<QueueStatus(id, DutyCycleLimit)>>  BY <1>2, <2>3 DEF Transmit
    <3>2. QED  BY <3>1 DEF OneStatus
  <2>4. CASE Positions(raw, 4) # {} /\ Last(raw, 2, Broadcast) # node.num /\ sent # {}
    <3>1. PICK packet : out = <<QueueStatus(sid, Accepted), Field(2, packet)>>
      BY <1>2, <2>4 DEF Transmit
    <3>2. sid \in sent  BY <2>4
    <3>3. Kind(Field(2, packet)) = 2  BY FieldKind
    <3> HIDE DEF sid
    <3>4. QED  BY <3>1, <3>2, <3>3 DEF OneStatus
  <2>5. QED  BY <2>1, <2>2, <2>3, <2>4
<1>3. QED  BY <1>1, <1>2

\* What is said of this node comes before what is said of the others, and the
\* terminator after both: one that came early, or twice, or with the other
\* half's messages, would keep a client from ever finishing (meshapi.py:97).
THEOREM DumpIsWhole ==
  ASSUME NEW id, NEW node, NEW P, NEW peers \in Seq(P), NEW epoch, NEW now
  PROVE  DumpEnds(Dump(id, node, peers, epoch, now), id)
<1> DEFINE device == Device(node, Len(peers) + 1)
           roster == Roster(node, peers, epoch, now)
           count == Len(peers) + 1
           DV == {MyInfo(node, count), Metadata(node)}
                   \cup {Channel(node, i - 1) : i \in 1..NumChannels8}
                   \cup {ConfigSection(node, i) : i \in 1..DumpSections}
                   \cup {ModuleSection(i) : i \in 1..ModuleSections}
           own == NodeInfo(node.num, {OwnUser(node)}, {}, 0, {})
           peer(i) == PeerInfo(peers[i], epoch, now)
           RV == {own} \cup {peer(i) : i \in DOMAIN peers}
           DK == {3, 5, 9, 10, 13}
           D == Messages(DK, DV)
           R == Messages({4}, RV)
           S == D \cup R \cup {Field(7, id)}
<1>1. device \in Seq(D)
  <2> DEFINE first == <<Field(3, MyInfo(node, count)), Field(13, Metadata(node))>>
             channels == [i \in 1..NumChannels8 |-> Field(10, Channel(node, i - 1))]
             sections == [i \in 1..DumpSections |-> Field(5, ConfigSection(node, i))]
             modules == [i \in 1..ModuleSections |-> Field(9, ModuleSection(i))]
  <2>0. /\ MyInfo(node, count) \in DV /\ Metadata(node) \in DV
        /\ \A i \in 1..NumChannels8 : Channel(node, i - 1) \in DV
        /\ \A i \in 1..DumpSections : ConfigSection(node, i) \in DV
        /\ \A i \in 1..ModuleSections : ModuleSection(i) \in DV
    OBVIOUS
  <2> HIDE DEF DV
  <2>1. /\ Field(3, MyInfo(node, count)) \in D /\ Field(13, Metadata(node)) \in D
        /\ \A i \in 1..NumChannels8 : Field(10, Channel(node, i - 1)) \in D
        /\ \A i \in 1..DumpSections : Field(5, ConfigSection(node, i)) \in D
        /\ \A i \in 1..ModuleSections : Field(9, ModuleSection(i)) \in D
    BY <2>0, MessageKinds
  <2> HIDE DEF DK, D
  <2>2. first \in Seq(D)  BY <2>1
  <2>3. channels \in Seq(D)  BY <2>1 DEF NumChannels8
  <2>4. sections \in Seq(D)  BY <2>1 DEF DumpSections
  <2>5. modules \in Seq(D)  BY <2>1 DEF ModuleSections
  <2>6. device = first \o channels \o sections \o modules  BY DEF Device
  <2> HIDE DEF first, channels, sections, modules, device
  <2>7. QED  BY <2>2, <2>3, <2>4, <2>5, <2>6
<1>2. roster \in Seq(R)
  <2> DEFINE rest == [i \in DOMAIN peers |-> Field(4, peer(i))]
  <2>1. Field(4, own) \in R /\ \A i \in DOMAIN peers : Field(4, peer(i)) \in R
    BY MessageKinds
  <2> HIDE DEF R, RV, own, peer
  <2>2. rest \in Seq(R)  BY <2>1
  <2>3. roster = <<Field(4, own)>> \o rest  BY DEF Roster, own, peer
  <2> HIDE DEF rest, roster
  <2>4. QED  BY <2>1, <2>2, <2>3
<1>3. /\ \A m \in D : Kind(m) \in DK
      /\ \A m \in R : Kind(m) = 4
  <2> HIDE DEF DV, RV
  <2>1. QED  BY MessageKinds
<1> DEFINE a == IF id # RosterHalf THEN device ELSE <<>>
           b == IF id # DeviceHalf THEN roster ELSE <<>>
           out == Dump(id, node, peers, epoch, now)
<1>4. out = a \o b \o <<Field(7, id)>>
  BY DEF Dump
<1> HIDE DEF D, R, device, roster
<1>5. /\ a \in Seq(D) /\ b \in Seq(R)
      /\ (id = RosterHalf => Len(a) = 0) /\ (id = DeviceHalf => Len(b) = 0)
  BY <1>1, <1>2
<1> HIDE DEF a, b, out
<1>6. /\ Len(out) = Len(a) + Len(b) + 1 /\ Len(a) \in Nat /\ Len(b) \in Nat
      /\ out[Len(out)] = Field(7, id)
      /\ \A i \in 1..(Len(out) - 1) :
           \/ i \in 1..Len(a) /\ out[i] = a[i]
           \/ i - Len(a) \in 1..Len(b) /\ out[i] = b[i - Len(a)]
  <2>1. a \in Seq(S) /\ b \in Seq(S) /\ <<Field(7, id)>> \in Seq(S)
    BY <1>5
  <2> HIDE DEF S
  <2>2. QED  BY <1>4, <2>1
<1>7. \A i \in 1..(Len(out) - 1) :
        \/ Kind(out[i]) \in DK /\ id # RosterHalf
        \/ Kind(out[i]) = 4 /\ id # DeviceHalf
  <2>1. /\ \A i \in 1..Len(a) : Kind(a[i]) \in DK
        /\ \A i \in 1..Len(b) : Kind(b[i]) = 4
    <3> HIDE DEF DK
    <3>1. (\A i \in 1..Len(a) : a[i] \in D) /\ (\A i \in 1..Len(b) : b[i] \in R)  BY <1>5
    <3>2. QED  BY <1>3, <3>1
  <2> HIDE DEF DK
  <2>2. ASSUME NEW i \in 1..(Len(out) - 1)
        PROVE  \/ Kind(out[i]) \in DK /\ id # RosterHalf
               \/ Kind(out[i]) = 4 /\ id # DeviceHalf
    <3>1. CASE i \in 1..Len(a) /\ out[i] = a[i]  BY <1>5, <2>1, <3>1
    <3>2. CASE i - Len(a) \in 1..Len(b) /\ out[i] = b[i - Len(a)]  BY <1>5, <2>1, <3>2
    <3>3. QED  BY <1>6, <3>1, <3>2
  <2>3. QED  BY <2>2
<1>8. DumpEnds(out, id)  BY <1>6, <1>7 DEF DumpEnds
<1>9. QED  BY <1>8 DEF out

-----------------------------------------------------------------------------
(* The channel.                                                             *)
\* A number of slots, and a slot of them, are natural numbers.
LEMMA SlotInRange ==
  ASSUME NEW n \in Nat \ {0}, NEW num \in Nat, NEW hash \in Nat
  PROVE  Slot(n, num, hash) \in 0..(n - 1)
<1>1. \A a \in Nat : a % n \in 0..(n - 1)
  OBVIOUS
<1>2. num # 0 => num - 1 \in Nat
  OBVIOUS
<1> QED
  BY <1>1, <1>2 DEF Slot

\* So many whole slots fit into a band.
LEMMA SlotsFit ==
  ASSUME NEW start \in Nat, NEW end \in Nat, NEW bw \in Nat \ {0}, start < end
  PROVE  /\ (end - start) \div bw \in Nat
         /\ start + ((end - start) \div bw) * bw <= end
<1>1. \A w \in Nat : w \div bw \in Nat /\ (w \div bw) * bw <= w
  OBVIOUS
<1>2. end - start \in Nat
  OBVIOUS
<1> DEFINE n == (end - start) \div bw
<1>3. n \in Nat /\ n * bw <= end - start
  BY <1>1, <1>2
<1>4. n * bw \in Nat
  BY <1>3
<1> HIDE DEF n
<1>5. start + n * bw <= end
  BY <1>3, <1>4
<1> QED
  BY <1>3, <1>5 DEF n

\* A slot and those below it take one bandwidth each.
LEMMA SlotBelow ==
  ASSUME NEW n \in Nat, NEW slot \in Nat, NEW bw \in Nat, slot < n
  PROVE  slot * bw \in Nat /\ n * bw \in Nat /\ slot * bw + bw <= n * bw
<1>1. \A k \in Nat : slot * bw + bw <= slot * bw + bw + k * bw
  OBVIOUS
<1>2. PICK k \in Nat : n = slot + 1 + k
  <2>1. n - slot - 1 \in Nat /\ n = slot + 1 + (n - slot - 1)
    OBVIOUS
  <2> QED
    BY <2>1
<1>3. n * bw = slot * bw + bw + k * bw
  BY <1>2
<1> QED
  BY <1>1, <1>3

\* A transmission stays inside the band of its region, whatever slot a name or a
\* number puts it on (region.rs:149).
THEOREM InBand ==
  ASSUME NEW plan \in [start : Nat, end : Nat, duty : Nat, limit : Int, wide : BOOLEAN],
         NEW bw \in Nat \ {0}, NEW num \in Nat, NEW hash \in Nat,
         NumChannels(plan, bw) > 0
  PROVE  Occupied(bw, Frequency(plan, bw, num, hash)) \subseteq plan.start..plan.end
<1> DEFINE n    == (plan.end - plan.start) \div bw
           slot == Slot(n, num, hash)
           half == bw \div 2
<1>1. plan.start \in Nat /\ plan.end \in Nat
  OBVIOUS
<1>2. plan.start < plan.end /\ NumChannels(plan, bw) = n /\ n > 0
  BY <1>1 DEF NumChannels
<1>3. n \in Nat /\ plan.start + n * bw <= plan.end
  BY <1>1, <1>2, SlotsFit
<1>4. slot \in 0..(n - 1)
  <2> HIDE DEF n, slot
  <2>1. n \in Nat \ {0}
    BY <1>2, <1>3
  <2>2. Slot(n, num, hash) \in 0..(n - 1)
    BY <2>1, SlotInRange
  <2> QED
    BY <2>2 DEF slot
<1>5. Frequency(plan, bw, num, hash) = plan.start + half + slot * bw
  BY <1>2 DEF Frequency, Centre
<1>6. half \in Nat
  OBVIOUS
<1> HIDE DEF n, slot, half
<1>7. slot * bw \in Nat /\ n * bw \in Nat /\ slot * bw + bw <= n * bw
  BY <1>3, <1>4, SlotBelow
<1> DEFINE f == Frequency(plan, bw, num, hash)
<1>8. f - half = plan.start + slot * bw /\ f - half + bw <= plan.end
  BY <1>1, <1>3, <1>5, <1>6, <1>7
<1>9. Occupied(bw, f) = (f - half)..(f - half + bw)
  BY DEF Occupied, half
<1> QED
  BY <1>1, <1>6, <1>7, <1>8, <1>9

\* Two channels of one band that are not on the same slot do not touch but at
\* the edge (region.rs:130).
THEOREM SlotsApart ==
  ASSUME NEW plan \in [start : Nat, end : Nat, duty : Nat, limit : Int, wide : BOOLEAN],
         NEW bw \in Nat \ {0}, NEW a \in Nat, NEW b \in Nat, a < b
  PROVE  Centre(plan, bw, a) + bw <= Centre(plan, bw, b)
<1>1. a * bw \in Nat /\ b * bw \in Nat /\ a * bw + bw <= b * bw
  BY SlotBelow
<1>2. plan.start \in Nat /\ bw \div 2 \in Nat
  OBVIOUS
<1> QED
  BY <1>1, <1>2 DEF Centre

\* Nothing is transmitted above what its region allows, nor above what the part
\* can do when it is left to choose (mesh_protocol.py:196).
THEOREM PowerInBounds ==
  ASSUME NEW plan \in [start : Nat, end : Nat, duty : Nat, limit : Int, wide : BOOLEAN],
         NEW asked \in Int, NEW ceiling \in Int, Allowed(plan, asked)
  PROVE  /\ Power(plan, asked, ceiling) <= plan.limit
         /\ asked = 0 => Power(plan, asked, ceiling) <= ceiling
  BY DEF Allowed, Power, LeastOf

=============================================================================
