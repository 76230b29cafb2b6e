--------------------------- MODULE RadioSettings ---------------------------
(***************************************************************************)
(* What a region, a modem preset and a channel number make of a radio:      *)
(* Settings, protocol_configure and self_check of mesh_protocol.py on the   *)
(* tables of region.rs and preset.rs, what each adapter's tune accepts, and *)
(* how long a frame is on air (airtime.rs).                                *)
(* Frequencies and bandwidths count Step hertz, of which every number of    *)
(* the tables is a multiple.  A channel's name is its hash.                 *)
(***************************************************************************)
EXTENDS Integers

Step == 125

Hz(khz) == khz * 8

Plan(start, end, duty, limit) ==
  [start |-> Hz(start), end |-> Hz(end), duty |-> duty, limit |-> limit, wide |-> FALSE]

Wide24 ==
  [start |-> Hz(2400000), end |-> Hz(2483500), duty |-> 100, limit |-> 10, wide |-> TRUE]

US902 == Plan(902000, 928000, 100, 30)

\* Per name, as REGION_NAMES has them ("IN" is a word of TLA+, and IN_865 here).
\* No region leaves room between two slots.
Region == [
  UNSET |-> US902, US |-> US902,
  EU_433 |-> Plan(433000, 434000, 10, 10), EU_868 |-> Plan(869400, 869650, 10, 27),
  CN |-> Plan(470000, 510000, 100, 19), JP |-> Plan(920500, 923500, 100, 13),
  ANZ |-> Plan(915000, 928000, 100, 30), ANZ_433 |-> Plan(433050, 434790, 100, 14),
  KR |-> Plan(920000, 923000, 100, 23), TW |-> Plan(920000, 925000, 100, 27),
  RU |-> Plan(868700, 869200, 100, 20),
  IN_865 |-> Plan(865000, 867000, 100, 30),
  NZ_865 |-> Plan(864000, 868000, 100, 36), TH |-> Plan(920000, 925000, 10, 27),
  UA_433 |-> Plan(433000, 434700, 10, 10), UA_868 |-> Plan(868000, 868600, 1, 14),
  MY_433 |-> Plan(433000, 435000, 100, 20), MY_919 |-> Plan(919000, 924000, 100, 27),
  SG_923 |-> Plan(917000, 925000, 100, 20), PH_433 |-> Plan(433000, 434700, 100, 10),
  PH_868 |-> Plan(868000, 869400, 100, 14), PH_915 |-> Plan(915000, 918000, 100, 24),
  KZ_433 |-> Plan(433075, 434775, 100, 10), KZ_863 |-> Plan(863000, 868000, 100, 30),
  NP_865 |-> Plan(865000, 868000, 100, 30), BR_902 |-> Plan(902000, 907500, 100, 30),
  LORA_24 |-> Wide24 ]

RegionNames == DOMAIN Region

Modem(sf, narrow, wide, cr) == [sf |-> sf, narrow |-> narrow, wide |-> wide, cr |-> cr]

Preset == [
  ShortTurbo |-> Modem(7, Hz(500), Hz(1625), 5), ShortFast |-> Modem(7, Hz(250), 6500, 5),
  ShortSlow |-> Modem(8, Hz(250), 6500, 5), MediumFast |-> Modem(9, Hz(250), 6500, 5),
  MediumSlow |-> Modem(10, Hz(250), 6500, 5), LongTurbo |-> Modem(11, Hz(500), Hz(1625), 8),
  LongModerate |-> Modem(11, Hz(125), 3250, 8), LongSlow |-> Modem(12, Hz(125), 3250, 8),
  LongFast |-> Modem(11, Hz(250), 6500, 5) ]

PresetNames == DOMAIN Preset

Bandwidth(region, preset) ==
  IF Region[region].wide THEN Preset[preset].wide ELSE Preset[preset].narrow

-----------------------------------------------------------------------------
(* Slots.  `plan` is a region's.                                           *)

\* num_channels: how many whole slots fit, or 0 where the code raises.
NumChannels(plan, bw) == IF plan.end <= plan.start THEN 0 ELSE (plan.end - plan.start) \div bw

\* A region and a preset that Settings can be built from.
Resolves(region, preset) == NumChannels(Region[region], Bandwidth(region, preset)) > 0

\* The slot, from zero.  A channel number past the end wraps.
Slot(n, num, hash) == IF num # 0 THEN (num - 1) % n ELSE hash % n

\* slot_frequency_hz: the middle of a slot.
Centre(plan, bw, slot) == plan.start + bw \div 2 + slot * bw

Frequency(plan, bw, num, hash) == Centre(plan, bw, Slot(NumChannels(plan, bw), num, hash))

\* What a LoRa transmission centred there occupies.
Occupied(bw, f) == (f - bw \div 2)..(f - bw \div 2 + bw)

-----------------------------------------------------------------------------
(* What the radio is told.                                                 *)

LeastOf(a, b) == IF a <= b THEN a ELSE b

\* protocol_configure: 0 asks for as much as is allowed and possible.
\* `ceiling` is what the part can produce.
Power(plan, asked, ceiling) == IF asked = 0 THEN LeastOf(plan.limit, ceiling) ELSE asked

Allowed(plan, asked) == asked = 0 \/ asked <= plan.limit

\* Per adapter, the bandwidths it has a code for.
LR2021Codes == {250, 500, 1000, 2000, 4000, 8000}
LR11xxCodes == {500, 1000, 1625, 2000, 3250, 4000, 6500}

\* What tune refuses; every preset has a coding rate and a spreading factor
\* that both parts know.
Tunes(codes, bw, sf, cr) == bw \in codes /\ sf \in 5..12 /\ cr \in 5..8

\* A configuration that a boot comes up with.
Runs(codes, region, preset, asked) ==
  /\ Resolves(region, preset)
  /\ region # "UNSET"
  /\ Allowed(Region[region], asked)
  /\ LET p == Preset[preset] IN Tunes(codes, Bandwidth(region, preset), p.sf, p.cr)

-----------------------------------------------------------------------------
(* Time on air, in microseconds, of a modem within what Tunes accepts.      *)

PreambleSymbols == 16

\* A symbol above 16 ms turns low data rate optimisation on.
SymbolUs(sf, bw) == (2^sf * 8000) \div bw
BlockBits(sf, bw) == 4 * (sf - IF SymbolUs(sf, bw) > 16000 THEN 2 ELSE 0)

\* Of a whole frame, its header and its CRC included.
FrameBits(length, sf) == 8 * length - 4 * sf + 28 + 16

Blocks(bits, block) == IF bits <= 0 THEN 0 ELSE (bits + block - 1) \div block
BenchBlocks(bits, block) == IF bits <= 0 THEN 0 ELSE -((-bits) \div block)

\* The preamble's 16 symbols and 4.25, and the payload's, in quarters.
Quarters(blocks, cr) == 4 * PreambleSymbols + 17 + 4 * (8 + blocks * cr)

\* A quarter symbol is 2^sf * 2000 / bw; whole first, for TLC's width of integers.
QuartersUs(quarters, sf, bw) ==
  LET chips == quarters * 2^sf
  IN (chips \div bw) * 2000 + ((chips % bw) * 2000) \div bw

TimeOnAir(length, sf, bw, cr) ==
  QuartersUs(Quarters(Blocks(FrameBits(length, sf), BlockBits(sf, bw)), cr), sf, bw)

\* The bench's.
AirtimeUs(length, sf, bw, cr) ==
  QuartersUs(Quarters(BenchBlocks(FrameBits(length, sf), BlockBits(sf, bw)), cr), sf, bw)

-----------------------------------------------------------------------------
(* Properties of the tables.                                               *)

\* self_check: what is known from elsewhere, in steps of 125 Hz.  The hash of
\* "LongFast" is 19 in a hundred and four.
SelfCheck ==
  /\ Frequency(Region.US, Bandwidth("US", "LongFast"), 0, 19) * Step = 906875000
  /\ Frequency(Region.EU_868, Bandwidth("EU_868", "LongFast"), 0, 19) * Step = 869525000

\* The tables are made of what the theorems about them ask for.
TablesSound ==
  /\ \A r \in RegionNames :
       Region[r] \in [start : Nat, end : Nat, duty : 1..100, limit : Nat, wide : BOOLEAN]
  /\ \A r \in RegionNames, p \in PresetNames : Bandwidth(r, p) \in Nat \ {0}

\* The preset that every node has until told otherwise comes up in every band
\* that is one, below a gigahertz on either part and above on the part that has
\* such a radio.
StockRuns ==
  \A r \in RegionNames \ {"UNSET"} :
    /\ Runs(LR11xxCodes, r, "LongFast", 0)
    /\ ~Region[r].wide => Runs(LR2021Codes, r, "LongFast", 0)

\* time_on_air_us gives the answers worked by hand (tests.rs:567), for the preset
\* of a stock node and where a symbol is just long enough; the bench's copy is the
\* same for every frame a preset sends, and a longer frame is not shorter on air.
AirtimeAgrees ==
  /\ TimeOnAir(46, 11, Hz(250), 5) = 600064
  /\ TimeOnAir(46, 12, Hz(125), 5) = 2564096 /\ TimeOnAir(46, 11, Hz(125), 5) = 1363968
  /\ \A p \in PresetNames, length \in 0..255 :
       \A bw \in {Preset[p].narrow, Preset[p].wide} :
         LET air(n) == TimeOnAir(n, Preset[p].sf, bw, Preset[p].cr)
         IN /\ AirtimeUs(length, Preset[p].sf, bw, Preset[p].cr) = air(length)
            /\ air(length) <= air(length + 1)

\* No region and preset are so slow together that a whole frame would never be
\* within the budget of an hour (mesh_tx.py:58), which would silence the node for
\* ever and not for a while.
FrameFitsBudget ==
  \A r \in RegionNames, p \in PresetNames :
    \/ Region[r].duty >= 100
    \/ TimeOnAir(255, Preset[p].sf, Bandwidth(r, p), Preset[p].cr) <= 36000000 * Region[r].duty

=============================================================================
