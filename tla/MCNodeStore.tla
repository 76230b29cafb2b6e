---------------------------- MODULE MCNodeStore ----------------------------
(* A small instance of NodeStore: the node's number and key, the region,    *)
(* the preset, the power and a name that is too long.  The region code.py   *)
(* declares is the narrowest there is, and what the client writes is the    *)
(* section it read with one thing changed: the preset, to one that is too   *)
(* wide for that region, the region, or the power.                          *)
EXTENDS NodeStore, TLC

P == INSTANCE PhoneMessages

Numbered == "num" :> "drawn" @@ "key" :> "stock"
Unnumbered == "num" :> "none" @@ "key" :> "stock"
FromFile == "region" :> "EU_868"
Waits == {-1, 0, 2}
NewKeyOnly == {"key" :> "other"}

Node(region, preset, power) ==
  [num |-> 512, long |-> <<>>, short |-> <<>>, hw |-> 1, region |-> region, preset |-> preset,
   num_slot |-> 0, power |-> power, name |-> <<76>>, key |-> P!StockKey, hop |-> 3, radio |-> 22]

Dbm(n) == CASE n = 22 -> "22" [] n = 30 -> "30"

\* What is stored once the app has written the section of such a node.
Section(region, preset, power) ==
  {"region" :> s.region @@ "preset" :> s.preset @@ "power" :> Dbm(s.power) :
     s \in P!ConfigWrite(P!ConfigSection(Node(region, preset, power), P!Lora))}

Changes ==
  Section("US", "LongFast", 0) \cup Section("EU_868", "ShortTurbo", 0) \cup {"name" :> "too long"}

Misfits == Section("EU_868", "ShortTurbo", 0) \cup Section("EU_868", "LongFast", 30)

TooWide ==
  {"region" :> r @@ "preset" :> "ShortTurbo" :
     r \in {q \in {"EU_868", "US"} : ~P!Resolves(q, "ShortTurbo")}}

TooStrong ==
  {"region" :> r @@ "power" :> "30" :
     r \in {q \in {"EU_868", "US"} : ~P!Allowed(P!Region[q], 30)}}

\* What is known of the tables from elsewhere is so.
ASSUME TablesAgree == P!SelfCheck /\ P!TablesSound /\ P!StockRuns

\* A frame takes the time it is worked out to take, and less than an hour's budget.
ASSUME AirtimeTold == P!AirtimeAgrees /\ P!FrameFitsBudget

\* And so is what a client makes of the sections it reads.
ASSUME SectionsAgree ==
  /\ P!Numbered
  /\ \A r \in P!RegionNames \ {"UNSET"}, p \in P!PresetNames, dbm \in {0, 10} :
       P!WriteBack(Node(r, p, dbm))
  /\ \A n \in {<<>>, P!StockKey}, k \in {<<>>, P!StockKey} :
       P!ChannelBack([Node("US", "LongFast", 0) EXCEPT !.name = n, !.key = k])
  /\ P!ReadsAgree(Node("US", "LongFast", 0), 3)
  /\ \A passkey \in {<<1>>, <<2>>}, alive \in BOOLEAN, open \in {{}, {<<>>}} :
       P!KeyedWrite([key |-> passkey, alive |-> alive, pending |-> open],
                    [Node("US", "LongFast", 22) EXCEPT !.long = <<65>>, !.short = <<66>>], <<2>>)
  /\ \A variant \in 1..7, peers \in {<<>>, <<[last |-> 10]>>, <<[last |-> 0], [last |-> 7200]>>},
        now \in {7200, 7210} :
       P!FiguresTold(variant, {[level |-> {80}, volts |-> {3900}]}, [sent |-> 1, heard |-> 0, dropped |-> 2],
                     peers, now)

G == INSTANCE Battery

\* A pack's charge, as the board reads it, the bench does and a client is told.
ASSUME PackTold ==
  /\ \A mv \in 2590..4210 \cup {0, 70000} : G!OneCurve(mv)
  /\ \A mv \in {0, 2599, 2600, 3100, 3845, 4189, 4190, 4400} :
       \A stat1, stat2 \in {{}, {TRUE}, {FALSE}} :
         /\ G!NeverFullCharging(mv, stat1, stat2)
         /\ LET told == P!Battery({G!Report(mv, G!State(b.stat1, b.stat2)) : b \in G!OpenPower({<<mv>>}, stat1, stat2)})
            IN told.level = {101} <=> ~G!Present(mv) /\ told.volts = {}
         /\ P!Battery(G!OpenPower({}, stat1, stat2)) = [level |-> {}, volts |-> {}]
  /\ \A a, b \in {36000, 42000, 52000, 54000} : G!OneInSo(<<a, a, b, a>>, 40000)
=============================================================================
