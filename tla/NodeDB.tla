-------------------------------- MODULE NodeDB --------------------------------
(***************************************************************************)
(* The node database: a table of Limit rows written in place (roster.rs),  *)
(* the names kept beside it (nodedb.py), and the saved copy a restart      *)
(* reads back (meshcache.py).  The saved copy is a set of records whose    *)
(* order in flash is that of their `seen`; the two name dictionaries, which *)
(* every operation treats alike, are one; hardware model and role are one   *)
(* `id`; `forgotten`, a figure to display, is left out.  A save made under a  *)
(* hold is one step; the one stop() makes is not, and the radio's callback   *)
(* may file a packet between any two of its steps.  How the flash itself     *)
(* can cut a save short is not this module's subject.                       *)
(***************************************************************************)
EXTENDS Integers, FiniteSets, Functions

CONSTANTS
  Peers,      \* the other nodes' numbers
  Free,       \* node number 0, which marks a row free
  Senders,    \* what the sender field of a frame holds
  Names,      \* names a node may claim
  Ids,        \* hardware and role it may claim
  Unset,      \* the id of a node that has claimed none
  Absent,     \* no name; a field the message leaves out
  Limit,      \* rows (MAX_NODES)
  CountMax,   \* the largest sighting count (65535)
  Room,       \* units of flash the saved peers may take (NODE_BYTES)
  MaxTicks    \* bound: sightings and restored peers since the start

ASSUME NodeDBOK ==
  /\ Free \notin Peers
  /\ Senders \subseteq Peers \cup {Free}
  /\ Unset \notin Ids
  /\ Absent \notin Names \cup Ids \cup {Unset}
  /\ Limit \in Nat \ {0}
  /\ CountMax \in Nat \ {0}
  /\ Room \in Nat
  /\ MaxTicks \in Nat

VARIABLES
  table,      \* the rows
  names,      \* _short and _long
  used,       \* _used
  tick,       \* _tick
  strays,     \* packets from node 0 filed since the rows were last cleared
  dirty,      \* whether a saved copy would be behind
  saved,      \* the records in flash
  left,       \* while starting: the records still to be put back
  stage,      \* "loading" or "up"
  saving,     \* stop()'s save: "no", "reading" the peers, or "wrote"
  views,      \* the peers it has still to read, as roster() listed them
  got,        \* the records it has read
  slipped     \* a packet was filed during such a save, and no held save since

book     == <<table, names, used, tick, strays>>
stopping == <<saving, views, got>>
vars     == <<book, dirty, saved, left, stage, stopping, slipped>>

Rows   == 1..Limit
Row    == [num: Peers \cup {Free}, seen: Nat, count: 0..CountMax, id: Ids \cup {Unset}]
Record == [num: Peers \cup {Free}, seen: Nat, count: 0..CountMax, id: Ids \cup {Unset},
           name: Names \cup {Absent}]
View   == [num: Peers, at: Rows, seen: Nat]
Claim  == [name: Names \cup {Absent}, id: Ids \cup {Absent}]

TypeOK ==
  /\ table \in [Rows -> Row]
  /\ names \in [Peers -> Names \cup {Absent}]
  /\ used \in Nat
  /\ tick \in Nat
  /\ strays \in Nat
  /\ dirty \in BOOLEAN
  /\ saved \subseteq Record
  /\ left \subseteq saved
  /\ stage \in {"loading", "up"}
  /\ saving \in {"no", "reading", "wrote"}
  /\ views \subseteq View
  /\ got \subseteq Record
  /\ slipped \in BOOLEAN

EmptyRow == [num |-> Free, seen |-> 0, count |-> 0, id |-> Unset]
NoRows   == [i \in Rows |-> EmptyRow]
NoNames  == [n \in Peers |-> Absent]

Init ==
  /\ table = NoRows /\ names = NoNames
  /\ used = 0 /\ tick = 0 /\ strays = 0
  /\ dirty = FALSE
  /\ saved = {} /\ left = {}
  /\ stage = "loading"
  /\ saving = "no" /\ views = {} /\ got = {}
  /\ slipped = FALSE

-----------------------------------------------------------------------------
(* The scans of roster.rs over a table t.  A row one of them finds is       *)
(* written as the set of that row.                                          *)
Occupied(t) == {i \in Rows : t[i].num # Free}
At(t, n)    == {i \in Rows : t[i].num = n}
First(S)    == {i \in S : \A j \in S : i <= j}

Has(t, n) == n # Free /\ At(t, n) # {}      \* slot() finds a row
Full(t)   == At(t, Free) = {}               \* free() finds none

\* oldest(): the least `seen`, the first such row.
Oldest(t) ==
  {i \in Occupied(t) : \A j \in Occupied(t) :
     t[i].seen < t[j].seen \/ (t[i].seen = t[j].seen /\ i <= j)}

\* Fault: the first row of the table makes room.
PlaceFirst(t, n) ==
  IF Has(t, n) THEN First(At(t, n))
  ELSE IF ~Full(t) THEN First(At(t, Free))
  ELSE First(Occupied(t))

\* Where a sighting of n is written.
Place(t, n) ==
  IF Has(t, n) THEN First(At(t, n))
  ELSE IF ~Full(t) THEN First(At(t, Free))
  ELSE Oldest(t)

\* The count is a u16 that stops at its largest.
Capped(c) == IF c < CountMax THEN c + 1 ELSE c

\* touch(): a free row takes the number; count and seen move.
Touched(row, n, k) ==
  [num |-> IF row.num = Free THEN n ELSE row.num, seen |-> k,
   count |-> Capped(row.count), id |-> row.id]

Evicts(n) == ~Has(table, n) /\ Full(table)

\* Fault: a row taken over from another node is nobody's first sighting.
FreshRow(n) == ~Has(table, n) /\ ~Full(table)

\* touch() was given a free row, which it then reports as a new peer.
Fresh(n) == ~Has(table, n)

\* Fault: the names of the node that made room stay behind.
NamesKept(n, at) == names

\* _forget: the names of the node that makes room go with its row, which is
\* cleared whole.
NamesLeft(n, at) ==
  IF Evicts(n) THEN [names EXCEPT ![table[at].num] = Absent] ELSE names

\* Fault: the count goes past its width.
HeardUncapped(n, at) ==
  LET row == IF Evicts(n) THEN EmptyRow ELSE table[at] IN
  [table EXCEPT ![at] = [Touched(row, n, tick + 1) EXCEPT !.count = row.count + 1]]

Heard(n, at) ==
  [table EXCEPT ![at] = Touched(IF Evicts(n) THEN EmptyRow ELSE @, n, tick + 1)]

Said(old, new) == IF new = Absent THEN old ELSE new

\* Fault: a name is not worth a save.
ChangesId(id, name, claim) == Said(id, claim.id) # id

\* learn() found something a saved copy would not have.
Changes(id, name, claim) == Said(id, claim.id) # id \/ Said(name, claim.name) # name

\* Node._receive: heard, then learn when the payload is a nodeinfo.  A packet
\* from node 0 is filed as any other: it takes the first free row, or clears
\* the oldest, and counts as a peer, but the row it leaves is still free.
Receive(n, claim) ==
  /\ stage = "up" /\ tick < MaxTicks
  /\ \E at \in Place(table, n) :
       LET t  == Heard(n, at)
           ns == NamesLeft(n, at)
       IN IF n = Free   \* learn finds no row
            THEN /\ table' = t /\ names' = ns
                 /\ dirty' = (dirty \/ Fresh(n))
            ELSE /\ table' = [t EXCEPT ![at].id = Said(@, claim.id)]
                 /\ names' = [ns EXCEPT ![n] = Said(@, claim.name)]
                 /\ dirty' = (dirty \/ Fresh(n) \/ Changes(t[at].id, ns[n], claim))
  /\ tick' = tick + 1
  /\ used' = used + (IF Fresh(n) THEN 1 ELSE 0) - (IF Evicts(n) THEN 1 ELSE 0)
  /\ strays' = strays + (IF n = Free THEN 1 ELSE 0)
  /\ slipped' = (slipped \/ saving # "no")
  /\ UNCHANGED <<saved, left, stage, stopping>>

\* forget_all, from an admin message.
ForgetAll ==
  /\ stage = "up" /\ saving = "no"
  /\ table' = NoRows /\ names' = NoNames /\ used' = 0 /\ strays' = 0
  /\ dirty' = TRUE
  /\ UNCHANGED <<tick, saved, left, stage, stopping, slipped>>

\* A full factory reset: the saved copy goes too, and nothing is owed to flash.
FactoryReset ==
  /\ stage = "up" /\ saving = "no"
  /\ table' = NoRows /\ names' = NoNames /\ used' = 0 /\ strays' = 0
  /\ saved' = {} /\ dirty' = FALSE /\ slipped' = FALSE
  /\ UNCHANGED <<tick, left, stage, stopping>>

-----------------------------------------------------------------------------
(* The saved copy.                                                         *)
ViewOf(i) == [num |-> table[i].num, at |-> i, seen |-> table[i].seen]

\* What _peer_record makes of a view.  The number, the count and the id are
\* those of the row as it now is, the name that of the number the view was
\* made with, the place among the records that of roster()'s sort.
ReadAs(v) ==
  [num |-> table[v.at].num, seen |-> v.seen, count |-> table[v.at].count,
   id |-> table[v.at].id, name |-> names[v.num]]

RecordOf(i) == ReadAs(ViewOf(i))

Records == {RecordOf(i) : i \in Occupied(table)}

Size(r) == IF r.name = Absent THEN 1 ELSE 2   \* a record with a name is longer

Weight(S) == SumFunctionOnSet([q \in S |-> Size(q)], S)

\* _fill, newest first: up to the first record that does not fit.
Newer(S, r) == {q \in S : q.seen >= r.seen}
Fitting(S)  == {r \in S : Weight(Newer(S, r)) <= Room}

\* cache_save under a hold, at once or by the autosave deadline, dirty or forced.
Save ==
  /\ stage = "up" /\ saving = "no"
  /\ saved' = Fitting(Records)
  /\ dirty' = FALSE /\ slipped' = FALSE
  /\ UNCHANGED <<book, left, stage, stopping>>

\* stop() calls it under none.  roster() lists the peers, in one step here.
StopLook ==
  /\ stage = "up" /\ saving = "no"
  /\ saving' = "reading"
  /\ views' = {ViewOf(i) : i \in Occupied(table)}
  /\ got' = {}
  /\ UNCHANGED <<book, dirty, saved, left, stage, slipped>>

\* _fill takes the newest that is left, reading it in one step; the first
\* that does not fit ends the list.
ReadPeer ==
  /\ saving = "reading"
  /\ \E v \in views :
       /\ \A w \in views : w.seen <= v.seen
       /\ IF Weight(got \cup {ReadAs(v)}) <= Room
            THEN got' = got \cup {ReadAs(v)} /\ views' = views \ {v}
            ELSE got' = got /\ views' = {}
  /\ UNCHANGED <<book, dirty, saved, left, stage, saving, slipped>>

StopWrite ==
  /\ saving = "reading" /\ views = {}
  /\ saving' = "wrote" /\ saved' = got /\ got' = {}
  /\ UNCHANGED <<book, dirty, left, stage, views, slipped>>

StopDone ==
  /\ saving = "wrote"
  /\ saving' = "no" /\ dirty' = FALSE
  /\ UNCHANGED <<book, saved, left, stage, views, got, slipped>>

\* ctrl-C, or no memory, before the flash is written or after.
StopFails ==
  /\ saving # "no"
  /\ saving' = "no" /\ views' = {} /\ got' = {}
  /\ UNCHANGED <<book, dirty, saved, left, stage, slipped>>

\* A reset: memory is gone, cache_load starts over the records.
Restart ==
  /\ table' = NoRows /\ names' = NoNames
  /\ used' = 0 /\ tick' = 0 /\ strays' = 0 /\ dirty' = FALSE
  /\ left' = saved /\ stage' = "loading"
  /\ saving' = "no" /\ views' = {} /\ got' = {}
  /\ UNCHANGED <<saved, slipped>>

\* restore(): records come back oldest first, into the first free row; one
\* of number 0, whose number is already there, or that finds no room, is
\* passed over.
Restore(r) ==
  /\ stage = "loading"
  /\ \A q \in left : r.seen <= q.seen
  /\ left' = left \ {r}
  /\ IF r.num = Free \/ Has(table, r.num) \/ Full(table)
       THEN UNCHANGED <<table, names, used, tick>>
       ELSE /\ tick' = tick + 1
            /\ \E at \in First(At(table, Free)) :
                 table' = [table EXCEPT ![at] =
                   [num |-> r.num, seen |-> tick + 1, count |-> r.count, id |-> r.id]]
            /\ names' = [names EXCEPT ![r.num] = Said(@, r.name)]
            /\ used' = used + 1
  /\ UNCHANGED <<strays, dirty, saved, stage, stopping, slipped>>

\* The end of cache_load.
Loaded ==
  /\ stage = "loading" /\ left = {}
  /\ stage' = "up"
  /\ dirty' = FALSE
  /\ UNCHANGED <<book, saved, left, stopping, slipped>>

Next ==
  \/ \E n \in Senders, claim \in Claim : Receive(n, claim)
  \/ ForgetAll \/ FactoryReset \/ Save \/ Restart \/ Loaded
  \/ StopLook \/ ReadPeer \/ StopWrite \/ StopDone \/ StopFails
  \/ \E r \in left : Restore(r)

Spec == Init /\ [][Next]_vars

-----------------------------------------------------------------------------
(* Properties.                                                             *)

\* No node has two rows, and no two rows tie in age, so that which row is
\* evicted never falls to the row order (roster.rs:132).
OneRowEach ==
  \A i, j \in Occupied(table) : i # j =>
    table[i].num # table[j].num /\ table[i].seen # table[j].seen

\* Names belong to nodes that have a row: however many strangers go by, the
\* dictionaries are bounded as the table is.
NamesHaveRows == \A n \in Peers : names[n] # Absent => Has(table, n)

\* `_used`, which len() reports, is the number of occupied rows and, as a row
\* given to node 0 stays free, one too many for each of its packets.
Counted == used = Cardinality(Occupied(table)) + strays

\* The rows, the names and the counter, which every arrival of a stranger at a
\* full table moves together, stay in step.
RowsSound == OneRowEach /\ NamesHaveRows /\ Counted

\* `dirty` is down only while the flash has nothing false in it: every saved
\* record still says who that node is.  A packet filed during the save of
\* stop() can break this, as it is not covered by a hold (mesh.py:441), until
\* the next save that is.
Fact(r) == [num |-> r.num, id |-> r.id, name |-> r.name]
Facts(S) == {Fact(r) : r \in S}

CleanIsTrue ==
  stage = "up" /\ ~dirty /\ ~slipped => Facts(saved) \subseteq Facts(Records)

\* And nothing it should have is missing from it, if all of it fits.
CleanIsWhole ==
  stage = "up" /\ ~dirty /\ ~slipped /\ Fitting(Records) = Records =>
    Facts(Records) \subseteq Facts(saved)

\* The records of S in the order of their `seen`: the i-th has i - 1 before it.
Older(S, r) == {q \in S : q.seen < r.seen}
InOrder(S) ==
  [i \in 1..Cardinality(S) |-> CHOOSE r \in S : Cardinality(Older(S, r)) = i - 1]

Shown(r) == [num |-> r.num, count |-> r.count, id |-> r.id, name |-> r.name]
Listed(S) == [i \in 1..Cardinality(S) |-> Shown(InOrder(S)[i])]

\* The sightings that the next stranger's count starts from.
Spare(t) == IF Full(t) THEN 0 ELSE t[CHOOSE i \in First(At(t, Free)) : TRUE].count

Promise == INSTANCE Recent WITH
  known <- Listed(Records), kept <- Listed(saved), todo <- Listed(left),
  up <- (stage = "up"), spare <- Spare(table)

\* The table, its counters and its evictions, the ticks and the saved copy
\* come to what the module promises: least recently heard out first, every
\* entry its own, and the order kept over a restart; the save of stop(), too,
\* is the list's, if no packet is filed during it.
RefinesRecent ==
  Promise!Init /\ [][slipped \/ slipped' \/ Promise!Next]_(Promise!vars)

=============================================================================
