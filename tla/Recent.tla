-------------------------------- MODULE Recent --------------------------------
(***************************************************************************)
(* What the node database promises (nodedb.py:200): the most recently heard *)
(* nodes, bounded, the one heard longest ago dropped for a stranger, and    *)
(* the same list in the same order after a restart, as far as it was saved. *)
(***************************************************************************)
EXTENDS Integers, Sequences, SequencesExt

CONSTANTS Peers, Names, Ids, Unset, Absent, Limit, CountMax, Room

VARIABLES
  known,   \* entries, longest ago first
  kept,    \* the list as saved
  todo,    \* what a restart has still to bring back
  up,
  spare    \* packets from nobody (number 0) since the last stranger came

vars == <<known, kept, todo, up, spare>>

Entry(n, c, i, m) == [num |-> n, count |-> c, id |-> i, name |-> m]

Init == known = <<>> /\ kept = <<>> /\ todo = <<>> /\ up = FALSE /\ spare = 0

Capped(c) == IF c < CountMax THEN c + 1 ELSE c

\* The entry of a node that is heard once more.
Told(e, id, name) ==
  Entry(e.num, Capped(e.count),
        IF id = Absent THEN e.id ELSE id,
        IF name = Absent THEN e.name ELSE name)

\* A sighting of a node that is known moves it last.
Moved(list) ==
  {Append(RemoveAt(list, i), Told(list[i], id, name)) :
     i \in DOMAIN list, id \in Ids \cup {Absent}, name \in Names \cup {Absent}}

Again ==
  /\ up
  /\ known' \in Moved(known)
  /\ UNCHANGED <<kept, todo, up, spare>>

\* A stranger comes last; only a full list loses its first.  It is credited
\* with what nobody sent.
Strangers(list) == {n \in Peers : \A i \in DOMAIN list : list[i].num # n}

Joined(list, count) ==
  {Append(IF Len(list) = Limit THEN Tail(list) ELSE list,
          Told(Entry(n, count, Unset, Absent), id, name)) :
     n \in Strangers(list), id \in Ids \cup {Absent}, name \in Names \cup {Absent}}

Meet ==
  /\ up
  /\ known' \in Joined(known, spare)
  /\ spare' = 0
  /\ UNCHANGED <<kept, todo, up>>

\* A packet from nobody is no entry, and costs a full list its first.
Nobody ==
  /\ up
  /\ known' = IF Len(known) = Limit THEN Tail(known) ELSE known
  /\ spare' = Capped(spare)
  /\ UNCHANGED <<kept, todo, up>>

Forget == up /\ known' = <<>> /\ spare' = 0 /\ UNCHANGED <<kept, todo, up>>

Erase ==
  up /\ known' = <<>> /\ kept' = <<>> /\ spare' = 0 /\ UNCHANGED <<todo, up>>

Cost(s) == SumFunction([i \in DOMAIN s |-> IF s[i].name = Absent THEN 1 ELSE 2])

\* The longest recent part of the list that fits.
Keep ==
  /\ up
  /\ UNCHANGED <<known, todo, up, spare>>
  /\ \E k \in 1..Len(known) + 1 :
       LET part == SubSeq(known, k, Len(known)) IN
       /\ Cost(part) <= Room
       /\ k > 1 => Cost(SubSeq(known, k - 1, Len(known))) > Room
       /\ kept' = part

Reset ==
  known' = <<>> /\ todo' = kept /\ up' = FALSE /\ spare' = 0 /\ UNCHANGED kept

Recall ==
  /\ ~up /\ todo # <<>>
  /\ known' = Append(known, Head(todo))
  /\ todo' = Tail(todo)
  /\ UNCHANGED <<kept, up, spare>>

Ready ==
  ~up /\ todo = <<>> /\ up' = TRUE /\ UNCHANGED <<known, kept, todo, spare>>

Next ==
  \/ Reset \/ Recall \/ Ready
  \/ Again \/ Meet \/ Nobody \/ Forget \/ Erase \/ Keep

Spec == Init /\ [][Next]_vars

=============================================================================
