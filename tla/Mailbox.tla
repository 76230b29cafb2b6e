------------------------------- MODULE Mailbox -------------------------------
(***************************************************************************)
(* What the inbox promises (inbox.py:1): the newest messages whole, up to a *)
(* number and a size, oldest out first; read once somebody has read that   *)
(* conversation; and the same list again after a reset, as far as it was   *)
(* saved.                                                                  *)
(***************************************************************************)
EXTENDS Integers, Sequences, SequencesExt

CONSTANTS Wheres, All, Texts, Readable(_), Limit, Cap, Fixed, MaxText, Room, Overhead

VARIABLES
  box,     \* messages, oldest first
  kept,    \* the list as saved
  todo,    \* what a restart has still to bring back
  up

Message(w, t, r) == [where |-> w, text |-> t, read |-> r]

Init == box = <<>> /\ kept = <<>> /\ todo = <<>> /\ up = FALSE

Cost(s, fixed) == FoldSeq(LAMBDA m, n : n + fixed + Len(m.text), 0, s)

\* p is as much of the recent end of s as Fits accepts.
LongestEnd(p, s, Fits(_)) ==
  LET End(n) == SubSeq(s, Len(s) - n + 1, Len(s))
  IN /\ Len(p) <= Len(s) /\ p = End(Len(p))
     /\ Fits(p)
     /\ Len(p) < Len(s) => ~Fits(End(Len(p) + 1))

\* c is the longest readable beginning of t a message may keep.
LongestCut(c, t) ==
  LET fits == {n \in 0..Len(t) : n <= MaxText /\ Readable(SubSeq(t, 1, n))}
  IN \E n \in fits : c = SubSeq(t, 1, n) /\ \A o \in fits : o <= n

\* The new message comes last; the oldest go until there is place for it.
Deliver ==
  /\ UNCHANGED <<kept, todo, up>>
  /\ up
  /\ box' # <<>>
  /\ LET m == Last(box')
         Holds(p) == Len(p) < Limit /\ Cost(Append(p, m), Fixed) <= Cap
     IN /\ m.where \in Wheres /\ ~m.read
        /\ \E t \in Texts : Readable(t) /\ LongestCut(m.text, t)
        /\ LongestEnd(Front(box'), box, Holds)

Look(want) ==
  /\ UNCHANGED <<kept, todo, up>>
  /\ up
  /\ LET Seen(s) == [i \in DOMAIN s |-> IF want \in {All, s[i].where}
                                        THEN [s[i] EXCEPT !.read = TRUE] ELSE s[i]]
     IN box' = Seen(box)

Erase == up /\ box' = <<>> /\ kept' = <<>> /\ UNCHANGED <<todo, up>>

Keep ==
  /\ UNCHANGED <<box, todo, up>>
  /\ up
  /\ LongestEnd(kept', box, LAMBDA p : Cost(p, Overhead) <= Room)

Reset == box' = <<>> /\ todo' = kept /\ up' = FALSE /\ UNCHANGED kept

Recall ==
  /\ ~up /\ todo # <<>>
  /\ box' = Append(box, Head(todo)) /\ todo' = Tail(todo)
  /\ UNCHANGED <<kept, up>>

Ready == ~up /\ todo = <<>> /\ up' = TRUE /\ UNCHANGED <<box, kept, todo>>

Next ==
  \/ Deliver
  \/ \E want \in Wheres \cup {All} : Look(want)
  \/ Erase \/ Keep \/ Reset \/ Recall \/ Ready

Spec == Init /\ [][Next]_<<box, kept, todo, up>>

=============================================================================
